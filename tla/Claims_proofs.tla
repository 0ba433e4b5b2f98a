---------------------------- MODULE Claims_proofs ----------------------------
(***************************************************************************)
(* Claims exclude and never leak. Both facts follow from the types of the  *)
(* actors alone, so they are proved for every step of the reconciler,      *)
(* whatever the counters say. A step of the claims is one of eight kinds:  *)
(* an actor takes a free name, goes on holding its name, leaves it, or     *)
(* does not touch the claims - a started pass or the timer. The second     *)
(* half is about the counters: the wait group and those of the quota       *)
(* gauges count what they are meant to count, in every interleaving; from  *)
(* that follow what a finished drain means, that nothing is added to a     *)
(* group that is waited on, and that the gauges are published exactly once *)
(* per quiet period.                                                       *)
(***************************************************************************)
EXTENDS ClaimsInvariant, FiniteSetTheorems, TLAPS

-----------------------------------------------------------------------------
(* Types                                                                   *)

WorkersTyped == worker \in [Workers -> WorkerType]
TriggersTyped == trigger \in [Triggers -> TriggerType]
TimerTyped == timer \in TimerType
StoreTyped == known \subseteq Names /\ left \subseteq Names /\ marked \subseteq Names
LifeTyped == proc \in {"up", "draining", "drained", "late"} /\ cancelled \in BOOLEAN

\* TypeOK without the counters: they are natural numbers because of what they
\* count, which is proved in Claims_counter_proofs.
Typed ==
    /\ want \subseteq Names /\ StoreTyped /\ running \subseteq Names
    /\ published \in BOOLEAN /\ owed \in BOOLEAN
    /\ WorkersTyped /\ TriggersTyped /\ TimerTyped /\ LifeTyped
    /\ mishaps \in 0..MaxMishaps

\* The bound on mishaps is kept by a step that is one and by one that is none.
LEMMA MishapCounted ==
    ASSUME mishaps \in 0..MaxMishaps, Works \/ \E f \in Faults : Mishap(f)
    PROVE  mishaps' \in 0..MaxMishaps
BY BoundsAssumption DEF Works, Mishap

\* A started pass that only moves on keeps its name, and the others are as
\* they were.
LEMMA WorkerMoves ==
    ASSUME WorkersTyped, NEW w \in Workers, NEW p, SetWorker(w, p)
    PROVE  /\ worker'[w].pc = p /\ worker'[w].name = worker[w].name
           /\ \A v \in Workers : v # w => worker'[v] = worker[v]
           /\ p \in {"free", "done"} \cup HoldingPcs => WorkersTyped'
BY DEF WorkersTyped, WorkerType, SetWorker

\* What SetTrigger does to the request and to its type.
LEMMA TriggerMoves ==
    ASSUME TriggersTyped, NEW t \in Triggers, NEW p, NEW n, NEW s, SetTrigger(t, p, n, s)
    PROVE  /\ trigger'[t].pc = p /\ trigger'[t].name = n /\ trigger'[t].todo = s
           /\ \A u \in Triggers : u # t => trigger'[u] = trigger[u]
           /\ /\ p \in {"idle", "reset", "loop", "claim", "publish"}
              /\ n \in Names \cup {NoName} /\ s \subseteq Names
              => TriggersTyped'
BY DEF TriggersTyped, TriggerType, SetTrigger

\* What SetTimer does to the daemon loop and to its type.
LEMMA TimerMoves ==
    ASSUME TimerTyped, NEW p, NEW n, NEW s, SetTimer(p, n, s)
    PROVE  /\ timer'.pc = p /\ timer'.name = n
           /\ /\ p \in {"due", "idle", "list", "sweep", "walk"} \cup TearingPcs \cup WalkingPcs
              /\ n \in Names \cup {NoName} /\ s \subseteq Names
              => TimerTyped'
BY DEF TimerTyped, TimerType, SetTimer

-----------------------------------------------------------------------------
(* The kinds of steps, as the claims see them                              *)

\* Nobody's holding changes.
NoHandChanges ==
    /\ UNCHANGED running
    /\ \A w \in Workers : /\ Holds(w)' <=> Holds(w)
                          /\ Holds(w) => worker'[w].name = worker[w].name
    /\ TimerHolds' <=> TimerHolds
    /\ TimerHolds => timer'.name = timer.name

\* A started pass takes the free name n; or gives its name back.
WorkerTakes(w, n) ==
    /\ n \notin running /\ running' = running \cup {n}
    /\ ~Holds(w) /\ Holds(w)' /\ worker'[w].name = n
    /\ \A v \in Workers : v # w => worker'[v] = worker[v]
    /\ UNCHANGED timer
WorkerLetsGo(w) ==
    /\ running' = running \ {worker[w].name}
    /\ Holds(w) /\ ~Holds(w)'
    /\ \A v \in Workers : v # w => worker'[v] = worker[v]
    /\ UNCHANGED timer

\* The daemon loop takes the free name n; or gives its name back.
TimerTakes(n) ==
    /\ n \notin running /\ running' = running \cup {n}
    /\ ~TimerHolds /\ TimerHolds' /\ timer'.name = n
    /\ UNCHANGED worker
TimerLetsGo ==
    /\ running' = running \ {timer.name}
    /\ TimerHolds /\ ~TimerHolds'
    /\ UNCHANGED worker

\* Nobody holds anything any more.
AllGone ==
    /\ running' = {} /\ \A w \in Workers : ~Holds(w)'
    /\ ~TimerHolds'

ClaimStep ==
    \/ NoHandChanges
    \/ \E w \in Workers : WorkerLetsGo(w) \/ \E n \in Names : WorkerTakes(w, n)
    \/ TimerLetsGo \/ \E n \in Names : TimerTakes(n)
    \/ AllGone

\* Every kind of step keeps one holder per claim and one claim per holder.
LEMMA ClaimStepKeeps ==
    ASSUME OneAtATime, NoClaimLeaks, ClaimStep
    PROVE  OneAtATime' /\ NoClaimLeaks'
<1>1. CASE NoHandChanges
  BY <1>1 DEF NoHandChanges, OneAtATime, NoClaimLeaks, Holds, TimerHolds
<1>2. ASSUME NEW w \in Workers, WorkerLetsGo(w)
      PROVE  OneAtATime' /\ NoClaimLeaks'
  BY <1>2 DEF WorkerLetsGo, OneAtATime, NoClaimLeaks, Holds, TimerHolds
<1>3. ASSUME NEW w \in Workers, NEW n \in Names, WorkerTakes(w, n)
      PROVE  OneAtATime' /\ NoClaimLeaks'
  BY <1>3 DEF WorkerTakes, OneAtATime, NoClaimLeaks, Holds, TimerHolds
<1>4. CASE TimerLetsGo
  BY <1>4 DEF TimerLetsGo, OneAtATime, NoClaimLeaks, Holds, TimerHolds
<1>5. ASSUME NEW n \in Names, TimerTakes(n)
      PROVE  OneAtATime' /\ NoClaimLeaks'
  BY <1>5 DEF TimerTakes, OneAtATime, NoClaimLeaks, Holds, TimerHolds
<1>6. CASE AllGone
  BY <1>6 DEF AllGone, OneAtATime, NoClaimLeaks, Holds, TimerHolds
<1> QED
  BY <1>1, <1>2, <1>3, <1>4, <1>5, <1>6 DEF ClaimStep

-----------------------------------------------------------------------------
(* Triggers                                                                *)

\* A trigger leaves the claims alone but for Start, which takes one for a pass;
\* the types and the shape of a registration are kept.
LEMMA TriggerKind ==
    ASSUME Typed, ClaimShape, NEW t \in Triggers, Arrive(t) \/ TriggerStep(t)
    PROVE  Typed' /\ ClaimShape' /\ ClaimStep
<1> USE DEF Typed
<1> trigger[t] \in TriggerType
  BY DEF TriggersTyped
<1>1. CASE Arrive(t)
  <2>1. PICK names \in SUBSET want : SetTrigger(t, "reset", NoName, names)
    BY <1>1 DEF Arrive
  <2>2. TriggersTyped' /\ ClaimShape'
    BY <2>1, TriggerMoves DEF ClaimShape
  <2>3. NoHandChanges
    BY <1>1 DEF Arrive, NoHandChanges, Holds, TimerHolds
  <2> QED
    BY <1>1, <2>2, <2>3 DEF Arrive, store, life, StoreTyped, LifeTyped, WorkersTyped,
       TimerTyped, ClaimStep
<1>2. CASE Reset(t)
  <2>1. PICK s \in SUBSET Names : SetTrigger(t, "loop", NoName, s)
    BY <1>2 DEF Reset, SetTrigger, TriggerType
  <2>2. TriggersTyped' /\ ClaimShape'
    BY <2>1, TriggerMoves DEF ClaimShape
  <2>3. NoHandChanges
    BY <1>2 DEF Reset, NoHandChanges, Holds, TimerHolds
  <2> QED
    BY <1>2, <2>2, <2>3 DEF Reset, store, life, StoreTyped, LifeTyped, WorkersTyped,
       TimerTyped, ClaimStep
<1>3. CASE Register(t)
  <2>1. PICK n \in Names, s \in SUBSET Names : \/ SetTrigger(t, "claim", n, s)
                                                \/ SetTrigger(t, "loop", NoName, {})
    BY <1>3 DEF Register, SetTrigger, TriggerType
  <2>2. TriggersTyped' /\ ClaimShape'
    <3>1. CASE SetTrigger(t, "claim", n, s)
      BY <3>1, TriggerMoves DEF ClaimShape
    <3>2. CASE SetTrigger(t, "loop", NoName, {})
      BY <3>2, TriggerMoves DEF ClaimShape
    <3> QED
      BY <2>1, <3>1, <3>2
  <2>3. NoHandChanges
    BY <1>3 DEF Register, NoHandChanges, Holds, TimerHolds
  <2> QED
    BY <1>3, <2>2, <2>3 DEF Register, store, quota, life, StoreTyped, LifeTyped, WorkersTyped,
       TimerTyped, ClaimStep
<1>4. CASE Skip(t)
  <2>1. PICK s \in SUBSET Names : SetTrigger(t, "loop", NoName, s)
    BY <1>4 DEF Skip, SetTrigger, TriggerType
  <2>2. TriggersTyped' /\ ClaimShape'
    BY <2>1, TriggerMoves DEF ClaimShape
  <2>3. NoHandChanges
    BY <1>4 DEF Skip, NoHandChanges, Holds, TimerHolds
  <2> QED
    BY <1>4, <2>2, <2>3 DEF Skip, store, quota, life, StoreTyped, LifeTyped, WorkersTyped,
       TimerTyped, ClaimStep
<1>5. CASE Start(t)
  <2>1. PICK s \in SUBSET Names : SetTrigger(t, "loop", NoName, s)
    BY <1>5 DEF Start, SetTrigger, TriggerType
  <2>2. TriggersTyped' /\ ClaimShape'
    BY <2>1, TriggerMoves DEF ClaimShape
  <2> DEFINE n == trigger[t].name
  <2>3. n \in Names
    BY <1>5 DEF ClaimShape, Start
  <2>4. PICK w \in Workers : /\ worker[w].pc = "free"
                             /\ worker' = [worker EXCEPT ![w] = [pc |-> "queued", name |-> n]]
    BY <1>5 DEF Start
  <2>5. WorkersTyped' /\ worker'[w] = [pc |-> "queued", name |-> n]
        /\ \A v \in Workers : v # w => worker'[v] = worker[v]
    BY <2>3, <2>4 DEF WorkersTyped, WorkerType, HoldingPcs
  <2>6. n \notin running /\ running' = running \cup {n} /\ timer' = timer
    BY <1>5 DEF Start, Free, Take
  <2>7. WorkerTakes(w, n)
    BY <2>4, <2>5, <2>6 DEF WorkerTakes, Holds, HoldingPcs
  <2>8. published' = FALSE /\ UNCHANGED <<want, store, owed, timer, life, mishaps>>
    BY <1>5 DEF Start
  <2> QED
    BY <2>2, <2>3, <2>5, <2>6, <2>7, <2>8
    DEF store, life, StoreTyped, LifeTyped, TimerTyped, ClaimStep
<1>6. CASE EndTrigger(t)
  <2>1. PICK p \in {"publish", "idle"} : SetTrigger(t, p, NoName, {})
    BY <1>6 DEF EndTrigger, AfterTrigger, SetTrigger
  <2>2. TriggersTyped' /\ ClaimShape'
    BY <2>1, TriggerMoves DEF ClaimShape
  <2>3. NoHandChanges
    BY <1>6 DEF EndTrigger, NoHandChanges, Holds, TimerHolds
  <2> QED
    BY <1>6, <2>2, <2>3 DEF EndTrigger, store, life, StoreTyped, LifeTyped, WorkersTyped,
       TimerTyped, ClaimStep
<1>7. CASE TriggerPublishes(t)
  <2>1. SetTrigger(t, "idle", NoName, {})
    BY <1>7 DEF TriggerPublishes
  <2>2. TriggersTyped' /\ ClaimShape'
    BY <2>1, TriggerMoves DEF ClaimShape
  <2>3. NoHandChanges
    BY <1>7 DEF TriggerPublishes, NoHandChanges, Holds, TimerHolds
  <2> QED
    BY <1>7, <2>2, <2>3 DEF TriggerPublishes, PublishIfQuiet, store, life, StoreTyped, LifeTyped,
       WorkersTyped, TimerTyped, ClaimStep
<1> QED
  BY <1>1, <1>2, <1>3, <1>4, <1>5, <1>6, <1>7 DEF TriggerStep

-----------------------------------------------------------------------------
(* Started passes                                                          *)

\* A pass in the middle of its work goes on holding its name.
LEMMA WorkerGoesOn ==
    ASSUME WorkersTyped, NEW w \in Workers, NEW p \in HoldingPcs, SetWorker(w, p), Holds(w),
           UNCHANGED <<running, timer>>
    PROVE  WorkersTyped' /\ NoHandChanges
<1>1. /\ worker'[w].pc = p /\ worker'[w].name = worker[w].name
      /\ \A v \in Workers : v # w => worker'[v] = worker[v]
      /\ WorkersTyped'
  BY WorkerMoves
<1> QED
  BY <1>1 DEF NoHandChanges, Holds, TimerHolds

\* A started pass goes on, or gives its name back at its end.
LEMMA WorkerKind ==
    ASSUME Typed, ClaimShape, OneAtATime, NEW w \in Workers, WorkerStep(w)
    PROVE  Typed' /\ ClaimShape' /\ ClaimStep
<1> USE DEF Typed
<1>0. worker[w] \in WorkerType
  BY DEF WorkersTyped
<1>t. UNCHANGED trigger
  BY DEF WorkerStep, AfterPass, TakeSlot, Abandon, WorkerReconciles, WorkerReturns, WorkerReports,
     Uncount, WorkerPublishes, WorkerReleases, Done
<1>c. ClaimShape' /\ TriggersTyped'
  BY <1>t DEF ClaimShape, TriggersTyped
<1>1. CASE TakeSlot(w)
  <2>1. WorkersTyped' /\ NoHandChanges
    BY <1>1, WorkerGoesOn DEF TakeSlot, HoldingPcs, Holds
  <2> QED
    BY <1>1, <1>c, <2>1 DEF TakeSlot, store, quota, life, StoreTyped, LifeTyped, TimerTyped,
       ClaimStep
<1>2. CASE Abandon(w)
  <2>1. WorkersTyped' /\ NoHandChanges
    BY <1>2, WorkerGoesOn DEF Abandon, HoldingPcs, Holds
  <2> QED
    BY <1>2, <1>c, <2>1 DEF Abandon, store, quota, life, StoreTyped, LifeTyped, TimerTyped,
       ClaimStep
<1>3. CASE WorkerReconciles(w)
  <2>1. worker[w].name \in Names
    BY <1>3 DEF WorkerReconciles, OneAtATime, Holds, HoldingPcs
  <2>2. NoHandChanges
    BY <1>3 DEF WorkerReconciles, NoHandChanges, Holds, TimerHolds
  <2> QED
    BY <1>3, <1>c, <2>1, <2>2 DEF WorkerReconciles, Reconciles, quota, life, StoreTyped, LifeTyped,
       TimerTyped, WorkersTyped, ClaimStep
<1>4. CASE WorkerReturns(w)
  <2>1. WorkersTyped' /\ NoHandChanges
    BY <1>4, WorkerGoesOn DEF WorkerReturns, HoldingPcs, Holds
  <2> QED
    <3>1. worker[w].name \in Names
      BY <1>4 DEF WorkerReturns, OneAtATime, Holds, HoldingPcs
    <3>2. known' \subseteq Names
      BY <1>4, <3>1 DEF WorkerReturns, Returns, StoreTyped
    <3>3. mishaps' \in 0..MaxMishaps
      BY <1>4, MishapCounted DEF WorkerReturns, Returns, Works, Mishap
    <3> QED
      BY <1>4, <1>c, <2>1, <3>2, <3>3 DEF WorkerReturns, quota, life, StoreTyped, LifeTyped,
         TimerTyped, ClaimStep
<1>5. CASE WorkerReports(w)
  <2>1. WorkersTyped' /\ NoHandChanges
    BY <1>5, WorkerGoesOn DEF WorkerReports, HoldingPcs, Holds
  <2> QED
    <3>1. marked' \subseteq Names
      BY <1>5 DEF WorkerReports, ClearsMark, StoreTyped
    <3>2. mishaps' \in 0..MaxMishaps
      BY <1>5, MishapCounted DEF WorkerReports, ClearsMark, Works, Mishap
    <3> QED
      BY <1>5, <1>c, <2>1, <3>1, <3>2 DEF WorkerReports, quota, life, StoreTyped, LifeTyped,
         TimerTyped, ClaimStep
<1>6. CASE Uncount(w)
  <2>1. WorkersTyped' /\ NoHandChanges
    BY <1>6, WorkerGoesOn DEF Uncount, HoldingPcs, Holds
  <2> QED
    BY <1>6, <1>c, <2>1 DEF Uncount, store, life, StoreTyped, LifeTyped, TimerTyped, ClaimStep
<1>7. CASE WorkerPublishes(w)
  <2>1. WorkersTyped' /\ NoHandChanges
    BY <1>7, WorkerGoesOn DEF WorkerPublishes, HoldingPcs, Holds
  <2> QED
    BY <1>7, <1>c, <2>1 DEF WorkerPublishes, PublishIfQuiet, store, life, StoreTyped, LifeTyped,
       TimerTyped, ClaimStep
<1>8. CASE WorkerReleases(w)
  <2>1. /\ worker'[w].pc = "done"
        /\ \A v \in Workers : v # w => worker'[v] = worker[v]
        /\ WorkersTyped'
    BY <1>8, WorkerMoves DEF WorkerReleases
  <2>2. WorkerLetsGo(w)
    BY <1>8, <2>1 DEF WorkerReleases, GiveBack, WorkerLetsGo, Holds, HoldingPcs
  <2> QED
    BY <1>8, <1>c, <2>1, <2>2 DEF WorkerReleases, GiveBack, store, quota, life, StoreTyped,
       LifeTyped, TimerTyped, ClaimStep
<1>9. CASE Done(w)
  <2>1. /\ worker'[w].pc = "free"
        /\ \A v \in Workers : v # w => worker'[v] = worker[v]
        /\ WorkersTyped'
    BY <1>9 DEF Done, NoWorker, WorkersTyped, WorkerType
  <2>2. NoHandChanges
    BY <1>9, <2>1 DEF Done, NoHandChanges, Holds, TimerHolds, HoldingPcs
  <2> QED
    BY <1>9, <1>c, <2>1, <2>2 DEF Done, store, quota, life, StoreTyped, LifeTyped, TimerTyped,
       ClaimStep
<1> QED
  BY <1>1, <1>2, <1>3, <1>4, <1>5, <1>6, <1>7, <1>8, <1>9 DEF WorkerStep, AfterPass

-----------------------------------------------------------------------------
(* The daemon loop                                                         *)

\* Between two names the loop holds nothing and touches no claim.
LEMMA TimerIdles ==
    ASSUME TimerTyped, UNCHANGED <<running, worker>>,
           timer.pc \in {"due", "idle", "list", "sweep", "walk"},
           timer'.pc \in {"due", "idle", "list", "sweep", "walk"}
    PROVE  NoHandChanges
BY DEF NoHandChanges, Holds, TimerHolds, TearingPcs, WalkingPcs

\* The loop goes on holding the name it is at.
LEMMA TimerGoesOn ==
    ASSUME TimerTyped, NEW p \in TearingPcs \cup WalkingPcs, TimerHolds,
           SetTimer(p, timer.name, timer.todo), UNCHANGED <<running, worker>>
    PROVE  TimerTyped' /\ NoHandChanges
BY DEF TimerTyped, TimerType, SetTimer, NoHandChanges, Holds, TimerHolds, TearingPcs, WalkingPcs

\* A round's sweep: types are kept and the claims see one of their kinds.
LEMMA SweepKind ==
    ASSUME Typed, ClaimShape, OneAtATime, Sweep
    PROVE  Typed' /\ ClaimShape' /\ ClaimStep
<1> USE DEF Typed
<1>0. timer \in TimerType
  BY DEF TimerTyped
<1>t. UNCHANGED <<want, trigger, worker, bg, quota, life>>
  BY DEF Sweep, ListOrphans, SweepPast, SweepClaims, CleanupOrphan, MarkCleaned, LeaveOrphan,
     EndSweep
<1>c. /\ ClaimShape' /\ TriggersTyped' /\ WorkersTyped' /\ LifeTyped' /\ want' \subseteq Names
      /\ published' \in BOOLEAN /\ owed' \in BOOLEAN
  BY <1>t DEF ClaimShape, TriggersTyped, WorkersTyped, LifeTyped, quota, life
<1>n. TimerHolds => timer.name \in Names
  BY DEF OneAtATime
<1>1. CASE ListOrphans
  <2>1. TimerTyped' /\ timer'.pc \in {"sweep", "walk"}
    BY <1>0, <1>1 DEF ListOrphans, StartWalk, NewTimer, TimerTyped, TimerType, StoreTyped
  <2>2. NoHandChanges
    BY <1>1, <2>1, <1>t, TimerIdles DEF ListOrphans
  <2>3. mishaps' \in 0..MaxMishaps
    BY <1>1, MishapCounted DEF ListOrphans, Works, Mishap
  <2> QED
    BY <1>1, <1>c, <2>1, <2>2, <2>3 DEF ListOrphans, store, StoreTyped, ClaimStep
<1>2. CASE SweepPast
  <2>1. PICK s \in SUBSET Names : SetTimer("sweep", NoName, s)
    BY <1>0, <1>2 DEF SweepPast, SetTimer, TimerType
  <2>2. TimerTyped' /\ timer'.pc = "sweep"
    BY <2>1, TimerMoves
  <2>3. NoHandChanges
    BY <1>2, <2>2, <1>t, TimerIdles DEF SweepPast
  <2>4. marked' \subseteq Names
    BY <1>2 DEF SweepPast, ClearsMark, StoreTyped
  <2>5. mishaps' \in 0..MaxMishaps
    BY <1>2, MishapCounted DEF SweepPast, ClearsMark, Works, Mishap
  <2> QED
    BY <1>2, <1>c, <2>2, <2>3, <2>4, <2>5 DEF SweepPast, StoreTyped, ClaimStep
<1>3. CASE SweepClaims
  <2>1. PICK n \in timer.todo : ClaimForTeardown(n) /\ SetTimer("cleanup", n, timer.todo \ {n})
    BY <1>3 DEF SweepClaims
  <2>2. n \in Names
    BY <1>0 DEF TimerType
  <2>3. TimerTyped' /\ timer'.pc = "cleanup" /\ timer'.name = n
    BY <1>0, <2>1, <2>2 DEF SetTimer, TimerTyped, TimerType, TearingPcs
  <2>4. TimerTakes(n)
    BY <1>3, <1>t, <2>1, <2>3
    DEF SweepClaims, ClaimForTeardown, Free, Take, TimerTakes, TimerHolds, TearingPcs, WalkingPcs
  <2> QED
    BY <1>3, <1>c, <2>2, <2>3, <2>4 DEF SweepClaims, TimerTakes, store, StoreTyped, ClaimStep
<1>4. CASE CleanupOrphan
  <2>1. TimerHolds
    BY <1>4 DEF CleanupOrphan, TimerHolds, TearingPcs
  <2>2. PICK p \in TearingPcs \cup WalkingPcs : SetTimer(p, timer.name, timer.todo)
    BY <1>4 DEF CleanupOrphan, TearingPcs
  <2>3. TimerTyped' /\ NoHandChanges
    BY <1>4, <1>t, <2>1, <2>2, TimerGoesOn DEF CleanupOrphan
  <2>4. left' \subseteq Names
    BY <1>4 DEF CleanupOrphan, StoreTyped
  <2>5. mishaps' \in 0..MaxMishaps
    BY <1>4, MishapCounted DEF CleanupOrphan, Works, Mishap
  <2> QED
    BY <1>4, <1>c, <2>3, <2>4, <2>5 DEF CleanupOrphan, StoreTyped, ClaimStep
<1>5. CASE MarkCleaned
  <2>1. TimerHolds
    BY <1>5 DEF MarkCleaned, TimerHolds, TearingPcs
  <2>2. TimerTyped' /\ NoHandChanges
    BY <1>5, <1>t, <2>1, TimerGoesOn DEF MarkCleaned, TearingPcs
  <2>3. marked' \subseteq Names
    BY <1>5, <1>n, <2>1 DEF MarkCleaned, StoreTyped
  <2>4. mishaps' \in 0..MaxMishaps
    BY <1>5, MishapCounted DEF MarkCleaned, Works, Mishap
  <2> QED
    BY <1>5, <1>c, <2>2, <2>3, <2>4 DEF MarkCleaned, StoreTyped, ClaimStep
<1>6. CASE LeaveOrphan
  <2>1. TimerTyped' /\ timer'.pc = "sweep"
    BY <1>0, <1>6 DEF LeaveOrphan, SetTimer, TimerTyped, TimerType
  <2>2. TimerLetsGo
    BY <1>6, <1>t, <2>1 DEF LeaveOrphan, TimerLeaves, GiveBack, TimerLetsGo, TimerHolds, TearingPcs,
       WalkingPcs
  <2> QED
    BY <1>6, <1>c, <2>1, <2>2 DEF LeaveOrphan, TimerLeaves, GiveBack, store, StoreTyped, ClaimStep
<1>7. CASE EndSweep
  <2>1. TimerTyped' /\ timer'.pc = "walk"
    BY <1>0, <1>7 DEF EndSweep, StartWalk, NewTimer, TimerTyped, TimerType
  <2>2. NoHandChanges
    BY <1>7, <2>1, <1>t, TimerIdles DEF EndSweep
  <2> QED
    BY <1>7, <1>c, <2>1, <2>2 DEF EndSweep, store, StoreTyped, ClaimStep
<1> QED
  BY <1>1, <1>2, <1>3, <1>4, <1>5, <1>6, <1>7 DEF Sweep

\* The same for the rest of a round: the walk and its passes.
LEMMA WalkKind ==
    ASSUME Typed, ClaimShape, OneAtATime,
           Resolve \/ Walk \/ TimerReconciles \/ TimerReturns \/ TimerReports \/ TimerReleases
                   \/ EndRound
    PROVE  Typed' /\ ClaimShape' /\ ClaimStep
<1> USE DEF Typed
<1>0. timer \in TimerType
  BY DEF TimerTyped
<1>t. UNCHANGED <<want, trigger, worker, bg, quota, life>>
  BY DEF Resolve, Walk, TimerReconciles, TimerReturns, TimerReports, TimerReleases, EndRound
<1>c. /\ ClaimShape' /\ TriggersTyped' /\ WorkersTyped' /\ LifeTyped' /\ want' \subseteq Names
      /\ published' \in BOOLEAN /\ owed' \in BOOLEAN
  BY <1>t DEF ClaimShape, TriggersTyped, WorkersTyped, LifeTyped, quota, life
<1>n. TimerHolds => timer.name \in Names
  BY DEF OneAtATime
<1>1. CASE Resolve
  <2>1. TimerTyped' /\ timer'.pc = "list"
    BY <1>1 DEF Resolve, NewTimer, TimerTyped, TimerType
  <2>2. NoHandChanges
    BY <1>1, <2>1, <1>t, TimerIdles DEF Resolve
  <2> QED
    BY <1>1, <1>c, <2>1, <2>2 DEF Resolve, store, StoreTyped, ClaimStep
<1>2. CASE Walk
  <2>1. PICK n \in timer.todo :
          \/ Free(n) /\ Take(n) /\ SetTimer("pass", n, timer.todo \ {n})
          \/ ~Free(n) /\ UNCHANGED running /\ SetTimer("walk", NoName, timer.todo \ {n})
    BY <1>2 DEF Walk
  <2>2. n \in Names
    BY <1>0 DEF TimerType
  <2>3. CASE Free(n) /\ Take(n) /\ SetTimer("pass", n, timer.todo \ {n})
    <3>1. TimerTyped' /\ timer'.pc = "pass" /\ timer'.name = n
      BY <1>0, <2>2, <2>3 DEF SetTimer, TimerTyped, TimerType, WalkingPcs
    <3>2. TimerTakes(n)
      BY <1>2, <1>t, <2>3, <3>1
      DEF Walk, Free, Take, TimerTakes, TimerHolds, TearingPcs, WalkingPcs
    <3> QED
      BY <1>2, <1>c, <2>2, <3>1, <3>2 DEF Walk, TimerTakes, store, StoreTyped, ClaimStep
  <2>4. CASE ~Free(n) /\ UNCHANGED running /\ SetTimer("walk", NoName, timer.todo \ {n})
    <3>1. TimerTyped' /\ timer'.pc = "walk"
      BY <1>0, <2>4 DEF SetTimer, TimerTyped, TimerType
    <3>2. NoHandChanges
      BY <1>2, <2>4, <3>1, <1>t, TimerIdles DEF Walk
    <3> QED
      BY <1>2, <1>c, <2>4, <3>1, <3>2 DEF Walk, store, StoreTyped, ClaimStep
  <2> QED
    BY <2>1, <2>3, <2>4
<1>3. CASE TimerReconciles
  <2>1. timer.name \in Names
    BY <1>3, <1>n DEF TimerReconciles, TimerHolds, WalkingPcs
  <2>2. NoHandChanges
    BY <1>3, <1>t DEF TimerReconciles, NoHandChanges, Holds, TimerHolds
  <2> QED
    BY <1>3, <1>c, <2>1, <2>2 DEF TimerReconciles, Reconciles, StoreTyped, TimerTyped, ClaimStep
<1>4. CASE TimerReturns
  <2>1. TimerHolds /\ timer.name \in Names
    BY <1>4, <1>n DEF TimerReturns, TimerHolds, WalkingPcs
  <2>2. PICK p \in TearingPcs \cup WalkingPcs : SetTimer(p, timer.name, timer.todo)
    BY <1>4 DEF TimerReturns, WalkingPcs
  <2>3. TimerTyped' /\ NoHandChanges
    BY <1>4, <1>t, <2>1, <2>2, TimerGoesOn DEF TimerReturns
  <2>4. known' \subseteq Names
    BY <1>4, <2>1 DEF TimerReturns, Returns, StoreTyped
  <2>5. mishaps' \in 0..MaxMishaps
    BY <1>4, MishapCounted DEF TimerReturns, Returns, Works, Mishap
  <2> QED
    BY <1>4, <1>c, <2>3, <2>4, <2>5 DEF TimerReturns, StoreTyped, ClaimStep
<1>5. CASE TimerReports
  <2>1. TimerHolds
    BY <1>5 DEF TimerReports, TimerHolds, WalkingPcs
  <2>2. TimerTyped' /\ NoHandChanges
    BY <1>5, <1>t, <2>1, TimerGoesOn DEF TimerReports, WalkingPcs
  <2>3. marked' \subseteq Names
    BY <1>5 DEF TimerReports, ClearsMark, StoreTyped
  <2>4. mishaps' \in 0..MaxMishaps
    BY <1>5, MishapCounted DEF TimerReports, ClearsMark, Works, Mishap
  <2> QED
    BY <1>5, <1>c, <2>2, <2>3, <2>4 DEF TimerReports, StoreTyped, ClaimStep
<1>6. CASE TimerReleases
  <2>1. TimerTyped' /\ timer'.pc = "walk"
    BY <1>0, <1>6 DEF TimerReleases, SetTimer, TimerTyped, TimerType
  <2>2. TimerLetsGo
    BY <1>6, <1>t, <2>1 DEF TimerReleases, GiveBack, TimerLetsGo, TimerHolds, TearingPcs, WalkingPcs
  <2> QED
    BY <1>6, <1>c, <2>1, <2>2 DEF TimerReleases, GiveBack, store, StoreTyped, ClaimStep
<1>7. CASE EndRound
  <2>1. TimerTyped' /\ timer'.pc = "idle"
    BY <1>7 DEF EndRound, NewTimer, TimerTyped, TimerType
  <2>2. NoHandChanges
    BY <1>7, <2>1, <1>t, TimerIdles DEF EndRound
  <2> QED
    BY <1>7, <1>c, <2>1, <2>2 DEF EndRound, store, StoreTyped, ClaimStep
<1> QED
  BY <1>1, <1>2, <1>3, <1>4, <1>5, <1>6, <1>7

-----------------------------------------------------------------------------
(* The process                                                             *)

\* A reload, the steps of a shutdown and an edit of the document: types are
\* kept, and claims are only ever dropped all together.
LEMMA ProcessKind ==
    ASSUME Typed, ClaimShape, Edit \/ ProcessStep
    PROVE  Typed' /\ ClaimShape' /\ ClaimStep
<1> USE DEF Typed
<1>1. CASE Edit
  <2>1. mishaps' \in 0..MaxMishaps
    BY <1>1, MishapCounted DEF Edit, Works, Mishap
  <2>2. NoHandChanges
    BY <1>1 DEF Edit, NoHandChanges, Holds, TimerHolds
  <2> QED
    BY <1>1, <2>1, <2>2 DEF Edit, store, quota, life, StoreTyped, LifeTyped, TimerTyped,
       WorkersTyped, TriggersTyped, ClaimShape, ClaimStep
<1>2. CASE Reload
  <2>1. \A w \in Workers : \/ worker'[w] = worker[w]
                           \/ worker[w].pc = "done" /\ worker'[w] = NoWorker
    BY <1>2 DEF Reload
  <2>2. worker' = [w \in Workers |-> IF worker[w].pc = "done" THEN NoWorker ELSE worker[w]]
    BY <1>2 DEF Reload
  <2>3. WorkersTyped'
    BY <2>2 DEF WorkersTyped, WorkerType, NoWorker
  <2>4. NoHandChanges
    BY <1>2, <2>1 DEF Reload, Idle, NoHandChanges, Holds, TimerHolds, NoWorker, HoldingPcs
  <2> QED
    BY <1>2, <2>3, <2>4 DEF Reload, store, life, StoreTyped, LifeTyped, TimerTyped, TriggersTyped,
       ClaimShape, ClaimStep
<1>3. CASE Cancel \/ BeginDrain \/ DrainReturns \/ DrainTimesOut
  <2>1. UNCHANGED <<want, store, running, bg, quota, worker, trigger, timer>>
    BY <1>3 DEF Cancel, BeginDrain, DrainReturns, DrainTimesOut
  <2>2. LifeTyped'
    BY <1>3 DEF Cancel, BeginDrain, DrainReturns, DrainTimesOut, LifeTyped
  <2>3. mishaps' \in 0..MaxMishaps
    <3>1. CASE Cancel
      BY <3>1, MishapCounted DEF Cancel, Works, Mishap
    <3>2. CASE BeginDrain \/ DrainReturns
      BY <3>2 DEF BeginDrain, DrainReturns
    <3>3. CASE DrainTimesOut
      BY <3>3, MishapCounted DEF DrainTimesOut, Works, Mishap
    <3> QED
      BY <1>3, <3>1, <3>2, <3>3
  <2>4. NoHandChanges
    BY <2>1 DEF NoHandChanges, Holds, TimerHolds
  <2> QED
    BY <2>1, <2>2, <2>3, <2>4 DEF store, quota, StoreTyped, TimerTyped, WorkersTyped,
       TriggersTyped, ClaimShape, ClaimStep
<1>4. CASE Exit \/ Crash
  <2>1. NewProcess /\ UNCHANGED <<want, store>>
    BY <1>4 DEF Exit, Crash
  <2>2. mishaps' \in 0..MaxMishaps
    <3>1. CASE Exit
      BY <3>1 DEF Exit
    <3>2. CASE Crash
      BY <3>2, MishapCounted DEF Crash, Works, Mishap
    <3> QED
      BY <1>4, <3>1, <3>2
  <2>3. WorkersTyped' /\ \A w \in Workers : worker'[w].pc = "free"
    BY <2>1 DEF NewProcess, NoWorker, WorkersTyped, WorkerType
  <2>4. TriggersTyped' /\ \A t \in Triggers : trigger'[t].pc = "idle"
    BY <2>1 DEF NewProcess, NoTrigger, TriggersTyped, TriggerType
  <2>5. TimerTyped' /\ timer'.pc = "due"
    BY <2>1 DEF NewProcess, NewTimer, TimerTyped, TimerType
  <2>6. AllGone
    BY <2>1, <2>3, <2>5
    DEF NewProcess, AllGone, Holds, TimerHolds, HoldingPcs, TearingPcs, WalkingPcs
  <2> QED
    BY <2>1, <2>2, <2>3, <2>4, <2>5, <2>6 DEF NewProcess, store, StoreTyped, LifeTyped, ClaimShape,
       ClaimStep
<1> QED
  BY <1>1, <1>2, <1>3, <1>4 DEF ProcessStep

-----------------------------------------------------------------------------
(* Theorems                                                                *)

IClaims == Typed /\ ClaimShape /\ OneAtATime /\ NoClaimLeaks

\* Nobody holds anything at the start.
LEMMA ClaimsInit == Init => IClaims
<1> SUFFICES ASSUME Init PROVE IClaims
  OBVIOUS
<1>1. WorkersTyped /\ \A w \in Workers : worker[w].pc = "free"
  BY DEF Init, NoWorker, WorkersTyped, WorkerType
<1>2. TriggersTyped /\ \A t \in Triggers : trigger[t].pc = "idle"
  BY DEF Init, NoTrigger, TriggersTyped, TriggerType
<1>3. TimerTyped /\ timer.pc = "due"
  BY DEF Init, NewTimer, TimerTyped, TimerType
<1>4. Typed
  <2>1. mishaps \in 0..MaxMishaps
    BY BoundsAssumption DEF Init
  <2>2. StoreTyped /\ LifeTyped
    BY DEF Init, StoreTyped, LifeTyped
  <2> QED
    BY <1>1, <1>2, <1>3, <2>1, <2>2 DEF Init, Typed
<1>5. ClaimShape
  BY <1>2 DEF ClaimShape
<1>6. OneAtATime /\ NoClaimLeaks
  BY <1>1, <1>3 DEF Init, OneAtATime, NoClaimLeaks, Holds, TimerHolds, HoldingPcs, TearingPcs,
     WalkingPcs
<1> QED
  BY <1>4, <1>5, <1>6 DEF IClaims

\* Every step of the specification keeps it.
LEMMA ClaimsStep == IClaims /\ [Next]_vars => IClaims'
<1> SUFFICES ASSUME IClaims, [Next]_vars PROVE IClaims'
  OBVIOUS
<1> USE DEF IClaims
<1>1. ASSUME NEW t \in Triggers, Arrive(t) \/ TriggerStep(t)
      PROVE  Typed' /\ ClaimShape' /\ ClaimStep
  BY <1>1, TriggerKind
<1>2. ASSUME NEW w \in Workers, WorkerStep(w)
      PROVE  Typed' /\ ClaimShape' /\ ClaimStep
  BY <1>2, WorkerKind
<1>3. ASSUME Round \/ TimerReconciles
      PROVE  Typed' /\ ClaimShape' /\ ClaimStep
  BY <1>3, SweepKind, WalkKind DEF Round
<1>4. ASSUME Edit \/ ProcessStep
      PROVE  Typed' /\ ClaimShape' /\ ClaimStep
  BY <1>4, ProcessKind
<1>5. CASE UNCHANGED vars
  <2>1. NoHandChanges
    BY <1>5 DEF vars, NoHandChanges, Holds, TimerHolds
  <2>2. Typed'
    BY <1>5 DEF vars, store, quota, life, Typed, StoreTyped, LifeTyped, TimerTyped, WorkersTyped,
       TriggersTyped
  <2>3. ClaimShape'
    BY <1>5 DEF vars, ClaimShape
  <2> QED
    BY <2>1, <2>2, <2>3, ClaimStepKeeps DEF ClaimStep
<1>6. CASE Typed' /\ ClaimShape' /\ ClaimStep
  BY <1>6, ClaimStepKeeps
<1> QED
  BY <1>1, <1>2, <1>3, <1>4, <1>5, <1>6 DEF Next

\* In every behaviour of the reconciler the actors have their types, and claims
\* and holders are each other's.
THEOREM ClaimsInductive == Spec => []IClaims
BY ClaimsInit, ClaimsStep, PTL DEF Spec

\* Two actors never work on one name: a started pass, the round's pass and a
\* teardown exclude each other, across drains, reloads and restarts.
THEOREM ClaimsExclude == Spec => []OneAtATime
<1>1. IClaims => OneAtATime
  BY DEF IClaims
<1> QED
  BY <1>1, ClaimsInductive, PTL

\* A claim is always somebody's, so no failure path can wedge a name.
THEOREM ClaimsNeverLeak == Spec => []NoClaimLeaks
<1>1. IClaims => NoClaimLeaks
  BY DEF IClaims
<1> QED
  BY <1>1, ClaimsInductive, PTL

\* A claim is exactly one worker's, from its taking to its giving back.
THEOREM ClaimsAlwaysHold == Spec => []ClaimsHold
<1>1. OneAtATime /\ NoClaimLeaks => ClaimsHold
  BY DEF ClaimsHold
<1> QED
  BY <1>1, ClaimsExclude, ClaimsNeverLeak, PTL

-----------------------------------------------------------------------------
(* Counting                                                                *)

\* One element more, one more to count.
LEMMA OneMore ==
    ASSUME NEW S, IsFiniteSet(S), NEW x, x \notin S
    PROVE  Cardinality(S \cup {x}) = Cardinality(S) + 1
BY FS_AddElement

\* One element less, one less to count; and there was one.
LEMMA OneLess ==
    ASSUME NEW S, IsFiniteSet(S), NEW x \in S
    PROVE  Cardinality(S \ {x}) = Cardinality(S) - 1 /\ Cardinality(S) # 0
BY FS_RemoveElement, FS_EmptySet

\* The sets the counters count are finite, so the counters are numbers, and
\* zero exactly when there is nothing to count.
LEMMA Sizes ==
    /\ IsFiniteSet(Accepted) /\ Cardinality(Accepted) \in Nat
    /\ IsFiniteSet(Going) /\ Cardinality(Going) \in Nat
    /\ IsFiniteSet(Registering) /\ Cardinality(Registering) \in Nat
    /\ IsFiniteSet(Opening) /\ Cardinality(Opening) \in Nat
    /\ Cardinality(Accepted) = 0 <=> Accepted = {}
    /\ Cardinality(Going) = 0 <=> Going = {}
    /\ Cardinality(Registering) = 0 <=> Registering = {}
    /\ Cardinality(Opening) = 0 <=> Opening = {}
<1>1. Accepted \subseteq Workers /\ Going \subseteq Workers
  BY DEF Accepted, Going
<1>2. Registering \subseteq Triggers /\ Opening \subseteq Triggers
  BY DEF Registering, Opening
<1>3. /\ IsFiniteSet(Accepted) /\ IsFiniteSet(Going)
      /\ IsFiniteSet(Registering) /\ IsFiniteSet(Opening)
  BY <1>1, <1>2, FiniteAssumption, FS_Subset
<1> QED
  BY <1>3, FS_CardinalityType, FS_EmptySet

\* What the counters count, and what they are when they count nothing.
LEMMA CountersCount ==
    ASSUME Counters
    PROVE  /\ bg \in Nat /\ starting \in Nat /\ passes \in Nat
           /\ bg = 0 <=> Accepted = {} /\ Registering = {}
           /\ starting = 0 <=> Opening = {}
           /\ passes = 0 <=> Going = {}
BY Sizes DEF Counters, DrainWaitsForAll

\* With nobody about, all counters are zero.
LEMMA CountersEmpty ==
    ASSUME \A w \in Workers : worker[w].pc = "free", \A t \in Triggers : trigger[t].pc = "idle",
           bg = 0, starting = 0, passes = 0
    PROVE  Counters
<1>1. Accepted = {} /\ Going = {} /\ Registering = {} /\ Opening = {}
  BY DEF Accepted, Going, Registering, Opening
<1> QED
  BY <1>1, FS_EmptySet DEF Counters, DrainWaitsForAll

-----------------------------------------------------------------------------
(* Counters and what is owed, trigger by trigger                           *)

\* A request went to p and the others are as they were.
TriggerTo(t, p) ==
    /\ trigger'[t].pc = p
    /\ \A u \in Triggers : u # t => trigger'[u] = trigger[u]

\* A started pass went to p and the others are as they were.
WorkerTo(w, p) ==
    /\ worker'[w].pc = p
    /\ \A v \in Workers : v # w => worker'[v] = worker[v]

\* Whom the sets of actors lose and gain when one request moves.
LEMMA TriggerSets ==
    ASSUME NEW t \in Triggers, NEW p, TriggerTo(t, p)
    PROVE  /\ Opening' = IF p \in {"reset", "loop", "claim"} THEN Opening \cup {t}
                         ELSE Opening \ {t}
           /\ Registering' = IF p = "claim" THEN Registering \cup {t} ELSE Registering \ {t}
BY DEF TriggerTo, Opening, Registering

\* The same for started passes.
LEMMA WorkerSets ==
    ASSUME NEW w \in Workers, NEW p, WorkerTo(w, p)
    PROVE  /\ Accepted' = IF p # "free" THEN Accepted \cup {w} ELSE Accepted \ {w}
           /\ Going' = IF p \in {"queued", "pass", "report", "over"} THEN Going \cup {w}
                       ELSE Going \ {w}
BY DEF WorkerTo, Accepted, Going

\* Every step of a trigger counts what it changes.
LEMMA TriggerCounts ==
    ASSUME Typed, Counters, NEW t \in Triggers, Arrive(t) \/ TriggerStep(t)
    PROVE  Counters'
<1> USE DEF Typed
<1>1. CASE Arrive(t)
  <2>1. TriggerTo(t, "reset") /\ worker' = worker /\ trigger[t].pc = "idle"
    BY <1>1 DEF Arrive, SetTrigger, TriggersTyped, TriggerTo
  <2>2. Opening' = Opening \cup {t} /\ t \notin Opening /\ Registering' = Registering
    BY <2>1, TriggerSets DEF Opening, Registering
  <2>3. Accepted' = Accepted /\ Going' = Going
    BY <2>1 DEF Accepted, Going
  <2>4. bg' = bg /\ starting' = starting + 1 /\ passes' = passes
    BY <1>1 DEF Arrive
  <2> QED
    BY <2>2, <2>3, <2>4, Sizes, OneMore DEF Counters, DrainWaitsForAll
<1>2. CASE Reset(t)
  <2>1. TriggerTo(t, "loop") /\ worker' = worker /\ trigger[t].pc = "reset"
    BY <1>2 DEF Reset, SetTrigger, TriggersTyped, TriggerTo
  <2>2. Opening' = Opening /\ Registering' = Registering
    BY <2>1, TriggerSets DEF Opening, Registering
  <2>3. Accepted' = Accepted /\ Going' = Going
    BY <2>1 DEF Accepted, Going
  <2> QED
    BY <1>2, <2>2, <2>3 DEF Reset, Counters, DrainWaitsForAll
<1>3. CASE Register(t)
  <2>1. /\ trigger[t].pc = "loop" /\ worker' = worker
        /\ UNCHANGED <<starting, passes>>
    BY <1>3 DEF Register, quota
  <2>2. Accepted' = Accepted /\ Going' = Going
    BY <2>1 DEF Accepted, Going
  <2>3. \/ bg' = bg + 1 /\ TriggerTo(t, "claim")
        \/ bg' = bg /\ TriggerTo(t, "loop")
    BY <1>3 DEF Register, SetTrigger, TriggersTyped, TriggerTo
  <2>4. CASE bg' = bg + 1 /\ TriggerTo(t, "claim")
    <3>1. Opening' = Opening /\ Registering' = Registering \cup {t} /\ t \notin Registering
      BY <2>1, <2>4, TriggerSets DEF Opening, Registering
    <3> QED
      BY <2>1, <2>2, <2>4, <3>1, Sizes, OneMore DEF Counters, DrainWaitsForAll
  <2>5. CASE bg' = bg /\ TriggerTo(t, "loop")
    <3>1. Opening' = Opening /\ Registering' = Registering
      BY <2>1, <2>5, TriggerSets DEF Opening, Registering
    <3> QED
      BY <2>1, <2>2, <2>5, <3>1 DEF Counters, DrainWaitsForAll
  <2> QED
    BY <2>3, <2>4, <2>5
<1>4. CASE Skip(t)
  <2>1. TriggerTo(t, "loop") /\ worker' = worker /\ trigger[t].pc = "claim"
    BY <1>4 DEF Skip, SetTrigger, TriggersTyped, TriggerTo
  <2>2. Opening' = Opening /\ Registering' = Registering \ {t} /\ t \in Registering
    BY <2>1, TriggerSets DEF Opening, Registering
  <2>3. Accepted' = Accepted /\ Going' = Going
    BY <2>1 DEF Accepted, Going
  <2>4. bg' = bg - 1 /\ UNCHANGED <<starting, passes>>
    BY <1>4 DEF Skip, Unregister, quota
  <2> QED
    BY <2>2, <2>3, <2>4, Sizes, OneLess DEF Counters, DrainWaitsForAll
<1>5. CASE Start(t)
  <2>1. TriggerTo(t, "loop") /\ trigger[t].pc = "claim"
    BY <1>5 DEF Start, SetTrigger, TriggersTyped, TriggerTo
  <2>2. PICK w \in Workers : WorkerTo(w, "queued") /\ worker[w].pc = "free"
    BY <1>5 DEF Start, WorkersTyped, WorkerTo
  <2>3. Opening' = Opening /\ Registering' = Registering \ {t} /\ t \in Registering
    BY <2>1, TriggerSets DEF Opening, Registering
  <2>4. /\ Accepted' = Accepted \cup {w} /\ w \notin Accepted
        /\ Going' = Going \cup {w} /\ w \notin Going
    BY <2>2, WorkerSets DEF Accepted, Going
  <2>5. bg' = bg /\ starting' = starting /\ passes' = passes + 1
    BY <1>5 DEF Start
  <2>6. /\ Cardinality(Registering') = Cardinality(Registering) - 1
        /\ Cardinality(Accepted') = Cardinality(Accepted) + 1
        /\ Cardinality(Going') = Cardinality(Going) + 1
    BY <2>3, <2>4, Sizes, OneMore, OneLess
  <2> QED
    BY <2>3, <2>5, <2>6, Sizes DEF Counters, DrainWaitsForAll
<1>6. CASE EndTrigger(t)
  <2>1. /\ TriggerTo(t, "publish") \/ TriggerTo(t, "idle")
        /\ worker' = worker /\ trigger[t].pc = "loop"
    BY <1>6 DEF EndTrigger, AfterTrigger, SetTrigger, TriggersTyped, TriggerTo
  <2>2. Opening' = Opening \ {t} /\ t \in Opening /\ Registering' = Registering
    BY <2>1, TriggerSets DEF Opening, Registering
  <2>3. Accepted' = Accepted /\ Going' = Going
    BY <2>1 DEF Accepted, Going
  <2>4. bg' = bg /\ starting' = starting - 1 /\ passes' = passes
    BY <1>6 DEF EndTrigger
  <2> QED
    BY <2>2, <2>3, <2>4, Sizes, OneLess DEF Counters, DrainWaitsForAll
<1>7. CASE TriggerPublishes(t)
  <2>1. TriggerTo(t, "idle") /\ worker' = worker /\ trigger[t].pc = "publish"
    BY <1>7 DEF TriggerPublishes, SetTrigger, TriggersTyped, TriggerTo
  <2>2. Opening' = Opening /\ Registering' = Registering
    BY <2>1, TriggerSets DEF Opening, Registering
  <2>3. Accepted' = Accepted /\ Going' = Going
    BY <2>1 DEF Accepted, Going
  <2> QED
    BY <1>7, <2>2, <2>3 DEF TriggerPublishes, Counters, DrainWaitsForAll
<1> QED
  BY <1>1, <1>2, <1>3, <1>4, <1>5, <1>6, <1>7 DEF TriggerStep

\* Every step of a started pass counts what it changes.
LEMMA WorkerCounts ==
    ASSUME Typed, Counters, NEW w \in Workers, WorkerStep(w)
    PROVE  Counters'
<1> USE DEF Typed
<1>t. trigger' = trigger /\ starting' = starting
  BY DEF WorkerStep, AfterPass, TakeSlot, Abandon, WorkerReconciles, WorkerReturns, WorkerReports,
     Uncount, WorkerPublishes, WorkerReleases, Done, quota
<1>s. Opening' = Opening /\ Registering' = Registering
  BY <1>t DEF Opening, Registering
<1>1. CASE TakeSlot(w) \/ Abandon(w) \/ WorkerReturns(w) \/ WorkerReports(w)
  <2>1. /\ WorkerTo(w, "pass") \/ WorkerTo(w, "over") \/ WorkerTo(w, "report")
        /\ worker[w].pc \in {"queued", "pass", "report"}
    BY <1>1 DEF TakeSlot, Abandon, WorkerReturns, WorkerReports, SetWorker, WorkersTyped, WorkerType,
       WorkerTo
  <2>2. Accepted' = Accepted /\ Going' = Going
    BY <2>1, WorkerSets DEF Accepted, Going
  <2>3. UNCHANGED <<bg, passes>>
    BY <1>1 DEF TakeSlot, Abandon, WorkerReturns, WorkerReports, quota
  <2> QED
    BY <1>t, <1>s, <2>2, <2>3 DEF Counters, DrainWaitsForAll
<1>2. CASE WorkerReconciles(w)
  <2>1. UNCHANGED <<worker, bg, passes>>
    BY <1>2 DEF WorkerReconciles, quota
  <2>2. Accepted' = Accepted /\ Going' = Going
    BY <2>1 DEF Accepted, Going
  <2> QED
    BY <1>t, <1>s, <2>1, <2>2 DEF Counters, DrainWaitsForAll
<1>3. CASE Uncount(w)
  <2>1. /\ WorkerTo(w, "publish") \/ WorkerTo(w, "release")
        /\ worker[w].pc = "over"
    BY <1>3 DEF Uncount, SetWorker, WorkersTyped, WorkerType, WorkerTo
  <2>2. Accepted' = Accepted /\ Going' = Going \ {w} /\ w \in Going
    BY <2>1, WorkerSets DEF Accepted, Going
  <2>3. bg' = bg /\ passes' = passes - 1
    BY <1>3 DEF Uncount
  <2> QED
    BY <1>t, <1>s, <2>2, <2>3, Sizes, OneLess DEF Counters, DrainWaitsForAll
<1>4. CASE WorkerPublishes(w) \/ WorkerReleases(w)
  <2>1. /\ WorkerTo(w, "release") \/ WorkerTo(w, "done")
        /\ worker[w].pc \in {"publish", "release"}
    BY <1>4 DEF WorkerPublishes, WorkerReleases, SetWorker, WorkersTyped, WorkerType, WorkerTo
  <2>2. Accepted' = Accepted /\ Going' = Going
    BY <2>1, WorkerSets DEF Accepted, Going
  <2>3. UNCHANGED <<bg, passes>>
    BY <1>4 DEF WorkerPublishes, WorkerReleases, quota
  <2> QED
    BY <1>t, <1>s, <2>2, <2>3 DEF Counters, DrainWaitsForAll
<1>5. CASE Done(w)
  <2>1. WorkerTo(w, "free") /\ worker[w].pc = "done"
    BY <1>5 DEF Done, NoWorker, WorkersTyped, WorkerTo
  <2>2. Accepted' = Accepted \ {w} /\ w \in Accepted /\ Going' = Going
    BY <2>1, WorkerSets DEF Accepted, Going
  <2>3. bg' = bg - 1 /\ passes' = passes
    BY <1>5 DEF Done, quota
  <2> QED
    BY <1>t, <1>s, <2>2, <2>3, Sizes, OneLess DEF Counters, DrainWaitsForAll
<1> QED
  BY <1>1, <1>2, <1>3, <1>4, <1>5 DEF WorkerStep, AfterPass

\* What the daemon loop leaves alone.
LEMMA LoopLeavesAlone ==
    ASSUME Round \/ TimerReconciles
    PROVE  UNCHANGED <<bg, starting, passes, published, owed, worker, trigger, proc>>
BY DEF Round, TimerReconciles, Sweep, Resolve, ListOrphans, SweepPast, SweepClaims, CleanupOrphan,
   MarkCleaned, LeaveOrphan, EndSweep, Walk, TimerReturns, TimerReports, TimerReleases, EndRound,
   quota, life

\* What an edit, a stop and a drain leave alone.
LEMMA ShutdownLeavesAlone ==
    ASSUME Edit \/ Cancel \/ BeginDrain \/ DrainReturns \/ DrainTimesOut
    PROVE  UNCHANGED <<bg, starting, passes, published, owed, worker, trigger, timer>>
BY DEF Edit, Cancel, BeginDrain, DrainReturns, DrainTimesOut, quota

\* After a reload, an exit or a crash nobody is about, and all is zero. A reload
\* finds every request idle and every started pass beyond its claim.
LEMMA NobodyAbout ==
    ASSUME Typed, OneAtATime, Reload \/ Exit \/ Crash
    PROVE  /\ \A w \in Workers : worker'[w].pc = "free"
           /\ \A t \in Triggers : trigger'[t].pc = "idle"
           /\ bg' = 0 /\ starting' = 0 /\ passes' = 0 /\ published' = FALSE
<1>1. CASE Reload
  <2>1. \A w \in Workers : ~Holds(w)
    BY <1>1 DEF Reload, Idle, OneAtATime
  <2>2. \A w \in Workers : worker[w].pc \in {"free", "done"}
    BY <2>1 DEF Typed, WorkersTyped, WorkerType, Holds
  <2> QED
    BY <1>1, <2>2 DEF Reload, NoWorker
<1>2. CASE Exit \/ Crash
  BY <1>2 DEF Exit, Crash, NewProcess, NoWorker, NoTrigger
<1> QED
  BY <1>1, <1>2

\* The counters count in every reachable state.
LEMMA CountersStep ==
    ASSUME IClaims, Counters, [Next]_vars
    PROVE  Counters'
<1>1. ASSUME NEW t \in Triggers, Arrive(t) \/ TriggerStep(t) PROVE Counters'
  BY <1>1, TriggerCounts DEF IClaims
<1>2. ASSUME NEW w \in Workers, WorkerStep(w) PROVE Counters'
  BY <1>2, WorkerCounts DEF IClaims
<1>3. CASE UNCHANGED <<bg, starting, passes, worker, trigger>>
  BY <1>3 DEF Counters, DrainWaitsForAll, Accepted, Registering, Opening, Going
<1>4. CASE Reload \/ Exit \/ Crash
  <2>1. /\ \A w \in Workers : worker'[w].pc = "free"
        /\ \A t \in Triggers : trigger'[t].pc = "idle"
        /\ bg' = 0 /\ starting' = 0 /\ passes' = 0
    BY <1>4, NobodyAbout DEF IClaims
  <2>2. Accepted' = {} /\ Going' = {} /\ Registering' = {} /\ Opening' = {}
    BY <2>1 DEF Accepted, Going, Registering, Opening
  <2> QED
    BY <2>1, <2>2, FS_EmptySet DEF Counters, DrainWaitsForAll
<1>5. CASE Round \/ TimerReconciles
  BY <1>3, <1>5, LoopLeavesAlone
<1>6. CASE Edit \/ Cancel \/ BeginDrain \/ DrainReturns \/ DrainTimesOut
  BY <1>3, <1>6, ShutdownLeavesAlone
<1>7. CASE UNCHANGED vars
  BY <1>3, <1>7 DEF vars, quota
<1> QED
  BY <1>1, <1>2, <1>4, <1>5, <1>6, <1>7 DEF Next, ProcessStep

-----------------------------------------------------------------------------
(* The drain                                                               *)

\* The loop is over before the drain begins, and nothing is registered after it.
LEMMA DrainStep ==
    ASSUME IClaims, Counters, DrainShape, [Next]_vars
    PROVE  DrainShape'
<1>1. ASSUME NEW t \in Triggers, Arrive(t) \/ TriggerStep(t) PROVE DrainShape'
  <2>1. UNCHANGED <<timer, proc>>
    BY <1>1 DEF TriggerStep, Arrive, Reset, Register, Skip, Start, EndTrigger, TriggerPublishes, life
  <2>2. proc = "drained" => trigger[t].pc # "claim"
    BY CountersCount DEF DrainShape, Registering
  <2>3. proc = "drained" => bg' = bg
    BY <1>1, <2>2 DEF TriggerStep, Arrive, Reset, Register, MayBegin, Skip, Start, EndTrigger,
       TriggerPublishes
  <2> QED
    BY <2>1, <2>3 DEF DrainShape
<1>2. ASSUME NEW w \in Workers, WorkerStep(w) PROVE DrainShape'
  <2>1. UNCHANGED <<timer, proc>>
    BY <1>2 DEF WorkerStep, AfterPass, TakeSlot, Abandon, WorkerReconciles, WorkerReturns,
       WorkerReports, Uncount, WorkerPublishes, WorkerReleases, Done, life
  <2>2. proc = "drained" => worker[w].pc = "free"
    BY CountersCount DEF DrainShape, Accepted
  <2>3. proc = "drained" => bg' = bg
    BY <1>2, <2>2 DEF WorkerStep, AfterPass, TakeSlot, Abandon, WorkerReconciles, WorkerReturns,
       WorkerReports, Uncount, WorkerPublishes, WorkerReleases, Done
  <2> QED
    BY <2>1, <2>3 DEF DrainShape
<1>3. CASE Round \/ TimerReconciles
  <2>1. proc = "up"
    BY <1>3 DEF DrainShape, Round, TimerReconciles, Sweep, Resolve, ListOrphans, SweepPast,
       SweepClaims, CleanupOrphan, MarkCleaned, LeaveOrphan, EndSweep, Walk, TimerReturns,
       TimerReports, TimerReleases, EndRound
  <2> QED
    BY <1>3, <2>1, LoopLeavesAlone DEF DrainShape
<1>4. CASE Edit \/ Cancel \/ BeginDrain \/ DrainReturns \/ DrainTimesOut
  <2>1. UNCHANGED <<bg, timer>>
    BY <1>4, ShutdownLeavesAlone
  <2> QED
    BY <1>4, <2>1 DEF Edit, Cancel, BeginDrain, DrainReturns, AllDone, DrainTimesOut, DrainShape,
       life
<1>5. CASE Reload
  BY <1>5 DEF Reload, life, DrainShape
<1>6. CASE Exit \/ Crash
  BY <1>6 DEF Exit, Crash, NewProcess, NewTimer, DrainShape
<1>7. CASE UNCHANGED vars
  BY <1>7 DEF vars, life, DrainShape
<1> QED
  BY <1>1, <1>2, <1>3, <1>4, <1>5, <1>6, <1>7 DEF Next, ProcessStep

-----------------------------------------------------------------------------
(* What is owed                                                            *)

\* publishQuotaIfQuiet by somebody who was about to publish settles what is
\* owed, or leaves it to whoever is still in progress.
LEMMA PublishSettles ==
    ASSUME Counters, OwedShape, Publishing, PublishIfQuiet, UNCHANGED <<starting, passes>>,
           \A t \in Triggers : trigger'[t].pc \in {"loop", "claim"}
                                 => trigger[t].pc \in {"loop", "claim"}
    PROVE  OwedShape'
<1>1. CASE ~published /\ passes = 0 /\ starting = 0 /\ published' = TRUE /\ owed' = FALSE
  <2>1. \A t \in Triggers : trigger[t].pc \notin {"loop", "claim"}
    BY <1>1, CountersCount DEF Opening
  <2> QED
    BY <1>1, <2>1 DEF OwedShape
<1>2. CASE (published \/ passes # 0 \/ starting # 0) /\ UNCHANGED <<published, owed>>
  BY <1>2 DEF OwedShape
<1> QED
  BY <1>1, <1>2 DEF PublishIfQuiet

\* A step that changes neither the counters nor the flags nor who is about to
\* publish keeps what is owed.
LEMMA OwedStays ==
    ASSUME OwedShape, UNCHANGED <<starting, passes, published, owed>>, Publishing' <=> Publishing,
           \A t \in Triggers : trigger'[t].pc \in {"loop", "claim"}
                                 => trigger[t].pc \in {"loop", "claim"}
    PROVE  OwedShape'
BY DEF OwedShape

\* A trigger owes a publication from its first half to its end.
LEMMA TriggerOwes ==
    ASSUME Typed, Counters, OwedShape, NEW t \in Triggers, Arrive(t) \/ TriggerStep(t)
    PROVE  OwedShape'
<1> USE DEF Typed
<1>1. CASE Arrive(t)
  <2>1. TriggerTo(t, "reset") /\ worker' = worker /\ trigger[t].pc = "idle"
    BY <1>1 DEF Arrive, SetTrigger, TriggersTyped, TriggerTo
  <2>2. Publishing' <=> Publishing
    BY <2>1 DEF TriggerTo, Publishing
  <2>3. \A u \in Triggers : trigger'[u].pc \in {"loop", "claim"}
                              => trigger[u].pc \in {"loop", "claim"}
    BY <2>1 DEF TriggerTo
  <2>4. starting' # 0 /\ UNCHANGED <<passes, published, owed>>
    BY <1>1, CountersCount DEF Arrive
  <2> QED
    BY <2>2, <2>3, <2>4 DEF OwedShape
<1>2. CASE Reset(t)
  <2>1. starting' # 0 /\ published' = FALSE /\ owed' = TRUE
    BY <1>2, CountersCount DEF Reset, Opening
  <2> QED
    BY <2>1 DEF OwedShape
<1>3. CASE Register(t) \/ Skip(t)
  <2>1. /\ TriggerTo(t, "loop") \/ TriggerTo(t, "claim")
        /\ worker' = worker /\ trigger[t].pc \in {"loop", "claim"}
    BY <1>3 DEF Register, Skip, SetTrigger, TriggersTyped, TriggerTo
  <2>2. Publishing' <=> Publishing
    BY <2>1 DEF TriggerTo, Publishing
  <2>3. \A u \in Triggers : trigger'[u].pc \in {"loop", "claim"}
                              => trigger[u].pc \in {"loop", "claim"}
    BY <2>1 DEF TriggerTo
  <2> QED
    BY <1>3, <2>2, <2>3, OwedStays DEF Register, Skip, quota
<1>4. CASE Start(t)
  <2>1. owed /\ owed' = owed /\ published' = FALSE
    BY <1>4 DEF Start, OwedShape
  <2>2. passes' # 0
    BY <1>4, CountersCount DEF Start
  <2> QED
    BY <2>1, <2>2 DEF OwedShape
<1>5. CASE EndTrigger(t)
  <2>1. /\ trigger[t].pc = "loop" /\ worker' = worker
        /\ UNCHANGED <<passes, published, owed>> /\ starting' = starting - 1
    BY <1>5 DEF EndTrigger
  <2>2. owed
    BY <2>1 DEF OwedShape
  <2>3. \/ starting = 1 /\ TriggerTo(t, "publish")
        \/ starting # 1 /\ TriggerTo(t, "idle")
    BY <1>5 DEF EndTrigger, AfterTrigger, SetTrigger, TriggersTyped, TriggerTo
  <2>4. starting' # 0 \/ Publishing'
    BY <2>1, <2>3, CountersCount DEF TriggerTo, Publishing
  <2> QED
    BY <2>1, <2>2, <2>4 DEF OwedShape
<1>6. CASE TriggerPublishes(t)
  <2>1. TriggerTo(t, "idle")
    BY <1>6 DEF TriggerPublishes, SetTrigger, TriggersTyped, TriggerTo
  <2>2. \A u \in Triggers : trigger'[u].pc \in {"loop", "claim"}
                              => trigger[u].pc \in {"loop", "claim"}
    BY <2>1 DEF TriggerTo
  <2>3. Publishing
    BY <1>6 DEF TriggerPublishes, Publishing
  <2> QED
    BY <1>6, <2>2, <2>3, PublishSettles DEF TriggerPublishes
<1> QED
  BY <1>1, <1>2, <1>3, <1>4, <1>5, <1>6 DEF TriggerStep

\* A started pass hands the publication on, or makes it when it is the last.
LEMMA WorkerOwes ==
    ASSUME Typed, Counters, OwedShape, NEW w \in Workers, WorkerStep(w)
    PROVE  OwedShape'
<1> USE DEF Typed
<1>t. trigger' = trigger /\ starting' = starting
  BY DEF WorkerStep, AfterPass, TakeSlot, Abandon, WorkerReconciles, WorkerReturns, WorkerReports,
     Uncount, WorkerPublishes, WorkerReleases, Done, quota
<1>1. CASE TakeSlot(w) \/ Abandon(w) \/ WorkerReturns(w) \/ WorkerReports(w) \/ WorkerReleases(w)
           \/ Done(w)
  <2>1. \E p \in {"pass", "over", "report", "done", "free"} : WorkerTo(w, p)
    BY <1>1 DEF TakeSlot, Abandon, WorkerReturns, WorkerReports, WorkerReleases, Done, NoWorker,
       SetWorker, WorkersTyped, WorkerType, WorkerTo
  <2>2. worker[w].pc # "publish"
    BY <1>1 DEF TakeSlot, Abandon, WorkerReturns, WorkerReports, WorkerReleases, Done
  <2>3. Publishing' <=> Publishing
    BY <1>t, <2>1, <2>2 DEF WorkerTo, Publishing
  <2>4. UNCHANGED <<starting, passes, published, owed>>
    BY <1>1 DEF TakeSlot, Abandon, WorkerReturns, WorkerReports, WorkerReleases, Done, quota
  <2> QED
    BY <1>t, <2>3, <2>4, OwedStays
<1>2. CASE WorkerReconciles(w)
  <2>1. UNCHANGED <<worker, starting, passes, published, owed>>
    BY <1>2 DEF WorkerReconciles, quota
  <2>2. Publishing' <=> Publishing
    BY <1>t, <2>1 DEF Publishing
  <2> QED
    BY <1>t, <2>1, <2>2, OwedStays
<1>3. CASE Uncount(w)
  <2>1. worker[w].pc = "over" /\ passes' = passes - 1 /\ UNCHANGED <<published, owed>>
    BY <1>3 DEF Uncount
  <2>2. passes # 0
    BY <2>1, CountersCount DEF Going
  <2>3. \/ passes = 1 /\ WorkerTo(w, "publish")
        \/ passes # 1 /\ WorkerTo(w, "release")
    BY <1>3 DEF Uncount, SetWorker, WorkersTyped, WorkerType, WorkerTo
  <2>4. passes' # 0 \/ Publishing'
    BY <2>1, <2>2, <2>3, CountersCount DEF WorkerTo, Publishing
  <2> QED
    BY <1>t, <2>1, <2>2, <2>4 DEF OwedShape
<1>4. CASE WorkerPublishes(w)
  <2>1. Publishing
    BY <1>4 DEF WorkerPublishes, Publishing
  <2> QED
    BY <1>4, <1>t, <2>1, PublishSettles DEF WorkerPublishes
<1> QED
  BY <1>1, <1>2, <1>3, <1>4 DEF WorkerStep, AfterPass

\* What is owed is kept in order by every step.
LEMMA OwedStep ==
    ASSUME IClaims, Counters, OwedShape, [Next]_vars
    PROVE  OwedShape'
<1>1. ASSUME NEW t \in Triggers, Arrive(t) \/ TriggerStep(t) PROVE OwedShape'
  BY <1>1, TriggerOwes DEF IClaims
<1>2. ASSUME NEW w \in Workers, WorkerStep(w) PROVE OwedShape'
  BY <1>2, WorkerOwes DEF IClaims
<1>3. CASE UNCHANGED <<starting, passes, published, owed, worker, trigger>>
  <2>1. Publishing' <=> Publishing
    BY <1>3 DEF Publishing
  <2> QED
    BY <1>3, <2>1, OwedStays
<1>4. CASE Reload \/ Exit \/ Crash
  <2>1. /\ \A w \in Workers : worker'[w].pc = "free"
        /\ \A t \in Triggers : trigger'[t].pc = "idle"
        /\ starting' = 0 /\ passes' = 0 /\ published' = FALSE
    BY <1>4, NobodyAbout DEF IClaims
  <2>2. ~Publishing'
    BY <2>1 DEF Publishing
  <2>3. owed' = FALSE
    <3>1. CASE Reload
      <4>1. \A t \in Triggers : trigger[t].pc = "idle"
        BY <3>1 DEF Reload
      <4>2. \A w \in Workers : ~Holds(w)
        BY <3>1 DEF Reload, Idle, IClaims, OneAtATime
      <4>3. Opening = {} /\ Going = {} /\ ~Publishing
        BY <4>1, <4>2 DEF Opening, Going, Publishing, Holds, HoldingPcs
      <4>4. ~owed
        BY <4>3, CountersCount DEF OwedShape
      <4> QED
        BY <3>1, <4>4 DEF Reload, IClaims, Typed
    <3>2. CASE Exit \/ Crash
      BY <3>2 DEF Exit, Crash, NewProcess
    <3> QED
      BY <1>4, <3>1, <3>2
  <2> QED
    BY <2>1, <2>2, <2>3 DEF OwedShape
<1>5. CASE Round \/ TimerReconciles
  BY <1>3, <1>5, LoopLeavesAlone
<1>6. CASE Edit \/ Cancel \/ BeginDrain \/ DrainReturns \/ DrainTimesOut
  BY <1>3, <1>6, ShutdownLeavesAlone
<1>7. CASE UNCHANGED vars
  BY <1>3, <1>7 DEF vars, quota
<1> QED
  BY <1>1, <1>2, <1>4, <1>5, <1>6, <1>7 DEF Next, ProcessStep

-----------------------------------------------------------------------------
(* The invariant and the theorems                                          *)

\* Typed is TypeOK but for the counters.
LEMMA TypesAgree == Counters => (TypeOK <=> Typed)
BY CountersCount DEF TypeOK, Typed, StoreTyped, WorkersTyped, TriggersTyped, TimerTyped, LifeTyped

\* Nothing is counted, owed or drained at the start.
LEMMA InitInvariant == Init => IInv
<1> SUFFICES ASSUME Init PROVE IInv
  OBVIOUS
<1>1. IClaims
  BY ClaimsInit
<1>2. /\ \A w \in Workers : worker[w].pc = "free"
      /\ \A t \in Triggers : trigger[t].pc = "idle"
      /\ timer.pc = "due"
  BY DEF Init, NoWorker, NoTrigger, NewTimer
<1>3. Counters
  BY <1>2, CountersEmpty DEF Init
<1>4. DrainShape
  BY <1>2 DEF Init, DrainShape
<1>5. OwedShape
  BY <1>2 DEF Init, OwedShape, Publishing
<1> QED
  BY <1>1, <1>3, <1>4, <1>5, TypesAgree DEF IInv, IClaims

\* Every step keeps the whole invariant.
LEMMA NextInvariant == IInv /\ [Next]_vars => IInv'
<1> SUFFICES ASSUME IInv, [Next]_vars PROVE IInv'
  OBVIOUS
<1>1. IClaims /\ Counters /\ DrainShape /\ OwedShape
  BY TypesAgree DEF IInv, IClaims
<1>2. IClaims'
  BY <1>1, ClaimsStep
<1>3. Counters'
  BY <1>1, CountersStep
<1>4. DrainShape'
  BY <1>1, DrainStep
<1>5. OwedShape'
  BY <1>1, OwedStep
<1>6. Typed' /\ ClaimShape' /\ OneAtATime' /\ NoClaimLeaks'
  BY <1>2 DEF IClaims
<1>7. bg' \in Nat /\ starting' \in Nat /\ passes' \in Nat
  <2>1. Accepted' \subseteq Workers /\ Going' \subseteq Workers
    BY DEF Accepted, Going
  <2>2. Registering' \subseteq Triggers /\ Opening' \subseteq Triggers
    BY DEF Registering, Opening
  <2>3. /\ Cardinality(Accepted') \in Nat /\ Cardinality(Going') \in Nat
        /\ Cardinality(Registering') \in Nat /\ Cardinality(Opening') \in Nat
    BY <2>1, <2>2, FiniteAssumption, FS_Subset, FS_CardinalityType
  <2> QED
    BY <1>3, <2>3 DEF Counters, DrainWaitsForAll
<1>8. TypeOK'
  BY <1>6, <1>7 DEF TypeOK, Typed, StoreTyped, WorkersTyped, TriggersTyped, TimerTyped, LifeTyped
<1> QED
  BY <1>3, <1>4, <1>5, <1>6, <1>8 DEF IInv

\* The invariant of the whole module: types, claims, counters, the drain and
\* what is owed.
THEOREM ReconcilerInductive == Spec => []IInv
BY InitInvariant, NextInvariant, PTL DEF Spec

\* Every variable keeps its type: in particular no counter ever falls below zero.
THEOREM ReconcilerTypes == Spec => []TypeOK
<1>1. IInv => TypeOK
  BY DEF IInv
<1> QED
  BY <1>1, ReconcilerInductive, PTL

\* The wait group counts every accepted pass and every registration in progress.
THEOREM DrainWaits == Spec => []DrainWaitsForAll
<1>1. IInv => DrainWaitsForAll
  BY DEF IInv, Counters
<1> QED
  BY <1>1, ReconcilerInductive, PTL

\* After a drain that did not time out nobody is left who could write to the
\* closed store.
THEOREM DrainIsQuiet == Spec => []QuietAfterDrain
<1>1. IInv => QuietAfterDrain
  BY CountersCount DEF IInv, DrainShape, QuietAfterDrain, TimerHolds, TearingPcs, WalkingPcs
<1> QED
  BY <1>1, ReconcilerInductive, PTL

\* When no trigger and no pass is in progress nothing is owed.
THEOREM QuietIsPublished == Spec => []QuietMeansPublished
<1>1. ASSUME IInv, \A t \in Triggers : trigger[t].pc = "idle", \A w \in Workers : ~Holds(w)
      PROVE  ~owed
  <2>1. Opening = {} /\ Going = {} /\ ~Publishing
    BY <1>1 DEF Opening, Going, Publishing, Holds, HoldingPcs
  <2> QED
    BY <1>1, <2>1, CountersCount DEF IInv, OwedShape
<1>2. IInv => QuietMeansPublished
  BY <1>1 DEF QuietMeansPublished
<1> QED
  BY <1>2, ReconcilerInductive, PTL

\* No step adds to an empty wait group that a drain may be waiting on.
THEOREM NeverReused == Spec => NoAddFromZero
<1>1. ASSUME IInv, [Next]_vars, proc # "up", bg = 0
      PROVE  bg' = 0
  <2>1. Accepted = {} /\ Registering = {}
    BY <1>1, CountersCount DEF IInv
  <2>2. ASSUME NEW t \in Triggers, Arrive(t) \/ TriggerStep(t) PROVE bg' = 0
    <3>1. trigger[t].pc # "claim"
      BY <2>1 DEF Registering
    <3> QED
      BY <1>1, <2>2, <3>1 DEF TriggerStep, Arrive, Reset, Register, MayBegin, Skip, Start,
         EndTrigger, TriggerPublishes
  <2>3. ASSUME NEW w \in Workers, WorkerStep(w) PROVE bg' = 0
    <3>1. worker[w].pc = "free"
      BY <2>1 DEF Accepted
    <3> QED
      BY <2>3, <3>1 DEF WorkerStep, AfterPass, TakeSlot, Abandon, WorkerReconciles, WorkerReturns,
         WorkerReports, Uncount, WorkerPublishes, WorkerReleases, Done
  <2>4. CASE Round \/ TimerReconciles
    BY <1>1, <2>4, LoopLeavesAlone
  <2>5. CASE Edit \/ Cancel \/ BeginDrain \/ DrainReturns \/ DrainTimesOut
    BY <1>1, <2>5, ShutdownLeavesAlone
  <2>6. CASE Reload \/ Exit \/ Crash
    BY <2>6 DEF Reload, Exit, Crash, NewProcess
  <2>7. CASE UNCHANGED vars
    BY <1>1, <2>7 DEF vars
  <2> QED
    BY <1>1, <2>2, <2>3, <2>4, <2>5, <2>6, <2>7 DEF Next, ProcessStep
<1>2. IInv /\ [Next]_vars => [proc # "up" /\ bg = 0 => bg' = 0]_vars
  BY <1>1
<1> QED
  BY <1>2, ReconcilerInductive, PTL DEF Spec, NoAddFromZero

\* Every publication has a trigger that began since the last one.
THEOREM PublishedOnce == Spec => PublishedOncePerTrigger
<1>1. ASSUME IInv, [Next]_vars, published', ~published
      PROVE  owed
  <2>1. Publishing => owed
    BY <1>1 DEF IInv, OwedShape
  <2>2. ASSUME NEW t \in Triggers, Arrive(t) \/ TriggerStep(t) PROVE owed
    <3>1. TriggerPublishes(t)
      BY <1>1, <2>2 DEF TriggerStep, Arrive, Reset, Register, Skip, Start, EndTrigger, quota
    <3> QED
      BY <2>1, <3>1 DEF TriggerPublishes, Publishing
  <2>3. ASSUME NEW w \in Workers, WorkerStep(w) PROVE owed
    <3>1. WorkerPublishes(w)
      BY <1>1, <2>3 DEF WorkerStep, AfterPass, TakeSlot, Abandon, WorkerReconciles, WorkerReturns,
         WorkerReports, Uncount, WorkerReleases, Done, quota
    <3> QED
      BY <2>1, <3>1 DEF WorkerPublishes, Publishing
  <2>4. CASE UNCHANGED published
    BY <1>1, <2>4
  <2>5. CASE Reload \/ Exit \/ Crash
    BY <1>1, <2>5 DEF Reload, Exit, Crash, NewProcess
  <2>6. CASE Round \/ TimerReconciles
    BY <2>4, <2>6, LoopLeavesAlone
  <2>7. CASE Edit \/ Cancel \/ BeginDrain \/ DrainReturns \/ DrainTimesOut
    BY <2>4, <2>7, ShutdownLeavesAlone
  <2>8. CASE UNCHANGED vars
    BY <2>4, <2>8 DEF vars, quota
  <2> QED
    BY <1>1, <2>2, <2>3, <2>5, <2>6, <2>7, <2>8 DEF Next, ProcessStep
<1>2. IInv /\ [Next]_vars => [published' /\ ~published => owed]_vars
  BY <1>1
<1> QED
  BY <1>2, ReconcilerInductive, PTL DEF Spec, PublishedOncePerTrigger

\* A drain waits for every pass there is, and none comes after it.
THEOREM DrainIsAlwaysFinal == Spec => DrainIsFinal
<1>1. DrainWaitsForAll /\ QuietAfterDrain => DrainWaitsForAll /\ QuietAfterDrain
  OBVIOUS
<1> QED
  BY <1>1, DrainWaits, DrainIsQuiet, NeverReused, PTL DEF DrainIsFinal

\* Never a publication too few, never one too many.
THEOREM AlwaysPublishedOnce == Spec => PublishedExactlyOnce
  BY QuietIsPublished, PublishedOnce, PTL DEF PublishedExactlyOnce
=============================================================================
