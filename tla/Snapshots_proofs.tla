--------------------------- MODULE Snapshots_proofs ---------------------------
(* That SnapshotsInv is inductive, and what follows from it: the types of Snapshots,  *)
(* that pruning keeps the newest content, that what was read back stays restorable,   *)
(* and that a restore after a good round gets what that round sent. The first part    *)
(* is about the choices the code makes with a sort.                                   *)
EXTENDS SnapshotsInvariant, LeastElements

(* Files in the order of their names *)

\* The order of the names is strict and total.
LEMMA NamesOrdered ==
  ASSUME NEW a \in Names, NEW b \in Names, NEW c \in Names
  PROVE  /\ ~SortsBefore(a, a)
         /\ SortsBefore(a, b) /\ SortsBefore(b, c) => SortsBefore(a, c)
         /\ SortsBefore(a, b) => ~SortsBefore(b, a)
         /\ a = b \/ SortsBefore(a, b) \/ SortsBefore(b, a)
<1>1. ~SortsBefore(a, a) /\ (SortsBefore(a, b) => ~SortsBefore(b, a))
  BY DEF SortsBefore, Names, Bases
<1>2. SortsBefore(a, b) /\ SortsBefore(b, c) => SortsBefore(a, c)
  BY DEF SortsBefore, Names, Bases
<1>3. a = b \/ a.base # b.base \/ a.at # b.at \/ a.n # b.n
  BY DEF Names
<1>4. a = b \/ SortsBefore(a, b) \/ SortsBefore(b, a)
  BY <1>3 DEF SortsBefore, Names, Bases
<1> QED
  BY <1>1, <1>2, <1>4

Named(S) == \A f \in S : f.name \in Names
FirstIn(S, f) == f \in S /\ \A g \in S : ~SortsBefore(g.name, f.name)
\* A sort has a first element.
LEMMA HasFirst ==
  ASSUME NEW S, IsFiniteSet(S), Named(S), S # {}
  PROVE  \E f \in S : FirstIn(S, f)
<1> DEFINE F == {T \in SUBSET S : T # {} /\ \A x \in T : \E y \in T : SortsBefore(y.name, x.name)}
<1>1. SUFFICES ASSUME ~\E f \in S : FirstIn(S, f) PROVE FALSE
  OBVIOUS
<1>2. S \in F
  BY <1>1 DEF FirstIn
<1>3. PICK T \in F : \A U \in F : U \subseteq T => U = T
  <2>1. F \in SUBSET (SUBSET S) /\ F # {}
    BY <1>2
  <2>2. HaveSmallest(S)
    BY SmallestSet
  <2> HIDE DEF F
  <2> QED
    BY <2>1, <2>2 DEF HaveSmallest
<1>4. PICK x \in T : TRUE
  BY <1>3
<1>5. \A f \in T : f.name \in Names
  BY <1>3 DEF Named
<1>6. T \ {x} \in F
  <2>1. T \ {x} # {}
    <3>1. PICK y \in T : SortsBefore(y.name, x.name)
      BY <1>3, <1>4
    <3> QED
      BY <1>5, <3>1, NamesOrdered
  <2>2. ASSUME NEW z \in T \ {x} PROVE \E y \in T \ {x} : SortsBefore(y.name, z.name)
    <3>1. PICK y \in T : SortsBefore(y.name, z.name)
      BY <1>3, <2>2
    <3>2. CASE y # x
      BY <3>1, <3>2
    <3>3. CASE y = x
      <4>1. PICK w \in T : SortsBefore(w.name, x.name)
        BY <1>3, <1>4
      <4>2. SortsBefore(w.name, z.name) /\ w # x
        BY <1>5, <2>2, <3>1, <3>3, <4>1, NamesOrdered
      <4> QED
        BY <4>1, <4>2
    <3> QED
      BY <3>2, <3>3
  <2> QED
    BY <1>3, <2>1, <2>2
<1> QED
  BY <1>3, <1>4, <1>6

\* Any number of files can be taken from the front of a sort.
Front(S, n, s) == /\ s \in SUBSET S /\ Cardinality(s) = n
                  /\ \A f \in s, g \in S \ s : SortsBefore(f.name, g.name)
LEMMA HasFront ==
  ASSUME NEW S, IsFiniteSet(S), Named(S), Distinct(S), NEW n \in 0..Cardinality(S)
  PROVE  \E s : Front(S, n, s)
<1> DEFINE N == {m \in 0..Cardinality(S) : ~\E s : Front(S, m, s)}
<1>0. Cardinality(S) \in Nat
  BY FS_CardinalityType
<1>1. SUFFICES ASSUME N # {} PROVE FALSE
  OBVIOUS
<1>2. PICK m \in N : \A k \in N : m <= k
  <2>1. PICK I : I = 0..Cardinality(S)
    OBVIOUS
  <2>2. N \in SUBSET I /\ IsFiniteSet(I) /\ I \in SUBSET Int
    BY <1>0, <2>1, FS_Interval
  <2> HIDE DEF N
  <2>3. IsFiniteSet(N)
    BY <2>2, FS_Subset
  <2>4. N \in SUBSET Int
    BY <2>2
  <2> QED
    BY <1>1, <2>3, <2>4, LeastNumber
<1>3. m \in 0..Cardinality(S)
  OBVIOUS
<1>4. m # 0
  <2>1. Front(S, 0, {})
    BY FS_EmptySet DEF Front
  <2> QED
    BY <2>1
<1>5. m - 1 \in 0..Cardinality(S) /\ m - 1 \notin N
  BY <1>0, <1>2, <1>3, <1>4
<1>6. PICK s : Front(S, m - 1, s)
  BY <1>5
<1>7. IsFiniteSet(s) /\ IsFiniteSet(S \ s) /\ s # S
  BY <1>0, <1>3, <1>6, FS_Subset, FS_Difference DEF Front
<1>8. PICK x \in S \ s : FirstIn(S \ s, x)
  <2>1. S \ s # {} /\ Named(S \ s)
    BY <1>6, <1>7 DEF Front, Named
  <2> QED
    BY <1>7, <2>1, HasFirst
<1>9. Cardinality(s \cup {x}) = m
  <2>1. Cardinality(s) = m - 1 /\ x \notin s
    BY <1>6, <1>8 DEF Front
  <2>2. Cardinality(s \cup {x}) = Cardinality(s) + 1
    BY <1>7, <2>1, FS_AddElement
  <2> QED
    BY <1>0, <1>3, <2>1, <2>2
<1>10. ASSUME NEW f \in s \cup {x}, NEW g \in S \ (s \cup {x}) PROVE SortsBefore(f.name, g.name)
  <2>1. CASE f \in s
    BY <1>6, <2>1 DEF Front
  <2>2. CASE f = x
    <3>1. ~SortsBefore(g.name, x.name) /\ g.name # x.name
      BY <1>8 DEF FirstIn, Distinct
    <3> QED
      BY <2>2, <3>1, NamesOrdered DEF Named
  <2> QED
    BY <2>1, <2>2
<1>11. Front(S, m, s \cup {x})
  BY <1>6, <1>8, <1>9, <1>10 DEF Front
<1> QED
  BY <1>2, <1>11

LEMMA LeastOfIsFront ==
  ASSUME NEW S, IsFiniteSet(S), Named(S), Distinct(S), NEW n \in 0..Cardinality(S)
  PROVE  LeastOf(S, n) \in SUBSET S
<1>1. PICK s : Front(S, n, s)
  BY HasFront
<1> QED
  BY <1>1 DEF LeastOf, Front


\* freeSnapshotName finds a name that is free: of one number more than are taken, one is.
LEMMA FreeNumber ==
  ASSUME NEW taken, IsFiniteSet(taken)
  PROVE  LET m == Min((0..Cardinality(taken)) \ taken) IN m \in Nat /\ m \notin taken
<1>1. PICK k \in Nat : k = Cardinality(taken)
  BY FS_CardinalityType
<1>2. PICK I : I = 0..k
  OBVIOUS
<1>3. IsFiniteSet(I) /\ Cardinality(I) = k + 1 /\ I \in SUBSET Nat
  BY <1>2, FS_Interval
<1>4. I \ taken # {}
  <2>1. SUFFICES ASSUME I \in SUBSET taken PROVE FALSE
    OBVIOUS
  <2>2. Cardinality(I) <= Cardinality(taken)
    BY <2>1, FS_Subset
  <2> QED
    BY <1>1, <1>3, <2>2
<1>5. PICK J : J = I \ taken
  OBVIOUS
<1>6. IsFiniteSet(J) /\ J \in SUBSET Int /\ J # {}
  <2>1. J \in SUBSET I /\ J # {}
    BY <1>4, <1>5
  <2>2. IsFiniteSet(J)
    BY <1>3, <2>1, FS_Subset
  <2>3. J \in SUBSET Int
    BY <1>3, <2>1
  <2> QED
    BY <2>1, <2>2, <2>3
<1>7. Min(J) \in J
  BY <1>6, MinLeast
<1> QED
  BY <1>1, <1>2, <1>3, <1>5, <1>7

LEMMA FreeName ==
  ASSUME NEW files \in SUBSET Files, IsFiniteSet(files), NEW at \in Nat
  PROVE  LET m == freeSnapshotName(files, at) IN
         m \in Names /\ m.base = "hashed" /\ m.at = at /\ \A f \in files : f.name # m
<1> DEFINE peers == {g \in files : g.name.base = "hashed" /\ g.name.at = at}
           taken == {f.name.n : f \in peers}
<1>1. IsFiniteSet(taken)
  <2> DEFINE num == [f \in peers |-> f.name.n]
  <2>1. num \in Surjection(peers, taken)
    BY DEF Surjection
  <2>2. IsFiniteSet(peers)
    <3>1. peers \in SUBSET files
      OBVIOUS
    <3> QED
      BY <3>1, FS_Subset
  <2> HIDE DEF num, peers, taken
  <2> QED
    BY <2>1, <2>2, FS_Surjection
<1>2. PICK n \in Nat : n = Min((0..Cardinality(taken)) \ taken) /\ n \notin taken
  <2> HIDE DEF taken
  <2> QED
    BY <1>1, FreeNumber
<1>3. freeSnapshotName(files, at) = Name("hashed", at, n)
  BY <1>2 DEF freeSnapshotName
<1>4. ASSUME NEW f \in files, f.name = Name("hashed", at, n) PROVE FALSE
  <2>1. f \in peers /\ f.name.n = n
    BY <1>4 DEF Name
  <2> QED
    BY <1>2, <2>1
<1> QED
  BY <1>3, <1>4 DEF Name, Names, Bases


(* Types *)

LEMMA NumbersTyped == Times \subseteq Nat \ {0} /\ Vers \subseteq Nat /\ 0 \in Vers /\ 1 \in Times
BY BoundsAssumption DEF Times, Vers

LEMMA IdleTyped == Idle \in Rounds
BY NumbersTyped DEF Idle, Rounds, Pcs, Names, Bases, Name

LEMMA FirstOfFuture ==
  ASSUME PoolShape, Future # {}
  PROVE  First(Future) \in Future /\ First(Future) \in pool
<1>1. Future \in SUBSET pool
  BY DEF Future
<1>2. IsFiniteSet(Future) /\ Named(Future)
  BY <1>1, FS_Subset DEF PoolShape, Named, Files
<1>3. PICK f \in Future : FirstIn(Future, f)
  BY <1>2, HasFirst
<1>4. First(Future) \in Future
  BY <1>3 DEF First, FirstIn
<1> QED
  BY <1>1, <1>4

\* The clock, the database, the history and the round keep their types.
LEMMA BasicTyped ==
  ASSUME BasicTypes, PoolShape, [Next]_vars
  PROVE  BasicTypes'
<1>0. /\ clock \in Times /\ clock \in Nat /\ db \in Vers /\ spent \in Nat /\ round \in Rounds /\ clean \in BOOLEAN
      /\ shipped \in Vers /\ setting \in Settings
  BY NumbersTyped DEF BasicTypes
<1>1. clock' \in Times /\ db' \in Vers /\ setting' \in Settings
  <2>1. Next => UNCHANGED <<clock, db, setting>> \/ Tick \/ ClockSteps \/ Change
    BY DEF Next, Begin, Sweep, Repair, Copy, Prune, Upload, Sign, Delete, Verify, Crash, World
  <2>2. CASE Tick
    BY <1>0, <2>2, BoundsAssumption DEF Tick, Times
  <2>3. CASE ClockSteps
    BY <1>0, <2>3 DEF ClockSteps
  <2>4. CASE Change
    BY <1>0, <2>4, BoundsAssumption DEF Change, Vers
  <2> QED
    BY <1>0, <2>1, <2>2, <2>3, <2>4 DEF vars
<1>2. spent' \in Nat
  <2>1. Next => spent' = spent \/ spent' = spent + 1
    BY DEF Next, Begin, Sweep, Repair, Copy, Prune, Upload, Sign, Delete, Verify, Crash, Tick, ClockSteps,
           Change, Fine, Mishap, Declined
  <2> QED
    BY <1>0, <2>1 DEF vars
<1>3. clean' \in BOOLEAN
  <2>1. Next => clean' = clean \/ clean' \in BOOLEAN
    BY DEF Next, Begin, Sweep, Repair, Copy, Prune, Upload, Sign, Delete, Verify, Crash, Tick, ClockSteps,
           Change, Fine, Mishap, Declined
  <2> QED
    BY <1>0, <2>1 DEF vars
<1>4. shipped' \in Vers
  <2>1. Next => shipped' = shipped \/ shipped' = round.ver
    BY DEF Next, Begin, Sweep, Repair, Copy, Prune, Upload, Sign, Delete, Verify, Crash, Tick, ClockSteps,
           Change, Remote
  <2> QED
    BY <1>0, <2>1 DEF vars, Rounds
<1>5. round' \in Rounds
  <2>1. CASE round' = Idle
    BY <2>1, IdleTyped
  <2>2. CASE Begin
    BY <1>0, <2>2, IdleTyped DEF Begin, Rounds, Pcs
  <2>3. CASE Sweep
    BY <1>0, <2>3 DEF Sweep, Rounds, Pcs
  <2>4. ASSUME NEW pc \in Pcs, round' = [round EXCEPT !.pc = pc] PROVE round' \in Rounds
    BY <1>0, <2>4 DEF Rounds
  <2>5. CASE Repair
    <3>1. CASE Goes("copy")
      BY <2>4, <3>1 DEF Goes, Pcs
    <3>2. CASE Future # {} /\ round' = [round EXCEPT !.stuck = @ \cup {First(Future).name}]
      <4>1. First(Future).name \in Names
        BY <3>2, FirstOfFuture DEF PoolShape, Files
      <4> QED
        BY <1>0, <3>2, <4>1 DEF Rounds
    <3> QED
      BY <1>0, <2>5, <3>1, <3>2 DEF Repair
  <2>6. CASE Copy
    <3>1. round.stamp \in Nat
      BY <1>0 DEF Rounds
    <3>2. freeSnapshotName(pool, round.stamp) \in Names
      BY <3>1, FreeName DEF PoolShape
    <3>3. round' = [round EXCEPT !.pc = "prune", !.name = freeSnapshotName(pool, round.stamp), !.ver = db]
      BY <2>6 DEF Copy
    <3> QED
      BY <1>0, <3>2, <3>3 DEF Rounds, Pcs
  <2>7. Prune \/ Upload \/ Sign \/ Delete \/ Verify \/ Crash \/ Tick \/ ClockSteps \/ Change
          => round' = Idle \/ UNCHANGED round \/ \E pc \in Pcs : round' = [round EXCEPT !.pc = pc]
    BY DEF Prune, Upload, Sign, Delete, Verify, Crash, Tick, ClockSteps, Change, Goes, Quits, AfterPut, Pcs
  <2> QED
    BY <1>0, <2>1, <2>2, <2>3, <2>4, <2>5, <2>6, <2>7 DEF Next, vars
<1> QED
  BY <1>1, <1>2, <1>3, <1>4, <1>5 DEF BasicTypes

\* pruneSnapshots takes files of the pool, and not the one just written.
LEMMA VictimsSpare ==
  ASSUME BasicTypes, PoolShape, NEW name, \E f \in pool : f.name = name
  PROVE  victims(pool, setting.keep, name) \in SUBSET {f \in pool : f.name # name}
<1>1. PICK k \in Nat \ {0} : k = setting.keep
  BY SettingsAssumption DEF BasicTypes
<1>2. PICK p \in pool : p.name = name
  OBVIOUS
<1>3. PICK others : others = {f \in pool : f.name # name}
  OBVIOUS
<1>4. others = pool \ {p}
  BY <1>2, <1>3 DEF PoolShape, Distinct
<1>5. IsFiniteSet(others) /\ Cardinality(others) = Cardinality(pool) - 1
  BY <1>2, <1>4, FS_RemoveElement DEF PoolShape
<1>6. Named(others) /\ Distinct(others)
  BY <1>4 DEF PoolShape, Named, Distinct, Files
<1>7. CASE Cardinality(pool) <= k
  BY <1>1, <1>7 DEF victims
<1>8. CASE ~(Cardinality(pool) <= k)
  <2>1. PICK n \in Nat : n = Cardinality(pool) - k /\ n <= Cardinality(others) /\ Cardinality(others) \in Nat
    BY <1>1, <1>5, <1>8, FS_CardinalityType DEF PoolShape
  <2>2. LeastOf(others, n) \in SUBSET others
    BY <1>5, <1>6, <2>1, LeastOfIsFront
  <2>3. victims(pool, setting.keep, name) = LeastOf(others, n)
    BY <1>1, <1>3, <1>8, <2>1 DEF victims
  <2> QED
    BY <1>3, <2>2, <2>3
<1> QED
  BY <1>7, <1>8

\* Renaming and copying keep the names of the pool apart.
LEMMA PoolKept ==
  ASSUME BasicTypes, PoolShape, OwnShape, [Next]_vars
  PROVE  PoolShape'
<1>0. clock \in Nat /\ db \in Vers /\ round \in Rounds /\ pool \in SUBSET Files /\ IsFiniteSet(pool) /\ Distinct(pool)
  BY NumbersTyped DEF BasicTypes, PoolShape
<1>1. CASE UNCHANGED pool
  BY <1>1 DEF PoolShape, Distinct
<1>2. CASE pool' \subseteq pool
  BY <1>0, <1>2, FS_Subset DEF PoolShape, Distinct
<1>3. ASSUME NEW files \in SUBSET pool, NEW g \in Files, pool' = files \cup {g}, \A f \in pool : f.name # g.name
      PROVE  PoolShape'
  <2>1. IsFiniteSet(files)
    BY <1>0, FS_Subset
  <2>2. IsFiniteSet(pool')
    BY <1>3, <2>1, FS_AddElement
  <2>3. Distinct(pool')
    BY <1>0, <1>3 DEF Distinct
  <2> QED
    BY <1>0, <1>3, <2>2, <2>3 DEF PoolShape
<1>4. CASE Repair /\ Future # {} /\ pool' = Renamed(First(Future))
  <2>1. PICK f \in pool : f = First(Future)
    BY <1>4, FirstOfFuture
  <2>2. PICK at \in Nat : at = Min({f.mtime, round.now})
    <3>1. f.mtime \in Nat /\ round.now \in Nat
      BY <1>0, <2>1 DEF Rounds, Files
    <3>2. PICK a \in Int, b \in Int : a = f.mtime /\ b = round.now
      BY <3>1
    <3>3. Min({a, b}) \in {a, b}
      BY OfTwo
    <3> QED
      BY <3>1, <3>2, <3>3
  <2>3. PICK name \in Names : name = freeSnapshotName(pool, at) /\ \A g \in pool : g.name # name
    BY <1>0, FreeName
  <2>4. pool' = (pool \ {f}) \cup {[f EXCEPT !.name = name]}
    BY <1>4, <2>1, <2>2, <2>3 DEF Renamed
  <2>5. [f EXCEPT !.name = name] \in Files /\ [f EXCEPT !.name = name].name = name
    BY <1>0, <2>1, <2>3 DEF Files
  <2> QED
    BY <1>3, <2>3, <2>4, <2>5
<1>5. CASE Copy
  <2>1. PICK name \in Names : name = freeSnapshotName(pool, round.stamp) /\ \A g \in pool : g.name # name
    <3>1. round.stamp \in Nat
      BY <1>0 DEF Rounds
    <3> QED
      BY <1>0, <3>1, FreeName
  <2>2. pool' = pool \cup {[name |-> name, ver |-> db, mtime |-> clock]}
    BY <1>5, <2>1 DEF Copy
  <2>3. [name |-> name, ver |-> db, mtime |-> clock] \in Files
    BY <1>0, <2>1 DEF Files
  <2> QED
    BY <1>3, <2>1, <2>2, <2>3
<1>6. CASE Prune
  <2>1. victims(pool, setting.keep, round.name) \in SUBSET pool
    BY <1>6, VictimsSpare DEF Prune, OwnShape, At
  <2> QED
    BY <1>2, <1>6, <2>1 DEF Prune
<1>7. Next => UNCHANGED pool \/ (Repair /\ Future # {} /\ pool' = Renamed(First(Future))) \/ Copy \/ Prune
  BY DEF Next, Begin, Sweep, Repair, Upload, Sign, Delete, Verify, Crash, Tick, ClockSteps, Change
<1> QED
  BY <1>1, <1>4, <1>5, <1>6, <1>7 DEF vars


\* Remote pruning takes other names of the same form only.
LEMMA RemoteVictimsArePeers ==
  ASSUME BasicTypes, RemoteShape
  PROVE  remoteVictims \in SUBSET Peers
<1>1. Peers \in SUBSET objects /\ Ahead \in SUBSET Peers
  BY DEF Peers, Ahead
<1>2. PICK rest : rest = Peers \ Ahead
  OBVIOUS
<1>3. IsFiniteSet(rest) /\ Named(rest) /\ Distinct(rest) /\ IsFiniteSet(Peers) /\ IsFiniteSet(Ahead)
  <2>1. rest \in SUBSET objects /\ Ahead \in SUBSET objects
    BY <1>1, <1>2
  <2> QED
    BY <1>1, <2>1, FS_Subset DEF RemoteShape, Named, Distinct, Objects
<1>4. PICK c \in Nat : c = Cardinality(rest)
  BY <1>3, FS_CardinalityType
<1>5. Extra \in Int
  <2>1. setting.remoteKeep \in Nat
    BY SettingsAssumption DEF BasicTypes
  <2>2. Cardinality(Peers) \in Nat /\ Cardinality(Ahead) \in Nat
    BY <1>3, FS_CardinalityType
  <2> QED
    BY <1>2, <1>4, <2>1, <2>2 DEF Extra
<1>6. PICK n \in 0..c : n = Min({c, Max({0, Extra})})
  <2>1. PICK e \in Int : e = Extra
    BY <1>5
  <2>2. Max({0, e}) \in {0, e} /\ Max({0, e}) >= 0
    BY OfTwo
  <2>3. PICK m \in Nat : m = Max({0, e})
    BY <2>2
  <2>4. Min({c, m}) \in {c, m} /\ Min({c, m}) <= c
    BY OfTwo
  <2> QED
    BY <2>1, <2>3, <2>4
<1>7. LeastOf(rest, n) \in SUBSET rest
  BY <1>3, <1>4, LeastOfIsFront
<1> QED
  BY <1>1, <1>2, <1>4, <1>6, <1>7 DEF remoteVictims

LEMMA RemoteKept ==
  ASSUME BasicTypes, RemoteShape, VersionShape, [Next]_vars
  PROVE  RemoteShape'
<1>0. round \in Rounds /\ objects \in SUBSET Objects /\ IsFiniteSet(objects) /\ Distinct(objects) /\ sidecars \in SUBSET Objects
  BY DEF BasicTypes, RemoteShape
<1>1. [name |-> round.name, ver |-> round.ver] \in Objects
  BY <1>0 DEF Rounds, Objects
<1>2. sidecars' \in SUBSET Objects
  <2>1. Next => sidecars' \subseteq sidecars \/ sidecars' = Put(sidecars, round.name, round.ver)
    BY DEF Next, Begin, Sweep, Repair, Copy, Prune, Upload, Sign, Delete, Verify, Crash, Tick, ClockSteps,
           Change, Remote
  <2> QED
    BY <1>0, <1>1, <2>1 DEF Put, At2, vars
<1>3. CASE objects' \subseteq objects
  BY <1>0, <1>2, <1>3, FS_Subset DEF RemoteShape, Distinct
<1>4. CASE Upload /\ objects' = Published(objects)
  <2>1. PICK rest : rest = objects \ At2(objects, round.name)
    OBVIOUS
  <2>2. objects' = rest \cup {[name |-> round.name, ver |-> round.ver]}
    BY <1>4, <2>1 DEF Published, Put
  <2>3. rest \in SUBSET objects /\ \A f \in rest : f.name # round.name
    BY <2>1 DEF At2
  <2>4. IsFiniteSet(rest)
    BY <1>0, <2>3, FS_Subset
  <2>5. IsFiniteSet(objects')
    BY <2>2, <2>4, FS_AddElement
  <2>6. Distinct(objects')
    BY <1>0, <2>2, <2>3 DEF Distinct
  <2>7. round.name.base = "hashed"
    BY <1>4 DEF Upload, VersionShape, Copied, At
  <2> QED
    BY <1>0, <1>1, <1>2, <2>2, <2>3, <2>5, <2>6, <2>7 DEF RemoteShape
<1>5. Next => objects' \subseteq objects \/ (Upload /\ objects' = Published(objects))
  BY DEF Next, Begin, Sweep, Repair, Copy, Prune, Upload, Sign, Delete, Verify, Crash, Tick, ClockSteps,
         Change, Remote
<1> QED
  BY <1>3, <1>4, <1>5 DEF vars


(* Where a round's copy is *)

\* What a step from one point of a round to a later one leaves of the round.
LEMMA RoundGoes ==
  ASSUME round \in Rounds, NEW pc \in Pcs, round' = [round EXCEPT !.pc = pc]
  PROVE  round'.pc = pc /\ round'.stamp = round.stamp /\ round'.name = round.name /\ round'.ver = round.ver
BY DEF Rounds

LEMMA VersionKept ==
  ASSUME BasicTypes, PoolShape, RemoteShape, OwnShape, VersionShape, [Next]_vars
  PROVE  VersionShape'
<1>0. round \in Rounds /\ db \in Nat /\ shipped \in Nat /\ round.ver \in Nat
      /\ (\A f \in pool : f.ver \in Nat) /\ (\A f \in objects : f.ver \in Nat)
  BY NumbersTyped DEF BasicTypes, Rounds, PoolShape, RemoteShape, Files, Objects
<1>1. CASE UNCHANGED <<shipped, db, pool, objects, round>>
  BY <1>1 DEF VersionShape
<1>2. CASE round'.pc \notin Copied /\ UNCHANGED <<shipped, db, objects>>
           /\ \A f \in pool' : \E g \in pool : f.ver = g.ver
  BY <1>2 DEF VersionShape
<1>3. CASE Begin
  BY <1>2, <1>3 DEF Begin, Idle, Copied, World, Remote
<1>4. CASE Sweep
  <2>1. round'.pc = "repair"
    BY <1>0, <1>4 DEF Sweep, Rounds
  <2> QED
    BY <1>2, <1>4, <2>1 DEF Sweep, Copied, World, Remote
<1>5. CASE Repair
  <2>1. round'.pc \in {"repair", "copy"}
    BY <1>0, <1>5 DEF Repair, Goes, At, Rounds
  <2>2. \A f \in pool' : \E g \in pool : f.ver = g.ver
    <3>1. CASE UNCHANGED pool
      BY <3>1
    <3>2. CASE Future # {} /\ pool' = Renamed(First(Future))
      <4>1. PICK f \in pool : f = First(Future)
        BY <3>2, FirstOfFuture
      <4>2. PICK name : pool' = (pool \ {f}) \cup {[f EXCEPT !.name = name]}
        BY <3>2, <4>1 DEF Renamed
      <4>3. [f EXCEPT !.name = name].ver = f.ver
        BY <4>1 DEF PoolShape, Files
      <4> QED
        BY <4>1, <4>2, <4>3
    <3> QED
      BY <1>5, <3>1, <3>2 DEF Repair
  <2> QED
    BY <1>2, <1>5, <2>1, <2>2 DEF Repair, Copied, World, Remote
<1>6. CASE Copy
  <2>1. round.stamp \in Nat
    BY <1>0 DEF Rounds
  <2>2. PICK name \in Names : name = freeSnapshotName(pool, round.stamp) /\ name.base = "hashed" /\ name.at = round.stamp
    BY <2>1, FreeName DEF PoolShape
  <2>3. /\ pool' = pool \cup {[name |-> name, ver |-> db, mtime |-> clock]}
        /\ round' = [round EXCEPT !.pc = "prune", !.name = name, !.ver = db]
    BY <1>6, <2>2 DEF Copy
  <2>4. round'.name = name /\ round'.ver = db /\ round'.stamp = round.stamp
    BY <1>0, <2>3 DEF Rounds
  <2>5. UNCHANGED <<shipped, db, objects>>
    BY <1>6 DEF Copy, World, Remote
  <2>6. \A f \in pool' \cup objects' : f.ver <= db
    BY <1>0, <2>3, <2>5 DEF VersionShape
  <2> QED
    BY <1>0, <2>2, <2>4, <2>5, <2>6 DEF VersionShape
<1>7. CASE /\ round.pc \in Copied /\ UNCHANGED db /\ shipped' \in {shipped, round.ver}
           /\ pool' \subseteq pool /\ \A f \in objects' : f \in objects \/ f.ver = round.ver
           /\ round' = Idle \/ \E pc \in Pcs : round' = [round EXCEPT !.pc = pc]
  <2>1. round'.pc \in Copied =>
          round'.name = round.name /\ round'.stamp = round.stamp /\ round'.ver = round.ver
    BY <1>0, <1>7, RoundGoes DEF Idle, Copied
  <2>2. \A f \in pool' \cup objects' : f.ver <= round.ver
    BY <1>0, <1>7 DEF VersionShape
  <2>3. shipped' <= round.ver /\ round.ver <= db /\ db' = db
    BY <1>0, <1>7 DEF VersionShape
  <2>4. \A f \in pool' \cup objects' : f.ver <= db'
    <3>1. SUFFICES ASSUME NEW f \in pool' \cup objects' PROVE f.ver <= db
      BY <2>3
    <3>2. f.ver \in Nat
      BY <1>0, <1>7
    <3> QED
      BY <1>0, <2>2, <2>3, <3>2
  <2>5. shipped' <= db'
    BY <1>0, <1>7, <2>3
  <2>6. round.pc \in Copied /\ round.name.base = "hashed" /\ round.name.at = round.stamp
    BY <1>7 DEF VersionShape
  <2> QED
    BY <2>1, <2>2, <2>3, <2>4, <2>5, <2>6 DEF VersionShape
<1>8. CASE Prune
  <2>1. victims(pool, setting.keep, round.name) \in SUBSET pool
    BY <1>8, VictimsSpare DEF Prune, OwnShape, At
  <2> QED
    BY <1>7, <1>8, <2>1 DEF Prune, At, Copied, World, Remote, Goes, Quits, Pcs
<1>9. CASE Upload
  <2>1. \A f \in objects' : f \in objects \/ f.ver = round.ver
    BY <1>9 DEF Upload, Published, Put
  <2> QED
    BY <1>7, <1>9, <2>1 DEF Upload, At, Copied, World, Goes, Quits, AfterPut, Pcs
<1>10. CASE Sign
  BY <1>7, <1>10 DEF Sign, At, Copied, World, Goes, Quits, Pcs
<1>11. CASE Delete
  BY <1>7, <1>11 DEF Delete, At, Copied, World, Goes, Pcs
<1>12. CASE Verify
  BY <1>7, <1>12 DEF Verify, At, Copied, World, Quits
<1>13. CASE Tick \/ ClockSteps
  BY <1>1, <1>13 DEF Tick, ClockSteps
<1>14. CASE Change
  <2>1. db' = db + 1 /\ UNCHANGED <<shipped, pool, objects, round>>
    BY <1>14 DEF Change
  <2> QED
    BY <1>0, <2>1 DEF VersionShape
<1>15. CASE Crash
  BY <1>2, <1>15 DEF Crash, Quits, Idle, Copied
<1> QED
  BY <1>1, <1>3, <1>4, <1>5, <1>6, <1>8, <1>9, <1>10, <1>11, <1>12, <1>13, <1>14, <1>15 DEF Next, vars


\* A round starts on a stamp nothing bears, and its own upload is the only one that does.
LEMMA FreshKept ==
  ASSUME BasicTypes, FreshShape, [Next]_vars
  PROVE  FreshShape'
<1>0. round \in Rounds
  BY DEF BasicTypes
<1>1. CASE UNCHANGED <<objects, sidecars, round>>
  BY <1>1 DEF FreshShape
<1>2. CASE round' = Idle
  BY <1>2 DEF FreshShape, Idle, Begun
<1>3. CASE Begin
  <2>1. round'.pc = "sweep" /\ round'.stamp = clock /\ UNCHANGED <<objects, sidecars>>
    BY <1>3 DEF Begin, Idle, Remote
  <2> QED
    BY <1>3, <2>1 DEF Begin, FreshStamp, FreshShape, Begun
<1>4. CASE Sweep \/ Repair \/ Copy
  <2>1. round'.stamp = round.stamp /\ round.pc \in Begun /\ round'.pc \in Begun \cup {"prune"}
    BY <1>0, <1>4 DEF Sweep, Repair, Copy, Goes, At, Rounds, Begun
  <2>2. UNCHANGED <<objects, sidecars>>
    BY <1>4 DEF Sweep, Repair, Copy, Remote
  <2> QED
    BY <2>1, <2>2 DEF FreshShape, Begun
<1>5. CASE Prune
  <2>1. round' = Idle \/ (round.pc = "prune" /\ round' = [round EXCEPT !.pc = "put"])
    BY <1>5 DEF Prune, Goes, Quits, At
  <2>2. UNCHANGED <<objects, sidecars>>
    BY <1>5 DEF Prune, Remote
  <2> QED
    BY <1>0, <1>2, <2>1, <2>2 DEF FreshShape, Begun, Rounds
<1>6. CASE Upload /\ objects' = Published(objects) /\ Goes(AfterPut)
  <2>1. round'.pc \in {"sign", "delete"} /\ round'.stamp = round.stamp /\ round'.name = round.name /\ round.pc = "put"
    BY <1>0, <1>6 DEF Goes, AfterPut, Upload, At, Rounds
  <2>2. \A f \in objects' : f \in objects \/ f.name = round.name
    BY <1>6 DEF Published, Put
  <2>3. sidecars' = sidecars
    BY <1>6 DEF Upload
  <2> QED
    BY <2>1, <2>2, <2>3 DEF FreshShape, Begun
<1>7. CASE Sign
  <2>1. round' = Idle \/ (round.pc = "sign" /\ round' = [round EXCEPT !.pc = "delete"])
    BY <1>7 DEF Sign, Goes, Quits, At
  <2>2. objects' = objects
    BY <1>7 DEF Sign
  <2> QED
    BY <1>0, <1>2, <2>1, <2>2 DEF FreshShape, Begun, Rounds
<1>8. CASE Delete
  <2>1. round.pc = "delete" /\ round'.pc = "verify" /\ round'.stamp = round.stamp /\ round'.name = round.name
    BY <1>0, <1>8 DEF Delete, Goes, At, Rounds
  <2>2. objects' \subseteq objects
    BY <1>8 DEF Delete
  <2> QED
    BY <2>1, <2>2 DEF FreshShape, Begun
<1>9. Upload => round' = Idle \/ (objects' = Published(objects) /\ Goes(AfterPut))
  BY DEF Upload, Quits
<1>10. Verify \/ Crash => round' = Idle
  BY DEF Verify, Crash, Quits
<1>11. Tick \/ ClockSteps \/ Change => UNCHANGED <<objects, sidecars, round>>
  BY DEF Tick, ClockSteps, Change
<1> QED
  BY <1>1, <1>2, <1>3, <1>4, <1>5, <1>6, <1>7, <1>8, <1>9, <1>10, <1>11 DEF Next, vars

\* The round's copy is in the pool while others are pruned, and signed at the remote end
\* before anything is pruned there.
LEMMA OwnKept ==
  ASSUME BasicTypes, PoolShape, RemoteShape, OwnShape, [Next]_vars
  PROVE  OwnShape'
<1>0. round \in Rounds
  BY DEF BasicTypes
<1>1. CASE UNCHANGED <<pool, objects, sidecars, round, setting>>
  BY <1>1 DEF OwnShape, Pair
<1>2. CASE round'.pc \notin {"prune", "sign", "delete", "verify"}
  BY <1>2 DEF OwnShape
<1>3. CASE Copy
  <2>1. PICK name : /\ pool' = pool \cup {[name |-> name, ver |-> db, mtime |-> clock]}
                    /\ round' = [round EXCEPT !.pc = "prune", !.name = name, !.ver = db]
    BY <1>3 DEF Copy
  <2>2. round'.name = name /\ round'.ver = db /\ round'.pc = "prune"
    BY <1>0, <2>1 DEF Rounds
  <2> QED
    BY <2>1, <2>2 DEF OwnShape
<1>4. CASE Upload /\ objects' = Published(objects) /\ Goes(AfterPut)
  <2>1. round'.name = round.name /\ round'.ver = round.ver
        /\ (round'.pc = "sign" \/ (round'.pc = "delete" /\ ~setting.signed))
    BY <1>0, <1>4 DEF Goes, AfterPut, Rounds
  <2>2. PICK f \in objects' : f.name = round.name /\ f.ver = round.ver
    <3>1. [name |-> round.name, ver |-> round.ver] \in objects'
      BY <1>4 DEF Published, Put
    <3> QED
      BY <3>1
  <2>3. setting' = setting
    BY <1>4 DEF Upload, World
  <2> QED
    BY <2>1, <2>2, <2>3 DEF OwnShape, Pair
<1>5. CASE Sign /\ ~(round' = Idle)
  <2>1. round.pc = "sign" /\ round'.pc = "delete" /\ round'.name = round.name /\ round'.ver = round.ver
    BY <1>0, <1>5 DEF Sign, Goes, Quits, At, Rounds
  <2>2. PICK s \in sidecars' : s.name = round.name /\ s.ver = round.ver
    <3>1. [name |-> round.name, ver |-> round.ver] \in sidecars'
      BY <1>5 DEF Sign, Quits, Put
    <3> QED
      BY <3>1
  <2>3. PICK f \in objects : f.name = round.name /\ f.ver = round.ver
    BY <2>1 DEF OwnShape
  <2>4. Pair(f)'
    BY <2>2, <2>3 DEF Pair
  <2> QED
    BY <1>5, <2>1, <2>3, <2>4 DEF OwnShape, Sign
<1>6. CASE Delete
  <2>1. round.pc = "delete" /\ round'.pc = "verify" /\ round'.name = round.name /\ round'.ver = round.ver
    BY <1>0, <1>6 DEF Delete, Goes, At, Rounds
  <2>2. PICK f \in objects : f.name = round.name /\ f.ver = round.ver /\ Pair(f)
    BY <2>1 DEF OwnShape
  <2>3. PICK gone \in SUBSET Peers : objects' = objects \ gone /\ \A s \in sidecars : s \in sidecars' \/ \E g \in gone : g.name = s.name
    BY <1>6, RemoteVictimsArePeers DEF Delete
  <2>4. \A g \in gone : g.name # round.name
    BY <2>3 DEF Peers
  <2>5. f \in objects' /\ setting' = setting
    BY <1>6, <2>2, <2>3, <2>4 DEF Delete, World
  <2>6. Pair(f)'
    BY <2>2, <2>3, <2>4, <2>5 DEF Pair
  <2> QED
    BY <2>1, <2>2, <2>5, <2>6 DEF OwnShape
<1>7. Begin \/ Sweep \/ Repair \/ Prune => round'.pc \notin {"prune", "sign", "delete", "verify"}
  <2>1. Begin => round'.pc = "sweep"
    BY DEF Begin, Idle
  <2>2. Sweep => round'.pc = "repair"
    BY <1>0 DEF Sweep, Rounds
  <2>3. Repair => round'.pc \in {"repair", "copy"}
    BY <1>0 DEF Repair, Goes, At, Rounds
  <2>4. Prune => round'.pc \in {"put", "idle"}
    BY <1>0 DEF Prune, Goes, Quits, Idle, Rounds
  <2> QED
    BY <2>1, <2>2, <2>3, <2>4
<1>8. Upload => round' = Idle \/ (objects' = Published(objects) /\ Goes(AfterPut))
  BY DEF Upload, Quits
<1>9. Verify \/ Crash => round' = Idle
  BY DEF Verify, Crash, Quits
<1>10. round' = Idle => round'.pc \notin {"prune", "sign", "delete", "verify"}
  BY DEF Idle
<1>11. Tick \/ ClockSteps \/ Change => UNCHANGED <<pool, objects, sidecars, round, setting>>
  BY DEF Tick, ClockSteps, Change
<1> QED
  BY <1>1, <1>2, <1>3, <1>4, <1>5, <1>6, <1>7, <1>8, <1>9, <1>10, <1>11 DEF Next, vars


\* What a restore can rely on stays: putting and signing replace nothing, pruning spares
\* the round's own signed copy, which is as new as anything read back before.
LEMMA ShippedKept ==
  ASSUME BasicTypes, RemoteShape, VersionShape, FreshShape, OwnShape, ShippedStaysRestorable, [Next]_vars
  PROVE  ShippedStaysRestorable'
<1>0. round \in Rounds
  BY DEF BasicTypes
<1>1. CASE UNCHANGED shipped /\ UNCHANGED setting /\ objects \subseteq objects' /\ sidecars \subseteq sidecars'
  BY <1>1 DEF ShippedStaysRestorable, Pair
<1>2. CASE Upload
  <2>1. round.pc = "put"
    BY <1>2 DEF Upload, At
  <2>2. round.name.at = round.stamp /\ \A f \in objects : f.name.at # round.stamp
    BY <2>1 DEF VersionShape, FreshShape, Copied
  <2>3. At2(objects, round.name) = {}
    BY <2>2 DEF At2
  <2>4. objects \subseteq objects'
    BY <1>2, <2>3 DEF Upload, Published, Put
  <2> QED
    BY <1>1, <1>2, <2>4 DEF Upload, World
<1>3. CASE Sign
  <2>1. round.pc = "sign"
    BY <1>3 DEF Sign, At
  <2>2. round.name.at = round.stamp /\ \A s \in sidecars : s.name.at # round.stamp
    BY <2>1 DEF VersionShape, FreshShape, Copied
  <2>3. At2(sidecars, round.name) = {}
    BY <2>2 DEF At2
  <2>4. sidecars \subseteq sidecars'
    BY <1>3, <2>3 DEF Sign, Put
  <2> QED
    BY <1>1, <1>3, <2>4 DEF Sign, World
<1>4. CASE Delete
  <2>1. round.pc = "delete" /\ round'.pc = "verify" /\ round'.name = round.name /\ round'.ver = round.ver
    BY <1>0, <1>4 DEF Delete, Goes, At, Rounds
  <2>2. PICK f \in objects' : f.ver = round.ver /\ Pair(f)'
    <3>1. PICK f \in objects : f.name = round.name /\ f.ver = round.ver /\ Pair(f)
      BY <2>1 DEF OwnShape
    <3>2. PICK gone \in SUBSET Peers : objects' = objects \ gone /\ \A s \in sidecars : s \in sidecars' \/ \E g \in gone : g.name = s.name
      BY <1>4, RemoteVictimsArePeers DEF Delete
    <3>3. \A g \in gone : g.name # round.name
      BY <3>2 DEF Peers
    <3>4. f \in objects' /\ setting' = setting
      BY <1>4, <3>1, <3>2, <3>3 DEF Delete, World
    <3>5. Pair(f)'
      BY <3>1, <3>2, <3>3, <3>4 DEF Pair
    <3> QED
      BY <3>1, <3>4, <3>5
  <2>3. shipped' = shipped /\ shipped <= round.ver
    BY <1>4, <2>1 DEF Delete, VersionShape, Copied
  <2> QED
    BY <2>2, <2>3 DEF ShippedStaysRestorable
<1>5. CASE Verify
  <2>1. PICK mine : mine = {f \in objects : f.name = round.name /\ f.ver = round.ver /\ Pair(f)}
    OBVIOUS
  <2>2. shipped' = IF mine = {} THEN shipped ELSE round.ver
    BY <1>5, <2>1 DEF Verify
  <2>3. UNCHANGED <<objects, sidecars, setting>>
    BY <1>5 DEF Verify, World
  <2>4. CASE mine = {}
    BY <1>1, <2>2, <2>3, <2>4
  <2>5. CASE mine # {}
    <3>1. PICK f \in objects : f.ver = round.ver /\ Pair(f)
      BY <2>1, <2>5
    <3>2. round.ver \in Nat
      BY <1>0, NumbersTyped DEF Rounds
    <3>3. f \in objects' /\ Pair(f)' /\ f.ver >= shipped'
      BY <2>2, <2>3, <2>5, <3>1, <3>2 DEF Pair
    <3> QED
      BY <3>3 DEF ShippedStaysRestorable
  <2> QED
    BY <2>4, <2>5
<1>6. Begin \/ Sweep \/ Repair \/ Copy \/ Prune => UNCHANGED <<setting, shipped, objects, sidecars>>
  BY DEF Begin, Sweep, Repair, Copy, Prune, World, Remote
<1>7. Tick \/ ClockSteps \/ Change \/ Crash => UNCHANGED <<setting, shipped, objects, sidecars>>
  BY DEF Tick, ClockSteps, Change, Crash
<1> QED
  BY <1>1, <1>2, <1>3, <1>4, <1>5, <1>6, <1>7 DEF Next, vars


\* A round that nothing disturbed began at a time that has passed, leaves nothing in front
\* of its own upload, and what it read back stays the last of the sort.
LEMMA CleanKept ==
  ASSUME BasicTypes, RemoteShape, VersionShape, FreshShape, OwnShape, CleanShape, [Next]_vars
  PROVE  CleanShape'
<1>0. round \in Rounds /\ clock \in Nat /\ clock' \in Int /\ round.stamp \in Nat /\ clean \in BOOLEAN
      /\ \A f \in objects : f.name.at \in Nat
  <2>1. clock \in Nat /\ round \in Rounds /\ clean \in BOOLEAN
    BY NumbersTyped DEF BasicTypes
  <2>2. clock' \in Int
    <3>1. Next => clock' = clock \/ clock' = clock + 1 \/ clock' \in Times
      BY DEF Next, Begin, Sweep, Repair, Copy, Prune, Upload, Sign, Delete, Verify, Crash, Tick, ClockSteps,
             Change, World
    <3>2. Next \/ UNCHANGED clock
      BY DEF vars
    <3>3. clock \in Int /\ clock + 1 \in Int /\ \A t \in Times : t \in Int
      BY <2>1, NumbersTyped
    <3> QED
      BY <3>1, <3>2, <3>3, Zenon
  <2> QED
    BY <2>1, <2>2 DEF Rounds, RemoteShape, Objects, Names
<1>1. CASE clean' = FALSE
  BY <1>1 DEF CleanShape
<1>2. CASE /\ round.pc # "idle" /\ round'.pc \notin {"idle", "verify"} /\ round'.stamp = round.stamp
           /\ clock' = clock /\ clean' = clean
  BY <1>2 DEF CleanShape
<1>3. CASE UNCHANGED <<objects, sidecars, round, setting, shipped, clean>> /\ clock' >= clock
  <2> SUFFICES ASSUME clean' PROVE CleanShape'
    BY DEF CleanShape
  <2>1. round'.pc # "idle" => round'.stamp <= clock'
    BY <1>0, <1>3 DEF CleanShape
  <2>2. round'.pc = "verify" => \A g \in objects' : g.name = round'.name \/ g.name.at < round'.stamp
    BY <1>3 DEF CleanShape
  <2>3. ASSUME round'.pc = "idle", shipped' > 0
        PROVE  \E f \in objects' : f.ver = shipped' /\ Pair(f)' /\ f.name.at <= clock' /\ Last(f)'
    <3>1. PICK f \in objects : f.ver = shipped /\ Pair(f) /\ f.name.at <= clock /\ Last(f)
      BY <1>3, <2>3 DEF CleanShape
    <3>2. f \in objects' /\ f.ver = shipped' /\ Pair(f)' /\ Last(f)'
      BY <1>3, <3>1 DEF Pair, Last
    <3>3. f.name.at <= clock'
      BY <1>0, <1>3, <3>1
    <3> QED
      BY <3>2, <3>3
  <2> QED
    BY <2>1, <2>2, <2>3 DEF CleanShape
<1>4. CASE Begin
  <2>1. round'.pc = "sweep" /\ round'.stamp = clock'
    BY <1>4 DEF Begin, Idle, World
  <2> QED
    BY <1>0, <2>1 DEF CleanShape
<1>5. CASE Sweep \/ Repair \/ Copy
  <2>1. round.pc # "idle" /\ round'.pc \in {"repair", "copy", "prune"} /\ round'.stamp = round.stamp /\ clock' = clock
    BY <1>0, <1>5 DEF Sweep, Repair, Copy, Goes, At, Rounds, World
  <2>2. clean' = clean \/ clean' = FALSE
    BY <1>5 DEF Sweep, Repair, Copy, Fine, Mishap
  <2> QED
    BY <1>1, <1>2, <2>1, <2>2
<1>6. CASE Prune \/ Upload \/ Sign
  <2>1. clean' = FALSE \/ (clean' = clean /\ \E pc \in {"put", "sign", "delete"} : round' = [round EXCEPT !.pc = pc])
    BY <1>6 DEF Prune, Upload, Sign, Fine, Mishap, Declined, Goes, AfterPut
  <2>2. round.pc # "idle" /\ clock' = clock
    BY <1>6 DEF Prune, Upload, Sign, At, World
  <2>3. ASSUME NEW pc \in {"put", "sign", "delete"}, round' = [round EXCEPT !.pc = pc]
        PROVE  round'.pc = pc /\ round'.stamp = round.stamp
    BY <1>0, <2>3 DEF Rounds
  <2> QED
    BY <1>1, <1>2, <2>1, <2>2, <2>3
<1>7. CASE Delete
  <2> SUFFICES ASSUME clean' PROVE CleanShape'
    BY DEF CleanShape
  <2>1. clean /\ ~Overtaken /\ objects' = objects \ remoteVictims
    BY <1>7 DEF Delete, Mishap
  <2>2. round.pc = "delete" /\ round'.pc = "verify" /\ round'.stamp = round.stamp /\ round'.name = round.name /\ clock' = clock
    BY <1>0, <1>7 DEF Delete, Goes, At, Rounds, World
  <2>3. round'.stamp <= clock'
    BY <2>1, <2>2 DEF CleanShape
  <2>4. ASSUME NEW g \in objects', g.name # round.name PROVE g.name.at < round.stamp
    <3>1. g \in objects /\ g \notin Ahead
      BY <2>1, <2>4 DEF remoteVictims
    <3>2. g \in Peers
      BY <2>2, <2>4, <3>1 DEF Peers, RemoteShape, VersionShape, Copied
    <3>3. g.name.at <= clock
      BY <1>0, <3>1, <3>2 DEF Ahead, futureDatedSnapshot
    <3>4. ~(round.stamp < g.name.at)
      BY <2>1, <3>2, <3>3 DEF Overtaken
    <3>5. g.name.at # round.stamp
      BY <2>2, <2>4, <3>1 DEF FreshShape
    <3> QED
      BY <1>0, <3>1, <3>4, <3>5
  <2> QED
    BY <2>2, <2>3, <2>4 DEF CleanShape
<1>8. CASE Verify
  <2> SUFFICES ASSUME clean' PROVE CleanShape'
    BY DEF CleanShape
  <2>1. clean /\ round.pc = "verify" /\ round'.pc = "idle" /\ UNCHANGED <<clock, objects, sidecars, setting>>
    BY <1>8 DEF Verify, Fine, At, Quits, Idle, World
  <2>2. PICK f \in objects : f.name = round.name /\ f.ver = round.ver /\ Pair(f)
    BY <2>1 DEF OwnShape
  <2>3. shipped' = round.ver
    BY <1>8, <2>2 DEF Verify
  <2>4. f.name.at = round.stamp /\ round.stamp <= clock
    BY <2>1, <2>2 DEF VersionShape, Copied, CleanShape
  <2>5. \A g \in objects : g = f \/ g.name.at < f.name.at
    BY <2>1, <2>2, <2>4 DEF CleanShape, RemoteShape, Distinct
  <2>6. f \in objects' /\ f.ver = shipped' /\ Pair(f)' /\ f.name.at <= clock' /\ Last(f)'
    BY <2>1, <2>2, <2>3, <2>4, <2>5 DEF Pair, Last
  <2> QED
    BY <2>1, <2>6 DEF CleanShape
<1>9. CASE Tick \/ Change
  <2>1. clock' >= clock
    BY <1>0, <1>9 DEF Tick, Change
  <2> QED
    BY <1>3, <1>9, <2>1 DEF Tick, Change, Fine
<1>10. ClockSteps \/ Crash => clean' = FALSE
  BY DEF ClockSteps, Crash, Mishap
<1>11. UNCHANGED vars => UNCHANGED <<objects, sidecars, round, setting, shipped, clean>> /\ clock' >= clock
  BY <1>0 DEF vars
<1> QED
  BY <1>1, <1>3, <1>4, <1>5, <1>6, <1>7, <1>8, <1>9, <1>10, <1>11 DEF Next



(* The invariant, and what follows from it *)

LEMMA InitSnapshots == Init => SnapshotsInv
<1> SUFFICES ASSUME Init PROVE SnapshotsInv
  OBVIOUS
<1>1. BasicTypes
  BY NumbersTyped, IdleTyped DEF Init, BasicTypes
<1>2. PoolShape
  <2>1. \A f \in pool : f \in [name : Names, ver : {0}, mtime : Nat]
    BY SettingsAssumption DEF Init
  <2>2. pool \in SUBSET Files
    BY <2>1, NumbersTyped DEF Files
  <2> QED
    BY <2>2, SettingsAssumption DEF Init, PoolShape, Distinct
<1>3. RemoteShape /\ FreshShape /\ OwnShape /\ ShippedStaysRestorable /\ CleanShape
  BY FS_EmptySet DEF Init, Idle, RemoteShape, Distinct, FreshShape, Begun, OwnShape, ShippedStaysRestorable, CleanShape
<1>4. VersionShape
  <2>1. \A f \in pool : f.ver = 0
    BY SettingsAssumption DEF Init
  <2> QED
    BY <2>1 DEF Init, Idle, VersionShape, Copied
<1> QED
  BY <1>1, <1>2, <1>3, <1>4 DEF SnapshotsInv

LEMMA StepSnapshots == SnapshotsInv /\ [Next]_vars => SnapshotsInv'
<1> SUFFICES ASSUME SnapshotsInv, [Next]_vars PROVE SnapshotsInv'
  OBVIOUS
<1>0. /\ BasicTypes /\ PoolShape /\ RemoteShape /\ VersionShape /\ FreshShape /\ OwnShape
      /\ ShippedStaysRestorable /\ CleanShape
  BY DEF SnapshotsInv
<1>1. BasicTypes'
  BY <1>0, BasicTyped
<1>2. PoolShape'
  BY <1>0, PoolKept
<1>3. RemoteShape'
  BY <1>0, RemoteKept
<1>4. VersionShape'
  BY <1>0, VersionKept
<1>5. FreshShape'
  BY <1>0, FreshKept
<1>6. OwnShape'
  BY <1>0, OwnKept
<1>7. ShippedStaysRestorable'
  BY <1>0, ShippedKept
<1>8. CleanShape'
  BY <1>0, CleanKept
<1> QED
  BY <1>1, <1>2, <1>3, <1>4, <1>5, <1>6, <1>7, <1>8 DEF SnapshotsInv

\* SnapshotsInv holds in every state, for any clock, retention, remote end and mishaps.
THEOREM SnapshotsInductive == Spec => []SnapshotsInv
BY InitSnapshots, StepSnapshots, PTL DEF Spec

\* Every variable keeps its type, no two files have one name, a round that has copied has
\* a file (backup.go:478-485).
THEOREM SnapshotsTyped == Spec => []TypeOK
<1>1. SnapshotsInv => TypeOK
  <2> SUFFICES ASSUME SnapshotsInv PROVE TypeOK
    OBVIOUS
  <2>1. clock \in Times /\ db \in Vers /\ shipped \in Vers /\ clean \in BOOLEAN
    BY DEF SnapshotsInv, BasicTypes
  <2>2. (\A f \in pool : f.name \in Names /\ f.ver \in Vers /\ f.mtime \in Nat)
        /\ \A f, g \in pool : f.name = g.name => f = g
    BY DEF SnapshotsInv, PoolShape, Files, Distinct
  <2>3. (\A f \in objects \cup sidecars : f.name \in Names /\ f.ver \in Vers)
        /\ \A f, g \in objects : f.name = g.name => f = g
    BY DEF SnapshotsInv, RemoteShape, Objects, Distinct
  <2>4. round.pc = "prune" => \E f \in pool : f.name = round.name
    BY DEF SnapshotsInv, OwnShape
  <2> QED
    BY <2>1, <2>2, <2>3, <2>4 DEF TypeOK
<1> QED
  BY <1>1, SnapshotsInductive, PTL

\* What was once read back from the remote end, or something newer, can be restored from
\* there in every later state, whatever fails and wherever the process dies
\* (remote.go:99, the order of upload, sidecar, pruning and verification).
THEOREM ShippedAlwaysRestorable == Spec => []ShippedStaysRestorable
<1>1. SnapshotsInv => ShippedStaysRestorable
  BY DEF SnapshotsInv
<1> QED
  BY <1>1, SnapshotsInductive, PTL

\* After a round that nothing disturbed a restore gets what that round sent, as long as
\* the clock runs on (remote.go, DownloadLatest).
THEOREM LatestIsTheLastSent == Spec => []RemoteLatestIsNewest
<1>1. SnapshotsInv => RemoteLatestIsNewest
  <2> SUFFICES ASSUME SnapshotsInv, clean, round.pc = "idle", shipped > 0 PROVE Downloads(shipped)
    BY DEF RemoteLatestIsNewest
  <2>1. PICK f \in objects : f.ver = shipped /\ Pair(f) /\ f.name.at <= clock /\ Last(f)
    BY DEF SnapshotsInv, CleanShape
  <2>2. clock \in Nat /\ \A g \in objects : g.name.at \in Nat /\ g.name.base = "hashed"
    BY NumbersTyped DEF SnapshotsInv, BasicTypes, RemoteShape, Objects, Names
  <2>3. f \in Candidates
    BY <2>1, <2>2 DEF Candidates, futureDatedSnapshot
  <2>4. ASSUME NEW g \in Candidates, g # f
        PROVE  SortsBefore(g.name, f.name) /\ ~SortsBefore(f.name, g.name)
    <3>1. g \in objects /\ g.name.at < f.name.at
      BY <2>1, <2>4 DEF Candidates, Last
    <3> QED
      BY <2>2, <3>1 DEF SortsBefore
  <2>5. ~SortsBefore(f.name, f.name)
    <3>1. f.name \in Names
      BY DEF SnapshotsInv, RemoteShape, Objects
    <3> QED
      BY <3>1, NamesOrdered
  <2>6. Latest(Candidates) = f
    <3>1. \A g \in Candidates : ~SortsBefore(f.name, g.name)
      BY <2>4, <2>5
    <3>2. Latest(Candidates) \in Candidates /\ \A g \in Candidates : ~SortsBefore(Latest(Candidates).name, g.name)
      BY <2>3, <3>1 DEF Latest
    <3> QED
      BY <2>3, <2>4, <3>2
  <2> QED
    BY <2>1, <2>3, <2>6 DEF Downloads
<1> QED
  BY <1>1, SnapshotsInductive, PTL

LEMMA VersionsFinite ==
  ASSUME NEW files \in SUBSET Files, IsFiniteSet(files)
  PROVE  LET V == {f.ver : f \in files} \cup {0} IN V \in SUBSET Int /\ IsFiniteSet(V)
<1>1. PICK V : V = {f.ver : f \in files}
  OBVIOUS
<1>2. IsFiniteSet(V)
  <2> DEFINE ver == [f \in files |-> f.ver]
  <2>1. ver \in Surjection(files, V)
    BY <1>1 DEF Surjection
  <2> HIDE DEF ver
  <2> QED
    BY <2>1, FS_Surjection
<1>3. V \in SUBSET Int
  <2>1. \A f \in files : f.ver \in Vers
    BY DEF Files
  <2>2. \A v \in Vers : v \in Int
    BY NumbersTyped
  <2> QED
    BY <1>1, <2>1, <2>2, Zenon
<1>4. IsFiniteSet(V \cup {0})
  BY <1>2, FS_AddElement
<1> QED
  BY <1>1, <1>3, <1>4

\* No step leaves the pool without a file as new as the newest it had: pruning by name
\* spares what this round wrote, whatever the names of the others say (backup.go:478-485).
THEOREM NewestIsKept == Spec => NewestNeverPruned
<1>1. SnapshotsInv /\ SnapshotsInv' /\ [Next]_vars
        => [pool' # pool => Max({f.ver : f \in pool'} \cup {0}) >= Newest]_vars
  <2> SUFFICES ASSUME SnapshotsInv, SnapshotsInv', Next, pool' # pool
               PROVE  Max({f.ver : f \in pool'} \cup {0}) >= Newest
    BY DEF vars
  <2>0. /\ BasicTypes /\ PoolShape /\ VersionShape /\ OwnShape
        /\ pool \in SUBSET Files /\ IsFiniteSet(pool) /\ pool' \in SUBSET Files /\ IsFiniteSet(pool')
    BY DEF SnapshotsInv, PoolShape, Files, Names, Vers
  <2>1. \A f \in pool : f.ver \in Nat
    BY <2>0, NumbersTyped DEF Files
  <2>2. \A f \in pool : \E g \in pool' : g.ver >= f.ver
    <3>1. CASE Copy
      <4>1. pool \subseteq pool'
        BY <3>1 DEF Copy
      <4> QED
        BY <2>1, <4>1
    <3>2. CASE Future # {} /\ pool' = Renamed(First(Future))
      <4>1. PICK f \in pool : f = First(Future)
        BY <2>0, <3>2, FirstOfFuture
      <4>2. PICK name : pool' = (pool \ {f}) \cup {[f EXCEPT !.name = name]}
        BY <3>2, <4>1 DEF Renamed
      <4>3. [f EXCEPT !.name = name].ver = f.ver
        BY <2>0 DEF Files
      <4>4. ASSUME NEW h \in pool PROVE \E g \in pool' : g.ver = h.ver
        <5>1. CASE h = f
          BY <4>2, <4>3, <5>1
        <5>2. CASE h # f
          BY <4>2, <5>2
        <5> QED
          BY <5>1, <5>2
      <4>5. \A v \in Nat : v >= v
        OBVIOUS
      <4> QED
        BY <2>1, <4>4, <4>5
    <3>3. CASE Prune
      <4>1. PICK own \in pool : own.name = round.name /\ own.ver = round.ver
        BY <2>0, <3>3 DEF Prune, At, OwnShape
      <4>2. victims(pool, setting.keep, round.name) \in SUBSET {f \in pool : f.name # round.name}
        BY <2>0, <4>1, VictimsSpare
      <4>3. own \in pool'
        BY <3>3, <4>1, <4>2 DEF Prune
      <4>4. \A f \in pool : f.ver <= round.ver
        BY <2>0, <3>3 DEF Prune, At, VersionShape, Copied
      <4> QED
        BY <2>1, <4>1, <4>3, <4>4
    <3> QED
      BY <3>1, <3>2, <3>3 DEF Next, Begin, Sweep, Repair, Upload, Sign, Delete, Verify, Crash, Tick, ClockSteps, Change
  <2>3. PICK V : V = {f.ver : f \in pool} \cup {0} /\ V \in SUBSET Int /\ IsFiniteSet(V)
    BY <2>0, VersionsFinite
  <2>4. PICK W : W = {f.ver : f \in pool'} \cup {0} /\ W \in SUBSET Int /\ IsFiniteSet(W)
    BY <2>0, VersionsFinite
  <2>5. \A x \in V : \E y \in W : y >= x
    <3>1. SUFFICES ASSUME NEW x \in V PROVE \E y \in W : y >= x
      OBVIOUS
    <3>2. CASE x = 0
      <4>1. 0 \in W /\ 0 >= 0
        BY <2>4
      <4> QED
        BY <3>2, <4>1
    <3>3. CASE x # 0
      <4>1. PICK f \in pool : x = f.ver
        BY <2>3, <3>3
      <4>2. PICK g \in pool' : g.ver >= x
        BY <2>2, <4>1
      <4>3. g.ver \in W
        BY <2>4
      <4> QED
        BY <4>2, <4>3
    <3> QED
      BY <3>2, <3>3
  <2>6. V # {} /\ W # {}
    BY <2>3, <2>4
  <2>7. Max(W) >= Max(V)
    BY <2>3, <2>4, <2>5, <2>6, MaxOfTops
  <2> QED
    BY <2>3, <2>4, <2>7 DEF Newest
<1>2. SnapshotsInv /\ [Next]_vars => SnapshotsInv'
  BY StepSnapshots
<1> QED
  BY <1>1, <1>2, SnapshotsInductive, PTL DEF Spec, NewestNeverPruned
=============================================================================
