-------------------------- MODULE Challenges_proofs --------------------------
(* That ChallengesInv is inductive, and what follows from it: the types of             *)
(* Challenges, that a record a pass waits for stays up whoever cleans up at the name,  *)
(* and that a row outlives the record it names where passes do not overlap. First the  *)
(* types, action by action; then the shapes; then what the answers of name servers     *)
(* prove; then records, leases and the sweep; last, rows and the records they name.    *)
EXTENDS ChallengesInvariant, TLAPS

(* Copies of rows, and the shape of a goroutine *)


LEMMA CopiesOf ==
  ASSUME NEW S, NEW m
  PROVE  m \in Copies(S) <=> DOMAIN m \subseteq Urls /\ m \in [DOMAIN m -> S]
BY DEF Copies

LEMMA EmptyCopy == ASSUME NEW S PROVE <<>> \in Copies(S) /\ DOMAIN <<>> = {}
<1>1. DOMAIN <<>> = {}
  OBVIOUS
<1>2. <<>> \in [{} -> S]
  OBVIOUS
<1> QED
  BY <1>1, <1>2 DEF Copies

LEMMA IdleShape == ProcessShape(Idle)
BY EmptyCopy DEF ProcessShape, Idle, Processes, Pcs, Jobs, Driving, Asking, Holding, Visiting, Cleanings, Removing, Denying

LEMMA CopySet ==
  ASSUME NEW S, NEW m \in Copies(S), NEW a \in DOMAIN m, NEW v \in S
  PROVE  /\ [m EXCEPT ![a] = v] \in Copies(S)
         /\ DOMAIN [m EXCEPT ![a] = v] = DOMAIN m
         /\ [m EXCEPT ![a] = v][a] = v
         /\ \A b \in DOMAIN m : b # a => [m EXCEPT ![a] = v][b] = m[b]
BY CopiesOf

LEMMA CopyGet ==
  ASSUME NEW S, NEW m \in Copies(S), NEW a \in DOMAIN m
  PROVE  m[a] \in S /\ a \in Urls
BY CopiesOf

LEMMA RowSet ==
  ASSUME NEW m \in Rows
  PROVE  /\ [m EXCEPT !.sent = TRUE] \in Rows
         /\ [m EXCEPT !.presented = FALSE] \in Rows
         /\ m.tok # NoTok => [m EXCEPT !.presented = TRUE, !.val = m.tok] \in Rows
BY DEF Rows

(* Processes *)

LEMMA BlankShape ==
  ASSUME NEW q \in Processes, q.pc \in {"load", "order", "recover"}, q.mem = <<>>,
         q.todo = {}, q.pend = {}, q.resumed = {}
  PROVE  ProcessShape(q)
BY DEF ProcessShape, Driving, Asking, Holding, Visiting, Cleanings, Removing, Denying

LEMMA BlankAt ==
  ASSUME NEW pc \in {"load", "order", "recover"}, NEW job \in Jobs
  PROVE  ProcessShape([Idle EXCEPT !.pc = pc]) /\ ProcessShape([Idle EXCEPT !.pc = pc, !.job = job])
<1>1. Idle \in Processes /\ Idle.mem = <<>> /\ Idle.todo = {} /\ Idle.pend = {} /\ Idle.resumed = {}
  BY IdleShape DEF ProcessShape, Idle
<1>2. ASSUME NEW q, q \in {[Idle EXCEPT !.pc = pc], [Idle EXCEPT !.pc = pc, !.job = job]}
      PROVE  ProcessShape(q)
  <2>1. q \in Processes /\ q.mem = <<>> /\ q.todo = {} /\ q.pend = {} /\ q.resumed = {} /\ q.pc = pc
    BY <1>1, <1>2 DEF Processes, Pcs
  <2> QED
    BY <2>1, BlankShape
<1> QED
  BY <1>2

LEMMA StepShape ==
  ASSUME ProcessTypes, NEW p \in Procs, NEW r, ProcessShape(r), Step(p, r)
  PROVE  ProcessTypes'
<1>1. r \in Processes
  BY DEF ProcessShape
<1>2. proc' = [proc EXCEPT ![p] = r] /\ proc \in [Procs -> Processes]
  BY DEF Step, ProcessTypes
<1> QED
  BY <1>1, <1>2 DEF ProcessTypes

LEMMA ShapeOf ==
  ASSUME ProcessTypes, NEW p \in Procs
  PROVE  ProcessShape(proc[p]) /\ proc[p] \in Processes
BY DEF ProcessTypes

LEMMA CertsAreProcs == (\A c \in Certs : c \in Procs /\ c # Sweeper) /\ Sweeper \in Procs
BY ProcsAssumption DEF Procs

LEMMA EndShape ==
  ASSUME ProcessTypes, NEW p \in Procs, Ends(p)
  PROVE  ProcessTypes'
BY StepShape, IdleShape DEF Ends

LEMMA DiscardsShape == ProcessShape(Discards) /\ ProcessShape([Discards EXCEPT !.job = "replace"])
<1>1. Discards = [Idle EXCEPT !.pc = "recover", !.job = "discard"]
  BY DEF Discards
<1>2. [Discards EXCEPT !.job = "replace"] = [Idle EXCEPT !.pc = "recover", !.job = "replace"]
  BY DEF Discards, Idle
<1> QED
  BY <1>1, <1>2, BlankAt DEF Jobs

LEMMA CleansUpShape ==
  ASSUME NEW r, ProcessShape(r), NEW them \in SUBSET (DOMAIN r.mem)
  PROVE  ProcessShape(CleansUp(r, them))
<1>1. r.mem \in Copies(Rows) /\ DOMAIN r.mem \subseteq Urls
  BY CopiesOf DEF ProcessShape, Processes
<1> QED
  BY <1>1, EmptyCopy DEF CleansUp, ProcessShape, Idle, Processes, Pcs, Jobs, Driving, Asking, Holding,
     Visiting, Cleanings, Removing, Denying

LEMMA VisitedShape ==
  ASSUME NEW r, ProcessShape(r), r.pc \in Driving
  PROVE  ProcessShape(Visited(r))
<1> DEFINE q == [r EXCEPT !.pc = "visit", !.todo = @ \ {r.at}, !.at = <<>>]
<1>1. r \in Processes
  BY DEF ProcessShape
<1>2. /\ q \in Processes /\ q.pc = "visit" /\ q.todo = r.todo \ {r.at} /\ q.pend = r.pend
      /\ q.resumed = r.resumed /\ q.mem = r.mem /\ q.cur = r.cur /\ q.bad = r.bad
  BY <1>1 DEF Processes, Pcs
<1> HIDE DEF q
<1>3. ProcessShape(q)
  BY <1>2 DEF ProcessShape, Driving, Asking, Holding, Visiting, Cleanings, Removing, Denying
<1>4. ProcessShape(CleansUp(q, DOMAIN q.mem))
  BY <1>3, CleansUpShape
<1>5. CASE q.todo = {} /\ q.pend # {}
  <2> DEFINE regs == {ValueOf(a, q.mem[a].val) : a \in q.pend}
             l == [q EXCEPT !.pc = "lease", !.regs = regs]
  <2>1. ASSUME NEW a \in q.pend PROVE ValueOf(a, q.mem[a].val) \in Values
    <3>1. q.mem[a] \in Rows /\ a \in Urls /\ q.mem[a].presented
      BY <1>2, <1>3, CopyGet DEF ProcessShape, Processes
    <3> QED
      BY <3>1 DEF Rows, ValueOf, Values
  <2>2. regs \in SUBSET Values
    BY <2>1
  <2> HIDE DEF regs
  <2>3. /\ l \in Processes /\ l.pc = "lease" /\ l.todo = q.todo /\ l.pend = q.pend
        /\ l.resumed = q.resumed /\ l.mem = q.mem /\ l.cur = q.cur
    BY <1>2, <2>2 DEF Processes, Pcs
  <2> HIDE DEF l
  <2>4. ProcessShape(l)
    BY <1>2, <1>3, <2>3 DEF ProcessShape, Driving, Asking, Holding, Visiting, Cleanings, Removing, Denying
  <2> QED
    BY <2>4, <1>4, DiscardsShape, <1>5, <1>3 DEF Visited, l, regs, q
<1> QED
  BY <1>3, <1>4, <1>5, DiscardsShape DEF Visited, q

(* Rows *)

LEMMA StoredTyped ==
  ASSUME StoreTypes, NEW a \in Urls, NEW m \in Rows
  PROVE  Stored(a, m) \in Rows
<1>1. rows[a] \in Rows
  BY DEF StoreTypes
<1> QED
  BY <1>1 DEF Stored, Rows

LEMMA PutTyped ==
  ASSUME StoreTypes, NEW a \in Urls, NEW m \in Rows, PutAuthorization(a, m)
  PROVE  rows' \in [Urls -> Rows]
BY StoredTyped DEF PutAuthorization, StoreTypes

LEMMA NoRowTyped == NoRow \in Rows /\ NewRow \in Rows
BY DEF NoRow, NewRow, NoTok, Rows

LEMMA StampTyped ==
  ASSUME StoreTypes, NEW a \in Urls, MarkTXTReclaimStuck(a) \/ DeleteAuthorization(a)
  PROVE  rows' \in [Urls -> Rows]
<1>1. rows[a] \in Rows /\ rows[a].on \in BOOLEAN
  BY DEF StoreTypes, Rows
<1>2. [rows[a] EXCEPT !.stuck = rows[a].on] \in Rows
  BY <1>1 DEF Rows
<1> QED
  BY <1>2, NoRowTyped DEF MarkTXTReclaimStuck, DeleteAuthorization, StoreTypes

(* The budget of mishaps *)

LEMMA MishapCounts == ASSUME NEW f, Mishap(f), budget \in Nat PROVE budget' \in Nat
BY DEF Mishap

LEMMA TimesOutCounts ==
  ASSUME NEW op, NEW v, TimesOut(op, v), budget \in Nat
  PROVE  budget' \in Nat
<1>1. PICK f : Mishap(f)
  BY Zenon DEF TimesOut
<1> QED
  BY <1>1, MishapCounts

LEMMA PassBudget ==
  ASSUME SettingTypes, NEW c \in Certs, Pass(c)
  PROVE  SettingTypes'
<1> USE DEF SettingTypes, zone, Works, Mishap
<1>1. CASE Begin(c) \/ NewOrder(c) \/ loadAuthorizations(c) \/ fetchAuthzs(c)
  BY <1>1 DEF Begin, NewOrder, loadAuthorizations, fetchAuthzs
<1>2. ASSUME NEW a \in Urls, VisitsClosed(c, a) \/ Resumes(c, a) \/ VisitsNew(c, a) \/ Accepts(c, a)
      PROVE  SettingTypes'
  BY <1>2 DEF VisitsClosed, Resumes, PersistsPresented, VisitsNew, Accepts
<1>3. ASSUME NEW a \in Urls, ReleasesStale(c, a) PROVE SettingTypes'
  BY <1>3 DEF ReleasesStale, releaseStaleLease
<1>4. CASE Probes(c) \/ Persists(c)
  BY <1>4 DEF Probes, Persists, PersistsPresented
<1>10. CASE Leases(c)
  <2>1. setting' = setting /\ budget' = budget
    BY <1>10 DEF Leases
  <2> QED
    BY <2>1
<1>9. CASE WaitsAll(c)
  <2>1. setting' = setting /\ budget' = budget
    BY <1>9 DEF WaitsAll
  <2> QED
    BY <2>1
<1>7. CASE RecordsSent(c)
  BY <1>7 DEF RecordsSent
<1>8. CASE Polls(c)
  <2>1. setting' = setting /\ (budget' = budget \/ Mishap("store") \/ Mishap("slow"))
    BY <1>8 DEF Polls
  <2> QED
    BY <2>1
<1>5. CASE Present(c)
  <2>1. setting' = setting /\ (budget' = budget \/ TimesOut("write", Wanted(c)) \/ Refused)
    BY <1>5 DEF Present
  <2> QED
    BY <2>1, TimesOutCounts DEF Refused
<1>6. CASE GivesUpWaiting(c)
  BY <1>6 DEF GivesUpWaiting
<1> QED
  BY <1>1, <1>2, <1>3, <1>4, <1>5, <1>6, <1>7, <1>8, <1>9, <1>10 DEF Pass

LEMMA CleaningBudget ==
  ASSUME SettingTypes, NEW p \in Procs, Cleaning(p)
  PROVE  SettingTypes'
<1> USE DEF SettingTypes, zone, Works, Mishap
<1>1. CASE Recovers(p) \/ Registers(p) \/ Lists(p)
  BY <1>1 DEF Recovers, Registers, Lists
<1>2. ASSUME NEW a \in Urls, Takes(p, a) \/ Looks(p, a) PROVE SettingTypes'
  BY <1>2 DEF Takes, Looks
<1>3. CASE Drops(p) \/ Claims(p) \/ releaseRowStaleLease(p)
  BY <1>3 DEF Drops, Claims, releaseRowStaleLease, releaseStaleLease
<1>4. CASE CleanUp(p)
  <2>1. setting' = setting /\ (budget' = budget \/ TimesOut("delete", Wanted(p)) \/ Refused)
    BY <1>4 DEF CleanUp
  <2> QED
    BY <2>1, TimesOutCounts DEF Refused
<1>5. CASE LooksAgain(p)
  BY <1>5 DEF LooksAgain
<1>7. CASE Gone(p)
  BY <1>7 DEF Gone
<1>8. CASE Kept(p)
  BY <1>8 DEF Kept
<1>6. CASE CleanedAll(p)
  BY <1>6 DEF CleanedAll
<1> QED
  BY <1>1, <1>2, <1>3, <1>4, <1>5, <1>6, <1>7, <1>8 DEF Cleaning

LEMMA OtherBudget ==
  ASSUME SettingTypes, BeginsSweep \/ Lands \/ Crash
                       \/ \E a \in Urls : GrowsOld(a) \/ Validates(a) \/ Closes(a) \/ Rechallenges(a)
  PROVE  SettingTypes'
<1> USE DEF SettingTypes, zone, Works, Mishap
<1>1. CASE BeginsSweep \/ Lands \/ Crash
  BY <1>1 DEF BeginsSweep, Lands, Crash
<1>2. ASSUME NEW a \in Urls, GrowsOld(a) \/ Validates(a) \/ Closes(a) \/ Rechallenges(a)
      PROVE  SettingTypes'
  BY <1>2 DEF GrowsOld, Validates, Closes, Rechallenges
<1> QED
  BY <1>1, <1>2


(* A step keeps the types: the pass *)

LEMMA BeginTyped == ASSUME Types, NEW c \in Certs, Begin(c) PROVE ProcessTypes' /\ StoreTypes' /\ CaTypes' /\ DnsTypes'
<1> USE DEF Types
<1>1. proc[c] = Idle
  BY CertsAreProcs, ShapeOf DEF Begin, ProcessShape
<1>2. ProcessTypes'
  <2>1. CASE GoTo(c, "load")
    <3>1. Step(c, [Idle EXCEPT !.pc = "load"])
      BY <1>1, <2>1 DEF GoTo
    <3>2. ProcessShape([Idle EXCEPT !.pc = "load"])
      BY BlankAt DEF Jobs
    <3> QED
      BY <3>1, <3>2, CertsAreProcs, StepShape
  <2>2. CASE Step(c, [Discards EXCEPT !.job = "replace"])
    BY <2>2, CertsAreProcs, StepShape, DiscardsShape
  <2>3. CASE Step(c, [Idle EXCEPT !.pc = "recover", !.job = "orphan"])
    <3>1. ProcessShape([Idle EXCEPT !.pc = "recover", !.job = "orphan"])
      BY BlankAt DEF Jobs
    <3> QED
      BY <3>1, <2>3, CertsAreProcs, StepShape
  <2> QED
    BY <2>1, <2>2, <2>3 DEF Begin
<1> QED
  BY <1>2 DEF Begin, zone, StoreTypes, CaTypes, DnsTypes

LEMMA NewOrderTyped == ASSUME Types, NEW c \in Certs, NewOrder(c) PROVE ProcessTypes' /\ StoreTypes' /\ CaTypes' /\ DnsTypes'
<1> USE DEF Types
<1> DEFINE mine == {a \in Urls : CertOf[a] = c}
           fresh == {a \in mine : ca[a].status = "none"}
           valid == {a \in mine : ca[a].status = "valid"}
<1>1. DnsTypes' /\ rows' = rows /\ fresh \cup valid \subseteq mine
  BY DEF NewOrder, zone, DnsTypes
<1>2. CASE Ends(c) /\ UNCHANGED <<order, ca>>
  BY <1>1, <1>2, EndShape, CertsAreProcs DEF StoreTypes, CaTypes
<1>3. CASE \E us \in SUBSET (fresh \cup valid) :
             /\ order' = [order EXCEPT ![c] = us]
             /\ ca' = [a \in Urls |-> IF a \in us \cap fresh
                                        THEN [NewAuthz EXCEPT !.status = "pending"] ELSE ca[a]]
             /\ GoTo(c, "load")
  <2>1. PICK us \in SUBSET mine :
             /\ order' = [order EXCEPT ![c] = us]
             /\ ca' = [a \in Urls |-> IF a \in us \cap fresh
                                        THEN [NewAuthz EXCEPT !.status = "pending"] ELSE ca[a]]
             /\ GoTo(c, "load")
    BY <1>1, <1>3
  <2>2. \A a \in us : a \in Urls /\ CertOf[a] = c
    OBVIOUS
  <2> HIDE DEF mine, fresh, valid
  <2>3. [NewAuthz EXCEPT !.status = "pending"] \in Authzs
    <3>1. 1 \in Tokens
      BY BoundsAssumption DEF Tokens
    <3> QED
      BY <3>1 DEF NewAuthz, Authzs, Statuses
  <2>4. CaTypes'
    BY <2>1, <2>3 DEF CaTypes
  <2>5. StoreTypes'
    BY <1>1, <2>1, <2>2 DEF StoreTypes
  <2>6. ProcessShape([proc[c] EXCEPT !.pc = "load"])
    <3>1. ProcessShape(proc[c]) /\ proc[c].pc = "order"
      BY ShapeOf, CertsAreProcs DEF NewOrder
    <3> QED
      BY <3>1 DEF ProcessShape, Processes, Pcs, Driving, Asking, Holding, Visiting, Cleanings, Removing, Denying
  <2> QED
    BY <1>1, <2>1, <2>4, <2>5, <2>6, StepShape, CertsAreProcs DEF GoTo
<1> QED
  BY <1>2, <1>3 DEF NewOrder

LEMMA loadAuthorizationsTyped ==
  ASSUME Types, NEW c \in Certs, loadAuthorizations(c) PROVE ProcessTypes' /\ StoreTypes' /\ CaTypes' /\ DnsTypes'
<1> USE DEF Types
<1>1. DnsTypes' /\ CaTypes' /\ order' = order
  BY DEF loadAuthorizations, zone, DnsTypes, CaTypes
<1>2. \A S : [a \in Urls |-> IF a \in S THEN NewRow ELSE rows[a]] \in [Urls -> Rows]
  BY NoRowTyped DEF StoreTypes
<1>3. rows' \in [Urls -> Rows]
  <2> DEFINE new == {a \in order[c] : ~rows[a].on}
  <2>1. \/ rows' = [a \in Urls |-> IF a \in new THEN NewRow ELSE rows[a]]
        \/ \E put \in SUBSET new : rows' = [a \in Urls |-> IF a \in put THEN NewRow ELSE rows[a]]
    BY DEF loadAuthorizations
  <2> HIDE DEF new
  <2>2. PICK S : rows' = [a \in Urls |-> IF a \in S THEN NewRow ELSE rows[a]]
    BY <2>1
  <2> QED
    BY <1>2, <2>2
<1>4. ProcessTypes'
  <2>1. CASE Ends(c)
    BY <2>1, EndShape, CertsAreProcs
  <2>2. CASE Step(c, [Idle EXCEPT !.pc = "fetch", !.mem = [a \in order[c] |-> rows'[a]]])
    <3> DEFINE m == [a \in order[c] |-> rows'[a]]
               q == [Idle EXCEPT !.pc = "fetch", !.mem = m]
    <3>1. order[c] \in SUBSET Urls
      BY DEF StoreTypes
    <3>2. m \in Copies(Rows)
      BY <1>3, <3>1 DEF Copies
    <3>3. Idle \in Processes /\ Idle.todo = {} /\ Idle.pend = {} /\ Idle.resumed = {}
      BY IdleShape DEF ProcessShape, Idle
    <3> HIDE DEF m
    <3>4. q \in Processes /\ q.pc = "fetch" /\ q.todo = {} /\ q.pend = {} /\ q.resumed = {}
      BY <3>2, <3>3 DEF Processes, Pcs
    <3> HIDE DEF q
    <3>5. ProcessShape(q)
      BY <3>4 DEF ProcessShape, Driving, Asking, Holding, Visiting, Cleanings, Removing, Denying
    <3> QED
      BY <2>2, <3>5, StepShape, CertsAreProcs DEF q, m
  <2> QED
    BY <2>1, <2>2 DEF loadAuthorizations
<1> QED
  BY <1>1, <1>3, <1>4 DEF StoreTypes

LEMMA fetchAuthzsTyped ==
  ASSUME Types, NEW c \in Certs, fetchAuthzs(c) PROVE ProcessTypes' /\ StoreTypes' /\ CaTypes' /\ DnsTypes'
<1> USE DEF Types
<1>1. StoreTypes' /\ DnsTypes' /\ CaTypes'
  BY DEF fetchAuthzs, zone, StoreTypes, DnsTypes, CaTypes
<1> DEFINE r == proc[c]
           answers == [a \in DOMAIN r.mem |-> ca[a]]
           q == [r EXCEPT !.pc = "visit", !.todo = DOMAIN r.mem, !.cur = answers]
<1>2. ProcessShape(r) /\ r \in Processes
  BY ShapeOf, CertsAreProcs
<1>3. DOMAIN r.mem \in SUBSET Urls
  BY <1>2, CopiesOf DEF Processes
<1>4. answers \in Copies(Authzs) /\ DOMAIN answers = DOMAIN r.mem
  BY <1>3 DEF CaTypes, Copies
<1> HIDE DEF answers
<1>5. /\ q \in Processes /\ q.pc = "visit" /\ q.todo = DOMAIN r.mem /\ q.cur = answers
      /\ q.mem = r.mem /\ q.pend = r.pend /\ q.resumed = r.resumed
  BY <1>2, <1>3, <1>4 DEF Processes, Pcs
<1> HIDE DEF q
<1>6. ProcessShape(q)
  BY <1>2, <1>4, <1>5 DEF ProcessShape, Driving, Asking, Holding, Visiting, Cleanings, Removing, Denying
<1>7. Step(c, q) \/ Ends(c)
  BY DEF fetchAuthzs, q, answers
<1> QED
  BY <1>1, <1>6, <1>7, EndShape, StepShape, CertsAreProcs


LEMMA VisitsClosedTyped ==
  ASSUME Types, NEW c \in Certs, NEW a \in Urls, VisitsClosed(c, a)
  PROVE  ProcessTypes' /\ StoreTypes' /\ CaTypes' /\ DnsTypes'
<1> USE DEF Types
<1>1. DnsTypes' /\ CaTypes' /\ order' = order
  BY DEF VisitsClosed, zone, DnsTypes, CaTypes
<1> DEFINE r == [proc[c] EXCEPT !.at = a]
           b == [r EXCEPT !.bad = TRUE]
<1>2. ProcessShape(proc[c]) /\ proc[c] \in Processes /\ proc[c].pc = "visit" /\ a \in proc[c].todo
  BY ShapeOf, CertsAreProcs DEF VisitsClosed
<1>3. ASSUME NEW q, q \in {r, b} PROVE ProcessShape(q) /\ q.pc = "visit"
  BY <1>2, <1>3 DEF ProcessShape, Processes, Driving, Asking, Holding, Visiting, Cleanings, Removing, Denying
<1>4. ProcessShape(Visited(r)) /\ ProcessShape(Visited(b)) /\ r.mem = proc[c].mem
  BY <1>3, VisitedShape DEF Driving
<1>5. proc[c].mem[a] \in Rows
  BY <1>2, CopyGet DEF ProcessShape, Processes
<1>6. Step(c, Visited(r)) \/ Step(c, Visited(b)) \/ Step(c, Discards) \/ Step(c, Idle)
  BY DEF VisitsClosed
<1>7. PutAuthorization(a, proc[c].mem[a]) \/ rows' = rows
  BY <1>4 DEF VisitsClosed
<1>8. ProcessTypes'
  BY <1>4, <1>6, StepShape, DiscardsShape, IdleShape, CertsAreProcs
<1>9. rows' \in [Urls -> Rows]
  BY <1>5, <1>7, PutTyped DEF StoreTypes
<1> QED
  BY <1>1, <1>8, <1>9 DEF StoreTypes

LEMMA PersistsTyped ==
  ASSUME Types, NEW c \in Certs, NEW r, ProcessShape(r), r.pc \in Driving, r.at \in DOMAIN r.mem,
         r.mem[r.at].presented, NEW rs \in SUBSET (DOMAIN r.mem), PersistsPresented(c, r, rs)
  PROVE  ProcessTypes' /\ rows' \in [Urls -> Rows]
<1> USE DEF Types
<1> DEFINE q == [r EXCEPT !.pend = @ \cup {r.at}, !.resumed = @ \cup rs]
           u == [Idle EXCEPT !.pc = "claim", !.job = "undo", !.at = r.at, !.mem = r.mem]
<1>1. r \in Processes /\ r.mem \in Copies(Rows) /\ DOMAIN r.mem \subseteq Urls
  BY CopiesOf DEF ProcessShape, Processes
<1>2. r.mem[r.at] \in Rows /\ r.at \in Urls
  BY <1>1, CopyGet
<1>3. ProcessShape(q) /\ q.pc = r.pc
  BY <1>1, <1>2 DEF ProcessShape, Processes, Driving, Asking, Holding, Visiting, Cleanings, Removing, Denying
<1>4. ProcessShape(u)
  <2>1. Idle \in Processes /\ Idle.todo = {} /\ Idle.pend = {} /\ Idle.resumed = {}
    BY IdleShape DEF ProcessShape, Idle
  <2>2. /\ u \in Processes /\ u.pc = "claim" /\ u.todo = {} /\ u.pend = {} /\ u.resumed = {}
        /\ u.at = r.at /\ u.mem = r.mem
    BY <1>1, <1>2, <2>1 DEF Processes, Pcs, Jobs
  <2>3. r.mem[r.at].tok # NoTok
    BY <1>2 DEF Rows
  <2> HIDE DEF u
  <2> QED
    BY <2>2, <2>3 DEF ProcessShape, Driving, Asking, Holding, Visiting, Cleanings, Removing, Denying
<1>5. ProcessShape(Visited(q))
  BY <1>3, VisitedShape
<1>6. Step(c, Visited(q)) \/ Step(c, u)
  BY DEF PersistsPresented
<1>7. PutAuthorization(r.at, r.mem[r.at]) \/ rows' = rows
  BY DEF PersistsPresented
<1> HIDE DEF q, u
<1> QED
  BY <1>2, <1>4, <1>5, <1>6, <1>7, StepShape, CertsAreProcs, PutTyped DEF StoreTypes

LEMMA ResumesTyped ==
  ASSUME Types, NEW c \in Certs, NEW a \in Urls, Resumes(c, a)
  PROVE  ProcessTypes' /\ StoreTypes' /\ CaTypes' /\ DnsTypes'
<1> DEFINE r == [proc[c] EXCEPT !.at = a]
<1>1. DnsTypes' /\ CaTypes' /\ order' = order
  BY DEF Types, Resumes, zone, DnsTypes, CaTypes
<1>2. ProcessShape(proc[c]) /\ proc[c] \in Processes /\ proc[c].pc = "visit" /\ a \in proc[c].todo
  BY ShapeOf, CertsAreProcs DEF Resumes, Types
<1>3. ProcessShape(r) /\ r.pc = "visit" /\ r.at = a /\ r.mem = proc[c].mem /\ a \in DOMAIN r.mem
  BY <1>2 DEF ProcessShape, Processes, Driving, Asking, Holding, Visiting, Cleanings, Removing, Denying
<1>4. PersistsPresented(c, r, {a}) /\ r.mem[a].presented
  BY <1>3 DEF Resumes
<1> HIDE DEF r
<1>5. ProcessTypes' /\ rows' \in [Urls -> Rows]
  BY <1>3, <1>4, PersistsTyped DEF Driving
<1> QED
  BY <1>1, <1>5 DEF StoreTypes, Types

LEMMA PersistsStepTyped ==
  ASSUME Types, NEW c \in Certs, Persists(c)
  PROVE  ProcessTypes' /\ StoreTypes' /\ CaTypes' /\ DnsTypes'
<1>1. DnsTypes' /\ CaTypes' /\ order' = order
  BY DEF Types, Persists, zone, DnsTypes, CaTypes
<1>2. ProcessShape(proc[c]) /\ proc[c].pc = "persist"
  BY ShapeOf, CertsAreProcs DEF Persists, Types
<1>3. proc[c].at \in DOMAIN proc[c].mem /\ proc[c].mem[proc[c].at].presented
  BY <1>2 DEF ProcessShape, Visiting
<1>4. PersistsPresented(c, proc[c], {})
  BY DEF Persists
<1>5. ProcessTypes' /\ rows' \in [Urls -> Rows]
  BY <1>2, <1>3, <1>4, PersistsTyped DEF Driving, Visiting
<1> QED
  BY <1>1, <1>5 DEF StoreTypes, Types

LEMMA LeaseGone ==
  ASSUME DnsTypes, NEW v, NEW e, releaseStaleLease(v, e), UNCHANGED zone
  PROVE  DnsTypes' /\ leases' \in SUBSET leases
BY DEF releaseStaleLease, remove, zone, DnsTypes

LEMMA ReleasesStaleTyped ==
  ASSUME Types, NEW c \in Certs, NEW a \in Urls, ReleasesStale(c, a)
  PROVE  ProcessTypes' /\ StoreTypes' /\ CaTypes' /\ DnsTypes'
<1> DEFINE q == [proc[c] EXCEPT !.pc = "prepare", !.at = a]
<1>1. StoreTypes' /\ CaTypes'
  BY DEF Types, ReleasesStale, StoreTypes, CaTypes
<1>2. ProcessShape(proc[c]) /\ proc[c] \in Processes /\ proc[c].pc = "visit" /\ a \in proc[c].todo
  BY ShapeOf, CertsAreProcs DEF ReleasesStale, New, Types
<1>3. ProcessShape(q)
  BY <1>2 DEF ProcessShape, Processes, Pcs, Driving, Asking, Holding, Visiting, Cleanings, Removing, Denying
<1>4. DnsTypes'
  BY LeaseGone DEF ReleasesStale, Types
<1>5. Step(c, q)
  BY DEF ReleasesStale
<1> QED
  BY <1>1, <1>3, <1>4, <1>5, StepShape, CertsAreProcs DEF Types


LEMMA VisitsNewTyped ==
  ASSUME Types, NEW c \in Certs, NEW a \in Urls, VisitsNew(c, a)
  PROVE  ProcessTypes' /\ StoreTypes' /\ CaTypes' /\ DnsTypes'
<1> DEFINE r == proc[c]
           tok == r.cur[a].tok
           old == r.mem[a]
           m == [old EXCEPT !.sent = @ /\ old.tok = tok, !.age = "young"]
           n == [m EXCEPT !.tok = tok]
           row == [m EXCEPT !.tok = Clue(m, tok)]
           mem == [r.mem EXCEPT ![a] = n]
           pc == IF old.tok = NoTok THEN "present" ELSE "probe"
           q == [r EXCEPT !.at = a, !.mem[a] = n, !.pc = pc]
<1>1. DnsTypes' /\ CaTypes' /\ order' = order
  BY DEF Types, VisitsNew, zone, DnsTypes, CaTypes
<1>2. ProcessShape(r) /\ r \in Processes /\ r.pc \in {"visit", "prepare"} /\ a \in DOMAIN r.mem
  <2>1. ProcessShape(r) /\ r \in Processes /\ r.pc \in {"visit", "prepare"}
    BY ShapeOf, CertsAreProcs DEF VisitsNew, New, Types
  <2>2. a \in r.todo \/ (r.pc = "prepare" /\ a = r.at)
    BY DEF VisitsNew, New
  <2> QED
    BY <2>1, <2>2 DEF ProcessShape, Visiting
<1>3. r.mem \in Copies(Rows) /\ r.cur \in Copies(Authzs) /\ DOMAIN r.cur = DOMAIN r.mem
  BY <1>2 DEF ProcessShape, Processes, Driving, Visiting
<1>4. old \in Rows /\ r.cur[a] \in Authzs
  BY <1>2, <1>3, CopyGet
<1>5. tok \in Tokens
  BY <1>4 DEF Authzs
<1>6. tok # NoTok
  BY <1>5, BoundsAssumption DEF Tokens, NoTok
<1> HIDE DEF tok, old
<1>7. n \in Rows /\ row \in Rows /\ n.tok = tok /\ n.presented = old.presented
  BY <1>4, <1>5, <1>6 DEF Rows, Clue
<1> HIDE DEF n, row
<1>8. mem \in Copies(Rows) /\ DOMAIN mem = DOMAIN r.mem /\ mem[a] = n /\ \A b \in DOMAIN r.mem : b # a => mem[b] = r.mem[b]
  BY <1>2, <1>3, <1>7, CopySet
<1>9. q = [r EXCEPT !.at = a, !.mem = mem, !.pc = pc]
  OBVIOUS
<1> HIDE DEF mem, q, r
<1>10. /\ q \in Processes /\ q.pc \in {"present", "probe"} /\ q.todo = r.todo /\ q.pend = r.pend
       /\ q.resumed = r.resumed /\ q.mem = mem /\ q.cur = r.cur /\ q.at = a
  BY <1>2, <1>8, <1>9 DEF Processes, Pcs
<1>11. \A b \in r.pend : mem[b].presented
  BY <1>2, <1>7, <1>8 DEF ProcessShape, old
<1>12. ProcessShape(q)
  BY <1>2, <1>3, <1>6, <1>7, <1>8, <1>10, <1>11 DEF ProcessShape, Driving, Asking, Holding, Visiting, Cleanings, Removing, Denying
<1>13. (PutAuthorization(a, row) /\ Step(c, q)) \/ (rows' = rows /\ Ends(c))
  BY DEF VisitsNew, q, mem, row, n, m, old, tok, r
<1>14. rows' \in [Urls -> Rows]
  BY <1>7, <1>13, PutTyped DEF StoreTypes, Types
<1> QED
  BY <1>1, <1>12, <1>13, <1>14, StepShape, EndShape, CertsAreProcs DEF StoreTypes, Types

\* The record of the row at hand is up.
LEMMA PresentedShape ==
  ASSUME NEW r, ProcessShape(r), r.pc \in {"probe", "present"}
  PROVE  ProcessShape(Presented(r))
<1> DEFINE old == r.mem[r.at]
           m == [old EXCEPT !.presented = TRUE, !.val = old.tok]
           mem == [r.mem EXCEPT ![r.at] = m]
           q == Presented(r)
<1>1. r \in Processes /\ r.mem \in Copies(Rows) /\ r.at \in DOMAIN r.mem /\ old.tok # NoTok
  BY DEF ProcessShape, Processes, Visiting
<1>2. old \in Rows
  BY <1>1, CopyGet
<1>3. m \in Rows /\ m.presented /\ m.tok = old.tok
  BY <1>1, <1>2 DEF Rows
<1> HIDE DEF m
<1>4. mem \in Copies(Rows) /\ DOMAIN mem = DOMAIN r.mem /\ mem[r.at] = m /\ \A b \in DOMAIN r.mem : b # r.at => mem[b] = r.mem[b]
  BY <1>1, <1>3, CopySet
<1>5. q = [r EXCEPT !.pc = "persist", !.mem = mem]
  BY DEF Presented, mem, m
<1> HIDE DEF mem, q
<1>6. /\ q \in Processes /\ q.pc = "persist" /\ q.todo = r.todo /\ q.pend = r.pend
      /\ q.resumed = r.resumed /\ q.mem = mem /\ q.cur = r.cur /\ q.at = r.at
  BY <1>1, <1>4, <1>5 DEF Processes, Pcs
<1>7. ProcessShape(q)
  BY <1>1, <1>3, <1>4, <1>6 DEF ProcessShape, Driving, Asking, Holding, Visiting, Cleanings, Removing, Denying
<1> QED
  BY <1>7 DEF q

LEMMA WantedValue ==
  ASSUME ProcessTypes, NEW p \in Procs, proc[p].pc \in {"probe", "present", "persist"} \cup Denying
  PROVE  Wanted(p) \in Values
<1>1. /\ proc[p].mem \in Copies(Rows) /\ proc[p].at \in DOMAIN proc[p].mem
      /\ proc[p].mem[proc[p].at].tok # NoTok
  BY ShapeOf DEF ProcessShape, Processes, Visiting, Cleanings, Removing, Denying
<1>2. proc[p].mem[proc[p].at] \in Rows /\ proc[p].at \in Urls
  BY <1>1, CopyGet
<1> QED
  BY <1>1, <1>2 DEF Wanted, ValueOf, Values, Rows

LEMMA GoShape ==
  ASSUME ProcessTypes, NEW p \in Procs, NEW pc \in Pcs, ProcessShape([proc[p] EXCEPT !.pc = pc]), GoTo(p, pc)
  PROVE  ProcessTypes'
BY StepShape DEF GoTo

LEMMA ProbesTyped ==
  ASSUME Types, NEW c \in Certs, Probes(c)
  PROVE  ProcessTypes' /\ StoreTypes' /\ CaTypes' /\ DnsTypes'
<1>1. StoreTypes' /\ DnsTypes' /\ CaTypes'
  BY DEF Types, Probes, zone, StoreTypes, DnsTypes, CaTypes
<1>2. ProcessShape(proc[c]) /\ proc[c] \in Processes /\ proc[c].pc = "probe"
  BY ShapeOf, CertsAreProcs DEF Probes, Types
<1>3. ProcessShape([proc[c] EXCEPT !.pc = "present"])
  BY <1>2 DEF ProcessShape, Processes, Pcs, Driving, Asking, Holding, Visiting, Cleanings, Removing, Denying
<1>4. Step(c, Presented(proc[c])) \/ GoTo(c, "present")
  BY DEF Probes
<1> QED
  BY <1>1, <1>2, <1>3, <1>4, PresentedShape, StepShape, CertsAreProcs DEF Types, GoTo

LEMMA TimesOutTyped ==
  ASSUME DnsTypes, NEW op \in {"write", "delete"}, NEW v \in Values, TimesOut(op, v), UNCHANGED leases
  PROVE  DnsTypes'
<1>1. late' = [op |-> op, val |-> v] /\ dns' = dns
  BY Zenon DEF TimesOut
<1> QED
  BY <1>1 DEF DnsTypes

LEMMA PresentTyped ==
  ASSUME Types, NEW c \in Certs, Present(c)
  PROVE  ProcessTypes' /\ StoreTypes' /\ CaTypes' /\ DnsTypes'
<1>1. StoreTypes' /\ CaTypes'
  BY DEF Types, Present, StoreTypes, CaTypes
<1>2. ProcessShape(proc[c]) /\ proc[c].pc = "present" /\ Wanted(c) \in Values
  BY ShapeOf, CertsAreProcs, WantedValue DEF Present, Types
<1>3. ProcessTypes'
  BY <1>2, PresentedShape, StepShape, EndShape, CertsAreProcs DEF Present, Types
<1>4. \/ Writes(Wanted(c)) /\ add(Wanted(c)) /\ UNCHANGED late
      \/ TimesOut("write", Wanted(c)) /\ UNCHANGED leases
      \/ UNCHANGED leases /\ UNCHANGED zone
  BY DEF Present
<1>5. DnsTypes'
  <2>1. CASE Writes(Wanted(c)) /\ add(Wanted(c)) /\ UNCHANGED late
    BY <1>2, <2>1 DEF Writes, add, DnsTypes, Types
  <2>2. CASE TimesOut("write", Wanted(c)) /\ UNCHANGED leases
    BY <1>2, <2>2, TimesOutTyped DEF Types
  <2> QED
    BY <1>4, <2>1, <2>2 DEF zone, DnsTypes, Types
<1> QED
  BY <1>1, <1>3, <1>5

LEMMA LeasesTyped ==
  ASSUME Types, NEW c \in Certs, Leases(c)
  PROVE  ProcessTypes' /\ StoreTypes' /\ CaTypes' /\ DnsTypes'
<1>1. StoreTypes' /\ CaTypes'
  BY DEF Types, Leases, StoreTypes, CaTypes
<1>2. ProcessShape(proc[c]) /\ proc[c] \in Processes /\ proc[c].pc = "lease"
  BY ShapeOf, CertsAreProcs DEF Leases, Types
<1>3. PICK v \in proc[c].regs :
        /\ add(v) /\ UNCHANGED zone
        /\ Step(c, [proc[c] EXCEPT !.regs = @ \ {v}, !.pc = IF proc[c].regs = {v} THEN "wait" ELSE "lease"])
  BY DEF Leases
<1>4. v \in Values
  BY <1>2, <1>3 DEF Processes
<1>5. ProcessShape([proc[c] EXCEPT !.regs = @ \ {v}, !.pc = IF proc[c].regs = {v} THEN "wait" ELSE "lease"])
  BY <1>2 DEF ProcessShape, Processes, Pcs, Driving, Asking, Holding, Visiting, Cleanings, Removing, Denying
<1>6. DnsTypes'
  BY <1>3, <1>4 DEF add, zone, DnsTypes, Types
<1> QED
  BY <1>1, <1>3, <1>5, <1>6, StepShape, CertsAreProcs DEF Types


LEMMA AcceptingShape ==
  ASSUME NEW r, ProcessShape(r), r.pc \in {"wait", "sent"}
  PROVE  ProcessShape(Accepting(r))
BY DEF Accepting, ProcessShape, Processes, Pcs, Driving, Asking, Holding, Visiting, Cleanings, Removing, Denying

LEMMA WaitsAllTyped ==
  ASSUME Types, NEW c \in Certs, WaitsAll(c)
  PROVE  ProcessTypes' /\ StoreTypes' /\ CaTypes' /\ DnsTypes'
<1> DEFINE unsent == {a \in proc[c].pend : ~proc[c].mem[a].sent}
           q == [proc[c] EXCEPT !.todo = unsent]
<1>1. /\ UNCHANGED <<order, rows, ca, leases>> /\ UNCHANGED zone
      /\ Step(c, Accepting(q)) /\ proc[c].pc = "wait"
  BY DEF WaitsAll
<1>2. StoreTypes' /\ CaTypes' /\ DnsTypes'
  BY <1>1 DEF Types, zone, StoreTypes, CaTypes, DnsTypes
<1>3. ProcessShape(proc[c]) /\ proc[c] \in Processes
  BY ShapeOf, CertsAreProcs DEF Types
<1>4. unsent \in SUBSET proc[c].pend
  OBVIOUS
<1> HIDE DEF unsent
<1>5. ProcessShape(q) /\ q.pc = "wait"
  BY <1>1, <1>3, <1>4 DEF ProcessShape, Processes, Driving, Asking, Holding, Visiting, Cleanings, Removing, Denying
<1> QED
  BY <1>1, <1>2, <1>5, AcceptingShape, StepShape, CertsAreProcs DEF Types

LEMMA GivesUpWaitingTyped ==
  ASSUME Types, NEW c \in Certs, GivesUpWaiting(c)
  PROVE  ProcessTypes' /\ StoreTypes' /\ CaTypes' /\ DnsTypes'
<1>1. CaTypes' /\ DnsTypes' /\ order' = order
  BY DEF Types, GivesUpWaiting, zone, CaTypes, DnsTypes
<1>2. ProcessTypes'
  BY EndShape, CertsAreProcs DEF GivesUpWaiting, Types
<1> DEFINE r == proc[c]
           gone(lost) == [a \in Urls |-> IF a \in markUnpresented(c) \ lost
                                         THEN Stored(a, [r.mem[a] EXCEPT !.presented = FALSE]) ELSE rows[a]]
<1>3. ProcessShape(r) /\ r.mem \in Copies(Rows)
  BY ShapeOf, CertsAreProcs DEF Types, ProcessShape, Processes
<1>4. ASSUME NEW a \in markUnpresented(c) PROVE Stored(a, [r.mem[a] EXCEPT !.presented = FALSE]) \in Rows
  <2>1. r.mem[a] \in Rows /\ a \in Urls
    BY <1>3, CopyGet DEF markUnpresented, ProcessShape
  <2> QED
    BY <2>1, RowSet, StoredTyped DEF Types
<1>5. ASSUME NEW lost PROVE gone(lost) \in [Urls -> Rows]
  BY <1>4 DEF Types, StoreTypes
<1>6. rows' = rows \/ \E lost \in SUBSET markUnpresented(c) : rows' = gone(lost)
  BY DEF GivesUpWaiting
<1> HIDE DEF gone
<1>7. rows' \in [Urls -> Rows]
  BY <1>5, <1>6 DEF Types, StoreTypes
<1> QED
  BY <1>1, <1>2, <1>7 DEF Types, StoreTypes

LEMMA AcceptsTyped ==
  ASSUME Types, NEW c \in Certs, NEW a \in Urls, Accepts(c, a)
  PROVE  ProcessTypes' /\ StoreTypes' /\ CaTypes' /\ DnsTypes'
<1> DEFINE r == proc[c]
           m == [r.mem[a] EXCEPT !.sent = TRUE]
           mem == [r.mem EXCEPT ![a] = m]
           q == [r EXCEPT !.pc = "sent", !.at = a, !.mem[a].sent = TRUE]
<1>1. StoreTypes' /\ DnsTypes'
  BY DEF Types, Accepts, zone, StoreTypes, DnsTypes
<1>2. ca' = ca \/ ca' = [ca EXCEPT ![a].asked = TRUE]
  BY DEF Accepts
<1>3. CaTypes'
  BY <1>2 DEF CaTypes, Types, Authzs
<1>4. /\ ProcessShape(r) /\ r \in Processes /\ r.pc = "accept" /\ a \in DOMAIN r.mem
      /\ r.mem \in Copies(Rows)
  BY ShapeOf, CertsAreProcs DEF Accepts, Types, ProcessShape, Processes
<1>5. r.mem[a] \in Rows
  BY <1>4, CopyGet
<1>6. m \in Rows /\ m.presented = r.mem[a].presented /\ m.tok = r.mem[a].tok
  BY <1>5, RowSet DEF Rows
<1>7. q = [r EXCEPT !.pc = "sent", !.at = a, !.mem = mem]
  OBVIOUS
<1> HIDE DEF m, q
<1>8. mem \in Copies(Rows) /\ DOMAIN mem = DOMAIN r.mem /\ mem[a] = m /\ \A b \in DOMAIN r.mem : b # a => mem[b] = r.mem[b]
  BY <1>4, <1>6, CopySet
<1> HIDE DEF mem
<1>9. q \in Processes
  BY <1>4, <1>7, <1>8, CopiesOf DEF ProcessShape, Processes, Pcs
<1>10. ProcessShape(q)
  BY <1>4, <1>6, <1>7, <1>8, <1>9 DEF ProcessShape, Processes, Driving, Asking, Holding, Visiting, Cleanings, Removing, Denying
<1>11. Step(c, q) \/ Ends(c)
  BY DEF Accepts, q
<1> QED
  BY <1>1, <1>3, <1>10, <1>11, StepShape, EndShape, CertsAreProcs DEF Types

LEMMA RecordsSentTyped ==
  ASSUME Types, NEW c \in Certs, RecordsSent(c)
  PROVE  ProcessTypes' /\ StoreTypes' /\ CaTypes' /\ DnsTypes'
<1> DEFINE r == proc[c]
           q == [r EXCEPT !.todo = @ \ {r.at}]
<1>1. CaTypes' /\ DnsTypes' /\ order' = order
  BY DEF Types, RecordsSent, zone, CaTypes, DnsTypes
<1>2. ProcessShape(r) /\ r \in Processes /\ r.pc = "sent" /\ r.at \in DOMAIN r.mem /\ r.mem \in Copies(Rows)
  BY ShapeOf, CertsAreProcs DEF RecordsSent, Types, ProcessShape, Processes
<1>3. r.mem[r.at] \in Rows /\ r.at \in Urls
  BY <1>2, CopyGet
<1>4. ProcessShape(q) /\ q.pc = "sent"
  BY <1>2 DEF ProcessShape, Processes, Driving, Asking, Holding, Visiting, Cleanings, Removing, Denying
<1>5. (PutAuthorization(r.at, r.mem[r.at]) /\ Step(c, Accepting(q))) \/ (rows' = rows /\ Ends(c))
  BY DEF RecordsSent
<1> HIDE DEF q
<1>6. rows' \in [Urls -> Rows]
  BY <1>3, <1>5, PutTyped DEF Types, StoreTypes
<1> QED
  BY <1>1, <1>4, <1>5, <1>6, AcceptingShape, StepShape, EndShape, CertsAreProcs DEF Types, StoreTypes

LEMMA PollsTyped ==
  ASSUME Types, NEW c \in Certs, Polls(c)
  PROVE  ProcessTypes' /\ StoreTypes' /\ CaTypes' /\ DnsTypes'
<1> DEFINE r == proc[c]
           over == {a \in r.todo : ca[a].status # r.cur[a].status}
           left == {a \in r.todo : ca[a].status \notin {"valid", "invalid"}}
           cur == [a \in DOMAIN r.cur |-> ca[a]]
           q == [r EXCEPT !.todo = left, !.cur = cur]
           put == [a \in Urls |-> IF a \in over THEN Stored(a, r.mem[a]) ELSE rows[a]]
<1>1. CaTypes' /\ DnsTypes' /\ order' = order
  BY DEF Types, Polls, zone, CaTypes, DnsTypes
<1>2. ProcessShape(r) /\ r \in Processes /\ r.pc = "await" /\ r.mem \in Copies(Rows) /\ r.cur \in Copies(Authzs)
  BY ShapeOf, CertsAreProcs DEF Polls, Types, ProcessShape, Processes
<1>3. DOMAIN r.cur \in SUBSET Urls
  BY <1>2, CopiesOf
<1>4. cur \in Copies(Authzs) /\ DOMAIN cur = DOMAIN r.cur
  BY <1>3 DEF CaTypes, Copies, Types
<1>5. left \in SUBSET r.todo /\ over \in SUBSET r.todo
  OBVIOUS
<1>6. /\ \/ rows' = put
         \/ rows' = rows
      /\ Step(c, Discards) \/ Step(c, CleansUp(r, r.pend)) \/ Step(c, q) \/ Ends(c)
  BY DEF Polls
<1> HIDE DEF cur, left, over
<1>7. ProcessShape(q)
  BY <1>2, <1>4, <1>5 DEF ProcessShape, Processes, Driving, Asking, Holding, Visiting, Cleanings, Removing, Denying
<1>8. ProcessShape(CleansUp(r, r.pend))
  BY <1>2, CleansUpShape DEF ProcessShape
<1>9. ProcessTypes'
  <2> HIDE DEF q
  <2> QED
    BY <1>6, <1>7, <1>8, DiscardsShape, StepShape, EndShape, CertsAreProcs DEF Types
<1>10. ASSUME NEW a \in over PROVE Stored(a, r.mem[a]) \in Rows
  <2>1. r.mem[a] \in Rows /\ a \in Urls
    BY <1>2, <1>5, CopyGet DEF ProcessShape
  <2> QED
    BY <2>1, StoredTyped DEF Types
<1>11. rows' \in [Urls -> Rows]
  BY <1>6, <1>10 DEF Types, StoreTypes
<1> QED
  BY <1>1, <1>9, <1>11 DEF Types, StoreTypes

LEMMA PassTyped ==
  ASSUME Types, NEW c \in Certs, Pass(c)
  PROVE  Types'
<1>1. SettingTypes'
  BY PassBudget DEF Types
<1>2. ProcessTypes' /\ StoreTypes' /\ CaTypes' /\ DnsTypes'
  BY BeginTyped, NewOrderTyped, loadAuthorizationsTyped, fetchAuthzsTyped, VisitsClosedTyped, ResumesTyped,
     ReleasesStaleTyped, VisitsNewTyped, AcceptsTyped, ProbesTyped, PresentTyped, PersistsStepTyped, LeasesTyped,
     WaitsAllTyped, GivesUpWaitingTyped, RecordsSentTyped, PollsTyped DEF Pass
<1> QED
  BY <1>1, <1>2 DEF Types


(* A step keeps the types: cleaning *)

\* A process that goes on at the same row, or drops what it was at.
LEMMA RemovingGo ==
  ASSUME ProcessTypes, NEW p \in Procs, NEW pc \in Removing, proc[p].pc \in Removing,
         pc \in Denying => proc[p].pc \in Denying
  PROVE  ProcessShape([proc[p] EXCEPT !.pc = pc])
<1>1. ProcessShape(proc[p]) /\ proc[p] \in Processes
  BY ShapeOf
<1> QED
  BY <1>1 DEF ProcessShape, Processes, Pcs, Driving, Asking, Holding, Visiting, Cleanings, Removing, Denying

LEMMA RemovingStep ==
  ASSUME ProcessTypes, NEW p \in Procs, NEW pc \in Removing, proc[p].pc \in Removing,
         pc \in Denying => proc[p].pc \in Denying, GoTo(p, pc)
  PROVE  ProcessTypes'
<1>1. ProcessShape([proc[p] EXCEPT !.pc = pc])
  BY RemovingGo
<1> QED
  BY <1>1, StepShape DEF GoTo

LEMMA RecoversTyped ==
  ASSUME Types, NEW p \in Procs, Recovers(p)
  PROVE  ProcessTypes' /\ StoreTypes' /\ CaTypes' /\ DnsTypes'
<1>1. StoreTypes' /\ CaTypes' /\ DnsTypes'
  BY DEF Types, Recovers, zone, StoreTypes, CaTypes, DnsTypes
<1>2. ProcessShape(proc[p]) /\ proc[p] \in Processes /\ proc[p].pc = "recover"
  BY ShapeOf DEF Recovers, Types
<1>3. ASSUME NEW a \in Urls, rows[a].presented PROVE ValueOf(a, rows[a].val) \in Values
  <2>1. rows[a] \in Rows
    BY DEF Types, StoreTypes
  <2> QED
    BY <1>3, <2>1 DEF Rows, ValueOf, Values
<1>4. Recovered \in SUBSET Values
  BY <1>3 DEF Recovered, PresentedValues
<1>5. ProcessShape([proc[p] EXCEPT !.pc = "register"])
  BY <1>2 DEF ProcessShape, Processes, Pcs, Driving, Asking, Holding, Visiting, Cleanings, Removing, Denying
<1>6. ProcessShape([proc[p] EXCEPT !.pc = "register", !.regs = Recovered])
  BY <1>2, <1>4 DEF ProcessShape, Processes, Pcs, Driving, Asking, Holding, Visiting, Cleanings, Removing, Denying
<1> QED
  BY <1>1, <1>5, <1>6, StepShape DEF Recovers, Types

LEMMA RegistersTyped ==
  ASSUME Types, NEW p \in Procs, Registers(p)
  PROVE  ProcessTypes' /\ StoreTypes' /\ CaTypes' /\ DnsTypes'
<1>1. StoreTypes' /\ CaTypes'
  BY DEF Types, Registers, StoreTypes, CaTypes
<1>2. ProcessShape(proc[p]) /\ proc[p] \in Processes /\ proc[p].pc = "register"
  BY ShapeOf DEF Registers, Types
<1>3. PICK v \in proc[p].regs : add(v) /\ UNCHANGED zone /\ Step(p, [proc[p] EXCEPT !.regs = @ \ {v}])
  BY DEF Registers
<1>4. ProcessShape([proc[p] EXCEPT !.regs = @ \ {v}])
  BY <1>2 DEF ProcessShape, Processes, Driving, Asking, Holding, Visiting, Cleanings, Removing, Denying
<1>5. v \in Values
  BY <1>2, <1>3 DEF Processes
<1>6. DnsTypes'
  BY <1>3, <1>5 DEF add, zone, DnsTypes, Types
<1> QED
  BY <1>1, <1>3, <1>4, <1>6, StepShape DEF Types

LEMMA ListsTyped ==
  ASSUME Types, NEW p \in Procs, Lists(p)
  PROVE  ProcessTypes' /\ StoreTypes' /\ CaTypes' /\ DnsTypes'
<1> DEFINE them == IF p = Sweeper THEN ListStuckTXTReclaims ELSE RowsOf(p)
           mem == [a \in them |-> rows[a]]
           q == [proc[p] EXCEPT !.pc = "clean", !.todo = them, !.mem = mem]
           k == [proc[p] EXCEPT !.pc = "clean"]
<1>1. StoreTypes' /\ CaTypes' /\ DnsTypes'
  BY DEF Types, Lists, zone, StoreTypes, CaTypes, DnsTypes
<1>2. ProcessShape(proc[p]) /\ proc[p] \in Processes /\ proc[p].pc = "register"
  BY ShapeOf DEF Lists, Types
<1>3. them \in SUBSET Urls
  BY DEF ListStuckTXTReclaims, RowsOf
<1>4. Step(p, k) \/ Step(p, q) \/ Step(p, Idle)
  BY DEF Lists
<1> HIDE DEF them
<1>5. mem \in Copies(Rows) /\ DOMAIN mem = them
  BY <1>3 DEF Copies, Types, StoreTypes
<1> HIDE DEF mem
<1>6. ProcessShape(k)
  BY <1>2 DEF ProcessShape, Processes, Pcs, Driving, Asking, Holding, Visiting, Cleanings, Removing, Denying
<1>7. /\ q \in Processes /\ q.pc = "clean" /\ q.todo = them /\ q.mem = mem
      /\ q.pend = proc[p].pend /\ q.resumed = proc[p].resumed
  BY <1>2, <1>3, <1>5 DEF Processes, Pcs
<1> HIDE DEF q
<1>8. ProcessShape(q)
  BY <1>2, <1>5, <1>7 DEF ProcessShape, Driving, Asking, Holding, Visiting, Cleanings, Removing, Denying
<1> QED
  BY <1>1, <1>4, <1>6, <1>8, IdleShape, StepShape DEF Types

LEMMA TakesTyped ==
  ASSUME Types, NEW p \in Procs, NEW a \in Urls, Takes(p, a)
  PROVE  ProcessTypes' /\ StoreTypes' /\ CaTypes' /\ DnsTypes'
<1> DEFINE pc == IF proc[p].mem[a].presented THEN "claim" ELSE "gone"
           q == [proc[p] EXCEPT !.at = a, !.pc = pc]
<1>1. StoreTypes' /\ CaTypes' /\ DnsTypes'
  BY DEF Types, Takes, zone, StoreTypes, CaTypes, DnsTypes
<1>2. /\ ProcessShape(proc[p]) /\ proc[p] \in Processes /\ proc[p].pc = "clean" /\ a \in DOMAIN proc[p].mem
      /\ proc[p].mem \in Copies(Rows)
  BY ShapeOf DEF Takes, Types, ProcessShape, Processes
<1>3. proc[p].mem[a].presented => proc[p].mem[a].tok # NoTok
  <2>1. proc[p].mem[a] \in Rows
    BY <1>2, CopyGet
  <2> QED
    BY <2>1 DEF Rows
<1>4. ProcessShape(q)
  BY <1>2, <1>3 DEF ProcessShape, Processes, Pcs, Driving, Asking, Holding, Visiting, Cleanings, Removing, Denying
<1>5. Step(p, q)
  BY DEF Takes
<1> QED
  BY <1>1, <1>4, <1>5, StepShape DEF Types

LEMMA LooksTyped ==
  ASSUME Types, NEW p \in Procs, NEW a \in Urls, Looks(p, a)
  PROVE  ProcessTypes' /\ StoreTypes' /\ CaTypes' /\ DnsTypes'
<1> DEFINE q(pc) == [proc[p] EXCEPT !.at = a, !.pc = pc]
           k == [proc[p] EXCEPT !.todo = @ \ {a}]
<1>1. StoreTypes' /\ CaTypes' /\ DnsTypes'
  BY DEF Types, Looks, zone, StoreTypes, CaTypes, DnsTypes
<1>2. /\ ProcessShape(proc[p]) /\ proc[p] \in Processes /\ proc[p].pc = "clean" /\ a \in DOMAIN proc[p].mem
      /\ proc[p].mem[a].tok # NoTok
  BY ShapeOf DEF Looks, Asks, Types, ProcessShape
<1>3. ASSUME NEW pc \in {"kept", "claim", "drop"} PROVE ProcessShape(q(pc))
  BY <1>2 DEF ProcessShape, Processes, Pcs, Driving, Asking, Holding, Visiting, Cleanings, Removing, Denying
<1>4. ProcessShape(k)
  BY <1>2 DEF ProcessShape, Processes, Driving, Asking, Holding, Visiting, Cleanings, Removing, Denying
<1>5. Step(p, q("kept")) \/ Step(p, q("claim")) \/ Step(p, q("drop")) \/ Step(p, k)
  BY DEF Looks
<1> QED
  BY <1>1, <1>3, <1>4, <1>5, StepShape DEF Types

LEMMA DropsTyped ==
  ASSUME Types, NEW p \in Procs, Drops(p)
  PROVE  ProcessTypes' /\ StoreTypes' /\ CaTypes' /\ DnsTypes'
<1>1. StoreTypes' /\ CaTypes' /\ DnsTypes'
  BY LeaseGone DEF Types, Drops, StoreTypes, CaTypes
<1> QED
  BY <1>1, RemovingStep DEF Drops, Types, Removing, Denying

LEMMA ClaimsTyped ==
  ASSUME Types, NEW p \in Procs, Claims(p)
  PROVE  ProcessTypes' /\ StoreTypes' /\ CaTypes' /\ DnsTypes'
<1>1. StoreTypes' /\ CaTypes'
  BY DEF Types, Claims, StoreTypes, CaTypes
<1>2. proc[p].pc = "claim" /\ Wanted(p) \in Values
  BY WantedValue DEF Claims, Types, Denying
<1>3. DnsTypes'
  BY <1>2 DEF Claims, add, zone, DnsTypes, Types
<1>4. GoTo(p, "release") \/ GoTo(p, "remove")
  BY DEF Claims
<1> QED
  BY <1>1, <1>2, <1>3, <1>4, RemovingStep DEF Types, Removing, Denying

LEMMA ReleasesTyped ==
  ASSUME Types, NEW p \in Procs, releaseRowStaleLease(p)
  PROVE  ProcessTypes' /\ StoreTypes' /\ CaTypes' /\ DnsTypes'
<1>1. StoreTypes' /\ CaTypes' /\ DnsTypes'
  BY LeaseGone DEF Types, releaseRowStaleLease, StoreTypes, CaTypes
<1> QED
  BY <1>1, RemovingStep DEF releaseRowStaleLease, Types, Removing, Denying

LEMMA CleanUpTyped ==
  ASSUME Types, NEW p \in Procs, CleanUp(p)
  PROVE  ProcessTypes' /\ StoreTypes' /\ CaTypes' /\ DnsTypes'
<1>1. StoreTypes' /\ CaTypes'
  BY DEF Types, CleanUp, StoreTypes, CaTypes
<1>2. proc[p].pc = "remove" /\ Wanted(p) \in Values /\ leases' = leases \ {Wanted(p)}
  BY WantedValue DEF CleanUp, Types, Denying, remove
<1>3. GoTo(p, "gone") \/ GoTo(p, "kept") \/ GoTo(p, "relook")
  BY DEF CleanUp
<1>4. ProcessTypes'
  BY <1>2, <1>3, RemovingStep DEF Types, Removing, Denying
<1>5. \/ UNCHANGED zone
      \/ Deletes(Wanted(p)) /\ UNCHANGED late
      \/ TimesOut("delete", Wanted(p))
  BY DEF CleanUp
<1>6. DnsTypes'
  <2>1. CASE Deletes(Wanted(p)) /\ UNCHANGED late
    BY <1>2, <2>1 DEF Deletes, DeleteLeaves, DnsTypes, Types
  <2>2. CASE TimesOut("delete", Wanted(p))
    <3>1. late' = [op |-> "delete", val |-> Wanted(p)] /\ dns' = dns
      BY <2>2, Zenon DEF TimesOut
    <3> QED
      BY <1>2, <3>1 DEF DnsTypes, Types
  <2> QED
    BY <1>2, <1>5, <2>1, <2>2 DEF zone, DnsTypes, Types
<1> QED
  BY <1>1, <1>4, <1>6

LEMMA LooksAgainTyped ==
  ASSUME Types, NEW p \in Procs, LooksAgain(p)
  PROVE  ProcessTypes' /\ StoreTypes' /\ CaTypes' /\ DnsTypes'
<1> DEFINE q(pc, e) == [proc[p] EXCEPT !.pc = pc, !.early = e]
<1>1. StoreTypes' /\ CaTypes' /\ DnsTypes'
  BY DEF Types, LooksAgain, zone, StoreTypes, CaTypes, DnsTypes
<1>2. ProcessShape(proc[p]) /\ proc[p] \in Processes /\ proc[p].pc = "relook"
  BY ShapeOf DEF LooksAgain, Types
<1>3. ASSUME NEW pc \in {"drop", "kept"}, NEW e \in BOOLEAN PROVE ProcessShape(q(pc, e))
  BY <1>2 DEF ProcessShape, Processes, Pcs, Driving, Asking, Holding, Visiting, Cleanings, Removing, Denying
<1>4. PICK r : Step(p, q(IF r = "absent" THEN "drop" ELSE "kept", r = "absent" /\ ~Believes(proc[p].mem[proc[p].at])))
  BY DEF LooksAgain
<1>5. (r = "absent" /\ ~Believes(proc[p].mem[proc[p].at])) \in BOOLEAN
  OBVIOUS
<1> QED
  BY <1>1, <1>3, <1>4, <1>5, StepShape DEF Types

LEMMA AfterShape ==
  ASSUME ProcessTypes, NEW p \in Procs, proc[p].pc \in Removing
  PROVE  ProcessShape(After(p))
<1>1. ProcessShape(proc[p]) /\ proc[p] \in Processes
  BY ShapeOf
<1>2. ProcessShape(Passed(p))
  BY <1>1 DEF Passed, ProcessShape, Processes, Pcs, Driving, Asking, Holding, Visiting, Cleanings, Removing, Denying
<1> QED
  BY <1>2, IdleShape DEF After

LEMMA AtRow ==
  ASSUME ProcessTypes, NEW p \in Procs, proc[p].pc \in Removing
  PROVE  proc[p].at \in Urls /\ proc[p].mem[proc[p].at] \in Rows /\ proc[p].at \in DOMAIN proc[p].mem
<1>1. proc[p].mem \in Copies(Rows) /\ proc[p].at \in DOMAIN proc[p].mem
  BY ShapeOf DEF ProcessShape, Processes
<1> QED
  BY <1>1, CopyGet

LEMMA GoneTyped ==
  ASSUME Types, NEW p \in Procs, Gone(p)
  PROVE  ProcessTypes' /\ StoreTypes' /\ CaTypes' /\ DnsTypes'
<1> DEFINE a == proc[p].at
           m == [proc[p].mem[a] EXCEPT !.presented = FALSE]
<1>1. CaTypes' /\ DnsTypes' /\ order' = order
  BY DEF Types, Gone, zone, CaTypes, DnsTypes
<1>2. proc[p].pc \in Removing /\ Step(p, After(p))
  BY DEF Gone, Removing
<1>3. a \in Urls /\ m \in Rows
  BY <1>2, AtRow, RowSet DEF Types
<1>4. rows' = rows \/ PutAuthorization(a, m) \/ DeleteAuthorization(a)
  BY DEF Gone
<1> HIDE DEF m, a
<1>5. rows' \in [Urls -> Rows]
  BY <1>3, <1>4, PutTyped, StampTyped DEF Types, StoreTypes
<1> QED
  BY <1>1, <1>2, <1>5, AfterShape, StepShape DEF Types, StoreTypes

LEMMA KeptTyped ==
  ASSUME Types, NEW p \in Procs, Kept(p)
  PROVE  ProcessTypes' /\ StoreTypes' /\ CaTypes' /\ DnsTypes'
<1>1. CaTypes' /\ DnsTypes' /\ order' = order
  BY DEF Types, Kept, zone, CaTypes, DnsTypes
<1>2. proc[p].pc \in Removing /\ Step(p, After(p))
  BY DEF Kept, Removing
<1>3. proc[p].at \in Urls
  BY <1>2, AtRow DEF Types
<1>4. rows' = rows \/ MarkTXTReclaimStuck(proc[p].at)
  BY DEF Kept, Keeps
<1>5. rows' \in [Urls -> Rows]
  BY <1>3, <1>4, StampTyped DEF Types, StoreTypes
<1> QED
  BY <1>1, <1>2, <1>5, AfterShape, StepShape DEF Types, StoreTypes

LEMMA CleanedAllTyped ==
  ASSUME Types, NEW p \in Procs, CleanedAll(p)
  PROVE  ProcessTypes' /\ StoreTypes' /\ CaTypes' /\ DnsTypes'
<1>1. CaTypes' /\ DnsTypes' /\ rows' = rows
  BY DEF Types, CleanedAll, zone, CaTypes, DnsTypes
<1>2. order' = order \/ order' = [order EXCEPT ![p] = {}]
  BY DEF CleanedAll
<1>3. Ends(p) \/ Step(p, [Idle EXCEPT !.pc = "order"]) \/ Step(p, [Idle EXCEPT !.pc = "recover", !.job = "epilogue"])
  BY DEF CleanedAll
<1>4. ProcessShape([Idle EXCEPT !.pc = "order"]) /\ ProcessShape([Idle EXCEPT !.pc = "recover", !.job = "epilogue"])
  BY BlankAt DEF Jobs
<1>5. StoreTypes'
  BY <1>1, <1>2 DEF StoreTypes, Types
<1> QED
  BY <1>1, <1>3, <1>4, <1>5, EndShape, StepShape DEF Types

LEMMA CleaningTyped ==
  ASSUME Types, NEW p \in Procs, Cleaning(p)
  PROVE  Types'
<1>1. SettingTypes'
  BY CleaningBudget DEF Types
<1>2. ProcessTypes' /\ StoreTypes' /\ CaTypes' /\ DnsTypes'
  BY RecoversTyped, RegistersTyped, ListsTyped, TakesTyped, LooksTyped, DropsTyped, ClaimsTyped, ReleasesTyped,
     CleanUpTyped, LooksAgainTyped, GoneTyped, KeptTyped, CleanedAllTyped DEF Cleaning
<1> QED
  BY <1>1, <1>2 DEF Types


(* A step keeps the types: the rest *)

LEMMA BeginsSweepTyped ==
  ASSUME Types, BeginsSweep
  PROVE  ProcessTypes' /\ StoreTypes' /\ CaTypes' /\ DnsTypes'
<1>1. StoreTypes' /\ CaTypes' /\ DnsTypes'
  BY DEF Types, BeginsSweep, zone, StoreTypes, CaTypes, DnsTypes
<1>2. ProcessShape([Idle EXCEPT !.pc = "recover", !.job = "sweep"])
  BY BlankAt DEF Jobs
<1> QED
  BY <1>1, <1>2, StepShape, CertsAreProcs DEF BeginsSweep, Types

LEMMA LandsTyped ==
  ASSUME Types, Lands
  PROVE  ProcessTypes' /\ StoreTypes' /\ CaTypes' /\ DnsTypes'
<1>1. ProcessTypes' /\ StoreTypes' /\ CaTypes'
  BY DEF Types, Lands, ProcessTypes, StoreTypes, CaTypes
<1>2. /\ late' = NoCall /\ leases' = leases
      /\ \/ dns' = dns
         \/ late.op = "write" /\ dns' = dns \cup {late.val}
         \/ late.op = "delete" /\ dns' = DeleteLeaves(late.val)
  BY DEF Lands, Writes, Deletes
<1> QED
  BY <1>1, <1>2 DEF DnsTypes, Types, NoCall, DeleteLeaves

LEMMA CrashTyped ==
  ASSUME Types, Crash
  PROVE  ProcessTypes' /\ StoreTypes' /\ CaTypes' /\ DnsTypes'
<1>1. StoreTypes' /\ CaTypes'
  BY DEF Types, Crash, StoreTypes, CaTypes
<1>2. /\ late' = NoCall /\ leases' = {}
      /\ \/ dns' = dns
         \/ late.op = "write" /\ dns' = dns \cup {late.val}
         \/ late.op = "delete" /\ dns' = DeleteLeaves(late.val)
  BY DEF Crash
<1>3. DnsTypes'
  BY <1>2 DEF DnsTypes, Types, NoCall, DeleteLeaves
<1>4. ProcessTypes'
  <2>1. proc' = [p \in Procs |-> Idle] /\ Idle \in Processes
    BY IdleShape DEF Crash, ProcessShape
  <2> QED
    BY <2>1, IdleShape DEF ProcessTypes
<1> QED
  BY <1>1, <1>3, <1>4

LEMMA AgedShape ==
  ASSUME NEW r, ProcessShape(r), NEW a \in DOMAIN r.mem
  PROVE  ProcessShape([r EXCEPT !.mem[a].age = "old"])
<1> DEFINE m == [r.mem[a] EXCEPT !.age = "old"]
           mem == [r.mem EXCEPT ![a] = m]
           q == [r EXCEPT !.mem[a].age = "old"]
<1>1. r \in Processes /\ r.mem \in Copies(Rows)
  BY DEF ProcessShape, Processes
<1>2. r.mem[a] \in Rows
  BY <1>1, CopyGet
<1>3. m \in Rows /\ m.presented = r.mem[a].presented /\ m.tok = r.mem[a].tok
  BY <1>2 DEF Rows
<1> HIDE DEF m
<1>4. mem \in Copies(Rows) /\ DOMAIN mem = DOMAIN r.mem /\ mem[a] = m /\ \A b \in DOMAIN r.mem : b # a => mem[b] = r.mem[b]
  BY <1>1, <1>3, CopySet
<1>5. q = [r EXCEPT !.mem = mem]
  BY DEF mem, m
<1> HIDE DEF mem, q
<1>6. /\ q \in Processes /\ q.mem = mem /\ q.pc = r.pc /\ q.todo = r.todo /\ q.pend = r.pend
      /\ q.resumed = r.resumed /\ q.cur = r.cur /\ q.at = r.at
  BY <1>1, <1>4, <1>5 DEF Processes
<1>7. r.pc # "idle"
  BY EmptyCopy DEF ProcessShape, Idle
<1>8. ProcessShape(q)
  BY <1>3, <1>4, <1>6, <1>7 DEF ProcessShape, Driving, Asking, Holding, Visiting, Cleanings, Removing, Denying
<1> QED
  BY <1>8 DEF q

LEMMA GrowsOldTyped ==
  ASSUME Types, NEW a \in Urls, GrowsOld(a)
  PROVE  ProcessTypes' /\ StoreTypes' /\ CaTypes' /\ DnsTypes'
<1>1. CaTypes' /\ DnsTypes' /\ order' = order
  BY DEF Types, GrowsOld, zone, CaTypes, DnsTypes
<1>2. [rows[a] EXCEPT !.age = "old"] \in Rows
  <2>1. rows[a] \in Rows
    BY DEF Types, StoreTypes
  <2> QED
    BY <2>1 DEF Rows
<1>3. StoreTypes'
  BY <1>1, <1>2 DEF GrowsOld, Types, StoreTypes
<1> DEFINE aged(p) == IF a \in DOMAIN proc[p].mem /\ proc[p].mem[a].age = "young"
                      THEN [proc[p] EXCEPT !.mem[a].age = "old"] ELSE proc[p]
<1>4. ASSUME NEW p \in Procs PROVE ProcessShape(aged(p))
  BY AgedShape, ShapeOf DEF Types
<1>5. proc' = [p \in Procs |-> aged(p)]
  BY DEF GrowsOld
<1> HIDE DEF aged
<1>6. \A p \in Procs : aged(p) \in Processes
  BY <1>4 DEF ProcessShape
<1>7. ProcessTypes'
  BY <1>4, <1>5, <1>6 DEF ProcessTypes
<1> QED
  BY <1>1, <1>3, <1>7

LEMMA CaTyped ==
  ASSUME Types, NEW a \in Urls, Validates(a) \/ Closes(a) \/ Rechallenges(a)
  PROVE  ProcessTypes' /\ StoreTypes' /\ CaTypes' /\ DnsTypes'
<1>1. ProcessTypes' /\ StoreTypes' /\ DnsTypes'
  BY DEF Types, Validates, Closes, Rechallenges, zone, ProcessTypes, StoreTypes, DnsTypes
<1>2. ca[a] \in Authzs /\ ca \in [Urls -> Authzs]
  BY DEF Types, CaTypes
<1>3. CASE Validates(a)
  <2>1. PICK s \in Statuses : ca' = [ca EXCEPT ![a].status = s]
    BY <1>3 DEF Validates, Statuses
  <2> QED
    BY <1>1, <1>2, <2>1 DEF CaTypes, Authzs
<1>4. CASE Closes(a)
  <2>1. PICK s \in Statuses : ca' = [ca EXCEPT ![a].status = s]
    BY <1>4 DEF Closes, Statuses
  <2> QED
    BY <1>1, <1>2, <2>1 DEF CaTypes, Authzs
<1>5. CASE Rechallenges(a)
  <2>1. ca[a].tok + 1 \in Tokens
    BY <1>2, <1>5, BoundsAssumption DEF Rechallenges, Authzs, Tokens
  <2> QED
    BY <1>1, <1>2, <1>5, <2>1 DEF Rechallenges, CaTypes, Authzs
<1> QED
  BY <1>3, <1>4, <1>5

LEMMA TypesKept == ASSUME Types, [Next]_vars PROVE Types'
<1>1. CASE UNCHANGED vars
  BY <1>1 DEF vars, Types, StoreTypes, CaTypes, DnsTypes, ProcessTypes, SettingTypes
<1>2. CASE Next
  <2>1. ASSUME NEW c \in Certs, Pass(c) PROVE Types'
    BY <2>1, PassTyped
  <2>2. ASSUME NEW p \in Procs, Cleaning(p) PROVE Types'
    BY <2>2, CleaningTyped
  <2>3. CASE BeginsSweep \/ Lands \/ Crash
    BY <2>3, BeginsSweepTyped, LandsTyped, CrashTyped, OtherBudget DEF Types
  <2>4. ASSUME NEW a \in Urls, GrowsOld(a) \/ Validates(a) \/ Closes(a) \/ Rechallenges(a) PROVE Types'
    BY <2>4, GrowsOldTyped, CaTyped, OtherBudget DEF Types
  <2> QED
    BY <1>2, <2>1, <2>2, <2>3, <2>4 DEF Next
<1> QED
  BY <1>1, <1>2

LEMMA TypesInit == ASSUME Init PROVE Types
<1>1. ProcessTypes
  <2>1. Idle \in Processes
    BY IdleShape DEF ProcessShape
  <2> QED
    BY <2>1, IdleShape DEF Init, ProcessTypes
<1>2. SettingTypes
  BY SettingsAssumption DEF Init, SettingTypes
<1>3. 1 \in Tokens /\ MaxToken \in Tokens
  BY BoundsAssumption DEF Tokens
<1>4. NewAuthz \in Authzs
  BY <1>3 DEF NewAuthz, Authzs, Statuses
<1>5. ASSUME Fresh PROVE StoreTypes /\ CaTypes /\ dns \subseteq Values
  BY <1>4, <1>5, NoRowTyped DEF Fresh, StoreTypes, CaTypes
<1>6. ASSUME NEW a \in Urls, Inherits(a)
      PROVE  StoreTypes /\ CaTypes /\ dns \subseteq Values
  <2>1. [NewRow EXCEPT !.tok = MaxToken, !.val = 1, !.presented = TRUE, !.age = "old"] \in Rows
    <3>1. NewRow \in Rows /\ MaxToken # NoTok /\ 1 # NoTok
      BY NoRowTyped, BoundsAssumption DEF NoTok
    <3> QED
      BY <1>3, <3>1 DEF Rows
  <2>2. [status |-> "pending", tok |-> MaxToken, asked |-> FALSE] \in Authzs
    BY <1>3 DEF Authzs, Statuses
  <2>3. rows \in [Urls -> Rows]
    BY <1>6, <2>1, NoRowTyped DEF Inherits
  <2>4. ca \in [Urls -> Authzs]
    BY <1>4, <1>6, <2>2 DEF Inherits
  <2>5. dns \subseteq Values
    BY <1>3, <1>6 DEF Inherits, ValueOf, Values
  <2>6. order \in [Certs -> SUBSET Urls] /\ \A c \in Certs : \A b \in order[c] : CertOf[b] = c
    BY <1>6, CertOfAssumption DEF Inherits
  <2> QED
    BY <2>3, <2>4, <2>5, <2>6 DEF StoreTypes, CaTypes
<1>7. DnsTypes
  <2>1. dns \subseteq Values /\ leases = {} /\ late = NoCall
    BY <1>5, <1>6 DEF Init
  <2> QED
    BY <2>1 DEF DnsTypes, NoCall
<1>8. StoreTypes /\ CaTypes
  BY <1>5, <1>6 DEF Init
<1> QED
  BY <1>1, <1>2, <1>7, <1>8 DEF Types


(* What the name servers' answers prove *)

\* A record that is not there is nowhere heard of.
LEMMA NeverHeard == "has" \notin Heard["nowhere"]
<1> DEFINE can == Transport \ {"has"}
<1>1. Heard["nowhere"] = {probeTXT(exchangeDNS(u, t), exchangeDNS(u2, t2)) : u, t, u2, t2 \in can}
  BY DEF Heard
<1>2. ASSUME NEW u \in can, NEW t \in can PROVE exchangeDNS(u, t) \in can
  BY DEF exchangeDNS
<1>3. ASSUME NEW x \in can, NEW y \in can PROVE probeTXT(x, y) \in can
  BY DEF probeTXT
<1> QED
  BY <1>1, <1>2, <1>3

\* Unless every server and resolver is silent, the wait does not end while one of its
\* records is up nowhere: whoever answers denies, and one denial holds the round back
\* (probeReadyWithDelegation, recursiveReady; waitZone).
LEMMA NowhereIsNeverConfirmed ==
  ASSUME NEW T \in Confirmable[FALSE]
  PROVE  "nowhere" \notin T
<1> SUFFICES ASSUME "nowhere" \in T PROVE FALSE
  OBVIOUS
<1> DEFINE n == "nowhere"
<1>1. PICK up \in SUBSET NameServers :
       \E auth \in [T -> [Delegation(up).servers -> Transport]], rec \in [T -> [{"resolver"} -> Transport]] :
            /\ \A t \in T : /\ \A s \in Delegation(up).servers : auth[t][s] \in Heard[t]
                           /\ rec[t]["resolver"] \in Heard[t]
                           /\ \/ rec[t]["resolver"] \in {"has", "denies"}
                              \/ \E s \in Delegation(up).servers : auth[t][s] \in {"has", "denies"}
            /\ waitZone(Delegation(up).servers, Delegation(up).delegated, T, auth, rec)
  BY DEF Confirmable
<1> DEFINE S == Delegation(up).servers
<1>2. PICK auth \in [T -> [S -> Transport]], rec \in [T -> [{"resolver"} -> Transport]] :
            /\ \A s \in S : auth[n][s] \in Heard[n]
            /\ rec[n]["resolver"] \in Heard[n]
            /\ \/ rec[n]["resolver"] \in {"has", "denies"}
               \/ \E s \in S : auth[n][s] \in {"has", "denies"}
            /\ waitZone(S, Delegation(up).delegated, T, auth, rec)
  BY <1>1
<1> HIDE DEF S
<1>3. recursiveReady(rec[n])
  BY <1>2 DEF waitZone
<1>4. rec[n]["resolver"] # "denies"
  BY <1>2, <1>3 DEF recursiveReady, probeRecursive
<1>5. PICK s \in S : auth[n][s] = "denies"
  BY <1>2, <1>4, NeverHeard
<1>6. ~probeReadyWithDelegation(S, Delegation(up).delegated, auth[n])
  BY <1>5 DEF probeReadyWithDelegation
<1>7. allUnreachable(S, {auth[r] : r \in T})
  BY <1>2, <1>6 DEF waitZone
<1>8. auth[n][s] = "silent"
  BY <1>7 DEF allUnreachable
<1> QED
  BY <1>5, <1>8


(* The shape of a certificate's process *)

Grows(cas1, cas2) ==
    \A a \in Urls : /\ cas1[a].status # "none" => cas2[a].status # "none"
                    /\ cas1[a].status \in Final => cas2[a].status = cas1[a].status

LEMMA StepAt ==
  ASSUME ProcessTypes, NEW p \in Procs, NEW r, Step(p, r)
  PROVE  proc'[p] = r /\ \A q \in Procs : q # p => proc'[q] = proc[q]
BY DEF ProcessTypes, Step

LEMMA CopiedUrls ==
  ASSUME NEW r \in Processes
  PROVE  DOMAIN r.mem \subseteq Urls /\ DOMAIN r.cur \subseteq Urls
BY CopiesOf DEF Processes

LEMMA KnownKept ==
  ASSUME NEW r \in Processes, NEW cas1, NEW cas2, Grows(cas1, cas2), Known(r, cas1)
  PROVE  Known(r, cas2)
BY CopiedUrls DEF Known, Grows, Final

LEMMA CertKept ==
  ASSUME NEW c, NEW r \in Processes, NEW us \in SUBSET Urls, NEW cas1, NEW cas2, Grows(cas1, cas2),
         CertShape(c, r, us, cas1)
  PROVE  CertShape(c, r, us, cas2)
<1>1. Known(r, cas2) /\ \A a \in DOMAIN r.mem : CertOf[a] = c
  BY KnownKept DEF CertShape
<1>2. \A b \in us : /\ cas1[b].status = "valid" => cas2[b].status = "valid"
                    /\ cas1[b].status \in Broken => cas2[b].status \in Broken
  BY DEF Grows, Final, Broken
<1>3. JobOf(r, us, cas2)
  BY <1>2 DEF CertShape, JobOf, LostIn
<1>4. PassOf(r, us, cas2)
  BY <1>2 DEF CertShape, PassOf
<1> QED
  BY <1>1, <1>3, <1>4 DEF CertShape

\* What a process is besides the contents of its rows.
SameCourse(q, r) ==
    /\ q.pc = r.pc /\ q.job = r.job /\ q.todo = r.todo /\ q.at = r.at /\ DOMAIN q.mem = DOMAIN r.mem
    /\ q.cur = r.cur /\ q.pend = r.pend /\ q.bad = r.bad
LEMMA CertSame ==
  ASSUME NEW c, NEW r, NEW q, NEW us, NEW cas, SameCourse(q, r), CertShape(c, r, us, cas)
  PROVE  CertShape(c, q, us, cas)
BY DEF SameCourse, CertShape, Known, JobOf, PassOf

\* One that has nothing in hand.
LEMMA BlankCert ==
  ASSUME NEW c, NEW q, NEW us, NEW cas, q.mem = <<>>, q.cur = <<>>, ~q.bad,
         q.pc \in {"idle", "load", "order", "recover"}, JobOf(q, us, cas)
  PROVE  CertShape(c, q, us, cas)
BY EmptyCopy DEF CertShape, Known, PassOf, Driving, Visiting, Holding, Asking

LEMMA IdleCert == ASSUME NEW c, NEW us, NEW cas PROVE CertShape(c, Idle, us, cas)
<1>1. Idle.mem = <<>> /\ Idle.cur = <<>> /\ ~Idle.bad /\ Idle.pc = "idle" /\ Idle.job = "none"
  BY DEF Idle
<1>2. JobOf(Idle, us, cas)
  BY <1>1 DEF JobOf, Cleanings, Removing, Denying
<1> QED
  BY <1>1, <1>2, BlankCert

LEMMA StartCert ==
  ASSUME NEW c, NEW us, NEW cas, NEW pc \in {"load", "order"}, pc = "order" => us = {}
  PROVE  CertShape(c, [Idle EXCEPT !.pc = pc], us, cas)
<1> DEFINE q == [Idle EXCEPT !.pc = pc]
<1>1. q.mem = <<>> /\ q.cur = <<>> /\ ~q.bad /\ q.pc = pc /\ q.job = "none"
  BY DEF Idle
<1> HIDE DEF q
<1>2. JobOf(q, us, cas)
  BY <1>1 DEF JobOf, Cleanings, Removing, Denying
<1>3. CertShape(c, q, us, cas)
  BY <1>1, <1>2, BlankCert
<1> QED
  BY <1>3 DEF q

LEMMA CleanerCert ==
  ASSUME NEW c, NEW us, NEW cas, NEW job \in {"discard", "replace", "orphan", "epilogue"},
         job = "discard" => LostIn(us, cas), job = "orphan" => us = {},
         job = "epilogue" => \A b \in us : cas[b].status = "valid"
  PROVE  CertShape(c, [Idle EXCEPT !.pc = "recover", !.job = job], us, cas)
<1> DEFINE q == [Idle EXCEPT !.pc = "recover", !.job = job]
<1>1. q.mem = <<>> /\ q.cur = <<>> /\ ~q.bad /\ q.pc = "recover" /\ q.job = job
  BY DEF Idle
<1> HIDE DEF q
<1>2. JobOf(q, us, cas)
  BY <1>1 DEF JobOf, Cleanings, Removing, Denying
<1>3. CertShape(c, q, us, cas)
  BY <1>1, <1>2, BlankCert
<1> QED
  BY <1>3 DEF q

LEMMA DiscardsCert ==
  ASSUME NEW c, NEW us, NEW cas, LostIn(us, cas)
  PROVE  CertShape(c, Discards, us, cas)
BY CleanerCert DEF Discards

LEMMA CleansUpCert ==
  ASSUME NEW c, NEW us, NEW cas, NEW r, NEW them, \A a \in DOMAIN r.mem : CertOf[a] = c,
         Known(r, cas), \A b \in us : cas[b].status = "valid"
  PROVE  CertShape(c, CleansUp(r, them), us, cas)
<1> DEFINE q == CleansUp(r, them)
<1>1. q.mem = r.mem /\ q.cur = <<>> /\ ~q.bad /\ q.pc = "recover" /\ q.job = "cleanup"
  BY DEF Idle, CleansUp
<1> HIDE DEF q
<1>2. JobOf(q, us, cas)
  BY <1>1 DEF JobOf, Cleanings, Removing, Denying
<1>3. CertShape(c, q, us, cas)
  BY <1>1, <1>2, EmptyCopy DEF CertShape, Known, PassOf, Driving, Visiting, Holding, Asking
<1> QED
  BY <1>3 DEF q


\* A visit of the row at hand ends: everything else of the order is dealt with already.
LEMMA VisitedCert ==
  ASSUME NEW c, NEW r, ProcessShape(r), NEW us, NEW cas, r.pc \in Driving, r.job = "none",
         \A a \in DOMAIN r.mem : CertOf[a] = c, Known(r, cas), DOMAIN r.mem = us,
         r.bad => LostIn(us, cas), \A a \in r.pend : r.cur[a].status = "pending",
         \A b \in us : b \in (r.todo \ {r.at}) \cup r.pend \/ cas[b].status = "valid" \/ r.bad
  PROVE  CertShape(c, Visited(r), us, cas)
<1> DEFINE q == [r EXCEPT !.pc = "visit", !.todo = @ \ {r.at}, !.at = <<>>]
           l == [q EXCEPT !.pc = "lease", !.regs = {ValueOf(a, q.mem[a].val) : a \in q.pend}]
<1>1. r \in Processes
  BY DEF ProcessShape
<1>2. /\ q.pc = "visit" /\ q.job = "none" /\ q.todo = r.todo \ {r.at} /\ q.pend = r.pend
      /\ q.mem = r.mem /\ q.cur = r.cur /\ q.bad = r.bad
  BY <1>1 DEF Processes
<1>3. l.pc = "lease" /\ l.job = "none" /\ l.pend = q.pend /\ l.mem = q.mem /\ l.cur = q.cur /\ l.bad = q.bad /\ l.todo = q.todo
  BY <1>1 DEF Processes
<1>4. Visited(r) = IF q.todo # {} THEN q ELSE IF q.bad THEN Discards
                   ELSE IF q.pend = {} THEN CleansUp(q, DOMAIN q.mem) ELSE l
  BY DEF Visited
<1> HIDE DEF q, l
<1>5. ASSUME NEW k \in {q, l} PROVE Known(k, cas) /\ \A a \in DOMAIN k.mem : CertOf[a] = c
  BY <1>2, <1>3 DEF Known
<1>6. CertShape(c, q, us, cas)
  <2>1. JobOf(q, us, cas)
    BY <1>2 DEF JobOf, Cleanings, Removing, Denying
  <2>2. PassOf(q, us, cas)
    BY <1>2 DEF PassOf, Driving, Visiting, Holding, Asking
  <2> QED
    BY <1>5, <2>1, <2>2 DEF CertShape
<1>7. CASE q.todo = {} /\ q.bad
  <2>1. LostIn(us, cas)
    BY <1>2, <1>7
  <2> QED
    BY <1>4, <1>7, <2>1, DiscardsCert
<1>8. CASE q.todo = {} /\ ~q.bad /\ q.pend = {}
  <2>1. \A b \in us : cas[b].status = "valid"
    BY <1>2, <1>8
  <2>2. Visited(r) = CleansUp(q, DOMAIN q.mem)
    BY <1>4, <1>8
  <2> QED
    BY <1>5, <2>1, <2>2, CleansUpCert
<1>9. CASE q.todo = {} /\ ~q.bad /\ q.pend # {}
  <2>1. JobOf(l, us, cas)
    BY <1>2, <1>3, <1>9 DEF JobOf, Cleanings, Removing, Denying
  <2>2. PassOf(l, us, cas)
    BY <1>2, <1>3, <1>9 DEF PassOf, Driving, Visiting, Holding, Asking
  <2>3. CertShape(c, l, us, cas)
    BY <1>5, <2>1, <2>2 DEF CertShape
  <2> QED
    BY <1>4, <1>9, <2>3
<1> QED
  BY <1>4, <1>6, <1>7, <1>8, <1>9


LEMMA MyShape ==
  ASSUME Types, Shapes, NEW c \in Certs
  PROVE  /\ ProcessShape(proc[c]) /\ proc[c] \in Processes /\ CertShape(c, proc[c], order[c], ca)
         /\ order[c] \in SUBSET Urls /\ c \in Procs /\ (\A a \in order[c] : CertOf[a] = c /\ ca[a].status # "none")
         /\ DOMAIN proc[c].mem \subseteq Urls /\ DOMAIN proc[c].cur \subseteq Urls
BY CertsAreProcs, ShapeOf, CopiedUrls DEF Types, Shapes, StoreTypes, HandedOut

LEMMA BeginCert ==
  ASSUME Types, Shapes, NEW c \in Certs, Begin(c)
  PROVE  CertShape(c, proc'[c], order'[c], ca') /\ (proc'[c].job = "replace" => "drop" \in setting.faults)
<1>1. proc[c] = Idle
  BY CertsAreProcs, ShapeOf DEF Begin, ProcessShape, Types
<1>2. order' = order /\ ca' = ca
  BY DEF Begin
<1>3. CASE GoTo(c, "load")
  <2>1. proc'[c] = [Idle EXCEPT !.pc = "load"]
    BY <1>1, <1>3, StepAt, CertsAreProcs DEF GoTo, Types
  <2>2. CertShape(c, [Idle EXCEPT !.pc = "load"], order[c], ca)
    BY StartCert
  <2> QED
    BY <1>2, <2>1, <2>2 DEF Idle
<1>4. CASE Step(c, [Discards EXCEPT !.job = "replace"]) /\ Mishap("drop")
  <2>1. proc'[c] = [Discards EXCEPT !.job = "replace"]
    BY <1>4, StepAt, CertsAreProcs DEF Types
  <2>2. [Discards EXCEPT !.job = "replace"] = [Idle EXCEPT !.pc = "recover", !.job = "replace"]
    BY DEF Discards, Idle
  <2>3. CertShape(c, [Idle EXCEPT !.pc = "recover", !.job = "replace"], order[c], ca)
    BY CleanerCert
  <2> QED
    BY <1>2, <1>4, <2>1, <2>2, <2>3 DEF Mishap
<1>5. CASE Step(c, [Idle EXCEPT !.pc = "recover", !.job = "orphan"]) /\ order[c] = {}
  <2>1. proc'[c] = [Idle EXCEPT !.pc = "recover", !.job = "orphan"]
    BY <1>5, StepAt, CertsAreProcs DEF Types
  <2>2. CertShape(c, [Idle EXCEPT !.pc = "recover", !.job = "orphan"], order[c], ca)
    BY <1>5, CleanerCert
  <2> QED
    BY <1>2, <2>1, <2>2 DEF Idle
<1> QED
  BY <1>3, <1>4, <1>5 DEF Begin

\* The CA hands out what it has not handed out, and nothing it has decided changes.
LEMMA NewOrderGrows ==
  ASSUME Types, NEW c \in Certs, NewOrder(c)
  PROVE  /\ Grows(ca, ca') /\ \A d \in Certs : d # c => order'[d] = order[d]
         /\ \/ Ends(c) /\ UNCHANGED <<order, ca>>
            \/ GoTo(c, "load") /\ \A a \in order'[c] : ca'[a].status # "none"
<1> DEFINE mine == {a \in Urls : CertOf[a] = c}
           fresh == {a \in mine : ca[a].status = "none"}
           valid == {a \in mine : ca[a].status = "valid"}
<1>1. CASE Ends(c) /\ UNCHANGED <<order, ca>>
  BY <1>1 DEF Grows
<1>2. CASE \E us \in SUBSET (fresh \cup valid) :
             /\ order' = [order EXCEPT ![c] = us]
             /\ ca' = [a \in Urls |-> IF a \in us \cap fresh
                                        THEN [NewAuthz EXCEPT !.status = "pending"] ELSE ca[a]]
             /\ GoTo(c, "load")
  <2>1. PICK us \in SUBSET (fresh \cup valid) :
             /\ order' = [order EXCEPT ![c] = us]
             /\ ca' = [a \in Urls |-> IF a \in us \cap fresh
                                        THEN [NewAuthz EXCEPT !.status = "pending"] ELSE ca[a]]
             /\ GoTo(c, "load")
    BY <1>2
  <2>2. [NewAuthz EXCEPT !.status = "pending"].status = "pending"
    BY DEF NewAuthz
  <2>3. Grows(ca, ca')
    BY <2>1, <2>2 DEF Grows, Final
  <2>4. order'[c] = us /\ \A d \in Certs : d # c => order'[d] = order[d]
    BY <2>1 DEF Types, StoreTypes
  <2>5. \A a \in us : ca'[a].status # "none"
    BY <2>1, <2>2
  <2> QED
    BY <2>1, <2>3, <2>4, <2>5
<1> QED
  BY <1>1, <1>2 DEF NewOrder

LEMMA NewOrderCert ==
  ASSUME Types, Shapes, NEW c \in Certs, NewOrder(c)
  PROVE  CertShape(c, proc'[c], order'[c], ca') /\ proc'[c].job = "none"
<1>1. CASE Ends(c)
  <2>1. proc'[c] = Idle
    BY <1>1, StepAt, CertsAreProcs DEF Ends, Types
  <2> QED
    BY <2>1, IdleCert DEF Idle
<1>2. CASE GoTo(c, "load")
  <2> DEFINE q == [proc[c] EXCEPT !.pc = "load"]
  <2>1. proc'[c] = q
    BY <1>2, StepAt, CertsAreProcs DEF GoTo, Types
  <2>2. proc[c].pc = "order" /\ CertShape(c, proc[c], order[c], ca) /\ proc[c] \in Processes
    BY MyShape DEF NewOrder
  <2>3. /\ q.pc = "load" /\ q.job = proc[c].job /\ q.mem = proc[c].mem /\ q.cur = proc[c].cur /\ q.bad = proc[c].bad
        /\ q \in Processes
    BY <2>2 DEF Processes, Pcs
  <2>4. Known(proc[c], ca')
    BY <2>2, NewOrderGrows, KnownKept DEF CertShape
  <2> HIDE DEF q
  <2>5. proc[c].job = "none" /\ ~proc[c].bad
    BY <2>2 DEF CertShape, JobOf, PassOf, Cleanings, Removing, Denying, Driving, Visiting
  <2>6. JobOf(q, order'[c], ca')
    BY <2>3, <2>5 DEF JobOf, Cleanings, Removing, Denying
  <2>7. PassOf(q, order'[c], ca')
    BY <2>3, <2>5 DEF PassOf, Driving, Visiting, Holding, Asking
  <2>8. CertShape(c, q, order'[c], ca')
    BY <2>2, <2>3, <2>4, <2>6, <2>7 DEF CertShape, Known
  <2> QED
    BY <2>1, <2>3, <2>5, <2>8
<1> QED
  BY <1>1, <1>2, NewOrderGrows


LEMMA EndCert ==
  ASSUME Types, NEW c \in Certs, Ends(c), NEW us, NEW cas
  PROVE  CertShape(c, proc'[c], us, cas) /\ proc'[c].job = "none"
<1>1. proc'[c] = Idle
  BY StepAt, CertsAreProcs DEF Ends, Types
<1> QED
  BY <1>1, IdleCert DEF Idle

LEMMA loadAuthorizationsCert ==
  ASSUME Types, Shapes, NEW c \in Certs, loadAuthorizations(c)
  PROVE  CertShape(c, proc'[c], order'[c], ca') /\ proc'[c].job = "none"
<1> DEFINE m == [a \in order[c] |-> rows'[a]]
           q == [Idle EXCEPT !.pc = "fetch", !.mem = m]
<1>1. order' = order /\ ca' = ca /\ (Ends(c) \/ Step(c, q))
  BY DEF loadAuthorizations
<1>2. DOMAIN m = order[c]
  OBVIOUS
<1> HIDE DEF m
<1>3. /\ q.pc = "fetch" /\ q.job = "none" /\ q.mem = m /\ q.cur = <<>> /\ ~q.bad /\ q.pend = {}
  BY DEF Idle
<1> HIDE DEF q
<1>4. (\A a \in DOMAIN q.mem : CertOf[a] = c) /\ Known(q, ca)
  BY <1>2, <1>3, MyShape, EmptyCopy DEF Known
<1>5. JobOf(q, order[c], ca)
  BY <1>3 DEF JobOf, Cleanings, Removing, Denying
<1>6. PassOf(q, order[c], ca)
  BY <1>2, <1>3 DEF PassOf, Driving, Visiting, Holding, Asking
<1>7. CertShape(c, q, order[c], ca)
  BY <1>4, <1>5, <1>6 DEF CertShape
<1> QED
  BY <1>1, <1>3, <1>7, EndCert, StepAt, CertsAreProcs DEF Types

LEMMA fetchAuthzsCert ==
  ASSUME Types, Shapes, NEW c \in Certs, fetchAuthzs(c)
  PROVE  CertShape(c, proc'[c], order'[c], ca') /\ proc'[c].job = "none"
<1> DEFINE r == proc[c]
           answers == [a \in DOMAIN r.mem |-> ca[a]]
           q == [r EXCEPT !.pc = "visit", !.todo = DOMAIN r.mem, !.cur = answers]
<1>1. order' = order /\ ca' = ca /\ r.pc = "fetch" /\ (Ends(c) \/ Step(c, q))
  BY DEF fetchAuthzs
<1>2. DOMAIN answers = DOMAIN r.mem /\ \A a \in DOMAIN r.mem : answers[a] = ca[a]
  OBVIOUS
<1> HIDE DEF answers
<1>3. r \in Processes /\ CertShape(c, r, order[c], ca)
  BY MyShape
<1>4. /\ q.pc = "visit" /\ q.job = r.job /\ q.mem = r.mem /\ q.cur = answers /\ q.bad = r.bad /\ q.pend = r.pend
      /\ q.todo = DOMAIN r.mem
  BY <1>3 DEF Processes
<1> HIDE DEF q
<1>5. r.job = "none" /\ ~r.bad /\ r.pend = {} /\ DOMAIN r.mem = order[c]
  BY <1>1, <1>3 DEF CertShape, JobOf, PassOf, Cleanings, Removing, Denying, Driving, Visiting, Holding, Asking
<1>6. (\A a \in DOMAIN q.mem : CertOf[a] = c) /\ Known(q, ca)
  BY <1>2, <1>3, <1>4 DEF CertShape, Known
<1>7. JobOf(q, order[c], ca)
  BY <1>4, <1>5 DEF JobOf, Cleanings, Removing, Denying
<1>8. PassOf(q, order[c], ca)
  BY <1>4, <1>5 DEF PassOf, Driving, Visiting, Holding, Asking
<1>9. CertShape(c, q, order[c], ca)
  BY <1>6, <1>7, <1>8 DEF CertShape
<1> QED
  BY <1>1, <1>4, <1>5, <1>9, EndCert, StepAt, CertsAreProcs DEF Types

\* A pass that visits.
LEMMA DriveShape ==
  ASSUME Types, Shapes, NEW c \in Certs, proc[c].pc \in Driving
  PROVE  LET r == proc[c] IN
         /\ ProcessShape(r) /\ r \in Processes /\ r.job = "none" /\ Known(r, ca)
         /\ (\A a \in DOMAIN r.mem : CertOf[a] = c) /\ DOMAIN r.mem = order[c] /\ DOMAIN r.cur = order[c]
         /\ (r.bad => LostIn(order[c], ca)) /\ (\A a \in r.pend : r.cur[a].status = "pending")
         /\ (\A b \in order[c] : b \in r.todo \cup r.pend \/ ca[b].status = "valid" \/ r.bad)
         /\ (\A a \in order[c] : r.cur[a].status \in Statuses)
         /\ r.todo \subseteq order[c]
<1> DEFINE r == proc[c]
<1>1. ProcessShape(r) /\ r \in Processes /\ CertShape(c, r, order[c], ca)
  BY MyShape
<1> HIDE DEF r
<1> USE DEF r
<1>2. r.job = "none" /\ (r.bad => LostIn(order[c], ca))
  BY <1>1 DEF CertShape, JobOf, Cleanings, Removing, Denying, Driving, Visiting
<1>3. /\ DOMAIN r.mem = order[c] /\ (\A a \in r.pend : r.cur[a].status = "pending")
      /\ (\A b \in order[c] : b \in r.todo \cup r.pend \/ ca[b].status = "valid" \/ r.bad)
  BY <1>1 DEF CertShape, PassOf
<1>4. DOMAIN r.cur = order[c] /\ r.todo \subseteq order[c]
  BY <1>1, <1>3 DEF ProcessShape
<1>5. ASSUME NEW a \in order[c] PROVE r.cur[a].status \in Statuses
  <2>1. r.cur[a] \in Authzs
    BY <1>1, <1>4, CopyGet DEF Processes
  <2> QED
    BY <2>1 DEF Authzs
<1> QED
  BY <1>1, <1>2, <1>3, <1>4, <1>5 DEF CertShape

LEMMA VisitedJob ==
  ASSUME NEW r \in Processes, r.job # "replace"
  PROVE  Visited(r).job # "replace" /\ Discards.job # "replace" /\ Idle.job # "replace"
<1> DEFINE q == [r EXCEPT !.pc = "visit", !.todo = @ \ {r.at}, !.at = <<>>]
           l == [q EXCEPT !.pc = "lease", !.regs = {ValueOf(a, q.mem[a].val) : a \in q.pend}]
<1>1. q.job = r.job /\ l.job = r.job /\ CleansUp(q, DOMAIN q.mem).job = "cleanup" /\ Discards.job = "discard"
  BY DEF CleansUp, Discards, Idle, Processes
<1>2. Visited(r) \in {q, l, Discards, CleansUp(q, DOMAIN q.mem)}
  BY DEF Visited
<1> HIDE DEF q, l
<1> QED
  BY <1>1, <1>2 DEF Idle

LEMMA VisitsClosedCert ==
  ASSUME Types, Shapes, NEW c \in Certs, NEW a \in Urls, VisitsClosed(c, a)
  PROVE  CertShape(c, proc'[c], order'[c], ca') /\ proc'[c].job # "replace"
<1> DEFINE p == proc[c]
           r == [p EXCEPT !.at = a]
           b == [r EXCEPT !.bad = TRUE]
           next == CASE p.cur[a].status = "valid" -> Visited(r)
                     [] p.cur[a].status = "invalid" -> Visited(b)
                     [] OTHER -> Discards
<1>1. order' = order /\ ca' = ca /\ p.pc = "visit" /\ a \in p.todo /\ p.cur[a].status # "pending"
  BY DEF VisitsClosed
<1>2. r.cur = p.cur
  BY MyShape DEF Processes
<1>3. Step(c, next) \/ Ends(c)
  BY <1>2 DEF VisitsClosed, Ends
<1>4. /\ ProcessShape(p) /\ p \in Processes /\ p.job = "none" /\ Known(p, ca)
      /\ (\A x \in DOMAIN p.mem : CertOf[x] = c) /\ DOMAIN p.mem = order[c] /\ DOMAIN p.cur = order[c]
      /\ (p.bad => LostIn(order[c], ca)) /\ (\A x \in p.pend : p.cur[x].status = "pending")
      /\ (\A x \in order[c] : x \in p.todo \cup p.pend \/ ca[x].status = "valid" \/ p.bad)
      /\ (\A x \in order[c] : p.cur[x].status \in Statuses)
      /\ a \in order[c]
  BY <1>1, DriveShape DEF Driving
<1>a. proc'[c] = next \/ Ends(c)
  BY <1>3, StepAt, CertsAreProcs DEF Types
<1> HIDE DEF p
<1>5. p.cur[a].status \in Final => ca[a].status = p.cur[a].status
  BY <1>4 DEF Known
<1>6. /\ r.pc = "visit" /\ r.job = "none" /\ r.at = a /\ r.mem = p.mem /\ r.cur = p.cur /\ r.pend = p.pend
      /\ r.todo = p.todo /\ r.bad = p.bad /\ r.resumed = p.resumed /\ r \in Processes
  BY <1>1, <1>4 DEF Processes
<1>7. /\ b.pc = "visit" /\ b.job = "none" /\ b.at = a /\ b.mem = p.mem /\ b.cur = p.cur /\ b.pend = p.pend
      /\ b.todo = p.todo /\ b.bad /\ b.resumed = p.resumed /\ b \in Processes
  BY <1>6 DEF Processes
<1> HIDE DEF r, b
<1>8. ProcessShape(r) /\ ProcessShape(b) /\ Known(r, ca) /\ Known(b, ca)
  BY <1>4, <1>6, <1>7 DEF Known, ProcessShape, Driving, Asking, Holding, Visiting, Cleanings, Removing, Denying
<1>9. CASE p.cur[a].status = "valid"
  <2>1. \A x \in order[c] : x \in (r.todo \ {r.at}) \cup r.pend \/ ca[x].status = "valid" \/ r.bad
    BY <1>4, <1>5, <1>6, <1>9 DEF Final
  <2>2. CertShape(c, Visited(r), order[c], ca)
    BY <1>4, <1>6, <1>8, <2>1, VisitedCert DEF Driving
  <2> QED
    BY <1>1, <1>6, <1>9, <1>a, <2>2, EndCert, VisitedJob
<1>10. CASE p.cur[a].status = "invalid"
  <2>1. LostIn(order[c], ca)
    BY <1>4, <1>5, <1>10 DEF Final, LostIn, Broken
  <2>2. CertShape(c, Visited(b), order[c], ca)
    BY <1>4, <1>7, <1>8, <2>1, VisitedCert DEF Driving
  <2> QED
    BY <1>1, <1>7, <1>10, <1>a, <2>2, EndCert, VisitedJob
<1>11. CASE p.cur[a].status \notin {"valid", "invalid"}
  <2>1. p.cur[a].status \in Statuses /\ p.cur[a].status # "none"
    BY <1>4 DEF Known
  <2>2. LostIn(order[c], ca)
    BY <1>1, <1>4, <1>5, <1>11, <2>1 DEF Statuses, Final, LostIn, Broken
  <2>3. CertShape(c, Discards, order[c], ca)
    BY <2>2, DiscardsCert
  <2> QED
    BY <1>1, <1>6, <1>11, <1>a, <2>3, EndCert, VisitedJob
<1> QED
  BY <1>9, <1>10, <1>11

LEMMA PersistsCert ==
  ASSUME Types, Shapes, NEW c \in Certs, proc[c].pc \in Driving, NEW a \in order[c],
         proc[c].cur[a].status = "pending", NEW r, ProcessShape(r),
         r.pc \in Driving, r.at = a, r.job = "none", r.cur = proc[c].cur, r.mem = proc[c].mem, r.pend = proc[c].pend,
         r.todo = proc[c].todo, r.bad = proc[c].bad, NEW rs \in SUBSET (DOMAIN r.mem),
         r.mem[a].presented, PersistsPresented(c, r, rs), UNCHANGED <<order, ca>>
  PROVE  CertShape(c, proc'[c], order'[c], ca') /\ proc'[c].job # "replace"
<1> DEFINE q == [r EXCEPT !.pend = @ \cup {r.at}, !.resumed = @ \cup rs]
           u == [Idle EXCEPT !.pc = "claim", !.job = "undo", !.at = r.at, !.mem = r.mem]
<1>1. /\ (\A x \in DOMAIN r.mem : CertOf[x] = c) /\ DOMAIN r.mem = order[c] /\ Known(r, ca)
      /\ (r.bad => LostIn(order[c], ca)) /\ (\A x \in r.pend : r.cur[x].status = "pending")
      /\ (\A x \in order[c] : x \in r.todo \cup r.pend \/ ca[x].status = "valid" \/ r.bad)
  BY DriveShape DEF Known
<1>2. r \in Processes /\ order[c] \in SUBSET Urls
  BY MyShape DEF ProcessShape
<1>3. /\ q.pc = r.pc /\ q.job = "none" /\ q.mem = r.mem /\ q.cur = r.cur /\ q.pend = r.pend \cup {a}
      /\ q.todo = r.todo /\ q.bad = r.bad /\ q.resumed = r.resumed \cup rs /\ q.at = a /\ q \in Processes
  BY <1>1, <1>2 DEF Processes
<1>4. u.pc = "claim" /\ u.job = "undo" /\ u.mem = r.mem /\ u.cur = <<>> /\ ~u.bad
  BY DEF Idle
<1>5. Step(c, Visited(q)) \/ Step(c, u)
  BY DEF PersistsPresented
<1> HIDE DEF q, u
<1>6. ProcessShape(q) /\ Known(q, ca)
  BY <1>1, <1>2, <1>3 DEF Known, ProcessShape, Driving, Asking, Holding, Visiting, Cleanings, Removing, Denying
<1>7. CertShape(c, Visited(q), order[c], ca)
  BY <1>1, <1>3, <1>6, VisitedCert
<1>8. CertShape(c, u, order[c], ca)
  <2>1. Known(u, ca)
    BY <1>1, <1>4, EmptyCopy DEF Known
  <2>2. JobOf(u, order[c], ca)
    BY <1>4 DEF JobOf, Cleanings, Removing, Denying
  <2>3. PassOf(u, order[c], ca)
    BY <1>4 DEF PassOf, Driving, Visiting, Holding, Asking
  <2> QED
    BY <1>1, <1>4, <2>1, <2>2, <2>3 DEF CertShape
<1>9. proc'[c] = Visited(q) \/ proc'[c] = u
  BY <1>5, StepAt, CertsAreProcs DEF Types
<1> QED
  BY <1>3, <1>4, <1>7, <1>8, <1>9, VisitedJob

LEMMA ResumesCert ==
  ASSUME Types, Shapes, NEW c \in Certs, NEW a \in Urls, Resumes(c, a)
  PROVE  CertShape(c, proc'[c], order'[c], ca') /\ proc'[c].job # "replace"
<1> DEFINE r == [proc[c] EXCEPT !.at = a]
<1>1. /\ proc[c].pc = "visit" /\ proc[c].cur[a].status = "pending" /\ proc[c].mem[a].presented
      /\ a \in proc[c].todo /\ PersistsPresented(c, r, {a}) /\ UNCHANGED <<order, ca>>
  BY DEF Resumes
<1>2. /\ ProcessShape(proc[c]) /\ proc[c] \in Processes /\ proc[c].job = "none" /\ a \in order[c]
      /\ DOMAIN proc[c].mem = order[c]
  BY <1>1, DriveShape DEF Driving
<1>3. /\ r.pc = "visit" /\ r.job = "none" /\ r.at = a /\ r.mem = proc[c].mem /\ r.cur = proc[c].cur
      /\ r.pend = proc[c].pend /\ r.todo = proc[c].todo /\ r.bad = proc[c].bad /\ r.resumed = proc[c].resumed
      /\ r \in Processes
  BY <1>1, <1>2 DEF Processes
<1> HIDE DEF r
<1>4. ProcessShape(r)
  BY <1>1, <1>2, <1>3 DEF ProcessShape, Driving, Asking, Holding, Visiting, Cleanings, Removing, Denying
<1> QED
  BY <1>1, <1>2, <1>3, <1>4, PersistsCert DEF Driving

LEMMA PersistsStepCert ==
  ASSUME Types, Shapes, NEW c \in Certs, Persists(c)
  PROVE  CertShape(c, proc'[c], order'[c], ca') /\ proc'[c].job # "replace"
<1>1. proc[c].pc = "persist" /\ PersistsPresented(c, proc[c], {}) /\ UNCHANGED <<order, ca>>
  BY DEF Persists
<1>2. ProcessShape(proc[c]) /\ proc[c].job = "none" /\ proc[c].todo \subseteq order[c]
  BY <1>1, DriveShape DEF Driving, Visiting
<1>3. proc[c].at \in proc[c].todo /\ proc[c].cur[proc[c].at].status = "pending"
  BY <1>1, MyShape DEF CertShape, PassOf, Visiting
<1>4. proc[c].mem[proc[c].at].presented
  BY <1>1, <1>2 DEF ProcessShape
<1> QED
  BY <1>1, <1>2, <1>3, <1>4, PersistsCert DEF Driving, Visiting


\* A pass goes to, or stays at, an authorization it has to visit.
LEMMA DriveCert ==
  ASSUME Types, Shapes, NEW c \in Certs, proc[c].pc \in Driving, NEW q, q.pc \in Visiting,
         q.at \in proc[c].todo, proc[c].cur[q.at].status = "pending", q.job = "none",
         q.cur = proc[c].cur, DOMAIN q.mem = DOMAIN proc[c].mem, q.pend = proc[c].pend,
         q.todo = proc[c].todo, q.bad = proc[c].bad, Step(c, q), UNCHANGED <<order, ca>>
  PROVE  CertShape(c, proc'[c], order'[c], ca') /\ proc'[c].job # "replace"
<1> DEFINE r == proc[c]
<1>1. /\ Known(r, ca) /\ (\A a \in DOMAIN r.mem : CertOf[a] = c) /\ DOMAIN r.mem = order[c]
      /\ (r.bad => LostIn(order[c], ca)) /\ (\A a \in r.pend : r.cur[a].status = "pending")
      /\ (\A b \in order[c] : b \in r.todo \cup r.pend \/ ca[b].status = "valid" \/ r.bad)
  BY DriveShape
<1>2. JobOf(q, order[c], ca)
  BY <1>1 DEF JobOf, Cleanings, Removing, Denying, Visiting
<1>3. PassOf(q, order[c], ca)
  BY <1>1 DEF PassOf, Driving, Visiting, Holding, Asking
<1>4. CertShape(c, q, order[c], ca)
  BY <1>1, <1>2, <1>3 DEF CertShape, Known
<1> QED
  BY <1>4, StepAt, CertsAreProcs DEF Types

LEMMA ReleasesStaleCert ==
  ASSUME Types, Shapes, NEW c \in Certs, NEW a \in Urls, ReleasesStale(c, a)
  PROVE  CertShape(c, proc'[c], order'[c], ca') /\ proc'[c].job # "replace"
<1> DEFINE q == [proc[c] EXCEPT !.pc = "prepare", !.at = a]
<1>1. /\ proc[c].pc = "visit" /\ a \in proc[c].todo /\ proc[c].cur[a].status = "pending"
      /\ Step(c, q) /\ UNCHANGED <<order, ca>>
  BY DEF ReleasesStale, New
<1>2. proc[c] \in Processes /\ proc[c].job = "none"
  BY <1>1, DriveShape DEF Driving
<1>3. /\ q.pc = "prepare" /\ q.at = a /\ q.job = "none" /\ q.cur = proc[c].cur /\ q.mem = proc[c].mem
      /\ q.pend = proc[c].pend /\ q.todo = proc[c].todo /\ q.bad = proc[c].bad
  BY <1>2 DEF Processes
<1> HIDE DEF q
<1> QED
  BY <1>1, <1>3, DriveCert DEF Driving, Visiting

LEMMA VisitsNewCert ==
  ASSUME Types, Shapes, NEW c \in Certs, NEW a \in Urls, VisitsNew(c, a)
  PROVE  CertShape(c, proc'[c], order'[c], ca') /\ proc'[c].job # "replace"
<1> DEFINE r == proc[c]
           tok == r.cur[a].tok
           old == r.mem[a]
           n == [[old EXCEPT !.sent = @ /\ old.tok = tok, !.age = "young"] EXCEPT !.tok = tok]
           pc == IF old.tok = NoTok THEN "present" ELSE "probe"
           q == [r EXCEPT !.at = a, !.mem[a] = n, !.pc = pc]
<1>1. UNCHANGED <<order, ca>> /\ (Step(c, q) \/ Ends(c))
  BY DEF VisitsNew
<1>2. r.pc \in Driving
  BY DEF VisitsNew, New, Driving, Visiting
<1>3. r \in Processes /\ r.job = "none" /\ CertShape(c, r, order[c], ca)
  BY <1>2, DriveShape, MyShape
<1>4. a \in r.todo /\ r.cur[a].status = "pending"
  BY <1>3 DEF VisitsNew, New, CertShape, PassOf, Visiting
<1> HIDE DEF n
<1>5. /\ q.pc \in Visiting /\ q.at = a /\ q.job = "none" /\ q.cur = r.cur /\ DOMAIN q.mem = DOMAIN r.mem
      /\ q.pend = r.pend /\ q.todo = r.todo /\ q.bad = r.bad
  BY <1>3 DEF Processes, Visiting
<1> HIDE DEF q
<1> QED
  BY <1>1, <1>2, <1>4, <1>5, DriveCert, EndCert

\* The record is up: the row that is at hand says so.
LEMMA PresentedIs ==
  ASSUME NEW r \in Processes
  PROVE  LET x == Presented(r) IN
         /\ x.pc = "persist" /\ x.at = r.at /\ x.job = r.job /\ x.cur = r.cur /\ DOMAIN x.mem = DOMAIN r.mem
         /\ x.pend = r.pend /\ x.todo = r.todo /\ x.bad = r.bad
<1> DEFINE old == r.mem[r.at]
           m == [old EXCEPT !.presented = TRUE, !.val = old.tok]
           mem == [r.mem EXCEPT ![r.at] = m]
           q == Presented(r)
<1> HIDE DEF m
<1>1. q = [r EXCEPT !.pc = "persist", !.mem = mem]
  BY DEF Presented, mem, m
<1>2. DOMAIN mem = DOMAIN r.mem
  OBVIOUS
<1> HIDE DEF mem, q
<1>3. /\ q.pc = "persist" /\ q.at = r.at /\ q.job = r.job /\ q.cur = r.cur /\ DOMAIN q.mem = DOMAIN r.mem
      /\ q.pend = r.pend /\ q.todo = r.todo /\ q.bad = r.bad
  BY <1>1, <1>2 DEF Processes
<1> QED
  BY <1>3 DEF q

LEMMA PresentedCert ==
  ASSUME Types, Shapes, NEW c \in Certs, proc[c].pc \in {"probe", "present"},
         Step(c, Presented(proc[c])) \/ GoTo(c, "present"), UNCHANGED <<order, ca>>
  PROVE  CertShape(c, proc'[c], order'[c], ca') /\ proc'[c].job # "replace"
<1> DEFINE r == proc[c]
           q == Presented(r)
           k == [r EXCEPT !.pc = "present"]
<1>1. r.pc \in Driving /\ (Step(c, q) \/ Step(c, k))
  BY DEF Driving, Visiting, GoTo
<1>2. r \in Processes /\ r.job = "none" /\ CertShape(c, r, order[c], ca)
  BY <1>1, DriveShape, MyShape
<1>3. r.at \in r.todo /\ r.cur[r.at].status = "pending"
  BY <1>2 DEF CertShape, PassOf, Visiting
<1>4. ASSUME NEW x \in {q, k}
      PROVE  /\ x.pc \in Visiting /\ x.at = r.at /\ x.job = "none" /\ x.cur = r.cur /\ DOMAIN x.mem = DOMAIN r.mem
             /\ x.pend = r.pend /\ x.todo = r.todo /\ x.bad = r.bad
  <2>3. CASE x = q
    BY <1>2, <2>3, PresentedIs DEF Visiting
  <2>4. CASE x = k
    BY <1>2, <2>4 DEF Processes, Visiting
  <2> QED
    BY <2>3, <2>4
<1> HIDE DEF q, k
<1> QED
  BY <1>1, <1>3, <1>4, DriveCert

LEMMA ProbesCert ==
  ASSUME Types, Shapes, NEW c \in Certs, Probes(c)
  PROVE  CertShape(c, proc'[c], order'[c], ca') /\ proc'[c].job # "replace"
BY PresentedCert DEF Probes

LEMMA PresentCert ==
  ASSUME Types, Shapes, NEW c \in Certs, Present(c)
  PROVE  CertShape(c, proc'[c], order'[c], ca') /\ proc'[c].job # "replace"
BY PresentedCert, EndCert DEF Present



\* A pass that waits.
LEMMA HoldShape ==
  ASSUME Types, Shapes, NEW c \in Certs, proc[c].pc \in Holding
  PROVE  LET r == proc[c] IN
         /\ ProcessShape(r) /\ r \in Processes /\ r.job = "none" /\ ~r.bad /\ Known(r, ca)
         /\ (\A a \in DOMAIN r.mem : CertOf[a] = c) /\ DOMAIN r.mem = order[c] /\ DOMAIN r.cur = order[c]
         /\ r.pend \subseteq order[c] /\ r.todo \subseteq order[c]
<1> DEFINE r == proc[c]
<1>1. ProcessShape(r) /\ r \in Processes /\ CertShape(c, r, order[c], ca)
  BY MyShape
<1>2. r.job = "none" /\ ~r.bad
  BY <1>1 DEF CertShape, JobOf, PassOf, Cleanings, Removing, Denying, Driving, Visiting, Holding, Asking
<1>3. DOMAIN r.mem = order[c]
  BY <1>1 DEF CertShape, PassOf
<1>4. DOMAIN r.cur = order[c] /\ r.pend \subseteq order[c] /\ r.todo \subseteq order[c]
  BY <1>1, <1>3 DEF ProcessShape
<1> QED
  BY <1>1, <1>2, <1>3, <1>4 DEF CertShape

\* A pass that goes on waiting.
LEMMA HoldCert ==
  ASSUME Types, Shapes, NEW c \in Certs, proc[c].pc \in Holding, NEW q, q.pc \in Holding,
         q.job = "none", DOMAIN q.mem = DOMAIN proc[c].mem, Known(q, ca'), ~q.bad,
         PassOf(q, order[c], ca'), Step(c, q), UNCHANGED order
  PROVE  CertShape(c, proc'[c], order'[c], ca') /\ proc'[c].job # "replace"
<1>1. JobOf(q, order[c], ca')
  BY DEF JobOf, Cleanings, Removing, Denying, Holding, Asking
<1>2. \A a \in DOMAIN q.mem : CertOf[a] = c
  BY HoldShape
<1>3. CertShape(c, q, order[c], ca')
  BY <1>1, <1>2 DEF CertShape
<1> QED
  BY <1>3, StepAt, CertsAreProcs DEF Types

LEMMA LeasesCert ==
  ASSUME Types, Shapes, NEW c \in Certs, Leases(c)
  PROVE  CertShape(c, proc'[c], order'[c], ca') /\ proc'[c].job # "replace"
<1> DEFINE r == proc[c]
<1>1. PICK v : Step(c, [r EXCEPT !.regs = @ \ {v}, !.pc = IF r.regs = {v} THEN "wait" ELSE "lease"])
  BY DEF Leases
<1> DEFINE q == [r EXCEPT !.regs = @ \ {v}, !.pc = IF r.regs = {v} THEN "wait" ELSE "lease"]
<1>2. UNCHANGED <<order, ca>> /\ r.pc = "lease"
  BY DEF Leases
<1>3. r \in Processes /\ r.job = "none" /\ ~r.bad /\ Known(r, ca) /\ DOMAIN r.mem = order[c]
  BY <1>2, HoldShape DEF Holding, Asking
<1>4. /\ q.pc \in {"wait", "lease"} /\ q.job = "none" /\ q.mem = r.mem /\ q.cur = r.cur /\ ~q.bad
      /\ q.pend = r.pend /\ q.todo = r.todo
  BY <1>3 DEF Processes
<1> HIDE DEF q
<1>5. PassOf(r, order[c], ca)
  BY MyShape DEF CertShape
<1>6. PassOf(q, order[c], ca)
  BY <1>2, <1>3, <1>4, <1>5 DEF PassOf, Holding, Asking, Driving, Visiting
<1>7. Known(q, ca)
  BY <1>3, <1>4 DEF Known
<1> QED
  BY <1>1, <1>2, <1>4, <1>6, <1>7, HoldCert DEF q, Holding, Asking

\* What is left to be accepted is: the CA has been asked about the rest.
LEMMA AcceptingCert ==
  ASSUME Types, Shapes, NEW c \in Certs, proc[c].pc \in {"wait", "sent"},
         NEW q \in Processes, q.job = "none", q.mem = proc[c].mem, q.cur = proc[c].cur, q.bad = proc[c].bad,
         q.pend = proc[c].pend, q.todo \subseteq q.pend, Step(c, Accepting(q)), UNCHANGED <<order, ca>>
  PROVE  CertShape(c, proc'[c], order'[c], ca') /\ proc'[c].job # "replace"
<1> DEFINE r == proc[c]
           k == [q EXCEPT !.pc = "accept", !.at = <<>>]
           w == [q EXCEPT !.pc = "await", !.at = <<>>, !.todo = q.pend]
<1>1. /\ k.pc = "accept" /\ k.job = "none" /\ k.mem = r.mem /\ k.cur = r.cur /\ k.bad = r.bad
      /\ k.pend = r.pend /\ k.todo = q.todo
  BY DEF Processes
<1>2. /\ w.pc = "await" /\ w.job = "none" /\ w.mem = r.mem /\ w.cur = r.cur /\ w.bad = r.bad
      /\ w.pend = r.pend /\ w.todo = r.pend
  BY DEF Processes
<1>3. Step(c, k) \/ Step(c, w)
  BY DEF Accepting
<1> HIDE DEF k, w
<1>4. ~r.bad /\ Known(r, ca) /\ DOMAIN r.mem = order[c]
  BY HoldShape DEF Holding, Asking
<1>5. PassOf(r, order[c], ca)
  BY MyShape DEF CertShape
<1>6. \A a \in r.pend : r.cur[a].status = "pending"
  BY <1>5 DEF PassOf, Asking
<1>7. \A b \in order[c] : b \in r.pend \/ ca[b].status = "valid"
  BY <1>5 DEF PassOf, Asking
<1>8. PassOf(k, order[c], ca)
  BY <1>1, <1>4, <1>6, <1>7 DEF PassOf, Holding, Asking, Driving, Visiting
<1>9. PassOf(w, order[c], ca)
  BY <1>2, <1>4, <1>6, <1>7 DEF PassOf, Holding, Asking, Driving, Visiting
<1>10. Known(k, ca) /\ Known(w, ca)
  BY <1>1, <1>2, <1>4 DEF Known
<1> QED
  BY <1>1, <1>2, <1>3, <1>4, <1>8, <1>9, <1>10, HoldCert DEF Holding, Asking

LEMMA WaitsAllCert ==
  ASSUME Types, Shapes, NEW c \in Certs, WaitsAll(c)
  PROVE  CertShape(c, proc'[c], order'[c], ca') /\ proc'[c].job # "replace"
<1> DEFINE r == proc[c]
           unsent == {a \in r.pend : ~r.mem[a].sent}
           q == [r EXCEPT !.todo = unsent]
<1>1. UNCHANGED <<order, ca>> /\ Step(c, Accepting(q)) /\ r.pc = "wait"
  BY DEF WaitsAll
<1>2. r \in Processes /\ r.job = "none"
  BY <1>1, HoldShape DEF Holding, Asking
<1>3. unsent \in SUBSET r.pend /\ r.pend \in SUBSET Urls
  BY <1>2 DEF Processes
<1> HIDE DEF unsent
<1>4. /\ q \in Processes /\ q.job = "none" /\ q.mem = r.mem /\ q.cur = r.cur /\ q.bad = r.bad
      /\ q.pend = r.pend /\ q.todo \subseteq q.pend
  BY <1>2, <1>3 DEF Processes
<1> HIDE DEF q
<1> QED
  BY <1>1, <1>4, AcceptingCert

LEMMA RecordsSentCert ==
  ASSUME Types, Shapes, NEW c \in Certs, RecordsSent(c)
  PROVE  CertShape(c, proc'[c], order'[c], ca') /\ proc'[c].job # "replace"
<1> DEFINE r == proc[c]
           q == [r EXCEPT !.todo = @ \ {r.at}]
<1>1. UNCHANGED <<order, ca>> /\ (Step(c, Accepting(q)) \/ Ends(c)) /\ r.pc = "sent"
  BY DEF RecordsSent
<1>2. r \in Processes /\ r.job = "none"
  BY <1>1, HoldShape DEF Holding, Asking
<1>3. r.todo \subseteq r.pend
  BY <1>1, MyShape DEF CertShape, PassOf
<1>4. /\ q \in Processes /\ q.job = "none" /\ q.mem = r.mem /\ q.cur = r.cur /\ q.bad = r.bad
      /\ q.pend = r.pend /\ q.todo \subseteq q.pend
  BY <1>2, <1>3 DEF Processes
<1> HIDE DEF q
<1> QED
  BY <1>1, <1>4, AcceptingCert, EndCert

LEMMA AcceptsCert ==
  ASSUME Types, Shapes, NEW c \in Certs, NEW a \in Urls, Accepts(c, a)
  PROVE  CertShape(c, proc'[c], order'[c], ca') /\ proc'[c].job # "replace"
<1> DEFINE r == proc[c]
           m == [r.mem[a] EXCEPT !.sent = TRUE]
           mem == [r.mem EXCEPT ![a] = m]
           q == [r EXCEPT !.pc = "sent", !.at = a, !.mem[a].sent = TRUE]
<1>1. UNCHANGED order /\ (Step(c, q) \/ Ends(c)) /\ r.pc = "accept"
  BY DEF Accepts
<1>2. ca' = ca \/ ca' = [ca EXCEPT ![a].asked = TRUE]
  BY DEF Accepts
<1>3. \A b \in Urls : ca'[b].status = ca[b].status
  BY <1>2 DEF Types, CaTypes, Authzs
<1>4. r \in Processes /\ r.job = "none" /\ ~r.bad /\ Known(r, ca) /\ DOMAIN r.mem = order[c] /\ order[c] \subseteq Urls
  BY <1>1, HoldShape, MyShape DEF Holding, Asking
<1>5. DOMAIN mem = DOMAIN r.mem
  OBVIOUS
<1>6. q = [r EXCEPT !.pc = "sent", !.at = a, !.mem = mem]
  OBVIOUS
<1> HIDE DEF mem, q
<1>7. /\ q.pc = "sent" /\ q.job = "none" /\ q.mem = mem /\ q.cur = r.cur /\ ~q.bad
      /\ q.pend = r.pend /\ q.todo = r.todo
  BY <1>4, <1>6 DEF Processes
<1>8. Known(q, ca')
  <2>1. DOMAIN q.mem \subseteq Urls /\ DOMAIN q.cur \subseteq Urls
    BY <1>4, <1>5, <1>7, CopiedUrls
  <2> QED
    BY <1>3, <1>4, <1>5, <1>7, <2>1 DEF Known
<1>9. PassOf(r, order[c], ca)
  BY MyShape DEF CertShape
<1>10. /\ \A b \in r.pend : r.cur[b].status = "pending"
       /\ \A b \in order[c] : b \in r.pend \/ ca[b].status = "valid"
       /\ r.todo \subseteq r.pend
  BY <1>1, <1>9 DEF PassOf, Asking
<1>11. PassOf(q, order[c], ca')
  BY <1>3, <1>4, <1>5, <1>7, <1>10 DEF PassOf, Holding, Asking, Driving, Visiting
<1> QED
  BY <1>1, <1>5, <1>7, <1>8, <1>11, HoldCert, EndCert DEF Holding, Asking

LEMMA PollsCert ==
  ASSUME Types, Shapes, NEW c \in Certs, Polls(c)
  PROVE  CertShape(c, proc'[c], order'[c], ca') /\ proc'[c].job # "replace"
<1> DEFINE r == proc[c]
           over == {a \in r.todo : ca[a].status # r.cur[a].status}
           left == {a \in r.todo : ca[a].status \notin {"valid", "invalid"}}
           cur == [a \in DOMAIN r.cur |-> ca[a]]
           q == [r EXCEPT !.todo = left, !.cur = cur]
<1>1. UNCHANGED <<order, ca>> /\ r.pc = "await"
  BY DEF Polls
<1>2. \/ (\E a \in over : ca[a].status = "invalid") /\ Step(c, Discards)
      \/ (\A a \in over : ca[a].status # "invalid") /\ left = {} /\ Step(c, CleansUp(r, r.pend))
      \/ (\A a \in over : ca[a].status # "invalid") /\ left # {} /\ Step(c, q)
      \/ Ends(c)
  BY DEF Polls
<1>3. /\ ProcessShape(r) /\ r \in Processes /\ r.job = "none" /\ ~r.bad /\ Known(r, ca)
      /\ (\A a \in DOMAIN r.mem : CertOf[a] = c) /\ DOMAIN r.mem = order[c] /\ DOMAIN r.cur = order[c]
      /\ r.pend \subseteq order[c] /\ r.todo \subseteq order[c]
  BY <1>1, HoldShape DEF Holding, Asking
<1>4. /\ r.todo \subseteq r.pend
      /\ \A b \in order[c] : b \in r.todo \/ ca[b].status = "valid"
      /\ \A a \in r.todo : r.cur[a].status \notin {"valid", "invalid"}
  BY <1>1, MyShape DEF CertShape, PassOf
<1>5. (\A a \in order[c] : cur[a] = ca[a] /\ ca[a].status # "none") /\ DOMAIN cur = order[c]
  BY <1>3 DEF Known
<1>6. left \in SUBSET r.todo
  OBVIOUS
<1>7. /\ q.pc = "await" /\ q.job = "none" /\ q.mem = r.mem /\ q.cur = cur /\ ~q.bad
      /\ q.pend = r.pend /\ q.todo = left
  BY <1>1, <1>3 DEF Processes
<1> HIDE DEF cur, q
<1>8. CASE (\E a \in over : ca[a].status = "invalid") /\ Step(c, Discards)
  <2>1. LostIn(order[c], ca)
    BY <1>3, <1>8 DEF LostIn, Broken
  <2>2. CertShape(c, Discards, order[c], ca)
    BY <2>1, DiscardsCert
  <2>3. proc'[c] = Discards
    BY <1>8, StepAt, CertsAreProcs DEF Types
  <2> QED
    BY <1>1, <1>3, <2>2, <2>3, VisitedJob
<1>9. CASE (\A a \in over : ca[a].status # "invalid") /\ left = {} /\ Step(c, CleansUp(r, r.pend))
  <2>1. ASSUME NEW a \in r.todo PROVE ca[a].status = "valid"
    <3>1. ca[a].status \in {"valid", "invalid"}
      BY <1>9
    <3>2. a \in over
      BY <1>4, <3>1
    <3> QED
      BY <1>9, <3>1, <3>2
  <2>2. \A b \in order[c] : ca[b].status = "valid"
    BY <1>4, <2>1
  <2>3. CertShape(c, CleansUp(r, r.pend), order[c], ca)
    BY <1>3, <2>2, CleansUpCert
  <2>4. proc'[c] = CleansUp(r, r.pend)
    BY <1>9, StepAt, CertsAreProcs DEF Types
  <2> QED
    BY <1>1, <2>3, <2>4 DEF CleansUp, Idle
<1>10. CASE (\A a \in over : ca[a].status # "invalid") /\ left # {} /\ Step(c, q)
  <2>1. Known(q, ca)
    BY <1>3, <1>5, <1>7 DEF Known
  <2>2. ASSUME NEW b \in r.todo PROVE b \in left \/ ca[b].status = "valid"
    <3>1. ca[b].status # "invalid"
      BY <1>4, <1>10
    <3> QED
      BY <3>1
  <2>3. \A b \in order[c] : b \in left \/ ca[b].status = "valid"
    BY <1>4, <2>2
  <2>4. \A a \in left : ca[a].status \notin {"valid", "invalid"}
    OBVIOUS
  <2> HIDE DEF left
  <2>5. PassOf(q, order[c], ca)
    BY <1>3, <1>4, <1>5, <1>6, <1>7, <2>3, <2>4 DEF PassOf, Holding, Asking, Driving, Visiting
  <2> QED
    BY <1>1, <1>3, <1>7, <1>10, <2>1, <2>5, HoldCert DEF Holding
<1> QED
  BY <1>1, <1>2, <1>8, <1>9, <1>10, EndCert



LEMMA PassCert ==
  ASSUME Types, Shapes, NEW c \in Certs, Pass(c)
  PROVE  CertShape(c, proc'[c], order'[c], ca') /\ (proc'[c].job = "replace" => "drop" \in setting.faults)
<1>1. CASE GivesUpWaiting(c)
  BY <1>1, EndCert DEF GivesUpWaiting
<1> QED
  BY <1>1, BeginCert, NewOrderCert, loadAuthorizationsCert, fetchAuthzsCert, VisitsClosedCert, ResumesCert,
     ReleasesStaleCert, VisitsNewCert, AcceptsCert, ProbesCert, PresentCert, PersistsStepCert, LeasesCert,
     WaitsAllCert, RecordsSentCert, PollsCert DEF Pass

\* A clean-up goes on with the same rows.
CleansOn(q, r) ==
    /\ r.pc \in Cleanings /\ q.pc \in Cleanings /\ q.job = r.job /\ q.mem = r.mem /\ q.cur = r.cur /\ q.bad = r.bad
    /\ (r.job = "undo" /\ r.pc \in Removing => q.pc \in Removing)
Walks(p) ==
    \/ Recovers(p) \/ Registers(p) \/ Drops(p) \/ Claims(p) \/ releaseRowStaleLease(p) \/ CleanUp(p)
    \/ LooksAgain(p) \/ Gone(p) \/ Kept(p)
    \/ \E a \in Urls : Takes(p, a) \/ Looks(p, a)

LEMMA WalksOn ==
  ASSUME Types, NEW p \in Procs, Walks(p)
  PROVE  UNCHANGED <<order, ca>> /\ (CleansOn(proc'[p], proc[p]) \/ (proc'[p] = Idle /\ proc[p].job = "undo"))
<1> DEFINE r == proc[p]
<1>1. r \in Processes /\ ProcessTypes
  BY ShapeOf DEF Types
<1>2. CASE Recovers(p)
  <2>1. proc'[p] = [r EXCEPT !.pc = "register", !.regs = Recovered] \/ proc'[p] = [r EXCEPT !.pc = "register"]
    BY <1>1, <1>2, StepAt DEF Recovers
  <2> QED
    BY <1>1, <1>2, <2>1 DEF Recovers, Processes, CleansOn, Cleanings, Removing, Denying
<1>3. CASE Registers(p)
  <2>1. PICK v : proc'[p] = [r EXCEPT !.regs = @ \ {v}]
    BY <1>1, <1>3, StepAt DEF Registers
  <2> QED
    BY <1>1, <1>3, <2>1 DEF Registers, Processes, CleansOn, Cleanings, Removing, Denying
<1>4. ASSUME NEW pc \in Removing, r.pc \in Removing, GoTo(p, pc)
      PROVE  CleansOn(proc'[p], r)
  <2>1. proc'[p] = [r EXCEPT !.pc = pc]
    BY <1>1, <1>4, StepAt DEF GoTo
  <2> QED
    BY <1>1, <1>4, <2>1 DEF Processes, CleansOn, Cleanings
<1>5. CASE Drops(p) \/ Claims(p) \/ releaseRowStaleLease(p) \/ CleanUp(p)
  <2>1. UNCHANGED <<order, ca>> /\ r.pc \in Removing
    BY <1>5 DEF Drops, Claims, releaseRowStaleLease, CleanUp, Removing, Denying
  <2>2. \E pc \in {"gone", "release", "remove", "kept", "relook"} : GoTo(p, pc)
    BY <1>5 DEF Drops, Claims, releaseRowStaleLease, CleanUp
  <2> QED
    BY <1>4, <2>1, <2>2 DEF Removing, Denying
<1>6. CASE LooksAgain(p)
  <2>1. PICK s, e : proc'[p] = [r EXCEPT !.pc = IF s = "absent" THEN "drop" ELSE "kept", !.early = e]
    BY <1>1, <1>6, StepAt DEF LooksAgain
  <2> QED
    BY <1>1, <1>6, <2>1 DEF LooksAgain, Processes, CleansOn, Cleanings, Removing, Denying
<1>7. CASE Gone(p) \/ Kept(p)
  <2>1. proc'[p] = After(p) /\ UNCHANGED <<order, ca>> /\ r.pc \in Removing
    BY <1>1, <1>7, StepAt DEF Gone, Kept, Removing
  <2>2. CASE r.job # "undo"
    <3>1. proc'[p] = Passed(p)
      BY <2>1, <2>2 DEF After
    <3> QED
      BY <1>1, <2>1, <2>2, <3>1 DEF Passed, Processes, CleansOn, Cleanings
  <2> QED
    BY <2>1, <2>2 DEF After
<1>8. ASSUME NEW a \in Urls, Takes(p, a)
      PROVE  UNCHANGED <<order, ca>> /\ CleansOn(proc'[p], r)
  <2>1. PICK pc \in {"claim", "gone"} : proc'[p] = [r EXCEPT !.at = a, !.pc = pc]
    BY <1>1, <1>8, StepAt DEF Takes
  <2> QED
    BY <1>1, <1>8, <2>1 DEF Takes, Processes, CleansOn, Cleanings, Removing, Denying
<1>9. ASSUME NEW a \in Urls, Looks(p, a)
      PROVE  UNCHANGED <<order, ca>> /\ CleansOn(proc'[p], r)
  <2>1. r.pc = "clean" /\ UNCHANGED <<order, ca>>
    BY <1>9 DEF Looks
  <2>2. \/ \E pc \in {"kept", "claim", "drop"} : proc'[p] = [r EXCEPT !.at = a, !.pc = pc]
        \/ proc'[p] = [r EXCEPT !.todo = @ \ {a}]
    BY <1>1, <1>9, StepAt DEF Looks
  <2> QED
    BY <1>1, <2>1, <2>2 DEF Processes, CleansOn, Cleanings, Removing, Denying
<1>10. (Recovers(p) \/ Registers(p) \/ LooksAgain(p)) => UNCHANGED <<order, ca>>
  BY DEF Recovers, Registers, LooksAgain
<1> QED
  BY <1>2, <1>3, <1>5, <1>6, <1>7, <1>8, <1>9, <1>10 DEF Walks

\* The rows a clean-up is about to walk.
LEMMA ListsOn ==
  ASSUME Types, NEW p \in Procs, Lists(p)
  PROVE  /\ UNCHANGED <<order, ca>>
         /\ LET q == proc'[p]
                r == proc[p]
                them == IF p = Sweeper THEN ListStuckTXTReclaims ELSE RowsOf(p)
            IN  /\ r.pc = "register"
                /\ \/ CleansOn(q, r)
                   \/ q = Idle /\ r.job = "sweep"
                   \/ /\ q.pc = "clean" /\ q.job = r.job /\ DOMAIN q.mem = them /\ q.cur = r.cur /\ q.bad = r.bad
<1> DEFINE r == proc[p]
           them == IF p = Sweeper THEN ListStuckTXTReclaims ELSE RowsOf(p)
           mem == [a \in them |-> rows[a]]
           q == [r EXCEPT !.pc = "clean", !.todo = them, !.mem = mem]
           k == [r EXCEPT !.pc = "clean"]
<1>1. r \in Processes /\ r.pc = "register" /\ UNCHANGED <<order, ca>>
  BY ShapeOf DEF Types, Lists
<1>2. proc'[p] \in {q, k} \/ (proc'[p] = Idle /\ r.job = "sweep")
  BY StepAt DEF Lists, Types
<1>3. DOMAIN mem = them
  OBVIOUS
<1> HIDE DEF mem, them
<1>4. q.pc = "clean" /\ q.job = r.job /\ DOMAIN q.mem = them /\ q.cur = r.cur /\ q.bad = r.bad
  BY <1>1, <1>3 DEF Processes
<1>5. CleansOn(k, r)
  BY <1>1 DEF Processes, CleansOn, Cleanings, Removing, Denying
<1> HIDE DEF q, k
<1> QED
  BY <1>1, <1>2, <1>4, <1>5 DEF them

LEMMA CleansOnCert ==
  ASSUME NEW c, NEW r, NEW q, NEW us, NEW cas, CertShape(c, r, us, cas), r.pc \in Cleanings, q.pc \in Cleanings,
         q.job = r.job, q.cur = r.cur, q.bad = r.bad, q.job = "undo" => q.pc \in Removing,
         \A a \in DOMAIN q.mem : CertOf[a] = c /\ cas[a].status # "none"
  PROVE  CertShape(c, q, us, cas)
<1>1. Known(q, cas)
  BY DEF CertShape, Known
<1>2. JobOf(q, us, cas)
  BY DEF CertShape, JobOf, Cleanings, Removing, Denying
<1>3. PassOf(q, us, cas)
  BY DEF CertShape, PassOf, Cleanings, Removing, Denying, Driving, Visiting, Holding, Asking
<1> QED
  BY <1>1, <1>2, <1>3 DEF CertShape

LEMMA CleanedAllCert ==
  ASSUME Types, Shapes, NEW c \in Certs, CleanedAll(c)
  PROVE  CertShape(c, proc'[c], order'[c], ca') /\ proc'[c].job # "replace"
<1> DEFINE job == proc[c].job
<1>1. ca' = ca /\ proc[c].pc = "clean"
  BY DEF CleanedAll
<1>2. \/ Ends(c)
      \/ Step(c, [Idle EXCEPT !.pc = "order"]) /\ order'[c] = {}
      \/ job = "cleanup" /\ order' = order /\ Step(c, [Idle EXCEPT !.pc = "recover", !.job = "epilogue"])
  <2>1. CertShape(c, proc[c], order[c], ca) /\ order \in [Certs -> SUBSET Urls]
    BY MyShape DEF Types, StoreTypes
  <2>2. job = "orphan" => order[c] = {}
    BY <2>1 DEF CertShape, JobOf
  <2> QED
    BY <2>1, <2>2 DEF CleanedAll
<1>3. CASE Step(c, [Idle EXCEPT !.pc = "order"]) /\ order'[c] = {}
  <2>1. CertShape(c, [Idle EXCEPT !.pc = "order"], order'[c], ca')
    BY <1>3, StartCert
  <2> QED
    BY <1>3, <2>1, StepAt, CertsAreProcs DEF Types, Idle
<1>4. CASE job = "cleanup" /\ order' = order /\ Step(c, [Idle EXCEPT !.pc = "recover", !.job = "epilogue"])
  <2>1. \A b \in order[c] : ca[b].status = "valid"
    BY <1>4, MyShape DEF CertShape, JobOf
  <2>2. CertShape(c, [Idle EXCEPT !.pc = "recover", !.job = "epilogue"], order[c], ca)
    BY <2>1, CleanerCert
  <2>3. proc'[c] = [Idle EXCEPT !.pc = "recover", !.job = "epilogue"]
    BY <1>4, StepAt, CertsAreProcs DEF Types
  <2>4. proc'[c].job # "replace"
    BY <2>3 DEF Idle
  <2> QED
    BY <1>1, <1>4, <2>2, <2>3, <2>4
<1> QED
  BY <1>2, <1>3, <1>4, EndCert

LEMMA CleaningCert ==
  ASSUME Types, Shapes, NEW c \in Certs, Cleaning(c)
  PROVE  CertShape(c, proc'[c], order'[c], ca') /\ (proc'[c].job = "replace" => "drop" \in setting.faults)
<1>1. proc[c].job = "replace" => "drop" \in setting.faults
  BY DEF Shapes
<1>2. CertShape(c, proc[c], order[c], ca) /\ c \in Procs /\ c # Sweeper
  BY MyShape, CertsAreProcs
<1>3. CertShape(c, Idle, order[c], ca) /\ Idle.job = "none"
  BY IdleCert DEF Idle
<1>4. CASE Walks(c)
  <2>1. UNCHANGED <<order, ca>> /\ (CleansOn(proc'[c], proc[c]) \/ proc'[c] = Idle)
    BY <1>2, <1>4, WalksOn
  <2>2. CASE CleansOn(proc'[c], proc[c])
    <3>1. CertShape(c, proc'[c], order[c], ca)
      <4>1. proc[c].job = "undo" => proc'[c].pc \in Removing
        BY <1>2, <2>2 DEF CleansOn, CertShape, JobOf
      <4>2. \A a \in DOMAIN proc'[c].mem : CertOf[a] = c /\ ca[a].status # "none"
        BY <1>2, <2>2 DEF CleansOn, CertShape, Known
      <4> QED
        BY <1>2, <2>2, <4>1, <4>2, CleansOnCert DEF CleansOn
    <3> QED
      BY <1>1, <2>1, <2>2, <3>1 DEF CleansOn
  <2> QED
    BY <1>3, <2>1, <2>2
<1>5. CASE Lists(c)
  <2>1. /\ UNCHANGED <<order, ca>> /\ proc[c].pc = "register"
        /\ \/ CleansOn(proc'[c], proc[c])
           \/ proc'[c] = Idle
           \/ /\ proc'[c].pc = "clean" /\ proc'[c].job = proc[c].job /\ DOMAIN proc'[c].mem = RowsOf(c)
              /\ proc'[c].cur = proc[c].cur /\ proc'[c].bad = proc[c].bad
    BY <1>2, <1>5, ListsOn
  <2>2. proc[c].job # "undo"
    BY <1>2, <2>1 DEF CertShape, JobOf, Removing, Denying
  <2>3. CASE CleansOn(proc'[c], proc[c])
    <3>1. \A a \in DOMAIN proc'[c].mem : CertOf[a] = c /\ ca[a].status # "none"
      BY <1>2, <2>3 DEF CleansOn, CertShape, Known
    <3>2. CertShape(c, proc'[c], order[c], ca)
      BY <1>2, <2>2, <2>3, <3>1, CleansOnCert DEF CleansOn
    <3> QED
      BY <1>1, <2>1, <2>3, <3>2 DEF CleansOn
  <2>4. CASE /\ proc'[c].pc = "clean" /\ proc'[c].job = proc[c].job /\ DOMAIN proc'[c].mem = RowsOf(c)
             /\ proc'[c].cur = proc[c].cur /\ proc'[c].bad = proc[c].bad
    <3>1. \A a \in RowsOf(c) : CertOf[a] = c /\ ca[a].status # "none"
      BY DEF RowsOf, Shapes, HandedOut
    <3>2. CertShape(c, proc'[c], order[c], ca)
      BY <1>2, <2>1, <2>2, <2>4, <3>1, CleansOnCert DEF Cleanings
    <3> QED
      BY <1>1, <2>1, <2>4, <3>2
  <2> QED
    BY <1>3, <2>1, <2>3, <2>4
<1> QED
  BY <1>4, <1>5, CleanedAllCert DEF Cleaning, Walks



(* What is handed out, and the shapes, are kept *)

LEMMA SameGrows == ASSUME ca' = ca PROVE Grows(ca, ca')
BY DEF Grows

LEMMA PassGrows ==
  ASSUME Types, NEW c \in Certs, Pass(c)
  PROVE  Grows(ca, ca') /\ setting' = setting
<1>1. CASE NewOrder(c)
  BY <1>1, NewOrderGrows DEF NewOrder, zone
<1>2. ASSUME NEW a \in Urls, Accepts(c, a) PROVE Grows(ca, ca') /\ setting' = setting
  <2>1. ca' = ca \/ ca' = [ca EXCEPT ![a].asked = TRUE]
    BY <1>2 DEF Accepts
  <2>2. \A b \in Urls : ca'[b].status = ca[b].status
    BY <2>1 DEF Types, CaTypes, Authzs
  <2> QED
    BY <1>2, <2>2 DEF Accepts, Grows, zone
<1>3. ASSUME Begin(c) \/ loadAuthorizations(c) \/ fetchAuthzs(c) \/ Probes(c) \/ Present(c) \/ Persists(c)
             \/ Leases(c) \/ WaitsAll(c) \/ GivesUpWaiting(c) \/ RecordsSent(c) \/ Polls(c)
      PROVE  ca' = ca /\ setting' = setting
  BY <1>3 DEF Begin, loadAuthorizations, fetchAuthzs, Probes, Present, Persists, Leases, WaitsAll, GivesUpWaiting,
     RecordsSent, Polls, zone
<1>4. ASSUME NEW a \in Urls, VisitsClosed(c, a) \/ Resumes(c, a) \/ ReleasesStale(c, a) \/ VisitsNew(c, a)
      PROVE  ca' = ca /\ setting' = setting
  BY <1>4 DEF VisitsClosed, Resumes, ReleasesStale, VisitsNew, zone
<1> QED
  BY <1>1, <1>2, <1>3, <1>4, SameGrows DEF Pass

LEMMA CleaningGrows ==
  ASSUME NEW p \in Procs, Cleaning(p)
  PROVE  ca' = ca /\ setting' = setting
<1>1. ASSUME NEW a \in Urls, Takes(p, a) \/ Looks(p, a) PROVE ca' = ca /\ setting' = setting
  BY <1>1 DEF Takes, Looks, zone
<1>2. ASSUME Recovers(p) \/ Registers(p) \/ Lists(p) \/ LooksAgain(p) \/ Gone(p) \/ Kept(p) \/ CleanedAll(p)
      PROVE  ca' = ca /\ setting' = setting
  BY <1>2 DEF Recovers, Registers, Lists, LooksAgain, Gone, Kept, CleanedAll, zone
<1>3. ASSUME Drops(p) \/ Claims(p) \/ releaseRowStaleLease(p) \/ CleanUp(p)
      PROVE  ca' = ca /\ setting' = setting
  BY <1>3 DEF Drops, Claims, releaseRowStaleLease, CleanUp, zone
<1> QED
  BY <1>1, <1>2, <1>3 DEF Cleaning

LEMMA OtherGrows ==
  ASSUME Types, \/ BeginsSweep \/ Lands \/ Crash
                \/ \E a \in Urls : GrowsOld(a) \/ Validates(a) \/ Closes(a) \/ Rechallenges(a)
  PROVE  Grows(ca, ca') /\ setting' = setting /\ order' = order
<1>1. CASE BeginsSweep \/ Lands \/ Crash \/ \E a \in Urls : GrowsOld(a)
  BY <1>1, SameGrows DEF BeginsSweep, Lands, Crash, GrowsOld, zone
<1>2. ASSUME NEW a \in Urls, Validates(a) \/ Closes(a) \/ Rechallenges(a)
      PROVE  Grows(ca, ca') /\ setting' = setting /\ order' = order
  <2>1. setting' = setting /\ order' = order /\ ca[a].status = "pending"
    BY <1>2 DEF Validates, Closes, Rechallenges, zone
  <2>2. \A b \in Urls : b # a => ca'[b] = ca[b]
    BY <1>2 DEF Validates, Closes, Rechallenges, Types, CaTypes
  <2>3. ca'[a].status # "none"
    <3>1. ca \in [Urls -> Authzs]
      BY DEF Types, CaTypes
    <3>2. CASE Validates(a)
      <4>1. PICK s \in {"valid", "invalid"} : ca' = [ca EXCEPT ![a].status = s]
        BY <3>2 DEF Validates
      <4> QED
        BY <3>1, <4>1 DEF Authzs
    <3>3. CASE Closes(a)
      <4>1. PICK s \in {"closed", "invalid"} : ca' = [ca EXCEPT ![a].status = s]
        BY <3>3 DEF Closes
      <4> QED
        BY <3>1, <4>1 DEF Authzs
    <3>4. CASE Rechallenges(a)
      BY <2>1, <3>1, <3>4 DEF Rechallenges, Authzs
    <3> QED
      BY <1>2, <3>2, <3>3, <3>4
  <2> QED
    BY <2>1, <2>2, <2>3 DEF Grows, Final
<1> QED
  BY <1>1, <1>2


\* A write of some rows: it inserts, removes and stamps none.
Writing(S) ==
    \A a \in Urls : /\ rows'[a].on /\ ~rows[a].on => a \in S
                    /\ rows'[a].stuck => rows[a].stuck
                    /\ rows[a].on => rows'[a].on

LEMMA PutWrites ==
  ASSUME StoreTypes, NEW a \in Urls, NEW m \in Rows, PutAuthorization(a, m), NEW S, a \in S
  PROVE  Writing(S)
<1>1. rows' = [rows EXCEPT ![a] = Stored(a, m)] /\ rows \in [Urls -> Rows]
  BY DEF PutAuthorization, StoreTypes
<1>2. Stored(a, m).stuck = rows[a].stuck /\ Stored(a, m).on
  BY DEF Stored, Rows
<1> QED
  BY <1>1, <1>2 DEF Writing

LEMMA PassWrites ==
  ASSUME Types, NEW c \in Certs, Pass(c)
  PROVE  Writing(order[c] \cup DOMAIN proc[c].mem)
<1> DEFINE r == proc[c]
           S == order[c] \cup DOMAIN r.mem
<1>1. ProcessShape(r) /\ r \in Processes /\ r.mem \in Copies(Rows) /\ StoreTypes
  BY ShapeOf, CertsAreProcs DEF Types, Processes
<1>2. ASSUME NEW a \in DOMAIN r.mem PROVE r.mem[a] \in Rows /\ a \in Urls
  BY <1>1, CopyGet
<1>3. rows' = rows => Writing(S)
  BY DEF Writing
<1>4. CASE loadAuthorizations(c)
  <2> DEFINE new == {a \in order[c] : ~rows[a].on}
  <2>1. PICK put \in SUBSET new : rows' = [a \in Urls |-> IF a \in put THEN NewRow ELSE rows[a]]
    BY <1>4 DEF loadAuthorizations
  <2>2. ~NewRow.stuck /\ NewRow.on
    BY DEF NewRow, NoRow
  <2> QED
    BY <2>1, <2>2 DEF Writing
<1>5. CASE GivesUpWaiting(c)
  <2>1. CASE rows' = rows
    BY <1>3, <2>1
  <2>2. ASSUME NEW lost \in SUBSET markUnpresented(c),
               rows' = [a \in Urls |-> IF a \in markUnpresented(c) \ lost
                            THEN Stored(a, [r.mem[a] EXCEPT !.presented = FALSE]) ELSE rows[a]]
        PROVE  Writing(S)
    <3>1. ASSUME NEW a \in r.resumed
          PROVE  LET n == Stored(a, [r.mem[a] EXCEPT !.presented = FALSE]) IN n.stuck = rows[a].stuck /\ n.on /\ a \in S
      <4>1. a \in DOMAIN r.mem
        BY <1>1 DEF ProcessShape
      <4>2. [r.mem[a] EXCEPT !.presented = FALSE] \in Rows
        BY <1>2, <4>1, RowSet
      <4> QED
        BY <4>1, <4>2 DEF Stored, Rows
    <3> QED
      BY <2>2, <3>1 DEF Writing, markUnpresented
  <2> QED
    BY <1>5, <2>1, <2>2 DEF GivesUpWaiting
<1>6. CASE Polls(c)
  <2> DEFINE over == {a \in r.todo : ca[a].status # r.cur[a].status}
  <2>1. rows' = rows \/ rows' = [a \in Urls |-> IF a \in over THEN Stored(a, r.mem[a]) ELSE rows[a]]
    BY <1>6 DEF Polls
  <2>2. ASSUME NEW a \in over PROVE Stored(a, r.mem[a]).stuck = rows[a].stuck /\ Stored(a, r.mem[a]).on /\ a \in S
    <3>1. a \in DOMAIN r.mem
      BY <1>1 DEF ProcessShape
    <3> QED
      BY <1>2, <3>1 DEF Stored, Rows
  <2> QED
    BY <1>3, <2>1, <2>2 DEF Writing
<1>7. ASSUME NEW a \in Urls, VisitsClosed(c, a) PROVE Writing(S)
  <2> DEFINE q == [r EXCEPT !.at = a]
  <2>1. q.mem = r.mem
    BY <1>1 DEF Processes
  <2>2. a \in DOMAIN r.mem /\ (rows' = rows \/ PutAuthorization(a, q.mem[a]))
    BY <1>1, <1>7 DEF VisitsClosed, ProcessShape
  <2> QED
    BY <1>1, <1>2, <1>3, <2>1, <2>2, PutWrites
<1>8. ASSUME NEW a \in Urls, Resumes(c, a) PROVE Writing(S)
  <2> DEFINE q == [r EXCEPT !.at = a]
  <2>1. q.mem = r.mem /\ q.at = a
    BY <1>1 DEF Processes
  <2>2. a \in DOMAIN r.mem /\ (rows' = rows \/ PutAuthorization(q.at, q.mem[q.at]))
    BY <1>1, <1>8 DEF Resumes, PersistsPresented, ProcessShape
  <2> QED
    BY <1>1, <1>2, <1>3, <2>1, <2>2, PutWrites
<1>9. CASE Persists(c)
  <2>1. r.at \in DOMAIN r.mem /\ (rows' = rows \/ PutAuthorization(r.at, r.mem[r.at]))
    BY <1>1, <1>9 DEF Persists, PersistsPresented, ProcessShape, Visiting
  <2> QED
    BY <1>1, <1>2, <1>3, <2>1, PutWrites
<1>10. CASE RecordsSent(c)
  <2>1. r.at \in DOMAIN r.mem /\ (rows' = rows \/ PutAuthorization(r.at, r.mem[r.at]))
    BY <1>1, <1>10 DEF RecordsSent, ProcessShape
  <2> QED
    BY <1>1, <1>2, <1>3, <2>1, PutWrites
<1>11. ASSUME NEW a \in Urls, VisitsNew(c, a) PROVE Writing(S)
  <2> DEFINE tok == r.cur[a].tok
             old == r.mem[a]
             m == [old EXCEPT !.sent = @ /\ old.tok = tok, !.age = "young"]
             row == [m EXCEPT !.tok = Clue(m, tok)]
  <2>1. rows' = rows \/ PutAuthorization(a, row)
    BY <1>11 DEF VisitsNew
  <2>2. a \in DOMAIN r.mem /\ DOMAIN r.cur = DOMAIN r.mem
    <3>1. r.pc \in Driving
      BY <1>11 DEF VisitsNew, New, Driving, Visiting
    <3>2. a \in r.todo \/ (r.pc = "prepare" /\ a = r.at)
      BY <1>11 DEF VisitsNew, New
    <3> QED
      BY <1>1, <3>1, <3>2 DEF ProcessShape, Visiting
  <2>3. tok \in Tokens
    <3>1. r.cur \in Copies(Authzs)
      BY <1>1 DEF Processes
    <3>2. r.cur[a] \in Authzs
      BY <2>2, <3>1, CopyGet
    <3> QED
      BY <3>2 DEF Authzs
  <2>4. tok # NoTok
    BY <2>3, BoundsAssumption DEF Tokens, NoTok
  <2>5. old \in Rows
    BY <1>2, <2>2
  <2> HIDE DEF tok, old
  <2>6. row \in Rows
    BY <2>3, <2>4, <2>5 DEF Rows, Clue
  <2> HIDE DEF row
  <2> QED
    BY <1>1, <1>3, <2>1, <2>2, <2>6, PutWrites
<1>12. ASSUME Begin(c) \/ NewOrder(c) \/ fetchAuthzs(c) \/ Probes(c) \/ Present(c) \/ Leases(c) \/ WaitsAll(c)
       PROVE  rows' = rows
  BY <1>12 DEF Begin, NewOrder, fetchAuthzs, Probes, Present, Leases, WaitsAll
<1>13. ASSUME NEW a \in Urls, ReleasesStale(c, a) \/ Accepts(c, a) PROVE rows' = rows
  BY <1>13 DEF ReleasesStale, Accepts
<1> QED
  BY <1>3, <1>4, <1>5, <1>6, <1>7, <1>8, <1>9, <1>10, <1>11, <1>12, <1>13 DEF Pass


\* A clean-up writes the row it is at: it inserts none that is new, it stamps only that
\* one, and only when its record is dealt with it deletes it.
LEMMA CleaningWrites ==
  ASSUME Types, NEW p \in Procs, Cleaning(p)
  PROVE  \A a \in Urls : /\ rows'[a].on /\ ~rows[a].on => a \in DOMAIN proc[p].mem
                         /\ rows'[a].stuck /\ ~rows[a].stuck =>
                              /\ rows[a].on /\ a = proc[p].at /\ a \in DOMAIN proc[p].mem
                              /\ Kept(p) /\ proc[p].job \notin {"cleanup", "undo"}
                         /\ rows[a].on /\ ~rows'[a].on =>
                              Gone(p) /\ a = proc[p].at /\ proc[p].job \notin {"cleanup", "undo"}
<1> DEFINE r == proc[p]
           a == r.at
           m == [r.mem[a] EXCEPT !.presented = FALSE]
<1>1. StoreTypes
  BY DEF Types
<1>2. CASE Gone(p)
  <2>1. a \in Urls /\ a \in DOMAIN r.mem /\ m \in Rows
    BY <1>2, AtRow, RowSet DEF Types, Gone, Removing
  <2>2. \/ rows' = rows \/ PutAuthorization(a, m)
        \/ DeleteAuthorization(a) /\ r.job \notin {"cleanup", "undo"}
    BY <1>2 DEF Gone
  <2>3. CASE DeleteAuthorization(a) /\ r.job \notin {"cleanup", "undo"}
    BY <1>1, <1>2, <2>3 DEF DeleteAuthorization, NoRow, StoreTypes
  <2>4. CASE PutAuthorization(a, m)
    BY <1>1, <2>1, <2>4, PutWrites DEF Writing
  <2> QED
    BY <2>2, <2>3, <2>4
<1>3. CASE Kept(p)
  <2>1. a \in Urls /\ a \in DOMAIN r.mem
    BY <1>3, AtRow DEF Types, Kept, Removing
  <2>2. rows' = rows \/ (MarkTXTReclaimStuck(a) /\ r.job \notin {"cleanup", "undo"})
    BY <1>3 DEF Kept, Keeps
  <2>3. CASE MarkTXTReclaimStuck(a) /\ r.job \notin {"cleanup", "undo"}
    <3>1. rows' = [rows EXCEPT ![a] = [rows[a] EXCEPT !.stuck = rows[a].on]] /\ rows \in [Urls -> Rows]
      BY <1>1, <2>3 DEF MarkTXTReclaimStuck, StoreTypes
    <3>2. \A b \in Urls : b # a => rows'[b] = rows[b]
      BY <3>1
    <3>3. rows'[a].on = rows[a].on /\ rows'[a].stuck = rows[a].on
      BY <2>1, <3>1 DEF Rows
    <3> QED
      BY <1>3, <2>1, <2>3, <3>2, <3>3
  <2> QED
    BY <2>2, <2>3
<1>4. ASSUME Recovers(p) \/ Registers(p) \/ Lists(p) \/ LooksAgain(p) \/ CleanedAll(p)
             \/ Drops(p) \/ Claims(p) \/ releaseRowStaleLease(p) \/ CleanUp(p)
      PROVE  rows' = rows
  BY <1>4 DEF Recovers, Registers, Lists, LooksAgain, CleanedAll, Drops, Claims, releaseRowStaleLease, CleanUp
<1>5. ASSUME NEW b \in Urls, Takes(p, b) \/ Looks(p, b) PROVE rows' = rows
  BY <1>5 DEF Takes, Looks
<1> QED
  BY <1>2, <1>3, <1>4, <1>5 DEF Cleaning

LEMMA OtherWrites ==
  ASSUME Types, \/ BeginsSweep \/ Lands \/ Crash
                \/ \E a \in Urls : GrowsOld(a) \/ Validates(a) \/ Closes(a) \/ Rechallenges(a)
  PROVE  \A a \in Urls : rows'[a].on = rows[a].on /\ rows'[a].stuck = rows[a].stuck
<1>1. ASSUME NEW a \in Urls, GrowsOld(a)
      PROVE  \A b \in Urls : rows'[b].on = rows[b].on /\ rows'[b].stuck = rows[b].stuck
  BY <1>1 DEF GrowsOld, Types, StoreTypes, Rows
<1> QED
  BY <1>1 DEF BeginsSweep, Lands, Crash, Validates, Closes, Rechallenges

LEMMA PassMoves ==
  ASSUME Types, Shapes, NEW c \in Certs, Pass(c)
  PROVE  /\ \A p \in Procs : p # c => proc'[p] = proc[p]
         /\ \A d \in Certs : d # c => order'[d] = order[d]
         /\ order'[c] = order[c] \/ (order[c] = {} /\ proc[c].pc = "order")
         /\ \A a \in order'[c] : ca'[a].status # "none"
<1>1. \E r : Step(c, r)
  <2>1. ASSUME NEW a \in Urls, VisitsClosed(c, a) \/ Resumes(c, a) \/ ReleasesStale(c, a) \/ VisitsNew(c, a) \/ Accepts(c, a)
        PROVE  \E r : Step(c, r)
    BY <2>1 DEF VisitsClosed, Resumes, PersistsPresented, ReleasesStale, VisitsNew, Accepts, Ends
  <2>2. ASSUME Begin(c) \/ NewOrder(c) \/ loadAuthorizations(c) \/ fetchAuthzs(c)
        PROVE  \E r : Step(c, r)
    BY <2>2 DEF Begin, NewOrder, loadAuthorizations, fetchAuthzs, Ends, GoTo
  <2>3. ASSUME Probes(c) \/ Present(c) \/ Persists(c) \/ Leases(c)
        PROVE  \E r : Step(c, r)
    BY <2>3 DEF Probes, Present, Persists, PersistsPresented, Leases, Ends, GoTo
  <2>4. ASSUME WaitsAll(c) \/ GivesUpWaiting(c) \/ RecordsSent(c) \/ Polls(c)
        PROVE  \E r : Step(c, r)
    BY <2>4 DEF WaitsAll, GivesUpWaiting, RecordsSent, Polls, Ends
  <2> QED
    BY <2>1, <2>2, <2>3, <2>4 DEF Pass
<1>2. \A p \in Procs : p # c => proc'[p] = proc[p]
  BY <1>1, StepAt, CertsAreProcs DEF Types
<1>3. order' = order \/ NewOrder(c)
  <2>1. ASSUME NEW a \in Urls, VisitsClosed(c, a) \/ Resumes(c, a) \/ ReleasesStale(c, a) \/ VisitsNew(c, a) \/ Accepts(c, a)
        PROVE  order' = order
    BY <2>1 DEF VisitsClosed, Resumes, ReleasesStale, VisitsNew, Accepts
  <2>2. ASSUME Begin(c) \/ loadAuthorizations(c) \/ fetchAuthzs(c) \/ Probes(c) \/ Present(c) \/ Persists(c) \/ Leases(c)
               \/ WaitsAll(c) \/ GivesUpWaiting(c) \/ RecordsSent(c) \/ Polls(c)
        PROVE  order' = order
    BY <2>2 DEF Begin, loadAuthorizations, fetchAuthzs, Probes, Present, Persists, Leases, WaitsAll, GivesUpWaiting, RecordsSent, Polls
  <2> QED
    BY <2>1, <2>2 DEF Pass
<1>4. CASE order' = order
  <2>1. \A a \in order[c] : ca'[a].status # "none"
    BY PassGrows, MyShape DEF Grows
  <2> QED
    BY <1>2, <1>4, <2>1
<1>5. CASE NewOrder(c)
  <2>1. order[c] = {} /\ proc[c].pc = "order"
    BY <1>5, MyShape DEF NewOrder, CertShape, JobOf
  <2> QED
    BY <1>2, <1>5, <2>1, NewOrderGrows DEF Types, StoreTypes
<1> QED
  BY <1>3, <1>4, <1>5

LEMMA CleaningMoves ==
  ASSUME Types, NEW p \in Procs, Cleaning(p)
  PROVE  /\ \A q \in Procs : q # p => proc'[q] = proc[q]
         /\ order' = order \/ (order' = [order EXCEPT ![p] = {}] /\ CleanedAll(p))
<1>1. \E r : Step(p, r)
  <2>1. ASSUME NEW a \in Urls, Takes(p, a) \/ Looks(p, a) PROVE \E r : Step(p, r)
    BY <2>1 DEF Takes, Looks
  <2>2. ASSUME Recovers(p) \/ Registers(p) \/ Lists(p) \/ LooksAgain(p) \/ Gone(p) \/ Kept(p) \/ CleanedAll(p)
        PROVE  \E r : Step(p, r)
    BY <2>2 DEF Recovers, Registers, Lists, LooksAgain, Gone, Kept, CleanedAll, Ends
  <2>3. ASSUME Drops(p) \/ Claims(p) \/ releaseRowStaleLease(p) \/ CleanUp(p) PROVE \E r : Step(p, r)
    BY <2>3 DEF Drops, Claims, releaseRowStaleLease, CleanUp, GoTo
  <2> QED
    BY <2>1, <2>2, <2>3 DEF Cleaning
<1>2. Walks(p) \/ Lists(p) => order' = order
  BY WalksOn, ListsOn
<1>3. CleanedAll(p) => order' = order \/ (order' = [order EXCEPT ![p] = {}] /\ CleanedAll(p))
  BY DEF CleanedAll
<1> QED
  BY <1>1, <1>2, <1>3, StepAt DEF Types, Cleaning, Walks

LEMMA OtherCert ==
  ASSUME Types, Shapes, NEW c \in Certs,
         \/ BeginsSweep \/ Lands \/ Crash
         \/ \E a \in Urls : GrowsOld(a) \/ Validates(a) \/ Closes(a) \/ Rechallenges(a)
  PROVE  CertShape(c, proc'[c], order'[c], ca') /\ (proc'[c].job = "replace" => proc[c].job = "replace")
<1>1. Grows(ca, ca') /\ order' = order
  BY OtherGrows
<1>2. CertShape(c, proc[c], order[c], ca') /\ c \in Procs /\ c # Sweeper /\ proc[c] \in Processes
  BY <1>1, MyShape, CertKept, CertsAreProcs
<1>3. CASE BeginsSweep
  BY <1>1, <1>2, <1>3, StepAt, CertsAreProcs DEF BeginsSweep, Types
<1>4. CASE Crash
  BY <1>1, <1>2, <1>4, IdleCert DEF Crash, Idle
<1>5. CASE Lands
  BY <1>1, <1>2, <1>5 DEF Lands
<1>6. ASSUME NEW a \in Urls, Validates(a) \/ Closes(a) \/ Rechallenges(a)
      PROVE  proc'[c] = proc[c]
  BY <1>6 DEF Validates, Closes, Rechallenges
<1>7. ASSUME NEW a \in Urls, GrowsOld(a)
      PROVE  SameCourse(proc'[c], proc[c])
  <2> DEFINE r == proc[c]
             m == [r.mem[a] EXCEPT !.age = "old"]
             mem == [r.mem EXCEPT ![a] = m]
  <2>1. \/ proc'[c] = r
        \/ proc'[c] = [r EXCEPT !.mem = mem]
    BY <1>2, <1>7 DEF GrowsOld
  <2>2. DOMAIN mem = DOMAIN r.mem
    OBVIOUS
  <2> HIDE DEF mem
  <2> QED
    BY <1>2, <2>1, <2>2 DEF SameCourse, Processes
<1>8. SameCourse(proc'[c], proc[c]) => CertShape(c, proc'[c], order[c], ca') /\ proc'[c].job = proc[c].job
  BY <1>2, CertSame DEF SameCourse
<1> QED
  BY <1>1, <1>2, <1>3, <1>4, <1>5, <1>6, <1>7, <1>8

LEMMA SweeperCleans ==
  ASSUME Types, Shapes, Cleaning(Sweeper)
  PROVE  SweepShape'
<1> DEFINE r == proc[Sweeper]
           q == proc'[Sweeper]
<1>1. ca' = ca /\ Sweeper \in Procs /\ Sweeper \notin Certs /\ SweepShape
  BY CleaningGrows, CertsAreProcs, ProcsAssumption DEF Shapes
<1>2. CASE q = Idle
  BY <1>2, EmptyCopy DEF Idle, SweepShape, Known
<1>3. CASE CleansOn(q, r)
  <2>1. r.job = "sweep"
    BY <1>1, <1>3 DEF CleansOn, SweepShape, Cleanings, Removing, Denying
  <2> QED
    BY <1>1, <1>3, <2>1 DEF CleansOn, SweepShape, Known
<1>4. CASE Walks(Sweeper)
  BY <1>1, <1>2, <1>3, <1>4, WalksOn
<1>5. CASE Lists(Sweeper)
  <2>1. /\ r.pc = "register"
        /\ \/ CleansOn(q, r)
           \/ q = Idle
           \/ q.pc = "clean" /\ q.job = r.job /\ DOMAIN q.mem = ListStuckTXTReclaims /\ q.cur = r.cur
    BY <1>1, <1>5, ListsOn
  <2>2. CASE q.pc = "clean" /\ q.job = r.job /\ DOMAIN q.mem = ListStuckTXTReclaims /\ q.cur = r.cur
    <3>1. \A a \in ListStuckTXTReclaims : ca[a].status # "none"
      BY DEF ListStuckTXTReclaims, Shapes, HandedOut
    <3>2. r.job = "sweep"
      BY <1>1, <2>1 DEF SweepShape
    <3>3. Known(q, ca)
      BY <1>1, <2>2, <3>1 DEF SweepShape, Known
    <3> QED
      BY <1>1, <2>2, <3>2, <3>3 DEF SweepShape, Cleanings, Known
  <2> QED
    BY <1>2, <1>3, <2>1, <2>2
<1>6. CASE CleanedAll(Sweeper)
  <2>1. r.job = "sweep"
    BY <1>1, <1>6 DEF CleanedAll, SweepShape
  <2>2. Ends(Sweeper)
    BY <1>6, <2>1 DEF CleanedAll
  <2> QED
    BY <1>1, <1>2, <2>2, StepAt DEF Ends, Types
<1> QED
  BY <1>4, <1>5, <1>6 DEF Cleaning, Walks

LEMMA OtherSweeps ==
  ASSUME Types, Shapes,
         \/ BeginsSweep \/ Lands \/ Crash
         \/ \E a \in Urls : GrowsOld(a) \/ Validates(a) \/ Closes(a) \/ Rechallenges(a)
  PROVE  SweepShape'
<1> DEFINE r == proc[Sweeper]
           q == proc'[Sweeper]
<1>1. Grows(ca, ca') /\ r \in Processes /\ SweepShape
  BY OtherGrows, ShapeOf, CertsAreProcs DEF Types, Shapes
<1>2. Known(r, ca')
  BY <1>1, KnownKept DEF SweepShape
<1>3. CASE BeginsSweep
  <2>1. q = [Idle EXCEPT !.pc = "recover", !.job = "sweep"]
    BY <1>3, StepAt, CertsAreProcs DEF BeginsSweep, Types
  <2>2. q.pc = "recover" /\ q.job = "sweep" /\ q.mem = <<>> /\ q.cur = <<>>
    BY <2>1 DEF Idle
  <2> QED
    BY <2>2, EmptyCopy DEF SweepShape, Known, Cleanings
<1>4. CASE Crash
  <2>1. q = Idle
    BY <1>4, CertsAreProcs DEF Crash
  <2> QED
    BY <2>1, EmptyCopy DEF Idle, SweepShape, Known
<1>5. CASE q.pc = r.pc /\ q.job = r.job /\ DOMAIN q.mem = DOMAIN r.mem /\ q.cur = r.cur
  BY <1>1, <1>2, <1>5 DEF SweepShape, Known
<1>6. ASSUME NEW a \in Urls, Validates(a) \/ Closes(a) \/ Rechallenges(a)
      PROVE  q = r
  BY <1>6 DEF Validates, Closes, Rechallenges
<1>7. ASSUME NEW a \in Urls, GrowsOld(a)
      PROVE  q.pc = r.pc /\ q.job = r.job /\ DOMAIN q.mem = DOMAIN r.mem /\ q.cur = r.cur
  <2> DEFINE m == [r.mem[a] EXCEPT !.age = "old"]
             mem == [r.mem EXCEPT ![a] = m]
  <2>1. q = r \/ q = [r EXCEPT !.mem = mem]
    BY <1>7, CertsAreProcs DEF GrowsOld
  <2>2. DOMAIN mem = DOMAIN r.mem
    OBVIOUS
  <2> HIDE DEF mem
  <2> QED
    BY <1>1, <2>1, <2>2 DEF Processes
<1>8. CASE Lands
  BY <1>5, <1>8 DEF Lands
<1> QED
  BY <1>3, <1>4, <1>5, <1>6, <1>7, <1>8

LEMMA ShapesKept == ASSUME Types, Shapes, [Next]_vars PROVE Shapes'
<1>1. CASE UNCHANGED vars
  BY <1>1 DEF vars, Shapes, HandedOut, SweepShape
<1> SUFFICES ASSUME Next PROVE Shapes'
  BY <1>1
<1>2. Types'
  BY TypesKept
<1>3. \A c \in Certs : CertShape(c, proc[c], order[c], ca) /\ proc[c] \in Processes /\ order[c] \in SUBSET Urls
  BY MyShape
<1>4. ASSUME NEW c \in Certs, Pass(c) PROVE Shapes'
  <2>1. Grows(ca, ca') /\ setting' = setting
    BY <1>4, PassGrows
  <2>2. \A p \in Procs : p # c => proc'[p] = proc[p]
    BY <1>4, PassMoves
  <2>3. \A d \in Certs : d # c => order'[d] = order[d]
    BY <1>4, PassMoves
  <2>4. \A d \in Certs : CertShape(d, proc'[d], order'[d], ca') /\ (proc'[d].job = "replace" => "drop" \in setting.faults)
    <3>1. CertShape(c, proc'[c], order'[c], ca') /\ (proc'[c].job = "replace" => "drop" \in setting.faults)
      BY <1>4, PassCert
    <3>2. ASSUME NEW d \in Certs, d # c PROVE CertShape(d, proc'[d], order'[d], ca') /\ proc'[d] = proc[d]
      BY <1>3, <2>1, <2>2, <2>3, <3>2, CertKept, CertsAreProcs
    <3> QED
      BY <3>1, <3>2 DEF Shapes
  <2>5. SweepShape'
    <3>1. proc'[Sweeper] = proc[Sweeper] /\ proc[Sweeper] \in Processes
      BY <2>2, CertsAreProcs, ShapeOf DEF Types
    <3> QED
      BY <2>1, <3>1, KnownKept DEF Shapes, SweepShape
  <2>6. HandedOut'
    <3>1. \A a \in Urls : rows'[a].on => ca'[a].status # "none"
      <4>1. Writing(order[c] \cup DOMAIN proc[c].mem)
        BY <1>4, PassWrites
      <4>2. \A a \in order[c] \cup DOMAIN proc[c].mem : ca[a].status # "none"
        BY <1>3 DEF Shapes, HandedOut, CertShape, Known
      <4> QED
        BY <2>1, <4>1, <4>2 DEF Writing, Grows, Shapes, HandedOut
    <3>2. \A a \in order'[c] : ca'[a].status # "none"
      BY <1>4, PassMoves
    <3>3. \A d \in Certs : d # c => \A a \in order'[d] : ca'[a].status # "none"
      BY <1>3, <2>1, <2>3 DEF Grows, Shapes, HandedOut
    <3> QED
      BY <3>1, <3>2, <3>3 DEF HandedOut
  <2> QED
    BY <2>1, <2>4, <2>5, <2>6 DEF Shapes
<1>5. ASSUME NEW p \in Procs, Cleaning(p) PROVE Shapes'
  <2>1. ca' = ca /\ setting' = setting /\ Grows(ca, ca')
    BY <1>5, CleaningGrows, SameGrows
  <2>2. \A q \in Procs : q # p => proc'[q] = proc[q]
    BY <1>5, CleaningMoves
  <2>3. order' = order \/ order' = [order EXCEPT ![p] = {}]
    BY <1>5, CleaningMoves
  <2>4. \A c \in Certs : order'[c] \subseteq order[c] /\ (c # p => order'[c] = order[c])
    BY <2>3 DEF Types, StoreTypes
  <2>5. \A d \in Certs : CertShape(d, proc'[d], order'[d], ca') /\ (proc'[d].job = "replace" => "drop" \in setting.faults)
    <3>1. ASSUME NEW d \in Certs, d = p
          PROVE CertShape(d, proc'[d], order'[d], ca') /\ (proc'[d].job = "replace" => "drop" \in setting.faults)
      BY <1>5, <3>1, CleaningCert
    <3>2. ASSUME NEW d \in Certs, d # p PROVE CertShape(d, proc'[d], order'[d], ca') /\ proc'[d] = proc[d]
      BY <1>3, <2>1, <2>2, <2>4, <3>2, CertsAreProcs
    <3> QED
      BY <3>1, <3>2 DEF Shapes
  <2>6. SweepShape'
    <3>1. CASE p # Sweeper
      BY <2>1, <2>2, <3>1, CertsAreProcs DEF Shapes, SweepShape, Known
    <3>2. CASE p = Sweeper
      BY <1>5, <3>2, SweeperCleans
    <3> QED
      BY <3>1, <3>2
  <2>7. HandedOut'
    <3>1. \A a \in DOMAIN proc[p].mem : ca[a].status # "none"
      BY <1>3 DEF Procs, Shapes, SweepShape, CertShape, Known
    <3>2. \A a \in Urls : rows'[a].on => ca'[a].status # "none"
      BY <1>5, <2>1, <3>1, CleaningWrites DEF Shapes, HandedOut
    <3> QED
      BY <2>1, <2>4, <3>2 DEF Shapes, HandedOut
  <2> QED
    BY <2>1, <2>5, <2>6, <2>7 DEF Shapes
<1>6. ASSUME \/ BeginsSweep \/ Lands \/ Crash
             \/ \E a \in Urls : GrowsOld(a) \/ Validates(a) \/ Closes(a) \/ Rechallenges(a)
      PROVE  Shapes'
  <2>1. Grows(ca, ca') /\ setting' = setting /\ order' = order
    BY <1>6, OtherGrows
  <2>2. HandedOut'
    BY <1>3, <1>6, <2>1, OtherWrites DEF Shapes, HandedOut, Grows
  <2>3. \A d \in Certs : CertShape(d, proc'[d], order'[d], ca') /\ (proc'[d].job = "replace" => "drop" \in setting.faults)
    BY <1>6, OtherCert DEF Shapes
  <2>4. SweepShape'
    BY <1>6, OtherSweeps
  <2> QED
    BY <2>1, <2>2, <2>3, <2>4 DEF Shapes
<1> QED
  BY <1>4, <1>5, <1>6 DEF Next


LEMMA ShapesInit == ASSUME Init PROVE Shapes
<1>1. \A c \in Certs : CertShape(c, proc[c], order[c], ca) /\ proc[c].job # "replace"
  BY CertsAreProcs, IdleCert DEF Init, Idle
<1>2. SweepShape
  <2>1. proc[Sweeper] = Idle
    BY CertsAreProcs DEF Init
  <2> QED
    BY <2>1, EmptyCopy DEF Idle, SweepShape, Known
<1>3. HandedOut
  <2>1. CASE Fresh
    BY <2>1 DEF Fresh, HandedOut, NoRow
  <2>2. ASSUME NEW a \in Urls, Inherits(a) PROVE HandedOut
    <3>1. ca[a].status = "pending" /\ \A b \in Urls : b # a => ~rows[b].on
      BY <2>2 DEF Inherits, NoRow
    <3>2. \A c \in Certs : \A b \in order[c] : b = a
      BY <2>2 DEF Inherits
    <3> QED
      BY <3>1, <3>2 DEF HandedOut
  <2> QED
    BY <2>1, <2>2 DEF Init
<1> QED
  BY <1>1, <1>2, <1>3 DEF Shapes



(* What a step does to the records and to the leases *)

LEMMA ValueFirst == \A a, t : ValueOf(a, t)[1] = a
BY DEF ValueOf

LEMMA GoAt == ASSUME ProcessTypes, NEW p \in Procs, NEW pc, GoTo(p, pc) PROVE proc'[p].pc = pc
<1>1. proc'[p] = [proc[p] EXCEPT !.pc = pc] /\ proc[p] \in Processes
  BY StepAt, ShapeOf DEF GoTo
<1> QED
  BY <1>1 DEF Processes

\* A pass takes no record out; it gives up the lease of a value its row named before.
LEMMA PassRecords ==
  ASSUME Types, Shapes, NEW c \in Certs, Pass(c)
  PROVE  /\ dns \subseteq dns' /\ (late.op # "delete" => late'.op # "delete")
         /\ \A v \in leases : v \in leases' \/ (proc[c].pc = "visit" /\ v[1] \in DOMAIN proc[c].mem)
<1>1. ASSUME Begin(c) \/ NewOrder(c) \/ loadAuthorizations(c) \/ fetchAuthzs(c) \/ Probes(c) \/ Persists(c)
             \/ WaitsAll(c) \/ GivesUpWaiting(c) \/ RecordsSent(c) \/ Polls(c)
      PROVE  UNCHANGED <<dns, late, leases>>
  BY <1>1 DEF Begin, NewOrder, loadAuthorizations, fetchAuthzs, Probes, Persists, WaitsAll, GivesUpWaiting,
     RecordsSent, Polls, zone
<1>2. ASSUME NEW a \in Urls, VisitsClosed(c, a) \/ Resumes(c, a) \/ VisitsNew(c, a) \/ Accepts(c, a)
      PROVE  UNCHANGED <<dns, late, leases>>
  BY <1>2 DEF VisitsClosed, Resumes, VisitsNew, Accepts, zone
<1>3. ASSUME NEW a \in Urls, ReleasesStale(c, a)
      PROVE  UNCHANGED <<dns, late>> /\ \A v \in leases : v \in leases' \/ (proc[c].pc = "visit" /\ v[1] \in DOMAIN proc[c].mem)
  <2>1. proc[c].pc = "visit" /\ a \in proc[c].todo /\ UNCHANGED <<dns, late>>
    BY <1>3 DEF ReleasesStale, New, zone
  <2>2. a \in DOMAIN proc[c].mem
    BY <2>1, MyShape DEF ProcessShape
  <2>3. leases' = leases \/ leases' = leases \ {ValueOf(a, proc[c].mem[a].val)}
    BY <1>3 DEF ReleasesStale, releaseStaleLease, remove
  <2> QED
    BY <2>1, <2>2, <2>3 DEF ValueOf
<1>4. CASE Leases(c)
  <2>1. UNCHANGED <<dns, late>> /\ leases \subseteq leases'
    BY <1>4 DEF Leases, add, zone
  <2> QED
    BY <2>1
<1>5. CASE Present(c)
  <2>1. dns \subseteq dns' /\ leases \subseteq leases'
    <3>1. TimesOut("write", Wanted(c)) => dns' = dns
      BY Zenon DEF TimesOut
    <3> QED
      BY <1>5, <3>1 DEF Present, Writes, add, zone
  <2>2. late' = late \/ late'.op = "write"
    <3>1. TimesOut("write", Wanted(c)) => late' = [op |-> "write", val |-> Wanted(c)]
      BY Zenon DEF TimesOut
    <3> QED
      BY <1>5, <3>1 DEF Present, zone
  <2> QED
    BY <2>1, <2>2
<1> QED
  BY <1>1, <1>2, <1>3, <1>4, <1>5 DEF Pass

\* A clean-up takes records out in CleanUp only, and gives up leases of the row it is at.
LEMMA CleaningRecords ==
  ASSUME Types, NEW p \in Procs, Cleaning(p), "hang delete" \notin setting.faults
  PROVE  /\ \/ dns \subseteq dns'
            \/ /\ dns' = DeleteLeaves(Wanted(p)) /\ ~LeavesToOthers(Wanted(p))
               /\ proc[p].pc = "remove" /\ proc[p].at \in DOMAIN proc[p].mem /\ proc'[p].pc \in {"gone", "kept", "relook"}
         /\ late' = late
         /\ \A v \in leases : v \in leases' \/ (v[1] = proc[p].at /\ proc[p].at \in DOMAIN proc[p].mem /\ proc[p].pc # "idle")
<1>1. ASSUME Recovers(p) \/ Lists(p) \/ LooksAgain(p) \/ Gone(p) \/ Kept(p) \/ CleanedAll(p)
      PROVE  UNCHANGED <<dns, late, leases>>
  BY <1>1 DEF Recovers, Lists, LooksAgain, Gone, Kept, CleanedAll, zone
<1>2. ASSUME NEW a \in Urls, Takes(p, a) \/ Looks(p, a)
      PROVE  UNCHANGED <<dns, late, leases>>
  BY <1>2 DEF Takes, Looks, zone
<1>3. ASSUME Registers(p) \/ Claims(p)
      PROVE  UNCHANGED <<dns, late>> /\ leases \subseteq leases'
  BY <1>3 DEF Registers, Claims, add, zone
<1>4. ASSUME Drops(p) \/ releaseRowStaleLease(p)
      PROVE  /\ UNCHANGED <<dns, late>>
             /\ \A v \in leases : v \in leases' \/ (v[1] = proc[p].at /\ proc[p].at \in DOMAIN proc[p].mem /\ proc[p].pc # "idle")
  <2>1. proc[p].pc \in Removing /\ proc[p].pc # "idle"
    BY <1>4 DEF Drops, releaseRowStaleLease, Removing, Denying
  <2>2. proc[p].at \in DOMAIN proc[p].mem
    BY <2>1, AtRow DEF Types
  <2>3. \/ leases' = leases
        \/ leases' = leases \ {ValueOf(proc[p].at, proc[p].mem[proc[p].at].tok)}
        \/ leases' = leases \ {ValueOf(proc[p].at, proc[p].mem[proc[p].at].val)}
    BY <1>4 DEF Drops, releaseRowStaleLease, releaseStaleLease, remove, Wanted
  <2>4. UNCHANGED <<dns, late>>
    BY <1>4 DEF Drops, releaseRowStaleLease, zone
  <2>5. ASSUME NEW v \in leases, v \notin leases' PROVE v[1] = proc[p].at
    <3>1. v = ValueOf(proc[p].at, proc[p].mem[proc[p].at].tok) \/ v = ValueOf(proc[p].at, proc[p].mem[proc[p].at].val)
      BY <2>3, <2>5
    <3> QED
      BY <3>1, ValueFirst
  <2> QED
    BY <2>1, <2>2, <2>4, <2>5
<1>5. CASE CleanUp(p)
  <2>1. proc[p].pc = "remove" /\ leases' = leases \ {Wanted(p)} /\ Wanted(p)[1] = proc[p].at
    BY <1>5 DEF CleanUp, remove, Wanted, ValueOf
  <2>2. proc[p].at \in DOMAIN proc[p].mem
    BY <2>1, AtRow DEF Types, Removing, Denying
  <2>3. ~TimesOut("delete", Wanted(p))
    <3>1. TimesOut("delete", Wanted(p)) => Mishap("hang delete")
      BY DEF TimesOut
    <3> QED
      BY <3>1 DEF Mishap
  <2>4. \/ UNCHANGED zone
        \/ ~LeavesToOthers(Wanted(p)) /\ Deletes(Wanted(p)) /\ GoTo(p, "gone") /\ UNCHANGED late
    BY <1>5, <2>3 DEF CleanUp
  <2>5. GoTo(p, "gone") => proc'[p].pc = "gone"
    BY GoAt DEF Types
  <2> QED
    BY <2>1, <2>2, <2>4, <2>5 DEF zone, Deletes
<1> QED
  BY <1>1, <1>2, <1>3, <1>4, <1>5 DEF Cleaning

LEMMA OtherRecords ==
  ASSUME \/ BeginsSweep \/ Lands \/ Crash
         \/ \E a \in Urls : GrowsOld(a) \/ Validates(a) \/ Closes(a) \/ Rechallenges(a),
         late.op # "delete"
  PROVE  dns \subseteq dns' /\ late'.op # "delete" /\ (leases' = leases \/ Crash)
<1>1. CASE Lands \/ Crash
  BY <1>1 DEF Lands, Crash, Writes, NoCall
<1>2. CASE BeginsSweep
  BY <1>2 DEF BeginsSweep, zone
<1>3. ASSUME NEW a \in Urls, GrowsOld(a) \/ Validates(a) \/ Closes(a) \/ Rechallenges(a)
      PROVE  UNCHANGED <<dns, late, leases>>
  BY <1>3 DEF GrowsOld, Validates, Closes, Rechallenges, zone
<1> QED
  BY <1>1, <1>2, <1>3



(* The sweep and the passes keep apart: passes that overlap *)

Timers == \/ BeginsSweep \/ Lands \/ Crash
          \/ \E a \in Urls : GrowsOld(a) \/ Validates(a) \/ Closes(a) \/ Rechallenges(a)

\* What happens elsewhere leaves a process where it is, only the age of a row may change.
LEMMA TimersLeave ==
  ASSUME Types, Timers, ~Crash, NEW p \in Procs, ~BeginsSweep \/ p # Sweeper
  PROVE  LET r == proc[p]
             q == proc'[p]
         IN  /\ SameCourse(q, r) /\ q.resumed = r.resumed /\ q.regs = r.regs
             /\ \A a \in DOMAIN r.mem : q.mem[a].val = r.mem[a].val
<1> DEFINE r == proc[p]
           q == proc'[p]
<1>1. r \in Processes
  BY ShapeOf DEF Types
<1>2. CASE q = r
  BY <1>2 DEF SameCourse
<1>3. CASE BeginsSweep
  BY <1>2, <1>3, StepAt, CertsAreProcs DEF BeginsSweep, Types
<1>4. CASE Lands
  BY <1>2, <1>4 DEF Lands
<1>5. ASSUME NEW a \in Urls, Validates(a) \/ Closes(a) \/ Rechallenges(a)
      PROVE  q = r
  BY <1>5 DEF Validates, Closes, Rechallenges
<1>6. ASSUME NEW a \in Urls, GrowsOld(a)
      PROVE  /\ SameCourse(q, r) /\ q.resumed = r.resumed /\ q.regs = r.regs
             /\ \A b \in DOMAIN r.mem : q.mem[b].val = r.mem[b].val
  <2> DEFINE m == [r.mem[a] EXCEPT !.age = "old"]
             mem == [r.mem EXCEPT ![a] = m]
  <2>1. q = r \/ (a \in DOMAIN r.mem /\ q = [r EXCEPT !.mem = mem])
    BY <1>6 DEF GrowsOld
  <2>2. DOMAIN mem = DOMAIN r.mem /\ \A b \in DOMAIN r.mem : b # a => mem[b] = r.mem[b]
    OBVIOUS
  <2>3. ASSUME a \in DOMAIN r.mem PROVE mem[a].val = r.mem[a].val
    <3>1. r.mem[a] \in Rows
      BY <1>1, <2>3, CopyGet DEF Processes
    <3>2. m.val = r.mem[a].val
      BY <3>1 DEF Rows
    <3>3. mem[a] = m
      BY <2>3
    <3> QED
      BY <3>2, <3>3
  <2> HIDE DEF mem
  <2>4. CASE a \in DOMAIN r.mem /\ q = [r EXCEPT !.mem = mem]
    <3>1. /\ q.pc = r.pc /\ q.job = r.job /\ q.todo = r.todo /\ q.at = r.at /\ q.mem = mem
          /\ q.cur = r.cur /\ q.pend = r.pend /\ q.bad = r.bad /\ q.resumed = r.resumed /\ q.regs = r.regs
      BY <1>1, <2>4 DEF Processes
    <3> QED
      BY <2>2, <2>3, <2>4, <3>1 DEF SameCourse
  <2> QED
    BY <1>2, <2>1, <2>4
<1> QED
  BY <1>2, <1>3, <1>4, <1>5, <1>6 DEF Timers

\* Who stamps a row as stuck: the clean-up of an order that goes away.
Stamps(c, a) ==
    /\ Kept(c) /\ a = proc[c].at /\ a \in DOMAIN proc[c].mem
    /\ proc[c].job \in {"discard", "replace", "epilogue", "orphan"}

LEMMA TouchedBefore ==
  ASSUME Types, Shapes, Next, NEW a \in Urls, Touched(a)'
  PROVE  Touched(a) \/ Stamps(CertOf[a], a)
<1>1. Sweeper \in Procs /\ Sweeper \notin Certs
  BY CertsAreProcs, ProcsAssumption
<1>2. ASSUME NEW c \in Certs, Pass(c) PROVE Touched(a)
  <2>1. rows'[a].stuck => rows[a].stuck
    BY <1>2, PassWrites DEF Writing
  <2>2. proc'[Sweeper] = proc[Sweeper]
    BY <1>1, <1>2, PassMoves
  <2> QED
    BY <2>1, <2>2 DEF Touched, Swept
<1>3. ASSUME NEW c \in Certs, Cleaning(c) PROVE Touched(a) \/ Stamps(CertOf[a], a)
  <2>1. c \in Procs /\ proc'[Sweeper] = proc[Sweeper]
    BY <1>1, <1>3, CleaningMoves, CertsAreProcs
  <2>2. Swept(a)' => Swept(a)
    BY <2>1 DEF Swept
  <2>3. ASSUME rows'[a].stuck, ~rows[a].stuck PROVE Stamps(CertOf[a], a)
    <3>1. a = proc[c].at /\ a \in DOMAIN proc[c].mem /\ Kept(c) /\ proc[c].job \notin {"cleanup", "undo"}
      BY <1>3, <2>1, <2>3, CleaningWrites
    <3>2. CertShape(c, proc[c], order[c], ca) /\ proc[c] \in Processes
      BY MyShape
    <3>3. CertOf[a] = c /\ proc[c].job # "sweep" /\ proc[c].job # "none"
      BY <3>1, <3>2 DEF CertShape, JobOf, Kept, Cleanings, Removing
    <3> QED
      BY <3>1, <3>2, <3>3 DEF Stamps, Processes, Jobs
  <2> QED
    BY <2>2, <2>3 DEF Touched
<1>4. CASE Cleaning(Sweeper)
  <2>1. rows'[a].stuck => rows[a].stuck \/ Swept(a)
    BY <1>1, <1>4, CleaningWrites DEF Swept
  <2>2. Swept(a)' => Touched(a)
    <3>1. CASE Walks(Sweeper)
      BY <1>1, <3>1, WalksOn, EmptyCopy DEF Touched, Swept, CleansOn, Idle
    <3>2. CASE Lists(Sweeper)
      <4>1. LET q == proc'[Sweeper]
                r == proc[Sweeper]
            IN  \/ CleansOn(q, r)
                \/ q = Idle
                \/ DOMAIN q.mem = ListStuckTXTReclaims
        BY <1>1, <3>2, ListsOn
      <4>2. \A b \in ListStuckTXTReclaims : rows[b].stuck
        BY DEF ListStuckTXTReclaims
      <4> QED
        BY <4>1, <4>2, EmptyCopy DEF Touched, Swept, CleansOn, Idle
    <3>3. CASE CleanedAll(Sweeper)
      <4>1. proc[Sweeper].job = "sweep"
        BY <3>3 DEF CleanedAll, Shapes, SweepShape
      <4>2. proc'[Sweeper] = Idle
        BY <1>1, <3>3, <4>1, StepAt DEF CleanedAll, Ends, Types
      <4> QED
        BY <4>2, EmptyCopy DEF Swept, Idle
    <3> QED
      BY <1>4, <3>1, <3>2, <3>3 DEF Cleaning, Walks
  <2> QED
    BY <2>1, <2>2 DEF Touched
<1>5. CASE Timers
  <2>1. rows'[a].stuck => rows[a].stuck
    BY <1>5, OtherWrites DEF Timers
  <2>2. Swept(a)' => Swept(a)
    <3>1. CASE Crash
      BY <1>1, <3>1, EmptyCopy DEF Crash, Swept, Idle
    <3>2. CASE BeginsSweep
      <4>1. proc'[Sweeper] = [Idle EXCEPT !.pc = "recover", !.job = "sweep"]
        BY <1>1, <3>2, StepAt DEF BeginsSweep, Types
      <4>2. proc'[Sweeper].mem = <<>>
        BY <4>1 DEF Idle
      <4> QED
        BY <4>2, EmptyCopy DEF Swept
    <3> QED
      BY <1>1, <1>5, <3>1, <3>2, TimersLeave DEF SameCourse, Swept
  <2> QED
    BY <2>1, <2>2 DEF Touched
<1> QED
  BY <1>2, <1>3, <1>4, <1>5 DEF Next, Procs, Timers


\* A pass leaves alone what is going: the order of a row that is stuck stays lost, until
\* it goes.
LEMMA NewOrderTakes ==
  ASSUME Types, NEW c \in Certs, Pass(c), NEW a \in order'[c], a \notin order[c], ca[a].status # "none"
  PROVE  ca'[a].status = "valid"
<1>1. NewOrder(c)
  <2>1. ASSUME NEW b \in Urls, VisitsClosed(c, b) \/ Resumes(c, b) \/ ReleasesStale(c, b) \/ VisitsNew(c, b) \/ Accepts(c, b)
        PROVE  order' = order
    BY <2>1 DEF VisitsClosed, Resumes, ReleasesStale, VisitsNew, Accepts
  <2>2. ASSUME Begin(c) \/ loadAuthorizations(c) \/ fetchAuthzs(c) \/ Probes(c) \/ Present(c) \/ Persists(c) \/ Leases(c)
               \/ WaitsAll(c) \/ GivesUpWaiting(c) \/ RecordsSent(c) \/ Polls(c)
        PROVE  order' = order
    BY <2>2 DEF Begin, loadAuthorizations, fetchAuthzs, Probes, Present, Persists, Leases, WaitsAll, GivesUpWaiting, RecordsSent, Polls
  <2> QED
    BY <2>1, <2>2 DEF Pass
<1> DEFINE mine == {x \in Urls : CertOf[x] = c}
           fresh == {x \in mine : ca[x].status = "none"}
           valid == {x \in mine : ca[x].status = "valid"}
<1>2. PICK us \in SUBSET (fresh \cup valid) :
             /\ order' = [order EXCEPT ![c] = us]
             /\ ca' = [x \in Urls |-> IF x \in us \cap fresh
                                        THEN [NewAuthz EXCEPT !.status = "pending"] ELSE ca[x]]
  BY <1>1 DEF NewOrder
<1>3. order'[c] = us
  BY <1>2 DEF Types, StoreTypes
<1> QED
  BY <1>2, <1>3

\* A pass acts while it is not cleaning up.
LEMMA PassWorks == ASSUME Types, Shapes, NEW c \in Certs, Pass(c) PROVE proc[c].pc \notin Cleanings /\ proc[c].job = "none"
<1>1. ASSUME NEW a \in Urls, VisitsClosed(c, a) \/ Resumes(c, a) \/ ReleasesStale(c, a) \/ VisitsNew(c, a) \/ Accepts(c, a)
      PROVE  proc[c].pc \notin Cleanings
  BY <1>1 DEF VisitsClosed, Resumes, ReleasesStale, New, VisitsNew, Accepts, Cleanings, Removing, Denying
<1>2. ASSUME Begin(c) \/ NewOrder(c) \/ loadAuthorizations(c) \/ fetchAuthzs(c) \/ Probes(c) \/ Present(c) \/ Persists(c)
             \/ Leases(c) \/ WaitsAll(c) \/ GivesUpWaiting(c) \/ RecordsSent(c) \/ Polls(c)
      PROVE  proc[c].pc \notin Cleanings
  BY <1>2 DEF Begin, NewOrder, loadAuthorizations, fetchAuthzs, Probes, Present, Persists, Leases, WaitsAll,
     GivesUpWaiting, RecordsSent, Polls, Cleanings, Removing, Denying
<1> QED
  BY <1>1, <1>2, MyShape DEF Pass, CertShape, JobOf

LEMMA HopelessStays ==
  ASSUME Types, Shapes, Next, Undisturbed(setting), setting.triggers,
         NEW a \in Urls, ca[a].status # "none", Hopeless(a)
  PROVE  Hopeless(a)'
<1> DEFINE c == CertOf[a]
<1>1. c \in Certs /\ c \in Procs /\ c # Sweeper
  BY CertOfAssumption, CertsAreProcs
<1> HIDE DEF c
<1> USE DEF c
<1>2. "drop" \in setting.faults => "store" \notin setting.faults /\ "crash" \notin setting.faults
  BY DEF Undisturbed
<1>3. ASSUME Grows(ca, ca'), a \in order[c], order'[c] = order[c], proc'[c].job = "replace" \/ proc[c].job # "replace"
      PROVE  Hopeless(a)'
  <2>1. order[c] \subseteq Urls
    BY <1>1, MyShape
  <2>2. LostIn(order[c], ca) => LostIn(order'[c], ca')
    BY <1>3, <2>1 DEF LostIn, Grows, Final, Broken
  <2>3. ca[a].status \in Final => ca'[a].status \in Final
    BY <1>3 DEF Grows
  <2> QED
    BY <1>3, <2>2, <2>3 DEF Hopeless
<1>4. ASSUME a \notin order'[c] PROVE Hopeless(a)'
  BY <1>4 DEF Hopeless
<1>5. ASSUME NEW d \in Certs, Pass(d) PROVE Hopeless(a)'
  <2>1. Grows(ca, ca')
    BY <1>5, PassGrows
  <2>2. CASE d # c
    <3>1. order'[c] = order[c] /\ proc'[c] = proc[c]
      BY <1>1, <1>5, <2>2, PassMoves
    <3> QED
      BY <1>3, <1>4, <2>1, <3>1
  <2>3. CASE d = c
    <3>1. proc[c].job # "replace"
      BY <1>5, <2>3, PassWorks
    <3>2. CASE a \in order[c]
      <4>1. order'[c] = order[c]
        BY <1>5, <2>3, <3>2, PassMoves
      <4> QED
        BY <1>3, <2>1, <3>1, <3>2, <4>1
    <3>3. CASE a \notin order[c] /\ a \in order'[c]
      <4>1. ca'[a].status = "valid"
        BY <1>5, <2>3, <3>3, NewOrderTakes
      <4> QED
        BY <4>1 DEF Hopeless, Final
    <3> QED
      BY <1>4, <3>2, <3>3
  <2> QED
    BY <2>2, <2>3
<1>6. ASSUME NEW p \in Procs, Cleaning(p) PROVE Hopeless(a)'
  <2>1. Grows(ca, ca')
    BY <1>6, CleaningGrows, SameGrows
  <2>2. CASE p # c
    <3>1. order'[c] = order[c] /\ proc'[c] = proc[c]
      BY <1>1, <1>6, <2>2, CleaningMoves DEF Types, StoreTypes
    <3> QED
      BY <1>3, <1>4, <2>1, <3>1
  <2>3. CASE p = c
    <3>1. CASE Walks(c) \/ Lists(c)
      <4>1. order' = order /\ (proc'[c].job = proc[c].job \/ proc[c].job \in {"undo", "sweep"})
        BY <1>1, <3>1, WalksOn, ListsOn DEF CleansOn
      <4> QED
        BY <1>3, <1>4, <2>1, <4>1
    <3>2. CASE CleanedAll(c)
      <4>1. CASE proc[c].job = "replace"
        <5>1. ~Mishap("store")
          BY <1>1, <1>2, <4>1 DEF Shapes, Mishap
        <5>2. order' = [order EXCEPT ![c] = {}]
          BY <3>2, <4>1, <5>1 DEF CleanedAll
        <5>3. order'[c] = {}
          BY <1>1, <5>2 DEF Types, StoreTypes
        <5> QED
          BY <1>4, <5>3
      <4>2. CASE proc[c].job # "replace"
        <5>1. order'[c] = order[c] \/ order'[c] = {}
          BY <1>1, <1>6, <2>3, CleaningMoves DEF Types, StoreTypes
        <5> QED
          BY <1>3, <1>4, <2>1, <4>2, <5>1
      <4> QED
        BY <4>1, <4>2
    <3> QED
      BY <1>6, <2>3, <3>1, <3>2 DEF Cleaning, Walks
  <2> QED
    BY <2>2, <2>3
<1>7. CASE Timers
  <2>1. Grows(ca, ca') /\ order' = order
    BY <1>7, OtherGrows DEF Timers
  <2>2. proc'[c].job = "replace" \/ proc[c].job # "replace"
    <3>1. CASE Crash
      BY <1>1, <1>2, <3>1 DEF Crash, Shapes, Mishap
    <3>2. CASE ~Crash
      BY <1>1, <1>7, <3>2, TimersLeave DEF SameCourse
    <3> QED
      BY <3>1, <3>2
  <2> QED
    BY <1>3, <1>4, <2>1, <2>2
<1> QED
  BY <1>5, <1>6, <1>7 DEF Next, Timers


LEMMA StampedIsHopeless ==
  ASSUME Types, Shapes, NEW a \in Urls, Stamps(CertOf[a], a)
  PROVE  ca[a].status # "none" /\ Hopeless(a)
<1> DEFINE c == CertOf[a]
<1>1. c \in Certs
  BY CertOfAssumption
<1>2. CertShape(c, proc[c], order[c], ca) /\ order[c] \subseteq Urls
  BY <1>1, MyShape
<1>3. ca[a].status # "none"
  BY <1>2 DEF CertShape, Known, Stamps
<1>4. CASE proc[c].job = "discard"
  BY <1>2, <1>3, <1>4 DEF CertShape, JobOf, Hopeless
<1>5. CASE proc[c].job = "replace"
  BY <1>3, <1>5 DEF Hopeless
<1>6. CASE proc[c].job = "epilogue"
  <2>1. \A b \in order[c] : ca[b].status = "valid"
    BY <1>2, <1>6 DEF CertShape, JobOf
  <2> QED
    BY <1>3, <2>1 DEF Hopeless, Final
<1>7. CASE proc[c].job = "orphan"
  BY <1>2, <1>3, <1>7 DEF CertShape, JobOf, Hopeless
<1> QED
  BY <1>3, <1>4, <1>5, <1>6, <1>7 DEF Stamps

\* How a pass goes on, from r to q: visiting, or waiting for the records of its order.
Fetches(q, r, us) == /\ r.pc = "fetch" /\ q.pc = "visit" /\ q.todo = us /\ \A a \in us : q.cur[a] = ca[a]
Drives(q, r) == /\ r.pc \in Driving /\ q.pc \in Driving
                /\ q.cur = r.cur /\ q.bad = r.bad /\ q.todo = r.todo
VisitOf(k, r) ==
    /\ k \in Processes /\ r.pc \in Driving /\ k.cur = r.cur /\ k.todo = r.todo /\ (r.bad => k.bad)
    /\ \/ k.cur[k.at].status \in {"pending", "valid"}
       \/ k.bad
    /\ \/ k.pend = r.pend
       \/ k.pend = r.pend \cup {k.at} /\ k.cur[k.at].status = "pending" /\ k.at \in r.todo
HoldsOn(c, q, r) ==
    /\ r.pc \in Holding /\ q.pc \in Holding /\ q.pend = r.pend
    /\ \A a \in q.pend : q.mem[a].val = r.mem[a].val
    /\ leases \cup r.regs \subseteq leases' \cup q.regs /\ q.regs \subseteq r.regs
    /\ (q.pc # "lease" /\ r.pc = "lease" => q.regs = {})
    /\ (q.pc = "lease" => r.pc = "lease")
    /\ (q.pc \in {"accept", "sent", "await"} => r.pc \in {"accept", "sent", "await"} \/ WaitsAll(c))

LEMMA PassCourse ==
  ASSUME Types, Shapes, NEW c \in Certs, Pass(c)
  PROVE  LET r == proc[c]
             q == proc'[c]
         IN  \/ q.pc \notin Driving \cup Holding
             \/ Fetches(q, r, order[c])
             \/ Drives(q, r)
             \/ \E k : q = Visited(k) /\ VisitOf(k, r)
             \/ HoldsOn(c, q, r)
<1> DEFINE r == proc[c]
           q == proc'[c]
           Goal == \/ q.pc \notin Driving \cup Holding
                   \/ Fetches(q, r, order[c])
                   \/ Drives(q, r)
                   \/ \E k : q = Visited(k) /\ VisitOf(k, r)
                   \/ HoldsOn(c, q, r)
<1> SUFFICES Goal
  OBVIOUS
<1>1. r \in Processes /\ ProcessTypes /\ c \in Procs
  BY MyShape DEF Types
<1>2. ASSUME NEW x, x.pc \notin Driving \cup Holding, Step(c, x) PROVE Goal
  BY <1>1, <1>2, StepAt
<1>3. Ends(c) => Goal
  BY <1>2 DEF Ends, Idle, Driving, Visiting, Holding, Asking
<1>4. CASE Begin(c)
  <2>1. GoTo(c, "load") \/ Step(c, [Discards EXCEPT !.job = "replace"]) \/ Step(c, [Idle EXCEPT !.pc = "recover", !.job = "orphan"])
    BY <1>4 DEF Begin
  <2>2. CASE GoTo(c, "load")
    <3>1. q.pc = "load"
      BY <1>1, <2>2, GoAt
    <3> QED
      BY <3>1 DEF Driving, Visiting, Holding, Asking
  <2>3. [Discards EXCEPT !.job = "replace"].pc = "recover" /\ [Idle EXCEPT !.pc = "recover", !.job = "orphan"].pc = "recover"
    BY DEF Discards, Idle
  <2> QED
    BY <1>2, <2>1, <2>2, <2>3 DEF Driving, Visiting, Holding, Asking
<1>5. CASE NewOrder(c)
  <2>1. GoTo(c, "load") \/ Ends(c)
    BY <1>5 DEF NewOrder
  <2> QED
    BY <1>1, <1>3, <2>1, GoAt DEF Driving, Visiting, Holding, Asking
<1>6. CASE loadAuthorizations(c)
  <2> DEFINE m == [a \in order[c] |-> rows'[a]]
             x == [Idle EXCEPT !.pc = "fetch", !.mem = m]
  <2>1. Step(c, x) \/ Ends(c)
    BY <1>6 DEF loadAuthorizations
  <2> HIDE DEF m
  <2>2. x.pc = "fetch"
    BY DEF Idle
  <2> HIDE DEF x
  <2> QED
    BY <1>2, <1>3, <2>1, <2>2 DEF Driving, Visiting, Holding, Asking
<1>7. CASE fetchAuthzs(c)
  <2> DEFINE answers == [a \in DOMAIN r.mem |-> ca[a]]
             x == [r EXCEPT !.pc = "visit", !.todo = DOMAIN r.mem, !.cur = answers]
  <2>1. r.pc = "fetch" /\ (Step(c, x) \/ Ends(c))
    BY <1>7 DEF fetchAuthzs
  <2>2. \A a \in DOMAIN r.mem : answers[a] = ca[a]
    OBVIOUS
  <2> HIDE DEF answers
  <2>3. x.pc = "visit" /\ x.todo = DOMAIN r.mem /\ x.cur = answers
    BY <1>1 DEF Processes
  <2> HIDE DEF x
  <2>4. DOMAIN r.mem = order[c]
    BY <2>1, MyShape DEF CertShape, PassOf
  <2>5. Fetches(x, r, order[c])
    BY <2>1, <2>2, <2>3, <2>4 DEF Fetches
  <2> QED
    BY <1>1, <1>3, <2>1, <2>5, StepAt
<1>b. ASSUME NEW k \in Processes, r.pc \in Driving, k.cur = r.cur, k.todo = r.todo, r.bad => k.bad,
             k.cur[k.at].status \in {"pending", "valid"} \/ k.bad,
             k.pend = r.pend \/ (k.pend = r.pend \cup {k.at} /\ k.cur[k.at].status = "pending" /\ k.at \in r.todo),
             Step(c, Visited(k))
      PROVE  Goal
  <2>1. VisitOf(k, r) /\ q = Visited(k)
    BY <1>1, <1>b, StepAt DEF VisitOf
  <2> QED
    BY <2>1
<1>8. ASSUME NEW a \in Urls, VisitsClosed(c, a) PROVE Goal
  <2> DEFINE k == [r EXCEPT !.at = a]
             b == [k EXCEPT !.bad = TRUE]
  <2>1. /\ k \in Processes /\ k.cur = r.cur /\ k.todo = r.todo /\ k.bad = r.bad /\ k.pend = r.pend /\ k.at = a
        /\ b \in Processes /\ b.cur = r.cur /\ b.todo = r.todo /\ b.bad /\ b.pend = r.pend /\ b.at = a
    BY <1>1, <1>8 DEF Processes
  <2>2. r.pc \in Driving
    BY <1>8 DEF VisitsClosed, Driving
  <2>3. \/ r.cur[a].status = "valid" /\ Step(c, Visited(k))
        \/ r.cur[a].status = "invalid" /\ Step(c, Visited(b))
        \/ Step(c, Discards) \/ Ends(c)
    BY <1>8, <2>1 DEF VisitsClosed, Ends
  <2> HIDE DEF k, b
  <2>4. Step(c, Discards) => Goal
    BY <1>2 DEF Discards, Idle, Driving, Visiting, Holding, Asking
  <2> QED
    BY <1>3, <1>b, <2>1, <2>2, <2>3, <2>4
<1>c. ASSUME NEW k \in Processes, r.pc \in Driving, k.cur = r.cur, k.todo = r.todo, k.bad = r.bad, k.pend = r.pend,
             k.cur[k.at].status = "pending", NEW rs \in SUBSET Urls, k.at \in r.todo, PersistsPresented(c, k, rs)
      PROVE  Goal
  <2> DEFINE x == [k EXCEPT !.pend = @ \cup {k.at}, !.resumed = @ \cup rs]
             u == [Idle EXCEPT !.pc = "claim", !.job = "undo", !.at = k.at, !.mem = k.mem]
  <2>1. Step(c, Visited(x)) \/ Step(c, u)
    BY <1>c DEF PersistsPresented
  <2>2. x \in Processes /\ x.cur = k.cur /\ x.todo = k.todo /\ x.bad = k.bad /\ x.pend = k.pend \cup {k.at} /\ x.at = k.at
    BY <1>1, <1>c DEF Processes
  <2>3. u.pc = "claim"
    BY DEF Idle
  <2> HIDE DEF x, u
  <2> QED
    BY <1>2, <1>b, <1>c, <2>1, <2>2, <2>3 DEF Driving, Visiting, Holding, Asking
<1>9. ASSUME NEW a \in Urls, Resumes(c, a) PROVE Goal
  <2> DEFINE k == [r EXCEPT !.at = a]
  <2>1. /\ k \in Processes /\ k.cur = r.cur /\ k.todo = r.todo /\ k.bad = r.bad /\ k.pend = r.pend /\ k.at = a
    BY <1>1, <1>9 DEF Processes
  <2>2. r.pc \in Driving /\ r.cur[a].status = "pending" /\ a \in r.todo /\ PersistsPresented(c, k, {a})
    BY <1>9 DEF Resumes, Driving
  <2> HIDE DEF k
  <2> QED
    BY <1>9, <1>c, <2>1, <2>2
<1>d. ASSUME NEW x, x.pc \in Driving, r.pc \in Driving, x.cur = r.cur, x.bad = r.bad, x.todo = r.todo, Step(c, x) PROVE Goal
  BY <1>1, <1>d, StepAt DEF Drives
<1>10. ASSUME NEW a \in Urls, ReleasesStale(c, a) PROVE Goal
  <2> DEFINE x == [r EXCEPT !.pc = "prepare", !.at = a]
  <2>1. x.pc = "prepare" /\ x.cur = r.cur /\ x.bad = r.bad /\ x.todo = r.todo
    BY <1>1 DEF Processes
  <2>2. r.pc = "visit" /\ Step(c, x)
    BY <1>10 DEF ReleasesStale, New
  <2> HIDE DEF x
  <2> QED
    BY <1>d, <2>1, <2>2 DEF Driving, Visiting
<1>11. ASSUME NEW a \in Urls, VisitsNew(c, a) PROVE Goal
  <2> DEFINE tok == r.cur[a].tok
             old == r.mem[a]
             n == [[old EXCEPT !.sent = @ /\ old.tok = tok, !.age = "young"] EXCEPT !.tok = tok]
             pc == IF old.tok = NoTok THEN "present" ELSE "probe"
             x == [r EXCEPT !.at = a, !.mem[a] = n, !.pc = pc]
  <2>1. Step(c, x) \/ Ends(c)
    BY <1>11 DEF VisitsNew
  <2>2. r.pc \in Driving
    BY <1>11 DEF VisitsNew, New, Driving, Visiting
  <2> HIDE DEF n
  <2>3. x.pc \in Driving /\ x.cur = r.cur /\ x.todo = r.todo /\ x.bad = r.bad
    BY <1>1 DEF Processes, Driving, Visiting
  <2> HIDE DEF x
  <2> QED
    BY <1>3, <1>d, <2>1, <2>2, <2>3
<1>12. CASE Probes(c) \/ Present(c)
  <2>1. r.pc \in Driving
    BY <1>12 DEF Probes, Present, Driving, Visiting
  <2>2. Step(c, Presented(r)) \/ GoTo(c, "present") \/ Ends(c)
    BY <1>12 DEF Probes, Present
  <2>3. CASE Step(c, Presented(r))
    BY <1>1, <1>d, <2>1, <2>3, PresentedIs DEF Driving, Visiting
  <2>4. CASE GoTo(c, "present")
    <3> DEFINE x == [r EXCEPT !.pc = "present"]
    <3>1. x.pc = "present" /\ x.cur = r.cur /\ x.todo = r.todo /\ x.bad = r.bad /\ Step(c, x)
      BY <1>1, <2>4 DEF Processes, GoTo
    <3> HIDE DEF x
    <3> QED
      BY <1>d, <2>1, <3>1 DEF Driving, Visiting
  <2> QED
    BY <1>3, <2>2, <2>3, <2>4
<1>13. CASE Persists(c)
  <2>1. r.pc = "persist" /\ PersistsPresented(c, r, {})
    BY <1>13 DEF Persists
  <2>2. r.cur[r.at].status = "pending" /\ r.at \in r.todo
    BY <2>1, MyShape DEF CertShape, PassOf, Visiting
  <2> QED
    BY <1>1, <1>c, <2>1, <2>2 DEF Driving, Visiting
<1>14. CASE Leases(c)
  <2>1. PICK v \in r.regs : add(v) /\ Step(c, [r EXCEPT !.regs = @ \ {v}, !.pc = IF r.regs = {v} THEN "wait" ELSE "lease"])
    BY <1>14 DEF Leases
  <2>2. q = [r EXCEPT !.regs = @ \ {v}, !.pc = IF r.regs = {v} THEN "wait" ELSE "lease"]
    BY <1>1, <2>1, StepAt
  <2>3. r.pc = "lease"
    BY <1>14 DEF Leases
  <2>4. /\ q.pc = (IF r.regs = {v} THEN "wait" ELSE "lease") /\ q.regs = r.regs \ {v} /\ q.pend = r.pend /\ q.mem = r.mem
    BY <1>1, <2>2 DEF Processes
  <2>5. leases' = leases \cup {v}
    BY <2>1 DEF add
  <2> HIDE DEF q, r
  <2>6. HoldsOn(c, q, r)
    BY <2>3, <2>4, <2>5 DEF HoldsOn, Holding, Asking
  <2> QED
    BY <2>6
\* A step of a waiting pass that registers nothing.
<1>e. ASSUME NEW x, r.pc \in Holding, x.pc \in Holding \ {"lease"}, r.pc # "lease", x.pend = r.pend,
             \A a \in r.pend : x.mem[a].val = r.mem[a].val,
             x.regs = r.regs, leases' = leases, Step(c, x),
             x.pc \in {"accept", "sent", "await"} => r.pc \in {"accept", "sent", "await"} \/ WaitsAll(c)
      PROVE  Goal
  <2>1. q = x
    BY <1>1, <1>e, StepAt
  <2>2. HoldsOn(c, x, r)
    BY <1>e DEF HoldsOn
  <2> QED
    BY <2>1, <2>2
<1>15. CASE WaitsAll(c) \/ RecordsSent(c)
  <2> DEFINE unsent == {a \in r.pend : ~r.mem[a].sent}
             k == [r EXCEPT !.todo = unsent]
             s == [r EXCEPT !.todo = @ \ {r.at}]
  <2>1. /\ (r.pc = "sent" \/ (r.pc = "wait" /\ WaitsAll(c))) /\ leases' = leases
        /\ Step(c, Accepting(k)) \/ Step(c, Accepting(s)) \/ Ends(c)
    BY <1>15 DEF WaitsAll, RecordsSent
  <2> HIDE DEF unsent
  <2>2. ASSUME NEW y \in {k, s}
        PROVE  LET x == Accepting(y) IN x.pc \in {"accept", "await"} /\ x.pend = r.pend /\ x.mem = r.mem /\ x.regs = r.regs
    BY <1>1 DEF Accepting, Processes
  <2> HIDE DEF k, s
  <2> QED
    BY <1>3, <1>e, <2>1, <2>2 DEF Holding, Asking
<1>16. CASE GivesUpWaiting(c)
  BY <1>3, <1>16 DEF GivesUpWaiting
<1>17. ASSUME NEW a \in Urls, Accepts(c, a) PROVE Goal
  <2> DEFINE m == [r.mem[a] EXCEPT !.sent = TRUE]
             mem == [r.mem EXCEPT ![a] = m]
             x == [r EXCEPT !.pc = "sent", !.at = a, !.mem[a].sent = TRUE]
  <2>1. leases' = leases /\ (Step(c, x) \/ Ends(c)) /\ r.pc = "accept" /\ a \in r.todo
    BY <1>17 DEF Accepts
  <2>2. a \in DOMAIN r.mem /\ r.mem \in Copies(Rows)
    BY <1>1, <2>1, MyShape DEF ProcessShape, Processes
  <2>3. r.mem[a] \in Rows
    BY <2>2, CopyGet
  <2>4. m.val = r.mem[a].val
    BY <2>3 DEF Rows
  <2>5. \A b \in DOMAIN r.mem : mem[b].val = r.mem[b].val
    BY <2>2, <2>4, CopiesOf
  <2>6. x = [r EXCEPT !.pc = "sent", !.at = a, !.mem = mem]
    OBVIOUS
  <2> HIDE DEF x, mem
  <2>7. x.pc = "sent" /\ x.pend = r.pend /\ x.mem = mem /\ x.regs = r.regs
    BY <1>1, <2>6 DEF Processes
  <2>8. r.pend \subseteq DOMAIN r.mem
    BY MyShape DEF ProcessShape
  <2> QED
    BY <1>3, <1>e, <2>1, <2>5, <2>7, <2>8 DEF Holding, Asking
<1>18. CASE Polls(c)
  <2> DEFINE left == {a \in r.todo : ca[a].status \notin {"valid", "invalid"}}
             cur == [a \in DOMAIN r.cur |-> ca[a]]
             x == [r EXCEPT !.todo = left, !.cur = cur]
  <2>1. leases' = leases /\ r.pc = "await"
    BY <1>18 DEF Polls
  <2>2. Step(c, Discards) \/ Step(c, CleansUp(r, r.pend)) \/ Step(c, x) \/ Ends(c)
    BY <1>18 DEF Polls
  <2> HIDE DEF left, cur
  <2>3. x.pc = "await" /\ x.pend = r.pend /\ x.mem = r.mem /\ x.regs = r.regs
    BY <1>1, <2>1 DEF Processes
  <2>4. Discards.pc = "recover" /\ CleansUp(r, r.pend).pc = "recover"
    BY DEF Discards, CleansUp, Idle
  <2> HIDE DEF x
  <2>5. Step(c, x) => Goal
    BY <1>e, <2>1, <2>3 DEF Holding, Asking
  <2>6. Step(c, Discards) \/ Step(c, CleansUp(r, r.pend)) => Goal
    BY <1>2, <2>4 DEF Driving, Visiting, Holding, Asking
  <2> QED
    BY <1>3, <2>2, <2>5, <2>6
<1> HIDE DEF Goal
<1>a. CASE \E a \in Urls : VisitsClosed(c, a) \/ Resumes(c, a) \/ ReleasesStale(c, a) \/ VisitsNew(c, a) \/ Accepts(c, a)
  BY <1>8, <1>9, <1>10, <1>11, <1>17, <1>a
<1> QED
  BY <1>4, <1>5, <1>6, <1>7, <1>12, <1>13, <1>14, <1>15, <1>16, <1>18, <1>a DEF Pass


\* A pass with course q and order us waits for no record the sweep touches.
Aloof(q, us) ==
    /\ (q.pc \in Driving => \A a \in us : Touched(a) /\ q.cur[a].status = "pending" =>
            q.bad \/ \E b \in q.todo : q.cur[b].status \in Broken)
    /\ (q.pc \in Holding => \A a \in q.pend : ~Touched(a))

LEMMA VisitedAloof ==
  ASSUME NEW k \in Processes, NEW us, k.pend \subseteq us, \A a \in k.pend : k.cur[a].status = "pending",
         \A a \in us : Touched(a) /\ k.cur[a].status = "pending" =>
             k.bad \/ \E b \in k.todo \ {k.at} : k.cur[b].status \in Broken
  PROVE  Aloof(Visited(k), us)
<1> DEFINE q == [k EXCEPT !.pc = "visit", !.todo = @ \ {k.at}, !.at = <<>>]
           l == [q EXCEPT !.pc = "lease", !.regs = {ValueOf(a, q.mem[a].val) : a \in q.pend}]
<1>1. /\ q.pc = "visit" /\ q.todo = k.todo \ {k.at} /\ q.pend = k.pend /\ q.cur = k.cur /\ q.bad = k.bad
      /\ l.pc = "lease" /\ l.pend = k.pend
  BY DEF Processes
<1>2. Visited(k) = IF q.todo # {} THEN q ELSE IF q.bad THEN Discards
                   ELSE IF q.pend = {} THEN CleansUp(q, DOMAIN q.mem) ELSE l
  BY DEF Visited
<1>3. Discards.pc = "recover" /\ CleansUp(q, DOMAIN q.mem).pc = "recover"
  BY DEF Discards, CleansUp, Idle
<1> HIDE DEF q, l
<1>4. Aloof(q, us)
  BY <1>1 DEF Aloof, Driving, Visiting, Holding, Asking
<1>5. ASSUME q.todo = {}, ~q.bad PROVE Aloof(l, us)
  BY <1>1, <1>5 DEF Aloof, Driving, Visiting, Holding, Asking
<1>6. ASSUME NEW x, x.pc = "recover" PROVE Aloof(x, us)
  BY <1>6 DEF Aloof, Driving, Visiting, Holding, Asking
<1> QED
  BY <1>2, <1>3, <1>4, <1>5, <1>6

LEMMA PassAloof ==
  ASSUME Types, Shapes, SweepIsApart, NEW c \in Certs, Pass(c)
  PROVE  Aloof(proc'[c], order[c])
<1> DEFINE r == proc[c]
           q == proc'[c]
<1>1. /\ Aloof(r, order[c]) /\ order[c] \subseteq Urls
      /\ \A a \in Urls : Touched(a) => Hopeless(a)
  BY MyShape DEF SweepIsApart, Aloof
<1>2. CASE q.pc \notin Driving \cup Holding
  BY <1>2 DEF Aloof
<1>3. CASE Fetches(q, r, order[c])
  <2>1. r.job = "none"
    BY PassWorks
  <2>2. ASSUME NEW a \in order[c], Touched(a), q.cur[a].status = "pending"
        PROVE  \E b \in q.todo : q.cur[b].status \in Broken
    <3>1. CertOf[a] = c
      BY MyShape
    <3>2. ca[a].status \notin Final
      BY <1>3, <2>2 DEF Fetches, Final
    <3>3. LostIn(order[c], ca)
      BY <1>1, <2>1, <2>2, <3>1, <3>2 DEF Hopeless
    <3> QED
      BY <1>3, <3>3 DEF LostIn, Fetches
  <2> QED
    BY <1>3, <2>2 DEF Aloof, Fetches, Holding, Asking
<1>4. CASE Drives(q, r)
  BY <1>1, <1>4 DEF Aloof, Drives, Driving, Visiting, Holding, Asking
<1>5. ASSUME NEW k, q = Visited(k), VisitOf(k, r) PROVE Aloof(q, order[c])
  <2>1. /\ r.pc \in Driving /\ (\A a \in r.pend : r.cur[a].status = "pending")
        /\ DOMAIN r.mem = order[c] /\ ProcessShape(r)
    BY <1>5, DriveShape DEF VisitOf
  <2>2. \A a \in k.pend : k.cur[a].status = "pending"
    BY <1>5, <2>1 DEF VisitOf
  <2>3. k.pend \subseteq order[c]
    BY <1>5, <2>1 DEF VisitOf, ProcessShape
  <2>4. ASSUME NEW a \in order[c], Touched(a), k.cur[a].status = "pending", ~k.bad
        PROVE  \E b \in k.todo \ {k.at} : k.cur[b].status \in Broken
    <3>1. PICK b \in r.todo : r.cur[b].status \in Broken
      BY <1>1, <1>5, <2>1, <2>4 DEF Aloof, VisitOf
    <3>2. b # k.at
      BY <1>5, <2>4, <3>1 DEF VisitOf, Broken
    <3> QED
      BY <1>5, <3>1, <3>2 DEF VisitOf
  <2> QED
    BY <1>5, <2>2, <2>3, <2>4, VisitedAloof DEF VisitOf
<1>6. CASE HoldsOn(c, q, r)
  BY <1>1, <1>6 DEF Aloof, HoldsOn, Driving, Visiting, Holding, Asking
<1> QED
  BY <1>2, <1>3, <1>4, <1>5, <1>6, PassCourse


\* A pass that drives or waits keeps its order.
LEMMA DrivenOrder ==
  ASSUME Types, Shapes, NEW c \in Certs, Pass(c), proc'[c].pc \in Driving \cup Holding
  PROVE  order'[c] = order[c]
<1>1. CASE order[c] = {} /\ proc[c].pc = "order"
  <2>1. ~Fetches(proc'[c], proc[c], order[c]) /\ ~Drives(proc'[c], proc[c]) /\ ~HoldsOn(c, proc'[c], proc[c])
        /\ ~(\E k : VisitOf(k, proc[c]))
    BY <1>1 DEF Fetches, Drives, HoldsOn, VisitOf, Driving, Visiting, Holding, Asking
  <2> QED
    BY <2>1, PassCourse
<1> QED
  BY <1>1, PassMoves

\* A clean-up never drives an order.
LEMMA CleaningCourse ==
  ASSUME Types, Shapes, NEW p \in Procs, Cleaning(p)
  PROVE  proc[p].pc \in Cleanings /\ proc'[p].pc \in Cleanings \cup {"idle", "order"}
<1>1. ASSUME NEW x, Step(p, x), x.pc \in {"idle", "order", "recover"} PROVE proc'[p].pc \in Cleanings \cup {"idle", "order"}
  BY <1>1, StepAt DEF Types, Cleanings
<1>2. CASE Walks(p)
  <2>1. proc[p].pc \in Cleanings
    BY <1>2 DEF Walks, Recovers, Registers, Drops, Claims, releaseRowStaleLease, CleanUp, LooksAgain, Gone, Kept, Takes,
       Looks, Cleanings, Removing, Denying
  <2> QED
    BY <1>2, <2>1, WalksOn DEF CleansOn, Idle
<1>3. CASE Lists(p)
  BY <1>3, ListsOn DEF CleansOn, Idle, Cleanings
<1>4. CASE CleanedAll(p)
  <2>1. Idle.pc = "idle" /\ [Idle EXCEPT !.pc = "order"].pc = "order"
        /\ [Idle EXCEPT !.pc = "recover", !.job = "epilogue"].pc = "recover"
    BY DEF Idle
  <2>2. \/ Step(p, Idle) \/ Step(p, [Idle EXCEPT !.pc = "order"])
        \/ Step(p, [Idle EXCEPT !.pc = "recover", !.job = "epilogue"])
    BY <1>4 DEF CleanedAll, Ends
  <2>3. proc[p].pc \in Cleanings
    BY <1>4 DEF CleanedAll, Cleanings
  <2> QED
    BY <1>1, <2>1, <2>2, <2>3
<1> QED
  BY <1>2, <1>3, <1>4 DEF Cleaning, Walks

\* What a step finds true of the shapes, the next one does too.
LEMMA NextShape ==
  ASSUME Types, Shapes, Next, NEW c \in Certs
  PROVE  ProcessShape(proc'[c]) /\ proc'[c] \in Processes /\ CertShape(c, proc'[c], order'[c], ca')
<1>1. Types' /\ Shapes'
  BY TypesKept, ShapesKept
<1>2. c \in Procs
  BY CertsAreProcs
<1> QED
  BY <1>1, <1>2 DEF Types, ProcessTypes, Shapes

LEMMA ApartKept ==
  ASSUME Types, Shapes, Next, Undisturbed(setting), setting.triggers, SweepIsApart
  PROVE  SweepIsApart'
<1>1. ASSUME NEW a \in Urls, Touched(a)' PROVE ca'[a].status # "none" /\ Hopeless(a)'
  <2>1. ca[a].status # "none" /\ Hopeless(a)
    BY <1>1, TouchedBefore, StampedIsHopeless DEF SweepIsApart
  <2>2. Hopeless(a)'
    BY <2>1, HopelessStays
  <2>3. Grows(ca, ca')
    BY PassGrows, CleaningGrows, OtherGrows, SameGrows DEF Next
  <2> QED
    BY <2>1, <2>2, <2>3 DEF Grows
<1>2. ASSUME NEW c \in Certs, NEW a \in order[c], proc[c].pc \notin Cleanings, Touched(a)' PROVE Touched(a)
  <2>1. a \in Urls /\ CertOf[a] = c
    BY MyShape, <1>2
  <2>2. ~Kept(c)
    BY <1>2 DEF Kept, Cleanings, Removing
  <2> QED
    BY <1>2, <2>1, <2>2, TouchedBefore DEF Stamps
<1>3. ASSUME NEW c \in Certs
      PROVE  LET r == proc'[c] IN
        /\ (r.pc \in Driving => \A a \in order'[c] : Touched(a)' /\ r.cur[a].status = "pending" =>
                r.bad \/ \E b \in r.todo : r.cur[b].status \in Broken)
        /\ (r.pc \in Holding => \A a \in r.pend : ~Touched(a)')
  <2> DEFINE r == proc[c]
             q == proc'[c]
  <2>1. c \in Procs /\ c # Sweeper /\ ProcessShape(r) /\ Aloof(r, order[c]) /\ order[c] \subseteq Urls
    BY MyShape, CertsAreProcs DEF SweepIsApart, Aloof
  <2>2. q.pc \in Holding => q.pend \subseteq order'[c]
    <3>1. ProcessShape(q) /\ CertShape(c, q, order'[c], ca')
      BY NextShape
    <3> QED
      BY <3>1 DEF ProcessShape, CertShape, PassOf
  <2>3. ASSUME SameCourse(q, r), order'[c] = order[c]
        PROVE  Aloof(q, order'[c]) /\ (q.pc \in Driving \cup Holding => order'[c] = order[c] /\ r.pc \notin Cleanings)
    BY <2>1, <2>3 DEF SameCourse, Aloof, Driving, Visiting, Holding, Asking, Cleanings, Removing, Denying
  <2>4. Aloof(q, order'[c]) /\ (q.pc \in Driving \cup Holding => order'[c] = order[c] /\ r.pc \notin Cleanings)
    <3>1. ASSUME NEW d \in Certs, Pass(d), d # c
          PROVE  Aloof(q, order'[c]) /\ (q.pc \in Driving \cup Holding => order'[c] = order[c] /\ r.pc \notin Cleanings)
      BY <2>1, <2>3, <3>1, PassMoves DEF SameCourse
    <3>2. CASE Pass(c)
      <4>1. Aloof(q, order[c]) /\ r.pc \notin Cleanings
        BY <3>2, PassAloof, PassWorks
      <4>2. CASE q.pc \in Driving \cup Holding
        BY <3>2, <4>1, <4>2, DrivenOrder
      <4> QED
        BY <4>2 DEF Aloof
    <3>3. ASSUME NEW p \in Procs, Cleaning(p), p # c
          PROVE  Aloof(q, order'[c]) /\ (q.pc \in Driving \cup Holding => order'[c] = order[c] /\ r.pc \notin Cleanings)
      <4>1. q = r /\ order'[c] = order[c]
        BY <2>1, <3>3, CleaningMoves DEF Types, StoreTypes
      <4> QED
        BY <2>3, <4>1 DEF SameCourse
    <3>4. CASE Cleaning(c)
      <4>1. q.pc \notin Driving \cup Holding
        BY <2>1, <3>4, CleaningCourse DEF Driving, Visiting, Holding, Asking, Cleanings, Removing, Denying
      <4> QED
        BY <4>1 DEF Aloof
    <3>5. CASE Timers
      <4>1. CASE Crash
        <5>1. q = Idle
          BY <2>1, <4>1 DEF Crash
        <5> QED
          BY <5>1 DEF Aloof, Idle, Driving, Visiting, Holding, Asking
      <4>2. CASE ~Crash
        <5>1. SameCourse(q, r)
          BY <2>1, <3>5, <4>2, TimersLeave
        <5>2. order' = order
          BY <3>5, OtherGrows DEF Timers
        <5> QED
          BY <2>3, <5>1, <5>2
      <4> QED
        BY <4>1, <4>2
    <3> QED
      BY <3>1, <3>2, <3>3, <3>4, <3>5 DEF Next, Timers
  <2>5. ASSUME NEW a \in order'[c], q.pc \in Driving \cup Holding, Touched(a)' PROVE Touched(a)
    BY <1>2, <2>4, <2>5
  <2> HIDE DEF q
  <2> QED
    BY <2>2, <2>4, <2>5 DEF Aloof, q
<1> QED
  BY <1>1, <1>3 DEF SweepIsApart



(* Without overlap one process works at a time *)

\* Who acts while passes do not overlap is alone: it was at work, or it starts when nobody is.
LEMMA ActsAlone ==
  ASSUME Types, OneAtATime, ~setting.triggers, NEW p \in Procs,
         (p \in Certs /\ Pass(p)) \/ Cleaning(p) \/ (BeginsSweep /\ p = Sweeper),
         Shapes
  PROVE  \A q \in Procs : q # p => proc[q].pc = "idle" /\ proc'[q] = proc[q]
<1>1. \A q \in Procs : q # p => proc'[q] = proc[q]
  <2>1. ASSUME BeginsSweep, p = Sweeper PROVE \A q \in Procs : q # p => proc'[q] = proc[q]
    BY <2>1, StepAt DEF BeginsSweep, Types
  <2> QED
    BY <2>1, PassMoves, CleaningMoves
<1>2. proc[p].pc # "idle" \/ MayStart
  <2>1. Cleaning(p) => proc[p].pc # "idle"
    BY CleaningCourse DEF Cleanings, Removing, Denying
  <2>2. ASSUME NEW a \in Urls, VisitsClosed(p, a) \/ Resumes(p, a) \/ ReleasesStale(p, a) \/ VisitsNew(p, a) \/ Accepts(p, a)
        PROVE  proc[p].pc # "idle"
    BY <2>2 DEF VisitsClosed, Resumes, ReleasesStale, New, VisitsNew, Accepts
  <2>3. ASSUME NewOrder(p) \/ loadAuthorizations(p) \/ fetchAuthzs(p) \/ Probes(p) \/ Present(p) \/ Persists(p)
               \/ Leases(p) \/ WaitsAll(p) \/ GivesUpWaiting(p) \/ RecordsSent(p) \/ Polls(p)
        PROVE  proc[p].pc # "idle"
    BY <2>3 DEF NewOrder, loadAuthorizations, fetchAuthzs, Probes, Present, Persists, Leases, WaitsAll,
       GivesUpWaiting, RecordsSent, Polls
  <2>4. Begin(p) \/ BeginsSweep => MayStart
    BY DEF Begin, BeginsSweep
  <2> QED
    BY <2>1, <2>2, <2>3, <2>4 DEF Pass
<1>3. MayStart => \A q \in Procs : proc[q].pc = "idle"
  BY DEF MayStart, Idle
<1> QED
  BY <1>1, <1>2, <1>3 DEF OneAtATime

LEMMA OneKept ==
  ASSUME Types, Shapes, Next, OneAtATime, ~setting.triggers
  PROVE  OneAtATime'
<1>1. ASSUME NEW p \in Procs, (p \in Certs /\ Pass(p)) \/ Cleaning(p) \/ (BeginsSweep /\ p = Sweeper)
      PROVE  OneAtATime'
  <2>1. \A q \in Procs : q # p => proc'[q].pc = "idle"
    BY <1>1, ActsAlone
  <2> QED
    BY <2>1 DEF OneAtATime
<1>2. CASE Crash
  BY <1>2 DEF Crash, OneAtATime, Idle
<1>3. CASE Timers /\ ~Crash /\ ~BeginsSweep
  <2>1. \A q \in Procs : proc'[q].pc = proc[q].pc
    BY <1>3, TimersLeave DEF SameCourse
  <2> QED
    BY <2>1 DEF OneAtATime
<1> QED
  BY <1>1, <1>2, <1>3, CertsAreProcs DEF Next, Timers



(* What a waiting pass relies on is held and stays up *)

\* Nobody else works on an authorization whose record a pass waits for.
LEMMA HolderIsAlone ==
  ASSUME Types, Shapes, Apart, NEW c \in Certs, proc[c].pc \in Holding, NEW a \in proc[c].pend,
         NEW p \in Procs, p # c, proc[p].pc # "idle"
  PROVE  a \notin DOMAIN proc[p].mem
<1>1. CertOf[a] = c /\ c \in Procs
  BY MyShape DEF ProcessShape, CertShape
<1>2. CASE p \in Certs
  BY <1>1, <1>2, MyShape DEF CertShape
<1>3. CASE p = Sweeper /\ setting.triggers
  BY <1>3 DEF Apart, SweepIsApart, Touched, Swept
<1>4. CASE p = Sweeper /\ ~setting.triggers
  BY <1>1, <1>4 DEF Apart, OneAtATime, Holding, Asking
<1> QED
  BY <1>2, <1>3, <1>4 DEF Procs

\* What the others do leaves a waiting pass, its leases and its records alone.
LEMMA OthersLeave ==
  ASSUME Types, Shapes, Next, Undisturbed(setting), Apart, late.op # "delete",
         NEW c \in Certs, ~Pass(c), proc'[c].pc \in Holding
  PROVE  LET r == proc[c]
             q == proc'[c]
         IN  /\ q.pc = r.pc /\ q.pend = r.pend /\ q.regs = r.regs
             /\ \A a \in r.pend : LET v == ValueOf(a, r.mem[a].val) IN
                    /\ q.mem[a].val = r.mem[a].val
                    /\ v \in leases => v \in leases' /\ (v \in dns => v \in dns')
<1> DEFINE r == proc[c]
           q == proc'[c]
           v(a) == ValueOf(a, r.mem[a].val)
<1>1. c \in Procs /\ c # Sweeper /\ r.pend \subseteq DOMAIN r.mem
  BY MyShape, CertsAreProcs DEF ProcessShape
<1>2. ASSUME NEW d \in Certs, Pass(d)
      PROVE  q = r /\ \A a \in r.pend : v(a) \in leases => v(a) \in leases' /\ (v(a) \in dns => v(a) \in dns')
  <2>1. d # c /\ d \in Procs /\ q = r
    BY <1>1, <1>2, PassMoves, CertsAreProcs
  <2>2. r.pc \in Holding
    BY <2>1
  <2>3. dns \subseteq dns'
    BY <1>2, PassRecords
  <2>4. ASSUME NEW a \in r.pend, v(a) \in leases PROVE v(a) \in leases'
    <3>1. v(a) \in leases' \/ (proc[d].pc = "visit" /\ a \in DOMAIN proc[d].mem)
      BY <1>2, <2>4, PassRecords, ValueFirst
    <3>2. proc[d].pc = "visit" => a \notin DOMAIN proc[d].mem
      BY <2>1, <2>2, HolderIsAlone
    <3> QED
      BY <3>1, <3>2
  <2> QED
    BY <2>1, <2>3, <2>4
<1>3. ASSUME NEW p \in Procs, Cleaning(p)
      PROVE  q = r /\ \A a \in r.pend : v(a) \in leases => v(a) \in leases' /\ (v(a) \in dns => v(a) \in dns')
  <2>1. p # c
    <3>1. Cleaning(c) => q.pc \notin Holding
      BY <1>1, CleaningCourse DEF Holding, Asking, Cleanings, Removing, Denying
    <3> QED
      BY <1>3, <3>1
  <2>2. q = r /\ r.pc \in Holding
    BY <1>1, <1>3, <2>1, CleaningMoves
  <2>3. "hang delete" \notin setting.faults
    BY DEF Undisturbed
  <2>4. ASSUME NEW a \in r.pend, v(a) \in leases, v(a) \notin leases' PROVE FALSE
    <3>1. \A x \in leases : x \in leases' \/ (x[1] = proc[p].at /\ proc[p].at \in DOMAIN proc[p].mem /\ proc[p].pc # "idle")
      BY <1>3, <2>3, CleaningRecords
    <3>2. v(a)[1] = a
      BY ValueFirst
    <3>3. a = proc[p].at /\ proc[p].at \in DOMAIN proc[p].mem /\ proc[p].pc # "idle"
      BY <2>4, <3>1, <3>2
    <3> QED
      BY <2>1, <2>2, <3>3, HolderIsAlone
  <2>5. ASSUME NEW a \in r.pend, v(a) \in leases, v(a) \in dns, v(a) \notin dns' PROVE FALSE
    <3> DEFINE w == Wanted(p)
    <3>1. dns' = DeleteLeaves(w) /\ ~LeavesToOthers(w) /\ proc[p].pc = "remove" /\ proc[p].at \in DOMAIN proc[p].mem
      BY <1>3, <2>3, <2>5, CleaningRecords
    <3>2. w[1] \in DOMAIN proc[p].mem
      BY <3>1, ValueFirst DEF Wanted
    <3>3. a \notin DOMAIN proc[p].mem
      BY <2>1, <2>2, <3>1, HolderIsAlone
    <3>4. v(a) # w
      BY <3>2, <3>3, ValueFirst
    <3> HIDE DEF w, v
    <3> QED
      BY <2>5, <3>1, <3>4 DEF DeleteLeaves, LeavesToOthers, OthersLive
  <2> QED
    BY <2>2, <2>4, <2>5
<1>4. CASE Timers
  <2>1. ~Crash
    BY <1>1 DEF Crash, Idle, Holding, Asking
  <2>2. SameCourse(q, r) /\ q.regs = r.regs /\ \A a \in DOMAIN r.mem : q.mem[a].val = r.mem[a].val
    BY <1>1, <1>4, <2>1, TimersLeave
  <2>3. dns \subseteq dns' /\ leases' = leases
    BY <1>4, <2>1, OtherRecords DEF Timers
  <2> QED
    BY <1>1, <2>2, <2>3 DEF SameCourse
<1> QED
  BY <1>2, <1>3, <1>4 DEF Next, Timers


\* Only the end of the visits opens a wait.
LEMMA VisitedHolds ==
  ASSUME NEW k \in Processes
  PROVE  LET q == Visited(k) IN
         /\ q.pc \in Holding => q.pc = "lease" /\ q.regs = {ValueOf(a, q.mem[a].val) : a \in q.pend}
<1> DEFINE q == [k EXCEPT !.pc = "visit", !.todo = @ \ {k.at}, !.at = <<>>]
           regs == {ValueOf(a, q.mem[a].val) : a \in q.pend}
           l == [q EXCEPT !.pc = "lease", !.regs = regs]
<1>1. Visited(k) = IF q.todo # {} THEN q ELSE IF q.bad THEN Discards
                   ELSE IF q.pend = {} THEN CleansUp(q, DOMAIN q.mem) ELSE l
  BY DEF Visited
<1>2. Discards.pc = "recover" /\ CleansUp(q, DOMAIN q.mem).pc = "recover"
  BY DEF Discards, CleansUp, Idle
<1>3. q \in [pc : Pcs, job : Jobs, todo : SUBSET Urls, at : Urls \cup {<<>>}, mem : Copies(Rows),
             cur : Copies(Authzs), pend : SUBSET Urls, resumed : SUBSET Urls, regs : SUBSET Values,
             bad : BOOLEAN, early : BOOLEAN] /\ q.pc = "visit"
  BY DEF Processes, Pcs
<1> HIDE DEF q
<1>4. l.mem = q.mem /\ l.pend = q.pend /\ l.pc = "lease" /\ l.regs = regs
  BY <1>3
<1> HIDE DEF l
<1> QED
  BY <1>1, <1>2, <1>3, <1>4 DEF Holding, Asking

LEMMA HeldKept ==
  ASSUME Types, Shapes, Next, Undisturbed(setting), Apart, Held, late.op # "delete"
  PROVE  Held'
<1> SUFFICES ASSUME NEW c \in Certs
             PROVE  LET q == proc'[c] IN
                    /\ (q.pc \in Holding => \A a \in q.pend : ValueOf(a, q.mem[a].val) \in leases' \cup q.regs)
                    /\ (q.pc \in Holding \ {"lease"} => q.regs = {})
  BY DEF Held
<1> DEFINE r == proc[c]
           q == proc'[c]
<1>1. CASE q.pc \notin Holding
  BY <1>1
<1>2. CASE Pass(c)
  <2>1. CASE Fetches(q, r, order[c]) \/ Drives(q, r)
    <3>1. q.pc \in Driving
      BY <2>1 DEF Fetches, Drives, Driving
    <3> QED
      BY <1>1, <3>1 DEF Driving, Visiting, Holding, Asking
  <2>2. ASSUME NEW k, q = Visited(k), VisitOf(k, r), q.pc \in Holding
        PROVE  q.pc = "lease" /\ \A a \in q.pend : ValueOf(a, q.mem[a].val) \in leases' \cup q.regs
    BY <2>2, VisitedHolds DEF VisitOf
  <2>3. CASE HoldsOn(c, q, r)
    <3>1. /\ r.pc \in Holding /\ q.pend = r.pend /\ (\A a \in q.pend : q.mem[a].val = r.mem[a].val)
          /\ leases \cup r.regs \subseteq leases' \cup q.regs
      BY <2>3 DEF HoldsOn
    <3>2. \A a \in r.pend : ValueOf(a, r.mem[a].val) \in leases \cup r.regs
      BY <3>1 DEF Held
    <3>3. q.pc \in Holding \ {"lease"} => q.regs = {}
      BY <2>3 DEF HoldsOn, Held
    <3> QED
      BY <3>1, <3>2, <3>3
  <2> QED
    BY <1>1, <1>2, <2>1, <2>2, <2>3, PassCourse
<1>3. CASE ~Pass(c) /\ q.pc \in Holding
  <2>1. /\ q.pc = r.pc /\ q.pend = r.pend /\ q.regs = r.regs
        /\ \A a \in r.pend : /\ q.mem[a].val = r.mem[a].val
                             /\ ValueOf(a, r.mem[a].val) \in leases => ValueOf(a, r.mem[a].val) \in leases'
    BY <1>3, OthersLeave
  <2>2. r.pc \in Holding
    BY <1>3, <2>1
  <2> QED
    BY <2>1, <2>2 DEF Held
<1> QED
  BY <1>1, <1>2, <1>3

LEMMA LateKept ==
  ASSUME Types, Shapes, Next, Undisturbed(setting), late.op # "delete"
  PROVE  late'.op # "delete"
<1>1. "hang delete" \notin setting.faults
  BY DEF Undisturbed
<1> QED
  BY <1>1, PassRecords, CleaningRecords, OtherRecords DEF Next

\* A wait that ends has seen its records up, unless everybody is silent.
LEMMA WaitedIsUp ==
  ASSUME NEW c \in Certs, WaitsAll(c), "blackout" \notin setting.faults, NEW a \in proc[c].pend
  PROVE  ValueOf(a, proc[c].mem[a].val) \in dns
<1> DEFINE v == ValueOf(a, proc[c].mem[a].val)
           T(truth) == {truth[b] : b \in proc[c].pend}
<1>1. PICK truth \in [proc[c].pend -> {"everywhere", "somewhere", "nowhere"}] :
          /\ \A b \in proc[c].pend : truth[b] \in Truths(ValueOf(b, proc[c].mem[b].val))
          /\ T(truth) \in Confirmable["blackout" \in setting.faults]
  BY DEF WaitsAll
<1>2. ("blackout" \in setting.faults) = FALSE
  OBVIOUS
<1>3. T(truth) \in Confirmable[FALSE]
  BY <1>1, <1>2
<1>4. truth[a] # "nowhere"
  BY <1>3, NowhereIsNeverConfirmed
<1>5. truth[a] \in Truths(v)
  BY <1>1
<1> HIDE DEF v
<1> QED
  BY <1>4, <1>5 DEF Truths, v

LEMMA AwaitedKept ==
  ASSUME Types, Shapes, Next, Undisturbed(setting), Apart, Held, late.op # "delete", AwaitedStays
  PROVE  AwaitedStays'
<1> DEFINE Awaiting == {"accept", "sent", "await"}
<1> SUFFICES ASSUME NEW c \in Certs, proc'[c].pc \in Awaiting, NEW a \in proc'[c].pend, ca'[a].status = "pending"
             PROVE  ValueOf(a, proc'[c].mem[a].val) \in dns'
  BY DEF AwaitedStays
<1> DEFINE r == proc[c]
           q == proc'[c]
           v == ValueOf(a, r.mem[a].val)
<1>1. q.pc \in Holding
  BY DEF Holding, Asking
<1>2. ASSUME a \in r.pend PROVE ca[a].status = "pending"
  <2>1. a \in Urls /\ ca[a].status # "none"
    BY <1>2, MyShape DEF ProcessShape, CertShape, Known
  <2>2. Grows(ca, ca')
    BY PassGrows, CleaningGrows, OtherGrows, SameGrows DEF Next
  <2>3. ca[a].status \in Statuses
    BY <2>1 DEF Types, CaTypes, Authzs
  <2> QED
    BY <2>1, <2>2, <2>3 DEF Grows, Final, Statuses
<1>3. CASE Pass(c)
  <2>1. ~Fetches(q, r, order[c]) /\ ~Drives(q, r)
    BY DEF Fetches, Drives, Driving, Visiting
  <2>2. ASSUME NEW k, q = Visited(k), VisitOf(k, r) PROVE FALSE
    <3>1. q.pc = "lease"
      BY <1>1, <2>2, VisitedHolds DEF VisitOf
    <3> QED
      BY <3>1
  <2>3. HoldsOn(c, q, r)
    BY <1>1, <1>3, <2>1, <2>2, PassCourse
  <2>4. a \in r.pend /\ q.mem[a].val = r.mem[a].val /\ (r.pc \in Awaiting \/ WaitsAll(c))
    BY <2>3 DEF HoldsOn
  <2>5. v \in dns
    <3>1. "blackout" \notin setting.faults
      BY DEF Undisturbed
    <3>2. CASE WaitsAll(c)
      BY <2>4, <3>1, <3>2, WaitedIsUp
    <3>3. CASE r.pc \in Awaiting
      BY <1>2, <2>4, <3>3 DEF AwaitedStays
    <3> QED
      BY <2>4, <3>2, <3>3
  <2>6. dns \subseteq dns'
    BY <1>3, PassRecords
  <2> QED
    BY <2>4, <2>5, <2>6
<1>4. CASE ~Pass(c)
  <2>1. /\ q.pc = r.pc /\ q.pend = r.pend
        /\ q.mem[a].val = r.mem[a].val
        /\ v \in leases => (v \in dns => v \in dns')
    BY <1>1, <1>4, OthersLeave
  <2>2. v \in leases
    BY <1>1, <2>1 DEF Held
  <2>3. v \in dns
    BY <1>2, <2>1 DEF AwaitedStays
  <2> QED
    BY <2>1, <2>2, <2>3
<1> QED
  BY <1>3, <1>4



(* Rows and records without overlap: what a clean-up deletes has outlived its record *)

LEMMA NeverDenied == "denies" \notin Heard["everywhere"]
<1> DEFINE can == Transport \ {"denies"}
<1>1. Heard["everywhere"] = {probeTXT(exchangeDNS(u, t), exchangeDNS(u2, t2)) : u, t, u2, t2 \in can}
  BY DEF Heard
<1>2. ASSUME NEW u \in can, NEW t \in can PROVE exchangeDNS(u, t) \in can
  BY DEF exchangeDNS
<1>3. ASSUME NEW x \in can, NEW y \in can PROVE probeTXT(x, y) \in can
  BY DEF probeTXT
<1> QED
  BY <1>1, <1>2, <1>3

\* A record whose propagation window is over is not taken for absent while it is up
\* (LookupTXT, reclaimUnpresentedTXT).
LEMMA AbsentIsDown ==
  ASSUME NEW v, "absent" \in Lookups(v), rows[v[1]].age # "young"
  PROVE  v \notin dns
<1> SUFFICES ASSUME v \in dns PROVE FALSE
  OBVIOUS
<1>1. "absent" \in Looked["everywhere"]
  BY DEF Lookups, Truths
<1> DEFINE S == Delegation(NameServers).servers
<1>2. PICK ans \in [S -> Heard["everywhere"]] : LookupTXT(S, ans) = "absent"
  BY <1>1 DEF Looked
<1> HIDE DEF S
<1>3. S # {} /\ \A s \in S : ans[s] = "denies"
  BY <1>2 DEF LookupTXT
<1> QED
  BY <1>2, <1>3, NeverDenied

SameRow(m, n) == m.age = n.age /\ m.tok = n.tok /\ m.val = n.val

LEMMA RowsStay ==
  ASSUME RowShape, UNCHANGED <<rows, setting>>, late' = late \/ late'.op # "write"
  PROVE  RowShape'
BY DEF RowShape, Sound

\* A goroutine that carries nothing and walks nothing.
LEMMA BareAfter ==
  ASSUME NEW p, proc'[p].pc \in {"idle", "load", "order", "recover"}, proc'[p].job # "cleanup",
         proc'[p].pc = "recover" => proc'[p].todo = {}
  PROVE  Shaped(p)'
BY DEF Shaped, CarriedShape, WalkShape, DownShape, Carrying, Walking, Presenting, Driving, Visiting, Holding, Asking, Removing, Denying

LEMMA IdleAfter == ASSUME NEW p, proc'[p] = Idle PROVE Shaped(p)'
BY BareAfter DEF Idle
LEMMA DiscardsAfter ==
  ASSUME NEW p, proc'[p] = Discards \/ proc'[p] = [Discards EXCEPT !.job = "replace"]
  PROVE  Shaped(p)'
<1>1. proc'[p].pc = "recover" /\ proc'[p].todo = {} /\ proc'[p].job \in {"discard", "replace"}
  BY DEF Idle, Discards
<1> QED
  BY <1>1, BareAfter

\* What a pass carries, while it does not write.
LEMMA Carried ==
  ASSUME RecordInv, NEW p \in Procs, Carrying(proc[p]), ~Presenting(proc[p])
  PROVE  \A a \in DOMAIN proc[p].mem : Copied(proc[p].mem[a], rows[a]) /\ Sound(proc[p].mem[a])
BY DEF RecordInv, Shaped, CarriedShape

\* It goes on with the same rows.
LEMMA CarriesOn ==
  ASSUME RecordInv, NEW p \in Procs, Carrying(proc[p]), ~Presenting(proc[p]), setting' = setting,
         DOMAIN proc'[p].mem = DOMAIN proc[p].mem,
         \A a \in DOMAIN proc[p].mem : /\ SameRow(proc'[p].mem[a], proc[p].mem[a])
                                       /\ Copied(proc[p].mem[a], rows'[a]),
         \/ proc'[p].pc \in {"fetch", "visit", "prepare", "persist"} \cup Holding
         \/ proc'[p].job = "cleanup" /\ proc'[p].pc \in Cleanings \ {"relook"}
  PROVE  Shaped(p)'
<1>1. ASSUME NEW a \in DOMAIN proc'[p].mem
      PROVE  Copied(proc'[p].mem[a], rows'[a]) /\ Sound(proc[p].mem[a])'
  <2>1. Sound(proc[p].mem[a])
    BY <1>1, Carried
  <2>2. proc'[p].mem[a].val = proc[p].mem[a].val /\ proc'[p].mem[a].tok = proc[p].mem[a].tok
        /\ proc'[p].mem[a].age = proc[p].mem[a].age /\ Copied(proc[p].mem[a], rows'[a])
    BY <1>1 DEF SameRow
  <2> QED
    BY <2>1, <2>2 DEF Sound, Copied
<1>2. ~Presenting(proc[p])' /\ ~Walking(proc[p])' /\ proc'[p].pc # "relook"
      /\ (proc'[p].pc \in {"recover", "register"} => proc'[p].job = "cleanup")
  BY DEF Presenting, Walking, Holding, Asking, Cleanings, Removing, Denying
<1>3. CarriedShape(proc[p])'
  BY <1>1, <1>2 DEF CarriedShape
<1>4. WalkShape(proc[p])' /\ DownShape(proc[p])'
  BY <1>2 DEF WalkShape, DownShape
<1> QED
  BY <1>3, <1>4 DEF Shaped

\* Rows that are written as they are carried stay sound, and are carried as they are.
LEMMA WritesRows ==
  ASSUME Types, RowShape, UNCHANGED <<late, setting>>, NEW mem \in Copies(Rows), NEW S \in SUBSET (DOMAIN mem),
         \A a \in DOMAIN mem : Copied(mem[a], rows[a]) /\ Sound(mem[a]),
         NEW f, \A a \in S : f[a] \in Rows /\ SameRow(f[a], mem[a]),
         rows' = [a \in Urls |-> IF a \in S THEN Stored(a, f[a]) ELSE rows[a]]
  PROVE  RowShape' /\ \A a \in DOMAIN mem : Copied(mem[a], rows'[a])
<1>0. DOMAIN mem \subseteq Urls
  BY CopiesOf
<1>1. ASSUME NEW a \in S
      PROVE  rows'[a].age = rows[a].age /\ rows'[a].tok = mem[a].tok /\ rows'[a].val = mem[a].val
  <2>1. rows'[a] = Stored(a, f[a]) /\ rows[a] \in Rows /\ f[a] \in Rows
    BY <1>0 DEF Types, StoreTypes
  <2>2. f[a].age = rows[a].age /\ f[a].tok = mem[a].tok /\ f[a].val = mem[a].val
    BY DEF SameRow, Copied
  <2>3. /\ Stored(a, f[a]).tok = f[a].tok /\ Stored(a, f[a]).val = f[a].val
        /\ Stored(a, f[a]).age = IF f[a].age = "none" THEN rows[a].age ELSE f[a].age
    BY <2>1 DEF Stored, Rows
  <2> QED
    BY <2>1, <2>2, <2>3
<1>2. ASSUME NEW a \in Urls, a \notin S PROVE rows'[a] = rows[a]
  BY <1>2
<1>3. ASSUME NEW a \in Urls PROVE Sound(rows[a])'
  BY <1>0, <1>1, <1>2 DEF Sound, RowShape
<1>4. ASSUME NEW a \in DOMAIN mem PROVE Copied(mem[a], rows'[a])
  BY <1>0, <1>1, <1>2 DEF Copied
<1>5. ASSUME late.op = "write"
      PROVE  LET m == rows'[late.val[1]] IN m.age = "young" \/ m.tok = NoTok
  <2>1. late.val[1] \in Urls
    BY <1>5 DEF Types, DnsTypes, Values
  <2>2. rows[late.val[1]].age = "young" \/ rows[late.val[1]].tok = NoTok
    BY <1>5 DEF RowShape
  <2>3. CASE late.val[1] \in S
    BY <1>1, <2>2, <2>3 DEF Copied
  <2> QED
    BY <1>2, <2>1, <2>2, <2>3
<1> QED
  BY <1>3, <1>4, <1>5 DEF RowShape

LEMMA PutsRow ==
  ASSUME Types, RowShape, UNCHANGED <<late, setting>>, NEW mem \in Copies(Rows), NEW a \in DOMAIN mem,
         \A b \in DOMAIN mem : Copied(mem[b], rows[b]) /\ Sound(mem[b]),
         NEW m \in Rows, SameRow(m, mem[a]), PutAuthorization(a, m)
  PROVE  RowShape' /\ \A b \in DOMAIN mem : Copied(mem[b], rows'[b])
<1> DEFINE f == [x \in {a} |-> m]
<1>1. a \in Urls
  BY CopiesOf
<1>2. rows' = [b \in Urls |-> IF b \in {a} THEN Stored(b, f[b]) ELSE rows[b]]
  <2>1. rows' = [rows EXCEPT ![a] = Stored(a, m)] /\ rows \in [Urls -> Rows]
    BY DEF PutAuthorization, Types, StoreTypes
  <2> QED
    BY <1>1, <2>1
<1>3. \A b \in {a} : f[b] \in Rows /\ SameRow(f[b], mem[b])
  OBVIOUS
<1> HIDE DEF f
<1> QED
  BY <1>2, <1>3, WritesRows

\* The end of a visit: on with the next one, to the wait, or to a clean-up.
LEMMA VisitedAfter ==
  ASSUME RecordInv, NEW p \in Procs, Carrying(proc[p]), ~Presenting(proc[p]), setting' = setting,
         NEW k \in Processes, k.mem = proc[p].mem, proc'[p] = Visited(k),
         \A a \in DOMAIN proc[p].mem : Copied(proc[p].mem[a], rows'[a])
  PROVE  Shaped(p)'
<1> DEFINE q == [k EXCEPT !.pc = "visit", !.todo = @ \ {k.at}, !.at = <<>>]
           regs == {ValueOf(a, q.mem[a].val) : a \in q.pend}
           l == [q EXCEPT !.pc = "lease", !.regs = regs]
           u == CleansUp(q, DOMAIN q.mem)
<1>1. q.pc = "visit" /\ q.mem = k.mem
  BY DEF Processes
<1>2. l.pc = "lease" /\ l.mem = k.mem
  BY <1>1 DEF Processes
<1>3. u.pc = "recover" /\ u.mem = k.mem /\ u.job = "cleanup"
  BY <1>1 DEF CleansUp, Idle
<1>4. Visited(k) \in {q, l, u, Discards}
  BY DEF Visited
<1> HIDE DEF q, l, u
<1>5. CASE proc'[p] = Discards
  BY <1>5, DiscardsAfter
<1>6. CASE proc'[p] \in {q, l, u}
  <2>1. /\ proc'[p].mem = proc[p].mem
        /\ \/ proc'[p].pc \in {"fetch", "visit", "prepare", "persist"} \cup Holding
           \/ proc'[p].job = "cleanup" /\ proc'[p].pc \in Cleanings \ {"relook"}
    BY <1>1, <1>2, <1>3, <1>6 DEF Holding, Asking, Cleanings, Removing, Denying
  <2> QED
    BY <2>1, CarriesOn DEF SameRow
<1> QED
  BY <1>4, <1>5, <1>6

LEMMA SameCopies ==
  ASSUME RecordInv, NEW p \in Procs, Carrying(proc[p]), ~Presenting(proc[p]), rows' = rows
  PROVE  \A a \in DOMAIN proc[p].mem : Copied(proc[p].mem[a], rows'[a])
BY Carried

\* A process with the rows it had.
LEMMA StaysWith ==
  ASSUME Types, RecordInv, NEW p \in Procs, Carrying(proc[p]), ~Presenting(proc[p]), UNCHANGED <<rows, setting>>,
         proc'[p].mem = proc[p].mem,
         proc'[p].pc \in {"fetch", "visit", "prepare", "persist"} \cup Holding
  PROVE  Shaped(p)'
BY SameCopies, CarriesOn DEF SameRow

LEMMA PassShape ==
  ASSUME Types, Shapes, NEW c \in Certs
  PROVE  /\ c \in Procs /\ ProcessTypes /\ StoreTypes /\ ProcessShape(proc[c]) /\ proc[c] \in Processes
         /\ proc[c].mem \in Copies(Rows)
         /\ \A a \in DOMAIN proc[c].mem : a \in Urls /\ proc[c].mem[a] \in Rows
<1>1. c \in Procs /\ ProcessShape(proc[c]) /\ proc[c] \in Processes
  BY MyShape
<1>2. proc[c].mem \in Copies(Rows)
  BY <1>1 DEF Processes
<1> QED
  BY <1>1, <1>2, CopyGet DEF Types

LEMMA BeginRecords ==
  ASSUME Types, Shapes, RecordInv, NEW c \in Certs, Begin(c) \/ NewOrder(c), setting' = setting
  PROVE  RowShape' /\ Shaped(c)'
<1>1. UNCHANGED <<rows, late>>
  BY DEF Begin, NewOrder, zone
<1>2. c \in Procs /\ ProcessTypes
  BY PassShape
<1>3. proc[c].job = "none" /\ proc[c] \in Processes
  BY PassWorks, PassShape DEF Pass
<1>4. \/ GoTo(c, "load") \/ Ends(c) \/ Step(c, [Discards EXCEPT !.job = "replace"])
      \/ Step(c, [Idle EXCEPT !.pc = "recover", !.job = "orphan"])
  BY DEF Begin, NewOrder
<1>5. CASE GoTo(c, "load")
  <2>1. proc'[c] = [proc[c] EXCEPT !.pc = "load"]
    BY <1>2, <1>5, StepAt DEF GoTo
  <2>2. proc'[c].pc = "load" /\ proc'[c].job = "none"
    BY <1>3, <2>1 DEF Processes
  <2> QED
    BY <1>1, <2>2, BareAfter, RowsStay DEF RecordInv
<1>6. CASE Ends(c) \/ Step(c, [Discards EXCEPT !.job = "replace"])
  <2>1. proc'[c] = Idle \/ proc'[c] = [Discards EXCEPT !.job = "replace"]
    BY <1>2, <1>6, StepAt DEF Ends
  <2> QED
    BY <1>1, <2>1, IdleAfter, DiscardsAfter, RowsStay DEF RecordInv
<1>7. CASE Step(c, [Idle EXCEPT !.pc = "recover", !.job = "orphan"])
  <2>1. proc'[c] = [Idle EXCEPT !.pc = "recover", !.job = "orphan"]
    BY <1>2, <1>7, StepAt
  <2>2. proc'[c].pc = "recover" /\ proc'[c].job = "orphan" /\ proc'[c].todo = {}
    BY <2>1 DEF Idle
  <2> QED
    BY <1>1, <2>2, BareAfter, RowsStay DEF RecordInv
<1> QED
  BY <1>4, <1>5, <1>6, <1>7

LEMMA loadAuthorizationsRecords ==
  ASSUME Types, Shapes, RecordInv, NEW c \in Certs, loadAuthorizations(c), setting' = setting
  PROVE  RowShape' /\ Shaped(c)'
<1> DEFINE new == {a \in order[c] : ~rows[a].on}
           q == [Idle EXCEPT !.pc = "fetch", !.mem = [a \in order[c] |-> rows'[a]]]
<1>1. c \in Procs /\ ProcessTypes /\ order[c] \subseteq Urls /\ late' = late
  BY PassShape, MyShape DEF loadAuthorizations, zone
<1>2. PICK put \in SUBSET new : rows' = [a \in Urls |-> IF a \in put THEN NewRow ELSE rows[a]]
  BY DEF loadAuthorizations
<1>3. NewRow.val = NoTok /\ NewRow.tok = NoTok
  BY DEF NewRow, NoRow
<1>4. \A a \in Urls : rows'[a] = rows[a] \/ rows'[a] = NewRow
  BY <1>2
<1>5. \A a \in Urls : Sound(rows[a])'
  BY <1>3, <1>4 DEF Sound, RecordInv, RowShape
<1>6. late.op = "write" => late.val[1] \in Urls
  BY DEF Types, DnsTypes, Values
<1>7. RowShape'
  BY <1>1, <1>3, <1>4, <1>5, <1>6 DEF RecordInv, RowShape
<1>8. CASE Ends(c)
  BY <1>1, <1>7, <1>8, StepAt, IdleAfter DEF Ends
<1>9. CASE Step(c, q)
  <2>1. proc'[c] = q
    BY <1>1, <1>9, StepAt
  <2>2. proc'[c].pc = "fetch" /\ proc'[c].mem = [a \in order[c] |-> rows'[a]]
    BY <2>1 DEF Idle
  <2>3. \A a \in DOMAIN proc'[c].mem : Copied(proc'[c].mem[a], rows'[a]) /\ Sound(proc[c].mem[a])'
    BY <1>1, <1>5, <2>2 DEF Copied, Sound
  <2> QED
    BY <1>7, <2>2, <2>3 DEF Shaped, CarriedShape, WalkShape, DownShape, Presenting, Walking, Removing, Denying
<1> QED
  BY <1>8, <1>9 DEF loadAuthorizations

LEMMA fetchAuthzsRecords ==
  ASSUME Types, Shapes, RecordInv, NEW c \in Certs, fetchAuthzs(c), setting' = setting
  PROVE  RowShape' /\ Shaped(c)'
<1> DEFINE cur == [a \in DOMAIN proc[c].mem |-> ca[a]]
           q == [proc[c] EXCEPT !.pc = "visit", !.todo = DOMAIN proc[c].mem, !.cur = cur]
<1>1. UNCHANGED <<rows, late>> /\ proc[c].pc = "fetch" /\ (Step(c, q) \/ Ends(c))
  BY DEF fetchAuthzs, zone
<1>2. c \in Procs /\ ProcessTypes /\ proc[c] \in Processes
  BY PassShape
<1>3. RowShape'
  BY <1>1, RowsStay DEF RecordInv
<1>4. CASE Ends(c)
  BY <1>2, <1>3, <1>4, StepAt, IdleAfter DEF Ends
<1>5. CASE Step(c, q)
  <2>1. proc'[c] = q
    BY <1>2, <1>5, StepAt
  <2>2. q.pc = "visit" /\ q.mem = proc[c].mem
    BY <1>2 DEF Processes
  <2>3. Carrying(proc[c]) /\ ~Presenting(proc[c])
    BY <1>1 DEF Carrying, Presenting
  <2> HIDE DEF q
  <2> QED
    BY <1>1, <1>2, <1>3, <2>1, <2>2, <2>3, StaysWith
<1> QED
  BY <1>1, <1>4, <1>5

LEMMA VisitsClosedRecords ==
  ASSUME Types, Shapes, RecordInv, NEW c \in Certs, NEW a \in Urls, VisitsClosed(c, a), setting' = setting
  PROVE  RowShape' /\ Shaped(c)'
<1> DEFINE r == proc[c]
           k == [r EXCEPT !.at = a]
           b == [k EXCEPT !.bad = TRUE]
<1>1. r.pc = "visit" /\ a \in r.todo /\ late' = late
  BY DEF VisitsClosed, zone
<1>2. /\ c \in Procs /\ ProcessTypes /\ ProcessShape(r) /\ r \in Processes /\ r.mem \in Copies(Rows)
      /\ a \in DOMAIN r.mem /\ r.mem[a] \in Rows
  BY <1>1, PassShape DEF ProcessShape
<1>3. k \in Processes /\ b \in Processes /\ k.mem = r.mem /\ b.mem = r.mem
  BY <1>2 DEF Processes
<1>4. Carrying(r) /\ ~Presenting(r)
  BY <1>1 DEF Carrying, Presenting, Driving
<1>5. rows' = rows \/ PutAuthorization(a, k.mem[a])
  BY DEF VisitsClosed
<1>6. RowShape' /\ \A x \in DOMAIN r.mem : Copied(r.mem[x], rows'[x])
  <2>1. CASE rows' = rows
    BY <1>1, <1>2, <1>4, <2>1, RowsStay, SameCopies DEF RecordInv
  <2>2. CASE PutAuthorization(a, r.mem[a])
    <3>1. \A x \in DOMAIN r.mem : Copied(r.mem[x], rows[x]) /\ Sound(r.mem[x])
      BY <1>2, <1>4, Carried
    <3> QED
      BY <1>1, <1>2, <2>2, <3>1, PutsRow DEF RecordInv, SameRow
  <2> QED
    BY <1>3, <1>5, <2>1, <2>2
<1>7. Step(c, Visited(k)) \/ Step(c, Visited(b)) \/ Step(c, Discards) \/ Step(c, Idle)
  BY DEF VisitsClosed
<1> HIDE DEF k, b
<1>8. proc'[c] \in {Visited(k), Visited(b), Discards, Idle}
  BY <1>2, <1>7, StepAt
<1>9. CASE proc'[c] = Visited(k)
  BY <1>2, <1>3, <1>4, <1>6, <1>9, VisitedAfter
<1>10. CASE proc'[c] = Visited(b)
  BY <1>2, <1>3, <1>4, <1>6, <1>10, VisitedAfter
<1> QED
  BY <1>6, <1>8, <1>9, <1>10, IdleAfter, DiscardsAfter

\* A record that could not be named by its row is taken out again; no row goes for it.
LEMMA UndoAfter ==
  ASSUME NEW p, proc'[p].job = "undo", proc'[p].pc \in Cleanings \ {"recover", "register", "relook"}
  PROVE  Shaped(p)'
BY DEF Shaped, CarriedShape, WalkShape, DownShape, Carrying, Walking, Presenting, Driving, Visiting, Holding, Asking,
   Cleanings, Removing, Denying

LEMMA PersistsRecords ==
  ASSUME Types, Shapes, RecordInv, NEW c \in Certs, setting' = setting, late' = late, Carrying(proc[c]), ~Presenting(proc[c]),
         NEW k \in Processes, k.mem = proc[c].mem, k.at \in DOMAIN k.mem, NEW rs \in SUBSET Urls,
         PersistsPresented(c, k, rs)
  PROVE  RowShape' /\ Shaped(c)'
<1> DEFINE r == proc[c]
           a == k.at
           x == [k EXCEPT !.pend = @ \cup {a}, !.resumed = @ \cup rs]
           u == [Idle EXCEPT !.pc = "claim", !.job = "undo", !.at = a, !.mem = k.mem]
<1>1. c \in Procs /\ ProcessTypes /\ r.mem \in Copies(Rows) /\ a \in DOMAIN r.mem /\ r.mem[a] \in Rows /\ a \in Urls
  BY PassShape
<1>2. x \in Processes /\ x.mem = r.mem
  BY <1>1 DEF Processes
<1>3. u.job = "undo" /\ u.pc = "claim"
  BY DEF Idle
<1>4. \/ PutAuthorization(a, r.mem[a]) /\ Step(c, Visited(x))
      \/ rows' = rows /\ Step(c, u)
  BY DEF PersistsPresented
<1> HIDE DEF x, u
<1>5. CASE PutAuthorization(a, r.mem[a]) /\ Step(c, Visited(x))
  <2>1. \A y \in DOMAIN r.mem : Copied(r.mem[y], rows[y]) /\ Sound(r.mem[y])
    BY <1>1, Carried
  <2>2. RowShape' /\ \A y \in DOMAIN r.mem : Copied(r.mem[y], rows'[y])
    BY <1>1, <1>5, <2>1, PutsRow DEF RecordInv, SameRow
  <2>3. proc'[c] = Visited(x)
    BY <1>1, <1>5, StepAt
  <2> QED
    BY <1>1, <1>2, <2>2, <2>3, VisitedAfter
<1>6. CASE rows' = rows /\ Step(c, u)
  <2>1. proc'[c] = u
    BY <1>1, <1>6, StepAt
  <2>2. proc'[c].job = "undo" /\ proc'[c].pc \in Cleanings \ {"recover", "register", "relook"}
    BY <1>3, <2>1 DEF Cleanings, Removing, Denying
  <2> QED
    BY <1>6, <2>2, UndoAfter, RowsStay DEF RecordInv
<1> QED
  BY <1>4, <1>5, <1>6

LEMMA ResumesRecords ==
  ASSUME Types, Shapes, RecordInv, NEW c \in Certs, setting' = setting, Persists(c) \/ \E a \in Urls : Resumes(c, a)
  PROVE  RowShape' /\ Shaped(c)'
<1>1. ProcessShape(proc[c]) /\ proc[c] \in Processes
  BY PassShape
<1>2. CASE Persists(c)
  <2>1. proc[c].pc = "persist" /\ PersistsPresented(c, proc[c], {}) /\ late' = late
    BY <1>2 DEF Persists, zone
  <2>2. Carrying(proc[c]) /\ ~Presenting(proc[c]) /\ proc[c].at \in DOMAIN proc[c].mem
    BY <1>1, <2>1 DEF Carrying, Presenting, Driving, Visiting, ProcessShape
  <2> QED
    BY <1>1, <2>1, <2>2, PersistsRecords
<1>3. ASSUME NEW a \in Urls, Resumes(c, a) PROVE RowShape' /\ Shaped(c)'
  <2> DEFINE k == [proc[c] EXCEPT !.at = a]
  <2>1. proc[c].pc = "visit" /\ a \in proc[c].todo /\ PersistsPresented(c, k, {a}) /\ late' = late
    BY <1>3 DEF Resumes, zone
  <2>2. Carrying(proc[c]) /\ ~Presenting(proc[c]) /\ a \in DOMAIN proc[c].mem
    BY <1>1, <2>1 DEF Carrying, Presenting, Driving, ProcessShape
  <2>3. k \in Processes /\ k.mem = proc[c].mem /\ k.at = a
    BY <1>1 DEF Processes
  <2> HIDE DEF k
  <2> QED
    BY <2>1, <2>2, <2>3, PersistsRecords
<1> QED
  BY <1>2, <1>3

LEMMA ReleasesStaleRecords ==
  ASSUME Types, Shapes, RecordInv, NEW c \in Certs, NEW a \in Urls, ReleasesStale(c, a), setting' = setting
  PROVE  RowShape' /\ Shaped(c)'
<1> DEFINE q == [proc[c] EXCEPT !.pc = "prepare", !.at = a]
<1>1. proc[c].pc = "visit" /\ Step(c, q) /\ UNCHANGED <<rows, late>>
  BY DEF ReleasesStale, New, zone
<1>2. c \in Procs /\ ProcessTypes /\ proc[c] \in Processes
  BY PassShape
<1>3. q.pc = "prepare" /\ q.mem = proc[c].mem
  BY <1>2 DEF Processes
<1>4. Carrying(proc[c]) /\ ~Presenting(proc[c])
  BY <1>1 DEF Carrying, Presenting, Driving
<1>5. proc'[c] = q
  BY <1>1, <1>2, StepAt
<1> HIDE DEF q
<1> QED
  BY <1>1, <1>2, <1>3, <1>4, <1>5, StaysWith, RowsStay DEF RecordInv

\* The window is opened before the write it is about (dns_present.go).
LEMMA VisitsNewRecords ==
  ASSUME Types, Shapes, RecordInv, NEW c \in Certs, NEW a \in Urls, VisitsNew(c, a), setting' = setting
  PROVE  RowShape' /\ Shaped(c)'
<1> DEFINE r == proc[c]
           tok == r.cur[a].tok
           old == r.mem[a]
           m == [old EXCEPT !.sent = @ /\ old.tok = tok, !.age = "young"]
           row == [m EXCEPT !.tok = Clue(m, tok)]
           own == [m EXCEPT !.tok = tok]
           mem == [r.mem EXCEPT ![a] = own]
           pc == IF old.tok = NoTok THEN "present" ELSE "probe"
           q == [r EXCEPT !.at = a, !.mem = mem, !.pc = pc]
<1>1. \/ PutAuthorization(a, row) /\ Step(c, q)
      \/ rows' = rows /\ Ends(c)
  <2>1. \/ PutAuthorization(a, row) /\ Step(c, [r EXCEPT !.at = a, !.mem[a] = own, !.pc = pc])
        \/ rows' = rows /\ Ends(c)
    BY DEF VisitsNew
  <2>2. [r EXCEPT !.at = a, !.mem[a] = own, !.pc = pc] = q
    BY PassShape DEF Processes
  <2> QED
    BY <2>1, <2>2
<1>2. late' = late
  BY DEF VisitsNew, zone
<1>3. r.pc \in {"visit", "prepare"} /\ (a \in r.todo \/ (r.pc = "prepare" /\ a = r.at))
  BY DEF VisitsNew, New
<1>4. Carrying(r) /\ ~Presenting(r) /\ r.pc \in Driving
  BY <1>3 DEF Carrying, Presenting, Driving, Visiting
<1>5. /\ c \in Procs /\ ProcessTypes /\ r \in Processes /\ r.mem \in Copies(Rows) /\ StoreTypes
      /\ a \in DOMAIN r.mem /\ old \in Rows /\ DOMAIN r.cur = DOMAIN r.mem
  BY <1>3, <1>4, PassShape DEF ProcessShape, Visiting
<1>6. tok # NoTok
  <2>1. r.cur[a] \in Authzs
    BY <1>5, CopyGet DEF Processes
  <2> QED
    BY <2>1, BoundsAssumption DEF Authzs, Tokens, NoTok
<1>7. old.val \in {NoTok, old.tok} \/ "old row" \in setting.faults
  BY <1>4, <1>5, Carried DEF Sound
<1>8. /\ row.tok = (IF old.tok = NoTok THEN tok ELSE old.tok) /\ row.val = old.val /\ row.age = "young"
      /\ own.tok = tok /\ own.age = "young"
  BY <1>5 DEF Rows, Clue
<1>9. q.pc = pc /\ q.at = a /\ q.mem = mem /\ pc \in {"probe", "present"} /\ q.job = r.job
  BY <1>5 DEF Processes
<1>10. DOMAIN mem = DOMAIN r.mem /\ mem[a] = own /\ \A b \in DOMAIN r.mem : b # a => mem[b] = r.mem[b]
  BY <1>5
<1>11. RowShape /\ \A b \in DOMAIN r.mem : Copied(r.mem[b], rows[b]) /\ Sound(r.mem[b])
  BY <1>4, <1>5, Carried DEF RecordInv
<1> HIDE DEF row, own, mem, pc, q, m
<1>12. CASE rows' = rows /\ Ends(c)
  <2>1. proc'[c] = Idle
    BY <1>5, <1>12, StepAt DEF Ends
  <2> QED
    BY <1>2, <1>11, <1>12, <2>1, IdleAfter, RowsStay
<1>13. CASE PutAuthorization(a, row) /\ Step(c, q)
  <2>1. rows' = [rows EXCEPT ![a] = Stored(a, row)] /\ a \in Urls /\ rows \in [Urls -> Rows]
    BY <1>5, <1>13 DEF PutAuthorization, StoreTypes
  <2>2. rows'[a] = Stored(a, row) /\ \A b \in Urls : b # a => rows'[b] = rows[b]
    BY <2>1
  <2>3. rows'[a].tok = row.tok /\ rows'[a].val = row.val /\ rows'[a].age = "young"
    BY <1>5, <1>8, <2>2 DEF Stored, row, m, Rows
  <2>4. Sound(rows[a])'
    BY <1>5, <1>6, <1>7, <1>8, <2>3 DEF Sound, Rows
  <2>5. RowShape'
    BY <1>2, <1>11, <2>2, <2>3, <2>4 DEF RowShape, Sound, Types, DnsTypes, Values
  <2>6. proc'[c] = q
    BY <1>5, <1>13, StepAt
  <2>7. ASSUME NEW b \in DOMAIN r.mem
        PROVE  Copied(mem[b], rows'[b]) /\ (b # a => Sound(mem[b]))
    <3>1. CASE b = a
      BY <1>6, <1>8, <1>10, <2>3, <3>1 DEF Copied
    <3>2. CASE b # a
      <4>1. mem[b] = r.mem[b] /\ rows'[b] = rows[b]
        BY <1>10, <2>2, <2>7, <3>2, PassShape
      <4> QED
        BY <1>11, <3>2, <4>1
    <3> QED
      BY <3>1, <3>2
  <2>8. proc'[c].pc \in {"probe", "present"} /\ proc'[c].at = a /\ proc'[c].mem = mem
    BY <1>9, <2>6
  <2>9. ASSUME NEW b \in DOMAIN proc'[c].mem
        PROVE  Copied(proc'[c].mem[b], rows'[b]) /\ (b # a => Sound(proc[c].mem[b])')
    <3>1. proc'[c].mem[b] = mem[b] /\ b \in DOMAIN r.mem
      BY <1>10, <2>8, <2>9
    <3> QED
      BY <2>7, <3>1 DEF Sound
  <2>10. CarriedShape(proc[c])'
    BY <2>3, <2>8, <2>9 DEF CarriedShape, Presenting
  <2>11. WalkShape(proc[c])' /\ DownShape(proc[c])'
    BY <2>8 DEF WalkShape, DownShape, Walking, Removing, Denying
  <2> QED
    BY <2>5, <2>10, <2>11 DEF Shaped
<1> QED
  BY <1>1, <1>12, <1>13

LEMMA PresentedWrites ==
  ASSUME NEW r \in Processes
  PROVE  Presented(r) = [r EXCEPT !.pc = "persist",
             !.mem = [r.mem EXCEPT ![r.at] = [r.mem[r.at] EXCEPT !.presented = TRUE, !.val = r.mem[r.at].tok]]]
<1> DEFINE old == r.mem[r.at]
           m == [old EXCEPT !.presented = TRUE, !.val = old.tok]
           mem == [r.mem EXCEPT ![r.at] = m]
<1> HIDE DEF m
<1>1. Presented(r) = [r EXCEPT !.pc = "persist", !.mem = mem]
  BY DEF Presented, mem, m
<1> QED
  BY <1>1 DEF mem, m

\* What was written is what its row will name.
LEMMA PresentedAfter ==
  ASSUME Types, Shapes, RecordInv, NEW c \in Certs, Presenting(proc[c]), UNCHANGED <<rows, setting>>,
         proc'[c] = Presented(proc[c])
  PROVE  Shaped(c)'
<1> DEFINE r == proc[c]
           old == r.mem[r.at]
           m == [old EXCEPT !.presented = TRUE, !.val = old.tok]
           mem == [r.mem EXCEPT ![r.at] = m]
           q == [r EXCEPT !.pc = "persist", !.mem = mem]
<1>2. c \in Procs /\ ProcessShape(r) /\ r \in Processes /\ r.mem \in Copies(Rows)
  BY PassShape
<1>1. proc'[c] = q
  BY <1>2, PresentedWrites
<1>3. r.at \in DOMAIN r.mem /\ old \in Rows
  BY <1>2, PassShape DEF Presenting, ProcessShape, Visiting
<1>4. m.age = old.age /\ m.tok = old.tok /\ m.val = old.tok
  BY <1>3 DEF Rows
<1>5. Carrying(r)
  BY DEF Carrying, Presenting, Driving, Visiting
<1>6. \A a \in DOMAIN r.mem : Copied(r.mem[a], rows[a]) /\ (Sound(r.mem[a]) \/ r.at = a)
  BY <1>2, <1>5 DEF RecordInv, Shaped, CarriedShape
<1>7. DOMAIN mem = DOMAIN r.mem /\ mem[r.at] = m /\ \A a \in DOMAIN r.mem : a # r.at => mem[a] = r.mem[a]
  BY <1>3
<1>8. q.pc = "persist" /\ q.mem = mem
  BY <1>2 DEF Processes
<1> HIDE DEF m, mem, q
<1>9. ASSUME NEW a \in DOMAIN r.mem
      PROVE  Copied(mem[a], rows[a]) /\ mem[a].val \in {NoTok, mem[a].tok} \cup (IF "old row" \in setting.faults THEN {mem[a].val} ELSE {})
  <2>1. CASE a = r.at
    BY <1>3, <1>4, <1>6, <1>7, <2>1 DEF Copied
  <2>2. CASE a # r.at
    BY <1>6, <1>7, <2>2 DEF Sound
  <2> QED
    BY <2>1, <2>2
<1>10. ASSUME NEW a \in DOMAIN proc'[c].mem
       PROVE  Copied(proc'[c].mem[a], rows'[a]) /\ Sound(proc[c].mem[a])'
  <2>1. proc'[c].mem[a] = mem[a] /\ a \in DOMAIN r.mem
    BY <1>1, <1>7, <1>8, <1>10
  <2> QED
    BY <1>9, <2>1 DEF Sound
<1>11. proc'[c].pc = "persist"
  BY <1>1, <1>8
<1> QED
  BY <1>10, <1>11 DEF Shaped, CarriedShape, WalkShape, DownShape, Presenting, Walking, Removing, Denying

LEMMA ProbesRecords ==
  ASSUME Types, Shapes, RecordInv, NEW c \in Certs, Probes(c), setting' = setting
  PROVE  RowShape' /\ Shaped(c)'
<1> DEFINE r == proc[c]
           q == [r EXCEPT !.pc = "present"]
<1>1. r.pc = "probe" /\ UNCHANGED <<rows, late>> /\ (Step(c, Presented(r)) \/ Step(c, q))
  BY DEF Probes, zone, GoTo
<1>2. c \in Procs /\ ProcessTypes /\ r \in Processes /\ Presenting(r) /\ Carrying(r)
  BY <1>1, PassShape DEF Presenting, Carrying, Driving, Visiting
<1>3. RowShape'
  BY <1>1, RowsStay DEF RecordInv
<1>4. CASE Step(c, Presented(r))
  <2>1. proc'[c] = Presented(r)
    BY <1>2, <1>4, StepAt
  <2> QED
    BY <1>1, <1>2, <1>3, <2>1, PresentedAfter
<1>5. CASE Step(c, q)
  <2>1. proc'[c] = q
    BY <1>2, <1>5, StepAt
  <2>2. proc'[c].pc = "present" /\ proc'[c].mem = r.mem /\ proc'[c].at = r.at
    BY <1>2, <2>1 DEF Processes
  <2>3. CarriedShape(r)
    BY <1>2 DEF RecordInv, Shaped
  <2>4. CarriedShape(proc[c])'
    BY <1>1, <1>2, <2>2, <2>3 DEF CarriedShape, Presenting, Sound
  <2>5. WalkShape(proc[c])' /\ DownShape(proc[c])'
    BY <2>2 DEF WalkShape, DownShape, Walking, Removing, Denying
  <2> QED
    BY <1>3, <2>4, <2>5 DEF Shaped
<1> QED
  BY <1>1, <1>4, <1>5

\* A write that may land late is within the window of its row (Present, callProviderBounded).
LEMMA PresentRecords ==
  ASSUME Types, Shapes, RecordInv, NEW c \in Certs, Present(c), setting' = setting
  PROVE  RowShape' /\ Shaped(c)'
<1> DEFINE r == proc[c]
<1>1. r.pc = "present" /\ rows' = rows
  BY DEF Present
<1>2. c \in Procs /\ ProcessTypes /\ Presenting(r)
  BY <1>1, PassShape DEF Presenting
<1>3. Step(c, Presented(r)) \/ Ends(c)
  BY DEF Present
<1>4. Shaped(c)'
  <2>1. proc'[c] = Presented(r) \/ proc'[c] = Idle
    BY <1>2, <1>3, StepAt DEF Ends
  <2> QED
    BY <1>1, <1>2, <2>1, PresentedAfter, IdleAfter
<1>5. RowShape'
  <2>1. late' = late \/ late' = [op |-> "write", val |-> Wanted(c)]
    <3>1. TimesOut("write", Wanted(c)) => late' = [op |-> "write", val |-> Wanted(c)]
      BY Zenon DEF TimesOut
    <3> QED
      BY <3>1 DEF Present, zone
  <2>2. CASE late' = late
    BY <1>1, <2>2, RowsStay DEF RecordInv
  <2>3. CASE late' = [op |-> "write", val |-> Wanted(c)]
    <3>1. late'.val[1] = r.at
      BY <2>3, ValueFirst DEF Wanted
    <3>2. rows[r.at].age = "young"
      BY <1>2 DEF RecordInv, Shaped, CarriedShape
    <3> QED
      BY <1>1, <3>1, <3>2 DEF RecordInv, RowShape, Sound
  <2> QED
    BY <2>1, <2>2, <2>3
<1> QED
  BY <1>4, <1>5

LEMMA AcceptingIs ==
  ASSUME NEW r \in Processes
  PROVE  Accepting(r).mem = r.mem /\ Accepting(r).pc \in {"accept", "await"}
BY DEF Accepting, Processes

LEMMA WaitsRecords ==
  ASSUME Types, Shapes, RecordInv, NEW c \in Certs, Leases(c) \/ WaitsAll(c), setting' = setting
  PROVE  RowShape' /\ Shaped(c)'
<1> DEFINE r == proc[c]
<1>1. r.pc \in {"lease", "wait"} /\ UNCHANGED <<rows, late>>
  BY DEF Leases, WaitsAll, zone
<1>2. c \in Procs /\ ProcessTypes /\ r \in Processes /\ ~Presenting(r) /\ Carrying(r)
  BY <1>1, PassShape DEF Presenting, Carrying, Holding, Asking
<1>3. RowShape'
  BY <1>1, RowsStay DEF RecordInv
<1>4. CASE Leases(c)
  <2>1. PICK v \in r.regs : Step(c, [r EXCEPT !.regs = @ \ {v}, !.pc = IF r.regs = {v} THEN "wait" ELSE "lease"])
    BY <1>4 DEF Leases
  <2>2. proc'[c] = [r EXCEPT !.regs = @ \ {v}, !.pc = IF r.regs = {v} THEN "wait" ELSE "lease"]
    BY <1>2, <2>1, StepAt
  <2>3. proc'[c].pc \in Holding /\ proc'[c].mem = r.mem
    BY <1>2, <2>2 DEF Processes, Holding, Asking
  <2> QED
    BY <1>1, <1>2, <1>3, <2>3, StaysWith
<1>5. CASE WaitsAll(c)
  <2> DEFINE k == [r EXCEPT !.todo = {a \in r.pend : ~r.mem[a].sent}]
  <2>1. Step(c, Accepting(k))
    BY <1>5 DEF WaitsAll
  <2>2. k \in Processes /\ k.mem = r.mem
    BY <1>2 DEF Processes
  <2> HIDE DEF k
  <2>3. proc'[c] = Accepting(k)
    BY <1>2, <2>1, StepAt
  <2>4. proc'[c].pc \in Holding /\ proc'[c].mem = r.mem
    BY <2>2, <2>3, AcceptingIs DEF Holding, Asking
  <2> QED
    BY <1>1, <1>2, <1>3, <2>4, StaysWith
<1> QED
  BY <1>4, <1>5

LEMMA GivesUpWaitingRecords ==
  ASSUME Types, Shapes, RecordInv, NEW c \in Certs, GivesUpWaiting(c), setting' = setting
  PROVE  RowShape' /\ Shaped(c)'
<1> DEFINE r == proc[c]
           f == [a \in DOMAIN r.mem |-> [r.mem[a] EXCEPT !.presented = FALSE]]
<1>1. r.pc = "wait" /\ Ends(c) /\ late' = late
  BY DEF GivesUpWaiting, zone
<1>2. /\ c \in Procs /\ ProcessTypes /\ ~Presenting(r) /\ Carrying(r) /\ r.mem \in Copies(Rows)
      /\ r.resumed \subseteq DOMAIN r.mem /\ \A a \in DOMAIN r.mem : r.mem[a] \in Rows
  BY <1>1, PassShape DEF Presenting, Carrying, Holding, Asking, ProcessShape
<1>3. Shaped(c)'
  BY <1>1, <1>2, StepAt, IdleAfter DEF Ends
<1>4. CASE rows' = rows
  BY <1>1, <1>3, <1>4, RowsStay DEF RecordInv
<1>5. ASSUME NEW lost \in SUBSET r.resumed,
             rows' = [a \in Urls |-> IF a \in r.resumed \ lost
                                     THEN Stored(a, [r.mem[a] EXCEPT !.presented = FALSE]) ELSE rows[a]]
      PROVE  RowShape'
  <2>1. rows' = [a \in Urls |-> IF a \in r.resumed \ lost THEN Stored(a, f[a]) ELSE rows[a]]
    BY <1>2, <1>5
  <2>2. \A a \in r.resumed \ lost : f[a] = [r.mem[a] EXCEPT !.presented = FALSE]
    BY <1>2
  <2>3. ASSUME NEW a \in r.resumed \ lost PROVE f[a] \in Rows /\ SameRow(f[a], r.mem[a])
    <3>1. r.mem[a] \in Rows /\ f[a] = [r.mem[a] EXCEPT !.presented = FALSE]
      BY <1>2, <2>2
    <3>2. f[a] \in Rows
      BY <3>1, RowSet
    <3>3. SameRow([r.mem[a] EXCEPT !.presented = FALSE], r.mem[a])
      BY <3>1 DEF SameRow, Rows
    <3> QED
      BY <3>1, <3>2, <3>3
  <2>4. \A a \in DOMAIN r.mem : Copied(r.mem[a], rows[a]) /\ Sound(r.mem[a])
    BY <1>2, Carried
  <2>5. r.resumed \ lost \in SUBSET (DOMAIN r.mem)
    BY <1>2
  <2> HIDE DEF f
  <2> QED
    BY <1>1, <1>2, <2>1, <2>3, <2>4, <2>5, WritesRows DEF RecordInv
<1> QED
  BY <1>3, <1>4, <1>5 DEF GivesUpWaiting, markUnpresented

LEMMA AcceptsRecords ==
  ASSUME Types, Shapes, RecordInv, NEW c \in Certs, NEW a \in Urls, Accepts(c, a), setting' = setting
  PROVE  RowShape' /\ Shaped(c)'
<1> DEFINE r == proc[c]
           m == [r.mem[a] EXCEPT !.sent = TRUE]
           mem == [r.mem EXCEPT ![a] = m]
           q == [r EXCEPT !.pc = "sent", !.at = a, !.mem = mem]
<1>1. r.pc = "accept" /\ a \in r.todo /\ UNCHANGED <<rows, late>>
  BY DEF Accepts, zone
<1>2. /\ c \in Procs /\ ProcessTypes /\ r \in Processes /\ ~Presenting(r) /\ Carrying(r)
      /\ a \in DOMAIN r.mem /\ \A b \in DOMAIN r.mem : r.mem[b] \in Rows
  BY <1>1, PassShape DEF Presenting, Carrying, Holding, Asking, ProcessShape
<1>3. Step(c, q) \/ Ends(c)
  <2>1. [r EXCEPT !.pc = "sent", !.at = a, !.mem[a].sent = TRUE] = q
    BY <1>2 DEF Processes
  <2> QED
    BY <2>1 DEF Accepts
<1>4. RowShape'
  BY <1>1, RowsStay DEF RecordInv
<1>5. \A b \in DOMAIN r.mem : SameRow(mem[b], r.mem[b])
  BY <1>2 DEF SameRow, Rows
<1>6. DOMAIN mem = DOMAIN r.mem
  OBVIOUS
<1>7. q.pc = "sent" /\ q.mem = mem
  BY <1>2 DEF Processes
<1> HIDE DEF mem, q
<1>8. CASE Step(c, q)
  <2>1. proc'[c] = q
    BY <1>2, <1>8, StepAt
  <2>2. \A b \in DOMAIN r.mem : Copied(r.mem[b], rows'[b])
    BY <1>1, <1>2, SameCopies
  <2> QED
    BY <1>2, <1>4, <1>5, <1>6, <1>7, <2>1, <2>2, CarriesOn DEF Holding, Asking
<1>9. CASE Ends(c)
  BY <1>2, <1>4, <1>9, StepAt, IdleAfter DEF Ends
<1> QED
  BY <1>3, <1>8, <1>9

LEMMA RecordsSentRecords ==
  ASSUME Types, Shapes, RecordInv, NEW c \in Certs, RecordsSent(c), setting' = setting
  PROVE  RowShape' /\ Shaped(c)'
<1> DEFINE r == proc[c]
           k == [r EXCEPT !.todo = @ \ {r.at}]
<1>1. r.pc = "sent" /\ late' = late
  BY DEF RecordsSent, zone
<1>2. /\ c \in Procs /\ ProcessTypes /\ r \in Processes /\ ~Presenting(r) /\ Carrying(r)
      /\ r.at \in DOMAIN r.mem /\ r.mem \in Copies(Rows) /\ r.mem[r.at] \in Rows
  BY <1>1, PassShape DEF Presenting, Carrying, Holding, Asking, ProcessShape
<1>3. k \in Processes /\ k.mem = r.mem
  BY <1>2 DEF Processes
<1>4. \/ PutAuthorization(r.at, r.mem[r.at]) /\ Step(c, Accepting(k))
      \/ rows' = rows /\ Ends(c)
  BY DEF RecordsSent
<1> HIDE DEF k
<1>5. CASE PutAuthorization(r.at, r.mem[r.at]) /\ Step(c, Accepting(k))
  <2>1. \A x \in DOMAIN r.mem : Copied(r.mem[x], rows[x]) /\ Sound(r.mem[x])
    BY <1>2, Carried
  <2>2. RowShape' /\ \A x \in DOMAIN r.mem : Copied(r.mem[x], rows'[x])
    BY <1>1, <1>2, <1>5, <2>1, PutsRow DEF RecordInv, SameRow
  <2>3. proc'[c] = Accepting(k)
    BY <1>2, <1>5, StepAt
  <2>4. proc'[c].pc \in Holding /\ proc'[c].mem = r.mem
    BY <1>3, <2>3, AcceptingIs DEF Holding, Asking
  <2> QED
    BY <1>2, <2>2, <2>4, CarriesOn DEF SameRow
<1>6. CASE rows' = rows /\ Ends(c)
  BY <1>1, <1>2, <1>6, StepAt, IdleAfter, RowsStay DEF Ends, RecordInv
<1> QED
  BY <1>4, <1>5, <1>6

LEMMA PollsRecords ==
  ASSUME Types, Shapes, RecordInv, NEW c \in Certs, Polls(c), setting' = setting
  PROVE  RowShape' /\ Shaped(c)'
<1> DEFINE r == proc[c]
           over == {a \in r.todo : ca[a].status # r.cur[a].status}
           left == {a \in r.todo : ca[a].status \notin {"valid", "invalid"}}
           cur == [a \in DOMAIN r.cur |-> ca[a]]
           q == [r EXCEPT !.todo = left, !.cur = cur]
           u == CleansUp(r, r.pend)
<1>1. r.pc = "await" /\ late' = late
  BY DEF Polls, zone
<1>2. /\ c \in Procs /\ ProcessTypes /\ r \in Processes /\ ~Presenting(r) /\ Carrying(r)
      /\ r.todo \subseteq DOMAIN r.mem /\ r.mem \in Copies(Rows) /\ \A a \in DOMAIN r.mem : r.mem[a] \in Rows
  BY <1>1, PassShape DEF Presenting, Carrying, Holding, Asking, ProcessShape
<1>3. over \in SUBSET (DOMAIN r.mem)
  BY <1>2
<1>4. q.pc = "await" /\ q.mem = r.mem
  BY <1>1, <1>2 DEF Processes
<1>5. u.pc = "recover" /\ u.mem = r.mem /\ u.job = "cleanup"
  BY DEF CleansUp, Idle
<1>6. \/ rows' = [a \in Urls |-> IF a \in over THEN Stored(a, r.mem[a]) ELSE rows[a]]
      \/ rows' = rows
  BY DEF Polls
<1>7. Step(c, Discards) \/ Step(c, u) \/ Step(c, q) \/ Ends(c)
  BY DEF Polls
<1> HIDE DEF over, left, cur, q, u
<1>8. RowShape' /\ \A x \in DOMAIN r.mem : Copied(r.mem[x], rows'[x])
  <2>1. \A x \in DOMAIN r.mem : Copied(r.mem[x], rows[x]) /\ Sound(r.mem[x])
    BY <1>2, Carried
  <2>2. \A a \in over : r.mem[a] \in Rows /\ SameRow(r.mem[a], r.mem[a])
    BY <1>2, <1>3 DEF SameRow
  <2>3. CASE rows' = rows
    BY <1>1, <2>1, <2>3, RowsStay DEF RecordInv
  <2>4. CASE rows' = [a \in Urls |-> IF a \in over THEN Stored(a, r.mem[a]) ELSE rows[a]]
    BY <1>1, <1>2, <1>3, <2>1, <2>2, <2>4, WritesRows DEF RecordInv
  <2> QED
    BY <1>6, <2>3, <2>4
<1>9. proc'[c] \in {Discards, u, q, Idle}
  BY <1>2, <1>7, StepAt DEF Ends
<1>10. CASE proc'[c] \in {u, q}
  <2>1. /\ proc'[c].mem = r.mem
        /\ proc'[c].pc \in Holding \/ (proc'[c].job = "cleanup" /\ proc'[c].pc \in Cleanings \ {"relook"})
    BY <1>4, <1>5, <1>10 DEF Holding, Asking, Cleanings
  <2> QED
    BY <1>2, <1>8, <2>1, CarriesOn DEF SameRow
<1> QED
  BY <1>8, <1>9, <1>10, IdleAfter, DiscardsAfter

LEMMA PassRecordsKept ==
  ASSUME Types, Shapes, RecordInv, NEW c \in Certs, Pass(c), setting' = setting
  PROVE  RowShape' /\ Shaped(c)'
BY BeginRecords, loadAuthorizationsRecords, fetchAuthzsRecords, VisitsClosedRecords, ResumesRecords,
   ReleasesStaleRecords, VisitsNewRecords, ProbesRecords, PresentRecords, WaitsRecords, GivesUpWaitingRecords,
   AcceptsRecords, RecordsSentRecords, PollsRecords DEF Pass

\* The goroutine that cleans up: the flipping kind carries its rows as they are written, the
\* deleting kind those it has still to walk.
LEMMA CleanerAfter ==
  ASSUME RecordInv, setting' = setting, NEW p \in Procs, proc[p].pc \in Cleanings,
         proc'[p].pc \in {"clean"} \cup Removing, proc'[p].job = proc[p].job,
         proc[p].job = "cleanup" => /\ proc'[p].mem = proc[p].mem
                                    /\ \A a \in DOMAIN proc[p].mem : Copied(proc[p].mem[a], rows'[a]),
         proc[p].job \notin {"cleanup", "undo"} =>
            /\ \A a \in proc'[p].todo : proc'[p].mem[a].tok = rows'[a].tok /\ proc'[p].mem[a].age = rows'[a].age
            /\ (proc'[p].pc \in Removing => proc'[p].at \in proc'[p].todo)
            /\ (proc'[p].pc \in {"drop", "gone"} => Down(proc[p].at, proc[p])'),
         proc'[p].pc = "relook" => valueScopedCleanup
  PROVE  Shaped(p)'
<1>1. ~Presenting(proc[p]) /\ ~Presenting(proc[p])'
  BY DEF Presenting, Cleanings, Removing, Denying
<1>2. Carrying(proc[p])' => proc[p].job = "cleanup"
  BY DEF Carrying, Removing, Denying, Driving, Visiting, Holding, Asking
<1>3. ASSUME proc[p].job = "cleanup", NEW a \in DOMAIN proc'[p].mem
      PROVE  Copied(proc'[p].mem[a], rows'[a]) /\ Sound(proc[p].mem[a])'
  <2>1. Sound(proc[p].mem[a])
    BY <1>1, <1>3, Carried DEF Carrying
  <2> QED
    BY <1>3, <2>1 DEF Sound
<1>4. CarriedShape(proc[p])'
  BY <1>1, <1>2, <1>3 DEF CarriedShape
<1>5. valueScopedCleanup' <=> valueScopedCleanup
  BY DEF valueScopedCleanup
<1>6. WalkShape(proc[p])' /\ DownShape(proc[p])'
  BY <1>5 DEF WalkShape, DownShape, Walking, Removing, Denying
<1> QED
  BY <1>4, <1>6 DEF Shaped

\* It goes on with what it has, and no row is written.
LEMMA CleanerStays ==
  ASSUME RecordInv, UNCHANGED <<rows, setting>>, late' = late \/ late'.op # "write",
         NEW p \in Procs, proc[p].pc \in {"clean"} \cup Removing,
         proc'[p].pc \in {"clean"} \cup Removing, proc'[p].job = proc[p].job, proc'[p].mem = proc[p].mem,
         proc'[p].todo \subseteq proc[p].todo,
         proc[p].job \notin {"cleanup", "undo"} =>
            /\ (proc'[p].pc \in Removing => proc'[p].at \in proc'[p].todo)
            /\ (proc'[p].pc \in {"drop", "gone"} => Down(proc[p].at, proc[p])'),
         proc'[p].pc = "relook" => valueScopedCleanup
  PROVE  RowShape' /\ Shaped(p)'
<1>1. proc[p].pc \in Cleanings /\ ~Presenting(proc[p])
  BY DEF Cleanings, Presenting, Removing, Denying
<1>2. proc[p].job = "cleanup" => \A a \in DOMAIN proc[p].mem : Copied(proc[p].mem[a], rows'[a])
  BY <1>1, Carried DEF Carrying
<1>3. proc[p].job \notin {"cleanup", "undo"} =>
        \A a \in proc'[p].todo : proc'[p].mem[a].tok = rows'[a].tok /\ proc'[p].mem[a].age = rows'[a].age
  BY DEF RecordInv, Shaped, WalkShape, Walking
<1> QED
  BY <1>1, <1>2, <1>3, CleanerAfter, RowsStay DEF RecordInv

\* A denial that is believed is true of what is up and of what a call may still write.
LEMMA DeniedIsDown ==
  ASSUME RecordInv, NEW a, rows[a].tok # NoTok, rows[a].age # "young",
         "absent" \in Lookups(ValueOf(a, rows[a].tok))
  PROVE  ValueOf(a, rows[a].tok) \notin dns \cup Unwritten
<1> DEFINE v == ValueOf(a, rows[a].tok)
<1>1. v[1] = a
  BY ValueFirst
<1>2. v \notin dns
  BY <1>1, AbsentIsDown
<1>3. v \notin Unwritten
  BY <1>1 DEF Unwritten, RecordInv, RowShape
<1> QED
  BY <1>2, <1>3

LEMMA StartsRecords ==
  ASSUME Types, RecordInv, NEW p \in Procs, Recovers(p) \/ Registers(p), setting' = setting
  PROVE  RowShape' /\ Shaped(p)'
<1> DEFINE r == proc[p]
           q == proc'[p]
<1>1. r.pc \in {"recover", "register"} /\ UNCHANGED <<rows, late>>
  BY DEF Recovers, Registers, zone
<1>2. ProcessTypes /\ r \in Processes
  BY ShapeOf DEF Types
<1>3. q.pc = "register" /\ q.job = r.job /\ q.mem = r.mem /\ q.todo = r.todo
  <2>1. CASE Recovers(p)
    <3>1. q = [r EXCEPT !.pc = "register", !.regs = Recovered] \/ q = [r EXCEPT !.pc = "register"]
      BY <1>2, <2>1, StepAt DEF Recovers
    <3> QED
      BY <1>2, <3>1 DEF Processes
  <2>2. CASE Registers(p)
    <3>1. r.pc = "register" /\ \E v : q = [r EXCEPT !.regs = @ \ {v}]
      BY <1>2, <2>2, StepAt DEF Registers
    <3> QED
      BY <1>2, <3>1 DEF Processes
  <2> QED
    BY <2>1, <2>2
<1>4. RowShape'
  BY <1>1, RowsStay DEF RecordInv
<1>5. CASE r.job = "cleanup"
  <2>1. Carrying(r) /\ ~Presenting(r)
    BY <1>1, <1>5 DEF Carrying, Presenting
  <2>2. \A a \in DOMAIN r.mem : Copied(r.mem[a], rows'[a])
    BY <1>1, <2>1, SameCopies
  <2> QED
    BY <1>3, <1>4, <1>5, <2>1, <2>2, CarriesOn DEF SameRow, Cleanings
<1>6. CASE r.job # "cleanup"
  <2>1. r.todo = {}
    BY <1>1, <1>6 DEF RecordInv, Shaped, WalkShape
  <2>2. CarriedShape(proc[p])'
    BY <1>3, <1>6 DEF CarriedShape, Carrying, Presenting, Driving, Visiting, Holding, Asking
  <2>3. WalkShape(proc[p])' /\ DownShape(proc[p])'
    BY <1>3, <2>1 DEF WalkShape, DownShape, Walking, Removing, Denying
  <2> QED
    BY <1>4, <2>2, <2>3 DEF Shaped
<1> QED
  BY <1>5, <1>6

LEMMA ListsRecords ==
  ASSUME Types, RecordInv, NEW p \in Procs, Lists(p), setting' = setting
  PROVE  RowShape' /\ Shaped(p)'
<1> DEFINE r == proc[p]
           them == IF p = Sweeper THEN ListStuckTXTReclaims ELSE RowsOf(p)
           mem == [a \in them |-> rows[a]]
           l == [r EXCEPT !.pc = "clean", !.todo = them, !.mem = mem]
           k == [r EXCEPT !.pc = "clean"]
<1>1. r.pc = "register" /\ UNCHANGED <<rows, late>>
  BY DEF Lists, zone
<1>2. ProcessTypes /\ r \in Processes
  BY ShapeOf DEF Types
<1>3. RowShape'
  BY <1>1, RowsStay DEF RecordInv
<1>4. proc'[p] = Idle \/ proc'[p] = k \/ (proc'[p] = l /\ r.job # "cleanup")
  BY <1>2, StepAt DEF Lists
<1>5. k.pc = "clean" /\ k.job = r.job /\ k.mem = r.mem /\ k.todo = r.todo
  BY <1>2 DEF Processes
<1>6. \A a \in them : mem[a] = rows[a]
  OBVIOUS
<1> HIDE DEF mem, them
<1>7. l.pc = "clean" /\ l.job = r.job /\ l.mem = mem /\ l.todo = them
  BY <1>2 DEF Processes
<1> HIDE DEF k, l
<1>8. r.pc \in Cleanings /\ ~Presenting(r) /\ (r.job # "cleanup" => r.todo = {})
  BY <1>1 DEF Cleanings, Presenting, RecordInv, Shaped, WalkShape
<1>9. CASE proc'[p] = k
  <2>1. r.job = "cleanup" => \A a \in DOMAIN r.mem : Copied(r.mem[a], rows'[a])
    BY <1>1, <1>8, SameCopies DEF Carrying
  <2> QED
    BY <1>3, <1>5, <1>8, <1>9, <2>1, CleanerAfter DEF Removing, Denying
<1>10. CASE proc'[p] = l /\ r.job # "cleanup"
  BY <1>1, <1>3, <1>6, <1>7, <1>8, <1>10, CleanerAfter DEF Removing, Denying
<1> QED
  BY <1>3, <1>4, <1>9, <1>10, IdleAfter

\* A row without a token never reached DNS.
LEMMA TakesRecords ==
  ASSUME Types, RecordInv, NEW p \in Procs, NEW a \in Urls, Takes(p, a), setting' = setting
  PROVE  RowShape' /\ Shaped(p)'
<1> DEFINE r == proc[p]
           pc == IF r.mem[a].presented THEN "claim" ELSE "gone"
           q == [r EXCEPT !.at = a, !.pc = pc]
<1>1. r.pc = "clean" /\ a \in r.todo /\ ~Asks(p, a) /\ Step(p, q) /\ UNCHANGED <<rows, late>>
  BY DEF Takes, zone
<1>2. ProcessTypes /\ r \in Processes
  BY ShapeOf DEF Types
<1>3. proc'[p] = q
  BY <1>1, <1>2, StepAt
<1>4. q.pc = pc /\ q.at = a /\ q.job = r.job /\ q.mem = r.mem /\ q.todo = r.todo
  BY <1>2 DEF Processes
<1>5. ASSUME r.job \notin {"cleanup", "undo"}, pc = "gone" PROVE Down(r.at, r)'
  <2>1. r.mem[a].tok = NoTok
    BY <1>1, <1>5 DEF Asks
  <2>2. r.mem[a].tok = rows[a].tok
    BY <1>1, <1>5 DEF RecordInv, Shaped, WalkShape, Walking
  <2> QED
    BY <1>1, <1>3, <1>4, <2>1, <2>2 DEF Down
<1>6. pc \in {"claim", "gone"}
  OBVIOUS
<1> HIDE DEF pc, q
<1> QED
  BY <1>1, <1>3, <1>4, <1>5, <1>6, CleanerStays DEF Removing, Denying

\* A denial is believed when the window of the row is over (reclaimUnpresentedTXT).
LEMMA LooksRecords ==
  ASSUME Types, RecordInv, NEW p \in Procs, NEW a \in Urls, Looks(p, a), setting' = setting
  PROVE  RowShape' /\ Shaped(p)'
<1> DEFINE r == proc[p]
           q(pc) == [r EXCEPT !.at = a, !.pc = pc]
           k == [r EXCEPT !.todo = @ \ {a}]
           v == ValueOf(a, r.mem[a].tok)
<1>1. r.pc = "clean" /\ a \in r.todo /\ Asks(p, a) /\ UNCHANGED <<rows, late, dns, leases>>
  BY DEF Looks, zone
<1>2. ProcessTypes /\ r \in Processes
  BY ShapeOf DEF Types
<1>3. \/ proc'[p] \in {q("kept"), q("claim"), k}
      \/ proc'[p] = q("drop") /\ "absent" \in Lookups(v) /\ Believes(r.mem[a])
  BY <1>2, StepAt DEF Looks
<1>4. ASSUME NEW pc \in {"kept", "claim", "drop"}
      PROVE  q(pc).pc = pc /\ q(pc).at = a /\ q(pc).job = r.job /\ q(pc).mem = r.mem /\ q(pc).todo = r.todo
  BY <1>2 DEF Processes
<1>5. k.pc = "clean" /\ k.job = r.job /\ k.mem = r.mem /\ k.todo \subseteq r.todo
  BY <1>1, <1>2 DEF Processes
<1> HIDE DEF q, k
<1>6. CASE proc'[p] \in {q("kept"), q("claim")}
  BY <1>1, <1>4, <1>6, CleanerStays DEF Removing, Denying
<1>7. CASE proc'[p] = k
  BY <1>1, <1>5, <1>7, CleanerStays DEF Removing, Denying
<1>8. CASE proc'[p] = q("drop") /\ "absent" \in Lookups(v) /\ Believes(r.mem[a])
  <2>1. ASSUME r.job \notin {"cleanup", "undo"} PROVE Down(r.at, r)'
    <3>1. r.mem[a].tok = rows[a].tok /\ r.mem[a].age = rows[a].age
      BY <1>1, <2>1 DEF RecordInv, Shaped, WalkShape, Walking
    <3>2. rows[a].tok # NoTok /\ rows[a].age # "young"
      BY <1>1, <1>8, <3>1 DEF Asks, Believes
    <3>3. ValueOf(a, rows[a].tok) \notin dns \cup Unwritten
      BY <1>8, <3>1, <3>2, DeniedIsDown
    <3>4. Unwritten' = Unwritten
      BY <1>1 DEF Unwritten
    <3> QED
      BY <1>1, <1>4, <1>8, <3>3, <3>4 DEF Down
  <2> QED
    BY <1>1, <1>4, <1>8, <2>1, CleanerStays DEF Removing, Denying
<1> QED
  BY <1>3, <1>6, <1>7, <1>8

\* A process that goes on at the row it is at.
LEMMA GoneOn ==
  ASSUME Types, RecordInv, NEW p \in Procs, proc[p].pc \in Removing, NEW pc \in Removing, GoTo(p, pc),
         UNCHANGED <<rows, setting>>, late' = late \/ late'.op # "write", pc = "relook" => valueScopedCleanup,
         proc[p].job \notin {"cleanup", "undo"} /\ pc \in {"drop", "gone"} =>
            \/ /\ Down(proc[p].at, proc[p]) /\ UNCHANGED <<dns, late>>
               /\ leases' \in {leases, leases \ {Wanted(p)}}
            \/ Wanted(p) \notin dns' \cup Unwritten'
            \/ leases' \ {Wanted(p)} # {}
  PROVE  RowShape' /\ Shaped(p)'
<1> DEFINE r == proc[p]
           a == r.at
           q == [r EXCEPT !.pc = pc]
<1>1. ProcessTypes /\ r \in Processes
  BY ShapeOf DEF Types
<1>2. proc'[p] = q
  BY <1>1, StepAt DEF GoTo
<1>3. /\ q.pc = pc /\ q.at = a /\ q.job = r.job /\ q.mem = r.mem /\ q.todo = r.todo /\ q.early = r.early
  BY <1>1 DEF Processes
<1> HIDE DEF q
<1>4. ASSUME r.job \notin {"cleanup", "undo"} PROVE a \in r.todo /\ r.mem[a].tok = rows[a].tok
  BY <1>4 DEF RecordInv, Shaped, WalkShape, Walking
<1>5. ASSUME r.job \notin {"cleanup", "undo"}, pc \in {"drop", "gone"} PROVE Down(r.at, r)'
  <2> DEFINE v == ValueOf(a, rows[a].tok)
  <2>2. v = Wanted(p)
    BY <1>4, <1>5 DEF Wanted
  <2>3. v' = v /\ valueScopedCleanup' = valueScopedCleanup
    BY <1>2, <1>3 DEF valueScopedCleanup
  <2>4. CASE v \notin dns' \cup Unwritten' \/ leases' \ {v} # {}
    BY <1>2, <1>3, <2>3, <2>4 DEF Down
  <2>5. CASE Down(a, r) /\ UNCHANGED <<dns, late>> /\ leases' \in {leases, leases \ {Wanted(p)}}
    <3>1. leases' \ {v} = leases \ {v} /\ dns' = dns
      BY <2>2, <2>5
    <3>2. Unwritten' = Unwritten
      BY <2>5 DEF Unwritten
    <3> QED
      BY <1>2, <1>3, <2>3, <2>5, <3>1, <3>2 DEF Down
  <2> QED
    BY <1>5, <2>2, <2>4, <2>5
<1> QED
  BY <1>2, <1>3, <1>4, <1>5, CleanerStays

LEMMA DropsRecords ==
  ASSUME Types, RecordInv, NEW p \in Procs, Drops(p) \/ Claims(p) \/ releaseRowStaleLease(p), setting' = setting
  PROVE  RowShape' /\ Shaped(p)'
<1>1. UNCHANGED <<rows, late, dns>>
  BY DEF Drops, Claims, releaseRowStaleLease, zone
<1>2. CASE Drops(p)
  <2>1. proc[p].pc = "drop" /\ GoTo(p, "gone") /\ leases' \in {leases, leases \ {Wanted(p)}}
    BY <1>2 DEF Drops, releaseStaleLease, remove
  <2>2. proc[p].job \notin {"cleanup", "undo"} => Down(proc[p].at, proc[p])
    BY <2>1 DEF RecordInv, Shaped, DownShape, Walking, Removing, Denying
  <2> QED
    BY <1>1, <2>1, <2>2, GoneOn DEF Removing, Denying
<1>3. CASE Claims(p) \/ releaseRowStaleLease(p)
  <2>1. PICK pc \in {"release", "remove"} : GoTo(p, pc)
    BY <1>3 DEF Claims, releaseRowStaleLease
  <2>2. proc[p].pc \in Removing
    BY <1>3 DEF Claims, releaseRowStaleLease, Removing, Denying
  <2>3. ProcessTypes /\ proc[p] \in Processes
    BY ShapeOf DEF Types
  <2>4. proc'[p] = [proc[p] EXCEPT !.pc = pc]
    BY <2>1, <2>3, StepAt DEF GoTo
  <2>5. proc'[p].pc = pc /\ proc'[p].job = proc[p].job /\ proc'[p].mem = proc[p].mem /\ proc'[p].todo = proc[p].todo
        /\ proc'[p].at = proc[p].at
    BY <2>3, <2>4 DEF Processes
  <2>6. proc[p].job \notin {"cleanup", "undo"} => proc[p].at \in proc[p].todo
    BY <2>2 DEF RecordInv, Shaped, WalkShape, Walking
  <2> QED
    BY <1>1, <2>2, <2>5, <2>6, CleanerStays DEF Removing, Denying
<1> QED
  BY <1>2, <1>3

\* What the provider deleted is down, a call that timed out has ended before; what it was not
\* asked to delete is left to the leases that remain (CleanUp).
LEMMA CleanUpRecords ==
  ASSUME Types, RecordInv, NEW p \in Procs, CleanUp(p), setting' = setting
  PROVE  RowShape' /\ Shaped(p)'
<1> DEFINE v == Wanted(p)
<1>1. proc[p].pc \in Removing /\ rows' = rows /\ leases' = leases \ {v}
  BY DEF CleanUp, Removing, Denying, remove
<1>2. CASE LeavesToOthers(v) /\ GoTo(p, "gone") /\ UNCHANGED zone
  <2>1. leases' \ {v} # {}
    BY <1>1, <1>2 DEF LeavesToOthers, OthersLive
  <2> QED
    BY <1>1, <1>2, <2>1, GoneOn DEF zone, Removing, Denying
<1>3. CASE ~Busy /\ Deletes(v) /\ GoTo(p, "gone") /\ UNCHANGED late
  <2>1. v \notin dns'
    BY <1>3 DEF Deletes, DeleteLeaves
  <2>2. Unwritten' = {}
    BY <1>3 DEF Busy, NoCall, Unwritten
  <2> QED
    BY <1>1, <1>3, <2>1, <2>2, GoneOn DEF Removing, Denying
<1>4. CASE TimesOut("delete", v) /\ GoTo(p, "kept")
  <2>1. late' = [op |-> "delete", val |-> v]
    BY <1>4, Zenon DEF TimesOut
  <2> QED
    BY <1>1, <1>4, <2>1, GoneOn DEF Removing, Denying
<1>5. CASE UNCHANGED zone /\ (GoTo(p, "kept") \/ (GoTo(p, "relook") /\ valueScopedCleanup))
  BY <1>1, <1>5, GoneOn DEF zone, Removing, Denying
<1> QED
  BY <1>2, <1>3, <1>4, <1>5 DEF CleanUp

\* It is asked again of a provider that deletes by value, and the answer is believed at once.
LEMMA LooksAgainRecords ==
  ASSUME Types, RecordInv, NEW p \in Procs, LooksAgain(p), setting' = setting
  PROVE  RowShape' /\ Shaped(p)'
<1> DEFINE r == proc[p]
           a == r.at
           v == Wanted(p)
           q(pc, e) == [r EXCEPT !.pc = pc, !.early = e]
<1>1. r.pc = "relook" /\ UNCHANGED <<rows, late, dns, leases>>
  BY DEF LooksAgain, zone
<1>2. ProcessTypes /\ r \in Processes /\ r.pc \in {"clean"} \cup Removing
  BY <1>1, ShapeOf DEF Types, Removing, Denying
<1>3. \/ proc'[p] = q("kept", FALSE)
      \/ proc'[p] = q("drop", ~Believes(r.mem[a])) /\ "absent" \in Lookups(v)
  <2>1. PICK s \in Lookups(v) :
          proc'[p] = q(IF s = "absent" THEN "drop" ELSE "kept", s = "absent" /\ ~Believes(r.mem[a]))
    BY <1>2, StepAt DEF LooksAgain
  <2>2. CASE s = "absent"
    BY <2>1, <2>2
  <2>3. CASE s # "absent"
    BY <2>1, <2>3
  <2> QED
    BY <2>2, <2>3
<1>4. ASSUME NEW pc \in {"kept", "drop"}, NEW e \in BOOLEAN
      PROVE  /\ q(pc, e).pc = pc /\ q(pc, e).at = a /\ q(pc, e).job = r.job /\ q(pc, e).mem = r.mem
             /\ q(pc, e).todo = r.todo /\ q(pc, e).early = e
  BY <1>2 DEF Processes
<1>5. (~Believes(r.mem[a])) \in BOOLEAN
  OBVIOUS
<1> HIDE DEF q
<1>6. ASSUME r.job \notin {"cleanup", "undo"}
      PROVE  a \in r.todo /\ r.mem[a].tok = rows[a].tok /\ r.mem[a].age = rows[a].age
  BY <1>1, <1>2, <1>6 DEF RecordInv, Shaped, WalkShape, Walking, Removing, Denying
<1>7. valueScopedCleanup
  BY <1>1 DEF RecordInv, Shaped, WalkShape
<1>8. CASE proc'[p] = q("kept", FALSE)
  BY <1>1, <1>2, <1>4, <1>6, <1>8, CleanerStays DEF Removing, Denying
<1>9. CASE proc'[p] = q("drop", ~Believes(r.mem[a])) /\ "absent" \in Lookups(v)
  <2>1. proc'[p].pc = "drop" /\ proc'[p].at = a /\ proc'[p].job = r.job /\ proc'[p].mem = r.mem
        /\ proc'[p].todo = r.todo /\ proc'[p].early = ~Believes(r.mem[a])
    BY <1>4, <1>5, <1>9
  <2>2. ASSUME r.job \notin {"cleanup", "undo"} PROVE Down(r.at, r)'
    <3>1. Unwritten' = Unwritten /\ valueScopedCleanup'
      BY <1>1, <1>7 DEF Unwritten, valueScopedCleanup
    <3>2. CASE ~Believes(r.mem[a])
      BY <2>1, <3>1, <3>2 DEF Down
    <3>3. CASE rows[a].tok = NoTok
      BY <1>1, <2>1, <3>3 DEF Down
    <3>4. CASE Believes(r.mem[a]) /\ rows[a].tok # NoTok
      <4>1. rows[a].age # "young" /\ v = ValueOf(a, rows[a].tok)
        BY <1>6, <2>2, <3>4 DEF Believes, Wanted
      <4>2. ValueOf(a, rows[a].tok) \notin dns \cup Unwritten
        BY <1>9, <3>4, <4>1, DeniedIsDown
      <4> QED
        BY <1>1, <2>1, <3>1, <4>2 DEF Down
    <3> QED
      BY <3>2, <3>3, <3>4
  <2> QED
    BY <1>1, <1>2, <1>6, <2>1, <2>2, CleanerStays DEF Removing, Denying
<1> QED
  BY <1>3, <1>8, <1>9

\* A row that was dealt with: what is left of the walk does not concern it.
LEMMA PassedRecords ==
  ASSUME Types, RecordInv, NEW p \in Procs, proc[p].pc \in Removing, Step(p, After(p)), setting' = setting,
         proc[p].job = "cleanup" => \A a \in DOMAIN proc[p].mem : Copied(proc[p].mem[a], rows'[a]),
         \A a \in Urls : a # proc[p].at => rows'[a].tok = rows[a].tok /\ rows'[a].age = rows[a].age
  PROVE  Shaped(p)'
<1> DEFINE r == proc[p]
           q == Passed(p)
<1>1. ProcessTypes /\ r \in Processes /\ ProcessShape(r) /\ r.pc \in Cleanings
  BY ShapeOf DEF Types, Cleanings
<1>2. proc'[p] = After(p)
  BY <1>1, StepAt
<1>3. q.pc = "clean" /\ q.job = r.job /\ q.mem = r.mem /\ q.todo = r.todo \ {r.at}
  BY <1>1 DEF Passed, Processes
<1> HIDE DEF q
<1>4. CASE r.job = "undo"
  BY <1>2, <1>4, IdleAfter DEF After
<1>5. CASE r.job # "undo"
  <2>1. proc'[p] = q
    BY <1>2, <1>5 DEF After, q
  <2>2. ASSUME r.job # "cleanup", NEW a \in r.todo, a # r.at
        PROVE  r.mem[a].tok = rows'[a].tok /\ r.mem[a].age = rows'[a].age
    <3>1. a \in Urls
      BY <1>1 DEF Processes
    <3>2. r.mem[a].tok = rows[a].tok /\ r.mem[a].age = rows[a].age
      BY <1>5, <2>2 DEF RecordInv, Shaped, WalkShape, Walking
    <3> QED
      BY <2>2, <3>1, <3>2
  <2> QED
    BY <1>1, <1>3, <1>5, <2>1, <2>2, CleanerAfter DEF Removing, Denying
<1> QED
  BY <1>4, <1>5

LEMMA GoneRecords ==
  ASSUME Types, RecordInv, NEW p \in Procs, Gone(p), setting' = setting
  PROVE  RowShape' /\ Shaped(p)'
<1> DEFINE r == proc[p]
           a == r.at
           m == [r.mem[a] EXCEPT !.presented = FALSE]
<1>1. r.pc = "gone" /\ Step(p, After(p)) /\ late' = late
  BY DEF Gone, zone
<1>2. /\ ProcessTypes /\ r.pc \in Removing /\ r.mem \in Copies(Rows) /\ StoreTypes
      /\ a \in Urls /\ a \in DOMAIN r.mem /\ r.mem[a] \in Rows
  BY <1>1, ShapeOf, AtRow DEF Types, Removing, Processes
<1>3. ASSUME r.job = "cleanup" PROVE \A b \in DOMAIN r.mem : Copied(r.mem[b], rows[b]) /\ Sound(r.mem[b])
  BY <1>1, <1>3, Carried DEF Carrying, Presenting
<1>4. \/ rows' = rows
      \/ r.job = "cleanup" /\ PutAuthorization(a, m)
      \/ r.job # "cleanup" /\ DeleteAuthorization(a)
  BY DEF Gone
<1>5. CASE rows' = rows
  BY <1>1, <1>2, <1>3, <1>5, PassedRecords, RowsStay DEF RecordInv
<1>6. CASE r.job = "cleanup" /\ PutAuthorization(a, m)
  <2>1. m \in Rows
    BY <1>2, RowSet
  <2>2. SameRow(m, r.mem[a])
    BY <1>2 DEF SameRow, Rows
  <2> HIDE DEF m
  <2>3. RowShape' /\ \A b \in DOMAIN r.mem : Copied(r.mem[b], rows'[b])
    BY <1>1, <1>2, <1>3, <1>6, <2>1, <2>2, PutsRow DEF RecordInv
  <2>4. \A b \in Urls : b # a => rows'[b] = rows[b]
    BY <1>2, <1>6 DEF PutAuthorization, StoreTypes
  <2> QED
    BY <1>1, <1>2, <2>3, <2>4, PassedRecords
<1>7. CASE r.job # "cleanup" /\ DeleteAuthorization(a)
  <2>1. rows'[a] = NoRow /\ \A b \in Urls : b # a => rows'[b] = rows[b]
    BY <1>2, <1>7 DEF DeleteAuthorization, StoreTypes
  <2>2. NoRow.tok = NoTok /\ NoRow.val = NoTok
    BY DEF NoRow
  <2>3. \A b \in Urls : Sound(rows[b])'
    BY <2>1, <2>2 DEF RecordInv, RowShape, Sound
  <2>4. late.op = "write" => late.val[1] \in Urls
    BY DEF Types, DnsTypes, Values
  <2>5. RowShape'
    BY <1>1, <2>1, <2>2, <2>3, <2>4 DEF RecordInv, RowShape
  <2> QED
    BY <1>1, <1>2, <1>7, <2>1, <2>5, PassedRecords
<1> QED
  BY <1>4, <1>5, <1>6, <1>7

LEMMA KeptRecords ==
  ASSUME Types, RecordInv, NEW p \in Procs, Kept(p), setting' = setting
  PROVE  RowShape' /\ Shaped(p)'
<1> DEFINE r == proc[p]
           a == r.at
<1>1. r.pc = "kept" /\ Step(p, After(p)) /\ late' = late
  BY DEF Kept, zone
<1>2. /\ r.pc \in Removing /\ StoreTypes /\ a \in Urls
  BY <1>1, AtRow DEF Types, Removing, Denying
<1>3. rows' = rows \/ MarkTXTReclaimStuck(a)
  BY DEF Kept, Keeps
<1>4. \A b \in Urls : rows'[b].tok = rows[b].tok /\ rows'[b].val = rows[b].val /\ rows'[b].age = rows[b].age
  BY <1>2, <1>3 DEF MarkTXTReclaimStuck, StoreTypes, Rows
<1>5. late.op = "write" => late.val[1] \in Urls
  BY DEF Types, DnsTypes, Values
<1>6. RowShape'
  BY <1>1, <1>4, <1>5 DEF RecordInv, RowShape, Sound
<1>7. ASSUME r.job = "cleanup", NEW b \in DOMAIN r.mem PROVE Copied(r.mem[b], rows'[b])
  <2>1. Copied(r.mem[b], rows[b])
    BY <1>1, <1>7, Carried DEF Carrying, Presenting
  <2>2. b \in Urls
    BY <1>7, ShapeOf, CopiesOf DEF Types, Processes
  <2> QED
    BY <1>4, <2>1, <2>2 DEF Copied
<1> QED
  BY <1>1, <1>2, <1>4, <1>6, <1>7, PassedRecords

LEMMA CleanedAllRecords ==
  ASSUME Types, RecordInv, NEW p \in Procs, CleanedAll(p), setting' = setting
  PROVE  RowShape' /\ Shaped(p)'
<1>1. UNCHANGED <<rows, late>> /\ ProcessTypes
  BY DEF CleanedAll, zone, Types
<1>2. \/ Ends(p) \/ Step(p, [Idle EXCEPT !.pc = "order"])
      \/ Step(p, [Idle EXCEPT !.pc = "recover", !.job = "epilogue"])
  BY DEF CleanedAll
<1> DEFINE o == [Idle EXCEPT !.pc = "order"]
           e == [Idle EXCEPT !.pc = "recover", !.job = "epilogue"]
<1>3. proc'[p] \in {Idle, o, e}
  BY <1>1, <1>2, StepAt DEF Ends
<1>4. /\ Idle.pc = "idle" /\ Idle.job = "none" /\ Idle.todo = {}
      /\ o.pc = "order" /\ o.job = "none" /\ o.todo = {}
      /\ e.pc = "recover" /\ e.job = "epilogue" /\ e.todo = {}
  BY DEF Idle
<1> HIDE DEF o, e
<1> QED
  BY <1>1, <1>3, <1>4, BareAfter, RowsStay DEF RecordInv

LEMMA CleaningRecordsKept ==
  ASSUME Types, RecordInv, NEW p \in Procs, Cleaning(p), setting' = setting
  PROVE  RowShape' /\ Shaped(p)'
BY StartsRecords, ListsRecords, TakesRecords, LooksRecords, DropsRecords, CleanUpRecords, LooksAgainRecords,
   GoneRecords, KeptRecords, CleanedAllRecords DEF Cleaning

Aged(age) == IF age = "young" THEN "old" ELSE age

\* A window passes on disk and in every copy at once.
LEMMA AgesTogether ==
  ASSUME Types, NEW a \in Urls, GrowsOld(a), NEW p \in Procs
  PROVE  LET r == proc[p]
             q == proc'[p]
         IN  /\ q.pc = r.pc /\ q.job = r.job /\ q.todo = r.todo /\ q.at = r.at /\ q.early = r.early
             /\ DOMAIN q.mem = DOMAIN r.mem
             /\ \A b \in DOMAIN r.mem :
                   /\ q.mem[b].tok = r.mem[b].tok /\ q.mem[b].val = r.mem[b].val
                   /\ q.mem[b].age = IF b = a THEN Aged(r.mem[b].age) ELSE r.mem[b].age
<1> DEFINE r == proc[p]
           q == proc'[p]
           m == [r.mem[a] EXCEPT !.age = "old"]
           mem == [r.mem EXCEPT ![a] = m]
           k == [r EXCEPT !.mem = mem]
<1>1. r \in Processes
  BY ShapeOf DEF Types
<1>2. IF a \in DOMAIN r.mem /\ r.mem[a].age = "young" THEN q = k ELSE q = r
  BY DEF GrowsOld
<1>3. CASE ~(a \in DOMAIN r.mem /\ r.mem[a].age = "young")
  BY <1>2, <1>3 DEF Aged
<1>4. CASE a \in DOMAIN r.mem /\ r.mem[a].age = "young"
  <2>1. r.mem[a] \in Rows
    BY <1>1, <1>4, CopyGet DEF Processes
  <2>2. m.tok = r.mem[a].tok /\ m.val = r.mem[a].val /\ m.age = "old"
    BY <2>1 DEF Rows
  <2>3. DOMAIN mem = DOMAIN r.mem /\ mem[a] = m /\ \A b \in DOMAIN r.mem : b # a => mem[b] = r.mem[b]
    BY <1>4
  <2>4. k.mem = mem /\ k.pc = r.pc /\ k.job = r.job /\ k.todo = r.todo /\ k.at = r.at /\ k.early = r.early
    BY <1>1 DEF Processes
  <2> HIDE DEF m, mem, k
  <2> QED
    BY <1>2, <1>4, <2>2, <2>3, <2>4 DEF Aged
<1> QED
  BY <1>3, <1>4

LEMMA GrowsOldRecords ==
  ASSUME Types, RecordInv, NEW a \in Urls, GrowsOld(a)
  PROVE  RecordInv'
<1>1. rows[a].age = "young" /\ UNCHANGED <<dns, late, leases, setting>> /\ StoreTypes
  BY DEF GrowsOld, zone, Types
<1>2. rows'[a].age = "old" /\ rows'[a].tok = rows[a].tok /\ rows'[a].val = rows[a].val
      /\ \A b \in Urls : b # a => rows'[b] = rows[b]
  BY <1>1 DEF GrowsOld, StoreTypes, Rows
<1>3. \A b \in Urls : /\ rows'[b].tok = rows[b].tok /\ rows'[b].val = rows[b].val
                      /\ rows'[b].age = IF b = a THEN Aged(rows[b].age) ELSE rows[b].age
  BY <1>1, <1>2 DEF Aged
<1>4. RowShape'
  <2>1. \A b \in Urls : Sound(rows[b])'
    BY <1>1, <1>3 DEF RecordInv, RowShape, Sound
  <2>2. ASSUME late.op = "write" PROVE late.val[1] \in Urls /\ late.val[1] # a
    <3>1. late.val \in Values
      BY <2>2 DEF Types, DnsTypes
    <3>2. late.val = <<late.val[1], late.val[2]>> /\ late.val[1] \in Urls /\ late.val[2] \in Tokens
      BY <3>1 DEF Values
    <3> QED
      BY <3>2 DEF GrowsOld, ValueOf
  <2> QED
    BY <1>1, <1>2, <2>1, <2>2 DEF RecordInv, RowShape
<1>5. ASSUME NEW p \in Procs PROVE Shaped(p)'
  <2> DEFINE r == proc[p]
             q == proc'[p]
  <2>1. /\ q.pc = r.pc /\ q.job = r.job /\ q.todo = r.todo /\ q.at = r.at /\ q.early = r.early
        /\ DOMAIN q.mem = DOMAIN r.mem
        /\ \A b \in DOMAIN r.mem :
              /\ q.mem[b].tok = r.mem[b].tok /\ q.mem[b].val = r.mem[b].val
              /\ q.mem[b].age = IF b = a THEN Aged(r.mem[b].age) ELSE r.mem[b].age
    BY <1>5, AgesTogether
  <2>2. ProcessShape(r) /\ DOMAIN r.mem \subseteq Urls
    BY ShapeOf, CopiesOf DEF Types, Processes
  <2>3. CarriedShape(r) /\ WalkShape(r) /\ DownShape(r)
    BY DEF RecordInv, Shaped
  <2>4. Carrying(r)' = Carrying(r) /\ Presenting(r)' = Presenting(r) /\ Walking(r)' = Walking(r)
    BY <2>1 DEF Carrying, Presenting, Walking
  <2>5. ASSUME NEW b \in DOMAIN q.mem, Carrying(r)
        PROVE  Copied(q.mem[b], rows'[b]) /\ (Sound(r.mem[b])' \/ (Presenting(r)' /\ q.at = b))
    <3>1. b \in DOMAIN r.mem /\ b \in Urls
      BY <2>1, <2>2, <2>5
    <3>2. Copied(r.mem[b], rows[b]) /\ (Sound(r.mem[b]) \/ (Presenting(r) /\ r.at = b))
      BY <2>3, <2>5, <3>1 DEF CarriedShape
    <3>3. Copied(q.mem[b], rows'[b])
      BY <1>3, <2>1, <3>1, <3>2 DEF Copied
    <3>4. Sound(r.mem[b]) => Sound(r.mem[b])'
      BY <1>1, <2>1, <3>1 DEF Sound
    <3> QED
      BY <2>1, <2>4, <3>2, <3>3, <3>4
  <2>6. ASSUME Presenting(r) PROVE rows'[q.at].age = "young"
    <3>1. r.at # a /\ r.at \in Urls /\ rows[r.at].age = "young"
      BY <2>2, <2>3, <2>6 DEF GrowsOld, CarriedShape, Presenting, ProcessShape, Visiting
    <3> QED
      BY <1>2, <2>1, <3>1
  <2>7. CarriedShape(r)'
    BY <2>4, <2>5, <2>6 DEF CarriedShape
  <2>8. valueScopedCleanup' = valueScopedCleanup
    BY <1>1 DEF valueScopedCleanup
  <2>9. WalkShape(r)'
    <3>1. ASSUME NEW b \in q.todo, Walking(r) PROVE q.mem[b].tok = rows'[b].tok /\ q.mem[b].age = rows'[b].age
      <4>1. b \in r.todo /\ b \in DOMAIN r.mem /\ b \in Urls
        BY <2>1, <2>2, <3>1 DEF ProcessShape
      <4>2. r.mem[b].tok = rows[b].tok /\ r.mem[b].age = rows[b].age
        BY <2>3, <3>1, <4>1 DEF WalkShape
      <4> QED
        BY <1>3, <2>1, <4>1, <4>2
    <3> QED
      BY <2>1, <2>3, <2>4, <2>8, <3>1 DEF WalkShape
  <2>10. DownShape(r)'
    <3>1. ASSUME Walking(r), r.pc \in {"drop", "gone"} PROVE Down(r.at, r)'
      <4>1. Down(r.at, r) /\ r.at \in Urls
        BY <2>2, <2>3, <3>1 DEF DownShape, ProcessShape, Removing, Denying
      <4>2. rows'[q.at].tok = rows[r.at].tok /\ Unwritten' = Unwritten
        BY <1>1, <1>3, <2>1, <4>1 DEF Unwritten
      <4> QED
        BY <1>1, <2>1, <2>8, <4>1, <4>2 DEF Down
    <3> QED
      BY <2>1, <2>4, <3>1 DEF DownShape
  <2> QED
    BY <2>7, <2>9, <2>10 DEF Shaped
<1> QED
  BY <1>4, <1>5 DEF RecordInv

\* What the others leave: nobody but the process that takes a step is under way.
LEMMA LandsRecords ==
  ASSUME Types, RecordInv, Lands
  PROVE  RecordInv'
<1>1. UNCHANGED <<rows, leases, proc, setting>> /\ late' = NoCall
  BY DEF Lands
<1>2. dns' \subseteq dns \cup Unwritten /\ Unwritten' = {}
  BY <1>1 DEF Lands, Writes, Deletes, DeleteLeaves, Unwritten, NoCall
<1>3. RowShape'
  BY <1>1, RowsStay DEF RecordInv, NoCall
<1>4. ASSUME NEW p \in Procs PROVE Shaped(p)'
  <2>1. CarriedShape(proc[p])' /\ WalkShape(proc[p])'
    BY <1>1, <1>4 DEF RecordInv, Shaped, CarriedShape, WalkShape, Sound, valueScopedCleanup
  <2>2. Down(proc[p].at, proc[p]) => Down(proc[p].at, proc[p])'
    BY <1>1, <1>2 DEF Down, valueScopedCleanup
  <2>3. DownShape(proc[p])'
    BY <1>1, <1>4, <2>2 DEF RecordInv, Shaped, DownShape
  <2> QED
    BY <2>1, <2>3 DEF Shaped
<1> QED
  BY <1>3, <1>4 DEF RecordInv

LEMMA RecordsStay ==
  ASSUME RecordInv, UNCHANGED <<rows, dns, late, leases, proc, setting>>
  PROVE  RecordInv'
<1>1. RowShape'
  BY RowsStay DEF RecordInv
<1>2. ASSUME NEW p \in Procs PROVE Shaped(p)'
  <2>1. CarriedShape(proc[p])' /\ WalkShape(proc[p])'
    BY <1>2 DEF RecordInv, Shaped, CarriedShape, WalkShape, Sound, valueScopedCleanup
  <2>2. Down(proc[p].at, proc[p]) => Down(proc[p].at, proc[p])'
    BY DEF Down, valueScopedCleanup, Unwritten
  <2>3. DownShape(proc[p])'
    BY <1>2, <2>2 DEF RecordInv, Shaped, DownShape
  <2> QED
    BY <2>1, <2>3 DEF Shaped
<1> QED
  BY <1>1, <1>2 DEF RecordInv

LEMMA OtherRecordsKept ==
  ASSUME Types, RecordInv, OneAtATime, ~setting.triggers, Timers, Shapes
  PROVE  RecordInv'
<1>1. CASE BeginsSweep
  <2>1. UNCHANGED <<rows, late, setting>> /\ proc'[Sweeper] = [Idle EXCEPT !.pc = "recover", !.job = "sweep"]
    BY <1>1, StepAt, CertsAreProcs DEF BeginsSweep, zone, Types
  <2>2. proc'[Sweeper].pc = "recover" /\ proc'[Sweeper].job = "sweep" /\ proc'[Sweeper].todo = {}
    BY <2>1 DEF Idle
  <2>3. ASSUME NEW q \in Procs, q # Sweeper PROVE proc'[q] = Idle
    <3>1. proc[q].pc = "idle" /\ proc'[q] = proc[q]
      BY <1>1, <2>3, ActsAlone, CertsAreProcs
    <3> QED
      BY <3>1, ShapeOf DEF Types, ProcessShape
  <2>4. RowShape'
    BY <2>1, RowsStay DEF RecordInv
  <2>5. Shaped(Sweeper)'
    BY <2>2, BareAfter
  <2> QED
    BY <2>3, <2>4, <2>5, IdleAfter DEF RecordInv
<1>2. CASE Crash
  <2>1. UNCHANGED <<rows, setting>> /\ late' = NoCall /\ \A q \in Procs : proc'[q] = Idle
    BY <1>2 DEF Crash
  <2> QED
    BY <2>1, IdleAfter, RowsStay DEF RecordInv, NoCall
<1>3. ASSUME NEW a \in Urls, Validates(a) \/ Closes(a) \/ Rechallenges(a)
      PROVE  RecordInv'
  <2>1. UNCHANGED <<rows, dns, late, leases, proc, setting>>
    BY <1>3 DEF Validates, Closes, Rechallenges, zone
  <2> QED
    BY <2>1, RecordsStay
<1> QED
  BY <1>1, <1>2, <1>3, LandsRecords, GrowsOldRecords DEF Timers

LEMMA RecordKept ==
  ASSUME Types, Shapes, OneAtATime, ~setting.triggers, RecordInv, Next, setting' = setting
  PROVE  RecordInv'
<1>1. ASSUME NEW p \in Procs, (p \in Certs /\ Pass(p)) \/ Cleaning(p)
      PROVE  RecordInv'
  <2>1. RowShape' /\ Shaped(p)'
    BY <1>1, PassRecordsKept, CleaningRecordsKept
  <2>2. ASSUME NEW q \in Procs, q # p PROVE Shaped(q)'
    <3>1. proc[q].pc = "idle" /\ proc'[q] = proc[q]
      BY <1>1, <2>2, ActsAlone
    <3>2. proc'[q] = Idle
      BY <3>1, ShapeOf DEF Types, ProcessShape
    <3> QED
      BY <3>2, IdleAfter
  <2> QED
    BY <2>1, <2>2 DEF RecordInv
<1>2. CASE Timers
  BY <1>2, OtherRecordsKept
<1> QED
  BY <1>1, <1>2, CertsAreProcs DEF Next, Timers

LEMMA RecordInit == ASSUME Init PROVE RecordInv
<1>1. NoRow.val = NoTok
  BY DEF NoRow
<1>2. Fresh => \A a \in Urls : rows[a] = NoRow
  BY DEF Fresh
<1>3. \A a \in Urls : Sound(rows[a])
  BY <1>1, <1>2 DEF Init, Sound
<1>4. late.op # "write"
  BY DEF Init, NoCall
<1>5. ASSUME NEW p \in Procs PROVE Shaped(p)
  <2>1. proc[p].pc = "idle" /\ proc[p].job = "none"
    BY DEF Init, Idle
  <2> QED
    BY <2>1 DEF Shaped, CarriedShape, WalkShape, DownShape, Carrying, Walking, Presenting, Driving, Visiting, Holding,
       Asking, Removing, Denying
<1> QED
  BY <1>3, <1>4, <1>5 DEF RecordInv, RowShape

\* A row goes only where a clean-up that is not a pass's own is through with its record.
LEMMA RowGoes ==
  ASSUME Types, Next, NEW a \in Urls, rows[a].on, ~rows'[a].on
  PROVE  \E p \in Procs : Gone(p) /\ proc[p].at = a /\ proc[p].job \notin {"cleanup", "undo"}
BY PassWrites, CleaningWrites, OtherWrites DEF Next, Writing

\* The record of the challenge it names has been dealt with by then.
LEMMA GoneIsDown ==
  ASSUME Types, RecordInv, Next, NEW a \in Urls, rows[a].on, ~rows'[a].on
  PROVE  LET v == ValueOf(a, rows[a].tok) IN
         rows[a].tok = NoTok \/ v \notin dns \cup Unwritten \/ leases \ {v} # {} \/ (valueScopedCleanup /\ Trusting(a))
<1>1. PICK p \in Procs : Gone(p) /\ proc[p].at = a /\ proc[p].job \notin {"cleanup", "undo"}
  BY RowGoes
<1>2. Down(a, proc[p])
  BY <1>1 DEF RecordInv, Shaped, DownShape, Walking, Gone, Removing
<1> QED
  BY <1>1, <1>2 DEF Down, Trusting

(* The theorems *)

LEMMA InvInit == ASSUME Init PROVE ChallengesInv
<1>1. Types /\ Shapes
  BY TypesInit, ShapesInit
<1>2. late.op # "delete"
  BY DEF Init, NoCall
<1>3. \A p \in Procs : proc[p] = Idle
  BY DEF Init
<1>4. Held /\ AwaitedStays /\ OneAtATime
  BY <1>3, CertsAreProcs DEF Held, AwaitedStays, OneAtATime, Idle, Holding, Asking
<1>5. SweepIsApart
  <2>1. \A a \in Urls : ~rows[a].stuck
    <3> DEFINE old == [NewRow EXCEPT !.tok = MaxToken, !.val = 1, !.presented = TRUE, !.age = "old"]
    <3>1. ~NoRow.stuck /\ ~old.stuck
      BY DEF NoRow, NewRow
    <3>2. Fresh => \A a \in Urls : rows[a] = NoRow
      BY DEF Fresh
    <3>3. ASSUME NEW b \in Urls, Inherits(b) PROVE \A a \in Urls : rows[a] \in {old, NoRow}
      BY <3>3 DEF Inherits
    <3> HIDE DEF old
    <3>4. \A a \in Urls : rows[a] \in {old, NoRow}
      BY <3>2, <3>3 DEF Init
    <3> QED
      BY <3>1, <3>4
  <2>2. \A a \in Urls : ~Touched(a)
    BY <1>3, <2>1, CertsAreProcs, EmptyCopy DEF Touched, Swept, Idle
  <2> QED
    BY <1>3, <2>2, CertsAreProcs DEF SweepIsApart, Idle, Driving, Visiting, Holding, Asking
<1> QED
  BY <1>1, <1>2, <1>4, <1>5, RecordInit DEF ChallengesInv, Apart

LEMMA InvKept == ASSUME ChallengesInv, [Next]_vars PROVE ChallengesInv'
<1>1. Types' /\ Shapes'
  BY TypesKept, ShapesKept DEF ChallengesInv
<1>2. setting' = setting
  BY PassGrows, CleaningGrows, OtherGrows DEF Next, vars, ChallengesInv
<1>3. ASSUME Undisturbed(setting) PROVE Apart' /\ Held' /\ late'.op # "delete" /\ AwaitedStays'
  <2>1. CASE UNCHANGED vars
    BY <1>3, <2>1 DEF vars, ChallengesInv, Apart, SweepIsApart, Touched, Swept, Hopeless, OneAtATime, Held, AwaitedStays
  <2>2. CASE Next
    <3>1. Types /\ Shapes /\ Apart /\ Held /\ late.op # "delete" /\ AwaitedStays
      BY <1>3 DEF ChallengesInv
    <3>2. Apart'
      BY <1>2, <1>3, <2>2, <3>1, ApartKept, OneKept DEF Apart
    <3> QED
      BY <1>3, <2>2, <3>1, <3>2, HeldKept, LateKept, AwaitedKept
  <2> QED
    BY <2>1, <2>2
<1>4. Undisturbed(setting)' <=> Undisturbed(setting)
  BY <1>2 DEF Undisturbed
<1>5. ASSUME ~setting.triggers PROVE OneAtATime' /\ RecordInv'
  <2>1. CASE UNCHANGED vars
    BY <1>5, <2>1, RecordsStay DEF vars, ChallengesInv, OneAtATime
  <2>2. CASE Next
    BY <1>2, <1>5, <2>2, OneKept, RecordKept DEF ChallengesInv
  <2> QED
    BY <2>1, <2>2
<1> QED
  BY <1>1, <1>2, <1>3, <1>4, <1>5 DEF ChallengesInv

\* The invariant: the shape of every goroutine and of the store, the CA's decisions that stay
\* decided; and where no mishap disturbs a wait, that what is awaited is held and up.
THEOREM ChallengesInductive == Spec => []ChallengesInv
<1>1. Init => ChallengesInv
  BY InvInit
<1>2. ChallengesInv /\ [Next]_vars => ChallengesInv'
  BY InvKept
<1> QED
  BY <1>1, <1>2, PTL DEF Spec

\* Authorizations belong to the certificate whose order they are in, tokens and values are in
\* range, and a presented row names the token and the value it presented (state's
\* authorization rows, PutAuthorization).
THEOREM ChallengesTyped == Spec => []TypeOK
<1>1. ChallengesInv => TypeOK
  <2>1. ASSUME Types, NEW a \in Urls
        PROVE  /\ rows[a].tok \in Tokens \cup {NoTok} /\ rows[a].val \in Tokens \cup {NoTok}
               /\ (rows[a].presented => rows[a].tok # NoTok /\ rows[a].val # NoTok)
    <3>1. rows[a] \in Rows
      BY <2>1 DEF Types, StoreTypes
    <3> QED
      BY <3>1 DEF Rows
  <2> QED
    BY <2>1 DEF ChallengesInv, Types, StoreTypes, DnsTypes, TypeOK
<1> QED
  BY <1>1, ChallengesInductive, PTL

\* For any number of certificates and of mishaps: a record whose verdict a pass waits for stays
\* up, whoever else cleans up or sweeps at the name (challengeLeases, CleanUp, WaitAll),
\* in every setting but those in which a delete takes effect after its deadline, everybody is
\* silent, or an interrupted replacing meets overlapping passes.
THEOREM AwaitedAlwaysStays == Spec => [](Undisturbed(setting) => AwaitedStays)
<1>1. ChallengesInv => (Undisturbed(setting) => AwaitedStays)
  BY DEF ChallengesInv
<1> QED
  BY <1>1, ChallengesInductive, PTL

\* Whatever the provider's clean-up removes and whatever goes wrong, as long as passes do not
\* overlap: when a row goes, the record of the challenge it names is down and will not be
\* written any more, or the lease of another value will have it deleted with everything at the
\* name, or a provider that deletes by value had forgotten it and DNS was asked too early
\* (removeAuthzTXT, CleanUp, reclaimUnpresentedTXT, cleanupOrphanTXT).
THEOREM RowOutlivesNamedRecord == Spec => NamedRecordFirst
<1> DEFINE Step_ == ~setting.triggers => \A a \in Urls : rows[a].on /\ ~rows'[a].on /\ rows[a].tok # NoTok =>
                      LET v == ValueOf(a, rows[a].tok) IN
                         \/ v \notin dns \cup Unwritten \/ leases \ {v} # {}
                         \/ valueScopedCleanup /\ Trusting(a)
<1>1. ChallengesInv /\ [Next]_vars => [Step_]_vars
  <2>1. ASSUME ChallengesInv, Next, ~setting.triggers PROVE Step_
    BY <2>1, GoneIsDown DEF ChallengesInv
  <2> QED
    BY <2>1
<1> QED
  BY <1>1, ChallengesInductive, PTL DEF Spec, NamedRecordFirst

\* A provider that deletes by value, and no row of an earlier build, whose token may have moved
\* on from the value it wrote.
ByValue(s) == s.provider = "own" /\ "old row" \notin s.faults

\* With a provider that deletes by value, for any number of certificates and of mishaps: a row
\* goes only when no record of its challenge is up or may still be written, or when another row
\* or lease will have everything at the name deleted (valueScopedCleanup, removeAuthzTXT,
\* cleanupOrphanTXT).
THEOREM RowAlwaysOutlivesRecord == Spec => (ByValue(setting) => RowOutlivesRecord)
<1> DEFINE Step_ == ~setting.triggers => \A a \in Urls : rows[a].on /\ ~rows'[a].on =>
                      \A t \in Tokens :
                         \/ ValueOf(a, t) \notin dns \cup Unwritten
                         \/ leases \ {ValueOf(a, t)} # {}
                         \/ \E b \in Urls \ {a} : rows[b].on /\ rows[b].tok # NoTok
                         \/ valueScopedCleanup /\ (t \notin {rows[a].tok, rows[a].val} \/ Trusting(a))
<1>1. ChallengesInv /\ ByValue(setting) /\ [Next]_vars => ByValue(setting)'
  <2>1. ChallengesInv /\ [Next]_vars => setting' = setting
    BY PassGrows, CleaningGrows, OtherGrows DEF Next, vars, ChallengesInv
  <2> QED
    BY <2>1
<1>2. ChallengesInv /\ ByValue(setting) /\ [Next]_vars => [Step_]_vars
  <2>1. ASSUME ChallengesInv, ByValue(setting), Next, ~setting.triggers,
               NEW a \in Urls, rows[a].on, ~rows'[a].on, NEW t \in Tokens
        PROVE  \/ ValueOf(a, t) \notin dns \cup Unwritten
               \/ leases \ {ValueOf(a, t)} # {}
               \/ valueScopedCleanup /\ (t \notin {rows[a].tok, rows[a].val} \/ Trusting(a))
    <3>1. Types /\ RecordInv
      BY <2>1 DEF ChallengesInv
    <3>2. rows[a].val \in {NoTok, rows[a].tok} /\ valueScopedCleanup
      BY <2>1, <3>1 DEF RecordInv, RowShape, Sound, ByValue, valueScopedCleanup
    <3>3. t # NoTok
      BY <2>1, BoundsAssumption DEF Tokens, NoTok
    <3>4. CASE t = rows[a].tok
      BY <2>1, <3>1, <3>3, <3>4, GoneIsDown
    <3> QED
      BY <3>2, <3>3, <3>4
  <2> QED
    BY <2>1
<1> QED
  BY <1>1, <1>2, ChallengesInductive, PTL DEF Spec, RowOutlivesRecord
=============================================================================
