----------------------------- MODULE Snapshots -----------------------------
(* The periodic snapshot (cmd/wecert/snapshots.go, internal/state/backup.go): copy    *)
(* the database beside itself under a name made of the wall clock, keep the newest    *)
(* few by name, upload the copy (internal/backup), sign it, keep the newest few       *)
(* there too, read it back. One round runs at a time; the clock may step, a file      *)
(* operation or a call may fail, the process may die between any two.                 *)
EXTENDS Integers, FiniteSets, FiniteSetsExt

CONSTANTS MaxTime,   \* bound on the clock
          MaxVer,    \* bound on the database's versions
          Settings   \* retention, the remote end, the mishaps and how many

Times == 1..MaxTime
Vers == 0..MaxVer \* version 0 has nothing HasRecoverableState looks for
Mishaps == {"back", "forward", "crash", "rename", "remove", "put", "sign", "delete"}
Remotes == {"s3", "cos", "sftp"}
ASSUME BoundsAssumption == MaxTime \in Nat \ {0} /\ MaxVer \in Nat
\* snapshotName and its pre-hash form: base, stamp, and a number when that was taken.
Bases == {"hashed", "plain"}
Names == [base : Bases, at : Nat, n : Nat]
\* What an earlier build left holds no version later than the database.
ASSUME SettingsAssumption ==
    \A s \in Settings : /\ s.keep \in Nat \ {0} /\ s.remoteKeep \in Nat \ {0}
                        /\ s.remote \in Remotes /\ s.signed \in BOOLEAN
                        /\ s.faults \subseteq Mishaps /\ s.budget \in Nat
                        /\ s.pool \subseteq [name : Names, ver : {0}, mtime : Nat]
                        /\ IsFiniteSet(s.pool) /\ \A f, g \in s.pool : f.name = g.name => f = g

VARIABLES
    clock,    \* the wall clock
    db,       \* the version of the database
    pool,     \* the snapshot files: name, the version inside, mtime
    objects,  \* the remote snapshots: name and the version inside
    sidecars, \* the remote .hmac objects: name and the version they sign
    round,    \* the round in progress
    setting, spent,
    shipped,  \* history: the newest version read back from the remote end
    clean     \* history: no mishap since the last round began, and the clock has not
              \* caught up, during it, with a name from before a step back
vars == <<clock, db, pool, objects, sidecars, round, setting, spent, shipped, clean>>

-----------------------------------------------------------------------------
(* Names *)

Name(base, at, n) == [base |-> base, at |-> at, n |-> n]
\* The order a plain sort of the names gives: state.db-<hash> is before state.db.backup
\* ('-' before '.'), a bare stamp before a numbered one ('.' before '~').
SortsBefore(a, b) ==
    \/ a.base = "hashed" /\ b.base = "plain"
    \/ a.base = b.base /\ a.at < b.at
    \/ a.base = b.base /\ a.at = b.at /\ a.n < b.n
First(files) == CHOOSE f \in files : \A g \in files : ~SortsBefore(g.name, f.name)
Latest(files) == CHOOSE f \in files : \A g \in files : ~SortsBefore(f.name, g.name)
\* freeSnapshotName.
\* Mutation: it does not look for a number that is free.
freeSnapshotName_Taken(files, at) == Name("hashed", at, 0)
freeSnapshotName(files, at) ==
    LET taken == {f.name.n : f \in {g \in files : g.name.base = "hashed" /\ g.name.at = at}}
    IN  Name("hashed", at, Min((0..Cardinality(taken)) \ taken))
futureDatedSnapshot(f, now) == f.name.at > now
LeastOf(files, n) == CHOOSE s \in SUBSET files :
    /\ Cardinality(s) = n
    /\ \A f \in s, g \in files \ s : SortsBefore(f.name, g.name)

-----------------------------------------------------------------------------
Idle == [pc |-> "idle", stamp |-> 0, now |-> 0, stuck |-> {}, name |-> Name("hashed", 0, 0), ver |-> 0]

Init ==
    /\ setting \in Settings /\ spent = 0
    /\ clock = 1 /\ db = 0
    /\ pool = setting.pool
    /\ objects = {} /\ sidecars = {}
    /\ round = Idle /\ shipped = 0 /\ clean = FALSE

Mishap(f) == f \in setting.faults /\ spent < setting.budget /\ spent' = spent + 1 /\ clean' = FALSE
Fine == UNCHANGED <<spent, clean>>
Declined == clean' = FALSE /\ UNCHANGED spent
At(pc) == round.pc = pc
Goes(pc) == round' = [round EXCEPT !.pc = pc]
Quits == round' = Idle
World == UNCHANGED <<clock, db, setting>>
Remote == UNCHANGED <<objects, sidecars, shipped>>

(* Store.Snapshot *)

\* takeSnapshots: a database without recoverable state is not a recovery point.
HasRecoverableState == db > 0
\* Bound: stamps are milliseconds; no two rounds whose copy is uploaded cut the same one.
FreshStamp == \A f \in objects \cup sidecars : f.name.at # clock
Begin ==
    /\ At("idle") /\ HasRecoverableState /\ FreshStamp
    /\ round' = [Idle EXCEPT !.pc = "sweep", !.stamp = clock]
    /\ clean' = TRUE
    /\ World /\ Remote /\ UNCHANGED <<pool, spent>>

\* sweepStaleSnapshotTemps, and repairFutureDatedSnapshots reads the clock again.
Sweep ==
    /\ At("sweep")
    /\ round' = [round EXCEPT !.pc = "repair", !.now = clock]
    /\ World /\ Remote /\ Fine /\ UNCHANGED pool

\* repairFutureDatedSnapshots, one file: renamed to when it was written, or to now; one
\* that cannot be is passed over.
Future == {f \in pool : futureDatedSnapshot(f, round.now) /\ f.name \notin round.stuck}
Renamed(f) ==
    LET at == Min({f.mtime, round.now})
    IN  (pool \ {f}) \cup {[f EXCEPT !.name = freeSnapshotName(pool, at)]}
Repair ==
    /\ At("repair")
    /\ IF Future = {} THEN Goes("copy") /\ Fine /\ UNCHANGED pool
       ELSE \/ pool' = Renamed(First(Future)) /\ Fine /\ UNCHANGED round
            \/ /\ Mishap("rename") /\ UNCHANGED pool
               /\ round' = [round EXCEPT !.stuck = @ \cup {First(Future).name}]
    /\ World /\ Remote

\* VACUUM INTO a temporary name, then atomicfile.Install under a free one.
Copy ==
    /\ At("copy")
    /\ \E name \in {freeSnapshotName(pool, round.stamp)} :
        /\ pool' = pool \cup {[name |-> name, ver |-> db, mtime |-> clock]}
        /\ round' = [round EXCEPT !.pc = "prune", !.name = name, !.ver = db]
    /\ World /\ Remote /\ Fine

\* pruneSnapshots: from the front of the sort, never the file just written; a file that
\* cannot be removed is reported and the others go.
\* Mutation: the file just written is not spared.
victims_Unprotected(files, keep, protect) ==
    IF Cardinality(files) <= keep THEN {} ELSE LeastOf(files, Cardinality(files) - keep)
victims(files, keep, protect) ==
    IF Cardinality(files) <= keep THEN {}
    ELSE LeastOf({f \in files : f.name # protect}, Cardinality(files) - keep)
Prune ==
    /\ At("prune")
    /\ LET gone == victims(pool, setting.keep, round.name)
       IN  \/ pool' = pool \ gone /\ Goes("put") /\ Fine
           \/ \E stuck \in gone : pool' = (pool \ gone) \cup {stuck} /\ Quits /\ Mishap("remove")
    /\ World /\ Remote

(* The remote end *)

At2(files, name) == {f \in files : f.name = name}
Put(files, name, ver) == (files \ At2(files, name)) \cup {[name |-> name, ver |-> ver]}

\* pruneS3 and pruneSFTP: future-dated names first, then from the front of the sort.
\* Only names of the same generation are looked at.
Peers == {f \in objects : f.name # round.name /\ f.name.base = round.name.base}
\* Mutation: a name ahead of the clock is a name like the others.
Ahead_None == {}
Ahead == {f \in Peers : futureDatedSnapshot(f, clock)}
Extra == CASE setting.remote = "sftp" -> Cardinality(Peers \ Ahead) - setting.remoteKeep + 1
           [] OTHER -> Cardinality(Peers) + 1 - setting.remoteKeep - Cardinality(Ahead)
remoteVictims ==
    Ahead \cup LeastOf(Peers \ Ahead, Min({Cardinality(Peers \ Ahead), Max({0, Extra})}))

\* uploadOnce of the snapshot. A signed one is not pruned for yet. SFTP publishes by a
\* rename that does not replace.
AfterPut == IF setting.signed THEN "sign" ELSE "delete"
Refuses(files) == setting.remote = "sftp" /\ At2(files, round.name) # {}
\* Mutation: the snapshot's own upload prunes already.
Published_Pruned(files) == Put(files, round.name, round.ver) \ remoteVictims
Published(files) == Put(files, round.name, round.ver)
Upload ==
    /\ At("put")
    /\ \/ ~Refuses(objects) /\ objects' = Published(objects) /\ Goes(AfterPut) /\ Fine
       \/ Refuses(objects) /\ Quits /\ Declined /\ UNCHANGED objects
       \/ Mishap("put") /\ Quits /\ UNCHANGED objects
    /\ World /\ UNCHANGED <<pool, sidecars, shipped>>

\* uploadOnce of the sidecar.
Sign ==
    /\ At("sign")
    /\ \/ ~Refuses(sidecars) /\ sidecars' = Put(sidecars, round.name, round.ver) /\ Goes("delete") /\ Fine
       \/ Refuses(sidecars) /\ Quits /\ Declined /\ UNCHANGED sidecars
       \/ Mishap("sign") /\ Quits /\ UNCHANGED sidecars
    /\ World /\ UNCHANGED <<pool, objects, shipped>>

\* One batch, or one by one until one fails (COS, SFTP); what is up already is up.
Overtaken == \E f \in Peers : round.stamp < f.name.at /\ f.name.at <= clock
Delete ==
    /\ At("delete")
    /\ \/ \E gone \in {remoteVictims} :
            /\ objects' = objects \ gone
            /\ sidecars' = {s \in sidecars : \A f \in gone : f.name # s.name}
            /\ clean' = (clean /\ ~Overtaken) /\ UNCHANGED spent
       \/ \E some \in SUBSET remoteVictims :
            /\ some # remoteVictims /\ Mishap("delete")
            /\ objects' = objects \ some
            /\ \E kept \in {{}, some} : sidecars' = {s \in sidecars : s.name \notin {f.name : f \in some \ kept}}
    /\ Goes("verify")
    /\ World /\ UNCHANGED <<pool, shipped>>

\* VerifyUpload reads it back; only this counts as a success.
Pair(f) == ~setting.signed \/ \E s \in sidecars : s.name = f.name /\ s.ver = f.ver
Verify ==
    /\ At("verify")
    /\ LET mine == {f \in objects : f.name = round.name /\ f.ver = round.ver /\ Pair(f)}
       IN  shipped' = IF mine = {} THEN shipped ELSE round.ver
    /\ Quits
    /\ World /\ Fine /\ UNCHANGED <<pool, objects, sidecars>>

\* DownloadLatest: the last name that is not ahead of the clock, if its signature holds.
Candidates == {f \in objects : ~futureDatedSnapshot(f, clock)}
Downloads(ver) == Candidates # {} /\ Pair(Latest(Candidates)) /\ Latest(Candidates).ver = ver

-----------------------------------------------------------------------------
(* Around it *)

Tick == clock < MaxTime /\ clock' = clock + 1 /\ Fine
        /\ UNCHANGED <<db, pool, objects, sidecars, round, setting, shipped>>
ClockSteps ==
    /\ \E t \in Times : clock' = t /\ Mishap(IF t < clock THEN "back" ELSE "forward") /\ t # clock
    /\ UNCHANGED <<db, pool, objects, sidecars, round, setting, shipped>>
\* What the snapshot copies changes under a lock the copy holds too (Store.mu).
Change == db < MaxVer /\ db' = db + 1 /\ Fine
          /\ UNCHANGED <<clock, pool, objects, sidecars, round, setting, shipped>>
\* The process dies or is stopped in the middle (stopSnapshotLoop waits a while only).
Crash ==
    /\ ~At("idle") /\ Mishap("crash") /\ Quits
    /\ UNCHANGED <<clock, db, pool, objects, sidecars, setting, shipped>>

Next == Begin \/ Sweep \/ Repair \/ Copy \/ Prune \/ Upload \/ Sign \/ Delete \/ Verify
        \/ Tick \/ ClockSteps \/ Change \/ Crash
Spec == Init /\ [][Next]_vars

-----------------------------------------------------------------------------
(* Properties *)

\* Types; no two files of one name; a round that has copied has a file.
TypeOK ==
    /\ clock \in Times /\ db \in Vers /\ shipped \in Vers /\ clean \in BOOLEAN
    /\ \A f \in pool : f.name \in Names /\ f.ver \in Vers /\ f.mtime \in Nat
    /\ \A f \in objects \cup sidecars : f.name \in Names /\ f.ver \in Vers
    /\ \A f, g \in pool : f.name = g.name => f = g
    /\ \A f, g \in objects : f.name = g.name => f = g
    /\ (round.pc = "prune" => \E f \in pool : f.name = round.name)

\* The newest content is kept whatever the names say: the file a round has written is
\* there until a later round has written one (backup.go:478-485).
Newest == Max({f.ver : f \in pool} \cup {0})
NewestNeverPruned == [][pool' # pool => Max({f.ver : f \in pool'} \cup {0}) >= Newest]_vars

\* What was once read back from the remote end, or something newer, stays restorable
\* from there whatever fails in later rounds (remote.go:99: the complete signed pair is
\* published before retention can remove older recovery points).
ShippedStaysRestorable == shipped > 0 => \E f \in objects : f.ver >= shipped /\ Pair(f)

\* After a round that went through, and while the clock runs on, a restore from the
\* remote end gets what that round sent.
RemoteLatestIsNewest ==
    clean /\ round.pc = "idle" /\ shipped > 0 => Downloads(shipped)

\* "latest" is the newest snapshot there is (backup.go:454: oldest first; :469).
LatestIsNewest ==
    round.pc = "idle" /\ pool # {} => Latest(pool).ver = Newest
=============================================================================
