----------------------------- MODULE StateFiles -----------------------------
(* The state directory around restarts and restores (internal/state/open.go,          *)
(* restore.go, generation.go, installid.go): which database the next start opens,     *)
(* what a restore leaves behind, and whether a database that went back in time is     *)
(* reported. One lock admits one process, the daemon or `wecert -restore`; every      *)
(* call that changes a file is one action, and a crash may come between any two.      *)
EXTENDS Integers, FiniteSets, FiniteSetsExt

CONSTANTS NoFile,     \* nothing at that path
          MaxCommits, \* bound on what the daemon commits
          MaxAsks,    \* bound on the restores asked for
          MaxSnaps,   \* bound on the snapshots taken
          Settings    \* the mishaps allowed and how many

Commits == 1..MaxCommits
Installs == {"", "here", "there"}
Mishaps == {"stop", "crash", "torn", "stage", "rename", "install", "notice", "rot", "copy"}
ASSUME BoundsAssumption == MaxCommits \in Nat /\ MaxAsks \in Nat /\ MaxSnaps \in Nat
ASSUME SettingsAssumption ==
    \A s \in Settings : s.faults \subseteq Mishaps /\ s.budget \in Nat

\* An image is a database's content: what was committed, and its state_generation row.
\* sound is what inspectSnapshotWithKey checks; a file is an image with an identity,
\* because a write-ahead log belongs to one file only.
Images == [rows : SUBSET Commits, gen : Nat, install : Installs, sound : BOOLEAN]
Files == [file : Nat \ {0}, image : Images]
ASSUME NoFileAssumption == NoFile \notin Files /\ NoFile \notin Images
Image(rows, gen, install) == [rows |-> rows, gen |-> gen, install |-> install, sound |-> TRUE]
Blank == Image({}, 0, "")

VARIABLES
    main,     \* state.db
    wal,      \* state.db-wal: the file it belongs to and the content with it applied
    pending,  \* state.db.restore-pending
    staged,   \* state.db.restore-staged
    aside,    \* state.db.replaced-*: pairs of a database and its log
    notice,   \* state.db.restored
    sidecar,  \* state.db.generation, 0 when absent
    host,     \* install-id, "" when absent
    snaps,    \* the snapshots there are
    proc,     \* the holder of state.db.lock: its step, what it is, what it restores
    setting, spent,
    asks,     \* history: the restores asked for
    asked,    \* history: one was asked for and no daemon has come up since
    made,     \* history: everything a daemon ever committed
    last      \* history: what was live when a daemon last ran, and how it went back
files == <<main, wal, pending, staged, aside>>
vars == <<main, wal, pending, staged, aside, notice, sidecar, host, snaps, proc,
          setting, spent, asks, asked, made, last>>

Nobody == [pc |-> "down", who |-> "nobody", src |-> Blank, existed |-> TRUE, said |-> {}]
Last(rows, back) == [rows |-> rows, back |-> back]

Init ==
    /\ main = NoFile /\ wal = NoFile /\ pending = NoFile /\ staged = NoFile /\ aside = {}
    /\ notice = FALSE /\ sidecar = 0 /\ host = "" /\ snaps = {}
    /\ proc = Nobody
    /\ setting \in Settings /\ spent = 0
    /\ asks = 0 /\ asked = FALSE /\ made = {} /\ last = Last({}, "no")

-----------------------------------------------------------------------------
(* Helpers *)
\* The log of a database that was set aside is beside it, or still where it was.
LogOf(a) == {w \in {a.wal, wal} \ {NoFile} : w.file = a.main.file}
Kept(a) == (CHOOSE m \in IF LogOf(a) = {} THEN {a.main} ELSE LogOf(a) : TRUE).image
Live == IF main = NoFile THEN Blank ELSE IF wal = NoFile THEN main.image ELSE wal.image
FileIds == {m.file : m \in ({main} \cup {a.main : a \in aside}) \ {NoFile}}
NewFile(image) == [file |-> 1 + Max(FileIds \cup {0}), image |-> image]

Mishap(f) == f \in setting.faults /\ spent < setting.budget /\ spent' = spent + 1
Fine == UNCHANGED spent
Goes(pc) == proc' = [proc EXCEPT !.pc = pc]
Quits == proc' = Nobody
Same == UNCHANGED <<setting, asks, asked, made, last>>
At(pc) == proc.pc = pc
Asks == asks < MaxAsks /\ asks' = asks + 1 /\ asked' = TRUE

-----------------------------------------------------------------------------
(* restoreLocked, by a start that found a pending file or by `wecert -restore` *)

\* copyFileSync to .restore-staged, checked again. A pending file that no longer passes
\* is dropped; anything else keeps it for the next start.
Stage ==
    /\ At("stage")
    /\ \/ proc.src.sound /\ staged' = proc.src /\ Goes("aside") /\ Fine /\ UNCHANGED pending
       \/ ~proc.src.sound /\ staged' = NoFile /\ Quits /\ Fine
          /\ pending' = IF proc.who = "daemon" THEN NoFile ELSE pending
       \/ Mishap("stage") /\ staged' = NoFile /\ Quits /\ UNCHANGED pending
    /\ Same /\ UNCHANGED <<main, wal, aside, notice, sidecar, host, snaps>>

\* Where the file goes: a name of its own (freeReplacedName).
\* Mutation: over the one copy set aside before.
KeepsAside_One(m) == aside' = {[main |-> m, wal |-> NoFile]}
KeepsAside(m) == aside' = aside \cup {[main |-> m, wal |-> NoFile]}
\* What else is there, looked at before the first rename.
AfterMain == IF wal = NoFile THEN "install" ELSE "log"
\* setAsideDatabase renames state.db first. With no state.db it does nothing at all.
SetAside ==
    /\ At("aside")
    /\ IF main = NoFile THEN Goes("install") /\ UNCHANGED <<main, aside>>
       ELSE /\ main' = NoFile
            /\ KeepsAside(main) /\ Goes(AfterMain)
    /\ Same /\ Fine /\ UNCHANGED <<wal, pending, staged, notice, sidecar, host, snaps>>

\* ... and then -wal (and -shm with it); when that fails, state.db is put back.
LogMoved(a) ==
    /\ aside' = (aside \ {a}) \cup {[a EXCEPT !.wal = wal]}
    /\ wal' = NoFile /\ Goes("install") /\ Fine /\ UNCHANGED <<main, staged>>
\* Mutation: the failed rename is taken for a file that was not there.
LogStuck_GoesOn(a) ==
    /\ Mishap("rename") /\ staged' = NoFile /\ Goes("install") /\ UNCHANGED <<main, wal, aside>>
LogStuck(a) ==
    /\ Mishap("rename")
    /\ main' = a.main /\ aside' = aside \ {a}
    /\ staged' = NoFile /\ Quits /\ UNCHANGED wal
SetLogAside ==
    /\ At("log")
    /\ \E a \in aside : a.main.file = wal.file /\ (LogMoved(a) \/ LogStuck(a))
    /\ Same /\ UNCHANGED <<pending, notice, sidecar, host, snaps>>

\* atomicfile.Install. A failure leaves the staged copy and what was set aside.
Install ==
    /\ At("install")
    /\ \/ /\ main' = NewFile(staged) /\ staged' = NoFile
          /\ last' = [last EXCEPT !.back = IF last.rows \subseteq staged.rows THEN @ ELSE "command"]
          /\ Goes("notice") /\ Fine
       \/ Mishap("install") /\ Quits /\ UNCHANGED <<main, staged, last>>
    /\ UNCHANGED <<wal, pending, aside, notice, sidecar, host, snaps, setting, asks, asked, made>>

\* writeRestoreNotice: a failure is only a warning to whoever is watching.
Notice ==
    /\ At("notice")
    /\ \/ notice' = TRUE /\ Fine
       \/ Mishap("notice") /\ UNCHANGED notice
    /\ Goes("unpend")
    /\ Same /\ UNCHANGED <<files, sidecar, host, snaps>>

\* os.Remove of the pending file, after either kind of restore.
\* Mutation: nobody removes it.
Consumed_Never == UNCHANGED pending
Consumed == pending' = NoFile
Unpend ==
    /\ At("unpend")
    /\ Consumed
    /\ IF proc.who = "daemon" THEN Goes("open") ELSE Quits
    /\ Same /\ Fine /\ UNCHANGED <<main, wal, staged, aside, notice, sidecar, host, snaps>>

\* `wecert -restore`: the snapshot is inspected first, then the lock is taken.
RestoreCommand(s) ==
    /\ At("down") /\ s.sound
    /\ proc' = [Nobody EXCEPT !.pc = "stage", !.who = "command", !.src = s]
    /\ Asks
    /\ Fine /\ UNCHANGED <<files, notice, sidecar, host, snaps, setting, made, last>>

-----------------------------------------------------------------------------
(* A start of the daemon: open with the lock, then openFiles *)

Start ==
    /\ At("down")
    /\ proc' = [Nobody EXCEPT !.pc = IF pending = NoFile THEN "open" ELSE "stage",
                              !.who = "daemon",
                              !.src = IF pending = NoFile THEN Blank ELSE pending,
                              !.existed = main # NoFile]
    /\ Same /\ Fine /\ UNCHANGED <<files, notice, sidecar, host, snaps>>

\* The state file is created when missing; SQLite discards a log beside an empty file
\* and applies one it finds beside any other.
OpenFiles ==
    /\ At("open")
    /\ main' = IF main = NoFile THEN NewFile(Blank) ELSE main
    /\ wal' = IF main = NoFile THEN NoFile ELSE wal
    /\ proc' = [proc EXCEPT !.pc = "bump",
                            !.said = IF proc.existed \/ sidecar = 0 THEN @ ELSE @ \cup {"missing"}]
    /\ Same /\ Fine /\ UNCHANGED <<pending, staged, aside, notice, sidecar, host, snaps>>

\* Everything written to the database goes to the log of the file that is open.
Writes(image) == wal' = [file |-> main.file, image |-> image] /\ UNCHANGED main

\* advanceGeneration, the row: one more than the database had.
BumpGeneration ==
    /\ At("bump")
    /\ Writes([Live EXCEPT !.gen = @ + 1])
    /\ Goes("sidecar")
    /\ Same /\ Fine /\ UNCHANGED <<pending, staged, aside, notice, sidecar, host, snaps>>

\* advanceGeneration, the sidecar. A restore's record, however old, starts a new lineage.
Seen == IF notice THEN 0 ELSE sidecar
RecordGeneration ==
    /\ At("sidecar")
    /\ sidecar' = IF Seen > Live.gen THEN Seen ELSE Live.gen
    /\ proc' = [proc EXCEPT !.pc = "id",
                            !.said = IF Seen > Live.gen THEN @ \cup {"behind"} ELSE @]
    /\ Same /\ Fine /\ UNCHANGED <<files, notice, host, snaps>>

\* reconcileInstallID, and the daemon is up; it logs a restore's record as it starts.
Foreign == ~notice /\ Live.install # host
ReconcileInstallID ==
    /\ At("id")
    /\ Writes([Live EXCEPT !.install = "here"])
    /\ host' = "here"
    /\ proc' = [proc EXCEPT !.pc = "up",
                            !.said = @ \cup (IF Foreign THEN {"foreign"} ELSE {})
                                       \cup (IF notice THEN {"restored"} ELSE {})]
    /\ asked' = FALSE
    /\ Fine /\ UNCHANGED <<pending, staged, aside, notice, sidecar, snaps, setting, asks, made, last>>

-----------------------------------------------------------------------------
(* The daemon up, and what stops it *)

Commit ==
    /\ At("up") /\ made # Commits
    /\ LET c == Min(Commits \ made)
       IN  /\ Writes([Live EXCEPT !.rows = @ \cup {c}])
           /\ made' = made \cup {c} /\ last' = Last(Live.rows \cup {c}, "no")
    /\ Fine /\ UNCHANGED <<pending, staged, aside, notice, sidecar, host, snaps, proc, setting, asks, asked>>

\* Store.Snapshot: VACUUM INTO copies the content, generation and install id included.
TakeSnapshot ==
    /\ At("up") /\ Live.rows # {} /\ Cardinality(snaps) < MaxSnaps
    /\ snaps' = snaps \cup {Live}
    /\ Same /\ Fine /\ UNCHANGED <<files, notice, sidecar, host, proc>>

\* adminRestore: checked, copied, checked again and renamed to .restore-pending.
StagePendingRestore(s) ==
    /\ At("up") /\ s.sound
    /\ pending' = s /\ Asks
    /\ Fine /\ UNCHANGED <<main, wal, staged, aside, notice, sidecar, host, snaps, proc, setting, made, last>>

\* Close checkpoints the log into the file and removes it.
Checkpointed == main' = [main EXCEPT !.image = Live] /\ wal' = NoFile
Stop ==
    /\ At("up") /\ Mishap("stop")
    /\ Checkpointed /\ Quits
    /\ Same /\ UNCHANGED <<pending, staged, aside, notice, sidecar, host, snaps>>

\* A kill, and the lock is free. "torn" is a kill between the two renames.
Crash ==
    /\ ~At("down") /\ Mishap(IF At("log") THEN "torn" ELSE "crash")
    /\ Quits
    /\ Same /\ UNCHANGED <<files, notice, sidecar, host, snaps>>

\* A bit of the pending file turns while it waits.
Rot ==
    /\ pending # NoFile /\ pending.sound /\ Mishap("rot")
    /\ pending' = [pending EXCEPT !.sound = FALSE]
    /\ Same /\ UNCHANGED <<main, wal, staged, aside, notice, sidecar, host, snaps, proc>>

\* The procedure of docs/recovery.md by hand, after a stop: the database is moved away
\* and a snapshot, this host's or another's, is copied in its place.
Elsewhere == Image({}, sidecar, "there")
CopyByHand(s) ==
    /\ At("down") /\ wal = NoFile /\ main # NoFile /\ Mishap("copy")
    /\ main' = NewFile(s)
    /\ KeepsAside(main)
    /\ last' = [last EXCEPT !.back = IF last.rows \subseteq s.rows THEN @ ELSE "hand"]
    /\ UNCHANGED <<wal, pending, staged, notice, sidecar, host, snaps, proc, setting, asks, asked, made>>

Next ==
    \/ Stage \/ SetAside \/ SetLogAside \/ Install \/ Notice \/ Unpend
    \/ \E s \in snaps : RestoreCommand(s) \/ StagePendingRestore(s)
    \/ \E s \in snaps \cup {Elsewhere} : CopyByHand(s)
    \/ Start \/ OpenFiles \/ BumpGeneration \/ RecordGeneration \/ ReconcileInstallID
    \/ Commit \/ TakeSnapshot \/ Stop \/ Crash \/ Rot

Spec == Init /\ [][Next]_vars

\* A process that holds the lock goes on, and the service manager starts a daemon that
\* did not come up (Restart=on-failure).
Progress == Stage \/ SetAside \/ SetLogAside \/ Install \/ Notice \/ Unpend \/ Start
            \/ OpenFiles \/ BumpGeneration \/ RecordGeneration \/ ReconcileInstallID
LiveSpec == Spec /\ WF_vars(Progress)

-----------------------------------------------------------------------------
(* Properties *)

\* Types, with what the steps promise each other: the staged copy is there to install,
\* and a daemon that writes has a file to write to.
TypeOK ==
    /\ main \in Files \cup {NoFile} /\ wal \in Files \cup {NoFile}
    /\ pending \in Images \cup {NoFile} /\ staged \in Images \cup {NoFile}
    /\ \A a \in aside : a.main \in Files /\ a.wal \in Files \cup {NoFile}
    /\ notice \in BOOLEAN /\ sidecar \in Nat /\ host \in Installs
    /\ snaps \subseteq Images /\ asks \in Nat /\ asked \in BOOLEAN
    /\ made \subseteq Commits /\ last.rows \subseteq made /\ last.back \in {"no", "command", "hand"}
    /\ (proc.pc \in {"aside", "log", "install"} => staged # NoFile)
    /\ (proc.pc \in {"bump", "sidecar", "id", "up"} => main # NoFile)

\* Whatever a daemon ever committed is in the live database or in a database that was
\* set aside together with its log: a restore that fails or dies anywhere, and is tried
\* again, loses nothing (restore.go: the previous database is never overwritten).
CommitsKept == \A c \in made : c \in Live.rows \/ \E a \in aside : c \in Kept(a).rows

\* A log never lies beside a database it does not belong to: restore.go:665 calls it the
\* one arrangement SQLite must never be handed.
NoForeignLog == main # NoFile /\ wal # NoFile => wal.file = main.file

\* Databases stay whole: none loses a commit, none meets another's log.
FilesAreWhole == CommitsKept /\ NoForeignLog

\* Once a daemon is up no later start takes the database back unless somebody asked
\* again or copied by hand: a restore is applied once per request, however often the
\* start that applies it is interrupted.
UndoneOnlyOnRequest == [][last.back = "no" /\ last'.back = "command" => asked]_vars

\* A daemon that comes up on a database that lost commits by hand says so as it starts
\* (generation.go:14-16: copied by hand, the sidecar remains ahead and the next start
\* says so).
CopyIsReported == proc.pc = "up" /\ last.back = "hand" => proc.said # {}

\* A start that finds a pending restore ends with a daemon up on it: a failure on the way
\* neither loses the file nor leaves it to be applied again.
PendingIsConsumed ==
    proc.pc = "stage" /\ proc.who = "daemon" ~> proc.pc = "up" /\ pending = NoFile
=============================================================================
