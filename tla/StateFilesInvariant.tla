------------------------- MODULE StateFilesInvariant -------------------------
(* What holds in every state of StateFiles and makes its properties inductive: no     *)
(* file holds a commit nobody made, every file has an identity of its own, a restore  *)
(* that is under way was asked for, and, unless a kill comes between the two renames, *)
(* a write-ahead log is beside its database or about to follow it.                    *)
EXTENDS StateFiles

Restoring == {"stage", "aside", "log", "install", "notice", "unpend"}
Opening == {"open", "bump", "sidecar", "id"}
Processes == [pc : {"down", "up"} \cup Restoring \cup Opening, who : {"nobody", "daemon", "command"},
              src : Images, existed : BOOLEAN,
              said : SUBSET {"missing", "behind", "foreign", "restored"}]
Pairs == [main : Files, wal : Files \cup {NoFile}]
Lasts == [rows : SUBSET Commits, back : {"no", "command", "hand"}]

FileTypes ==
    /\ main \in Files \cup {NoFile} /\ wal \in Files \cup {NoFile}
    /\ pending \in Images \cup {NoFile} /\ staged \in Images \cup {NoFile}
    /\ aside \in SUBSET Pairs /\ IsFiniteSet(aside) /\ snaps \in SUBSET Images
OtherTypes ==
    /\ notice \in BOOLEAN /\ sidecar \in Nat /\ host \in Installs /\ proc \in Processes
    /\ setting \in Settings /\ spent \in Nat /\ asks \in Nat /\ asked \in BOOLEAN
    /\ made \in SUBSET Commits /\ last \in Lasts

\* Whatever is on disk or in hand was committed by a daemon.
Known(image) == image.rows \subseteq made
NothingInvented ==
    /\ main # NoFile => Known(main.image)
    /\ wal # NoFile => Known(wal.image)
    /\ pending # NoFile => Known(pending)
    /\ staged # NoFile => Known(staged)
    /\ \A a \in aside : Known(a.main.image) /\ (a.wal # NoFile => Known(a.wal.image))
    /\ \A s \in snaps : Known(s)
    /\ Known(proc.src) /\ Known(last)

\* What the steps of a restore and of a start promise the ones after them.
StepsInOrder ==
    /\ (proc.pc \in {"aside", "log", "install"} => staged # NoFile)
    /\ (proc.pc \in {"log", "install"} => main = NoFile)
    /\ (proc.pc \in {"bump", "sidecar", "id", "up"} => main # NoFile)
    /\ (proc.pc \in Opening => pending = NoFile)
    /\ (proc.pc \in Restoring \/ pending # NoFile => asked)

\* No two files have one identity.
FilesDiffer ==
    /\ \A a, b \in aside : a.main.file = b.main.file => a = b
    /\ main # NoFile => \A a \in aside : a.main.file # main.file

\* The log is beside its database, except between the two renames.
LogsAreTheirs ==
    /\ proc.pc = "log" => wal # NoFile
    /\ \A a \in aside : a.wal # NoFile => a.wal.file = a.main.file
    /\ wal # NoFile => \/ main # NoFile /\ wal.file = main.file
                       \/ proc.pc = "log" /\ \E a \in aside : a.wal = NoFile /\ a.main.file = wal.file
WholeUnlessTorn == "torn" \notin setting.faults => LogsAreTheirs /\ CommitsKept

StateFilesInv == /\ FileTypes /\ OtherTypes /\ NothingInvented /\ StepsInOrder /\ FilesDiffer
                 /\ WholeUnlessTorn
=============================================================================
