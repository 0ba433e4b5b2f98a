--------------------------- MODULE StateFiles_proofs ---------------------------
(* That StateFilesInv is inductive, and what follows from it: the types of            *)
(* StateFiles, that no commit is lost and no log meets another database unless a kill *)
(* comes between the two renames, and that a restore is applied once per request.     *)
EXTENDS StateFilesInvariant, LeastElements

(* Files *)

LEMMA BlankTyped == Blank \in Images /\ Blank.rows = {}
BY DEF Blank, Image, Images, Installs

LEMMA LiveTyped ==
  ASSUME FileTypes
  PROVE  Live \in Images
<1>1. main # NoFile => main.image \in Images
  BY DEF FileTypes, Files
<1>2. wal # NoFile => wal.image \in Images
  BY DEF FileTypes, Files
<1> QED
  BY <1>1, <1>2, BlankTyped DEF Live

\* A new file has an identity no database has.
LEMMA NewFileIsNew ==
  ASSUME FileTypes, NEW image \in Images
  PROVE  /\ NewFile(image) \in Files /\ NewFile(image).image = image
         /\ main # NoFile => NewFile(image).file # main.file
         /\ \A a \in aside : NewFile(image).file # a.main.file
<1> DEFINE mains == {a.main : a \in aside}
           there == ({main} \cup mains) \ {NoFile}
<1>1. IsFiniteSet(there)
  <2> DEFINE f == [a \in aside |-> a.main]
  <2>1. f \in Surjection(aside, mains)
    BY DEF Surjection
  <2>2. IsFiniteSet(aside)
    BY DEF FileTypes
  <2> HIDE DEF f, mains
  <2>3. IsFiniteSet(mains)
    BY <2>1, <2>2, FS_Surjection
  <2>4. IsFiniteSet({main} \cup mains)
    <3>1. {main} \cup mains = mains \cup {main}
      OBVIOUS
    <3> QED
      BY <2>3, <3>1, FS_AddElement
  <2> QED
    BY <2>4, FS_Subset
<1>2. \A m \in there : m \in Files
  BY DEF FileTypes, Pairs
<1>3. IsFiniteSet(FileIds) /\ FileIds \in SUBSET Nat
  <2> HIDE DEF there
  <2> DEFINE g == [m \in there |-> m.file]
  <2>1. PICK ids : ids = {m.file : m \in there}
    OBVIOUS
  <2>2. g \in Surjection(there, ids)
    BY <2>1 DEF Surjection
  <2>3. IsFiniteSet(ids)
    BY <1>1, <2>2, FS_Surjection
  <2>4. ids \in SUBSET Nat
    BY <1>2, <2>1 DEF Files
  <2>5. FileIds = ids
    BY <2>1 DEF FileIds, there
  <2> QED
    BY <2>3, <2>4, <2>5
<1>4. PICK ids : ids = FileIds \cup {0}
  OBVIOUS
<1>5. IsFiniteSet(ids) /\ ids \in SUBSET Int /\ ids # {} /\ ids \in SUBSET Nat
  BY <1>3, <1>4, FS_AddElement
<1>6. PICK top \in Nat : top = Max(ids) /\ \A i \in ids : top >= i
  BY <1>5, MaxGreatest
<1>7. NewFile(image) = [file |-> 1 + top, image |-> image]
  BY <1>4, <1>6 DEF NewFile
<1>8. 1 + top \notin FileIds
  BY <1>3, <1>4, <1>6
<1>9. ASSUME NEW m \in there PROVE m.file \in FileIds
  BY DEF FileIds
<1>10. \A a \in aside : a.main \in there
  BY NoFileAssumption DEF FileTypes, Pairs
<1> QED
  BY <1>7, <1>8, <1>9, <1>10 DEF Files

\* What the daemon writes is what is live from then on.
LEMMA WriteIsLive ==
  ASSUME main \in Files, NEW image \in Images, Writes(image)
  PROVE  main' = main /\ wal' \in Files /\ wal'.file = main.file /\ Live' = image
<1>1. main' = main /\ wal' = [file |-> main.file, image |-> image]
  BY DEF Writes
<1>2. wal' \in Files /\ wal'.file = main.file /\ wal'.image = image
  BY <1>1 DEF Files
<1> QED
  BY <1>1, <1>2, NoFileAssumption DEF Live

\* The three steps that write.
LEMMA WhatIsWritten ==
  ASSUME FileTypes, OtherTypes, StepsInOrder, BumpGeneration \/ ReconcileInstallID \/ Commit
  PROVE  \E image \in Images : /\ main \in Files /\ Writes(image) /\ Live.rows \subseteq image.rows
                               /\ image.rows \subseteq Live.rows \cup made'
                               /\ made \subseteq made' /\ made' \in SUBSET Commits
                               /\ (made' \ made) \subseteq image.rows
<1>1. main \in Files
  BY DEF BumpGeneration, ReconcileInstallID, Commit, At, StepsInOrder, FileTypes
<1>2. Live \in Images
  BY LiveTyped
<1>3. CASE BumpGeneration
  <2>1. PICK image : image = [Live EXCEPT !.gen = @ + 1]
    OBVIOUS
  <2>2. image \in Images /\ image.rows = Live.rows
    BY <1>2, <2>1 DEF Images
  <2>3. Writes(image) /\ made' = made
    BY <1>3, <2>1 DEF BumpGeneration, Same
  <2> QED
    BY <1>1, <2>2, <2>3 DEF OtherTypes
<1>4. CASE ReconcileInstallID
  <2>1. PICK image : image = [Live EXCEPT !.install = "here"]
    OBVIOUS
  <2>2. image \in Images /\ image.rows = Live.rows
    BY <1>2, <2>1 DEF Images, Installs
  <2>3. Writes(image) /\ made' = made
    BY <1>4, <2>1 DEF ReconcileInstallID
  <2> QED
    BY <1>1, <2>2, <2>3 DEF OtherTypes
<1>5. CASE Commit
  <2>1. PICK left : left = Commits \ made
    OBVIOUS
  <2>2. IsFiniteSet(left) /\ left \in SUBSET Int /\ left # {}
    <3>1. PICK all : all = Commits
      OBVIOUS
    <3>2. IsFiniteSet(all) /\ all \in SUBSET Int
      BY <3>1, BoundsAssumption, FS_Interval DEF Commits
    <3>3. left \in SUBSET all /\ left # {}
      BY <1>5, <2>1, <3>1 DEF Commit, OtherTypes
    <3>4. IsFiniteSet(left)
      BY <3>2, <3>3, FS_Subset
    <3> QED
      BY <3>2, <3>3, <3>4
  <2>3. PICK c \in Commits : c = Min(left)
    BY <2>1, <2>2, MinLeast
  <2>4. PICK image : image = [Live EXCEPT !.rows = @ \cup {c}]
    OBVIOUS
  <2>5. image \in Images /\ image.rows = Live.rows \cup {c}
    BY <1>2, <2>4 DEF Images
  <2>6. Writes(image) /\ made' = made \cup {c}
    BY <1>5, <2>1, <2>3, <2>4 DEF Commit
  <2> QED
    BY <1>1, <2>5, <2>6 DEF OtherTypes
<1> QED
  BY <1>3, <1>4, <1>5


(* Types *)

\* Which steps move, create or change a file; the others leave it alone.
LEMMA WhoTouches ==
  ASSUME [Next]_vars
  PROVE  /\ \/ UNCHANGED <<main, wal, aside>>
            \/ SetAside \/ SetLogAside \/ Install \/ OpenFiles \/ Stop
            \/ BumpGeneration \/ ReconcileInstallID \/ Commit
            \/ \E s \in snaps \cup {Elsewhere} : CopyByHand(s)
         /\ \/ UNCHANGED pending \/ Stage \/ Unpend \/ Rot \/ \E s \in snaps : StagePendingRestore(s)
         /\ \/ UNCHANGED staged \/ Stage \/ SetLogAside \/ Install
         /\ \/ UNCHANGED snaps \/ TakeSnapshot
<1>1. CASE UNCHANGED vars
  BY <1>1 DEF vars, files
<1>2. CASE \E s \in snaps : RestoreCommand(s) \/ StagePendingRestore(s)
  BY <1>2 DEF RestoreCommand, StagePendingRestore, files
<1>3. CASE \E s \in snaps \cup {Elsewhere} : CopyByHand(s)
  BY <1>3 DEF CopyByHand
<1>4. CASE Stage \/ SetAside \/ SetLogAside \/ Install \/ Notice \/ Unpend
  BY <1>4 DEF Stage, SetAside, SetLogAside, Install, Notice, Unpend, files
<1>5. CASE Start \/ OpenFiles \/ BumpGeneration \/ RecordGeneration \/ ReconcileInstallID
  BY <1>5 DEF Start, OpenFiles, BumpGeneration, RecordGeneration, ReconcileInstallID, files
<1>6. CASE Commit \/ TakeSnapshot \/ Stop \/ Crash \/ Rot
  BY <1>6 DEF Commit, TakeSnapshot, Stop, Crash, Rot, files
<1> QED
  BY <1>1, <1>2, <1>3, <1>4, <1>5, <1>6 DEF Next

\* A stop leaves the file with what was live in it.
LEMMA StopChecks ==
  ASSUME FileTypes, StepsInOrder, Stop
  PROVE  /\ main \in Files /\ main' \in Files /\ main'.file = main.file /\ main'.image = Live
         /\ wal' = NoFile /\ aside' = aside /\ Live' = Live
<1>1. main \in Files /\ main' = [main EXCEPT !.image = Live] /\ wal' = NoFile /\ aside' = aside
  BY DEF Stop, At, StepsInOrder, FileTypes, Checkpointed
<1>2. main' \in Files /\ main'.file = main.file /\ main'.image = Live
  BY <1>1, LiveTyped DEF Files
<1>3. Live' = main'.image
  BY <1>1, <1>2, NoFileAssumption DEF Live
<1> QED
  BY <1>1, <1>2, <1>3

LEMMA ElsewhereTyped == ASSUME OtherTypes PROVE Elsewhere \in Images /\ Elsewhere.rows = {}
BY DEF OtherTypes, Elsewhere, Image, Images, Installs

\* A copy by hand: the database goes aside whole, a new file takes its place.
LEMMA HandCopies ==
  ASSUME FileTypes, OtherTypes, NEW s \in snaps \cup {Elsewhere}, CopyByHand(s)
  PROVE  /\ s \in Images /\ main \in Files /\ wal = NoFile /\ wal' = NoFile
         /\ main' = NewFile(s) /\ main' \in Files /\ main'.image = s
         /\ aside' = aside \cup {[main |-> main, wal |-> NoFile]}
<1>1. s \in Images
  BY ElsewhereTyped DEF FileTypes
<1>2. main \in Files /\ wal = NoFile /\ wal' = NoFile /\ main' = NewFile(s)
      /\ aside' = aside \cup {[main |-> main, wal |-> NoFile]}
  BY DEF CopyByHand, KeepsAside, FileTypes
<1> QED
  BY <1>1, <1>2, NewFileIsNew

LEMMA FilesTyped ==
  ASSUME FileTypes, OtherTypes, StepsInOrder, [Next]_vars
  PROVE  FileTypes'
<1>0. /\ main \in Files \cup {NoFile} /\ wal \in Files \cup {NoFile} /\ pending \in Images \cup {NoFile}
      /\ staged \in Images \cup {NoFile} /\ aside \in SUBSET Pairs /\ IsFiniteSet(aside) /\ snaps \in SUBSET Images
  BY DEF FileTypes
<1>1. pending' \in Images \cup {NoFile}
  <2>1. CASE Rot
    BY <1>0, <2>1 DEF Rot, Images
  <2>2. CASE Stage \/ Unpend \/ UNCHANGED pending
    BY <1>0, <2>2 DEF Stage, Unpend, Consumed
  <2>3. CASE \E s \in snaps : StagePendingRestore(s)
    BY <1>0, <2>3 DEF StagePendingRestore
  <2> QED
    BY <2>1, <2>2, <2>3, WhoTouches
<1>2. staged' \in Images \cup {NoFile}
  <2>1. CASE Stage
    BY <1>0, <2>1 DEF Stage, OtherTypes, Processes
  <2>2. CASE SetLogAside
    BY <1>0, <2>2 DEF SetLogAside, LogMoved, LogStuck
  <2>3. CASE Install
    BY <1>0, <2>3 DEF Install
  <2> QED
    BY <1>0, <2>1, <2>2, <2>3, WhoTouches
<1>3. snaps' \in SUBSET Images
  BY <1>0, LiveTyped, WhoTouches DEF TakeSnapshot
<1>4. main' \in Files \cup {NoFile} /\ wal' \in Files \cup {NoFile} /\ aside' \in SUBSET Pairs /\ IsFiniteSet(aside')
  <2>1. CASE UNCHANGED <<main, wal, aside>>
    BY <1>0, <2>1
  <2>2. CASE SetAside
    <3>1. CASE main = NoFile
      BY <1>0, <2>2, <3>1 DEF SetAside
    <3>2. CASE main # NoFile
      <4>1. main' = NoFile /\ wal' = wal /\ aside' = aside \cup {[main |-> main, wal |-> NoFile]}
        BY <2>2, <3>2 DEF SetAside, KeepsAside
      <4>2. [main |-> main, wal |-> NoFile] \in Pairs
        BY <1>0, <3>2 DEF Pairs
      <4> QED
        BY <1>0, <4>1, <4>2, FS_AddElement
    <3> QED
      BY <3>1, <3>2
  <2>3. CASE SetLogAside
    <3>1. PICK a \in aside : LogMoved(a) \/ LogStuck(a)
      BY <2>3 DEF SetLogAside
    <3>2. a \in Pairs /\ IsFiniteSet(aside \ {a})
      BY <1>0, FS_RemoveElement
    <3>3. CASE LogMoved(a)
      <4>1. PICK b : b = [a EXCEPT !.wal = wal]
        OBVIOUS
      <4>2. b \in Pairs
        BY <1>0, <3>2, <4>1 DEF Pairs
      <4>3. main' = main /\ wal' = NoFile /\ aside' = (aside \ {a}) \cup {b}
        BY <3>3, <4>1 DEF LogMoved
      <4> QED
        BY <1>0, <3>2, <4>2, <4>3, FS_AddElement
    <3>4. CASE LogStuck(a)
      BY <1>0, <3>2, <3>4 DEF LogStuck, Pairs
    <3> QED
      BY <3>1, <3>3, <3>4
  <2>4. CASE Install
    <3>1. staged \in Images
      BY <1>0, <2>4 DEF Install, At, StepsInOrder
    <3> QED
      BY <1>0, <2>4, <3>1, NewFileIsNew DEF Install
  <2>5. CASE OpenFiles
    BY <1>0, <2>5, BlankTyped, NewFileIsNew DEF OpenFiles
  <2>6. CASE Stop
    BY <1>0, <2>6, StopChecks
  <2>7. CASE BumpGeneration \/ ReconcileInstallID \/ Commit
    <3>1. PICK image \in Images : main \in Files /\ Writes(image)
      BY <2>7, WhatIsWritten
    <3>2. aside' = aside
      BY <2>7 DEF BumpGeneration, ReconcileInstallID, Commit
    <3> QED
      BY <1>0, <3>1, <3>2, WriteIsLive
  <2>8. ASSUME NEW s \in snaps \cup {Elsewhere}, CopyByHand(s)
        PROVE  main' \in Files \cup {NoFile} /\ wal' \in Files \cup {NoFile} /\ aside' \in SUBSET Pairs /\ IsFiniteSet(aside')
    <3>1. main \in Files /\ main' \in Files /\ wal' = NoFile /\ aside' = aside \cup {[main |-> main, wal |-> NoFile]}
      BY <2>8, HandCopies
    <3>2. [main |-> main, wal |-> NoFile] \in Pairs
      BY <3>1 DEF Pairs
    <3> QED
      BY <1>0, <3>1, <3>2, FS_AddElement
  <2> QED
    BY <2>1, <2>2, <2>3, <2>4, <2>5, <2>6, <2>7, <2>8, WhoTouches
<1> QED
  BY <1>1, <1>2, <1>3, <1>4 DEF FileTypes


LEMMA NobodyTyped == Nobody \in Processes
BY BlankTyped DEF Nobody, Processes

LEMMA OthersTyped ==
  ASSUME FileTypes, OtherTypes, StepsInOrder, [Next]_vars
  PROVE  OtherTypes'
<1>0. /\ notice \in BOOLEAN /\ sidecar \in Nat /\ host \in Installs /\ proc \in Processes
      /\ setting \in Settings /\ spent \in Nat /\ asks \in Nat /\ asked \in BOOLEAN
      /\ made \in SUBSET Commits /\ last \in Lasts
  BY DEF OtherTypes
<1>1. setting' \in Settings /\ notice' \in BOOLEAN /\ host' \in Installs /\ asks' \in Nat /\ asked' \in BOOLEAN
  <2>1. CASE Stage \/ SetAside \/ SetLogAside \/ Install \/ Notice \/ Unpend
    BY <1>0, <2>1 DEF Stage, SetAside, SetLogAside, Install, Notice, Unpend, Same
  <2>2. CASE \E s \in snaps : RestoreCommand(s) \/ StagePendingRestore(s)
    <3>1. UNCHANGED <<setting, notice, host>> /\ asks' = asks + 1 /\ asked' = TRUE
      BY <2>2 DEF RestoreCommand, StagePendingRestore, Asks
    <3> QED
      BY <1>0, <3>1
  <2>3. CASE \E s \in snaps \cup {Elsewhere} : CopyByHand(s)
    BY <1>0, <2>3 DEF CopyByHand
  <2>4. CASE Start \/ OpenFiles \/ BumpGeneration \/ RecordGeneration \/ ReconcileInstallID
    BY <1>0, <2>4 DEF Start, OpenFiles, BumpGeneration, RecordGeneration, ReconcileInstallID, Same, Installs
  <2>5. CASE Commit \/ TakeSnapshot \/ Stop \/ Crash \/ Rot \/ UNCHANGED vars
    BY <1>0, <2>5 DEF Commit, TakeSnapshot, Stop, Crash, Rot, Same, vars
  <2> QED
    BY <2>1, <2>2, <2>3, <2>4, <2>5 DEF Next
<1>2. spent' \in Nat
  <2>1. Next => spent' = spent \/ spent' = spent + 1
    BY DEF Next, Stage, SetAside, SetLogAside, LogMoved, LogStuck, Install, Notice, Unpend, RestoreCommand,
           StagePendingRestore, CopyByHand, Start, OpenFiles, BumpGeneration, RecordGeneration,
           ReconcileInstallID, Commit, TakeSnapshot, Stop, Crash, Rot, Fine, Mishap
  <2> QED
    BY <1>0, <2>1 DEF vars
<1>3. sidecar' \in Nat
  <2>1. CASE RecordGeneration
    <3>1. Live.gen \in Nat /\ Seen \in Nat
      BY <1>0, LiveTyped DEF Images, Seen
    <3> QED
      BY <2>1, <3>1 DEF RecordGeneration
  <2>2. ~RecordGeneration => sidecar' = sidecar
    BY DEF Next, Stage, SetAside, SetLogAside, Install, Notice, Unpend, RestoreCommand,
           StagePendingRestore, CopyByHand, Start, OpenFiles, BumpGeneration,
           ReconcileInstallID, Commit, TakeSnapshot, Stop, Crash, Rot, vars
  <2> QED
    BY <1>0, <2>1, <2>2
<1>4. made' \in SUBSET Commits
  <2>1. CASE Commit
    BY <2>1, WhatIsWritten
  <2>2. ~Commit => made' = made
    BY DEF Next, Stage, SetAside, SetLogAside, Install, Notice, Unpend, RestoreCommand,
           StagePendingRestore, CopyByHand, Start, OpenFiles, BumpGeneration, RecordGeneration,
           ReconcileInstallID, TakeSnapshot, Stop, Crash, Rot, Same, vars
  <2> QED
    BY <1>0, <2>1, <2>2
<1>5. last' \in Lasts
  <2>1. CASE Commit
    <3>1. made' \in SUBSET Commits
      BY <1>4
    <3>2. PICK c : c = Min(Commits \ made)
      OBVIOUS
    <3>3. made' = made \cup {c} /\ last' = Last(Live.rows \cup {c}, "no")
      BY <2>1, <3>2 DEF Commit
    <3>4. Live.rows \in SUBSET Commits
      BY LiveTyped DEF Images
    <3> QED
      BY <3>1, <3>3, <3>4 DEF Last, Lasts
  <2>2. CASE Install \/ \E s \in snaps \cup {Elsewhere} : CopyByHand(s)
    <3>1. last' = last \/ \E back \in {"no", "command", "hand"} : last' = [last EXCEPT !.back = back]
      <4>1. last.back \in {"no", "command", "hand"}
        BY <1>0 DEF Lasts
      <4> QED
        BY <2>2, <4>1 DEF Install, CopyByHand
    <3> QED
      BY <1>0, <3>1 DEF Lasts
  <2>3. Commit \/ Install \/ (\E s \in snaps \cup {Elsewhere} : CopyByHand(s)) \/ last' = last
    BY DEF Next, Stage, SetAside, SetLogAside, Notice, Unpend, RestoreCommand,
           StagePendingRestore, Start, OpenFiles, BumpGeneration, RecordGeneration,
           ReconcileInstallID, TakeSnapshot, Stop, Crash, Rot, Same, vars
  <2> QED
    BY <1>0, <2>1, <2>2, <2>3
<1>6. proc' \in Processes
  <2>1. CASE proc' = Nobody
    BY <2>1, NobodyTyped
  <2>2. ASSUME NEW step \in {"down", "up"} \cup Restoring \cup Opening, proc' = [proc EXCEPT !.pc = step] PROVE proc' \in Processes
    BY <1>0, <2>2 DEF Processes
  <2>3. Stage \/ SetAside \/ SetLogAside \/ Install \/ Notice \/ Unpend \/ BumpGeneration \/ Stop \/ Crash
          => proc' = Nobody \/ \E step \in {"down", "up"} \cup Restoring \cup Opening : proc' = [proc EXCEPT !.pc = step]
    BY DEF Stage, SetAside, AfterMain, SetLogAside, LogMoved, LogStuck, Install, Notice, Unpend, BumpGeneration,
           Stop, Crash, Goes, Quits, Restoring, Opening
  <2>4. CASE \E s \in snaps : RestoreCommand(s)
    <3>1. PICK s \in Images : proc' = [Nobody EXCEPT !.pc = "stage", !.who = "command", !.src = s]
      BY <2>4 DEF RestoreCommand, FileTypes
    <3> QED
      BY <3>1, NobodyTyped DEF Processes, Restoring
  <2>5. CASE Start
    <3>1. PICK step \in {"open", "stage"}, src \in Images, existed \in BOOLEAN :
            proc' = [Nobody EXCEPT !.pc = step, !.who = "daemon", !.src = src, !.existed = existed]
      <4>1. (IF pending = NoFile THEN Blank ELSE pending) \in Images
        BY BlankTyped DEF FileTypes
      <4> QED
        BY <2>5, <4>1 DEF Start
    <3> QED
      BY <3>1, NobodyTyped DEF Processes, Restoring, Opening
  <2>6. CASE OpenFiles \/ RecordGeneration \/ ReconcileInstallID
    <3>1. PICK step \in {"bump", "id", "up"}, said \in SUBSET {"missing", "behind", "foreign", "restored"} :
            proc' = [proc EXCEPT !.pc = step, !.said = said]
      <4>1. proc.said \in SUBSET {"missing", "behind", "foreign", "restored"}
        BY <1>0 DEF Processes
      <4>2. CASE OpenFiles
        <5>1. PICK said : said = IF proc.existed \/ sidecar = 0 THEN proc.said ELSE proc.said \cup {"missing"}
          OBVIOUS
        <5>2. proc' = [proc EXCEPT !.pc = "bump", !.said = said]
          BY <4>2, <5>1 DEF OpenFiles
        <5>3. said \in SUBSET {"missing", "behind", "foreign", "restored"}
          BY <4>1, <5>1
        <5> QED
          BY <5>2, <5>3
      <4>3. CASE RecordGeneration
        <5>1. PICK said : said = IF Seen > Live.gen THEN proc.said \cup {"behind"} ELSE proc.said
          OBVIOUS
        <5>2. proc' = [proc EXCEPT !.pc = "id", !.said = said]
          BY <4>3, <5>1 DEF RecordGeneration
        <5>3. said \in SUBSET {"missing", "behind", "foreign", "restored"}
          BY <4>1, <5>1
        <5> QED
          BY <5>2, <5>3
      <4>4. CASE ReconcileInstallID
        <5>1. PICK said : said = proc.said \cup (IF Foreign THEN {"foreign"} ELSE {})
                                            \cup (IF notice THEN {"restored"} ELSE {})
          OBVIOUS
        <5>2. proc' = [proc EXCEPT !.pc = "up", !.said = said]
          BY <4>4, <5>1 DEF ReconcileInstallID
        <5>3. said \in SUBSET {"missing", "behind", "foreign", "restored"}
          BY <4>1, <5>1
        <5> QED
          BY <5>2, <5>3
      <4> QED
        BY <2>6, <4>2, <4>3, <4>4
    <3> QED
      BY <1>0, <3>1 DEF Processes, Opening
  <2>7. (\E s \in snaps : StagePendingRestore(s)) \/ (\E s \in snaps \cup {Elsewhere} : CopyByHand(s))
          \/ Commit \/ TakeSnapshot \/ Rot \/ UNCHANGED vars => proc' = proc
    BY DEF StagePendingRestore, CopyByHand, Commit, TakeSnapshot, Rot, vars
  <2> QED
    BY <1>0, <2>1, <2>2, <2>3, <2>4, <2>5, <2>6, <2>7 DEF Next
<1> QED
  BY <1>1, <1>2, <1>3, <1>4, <1>5, <1>6 DEF OtherTypes


(* The parts of the invariant *)

\* Nothing on disk or in hand holds a commit nobody made.
LEMMA NothingIsInvented ==
  ASSUME FileTypes, OtherTypes, StepsInOrder, NothingInvented, [Next]_vars
  PROVE  NothingInvented'
<1>0. /\ main # NoFile => main.image.rows \subseteq made
      /\ wal # NoFile => wal.image.rows \subseteq made
      /\ pending # NoFile => pending.rows \subseteq made
      /\ staged # NoFile => staged.rows \subseteq made
      /\ \A a \in aside : a.main.image.rows \subseteq made /\ (a.wal # NoFile => a.wal.image.rows \subseteq made)
      /\ \A s \in snaps : s.rows \subseteq made
      /\ proc.src.rows \subseteq made /\ last.rows \subseteq made
  BY DEF NothingInvented, Known
<1>1. Live.rows \subseteq made
  BY <1>0, BlankTyped DEF Live
<1>2. made \subseteq made'
  <2>1. Commit => made \subseteq made'
    BY WhatIsWritten
  <2>2. ~Commit => made' = made
    BY DEF Next, Stage, SetAside, SetLogAside, Install, Notice, Unpend, RestoreCommand,
           StagePendingRestore, CopyByHand, Start, OpenFiles, BumpGeneration, RecordGeneration,
           ReconcileInstallID, TakeSnapshot, Stop, Crash, Rot, Same, vars
  <2> QED
    BY <2>1, <2>2
<1>3. \A s \in snaps' : s.rows \subseteq made'
  BY <1>0, <1>1, <1>2, WhoTouches DEF TakeSnapshot
<1>4. pending' # NoFile => pending'.rows \subseteq made'
  <2>1. CASE Rot
    <3>1. pending \in Images /\ pending' = [pending EXCEPT !.sound = FALSE] /\ pending.rows \subseteq made
      BY <1>0, <2>1 DEF Rot, FileTypes
    <3>2. pending'.rows = pending.rows
      BY <3>1 DEF Images
    <3> QED
      BY <1>2, <3>1, <3>2
  <2>2. CASE Stage \/ Unpend \/ UNCHANGED pending
    BY <1>0, <1>2, <2>2 DEF Stage, Unpend, Consumed
  <2>3. CASE \E s \in snaps : StagePendingRestore(s)
    BY <1>0, <1>2, <2>3 DEF StagePendingRestore
  <2> QED
    BY <2>1, <2>2, <2>3, WhoTouches
<1>5. staged' # NoFile => staged'.rows \subseteq made'
  BY <1>0, <1>2, WhoTouches DEF Stage, SetLogAside, LogMoved, LogStuck, Install
<1>6. proc'.src.rows \subseteq made'
  <2>1. proc'.src = proc.src \/ proc' = Nobody \/ proc'.src = Blank \/ (Start /\ proc'.src = pending /\ pending # NoFile)
          \/ \E s \in snaps : proc'.src = s
    <3>1. CASE Start
      BY <3>1 DEF Start, Nobody
    <3>2. CASE \E s \in snaps : RestoreCommand(s)
      <4>1. PICK s \in snaps : proc' = [Nobody EXCEPT !.pc = "stage", !.who = "command", !.src = s]
        BY <3>2 DEF RestoreCommand
      <4>2. proc'.src = s
        BY <4>1 DEF Nobody
      <4> QED
        BY <4>2
    <3>3. CASE OpenFiles \/ RecordGeneration \/ ReconcileInstallID
      <4>1. \E step, said : proc' = [proc EXCEPT !.pc = step, !.said = said]
        BY <3>3 DEF OpenFiles, RecordGeneration, ReconcileInstallID
      <4> QED
        BY <4>1 DEF OtherTypes, Processes
    <3>4. CASE \E step : proc' = [proc EXCEPT !.pc = step]
      BY <3>4 DEF OtherTypes, Processes
    <3>5. Start \/ (\E s \in snaps : RestoreCommand(s)) \/ OpenFiles \/ RecordGeneration \/ ReconcileInstallID
            \/ (\E step : proc' = [proc EXCEPT !.pc = step]) \/ proc' = Nobody \/ proc' = proc
      BY DEF Next, Stage, SetAside, SetLogAside, LogMoved, LogStuck, Install, Notice, Unpend, StagePendingRestore,
             CopyByHand, BumpGeneration, Commit, TakeSnapshot, Stop, Crash, Rot, Goes, Quits, vars
    <3> QED
      BY <3>1, <3>2, <3>3, <3>4, <3>5
  <2> QED
    BY <1>0, <1>2, <2>1, BlankTyped DEF Nobody
<1>7. last'.rows \subseteq made'
  <2>1. CASE Commit
    <3>1. PICK c : made' = made \cup {c} /\ last' = Last(Live.rows \cup {c}, "no")
      BY <2>1 DEF Commit
    <3> QED
      BY <1>1, <3>1 DEF Last
  <2>2. CASE last' = last \/ \E back : last' = [last EXCEPT !.back = back]
    BY <1>0, <1>2, <2>2 DEF OtherTypes, Lasts
  <2>3. Commit \/ last' = last \/ \E back : last' = [last EXCEPT !.back = back]
    BY DEF Next, Stage, SetAside, SetLogAside, Install, Notice, Unpend, RestoreCommand, CopyByHand,
           StagePendingRestore, Start, OpenFiles, BumpGeneration, RecordGeneration,
           ReconcileInstallID, TakeSnapshot, Stop, Crash, Rot, Same, vars
  <2> QED
    BY <2>1, <2>2, <2>3
<1>8. /\ main' # NoFile => main'.image.rows \subseteq made'
      /\ wal' # NoFile => wal'.image.rows \subseteq made'
      /\ \A a \in aside' : a.main.image.rows \subseteq made' /\ (a.wal # NoFile => a.wal.image.rows \subseteq made')
  <2> DEFINE Goal == /\ main' # NoFile => main'.image.rows \subseteq made'
                     /\ wal' # NoFile => wal'.image.rows \subseteq made'
                     /\ \A a \in aside' : a.main.image.rows \subseteq made' /\ (a.wal # NoFile => a.wal.image.rows \subseteq made')
  <2>1. CASE UNCHANGED <<main, wal, aside>>
    BY <1>0, <1>2, <2>1
  <2>2. CASE SetAside
    <3>1. main' \in {main, NoFile} /\ wal' = wal
          /\ (aside' = aside \/ (main # NoFile /\ aside' = aside \cup {[main |-> main, wal |-> NoFile]}))
      BY <2>2 DEF SetAside, KeepsAside
    <3> QED
      BY <1>0, <1>2, <3>1
  <2>3. CASE SetLogAside
    <3>1. PICK a \in aside : LogMoved(a) \/ LogStuck(a)
      BY <2>3 DEF SetLogAside
    <3>2. CASE LogMoved(a)
      <4>1. PICK b : b = [a EXCEPT !.wal = wal]
        OBVIOUS
      <4>2. b.main = a.main /\ b.wal = wal
        BY <4>1 DEF FileTypes, Pairs
      <4>3. main' = main /\ wal' = NoFile /\ aside' = (aside \ {a}) \cup {b}
        BY <3>2, <4>1 DEF LogMoved
      <4> QED
        BY <1>0, <1>2, <4>2, <4>3
    <3>3. CASE LogStuck(a)
      BY <1>0, <1>2, <3>3 DEF LogStuck
    <3> QED
      BY <3>1, <3>2, <3>3
  <2>4. CASE Install
    <3>1. CASE main' = main
      BY <1>0, <1>2, <2>4, <3>1 DEF Install
    <3>2. CASE main' # main
      <4>1. staged \in Images /\ staged.rows \subseteq made
        BY <1>0, <2>4 DEF Install, At, StepsInOrder, FileTypes
      <4>2. main' = NewFile(staged) /\ wal' = wal /\ aside' = aside
        BY <2>4, <3>2 DEF Install
      <4>3. main'.image = staged
        BY <4>1, <4>2, NewFileIsNew
      <4> QED
        BY <1>0, <1>2, <4>1, <4>2, <4>3
    <3> QED
      BY <3>1, <3>2
  <2>5. CASE OpenFiles
    <3>1. main' \in {main, NewFile(Blank)} /\ wal' \in {wal, NoFile} /\ aside' = aside
      BY <2>5 DEF OpenFiles
    <3>2. NewFile(Blank).image.rows = {}
      BY BlankTyped, NewFileIsNew
    <3> QED
      BY <1>0, <1>2, <3>1, <3>2
  <2>6. CASE Stop
    BY <1>0, <1>1, <1>2, <2>6, StopChecks
  <2>7. CASE BumpGeneration \/ ReconcileInstallID \/ Commit
    <3>1. PICK image \in Images : main \in Files /\ Writes(image) /\ image.rows \subseteq Live.rows \cup made'
      BY <2>7, WhatIsWritten
    <3>2. wal'.image = image /\ main' = main
      BY <3>1 DEF Writes
    <3>3. aside' = aside
      BY <2>7 DEF BumpGeneration, ReconcileInstallID, Commit
    <3> QED
      BY <1>0, <1>1, <1>2, <3>1, <3>2, <3>3
  <2>8. ASSUME NEW s \in snaps \cup {Elsewhere}, CopyByHand(s) PROVE Goal
    <3>1. main \in Files /\ main'.image = s /\ wal' = NoFile /\ aside' = aside \cup {[main |-> main, wal |-> NoFile]}
      BY <2>8, HandCopies
    <3>2. s.rows \subseteq made /\ main # NoFile
      BY <1>0, <3>1, ElsewhereTyped, NoFileAssumption
    <3> QED
      BY <1>0, <1>2, <3>1, <3>2
  <2> QED
    BY <2>1, <2>2, <2>3, <2>4, <2>5, <2>6, <2>7, <2>8, WhoTouches
<1> QED
  BY <1>3, <1>4, <1>5, <1>6, <1>7, <1>8 DEF NothingInvented, Known


\* Each step of a restore and of a start finds what the one before it promised.
LEMMA StepsFollow ==
  ASSUME FileTypes, OtherTypes, StepsInOrder, [Next]_vars
  PROVE  StepsInOrder'
<1>0. proc \in Processes
  BY DEF OtherTypes
<1>1. ASSUME NEW step, proc' = [proc EXCEPT !.pc = step] PROVE proc'.pc = step
  BY <1>0, <1>1 DEF Processes
<1>2. ASSUME NEW step, NEW said, proc' = [proc EXCEPT !.pc = step, !.said = said] PROVE proc'.pc = step
  BY <1>0, <1>2 DEF Processes
<1>3. CASE UNCHANGED <<main, staged, pending, proc, asked>>
  BY <1>3 DEF StepsInOrder
<1>4. CASE proc' = Nobody /\ asked' = asked /\ (pending' = NoFile \/ pending # NoFile)
  BY <1>4 DEF StepsInOrder, Nobody, Restoring, Opening
<1>5. CASE Stage
  <2>1. CASE staged' = proc.src /\ Goes("aside") /\ UNCHANGED pending
    <3>1. proc'.pc = "aside" /\ proc.pc = "stage" /\ asked' = asked
      BY <1>1, <1>5, <2>1 DEF Stage, Goes, At, Same
    <3>2. staged' # NoFile
      BY <1>0, <2>1, NoFileAssumption DEF Processes
    <3> QED
      BY <3>1, <3>2 DEF StepsInOrder, Restoring, Opening
  <2>2. CASE Quits /\ (pending' = NoFile \/ pending' = pending)
    BY <1>4, <1>5, <2>2 DEF Stage, Same, Quits
  <2> QED
    BY <1>5, <2>1, <2>2 DEF Stage
<1>6. CASE SetAside
  <2>1. proc.pc = "aside" /\ proc'.pc \in {"install", "log"} /\ main' = NoFile /\ UNCHANGED <<staged, pending, asked>>
    BY <1>1, <1>6 DEF SetAside, AfterMain, Goes, At, Same
  <2> QED
    BY <2>1 DEF StepsInOrder, Restoring, Opening
<1>7. CASE SetLogAside
  <2>1. PICK a \in aside : LogMoved(a) \/ LogStuck(a)
    BY <1>7 DEF SetLogAside
  <2>2. proc.pc = "log" /\ UNCHANGED <<pending, asked>>
    BY <1>7 DEF SetLogAside, At, Same
  <2>3. CASE LogMoved(a)
    <3>1. proc'.pc = "install" /\ UNCHANGED <<main, staged>>
      BY <1>1, <2>3 DEF LogMoved, Goes
    <3> QED
      BY <2>2, <3>1 DEF StepsInOrder, Restoring, Opening
  <2>4. CASE LogStuck(a)
    BY <1>4, <2>2, <2>4 DEF LogStuck, Quits
  <2> QED
    BY <2>1, <2>3, <2>4
<1>8. CASE Install
  <2>1. CASE Goes("notice")
    <3>1. proc.pc = "install" /\ proc'.pc = "notice" /\ UNCHANGED <<pending, asked>>
      BY <1>1, <1>8, <2>1 DEF Install, Goes, At
    <3> QED
      BY <3>1 DEF StepsInOrder, Restoring, Opening
  <2>2. CASE Quits
    BY <1>4, <1>8, <2>2 DEF Install, Quits
  <2> QED
    BY <1>8, <2>1, <2>2 DEF Install
<1>9. CASE Notice
  <2>1. proc.pc = "notice" /\ proc'.pc = "unpend" /\ UNCHANGED <<main, staged, pending, asked>>
    BY <1>1, <1>9 DEF Notice, Goes, At, Same, files
  <2> QED
    BY <2>1 DEF StepsInOrder, Restoring, Opening
<1>10. CASE Unpend
  <2>1. CASE Goes("open")
    <3>1. proc.pc = "unpend" /\ proc'.pc = "open" /\ pending' = NoFile
      BY <1>1, <1>10, <2>1 DEF Unpend, Consumed, Goes, At
    <3> QED
      BY <3>1 DEF StepsInOrder, Restoring, Opening
  <2>2. CASE Quits
    BY <1>4, <1>10, <2>2 DEF Unpend, Consumed, Quits, Same
  <2> QED
    BY <1>10, <2>1, <2>2 DEF Unpend
<1>11. ASSUME NEW s \in snaps, RestoreCommand(s) PROVE StepsInOrder'
  <2>1. proc'.pc = "stage" /\ asked' = TRUE
    BY <1>11 DEF RestoreCommand, Asks, Nobody
  <2> QED
    BY <2>1 DEF StepsInOrder, Opening
<1>12. ASSUME NEW s \in snaps, StagePendingRestore(s) PROVE StepsInOrder'
  <2>1. proc.pc = "up" /\ asked' = TRUE /\ UNCHANGED <<main, staged, proc>>
    BY <1>12 DEF StagePendingRestore, Asks, At
  <2> QED
    BY <2>1 DEF StepsInOrder, Restoring, Opening
<1>13. ASSUME NEW s \in snaps \cup {Elsewhere}, CopyByHand(s) PROVE StepsInOrder'
  <2>1. proc.pc = "down" /\ UNCHANGED <<pending, staged, asked, proc>>
    BY <1>13 DEF CopyByHand, At
  <2> QED
    BY <2>1 DEF StepsInOrder, Restoring, Opening
<1>14. CASE Start
  <2>1. proc'.pc = (IF pending = NoFile THEN "open" ELSE "stage")
    BY <1>14 DEF Start, Nobody
  <2>2. UNCHANGED <<pending, asked>>
    BY <1>14 DEF Start, Same, files
  <2> QED
    BY <2>1, <2>2 DEF StepsInOrder, Restoring, Opening
<1>15. CASE OpenFiles
  <2>1. PICK said : proc' = [proc EXCEPT !.pc = "bump", !.said = said]
    BY <1>15 DEF OpenFiles
  <2>2. proc'.pc = "bump" /\ proc.pc = "open" /\ UNCHANGED <<pending, asked>>
    BY <1>2, <1>15, <2>1 DEF OpenFiles, At, Same
  <2>3. main' # NoFile
    BY <1>15, BlankTyped, NewFileIsNew, NoFileAssumption DEF OpenFiles
  <2> QED
    BY <2>2, <2>3 DEF StepsInOrder, Restoring, Opening
<1>16. CASE BumpGeneration
  <2>1. proc.pc = "bump" /\ proc'.pc = "sidecar" /\ UNCHANGED <<main, pending, asked>>
    BY <1>1, <1>16 DEF BumpGeneration, Goes, At, Same, Writes
  <2> QED
    BY <2>1 DEF StepsInOrder, Restoring, Opening
<1>17. CASE RecordGeneration
  <2>1. PICK said : proc' = [proc EXCEPT !.pc = "id", !.said = said]
    BY <1>17 DEF RecordGeneration
  <2>2. proc.pc = "sidecar" /\ proc'.pc = "id" /\ UNCHANGED <<main, pending, asked>>
    BY <1>2, <1>17, <2>1 DEF RecordGeneration, At, Same, files
  <2> QED
    BY <2>2 DEF StepsInOrder, Restoring, Opening
<1>18. CASE ReconcileInstallID
  <2>1. PICK said : proc' = [proc EXCEPT !.pc = "up", !.said = said]
    BY <1>18 DEF ReconcileInstallID
  <2>2. proc.pc = "id" /\ proc'.pc = "up" /\ UNCHANGED <<main, pending>>
    BY <1>2, <1>18, <2>1 DEF ReconcileInstallID, At, Writes
  <2> QED
    BY <2>2 DEF StepsInOrder, Restoring, Opening
<1>19. CASE Commit \/ TakeSnapshot
  BY <1>3, <1>19 DEF Commit, TakeSnapshot, Writes, Same, files
<1>20. CASE Stop \/ Crash
  BY <1>4, <1>20 DEF Stop, Crash, Quits, Same, files
<1>21. CASE Rot
  <2>1. pending # NoFile /\ UNCHANGED <<main, staged, proc, asked>>
    BY <1>21 DEF Rot, Same
  <2> QED
    BY <2>1 DEF StepsInOrder
<1> QED
  BY <1>3, <1>5, <1>6, <1>7, <1>8, <1>9, <1>10, <1>11, <1>12, <1>13, <1>14, <1>15, <1>16, <1>17, <1>18, <1>19, <1>20,
     <1>21 DEF Next, vars, files

\* Every file keeps an identity of its own.
LEMMA FilesStayDifferent ==
  ASSUME FileTypes, OtherTypes, StepsInOrder, FilesDiffer, [Next]_vars
  PROVE  FilesDiffer'
<1>0. /\ \A a, b \in aside : a.main.file = b.main.file => a = b
      /\ main # NoFile => \A a \in aside : a.main.file # main.file
  BY DEF FilesDiffer
<1>1. CASE UNCHANGED <<main, wal, aside>>
  BY <1>1 DEF FilesDiffer
<1>2. CASE SetAside
  <2>1. CASE main = NoFile
    BY <1>1, <1>2, <2>1 DEF SetAside
  <2>2. CASE main # NoFile
    <3>1. PICK b : b = [main |-> main, wal |-> NoFile]
      OBVIOUS
    <3>2. main' = NoFile /\ aside' = aside \cup {b} /\ b.main = main
      BY <1>2, <2>2, <3>1 DEF SetAside, KeepsAside
    <3> QED
      BY <1>0, <2>2, <3>2 DEF FilesDiffer
  <2> QED
    BY <2>1, <2>2
<1>3. CASE SetLogAside
  <2>1. PICK a \in aside : LogMoved(a) \/ LogStuck(a)
    BY <1>3 DEF SetLogAside
  <2>2. main = NoFile
    BY <1>3 DEF SetLogAside, At, StepsInOrder
  <2>3. CASE LogMoved(a)
    <3>1. PICK b : b = [a EXCEPT !.wal = wal]
      OBVIOUS
    <3>2. b.main = a.main
      BY <3>1 DEF FileTypes, Pairs
    <3>3. main' = main /\ aside' = (aside \ {a}) \cup {b}
      BY <2>3, <3>1 DEF LogMoved
    <3> QED
      BY <1>0, <2>2, <3>2, <3>3 DEF FilesDiffer
  <2>4. CASE LogStuck(a)
    <3>1. main' = a.main /\ aside' = aside \ {a}
      BY <2>4 DEF LogStuck
    <3> QED
      BY <1>0, <3>1 DEF FilesDiffer
  <2> QED
    BY <2>1, <2>3, <2>4
<1>4. CASE Install
  <2>1. CASE main' = main
    BY <1>1, <1>4, <2>1 DEF Install
  <2>2. CASE main' # main
    <3>1. staged \in Images /\ main' = NewFile(staged) /\ aside' = aside
      BY <1>4, <2>2 DEF Install, At, StepsInOrder, FileTypes
    <3> QED
      BY <1>0, <3>1, NewFileIsNew DEF FilesDiffer
  <2> QED
    BY <2>1, <2>2
<1>5. CASE OpenFiles
  <2>1. aside' = aside /\ main' \in {main, NewFile(Blank)}
    BY <1>5 DEF OpenFiles
  <2> QED
    BY <1>0, <2>1, BlankTyped, NewFileIsNew DEF FilesDiffer
<1>6. CASE Stop
  BY <1>0, <1>6, StopChecks, NoFileAssumption DEF FilesDiffer
<1>7. CASE BumpGeneration \/ ReconcileInstallID \/ Commit
  BY <1>0, <1>7 DEF BumpGeneration, ReconcileInstallID, Commit, Writes, FilesDiffer
<1>8. ASSUME NEW s \in snaps \cup {Elsewhere}, CopyByHand(s) PROVE FilesDiffer'
  <2>1. PICK b : b = [main |-> main, wal |-> NoFile]
    OBVIOUS
  <2>2. s \in Images /\ main \in Files /\ main' = NewFile(s) /\ aside' = aside \cup {b} /\ b.main = main
    BY <1>8, <2>1, HandCopies
  <2>3. main # NoFile
    BY <2>2, NoFileAssumption
  <2>4. main'.file # main.file /\ \A a \in aside : main'.file # a.main.file
    BY <2>2, <2>3, NewFileIsNew
  <2> QED
    BY <1>0, <2>2, <2>3, <2>4 DEF FilesDiffer
<1> QED
  BY <1>1, <1>2, <1>3, <1>4, <1>5, <1>6, <1>7, <1>8, WhoTouches


(* Databases stay whole *)

\* What a database that was set aside holds depends on the log that is lying there only
\* when that is its own.
KeptWith(a, w) ==
    LET logs == {v \in {a.wal, w} \ {NoFile} : v.file = a.main.file}
    IN  (CHOOSE m \in IF logs = {} THEN {a.main} ELSE logs : TRUE).image
LEMMA KeptIs ==
  ASSUME NEW a, NEW w, a.wal # NoFile => a.wal.file = a.main.file,
         a.wal = NoFile \/ w = NoFile \/ w.file # a.main.file
  PROVE  KeptWith(a, w) = IF a.wal # NoFile THEN a.wal.image
                          ELSE IF w # NoFile /\ w.file = a.main.file THEN w.image ELSE a.main.image
<1>1. PICK logs : logs = {v \in {a.wal, w} \ {NoFile} : v.file = a.main.file}
  OBVIOUS
<1>2. KeptWith(a, w) = (CHOOSE m \in IF logs = {} THEN {a.main} ELSE logs : TRUE).image
  BY <1>1 DEF KeptWith
<1>3. ASSUME NEW m PROVE (CHOOSE x \in {m} : TRUE) = m
  OBVIOUS
<1>4. CASE a.wal # NoFile
  <2>1. logs = {a.wal}
    BY <1>1, <1>4
  <2> QED
    BY <1>2, <1>3, <1>4, <2>1
<1>5. CASE a.wal = NoFile /\ w # NoFile /\ w.file = a.main.file
  <2>1. logs = {w}
    BY <1>1, <1>5
  <2> QED
    BY <1>2, <1>3, <1>5, <2>1
<1>6. CASE a.wal = NoFile /\ ~(w # NoFile /\ w.file = a.main.file)
  <2>1. logs = {}
    BY <1>1, <1>6
  <2> QED
    BY <1>2, <1>3, <1>6, <2>1
<1> QED
  BY <1>4, <1>5, <1>6

LEMMA KeptByWal == \A a : Kept(a) = KeptWith(a, wal) /\ Kept(a)' = KeptWith(a, wal')
BY DEF Kept, LogOf, KeptWith

\* Without a kill there, only the rename itself ends the step between the two.
LEMMA AtLog ==
  ASSUME proc.pc = "log", "torn" \notin setting.faults, [Next]_vars
  PROVE  SetLogAside \/ UNCHANGED <<main, wal, aside, proc, made>>
<1>1. CASE Rot \/ UNCHANGED vars
  BY <1>1 DEF Rot, Same, vars, files
<1>2. ~Stage /\ ~SetAside /\ ~Install /\ ~Notice /\ ~Unpend /\ ~Start /\ ~OpenFiles /\ ~BumpGeneration
      /\ ~RecordGeneration /\ ~ReconcileInstallID
  BY DEF Stage, SetAside, Install, Notice, Unpend, Start, OpenFiles, BumpGeneration,
         RecordGeneration, ReconcileInstallID, At
<1>3. ~Commit /\ ~TakeSnapshot /\ ~Stop /\ ~Crash
  BY DEF Commit, TakeSnapshot, Stop, Crash, At, Mishap
<1>4. (\A s : ~RestoreCommand(s) /\ ~StagePendingRestore(s)) /\ \A s : ~CopyByHand(s)
  BY DEF RestoreCommand, StagePendingRestore, CopyByHand, At
<1> QED
  BY <1>1, <1>2, <1>3, <1>4 DEF Next

LEMMA LogsStayTheirs ==
  ASSUME FileTypes, OtherTypes, StepsInOrder, FilesDiffer, LogsAreTheirs, "torn" \notin setting.faults, [Next]_vars
  PROVE  LogsAreTheirs'
<1>0. /\ \A a \in aside : a.wal # NoFile => a.wal.file = a.main.file
      /\ \A a, b \in aside : a.main.file = b.main.file => a = b
      /\ proc.pc # "log" /\ wal # NoFile => main # NoFile /\ wal.file = main.file
  BY DEF LogsAreTheirs, FilesDiffer
<1>1. ASSUME proc.pc # "log", proc'.pc = "log" PROVE SetAside /\ wal' # NoFile
  <2>1. \A step : proc' = [proc EXCEPT !.pc = step] => proc'.pc = step
    BY DEF OtherTypes, Processes
  <2>2. \A step, said : proc' = [proc EXCEPT !.pc = step, !.said = said] => proc'.pc = step
    BY DEF OtherTypes, Processes
  <2>3. ~Stage /\ ~Install /\ ~Notice /\ ~Unpend /\ ~BumpGeneration /\ ~SetLogAside /\ ~Stop /\ ~Crash
    BY <1>1, <2>1 DEF Stage, Install, Notice, Unpend, BumpGeneration, SetLogAside, Stop, Crash, Goes, Quits, Nobody, At
  <2>4. ~OpenFiles /\ ~RecordGeneration /\ ~ReconcileInstallID
    BY <1>1, <2>2 DEF OpenFiles, RecordGeneration, ReconcileInstallID
  <2>5. ~Start /\ ~(\E s \in snaps : RestoreCommand(s))
    <3>1. \A s : RestoreCommand(s) => proc'.pc = "stage"
      BY DEF RestoreCommand, Nobody
    <3>2. Start => proc'.pc = IF pending = NoFile THEN "open" ELSE "stage"
      BY DEF Start, Nobody
    <3> QED
      BY <1>1, <3>1, <3>2
  <2>6. ~UNCHANGED vars /\ ~Commit /\ ~TakeSnapshot /\ ~Rot
    BY <1>1 DEF Commit, TakeSnapshot, Rot, vars
  <2>7. (\A s : ~StagePendingRestore(s)) /\ \A s : ~CopyByHand(s)
    BY <1>1 DEF StagePendingRestore, CopyByHand
  <2>8. SetAside
    BY <2>3, <2>4, <2>5, <2>6, <2>7 DEF Next
  <2> QED
    BY <1>1, <2>1, <2>8 DEF SetAside, AfterMain, Goes
<1>2. CASE proc.pc = "log" /\ ~SetLogAside
  BY <1>2, AtLog DEF LogsAreTheirs
<1>3. CASE SetLogAside
  <2>1. PICK a \in aside : a.main.file = wal.file /\ (LogMoved(a) \/ LogStuck(a))
    BY <1>3 DEF SetLogAside
  <2>2. proc.pc = "log" /\ wal # NoFile
    BY <1>3 DEF SetLogAside, At, LogsAreTheirs
  <2>3. proc'.pc # "log"
    BY <2>1, <2>2 DEF LogMoved, LogStuck, Goes, Quits, Nobody, OtherTypes, Processes
  <2>4. CASE LogMoved(a)
    <3>1. PICK b : b = [a EXCEPT !.wal = wal]
      OBVIOUS
    <3>2. b.main = a.main /\ b.wal = wal
      BY <3>1 DEF FileTypes, Pairs
    <3>3. wal' = NoFile /\ aside' = (aside \ {a}) \cup {b}
      BY <2>4, <3>1 DEF LogMoved
    <3> QED
      BY <1>0, <2>1, <2>3, <3>2, <3>3 DEF LogsAreTheirs
  <2>5. CASE LogStuck(a)
    <3>1. main' = a.main /\ aside' = aside \ {a} /\ wal' = wal
      BY <2>5 DEF LogStuck
    <3>2. main' # NoFile
      BY <3>1, NoFileAssumption DEF FileTypes, Pairs
    <3> QED
      BY <1>0, <2>1, <2>3, <3>1, <3>2 DEF LogsAreTheirs
  <2> QED
    BY <2>1, <2>4, <2>5
<1>4. CASE SetAside /\ main # NoFile
  <2>1. PICK b : b = [main |-> main, wal |-> NoFile]
    OBVIOUS
  <2>2. aside' = aside \cup {b} /\ b.main = main /\ b.wal = NoFile /\ wal' = wal /\ proc.pc = "aside"
    BY <1>4, <2>1 DEF SetAside, KeepsAside, At
  <2>3. wal # NoFile => proc'.pc = "log"
    BY <1>4 DEF SetAside, AfterMain, Goes, OtherTypes, Processes
  <2>4. proc'.pc = "log" => wal # NoFile
    BY <1>4 DEF SetAside, AfterMain, Goes, OtherTypes, Processes
  <2> QED
    BY <1>0, <2>2, <2>3, <2>4 DEF LogsAreTheirs
<1>5. CASE proc.pc # "log" /\ ~(SetAside /\ main # NoFile)
  <2>1. proc'.pc = "log" => wal' # NoFile
    BY <1>1, <1>5
  <2>2. CASE UNCHANGED <<main, wal, aside>>
    BY <1>0, <1>5, <2>1, <2>2 DEF LogsAreTheirs
  <2>3. CASE SetAside
    BY <1>5, <2>2, <2>3 DEF SetAside
  <2>4. CASE Install
    <3>1. wal = NoFile
      BY <1>0, <1>5, <2>4 DEF Install, At, StepsInOrder
    <3>2. wal' = wal /\ aside' = aside
      BY <2>4 DEF Install
    <3> QED
      BY <1>0, <2>1, <3>1, <3>2 DEF LogsAreTheirs
  <2>5. CASE OpenFiles
    <3>1. aside' = aside /\ (UNCHANGED <<main, wal>> \/ wal' = NoFile)
      BY <2>5 DEF OpenFiles
    <3> QED
      BY <1>0, <1>5, <2>1, <3>1 DEF LogsAreTheirs
  <2>6. CASE Stop
    BY <1>0, <2>1, <2>6, StopChecks DEF LogsAreTheirs
  <2>7. CASE BumpGeneration \/ ReconcileInstallID \/ Commit
    <3>1. PICK image \in Images : main \in Files /\ Writes(image)
      BY <2>7, WhatIsWritten
    <3>2. main' = main /\ wal'.file = main.file /\ main # NoFile
      BY <3>1, WriteIsLive, NoFileAssumption
    <3>3. aside' = aside
      BY <2>7 DEF BumpGeneration, ReconcileInstallID, Commit
    <3> QED
      BY <1>0, <2>1, <3>2, <3>3 DEF LogsAreTheirs
  <2>8. ASSUME NEW s \in snaps \cup {Elsewhere}, CopyByHand(s) PROVE LogsAreTheirs'
    <3>1. PICK b : b = [main |-> main, wal |-> NoFile]
      OBVIOUS
    <3>2. wal' = NoFile /\ aside' = aside \cup {b} /\ b.wal = NoFile
      BY <2>8, <3>1, HandCopies
    <3> QED
      BY <1>0, <2>1, <3>2 DEF LogsAreTheirs
  <2>9. ~SetLogAside
    BY <1>5 DEF SetLogAside, At
  <2> QED
    BY <2>2, <2>3, <2>4, <2>5, <2>6, <2>7, <2>8, <2>9, WhoTouches
<1> QED
  BY <1>2, <1>3, <1>4, <1>5


\* A restore or a copy by hand moves what was live, it does not drop it.
LEMMA CommitsAreKept ==
  ASSUME FileTypes, OtherTypes, StepsInOrder, FilesDiffer, LogsAreTheirs, CommitsKept,
         "torn" \notin setting.faults, [Next]_vars
  PROVE  CommitsKept'
<1>0. /\ \A a \in aside : a.wal # NoFile => a.wal.file = a.main.file
      /\ \A a, b \in aside : a.main.file = b.main.file => a = b
      /\ main # NoFile => \A a \in aside : a.main.file # main.file
      /\ proc.pc # "log" /\ wal # NoFile => main # NoFile /\ wal.file = main.file
  BY DEF LogsAreTheirs, FilesDiffer
<1>1. \A c \in made : c \in Live.rows \/ \E a \in aside : c \in KeptWith(a, wal).rows
  BY KeptByWal DEF CommitsKept
<1> DEFINE Goal == \A c \in made' : c \in Live'.rows \/ \E a \in aside' : c \in KeptWith(a, wal').rows
<1>2. SUFFICES Goal
  BY KeptByWal DEF CommitsKept
<1>3. ~Commit => made' = made
  BY DEF Next, Stage, SetAside, SetLogAside, Install, Notice, Unpend, RestoreCommand,
         StagePendingRestore, CopyByHand, Start, OpenFiles, BumpGeneration, RecordGeneration,
         ReconcileInstallID, TakeSnapshot, Stop, Crash, Rot, Same, vars
<1>4. CASE UNCHANGED <<main, wal, aside, made>>
  BY <1>1, <1>4 DEF Live
<1>5. CASE SetLogAside
  <2>1. PICK a \in aside : a.main.file = wal.file /\ (LogMoved(a) \/ LogStuck(a))
    BY <1>5 DEF SetLogAside
  <2>2. proc.pc = "log" /\ wal # NoFile /\ main = NoFile /\ Live = Blank /\ made' = made
    BY <1>5 DEF SetLogAside, At, LogsAreTheirs, StepsInOrder, Live, Same
  <2>3. a.wal = NoFile
    BY <1>0, <2>1, <2>2 DEF LogsAreTheirs
  <2>4. KeptWith(a, wal) = wal.image
    BY <2>1, <2>2, <2>3, KeptIs
  <2>5. CASE LogMoved(a)
    <3>1. PICK b : b = [a EXCEPT !.wal = wal]
      OBVIOUS
    <3>2. b.main = a.main /\ b.wal = wal
      BY <3>1 DEF FileTypes, Pairs
    <3>3. wal' = NoFile /\ aside' = (aside \ {a}) \cup {b}
      BY <2>5, <3>1 DEF LogMoved
    <3>4. KeptWith(b, NoFile) = wal.image
      BY <2>1, <2>2, <3>2, KeptIs
    <3>5. ASSUME NEW e \in aside, e # a PROVE KeptWith(e, NoFile) = KeptWith(e, wal)
      <4>1. e.main.file # wal.file /\ (e.wal # NoFile => e.wal.file = e.main.file)
        BY <1>0, <2>1, <3>5
      <4>2. KeptWith(e, NoFile) = IF e.wal # NoFile THEN e.wal.image ELSE e.main.image
        BY <4>1, KeptIs
      <4>3. KeptWith(e, wal) = IF e.wal # NoFile THEN e.wal.image ELSE e.main.image
        BY <4>1, KeptIs
      <4> QED
        BY <4>2, <4>3
    <3>6. ASSUME NEW c \in made PROVE \E e \in aside' : c \in KeptWith(e, wal').rows
      <4>1. PICK e \in aside : c \in KeptWith(e, wal).rows
        BY <1>1, <2>2, BlankTyped
      <4>2. CASE e = a
        BY <2>4, <3>3, <3>4, <4>1, <4>2
      <4>3. CASE e # a
        BY <3>3, <3>5, <4>1, <4>3
      <4> QED
        BY <4>2, <4>3
    <3> QED
      BY <2>2, <3>6
  <2>6. CASE LogStuck(a)
    <3>1. main' = a.main /\ aside' = aside \ {a} /\ wal' = wal
      BY <2>6 DEF LogStuck
    <3>2. main' # NoFile
      BY <3>1, NoFileAssumption DEF FileTypes, Pairs
    <3>3. Live' = wal.image
      BY <2>2, <3>1, <3>2 DEF Live
    <3> QED
      BY <1>1, <2>2, <2>4, <3>1, <3>3, BlankTyped
  <2> QED
    BY <2>1, <2>5, <2>6
<1>6. CASE SetAside /\ main # NoFile
  <2>1. PICK b : b = [main |-> main, wal |-> NoFile]
    OBVIOUS
  <2>2. aside' = aside \cup {b} /\ b.main = main /\ b.wal = NoFile /\ wal' = wal /\ proc.pc = "aside" /\ made' = made
    BY <1>6, <2>1 DEF SetAside, KeepsAside, At, Same
  <2>3. KeptWith(b, wal) = Live
    BY <1>0, <1>6, <2>2, KeptIs DEF Live
  <2> QED
    BY <1>1, <2>2, <2>3
<1>7. CASE Install
  <2>1. main = NoFile /\ wal = NoFile /\ wal' = wal /\ aside' = aside /\ made' = made
    BY <1>0, <1>7 DEF Install, At, StepsInOrder
  <2>2. Live.rows = {}
    BY <2>1, BlankTyped DEF Live
  <2> QED
    BY <1>1, <2>1, <2>2
<1>8. CASE OpenFiles
  <2>1. CASE main = NoFile
    <3>1. wal = NoFile /\ wal' = wal /\ aside' = aside /\ made' = made
      BY <1>0, <1>8, <2>1 DEF OpenFiles, At, Same
    <3>2. Live.rows = {}
      BY <2>1, BlankTyped DEF Live
    <3> QED
      BY <1>1, <3>1, <3>2
  <2>2. CASE main # NoFile
    BY <1>4, <1>8, <2>2 DEF OpenFiles, Same
  <2> QED
    BY <2>1, <2>2
<1>9. ASSUME NEW a \in aside, main # NoFile, wal = NoFile \/ wal.file = main.file,
             wal' = NoFile \/ wal'.file = main.file
      PROVE  KeptWith(a, wal') = KeptWith(a, wal)
  <2>1. a.main.file # main.file /\ (a.wal # NoFile => a.wal.file = a.main.file)
    BY <1>0, <1>9
  <2>2. KeptWith(a, wal) = IF a.wal # NoFile THEN a.wal.image ELSE a.main.image
    BY <1>9, <2>1, KeptIs
  <2>3. KeptWith(a, wal') = IF a.wal # NoFile THEN a.wal.image ELSE a.main.image
    BY <1>9, <2>1, KeptIs
  <2> QED
    BY <2>2, <2>3
<1>10. CASE Stop
  <2>1. main # NoFile /\ (wal = NoFile \/ wal.file = main.file) /\ wal' = NoFile /\ aside' = aside /\ Live' = Live
    BY <1>0, <1>10, StopChecks, NoFileAssumption DEF Stop, At
  <2>2. \A a \in aside : KeptWith(a, wal') = KeptWith(a, wal)
    BY <1>9, <2>1
  <2> QED
    BY <1>1, <1>3, <1>10, <2>1, <2>2 DEF Stop, Same
<1>11. CASE BumpGeneration \/ ReconcileInstallID \/ Commit
  <2>1. PICK image \in Images : main \in Files /\ Writes(image) /\ Live.rows \subseteq image.rows
                                /\ (made' \ made) \subseteq image.rows
    BY <1>11, WhatIsWritten
  <2>2. main # NoFile /\ wal'.file = main.file /\ Live' = image
    BY <2>1, WriteIsLive, NoFileAssumption
  <2>3. aside' = aside /\ (wal = NoFile \/ wal.file = main.file)
    BY <1>0, <1>11 DEF BumpGeneration, ReconcileInstallID, Commit, At
  <2>4. \A a \in aside : KeptWith(a, wal') = KeptWith(a, wal)
    BY <1>9, <2>2, <2>3
  <2> QED
    BY <1>1, <2>1, <2>2, <2>3, <2>4
<1>12. ASSUME NEW s \in snaps \cup {Elsewhere}, CopyByHand(s) PROVE Goal
  <2>1. PICK b : b = [main |-> main, wal |-> NoFile]
    OBVIOUS
  <2>2. main # NoFile /\ wal' = NoFile /\ wal = NoFile /\ aside' = aside \cup {b} /\ b.wal = NoFile /\ b.main = main
        /\ made' = made
    BY <1>12, <2>1, HandCopies, NoFileAssumption DEF CopyByHand
  <2>3. KeptWith(b, NoFile) = Live
    BY <2>2, KeptIs DEF Live
  <2> QED
    BY <1>1, <2>2, <2>3
<1>13. CASE UNCHANGED <<main, wal, aside>> /\ ~Commit
  BY <1>3, <1>4, <1>13
<1>14. SetAside /\ main = NoFile => UNCHANGED <<main, wal, aside>> /\ ~Commit
  BY DEF SetAside, Commit, At
<1> QED
  BY <1>5, <1>6, <1>7, <1>8, <1>10, <1>11, <1>12, <1>13, <1>14, WhoTouches


(* The invariant, and what follows from it *)

LEMMA InitFiles == Init => StateFilesInv
<1> SUFFICES ASSUME Init PROVE StateFilesInv
  OBVIOUS
<1>1. FileTypes
  BY FS_EmptySet DEF Init, FileTypes
<1>2. OtherTypes
  BY NobodyTyped DEF Init, OtherTypes, Installs, Last, Lasts
<1>3. NothingInvented
  BY BlankTyped DEF Init, NothingInvented, Known, Last, Nobody
<1>4. StepsInOrder /\ FilesDiffer
  BY DEF Init, StepsInOrder, FilesDiffer, Nobody, Restoring, Opening
<1>5. WholeUnlessTorn
  BY DEF Init, WholeUnlessTorn, LogsAreTheirs, CommitsKept, Nobody
<1> QED
  BY <1>1, <1>2, <1>3, <1>4, <1>5 DEF StateFilesInv

LEMMA StepFiles == StateFilesInv /\ [Next]_vars => StateFilesInv'
<1> SUFFICES ASSUME StateFilesInv, [Next]_vars PROVE StateFilesInv'
  OBVIOUS
<1>0. FileTypes /\ OtherTypes /\ NothingInvented /\ StepsInOrder /\ FilesDiffer /\ WholeUnlessTorn
  BY DEF StateFilesInv
<1>1. FileTypes'
  BY <1>0, FilesTyped
<1>2. OtherTypes'
  BY <1>0, OthersTyped
<1>3. NothingInvented'
  BY <1>0, NothingIsInvented
<1>4. StepsInOrder'
  BY <1>0, StepsFollow
<1>5. FilesDiffer'
  BY <1>0, FilesStayDifferent
<1>6. WholeUnlessTorn'
  <2>1. setting' = setting
    BY DEF Next, Stage, SetAside, SetLogAside, Install, Notice, Unpend, RestoreCommand, Commit,
           StagePendingRestore, CopyByHand, Start, OpenFiles, BumpGeneration, RecordGeneration,
           ReconcileInstallID, TakeSnapshot, Stop, Crash, Rot, Same, vars
  <2>2. ASSUME "torn" \notin setting.faults PROVE LogsAreTheirs' /\ CommitsKept'
    <3>1. LogsAreTheirs /\ CommitsKept
      BY <1>0, <2>2 DEF WholeUnlessTorn
    <3> QED
      BY <1>0, <2>2, <3>1, LogsStayTheirs, CommitsAreKept
  <2> QED
    BY <2>1, <2>2 DEF WholeUnlessTorn
<1> QED
  BY <1>1, <1>2, <1>3, <1>4, <1>5, <1>6 DEF StateFilesInv

\* StateFilesInv holds in every state, for any number of commits, restores and snapshots
\* and any mishaps.
THEOREM FilesInductive == Spec => []StateFilesInv
BY InitFiles, StepFiles, PTL DEF Spec

\* Every file and variable keeps its type, the staged copy is there to install and a
\* daemon that writes has a file to write to (restore.go, restoreLocked; open.go,
\* openFiles).
THEOREM StateFilesTyped == Spec => []TypeOK
<1>1. StateFilesInv => TypeOK
  <2> SUFFICES ASSUME StateFilesInv PROVE TypeOK
    OBVIOUS
  <2>1. /\ main \in Files \cup {NoFile} /\ wal \in Files \cup {NoFile}
        /\ pending \in Images \cup {NoFile} /\ staged \in Images \cup {NoFile}
        /\ (\A a \in aside : a.main \in Files /\ a.wal \in Files \cup {NoFile})
        /\ snaps \subseteq Images
    BY DEF StateFilesInv, FileTypes, Pairs
  <2>2. /\ notice \in BOOLEAN /\ sidecar \in Nat /\ host \in Installs /\ asks \in Nat /\ asked \in BOOLEAN
        /\ made \subseteq Commits /\ last.back \in {"no", "command", "hand"}
    BY DEF StateFilesInv, OtherTypes, Lasts
  <2>3. last.rows \subseteq made
    BY DEF StateFilesInv, NothingInvented, Known
  <2>4. /\ (proc.pc \in {"aside", "log", "install"} => staged # NoFile)
        /\ (proc.pc \in {"bump", "sidecar", "id", "up"} => main # NoFile)
    BY DEF StateFilesInv, StepsInOrder
  <2> QED
    BY <2>1, <2>2, <2>3, <2>4 DEF TypeOK
<1> QED
  BY <1>1, FilesInductive, PTL

\* Unless a kill comes between the two renames, whatever a daemon committed is in the live
\* database or in one set aside with its log, and no log lies beside another's database:
\* for any failures, kills and repeated restores (restore.go:643-729).
THEOREM FilesStayWhole == Spec => []("torn" \notin setting.faults => FilesAreWhole)
<1>1. StateFilesInv => ("torn" \notin setting.faults => FilesAreWhole)
  <2> SUFFICES ASSUME StateFilesInv, "torn" \notin setting.faults PROVE FilesAreWhole
    OBVIOUS
  <2>1. LogsAreTheirs /\ CommitsKept /\ StepsInOrder
    BY DEF StateFilesInv, WholeUnlessTorn, OtherTypes
  <2>2. NoForeignLog
    BY <2>1 DEF NoForeignLog, LogsAreTheirs, StepsInOrder
  <2> QED
    BY <2>1, <2>2 DEF FilesAreWhole
<1> QED
  BY <1>1, FilesInductive, PTL

\* A start takes the database back only when somebody asked since a daemon last came up:
\* a restore that is interrupted anywhere is applied again, one that was applied is not
\* (restore.go, restore and ApplyPendingRestore).
THEOREM NothingUndoneUnasked == Spec => UndoneOnlyOnRequest
<1>1. StateFilesInv /\ [Next]_vars => [last.back = "no" /\ last'.back = "command" => asked]_vars
  <2> SUFFICES ASSUME StateFilesInv, Next, last.back = "no", last'.back = "command" PROVE asked
    OBVIOUS
  <2>1. CASE Install
    BY <2>1 DEF Install, At, StateFilesInv, StepsInOrder, Restoring
  <2>2. CASE \E s \in snaps \cup {Elsewhere} : CopyByHand(s)
    <3>1. last' = last \/ last' = [last EXCEPT !.back = "hand"]
      BY <2>2 DEF CopyByHand
    <3> QED
      BY <3>1 DEF StateFilesInv, OtherTypes, Lasts
  <2>3. CASE Commit
    BY <2>3 DEF Commit, Last
  <2>4. Install \/ (\E s \in snaps \cup {Elsewhere} : CopyByHand(s)) \/ Commit \/ last' = last
    BY DEF Next, Stage, SetAside, SetLogAside, Notice, Unpend, RestoreCommand,
           StagePendingRestore, Start, OpenFiles, BumpGeneration, RecordGeneration,
           ReconcileInstallID, TakeSnapshot, Stop, Crash, Rot, Same, vars
  <2> QED
    BY <2>1, <2>2, <2>3, <2>4
<1> QED
  BY <1>1, FilesInductive, PTL DEF Spec, UndoneOnlyOnRequest
=============================================================================
