--------------------------- MODULE Issuance_proofs ---------------------------
(* That IssuanceInv is inductive, and what follows from it: the types of Issuance,    *)
(* that the estimate stays on the safe side of the CA's count, that no order is       *)
(* placed before an instant the CA named, and that the full set waits for the         *)
(* renewal window. Then time: that TimeInv is inductive when the configured times fit *)
(* together, so that one broken name does not let the certificate expire.             *)
EXTENDS IssuanceInvariant, FiniteSetTheorems, TLAPS

USE TimesAssumption, QuotaAssumption

(* Types *)

\* recordFailure writes a row of the same type.
LEMMA FailedTyped == ASSUME NEW r \in Rows, now \in Times PROVE Failed(r) \in Rows
<1>1. AfterFailures \in Nat \ {0} /\ now \in Nat
  BY DEF Times
<1>2. Least(r.fails + 1, AfterFailures) \in 0..AfterFailures
  BY <1>1 DEF Least, Rows
<1>3. PICK f \in 0..AfterFailures : f = Least(r.fails + 1, AfterFailures)
  BY <1>2
<1>4. now + Backoff(f) \in Int
  BY <1>1, <1>3 DEF Backoff
<1>5. Failed(r) = [r EXCEPT !.fails = f, !.next = now + Backoff(f)]
  BY <1>3 DEF Failed
<1> QED
  BY <1>3, <1>4, <1>5 DEF Rows

\* The world changes only by its own steps, and stays typed.
LEMMA WorldTyped == ASSUME WorldTypes, MemoryTypes, [Next]_vars PROVE WorldTypes'
<1> USE DEF WorldTypes, Mishap, Fine, At, Goes, Ends
<1>1. CASE UNCHANGED world
  BY <1>1 DEF world
<1>2. CASE Tick
  <2>1. now + 1 \in Times \ {0}
    BY <1>2 DEF Tick, Times
  <2> QED
    BY <1>2, <2>1 DEF Tick
<1>3. CASE StepBack
  <2>1. now - 1 \in Times \ {0} /\ lost + 1 \in Nat
    BY <1>3 DEF StepBack, Times
  <2> QED
    BY <1>3, <2>1 DEF StepBack
<1>4. CASE ChangeOfLuck
  BY <1>4 DEF ChangeOfLuck
<1>5. CASE Edit
  BY <1>5 DEF Edit
<1>6. CASE Announce
  BY <1>6 DEF Announce
<1>7. Next => UNCHANGED world \/ Tick \/ StepBack \/ ChangeOfLuck \/ Edit \/ Announce
  BY DEF Next, BeginPass, ApplyFallback, TakeOrder, Decide, Refuse, Place, NewOrderRefused, AnswerLost,
         Book, Record, Validated, Invalid, Stall, Finish, NeighbourRefused, Crash, world
<1> QED
  BY <1>1, <1>2, <1>3, <1>4, <1>5, <1>6, <1>7 DEF vars, world


\* The ledger keeps its type when entries are forgotten, added or all erased.
LEMMA LedgerTyped ==
  ASSUME WorldTypes, StoreTypes, [Next]_vars
  PROVE  ledger' \in Ledgers
<1>1. CASE UNCHANGED ledger
  BY <1>1 DEF StoreTypes
<1>2. CASE ApplyFallback
  BY <1>2 DEF ApplyFallback, StoreTypes, Ledgers, NoFailure
<1>3. CASE Invalid
  <2>1. PICK bad \in (SUBSET (order \cap broken)) \ {{}} : ledger' = Booked(bad)
    BY <1>3 DEF Invalid
  <2>2. \A n \in Names : Least(ledger[n].n + 1, MinFailures) \in Nat /\ now \in Int
    BY DEF StoreTypes, Ledgers, Least, WorldTypes, Times
  <2>3. Booked(bad) \in Ledgers
    BY <2>2 DEF Booked, StoreTypes, Ledgers
  <2> QED
    BY <2>1, <2>3
<1>4. CASE Finish
  BY <1>4 DEF Finish, StoreTypes, Ledgers, NoFailure
<1>5. Next => UNCHANGED ledger \/ ApplyFallback \/ Invalid \/ Finish
  BY DEF Next, BeginPass, TakeOrder, Decide, Refuse, Place, NewOrderRefused, AnswerLost, Book, Record,
         Validated, Stall, Tick, StepBack, ChangeOfLuck, Edit, Announce, NeighbourRefused, Crash, store, vars
<1> QED
  BY <1>1, <1>2, <1>3, <1>4, <1>5 DEF vars

\* So does the row, whichever of its writers writes it.
LEMMA RowTyped ==
  ASSUME WorldTypes, StoreTypes, MemoryTypes, PassShape, [Next]_vars
  PROVE  row' \in Rows
<1> DEFINE Failing == row' = Failed(row)
<1>0. row \in Rows /\ now \in Times /\ order \in SUBSET Names /\ caWindow \in Times
  BY DEF StoreTypes, WorldTypes
<1>1. CASE UNCHANGED row
  BY <1>0, <1>1
<1>2. CASE Failing
  BY <1>0, <1>2, FailedTyped
<1>3. CASE Decide
  <2>1. PICK w \in {row.ari, caWindow} : UNCHANGED row \/ row' = [row EXCEPT !.ari = w]
    BY <1>3 DEF Decide, Asked
  <2>2. w \in Int
    BY <1>0, <2>1 DEF Rows, Times
  <2> QED
    BY <1>0, <2>1, <2>2 DEF Rows
<1>4. CASE Finish
  <2>1. row' = Failed(row) \/ row' = [row EXCEPT !.names = order, !.after = now + Life, !.next = 0, !.ari = 0,
                                                !.fails = IF AllIssued THEN 0 ELSE @]
    BY <1>4 DEF Finish
  <2>2. now + Life \in Int /\ 0 \in 0..AfterFailures /\ row.fails \in 0..AfterFailures /\ 0 \in Int
    BY <1>0 DEF Times, Rows
  <2>3. PICK f \in 0..AfterFailures : f = IF AllIssued THEN 0 ELSE row.fails
    BY <2>2
  <2>4. [row EXCEPT !.names = order, !.after = now + Life, !.next = 0, !.ari = 0, !.fails = f] \in Rows
    BY <1>0, <2>2, <2>3 DEF Rows
  <2>5. [row EXCEPT !.names = order, !.after = now + Life, !.next = 0, !.ari = 0,
                    !.fails = IF AllIssued THEN 0 ELSE @] \in Rows
    BY <2>3, <2>4
  <2> QED
    BY <1>0, <2>1, <2>5, FailedTyped
<1>5. Next => UNCHANGED row \/ Failing \/ Decide \/ Finish
  BY DEF Next, BeginPass, ApplyFallback, TakeOrder, Refuse, Place, NewOrderRefused, AnswerLost, Book, Record,
         Validated, Invalid, Stall, Tick, StepBack, ChangeOfLuck, Edit, Announce, NeighbourRefused, Crash,
         Fails, store, vars
<1> QED
  BY <1>1, <1>2, <1>3, <1>4, <1>5 DEF vars

LEMMA StoreTyped ==
  ASSUME WorldTypes, StoreTypes, MemoryTypes, PassShape, [Next]_vars
  PROVE  StoreTypes'
<1>1. fb' \in SUBSET Names
  <2> USE DEF StoreTypes, MemoryTypes, Passes
  <2>1. CASE UNCHANGED fb
    BY <2>1
  <2>2. CASE ApplyFallback
    BY <2>2 DEF ApplyFallback, Dropped, StillConfigured, Bad
  <2>3. CASE Finish
    BY <2>3 DEF Finish
  <2>4. Next => UNCHANGED fb \/ ApplyFallback \/ Finish
    BY DEF Next, BeginPass, TakeOrder, Decide, Refuse, Place, NewOrderRefused, AnswerLost, Book, Record,
           Validated, Invalid, Stall, Tick, StepBack, ChangeOfLuck, Edit, Announce, NeighbourRefused, Crash,
           store, vars
  <2> QED
    BY <2>1, <2>2, <2>3, <2>4 DEF vars
<1>2. order' \in SUBSET Names
  <2> USE DEF StoreTypes, MemoryTypes, Passes
  <2>1. Next => UNCHANGED order \/ order' = {} \/ order' = pass.set
    BY DEF Next, BeginPass, ApplyFallback, TakeOrder, Decide, Refuse, Place, NewOrderRefused, AnswerLost, Book,
           Record, Validated, Invalid, Stall, Finish, Tick, StepBack, ChangeOfLuck, Edit, Announce,
           NeighbourRefused, Crash, store, vars
  <2> QED
    BY <2>1 DEF vars
<1> QED
  BY <1>1, <1>2, LedgerTyped, RowTyped DEF StoreTypes


\* What is in memory: cooldowns, the fallback backoff, the pass and the history.
LEMMA MemoryTyped ==
  ASSUME WorldTypes, StoreTypes, MemoryTypes, [Next]_vars
  PROVE  MemoryTypes'
<1>0. now \in Times /\ now \in Int /\ spent \in Nat /\ order \in SUBSET Names /\ row \in Rows
  BY DEF WorldTypes, MemoryTypes, StoreTypes, Times
<1>1. cool' \in [Names -> Int]
  <2>1. Next => UNCHANGED cool \/ Validated \/ Invalid \/ Crash
    BY DEF Next, BeginPass, ApplyFallback, TakeOrder, Decide, Refuse, Place, NewOrderRefused, AnswerLost, Book,
           Record, Stall, Finish, Tick, StepBack, ChangeOfLuck, Edit, Announce, NeighbourRefused, store, vars
  <2>2. CASE Validated
    BY <2>2 DEF Validated, MemoryTypes
  <2>3. CASE Invalid
    <3>1. PICK bad : cool' = [n \in Names |-> IF n \in bad THEN now + CoolFor ELSE cool[n]]
      BY <2>3 DEF Invalid
    <3>2. now + CoolFor \in Int
      BY <1>0 DEF CoolFor
    <3> QED
      BY <3>1, <3>2 DEF MemoryTypes
  <2>4. CASE Crash
    BY <2>4 DEF Crash
  <2> QED
    BY <2>1, <2>2, <2>3, <2>4 DEF MemoryTypes, vars
<1>2. transient' \in Int
  <2>1. Next => UNCHANGED transient \/ transient' = 0 \/ transient' = Failed(row).next
    BY DEF Next, BeginPass, ApplyFallback, TakeOrder, Decide, Refuse, Place, NewOrderRefused, AnswerLost, Book,
           Record, Validated, Invalid, Stall, Finish, Tick, StepBack, ChangeOfLuck, Edit, Announce,
           NeighbourRefused, Crash, Fails, store, vars
  <2>2. Failed(row).next \in Int
    BY <1>0, FailedTyped DEF Rows
  <2> QED
    BY <2>1, <2>2 DEF MemoryTypes, vars
<1>3. pass' \in Passes
  <2> USE DEF Goes, Ends
  <2>1. Idle \in Passes
    BY DEF Idle, Passes, Pcs
  <2>2. pass \in Passes /\ cfg.names \in SUBSET Names /\ cfg.policy \in BOOLEAN
    BY DEF MemoryTypes, WorldTypes
  <2>3. CASE BeginPass
    <3>1. PICK unknown \in BOOLEAN : UNCHANGED pass \/
             pass' = [Idle EXCEPT !.pc = "apply", !.cfg = cfg.names, !.policy = cfg.policy,
                                  !.set = cfg.names, !.held = ~unknown /\ fb # {}, !.unknown = unknown]
      BY <2>3 DEF BeginPass
    <3>2. PICK held \in BOOLEAN : held = (~unknown /\ fb # {})
      OBVIOUS
    <3> QED
      BY <2>1, <2>2, <3>1, <3>2 DEF Passes, Pcs
  <2>4. CASE ApplyFallback
    <3> DEFINE Held(written) == pass.held /\ (StillConfigured # {} \/ ~written)
    <3>1. PICK written \in BOOLEAN :
             pass' = [pass EXCEPT !.pc = "order", !.set = pass.cfg \ Dropped(Held(written)),
                                  !.held = Held(written) \/ Dropped(Held(written)) # {}]
      BY <2>4 DEF ApplyFallback
    <3>2. PICK held \in BOOLEAN : held = (Held(written) \/ Dropped(Held(written)) # {})
      OBVIOUS
    <3>3. PICK gone : gone = Dropped(Held(written))
      OBVIOUS
    <3>4. pass' = [pass EXCEPT !.pc = "order", !.set = pass.cfg \ gone, !.held = held]
      BY <3>1, <3>2, <3>3
    <3> HIDE DEF Held
    <3>5. pass.cfg \ gone \in SUBSET Names
      BY <2>2 DEF Passes
    <3> QED
      BY <2>2, <3>4, <3>5 DEF Passes, Pcs
  <2>5. Next => UNCHANGED pass \/ BeginPass \/ ApplyFallback \/ pass' = Idle
                \/ \E pc \in Pcs : pass' = [pass EXCEPT !.pc = pc]
    BY DEF Next, TakeOrder, Decide, Refuse, Place, NewOrderRefused, AnswerLost, Book, Record, Validated, Invalid,
           Stall, Finish, Tick, StepBack, ChangeOfLuck, Edit, Announce, NeighbourRefused, Crash, Fails, vars, Pcs
  <2>6. ASSUME NEW pc \in Pcs, pass' = [pass EXCEPT !.pc = pc] PROVE pass' \in Passes
    BY <2>2, <2>6 DEF Passes
  <2> QED
    BY <2>1, <2>2, <2>3, <2>4, <2>5, <2>6 DEF vars
<1>4. lacks' \in SUBSET Names
  <2>1. Next => UNCHANGED lacks \/ lacks' = {} \/ lacks' = fb
    BY DEF Next, BeginPass, ApplyFallback, TakeOrder, Decide, Refuse, Place, NewOrderRefused, AnswerLost, Book,
           Record, Validated, Invalid, Stall, Finish, Tick, StepBack, ChangeOfLuck, Edit, Announce,
           NeighbourRefused, Crash, history, vars
  <2> QED
    BY <2>1 DEF MemoryTypes, StoreTypes, vars
<1>5. spent' \in Nat
  <2>1. Next => UNCHANGED spent \/ spent' = spent + 1
    BY DEF Next, BeginPass, ApplyFallback, TakeOrder, Decide, Refuse, Place, NewOrderRefused, AnswerLost, Book,
           Record, Validated, Invalid, Stall, Finish, Tick, StepBack, ChangeOfLuck, Edit, Announce,
           NeighbourRefused, Crash, Mishap, Fine, Fails, vars
  <2> QED
    BY <1>0, <2>1 DEF vars
<1> QED
  BY <1>1, <1>2, <1>3, <1>4, <1>5 DEF MemoryTypes


(* The bookkeeping of the CA's limits *)

\* The recorded deadline only grows, and every instant the CA names is recorded.
LEMMA DeadlineKept ==
  ASSUME WorldTypes, QuotaTypes, DeadlineShape, [Next]_vars
  PROVE  DeadlineShape'
<1>0. bucket \in Buckets /\ told \in Nat /\ now \in Nat /\ lost \in Nat
  BY DEF QuotaTypes, WorldTypes, Times
<1>1. CASE UNCHANGED <<bucket, told>>
  BY <1>1 DEF DeadlineShape
<1>2. CASE Book
  BY <1>0, <1>2 DEF Book, Spend, history, DeadlineShape, Buckets
<1>3. ASSUME NEW at \in Nat, NEW noted \in Nat, at <= noted,
             bucket' = NoteDeadline(bucket, noted), told' = Greatest(told, at)
      PROVE  DeadlineShape'
  <2>1. bucket'.reset = Greatest(noted, bucket.reset)
    BY <1>0, <1>3 DEF NoteDeadline, Buckets
  <2> QED
    BY <1>0, <1>3, <2>1 DEF DeadlineShape, Greatest, Buckets
<1>4. CASE NewOrderRefused
  <2>1. PICK paused \in BOOLEAN, at \in Instants :
          bucket' = NoteDeadline(bucket, Deadline(paused, at)) /\ told' = Greatest(told, at)
    BY <1>4 DEF NewOrderRefused
  <2>2. at \in Nat /\ Deadline(paused, at) \in Nat /\ at <= Deadline(paused, at)
    BY <1>0 DEF Instants, Deadline, PauseFloor, Greatest, Real
  <2> QED
    BY <1>3, <2>1, <2>2
<1>5. CASE NeighbourRefused
  <2>1. PICK at \in Instants \ {0} : bucket' = NoteDeadline(bucket, at) /\ told' = Greatest(told, at)
    BY <1>5 DEF NeighbourRefused
  <2>2. at \in Nat
    BY <1>0 DEF Instants, Real
  <2> QED
    BY <1>3, <2>1, <2>2
<1>6. Next => UNCHANGED <<bucket, told>> \/ Book \/ NewOrderRefused \/ NeighbourRefused
  BY DEF Next, BeginPass, ApplyFallback, TakeOrder, Decide, Refuse, Place, AnswerLost, Record, Validated,
         Invalid, Stall, Finish, Tick, StepBack, ChangeOfLuck, Edit, Announce, Crash, store, history
<1> QED
  BY <1>1, <1>2, <1>4, <1>5, <1>6 DEF vars

\* The CA's level after a token is taken, and as its clock runs on.
LEMMA CaTaken ==
  ASSUME NEW c \in [level : Int, at : Int], NEW t \in Int, c.level \in 0..Full, c.at <= t, CaLevel(c, t) >= Refill
  PROVE  LET d == CaTake(c, t) IN
         /\ d \in [level : Int, at : Int] /\ d.level \in 0..Full /\ d.at = t
         /\ CaLevel(d, t) = CaLevel(c, t) - Refill
<1>1. Full \in Nat
  BY DEF Full
<1>2. PICK l \in Int : l = CaLevel(c, t) /\ l <= Full /\ l >= Refill
  BY <1>1 DEF CaLevel, Least
<1>3. CaTake(c, t) = [level |-> l - Refill, at |-> t]
  BY <1>2 DEF CaTake
<1>4. CaLevel([level |-> l - Refill, at |-> t], t) = l - Refill
  BY <1>1, <1>2 DEF CaLevel, Least
<1> QED
  BY <1>1, <1>2, <1>3, <1>4
LEMMA CaBounds ==
  ASSUME NEW c \in [level : Int, at : Int], NEW t \in Int, c.level \in 0..Full, c.at <= t
  PROVE  /\ CaLevel(c, t) \in 0..Full
         /\ CaLevel(c, t + 1) = Least(Full, CaLevel(c, t) + 1)
<1>1. Full \in Nat
  BY DEF Full
<1> QED
  BY <1>1 DEF CaLevel, Least

\* What a spend leaves: never more than before less a token, nor less than the debt allowed.
LEMMA Spent ==
  ASSUME NEW b \in Buckets, NEW t \in Nat \ {0}
  PROVE  LET s == Spend(b, t) IN
         /\ s \in Buckets /\ s.reset = b.reset
         /\ Least(level(s, t), Full) <= Greatest(-Full, Least(level(b, t), Full) - Refill)
<1>1. Full \in Nat \ {0}
  BY DEF Full
<1>2. level(b, t) \in Int
  BY <1>1 DEF level, Greatest, Buckets
<1>3. PICK l \in Int : l = Greatest(-Full, Least(level(b, t), Full) - Refill)
  BY <1>1, <1>2 DEF Greatest, Least
<1>4. PICK a \in Nat \ {0} : a = Greatest(t, b.at) /\ t <= a
  BY DEF Greatest, Buckets
<1>5. PICK s : s = Spend(b, t)
  OBVIOUS
<1>6. s = [b EXCEPT !.level = l, !.at = a]
  BY <1>3, <1>4, <1>5 DEF Spend
<1>7. s \in Buckets /\ s.reset = b.reset /\ s.level = l /\ s.at = a
  BY <1>3, <1>4, <1>6 DEF Buckets
<1>8. level(s, t) = l
  BY <1>3, <1>4, <1>7 DEF level, Greatest, Never
<1> QED
  BY <1>1, <1>3, <1>5, <1>7, <1>8 DEF Least

\* As time passes the estimate gains no more than the time; a deadline changes nothing of it.
LEMMA LevelMoves ==
  ASSUME NEW b \in Buckets, NEW t \in Nat
  PROVE  /\ level(b, t) \in Int
         /\ level(b, t + 1) <= level(b, t) + 1
         /\ t > 0 => level(b, t - 1) <= level(b, t)
         /\ \A at \in Nat : /\ NoteDeadline(b, at) \in Buckets
                            /\ level(NoteDeadline(b, at), t) = level(b, t)
<1>1. Full \in Nat
  BY DEF Full
<1>2. \A at \in Nat : /\ NoteDeadline(b, at) \in Buckets
                      /\ NoteDeadline(b, at).level = b.level /\ NoteDeadline(b, at).at = b.at
  BY DEF NoteDeadline, Buckets, Greatest
<1> QED
  BY <1>1, <1>2 DEF level, Greatest, Buckets

\* The kinds of steps, as far as the limits are concerned.
Counts == ca' = CaTake(ca, Real) /\ CaLevel(ca, Real) >= Refill /\ unbooked' = unbooked + 1
          /\ UNCHANGED <<now, lost, bucket, told>>
Notes == (\E at \in Nat : bucket' = NoteDeadline(bucket, at)) /\ UNCHANGED <<now, lost, ca, unbooked>>
LEMMA QuotaStep ==
  ASSUME WorldTypes, QuotaTypes, [Next]_vars
  PROVE  \/ UNCHANGED <<now, lost, bucket, ca, told, unbooked>> \/ Counts \/ Book \/ Notes \/ Tick \/ StepBack
<1>0. now \in Nat /\ lost \in Nat
  BY DEF WorldTypes, Times
<1>1. CASE Place
  BY <1>1 DEF Place, Counts, world, store, history
<1>2. CASE AnswerLost
  BY <1>2 DEF AnswerLost, Counts, world, history
<1>3. CASE NewOrderRefused
  <2>1. PICK paused \in BOOLEAN, at \in Instants : bucket' = NoteDeadline(bucket, Deadline(paused, at))
    BY <1>3 DEF NewOrderRefused
  <2>2. Deadline(paused, at) \in Nat
    BY <1>0 DEF Instants, Deadline, PauseFloor, Greatest, Real
  <2> QED
    BY <1>3, <2>1, <2>2 DEF NewOrderRefused, Notes, world
<1>4. CASE NeighbourRefused
  <2>1. PICK at \in Instants \ {0} : bucket' = NoteDeadline(bucket, at)
    BY <1>4 DEF NeighbourRefused
  <2>2. at \in Nat
    BY <1>0 DEF Instants, Real
  <2> QED
    BY <1>4, <2>1, <2>2 DEF NeighbourRefused, Notes, world
<1>5. Next => UNCHANGED <<now, lost, bucket, ca, told, unbooked>> \/ Place \/ AnswerLost \/ NewOrderRefused
              \/ NeighbourRefused \/ Book \/ Tick \/ StepBack
  BY DEF Next, BeginPass, ApplyFallback, TakeOrder, Decide, Refuse, Record, Validated, Invalid, Stall, Finish,
         ChangeOfLuck, Edit, Announce, Crash, world, store, history
<1> QED
  BY <1>1, <1>2, <1>3, <1>4, <1>5 DEF vars

LEMMA QuotaTyped ==
  ASSUME WorldTypes, QuotaTypes, CaShape, [Next]_vars
  PROVE  QuotaTypes' /\ CaShape'
<1>0. /\ now \in Nat \ {0} /\ lost \in Nat /\ Real \in Nat /\ bucket \in Buckets /\ unbooked \in Nat
      /\ ca \in [level : Int, at : Int] /\ ca.level \in 0..Full /\ ca.at <= Real /\ told \in Nat
  BY DEF WorldTypes, Times, QuotaTypes, CaShape, Real
<1>1. told' \in Nat
  <2>1. Next => UNCHANGED told \/ \E at \in Instants : told' = Greatest(told, at)
    BY DEF Next, BeginPass, ApplyFallback, TakeOrder, Decide, Refuse, Place, NewOrderRefused, AnswerLost, Book,
           Record, Validated, Invalid, Stall, Finish, Tick, StepBack, ChangeOfLuck, Edit, Announce,
           NeighbourRefused, Crash, history
  <2>2. Instants \subseteq Nat
    BY <1>0 DEF Instants
  <2> QED
    BY <1>0, <2>1, <2>2 DEF Greatest, vars
<1>2. bucket' \in Buckets /\ unbooked' \in Nat /\ ca' \in [level : Int, at : Int] /\ ca'.level \in 0..Full
      /\ ca'.at <= Real'
  <2>1. CASE UNCHANGED <<now, lost, bucket, ca, told, unbooked>>
    BY <1>0, <2>1 DEF Real
  <2>2. CASE Counts
    BY <1>0, <2>2, CaTaken DEF Counts, Real
  <2>3. CASE Book
    <3>1. bucket' \in Buckets
      BY <1>0, <2>3, Spent DEF Book
    <3> QED
      BY <1>0, <2>3, <3>1 DEF Book, world, Real
  <2>4. CASE Notes
    BY <1>0, <2>4, LevelMoves DEF Notes, Real
  <2>5. CASE Tick
    BY <1>0, <2>5 DEF Tick, store, Real
  <2>6. CASE StepBack
    BY <1>0, <2>6 DEF StepBack, store, Real
  <2> QED
    BY <2>1, <2>2, <2>3, <2>4, <2>5, <2>6, QuotaStep
<1> QED
  BY <1>1, <1>2 DEF QuotaTypes, CaShape

\* The estimate stays below the CA's count, the orders that are not booked yet apart.
LEMMA EstimateKept ==
  ASSUME WorldTypes, QuotaTypes, CaShape, EstimateShape, [Next]_vars
  PROVE  EstimateShape'
<1>0. /\ now \in Nat \ {0} /\ lost \in Nat /\ Real \in Int /\ bucket \in Buckets /\ unbooked \in Nat
      /\ ca \in [level : Int, at : Int] /\ ca.level \in 0..Full /\ ca.at <= Real
      /\ Full \in Nat \ {0} /\ Refill \in Nat \ {0} /\ Real = now + lost
  BY DEF WorldTypes, Times, QuotaTypes, CaShape, Real, Full
<1>1. PICK e \in Nat : e = unbooked * Refill
  BY <1>0
<1>2. (unbooked + 1) * Refill = e + Refill /\ (unbooked - 1) * Refill = e - Refill
  BY <1>0, <1>1
<1>3. PICK l \in Int : l = level(bucket, now)
  BY <1>0, LevelMoves
<1>4. PICK c \in 0..Full : c = CaLevel(ca, Real) /\ CaLevel(ca, Real + 1) = Least(Full, c + 1)
  BY <1>0, CaBounds
<1>5. Least(l, Full) <= c + e
  BY <1>1, <1>3, <1>4 DEF EstimateShape, Counted
<1>6. CASE UNCHANGED <<now, lost, bucket, ca, told, unbooked>>
  BY <1>6 DEF EstimateShape, Counted, Real
<1>7. CASE Counts
  <2>1. CaLevel(ca', Real') = c - Refill /\ c >= Refill
    BY <1>0, <1>4, <1>7, CaTaken DEF Counts, Real
  <2>2. Counted' = Least(l, Full) /\ unbooked' * Refill = e + Refill
    BY <1>2, <1>3, <1>7 DEF Counts, Counted
  <2> QED
    BY <1>0, <1>5, <2>1, <2>2 DEF EstimateShape, Least
<1>8. CASE Book
  <2>1. Counted' <= Greatest(-Full, Least(l, Full) - Refill) /\ Counted' \in Int
    <3>1. PICK s : s = Spend(bucket, now)
      OBVIOUS
    <3>2. s \in Buckets /\ Least(level(s, now), Full) <= Greatest(-Full, Least(l, Full) - Refill)
      BY <1>0, <1>3, <3>1, Spent
    <3>3. Counted' = Least(level(s, now), Full)
      BY <1>8, <3>1 DEF Book, Counted, world
    <3> QED
      BY <1>0, <3>2, <3>3, LevelMoves DEF Least
  <2>2. CaLevel(ca', Real') = c
    BY <1>4, <1>8 DEF Book, world, Real
  <2>3. unbooked' * Refill = IF unbooked > 0 THEN e - Refill ELSE 0
    BY <1>0, <1>2, <1>8 DEF Book
  <2>4. unbooked > 0 => e >= Refill
    BY <1>0, <1>1, <1>2
  <2>5. unbooked = 0 => e = 0
    BY <1>1
  <2> QED
    BY <1>0, <1>5, <2>1, <2>2, <2>3, <2>4, <2>5 DEF EstimateShape, Least, Greatest
<1>9. CASE Notes
  <2>1. level(bucket', now') = l
    BY <1>0, <1>3, <1>9, LevelMoves DEF Notes
  <2> QED
    BY <1>1, <1>4, <1>5, <1>9, <2>1 DEF EstimateShape, Counted, Notes, Real
<1>10. CASE Tick
  <2>1. level(bucket', now') <= l + 1 /\ level(bucket', now') \in Int
    BY <1>0, <1>3, <1>10, LevelMoves DEF Tick, store
  <2>2. CaLevel(ca', Real') = Least(Full, c + 1)
    <3>1. Real' = Real + 1 /\ ca' = ca
      BY <1>0, <1>10 DEF Tick, Real
    <3> QED
      BY <1>4, <3>1
  <2> QED
    BY <1>0, <1>1, <1>5, <1>10, <2>1, <2>2 DEF EstimateShape, Counted, Tick, Least
<1>11. CASE StepBack
  <2>1. level(bucket', now') <= l /\ level(bucket', now') \in Int
    BY <1>0, <1>3, <1>11, LevelMoves DEF StepBack, store
  <2>2. CaLevel(ca', Real') = c
    <3>1. Real' = Real /\ ca' = ca
      BY <1>0, <1>11 DEF StepBack, Real
    <3> QED
      BY <1>4, <3>1
  <2> QED
    BY <1>0, <1>1, <1>5, <1>11, <2>1, <2>2 DEF EstimateShape, Counted, StepBack, Least
<1> QED
  BY <1>6, <1>7, <1>8, <1>9, <1>10, <1>11, QuotaStep


(* What a pass works on *)

\* Something is left to order whenever something is configured.
LEMMA SomethingKept ==
  ASSUME NEW held, pass.cfg # {}
  PROVE  pass.cfg \ Dropped(held) # {}
<1>1. CASE KeepsEnough
  <2>1. pass.cfg \ Bad # {}
    <3>1. SUFFICES ASSUME pass.cfg \ Bad = {} PROVE FALSE
      OBVIOUS
    <3>2. Cardinality(pass.cfg \ Bad) = 0
      BY <3>1, FS_EmptySet
    <3> QED
      BY <1>1, <3>2 DEF KeepsEnough
  <2> QED
    BY <2>1 DEF Dropped
<1>2. CASE ~KeepsEnough
  BY <1>2 DEF Dropped
<1> QED
  BY <1>1, <1>2

\* Within a pass only the fallback changes what it orders, and only taking, recording and
\* finishing touch the order.
LEMMA PassKept ==
  ASSUME WorldTypes, MemoryTypes, PassShape, [Next]_vars
  PROVE  PassShape'
<1>0. pass \in Passes
  BY DEF MemoryTypes
<1>1. CASE pass' = Idle
  BY <1>1 DEF PassShape, Idle, At
<1>2. CASE BeginPass
  <2>1. CASE UNCHANGED pass
    BY <1>2, <2>1 DEF BeginPass, PassShape, At
  <2>2. CASE ~Waits
    <3>1. pass'.pc = "apply" /\ pass'.cfg = cfg.names /\ pass'.set = cfg.names /\ cfg' = cfg
      BY <1>2, <2>2 DEF BeginPass, Idle, world
    <3> QED
      BY <3>1 DEF PassShape, At
  <2> QED
    BY <1>2, <2>1, <2>2 DEF BeginPass
<1>3. CASE ApplyFallback
  <2>1. PICK held : pass'.pc = "order" /\ pass'.set = pass.cfg \ Dropped(held) /\ pass'.cfg = pass.cfg
    BY <1>0, <1>3 DEF ApplyFallback, Passes
  <2>2. pass.cfg = cfg.names /\ cfg' = cfg
    BY <1>3 DEF ApplyFallback, PassShape, At, world
  <2> QED
    BY <2>1, <2>2, SomethingKept DEF PassShape, At
<1>4. CASE At("idle") /\ UNCHANGED <<pass, order>>
  BY <1>4 DEF PassShape, At
<1>5. CASE ~At("idle") /\ UNCHANGED cfg
           /\ \E pc \in Pcs : /\ pass' = [pass EXCEPT !.pc = pc]
                              /\ pc \in {"solve", "finish"} => order' = pass.set
  <2>1. pass'.set = pass.set /\ pass'.cfg = pass.cfg
    BY <1>0, <1>5 DEF Passes
  <2>2. At("solve")' \/ At("finish")' => order' = pass'.set
    BY <1>0, <1>5, <2>1 DEF At, Passes
  <2> QED
    BY <1>5, <2>1, <2>2 DEF PassShape, At
<1>6. CASE UNCHANGED <<pass, order, cfg>>
  BY <1>6 DEF PassShape, At
<1>7. TakeOrder \/ Decide \/ Place \/ Book \/ Record \/ Validated
        => pass' = Idle \/ (~At("idle") /\ UNCHANGED cfg
           /\ \E pc \in Pcs : /\ pass' = [pass EXCEPT !.pc = pc]
                              /\ pc \in {"solve", "finish"} => order' = pass.set)
  BY DEF TakeOrder, Decide, Place, Book, Record, Validated, OrderMatches, Goes, Ends, At, Pcs, PassShape, world, store
<1>8. Refuse \/ NewOrderRefused \/ AnswerLost \/ Invalid \/ Stall \/ Finish \/ Crash => pass' = Idle
  BY DEF Refuse, NewOrderRefused, AnswerLost, Invalid, Stall, Finish, Crash, Fails, Ends
<1>9. Tick \/ StepBack \/ ChangeOfLuck \/ Edit \/ Announce => At("idle") /\ UNCHANGED <<pass, order>>
  BY DEF Tick, StepBack, ChangeOfLuck, Edit, Announce, store
<1>10. NeighbourRefused => UNCHANGED <<pass, order, cfg>>
  BY DEF NeighbourRefused, world
<1> QED
  BY <1>1, <1>2, <1>3, <1>4, <1>5, <1>6, <1>7, <1>8, <1>9, <1>10 DEF Next, vars

(* What holds the reduced set *)

\* A record that says something of the configured names goes only with the reduction it
\* describes, and a pass that could read it knows of it to its end.
LEMMA RecordKept ==
  ASSUME WorldTypes, StoreTypes, MemoryTypes, PassShape, RecordStands, [Next]_vars
  PROVE  RecordStands'
<1>0. pass \in Passes
  BY DEF MemoryTypes
<1>1. CASE BeginPass
  <2>1. CASE UNCHANGED pass
    BY <1>1, <2>1 DEF BeginPass, RecordStands, At, world, store, history
  <2>2. CASE ~Waits
    <3>1. PICK unknown \in BOOLEAN :
             pass' = [Idle EXCEPT !.pc = "apply", !.cfg = cfg.names, !.policy = cfg.policy,
                                  !.set = cfg.names, !.held = ~unknown /\ fb # {}, !.unknown = unknown]
      BY <1>1, <2>2 DEF BeginPass
    <3>2. fb # {} => pass'.held \/ pass'.unknown
      BY <3>1 DEF Idle
    <3>3. UNCHANGED <<cfg, fb, lacks>>
      BY <1>1 DEF BeginPass, world, store, history
    <3> QED
      BY <3>2, <3>3 DEF RecordStands
  <2> QED
    BY <1>1, <2>1, <2>2 DEF BeginPass
<1>2. CASE ApplyFallback
  <2> SUFFICES ASSUME lacks' # {} PROVE RecordStands'
    BY DEF RecordStands
  <2>1. lacks' = lacks /\ cfg' = cfg /\ pass.cfg = cfg.names
    BY <1>2 DEF ApplyFallback, history, world, PassShape, At
  <2>2. StillConfigured # {} /\ cfg.names \ lacks # {} /\ fb \cap cfg.names # {}
    BY <2>1 DEF RecordStands, StillConfigured
  <2>3. pass.held \/ pass.unknown
    BY <1>2, <2>1 DEF ApplyFallback, RecordStands, At
  <2>4. PICK written \in BOOLEAN, held \in BOOLEAN :
          /\ held = (pass.held /\ (StillConfigured # {} \/ ~written))
          /\ pass' = [pass EXCEPT !.pc = "order", !.set = pass.cfg \ Dropped(held),
                                  !.held = held \/ Dropped(held) # {}]
          /\ fb' \in {fb, StillConfigured, Dropped(held)}
          /\ fb' = Dropped(held) => Dropped(held) # {} \/ fb' = fb
    BY <1>2, <2>2 DEF ApplyFallback
  <2>5. pass'.held \/ pass'.unknown
    BY <1>0, <2>2, <2>3, <2>4 DEF Passes
  <2>6. fb' \cap cfg.names # {}
    BY <2>1, <2>2, <2>4 DEF StillConfigured, Dropped
  <2> QED
    BY <2>1, <2>2, <2>5, <2>6 DEF RecordStands
<1>3. CASE Finish
  <2>1. pass'.pc = "idle" /\ cfg' = cfg /\ pass.cfg = cfg.names /\ order = pass.set /\ order \subseteq pass.cfg
    BY <1>3 DEF Finish, Ends, Idle, world, PassShape, At
  <2>2. CASE UNCHANGED <<fb, lacks>>
    BY <2>1, <2>2 DEF RecordStands, At
  <2>3. CASE /\ fb' = IF ClearsRecord THEN {} ELSE fb
             /\ lacks' = IF fb = pass.cfg \ order THEN fb ELSE {}
    <3> SUFFICES ASSUME lacks' # {} PROVE RecordStands'
      BY DEF RecordStands
    <3>1. lacks' = fb /\ fb = pass.cfg \ order /\ fb # {}
      BY <2>3
    <3>2. ~ClearsRecord /\ fb' = fb
      BY <2>3, <3>1 DEF ClearsRecord
    <3>3. order # {}
      BY <1>3, <2>1, <3>1 DEF PassShape, Finish, At
    <3> QED
      BY <2>1, <3>1, <3>2, <3>3 DEF RecordStands, At
  <2> QED
    BY <1>3, <2>2, <2>3 DEF Finish
<1>4. CASE Edit
  BY <1>4 DEF Edit, RecordStands, store, At
<1>5. CASE /\ UNCHANGED <<cfg, fb, lacks>>
           /\ \/ UNCHANGED pass \/ pass' = Idle
              \/ ~At("idle") /\ \E pc \in Pcs : pass' = [pass EXCEPT !.pc = pc]
  <2>1. At("idle")' \/ (~At("idle") /\ pass'.held = pass.held /\ pass'.unknown = pass.unknown)
    BY <1>0, <1>5 DEF At, Idle, Passes
  <2> QED
    BY <1>5, <2>1 DEF RecordStands
<1>6. TakeOrder \/ Decide \/ Place \/ Book \/ Record \/ Validated
        => /\ UNCHANGED <<cfg, fb, lacks>>
           /\ \/ pass' = Idle
              \/ ~At("idle") /\ \E pc \in Pcs : pass' = [pass EXCEPT !.pc = pc]
  BY DEF TakeOrder, Decide, Place, Book, Record, Validated, Goes, Ends, At, Pcs, world, store, history
<1>7. Refuse \/ NewOrderRefused \/ AnswerLost \/ Invalid \/ Stall \/ Crash
        => pass' = Idle /\ UNCHANGED <<cfg, fb, lacks>>
  BY DEF Refuse, NewOrderRefused, AnswerLost, Invalid, Stall, Crash, Fails, Ends, world, store, history
<1>8. Tick \/ StepBack \/ ChangeOfLuck \/ Announce \/ NeighbourRefused => UNCHANGED <<pass, cfg, fb, lacks>>
  BY DEF Tick, StepBack, ChangeOfLuck, Announce, NeighbourRefused, world, store, history
<1> QED
  BY <1>1, <1>2, <1>3, <1>4, <1>5, <1>6, <1>7, <1>8 DEF Next, vars


\* A pass gets as far as ordering the full set by the renewal date only, while the record
\* is the one the certificate in effect was issued under.
LEMMA DecisionKept ==
  ASSUME MemoryTypes, PassShape, RecordStands, DecisionShape, [Next]_vars
  PROVE  DecisionShape'
<1>0. pass \in Passes
  BY DEF MemoryTypes
<1>1. CASE Decide
  <2> SUFFICES ASSUME At("place")', pass'.set = pass'.cfg, lacks' # {},
                      row'.names = pass'.cfg \ lacks', fb' \in {{}, lacks'}
               PROVE  now' >= Due(row')
    BY DEF DecisionShape
  <2>1. /\ pass.cfg = cfg.names /\ pass'.set = pass.set /\ pass'.cfg = pass.cfg
        /\ lacks' = lacks /\ fb' = fb /\ now' = now
    BY <1>0, <1>1 DEF Decide, Goes, Ends, At, Idle, PassShape, Passes, world, history
  <2>2. fb = lacks /\ fb # {} /\ pass.cfg \ lacks # {} /\ (pass.held \/ pass.unknown)
    BY <1>1, <2>1 DEF RecordStands, Decide, At
  <2>3. CASE row' = row
    <3>1. IsTheDegradation /\ row.names # {}
      BY <2>1, <2>2, <2>3 DEF IsTheDegradation
    <3> QED
      BY <1>1, <2>1, <3>1 DEF Decide, Ends, At, Idle
  <2>4. ASSUME NEW w, row' = [row EXCEPT !.ari = w],
               IF now >= Due(row') THEN Goes("place") ELSE Ends
        PROVE  now' >= Due(row')
    BY <2>1, <2>4 DEF Ends, At, Idle
  <2> QED
    BY <1>1, <2>3, <2>4 DEF Decide
<1>2. CASE ~At("place")'
  BY <1>2 DEF DecisionShape
<1>3. CASE UNCHANGED <<pass, row, fb, lacks, now>>
  BY <1>3 DEF DecisionShape, At, Due
<1>4. BeginPass => ~At("place")' \/ UNCHANGED <<pass, row, fb, lacks, now>>
  BY <1>0 DEF BeginPass, At, Idle, Passes, world, store, history
<1>8. ApplyFallback => ~At("place")'
  BY <1>0 DEF ApplyFallback, At, Passes
<1>9. TakeOrder \/ Place \/ Book \/ Record \/ Validated => ~At("place")'
  <2>1. \A pc : pass' = [pass EXCEPT !.pc = pc] => pass'.pc = pc
    BY <1>0 DEF Passes
  <2> QED
    BY <2>1 DEF TakeOrder, Place, Book, Record, Validated, Goes, Ends, At, Idle
<1>5. Refuse \/ NewOrderRefused \/ AnswerLost \/ Invalid \/ Stall \/ Finish \/ Crash => ~At("place")'
  BY DEF Refuse, NewOrderRefused, AnswerLost, Invalid, Stall, Finish, Crash, Fails, Ends, At, Idle
<1>6. Tick \/ StepBack \/ ChangeOfLuck \/ Edit \/ Announce => ~At("place")'
  BY DEF Tick, StepBack, ChangeOfLuck, Edit, Announce, At
<1>7. NeighbourRefused => UNCHANGED <<pass, row, fb, lacks, now>>
  BY DEF NeighbourRefused, world
<1> QED
  BY <1>1, <1>2, <1>3, <1>4, <1>5, <1>6, <1>7, <1>8, <1>9 DEF Next, vars

(* The invariant *)

LEMMA InitIssuance == Init => IssuanceInv
<1> SUFFICES ASSUME Init PROVE IssuanceInv
  OBVIOUS
<1>1. Full \in Nat /\ 1 \in Times \ {0} /\ AfterFailures \in Nat
  BY DEF Full, Times
<1>2. WorldTypes /\ StoreTypes
  BY <1>1 DEF Init, WorldTypes, StoreTypes, Rows, Ledgers, NoFailure, Times
<1>3. MemoryTypes
  BY DEF Init, MemoryTypes, Passes, Idle, Pcs
<1>4. QuotaTypes /\ DeadlineShape /\ CaShape
  BY <1>1 DEF Init, QuotaTypes, Buckets, NoBucket, Never, DeadlineShape, CaShape, Real
<1>5. PassShape /\ RecordStands /\ DecisionShape
  BY DEF Init, PassShape, RecordStands, DecisionShape, At, Idle
<1>6. EstimateShape
  BY <1>1 DEF Init, EstimateShape, Counted, level, NoBucket, Never, Least, CaLevel, Real
<1> QED
  BY <1>2, <1>3, <1>4, <1>5, <1>6 DEF IssuanceInv

LEMMA StepIssuance == IssuanceInv /\ [Next]_vars => IssuanceInv'
<1> SUFFICES ASSUME IssuanceInv, [Next]_vars PROVE IssuanceInv'
  OBVIOUS
<1>1. /\ WorldTypes /\ StoreTypes /\ MemoryTypes /\ QuotaTypes /\ PassShape /\ DeadlineShape
      /\ CaShape /\ EstimateShape /\ RecordStands /\ DecisionShape
  BY DEF IssuanceInv
<1>2. WorldTypes' /\ StoreTypes' /\ MemoryTypes' /\ PassShape'
  BY <1>1, WorldTyped, StoreTyped, MemoryTyped, PassKept
<1>3. QuotaTypes' /\ CaShape' /\ DeadlineShape' /\ EstimateShape'
  BY <1>1, QuotaTyped, DeadlineKept, EstimateKept
<1>4. RecordStands' /\ DecisionShape'
  BY <1>1, RecordKept, DecisionKept
<1> QED
  BY <1>2, <1>3, <1>4 DEF IssuanceInv

\* IssuanceInv holds throughout (recordFailure, applyFallback, issue, the promotion and
\* the bookkeeping of the CA's limits, whatever fails between them).
THEOREM IssuanceInductive == Spec => []IssuanceInv
<1> QED
  BY InitIssuance, StepIssuance, PTL DEF Spec

\* Every variable keeps its type, and a pass works on an order for the names it decided on.
THEOREM IssuanceTyped == Spec => []TypeOK
<1>1. IssuanceInv => TypeOK
  <2> SUFFICES ASSUME IssuanceInv PROVE TypeOK
    OBVIOUS
  <2>1. WorldTypes /\ StoreTypes /\ MemoryTypes /\ PassShape
    BY DEF IssuanceInv
  <2> QED
    BY <2>1 DEF WorldTypes, StoreTypes, MemoryTypes, PassShape, TypeOK, Rows, Passes
<1> QED
  BY <1>1, IssuanceInductive, PTL

\* The estimate is never above what the CA has left, but for orders counted and not booked
\* (ratelimit.go:250), over clock steps, lost answers and restarts.
THEOREM EstimateIsSafe == Spec => []EstimateNeverAboveCA
<1>1. IssuanceInv => EstimateNeverAboveCA
  <2> SUFFICES ASSUME IssuanceInv PROVE EstimateNeverAboveCA
    OBVIOUS
  <2>1. WorldTypes /\ QuotaTypes /\ CaShape /\ EstimateShape
    BY DEF IssuanceInv
  <2>2. Real \in Int /\ now \in Nat /\ unbooked * Refill \in Nat
    BY <2>1 DEF WorldTypes, Times, QuotaTypes, Real
  <2>3. CaLevel(ca, Real) \in 0..Full
    BY <2>1, <2>2, CaBounds DEF QuotaTypes, CaShape
  <2>4. level(bucket, now) \in Int
    BY <2>1, <2>2, LevelMoves DEF QuotaTypes
  <2>6. Full \in Nat
    BY DEF Full
  <2>5. Remaining(bucket, now) = Greatest(0, Counted)
    BY DEF Remaining, Counted
  <2> QED
    BY <2>1, <2>2, <2>3, <2>4, <2>5, <2>6 DEF EstimateNeverAboveCA, EstimateShape, Counted, Greatest, Least
<1> QED
  BY <1>1, IssuanceInductive, PTL

\* No order is placed before the latest instant the CA named (BlockedUntil).
THEOREM LockoutIsKept == Spec => NoOrderWhileLockedOut
<1>1. IssuanceInv /\ [Next]_vars => [At("place") /\ pass'.pc = "book" => now >= told]_vars
  <2> SUFFICES ASSUME IssuanceInv, Next, At("place"), pass'.pc = "book" PROVE now >= told
    OBVIOUS
  <2>1. now \in Int /\ told \in Nat /\ bucket.reset \in Nat /\ told <= bucket.reset
    BY DEF IssuanceInv, WorldTypes, QuotaTypes, DeadlineShape, Times, Buckets
  <2>2. Place
    BY DEF Next, BeginPass, ApplyFallback, TakeOrder, Decide, Refuse, NewOrderRefused, AnswerLost, Book, Record,
           Validated, Invalid, Stall, Finish, Tick, StepBack, ChangeOfLuck, Edit, Announce, NeighbourRefused,
           Crash, Fails, Ends, Idle, At
  <2> QED
    BY <2>1, <2>2 DEF Place, Refused, Blocked
<1> QED
  BY <1>1, IssuanceInductive, PTL DEF Spec, NoOrderWhileLockedOut

\* The full set waits for the renewal window (reissueOnSANDrift, driftIsTheDegradation).
THEOREM FullSetAlwaysWaits == Spec => FullSetWaits
<1>1. IssuanceInv /\ [Next]_vars =>
        [At("place") /\ pass'.pc = "book" /\ pass.set = pass.cfg /\ lacks # {}
         /\ row.names = pass.cfg \ lacks /\ fb \in {{}, lacks} => now >= Due(row)]_vars
  BY DEF IssuanceInv, DecisionShape
<1> QED
  BY <1>1, IssuanceInductive, PTL DEF Spec, FullSetWaits

(* Time *)

\* What the steps of Time are about: integers, so that they can be added and compared.
TimeTypes ==
    /\ Quiet \in Int /\ DueBy \in Int /\ now \in Int /\ lost \in Nat /\ spent \in Nat
    /\ row.after \in Int /\ row.next \in Int /\ row.ari \in Int /\ row.fails \in Nat
    /\ caWindow \in Int /\ transient \in Int /\ bucket.reset \in Int
    /\ \A n \in Names : cool[n] \in Int /\ ledger[n].n \in Nat /\ ledger[n].at \in Int
    /\ {Life, RenewBefore, BeforeExpiry, Window, MaxMishaps, Refill, AfterFailures, MinFailures} \subseteq Nat
    /\ Refill >= 1 /\ AfterFailures >= 1 /\ MinFailures >= 1

LEMMA TimeIsTyped == IssuanceInv => TimeTypes
<1> SUFFICES ASSUME IssuanceInv PROVE TimeTypes
  OBVIOUS
<1>1. now \in Nat /\ lost \in Nat /\ caWindow \in Nat
  BY DEF IssuanceInv, WorldTypes, Times
<1>2. row.after \in Int /\ row.next \in Int /\ row.ari \in Int /\ row.fails \in Nat
  BY DEF IssuanceInv, StoreTypes, Rows
<1>3. transient \in Int /\ bucket.reset \in Int /\ spent \in Nat
  BY DEF IssuanceInv, MemoryTypes, QuotaTypes, Buckets
<1>4. \A n \in Names : cool[n] \in Int /\ ledger[n].n \in Nat /\ ledger[n].at \in Int
  BY DEF IssuanceInv, MemoryTypes, StoreTypes, Ledgers
<1> QED
  BY <1>1, <1>2, <1>3, <1>4 DEF TimeTypes, Quiet, DueBy

\* recordFailure moves the backoff by one or two units, counts, and leaves the rest alone.
LEMMA FailedIs ==
  ASSUME IssuanceInv, row' = Failed(row)
  PROVE  /\ row'.after = row.after /\ row'.names = row.names /\ row'.ari = row.ari
         /\ row'.fails = Least(row.fails + 1, AfterFailures)
         /\ row'.next \in {now + 1, now + 2}
<1>1. row \in Rows
  BY DEF IssuanceInv, StoreTypes
<1> QED
  BY <1>1 DEF Failed, Rows, Backoff

\* A step before and after which nothing unforeseen has happened since the issuance: it
\* leaves the certificate as it is, and a failure has been recorded.
SteadyStep ==
    /\ steady'
    /\ \/ BeginPass \/ ApplyFallback \/ TakeOrder \/ Decide \/ Place \/ Book \/ Record \/ Validated
       \/ Tick \/ ChangeOfLuck \/ Announce
       \/ (Refuse \/ Invalid) /\ row' = Failed(row) /\ UNCHANGED transient
       \/ UNCHANGED vars
LEMMA SteadySteps ==
  ASSUME BoundsShape, [Next]_vars, steady'
  PROVE  \/ /\ Finish /\ order' = {} /\ pass' = Idle
            /\ row' = [row EXCEPT !.names = order, !.after = now + Life, !.next = 0, !.ari = 0,
                                  !.fails = IF AllIssued THEN 0 ELSE @]
         \/ steady /\ SteadyStep
<1> USE DEF Mishap, Fine
<1>1. ~NewOrderRefused /\ ~AnswerLost /\ ~Stall /\ ~StepBack /\ ~Edit /\ ~NeighbourRefused /\ ~Crash
  BY DEF NewOrderRefused, AnswerLost, Stall, StepBack, Edit, NeighbourRefused, Crash
<1>2. TakeOrder \/ Decide \/ Place \/ Book \/ Validated \/ Tick \/ Announce \/ UNCHANGED vars => steady
  BY DEF TakeOrder, Decide, Place, Book, Validated, Tick, Announce, vars
<1>3. BeginPass \/ ApplyFallback \/ Record => steady
  BY DEF BeginPass, ApplyFallback, Record
<1>4. Refuse \/ Invalid => steady /\ row' = Failed(row) /\ UNCHANGED transient
  BY DEF Refuse, Invalid, Fails
<1>5. ChangeOfLuck => steady
  BY DEF ChangeOfLuck
<1>6. Finish => /\ order' = {} /\ pass' = Idle
                /\ row' = [row EXCEPT !.names = order, !.after = now + Life, !.next = 0, !.ari = 0,
                                      !.fails = IF AllIssued THEN 0 ELSE @]
  BY DEF Finish, Ends
<1> QED
  BY <1>1, <1>2, <1>3, <1>4, <1>5, <1>6 DEF Next, SteadyStep

\* What is waited for stays bounded by the clock that never runs back.
LEMMA BoundsKept ==
  ASSUME IssuanceInv, BoundsShape, [Next]_vars
  PROVE  BoundsShape'
<1>t. TimeTypes
  BY TimeIsTyped
<1>d. row \in Rows /\ ledger \in Ledgers /\ bucket \in Buckets
  BY DEF IssuanceInv, StoreTypes, QuotaTypes
<1>1. steady' \in BOOLEAN /\ ran' \in BOOLEAN
  BY DEF BoundsShape, Next, vars, BeginPass, ApplyFallback, TakeOrder, Decide, Refuse, Place, NewOrderRefused,
         AnswerLost, Book, Record, Validated, Invalid, Stall, Finish, Tick, StepBack, ChangeOfLuck, Edit,
         Announce, NeighbourRefused, Crash, Fails, Mishap, Fine
<1>2. now' + lost' >= now + lost /\ lost' <= spent' /\ spent' <= MaxMishaps
  <2>1. CASE StepBack
    BY <1>t, <2>1 DEF StepBack, Mishap, BoundsShape, TimeTypes
  <2>2. CASE Tick
    BY <1>t, <2>2 DEF Tick, Fine, BoundsShape, TimeTypes
  <2>3. CASE UNCHANGED <<now, lost, spent>> 
    BY <1>t, <2>3 DEF BoundsShape, TimeTypes
  <2>4. CASE UNCHANGED <<now, lost>> /\ spent < MaxMishaps /\ spent' = spent + 1
    BY <1>t, <2>4 DEF BoundsShape, TimeTypes
  <2>5. Next => \/ StepBack \/ Tick \/ UNCHANGED <<now, lost, spent>>
                \/ UNCHANGED <<now, lost>> /\ spent < MaxMishaps /\ spent' = spent + 1
    BY DEF Next, BeginPass, ApplyFallback, TakeOrder, Decide, Refuse, Place, NewOrderRefused,
           AnswerLost, Book, Record, Validated, Invalid, Stall, Finish, ChangeOfLuck, Edit,
           Announce, NeighbourRefused, Crash, Fails, Mishap, Fine, world
  <2> QED
    BY <2>1, <2>2, <2>3, <2>4, <2>5 DEF vars
<1>3. caWindow' \in {caWindow, now}
  BY DEF Next, vars, BeginPass, ApplyFallback, TakeOrder, Decide, Refuse, Place, NewOrderRefused,
         AnswerLost, Book, Record, Validated, Invalid, Stall, Finish, Tick, StepBack, ChangeOfLuck, Edit,
         Announce, NeighbourRefused, Crash, world
<1>4. transient' \in {transient, 0, Failed(row).next}
  BY DEF Next, vars, BeginPass, ApplyFallback, TakeOrder, Decide, Refuse, Place, NewOrderRefused,
         AnswerLost, Book, Record, Validated, Invalid, Stall, Finish, Tick, StepBack, ChangeOfLuck, Edit,
         Announce, NeighbourRefused, Crash, Fails
<1>5. Failed(row).next \in {now + 1, now + 2} /\ Failed(row).ari = row.ari
  BY <1>d DEF Failed, Rows, Backoff
<1>6. row'.next \in {row.next, 0, Failed(row).next} /\ row'.ari \in {row.ari, 0, caWindow}
  <2>1. CASE Decide
    BY <1>d, <2>1 DEF Decide, Asked, Rows
  <2>2. CASE Finish
    BY <1>d, <1>5, <2>2 DEF Finish, Rows
  <2>3. CASE row' = row \/ row' = Failed(row)
    BY <1>5, <2>3
  <2>4. Next => Decide \/ Finish \/ row' = row \/ row' = Failed(row)
    BY DEF Next, BeginPass, ApplyFallback, TakeOrder, Refuse, Place, NewOrderRefused,
           AnswerLost, Book, Record, Validated, Invalid, Stall, Tick, StepBack, ChangeOfLuck, Edit,
           Announce, NeighbourRefused, Crash, Fails, store
  <2> QED
    BY <2>1, <2>2, <2>3, <2>4 DEF vars
<1>7. \A n \in Names : cool'[n] \in {cool[n], 0, now + 1} /\ ledger'[n].at \in {ledger[n].at, 0, now}
  <2>1. CASE Invalid
    BY <1>d, <2>1 DEF Invalid, Booked, CoolFor, Ledgers, IssuanceInv, MemoryTypes
  <2>2. CASE Validated \/ Crash
    BY <2>2 DEF Validated, Crash, store
  <2>3. CASE ApplyFallback
    BY <2>3 DEF ApplyFallback, NoFailure
  <2>4. CASE Finish
    BY <2>4 DEF Finish, NoFailure
  <2>5. Next => Invalid \/ Validated \/ Crash \/ ApplyFallback \/ Finish \/ UNCHANGED <<cool, ledger>>
    BY DEF Next, BeginPass, TakeOrder, Decide, Refuse, Place, NewOrderRefused, AnswerLost, Book, Record,
           Stall, Tick, StepBack, ChangeOfLuck, Edit, Announce, NeighbourRefused, store
  <2> QED
    BY <2>1, <2>2, <2>3, <2>4, <2>5 DEF vars
<1>8. bucket'.reset <= bucket.reset \/ bucket'.reset <= now + lost + Refill
  <2>1. CASE NewOrderRefused
    <3>1. PICK paused \in BOOLEAN, at \in Instants : bucket' = NoteDeadline(bucket, Deadline(paused, at))
      BY <2>1 DEF NewOrderRefused
    <3>2. at \in Int /\ at <= now + lost + Refill
      BY <1>t DEF Instants, TimeTypes, Real, IssuanceInv, WorldTypes, Times
    <3>3. Deadline(paused, at) \in Int /\ Deadline(paused, at) <= now + lost + Refill
      BY <1>t, <3>2 DEF Deadline, PauseFloor, Greatest, TimeTypes
    <3>4. bucket'.reset = Greatest(Deadline(paused, at), bucket.reset)
      BY <1>d, <3>1 DEF NoteDeadline, Buckets
    <3> QED
      BY <1>t, <3>3, <3>4 DEF Greatest, TimeTypes
  <2>2. CASE NeighbourRefused
    <3>1. PICK at \in Instants : bucket' = NoteDeadline(bucket, at)
      BY <2>2 DEF NeighbourRefused
    <3>2. at \in Int /\ at <= now + lost + Refill
      BY <1>t DEF Instants, TimeTypes, Real, IssuanceInv, WorldTypes, Times
    <3>4. bucket'.reset = Greatest(at, bucket.reset)
      BY <1>d, <3>1 DEF NoteDeadline, Buckets
    <3> QED
      BY <1>t, <3>2, <3>4 DEF Greatest, TimeTypes
  <2>3. CASE Book
    BY <1>d, <1>t, <2>3 DEF Book, Spend, Buckets, TimeTypes
  <2>4. Next => NewOrderRefused \/ NeighbourRefused \/ Book \/ UNCHANGED bucket
    BY DEF Next, BeginPass, ApplyFallback, TakeOrder, Decide, Refuse, Place, AnswerLost, Record, Validated, Invalid,
           Stall, Finish, Tick, StepBack, ChangeOfLuck, Edit, Announce, Crash, store
  <2> QED
    BY <1>t, <2>1, <2>2, <2>3, <2>4 DEF vars, TimeTypes
<1>p. PICK t, l : now' = t /\ lost' = l
  OBVIOUS
<1> USE <1>p
<1>9. now' \in Int /\ lost' \in Nat /\ bucket'.reset \in Int /\ now \in Nat
  <2>1. IssuanceInv'
    BY StepIssuance
  <2> QED
    BY <2>1 DEF IssuanceInv, WorldTypes, QuotaTypes, Buckets, Times
<1>10. transient' <= now' + lost' + 2 /\ row'.next <= now' + lost' + 2
  <2>1. transient' \in {transient, 0, now + 1, now + 2} /\ row'.next \in {row.next, 0, now + 1, now + 2}
    BY <1>4, <1>5, <1>6
  <2>2. transient <= now' + lost' + 2 /\ row.next <= now' + lost' + 2
    BY <1>t, <1>2, <1>9 DEF BoundsShape, TimeTypes
  <2>3. 0 <= now' + lost' + 2 /\ now + 1 <= now' + lost' + 2 /\ now + 2 <= now' + lost' + 2
    BY <1>t, <1>2, <1>9 DEF TimeTypes
  <2> QED
    BY <2>1, <2>2, <2>3
<1>11. row'.ari <= now' + lost' /\ caWindow' <= now' + lost' /\ bucket'.reset <= now' + lost' + Refill
  <2>1. row.ari <= now' + lost' /\ caWindow <= now' + lost' /\ 0 <= now' + lost' /\ now <= now' + lost'
    BY <1>t, <1>2, <1>9 DEF BoundsShape, TimeTypes
  <2>2. bucket'.reset <= now' + lost' + Refill
    BY <1>t, <1>2, <1>8, <1>9 DEF BoundsShape, TimeTypes
  <2> QED
    BY <1>3, <1>6, <2>1, <2>2
<1>12. \A n \in Names : cool'[n] <= now' + lost' + 1 /\ ledger'[n].at <= now' + lost'
  <2> SUFFICES ASSUME NEW n \in Names PROVE cool'[n] <= now' + lost' + 1 /\ ledger'[n].at <= now' + lost'
    OBVIOUS
  <2>1. cool[n] <= now' + lost' + 1 /\ ledger[n].at <= now' + lost' /\ 0 <= now' + lost' /\ now <= now' + lost'
    BY <1>t, <1>2, <1>9 DEF BoundsShape, TimeTypes
  <2>2. 0 <= now' + lost' + 1 /\ now + 1 <= now' + lost' + 1
    BY <1>t, <1>9, <2>1 DEF TimeTypes
  <2> QED
    BY <1>7, <2>1, <2>2
<1> QED
  BY <1>1, <1>2, <1>10, <1>11, <1>12 DEF BoundsShape

\* A pass begins only when nothing is waited for, and time stands still until it ends.
LEMMA BegunKept ==
  ASSUME IssuanceInv, BegunShape, [Next]_vars
  PROVE  BegunShape'
<1>d. row \in Rows /\ pass \in Passes /\ PassShape
  BY DEF IssuanceInv, StoreTypes, MemoryTypes
<1>1. Names # {} => row'.names # {} /\ cfg'.names # {}
  <2>1. CASE Finish
    <3>1. order = pass.set /\ pass.cfg = cfg.names /\ (pass.cfg # {} => pass.set # {}) /\ cfg' = cfg
      BY <1>d, <2>1 DEF PassShape, Finish, At, world
    <3>2. row'.names \in {order, row.names}
      BY <1>d, <2>1 DEF Finish, Rows, Failed
    <3> QED
      BY <3>1, <3>2 DEF BegunShape
  <2>2. CASE Edit
    BY <2>2 DEF Edit, store, BegunShape
  <2>3. CASE Decide
    BY <1>d, <2>3 DEF Decide, BegunShape, Rows, world
  <2>4. CASE cfg' = cfg /\ row' \in {row, Failed(row)}
    BY <1>d, <2>4 DEF BegunShape, Failed, Rows
  <2>5. Refuse \/ NewOrderRefused \/ AnswerLost \/ Invalid \/ Stall \/ Record
          => cfg' = cfg /\ row' \in {row, Failed(row)}
    BY DEF Refuse, NewOrderRefused, AnswerLost, Record, Invalid, Stall, Fails, world
  <2>6. BeginPass \/ ApplyFallback \/ TakeOrder \/ Place \/ Book \/ Validated \/ Tick \/ StepBack
        \/ ChangeOfLuck \/ Announce \/ NeighbourRefused \/ Crash => cfg' = cfg /\ row' = row
    BY DEF BeginPass, ApplyFallback, TakeOrder, Place, Book, Validated, Tick, StepBack, ChangeOfLuck,
           Announce, NeighbourRefused, Crash, store, world
  <2> QED
    BY <2>1, <2>2, <2>3, <2>4, <2>5, <2>6 DEF Next, vars, BegunShape
<1>2. At("idle")' \/ (pass'.policy = cfg'.policy /\ row'.next <= now' /\ transient' <= now')
  <2>1. CASE BeginPass
    <3>1. CASE Waits
      BY <2>1, <3>1 DEF BeginPass, At
    <3>2. CASE ~Waits
      <4>1. (pass'.policy = cfg.policy /\ UNCHANGED <<cfg, row, now, transient>>) \/ UNCHANGED pass
        BY <2>1 DEF BeginPass, Idle, world, store
      <4>2. row.next <= now /\ transient <= now
        BY <3>2, TimeIsTyped DEF Waits, TimeTypes
      <4> QED
        BY <2>1, <4>1, <4>2 DEF BeginPass, At
    <3> QED
      BY <3>1, <3>2
  <2>2. CASE pass' = Idle \/ (At("idle") /\ UNCHANGED pass)
    BY <2>2 DEF Idle, At
  <2>3. CASE /\ ~At("idle") /\ UNCHANGED <<cfg, now, transient>> /\ row'.next = row.next
             /\ pass'.policy = pass.policy
    BY <2>3 DEF BegunShape
  <2>4. CASE UNCHANGED <<pass, cfg, row, now, transient>>
    BY <2>4 DEF BegunShape, At
  <2>5. Tick \/ StepBack \/ ChangeOfLuck \/ Edit \/ Announce => At("idle") /\ UNCHANGED pass
    BY DEF Tick, StepBack, ChangeOfLuck, Edit, Announce
  <2>6. Refuse \/ NewOrderRefused \/ AnswerLost \/ Invalid \/ Stall \/ Finish \/ Crash => pass' = Idle
    BY DEF Refuse, NewOrderRefused, AnswerLost, Invalid, Stall, Finish, Crash, Fails, Ends
  <2>7. TakeOrder \/ Place \/ Book \/ Record \/ Validated
          => \/ pass' = Idle
             \/ ~At("idle") /\ UNCHANGED <<cfg, now, transient, row>> /\ pass'.policy = pass.policy
    BY <1>d DEF TakeOrder, Place, Book, Record, Validated, Goes, Ends, At, world, store, Passes
  <2>8. ApplyFallback => ~At("idle") /\ UNCHANGED <<cfg, now, transient, row>> /\ pass'.policy = pass.policy
    BY <1>d DEF ApplyFallback, At, world, Passes
  <2>9. Decide => \/ pass' = Idle
                  \/ /\ ~At("idle") /\ UNCHANGED <<cfg, now, transient>> /\ row'.next = row.next
                     /\ pass'.policy = pass.policy
    BY <1>d DEF Decide, Goes, Ends, At, world, Passes, Rows
  <2>10. NeighbourRefused => UNCHANGED <<pass, cfg, row, now, transient>>
    BY DEF NeighbourRefused, world
  <2> QED
    BY <2>1, <2>2, <2>3, <2>4, <2>5, <2>6, <2>7, <2>8, <2>9, <2>10 DEF Next, vars
<1> QED
  BY <1>1, <1>2 DEF BegunShape

\* What the fallback still waits for is one of its two limits at most.
ShortFacts(n) ==
    /\ Short(n) \in Nat /\ 2 * Short(n) < RenewBefore /\ Evidence(n) \in Nat
    /\ Short(n) = 0 => row.fails >= AfterFailures /\ Evidence(n) >= MinFailures
LEMMA ShortIs == Timely /\ TimeTypes => \A n \in Names : ShortFacts(n)
<1> SUFFICES ASSUME Timely, TimeTypes, NEW n \in Names PROVE ShortFacts(n)
  OBVIOUS
<1>1. Evidence(n) \in Nat
  BY DEF Evidence, TimeTypes
<1>2. Short(n) \in Nat /\ (Short(n) <= AfterFailures \/ Short(n) <= MinFailures)
  BY <1>1 DEF Short, Greatest, TimeTypes
<1>3. Short(n) = 0 => row.fails >= AfterFailures /\ Evidence(n) >= MinFailures
  BY <1>1 DEF Short, Greatest, TimeTypes
<1> QED
  BY <1>1, <1>2, <1>3 DEF Timely, TimeTypes, ShortFacts

\* Both hold after a step as they do before it.
LEMMA TimeIsTypedAfter == IssuanceInv' => TimeTypes'
BY TimeIsTyped, PTL
LEMMA ShortIsAfter == Timely /\ TimeTypes' => \A n \in Names : ShortFacts(n)'
<1>1. (Timely /\ TimeTypes)' => (\A n \in Names : ShortFacts(n))'
  BY ShortIs, PTL
<1> QED
  BY <1>1 DEF Timely

\* What dates from before the issuance is over when the certificate is due, and evidence
\* from then is out of its window when the fallback begins.
LEMMA QuietIsOver ==
  ASSUME Timely, TimeTypes
  PROVE  Quiet + Refill < DueBy /\ Quiet + 1 < DueBy /\ Quiet + Window <= row.after - BeforeExpiry
BY DEF Timely, TimeTypes, Quiet, DueBy

\* So a pass that has decided to order a due certificate is not refused.
LEMMA NotRefused ==
  ASSUME Timely, IssuanceInv, BegunShape, Settled, At("place"), now >= DueBy - 1
  PROVE  ~Refused
<1>t. TimeTypes
  BY TimeIsTyped
<1>1. Quiet + Refill <= now /\ Quiet + 1 <= now /\ row.next <= now
  BY <1>t, QuietIsOver DEF BegunShape, At, TimeTypes
<1>2. \A n \in Names : cool[n] <= now /\ (ledger[n].n = 0 \/ ledger[n].at + 1 <= now)
  BY <1>t, <1>1 DEF Settled, Past, TimeTypes
<1>3. bucket.reset <= now
  BY <1>t, <1>1 DEF Settled, Past, TimeTypes
<1>4. pass.set \subseteq Names
  BY DEF IssuanceInv, MemoryTypes, Passes
<1> QED
  BY <1>t, <1>2, <1>3, <1>4 DEF Refused, CoolingDown, CoolFor, Blocked, TimeTypes

\* Where a fresh certificate leaves things: everything still waited for is from before it.
Issued ==
    /\ row.after = now + Life /\ row.next = 0 /\ row.ari = 0
    /\ order = {} /\ At("idle")
LEMMA JustIssued ==
  Timely => (IssuanceInv /\ BoundsShape /\ Issued => Settled /\ Fresh /\ Countdown)
<1> SUFFICES ASSUME Timely, IssuanceInv, BoundsShape, Issued PROVE Settled /\ Fresh /\ Countdown
  OBVIOUS
<1>t. TimeTypes
  BY TimeIsTyped
<1>1. now >= 1
  BY DEF IssuanceInv, WorldTypes, Times
<1>2. Quiet = now + MaxMishaps /\ DueBy = now + Life - RenewBefore /\ lost <= MaxMishaps
  BY <1>t DEF Quiet, DueBy, Issued, TimeTypes, BoundsShape
<1>3. Settled
  <2>1. Past(transient, 2) /\ Past(bucket.reset, Refill) /\ Past(caWindow, 0) /\ Past(row.ari, 0)
    BY <1>t, <1>1, <1>2 DEF Past, BoundsShape, TimeTypes, Issued
  <2>2. \A n \in Names : Past(cool[n], 1) /\ Past(ledger[n].at + 1, 1)
    BY <1>t, <1>1, <1>2 DEF Past, BoundsShape, TimeTypes
  <2> QED
    BY <2>1, <2>2 DEF Settled, Issued
<1>4. \A n \in Names : Old(n)
  BY <1>t, <1>2 DEF Old, BoundsShape, TimeTypes
<1>5. now < DueBy - MaxMishaps /\ row.next <= now
  BY <1>t, <1>1, <1>2 DEF Timely, Issued, TimeTypes
<1>6. Fresh
  BY <1>t, <1>4, <1>5 DEF Fresh, TimeTypes
<1>7. ASSUME NEW n \in Names PROVE Evidence(n) = 0
  <2>1. ledger[n].n = 0 \/ ledger[n].at < DueBy - 1
    BY <1>t, <1>2, <1>4 DEF Old, Timely, TimeTypes
  <2> QED
    BY <1>t, <2>1 DEF Evidence, TimeTypes
<1>8. ASSUME NEW n \in Names PROVE now <= LastStart(n) /\ row.next <= LastStart(n)
  <2>1. Short(n) \in Nat /\ 2 * Short(n) < RenewBefore
    BY <1>t, ShortIs DEF ShortFacts
  <2> QED
    BY <1>t, <1>5, <2>1 DEF LastStart, Issued, TimeTypes, DueBy
<1>9. Countdown
  BY <1>t, <1>5, <1>7, <1>8 DEF Countdown, NoneBroken, Recent, EnoughTime, NotOrdered, Issued, At, TimeTypes
<1> QED
  BY <1>3, <1>6, <1>9

\* What a steady step does to time and to the row.
LEMMA SteadyRow ==
  ASSUME IssuanceInv, SteadyStep
  PROVE  /\ row'.after = row.after /\ row'.names = row.names
         /\ IF Refuse \/ Invalid
            THEN now' = now /\ row'.next \in {now + 1, now + 2} /\ row'.fails = Least(row.fails + 1, AfterFailures)
            ELSE row'.next = row.next /\ row'.fails = row.fails
         /\ row'.ari \in {row.ari, caWindow}
         /\ now' = now \/ (Tick /\ now' = now + 1)
<1>d. row \in Rows
  BY DEF IssuanceInv, StoreTypes
<1>1. CASE Refuse \/ Invalid
  <2>1. row' = Failed(row)
    BY <1>1 DEF SteadyStep, Refuse, Invalid, Fails, Mishap
  <2> QED
    BY <1>1, <2>1, FailedIs DEF Refuse, Invalid, world
<1>2. CASE Decide /\ ~(Refuse \/ Invalid)
  BY <1>d, <1>2 DEF Decide, Asked, Rows, world
<1>3. CASE Tick /\ ~(Refuse \/ Invalid)
  BY <1>3 DEF Tick, store
<1>4. BeginPass \/ ApplyFallback \/ TakeOrder \/ Place \/ Book \/ Validated \/ ChangeOfLuck \/ Announce \/ UNCHANGED vars
        => UNCHANGED <<row, now>>
  BY DEF BeginPass, ApplyFallback, TakeOrder, Place, Book, Validated, ChangeOfLuck, Announce, store, world, vars
<1>5. Record /\ steady' => UNCHANGED <<row, now>>
  BY DEF Record, world, Mishap
<1> QED
  BY <1>1, <1>2, <1>3, <1>4, <1>5 DEF SteadyStep

\* What is waited for dates from before the issuance or from a failure, step by step.
LEMMA SettledKept ==
  ASSUME Timely, IssuanceInv, IssuanceInv', BegunShape, Settled, SteadyStep
  PROVE  Settled'
<1>t. TimeTypes
  BY TimeIsTyped
<1>d. ledger \in Ledgers /\ pass \in Passes /\ bucket \in Buckets /\ cool \in [Names -> Int]
  BY DEF IssuanceInv, StoreTypes, MemoryTypes, QuotaTypes
<1>p. PICK t, r : now' = t /\ row' = r
  OBVIOUS
<1>1. /\ row'.after = row.after /\ row'.ari \in {row.ari, caWindow}
      /\ row'.next = row.next \/ row'.next \in {now + 1, now + 2}
      /\ now' \in {now, now + 1}
  BY SteadyRow
<1>2. \A x, s \in Int : Past(x, s) => (x <= now' \/ x <= Quiet' + s)
  BY <1>t, <1>p, <1>1 DEF Past, Quiet, TimeTypes
<1>3. \A x \in Int : x <= now => x <= now'
  BY <1>t, <1>p, <1>1 DEF TimeTypes
<1>4. Past(transient, 2)' /\ Past(bucket.reset, Refill)' /\ Past(caWindow, 0)' /\ Past(row.ari, 0)'
  <2>1. transient' = transient \/ transient' = 0
    BY DEF SteadyStep, BeginPass, ApplyFallback, TakeOrder, Decide, Place, Book, Record, Validated,
           Tick, ChangeOfLuck, Announce, Mishap, vars
  <2>2. bucket'.reset = bucket.reset
    <3>1. Book => bucket'.reset = bucket.reset
      BY <1>d DEF Book, Spend, Buckets
    <3> QED
      BY <3>1 DEF SteadyStep, BeginPass, ApplyFallback, TakeOrder, Decide, Place, Record, Validated,
           Tick, ChangeOfLuck, Announce, Refuse, Invalid, store, vars
  <2>3. caWindow' = caWindow \/ caWindow' = now
    BY DEF SteadyStep, BeginPass, ApplyFallback, TakeOrder, Decide, Place, Book, Record, Validated,
           Tick, ChangeOfLuck, Announce, Refuse, Invalid, world, vars
  <2>4. 0 <= now /\ now <= now
    BY DEF IssuanceInv, WorldTypes, Times
  <2>5. Past(row.ari, 0)'
    BY <1>t, <1>1, <1>2, <1>3, <2>4 DEF Past, Settled, TimeTypes
  <2>6. Past(caWindow, 0)'
    BY <1>t, <1>1, <1>2, <1>3, <2>3, <2>4 DEF Past, Settled, TimeTypes
  <2>7. Past(transient, 2)'
    BY <1>t, <1>1, <1>2, <1>3, <2>1, <2>4 DEF Past, Settled, TimeTypes
  <2>8. Past(bucket.reset, Refill)'
    BY <1>t, <1>1, <1>2, <1>3, <2>2, <2>4 DEF Past, Settled, TimeTypes
  <2> QED
    BY <2>5, <2>6, <2>7, <2>8
<1>5. row'.next = row.next \/ (now' = now /\ row.next <= now /\ row'.next \in {now + 1, now + 2})
  <2>1. Refuse \/ Invalid => ~At("idle")
    BY DEF Refuse, Invalid, At
  <2> QED
    BY <2>1, SteadyRow DEF BegunShape
<1>6. \A n \in Names : cool'[n] \in {cool[n], 0} \/ (cool'[n] = now + 1 /\ row'.next > now)
  <2>1. CASE Invalid
    <3>1. row'.next > now
      BY <1>t, <2>1, <1>p, SteadyRow DEF TimeTypes
    <3> QED
      BY <1>d, <2>1, <3>1 DEF Invalid, CoolFor
  <2>2. SteadyStep => Invalid \/ Validated \/ UNCHANGED cool
    BY DEF SteadyStep, BeginPass, ApplyFallback, TakeOrder, Decide, Place, Book, Record, Refuse,
           Tick, ChangeOfLuck, Announce, vars
  <2> QED
    BY <2>1, <2>2 DEF Validated
<1>7. \A n \in Names : ledger'[n] = ledger[n] \/ ledger'[n].n = 0 \/ (ledger'[n].at = now /\ row'.next > now)
  <2>1. CASE Invalid
    <3>1. row'.next > now
      BY <1>t, <2>1, <1>p, SteadyRow DEF TimeTypes
    <3> QED
      BY <1>d, <2>1, <3>1 DEF Invalid, Booked
  <2>2. CASE ApplyFallback
    BY <2>2 DEF ApplyFallback, NoFailure
  <2>3. SteadyStep => Invalid \/ ApplyFallback \/ UNCHANGED ledger
    BY DEF SteadyStep, BeginPass, TakeOrder, Decide, Place, Book, Record, Validated, Refuse,
           Tick, ChangeOfLuck, Announce, store, vars
  <2> QED
    BY <2>1, <2>2, <2>3
<1>8. ASSUME NEW n \in Names
      PROVE  /\ Past(cool[n], 1)' \/ cool'[n] <= row'.next
             /\ ledger'[n].n = 0 \/ Past(ledger[n].at + 1, 1)' \/ ledger'[n].at + 1 <= row'.next
  <2>0. 0 <= now /\ row'.next \in Int
    BY <1>t, <1>1 DEF IssuanceInv, WorldTypes, Times, TimeTypes
  <2>1. \A x \in Int : x <= row.next => x <= row'.next \/ x <= now'
    BY <1>t, <1>p, <1>5 DEF TimeTypes
  <2>2. Past(cool[n], 1) \/ cool[n] <= row.next
    BY DEF Settled
  <2>3. Past(cool[n], 1)' \/ cool'[n] <= row'.next
    <3>1. CASE cool'[n] = cool[n]
      BY <1>t, <1>2, <2>1, <2>2, <3>1 DEF Past, TimeTypes
    <3>2. CASE cool'[n] = 0
      BY <1>t, <1>3, <2>0, <3>2 DEF Past
    <3>3. CASE cool'[n] = now + 1 /\ row'.next > now
      BY <1>t, <1>p, <2>0, <3>3 DEF TimeTypes
    <3> QED
      BY <1>6, <3>1, <3>2, <3>3
  <2>4. ledger'[n].n = 0 \/ Past(ledger[n].at + 1, 1)' \/ ledger'[n].at + 1 <= row'.next
    <3>1. CASE ledger'[n] = ledger[n]
      <4>1. ledger[n].at + 1 \in Int
        BY <1>t DEF TimeTypes
      <4> QED
        BY <1>2, <2>1, <3>1, <4>1 DEF Past, Settled
    <3>2. CASE ledger'[n].at = now /\ row'.next > now
      BY <1>t, <1>p, <2>0, <3>2 DEF TimeTypes
    <3> QED
      BY <1>7, <3>1, <3>2
  <2> QED
    BY <2>3, <2>4
<1>9. order' # {} => At("solve")' \/ At("finish")'
  <2>1. CASE TakeOrder \/ Record
    BY <1>d, <2>1 DEF TakeOrder, Record, Goes, At, SteadyStep, Mishap, Passes, Ends, Settled
  <2>2. CASE Invalid
    BY <2>2 DEF Invalid
  <2>3. CASE Validated
    BY <1>d, <2>3 DEF Validated, Goes, At, Passes
  <2>4. BeginPass \/ ApplyFallback \/ Decide \/ Place \/ Book \/ Refuse \/ Tick \/ ChangeOfLuck \/ Announce
          => order' = order /\ ~At("solve") /\ ~At("finish")
    BY DEF BeginPass, ApplyFallback, Decide, Place, Book, Refuse, Tick, ChangeOfLuck, Announce, At, store
  <2> QED
    BY <2>1, <2>2, <2>3, <2>4 DEF SteadyStep, Settled, vars, At
<1>10. At("idle")' \/ ~pass'.unknown
  <2>1. CASE BeginPass
    BY <1>d, <2>1 DEF BeginPass, Idle, SteadyStep, Mishap, Settled, At, Passes
  <2>2. CASE pass' = Idle \/ UNCHANGED pass
    BY <2>2 DEF Idle, At, Settled
  <2>3. CASE ~At("idle") /\ pass'.unknown = pass.unknown
    BY <2>3 DEF Settled
  <2>4. TakeOrder \/ Place \/ Book \/ Record \/ Validated \/ Decide \/ ApplyFallback
          => pass' = Idle \/ (~At("idle") /\ pass'.unknown = pass.unknown)
    BY <1>d DEF TakeOrder, Place, Book, Record, Validated, Decide, ApplyFallback, Goes, Ends, At, Passes
  <2>5. Refuse \/ Invalid => pass' = Idle
    BY DEF Refuse, Invalid, Fails, Ends
  <2>6. Tick \/ ChangeOfLuck \/ Announce \/ UNCHANGED vars => UNCHANGED pass
    BY DEF Tick, ChangeOfLuck, Announce, vars
  <2> QED
    BY <2>1, <2>2, <2>3, <2>4, <2>5, <2>6 DEF SteadyStep
<1> QED
  BY <1>4, <1>8, <1>9, <1>10 DEF Settled

\* Only a failure makes evidence, and a pass that is due fails or goes on.
LEMMA FreshKept ==
  ASSUME Timely, IssuanceInv, IssuanceInv', BegunShape, Settled, Settled', Fresh, SteadyStep
  PROVE  Fresh'
<1>t. TimeTypes
  BY TimeIsTyped
<1>d. ledger \in Ledgers /\ pass \in Passes /\ row \in Rows
  BY DEF IssuanceInv, StoreTypes, MemoryTypes
<1>p. PICK t, r : now' = t /\ row' = r
  OBVIOUS
<1>1. /\ row'.after = row.after
      /\ IF Refuse \/ Invalid
         THEN now' = now /\ row'.next \in {now + 1, now + 2} /\ row'.fails = Least(row.fails + 1, AfterFailures)
         ELSE row'.next = row.next /\ row'.fails = row.fails
      /\ now' = now \/ (Tick /\ now' = now + 1)
  BY SteadyRow
<1>2. Quiet' = Quiet /\ DueBy' = DueBy
  BY <1>1 DEF Quiet, DueBy
<1>3. \A n \in Names : ledger'[n] = ledger[n] \/ ledger'[n].n = 0 \/ (Invalid /\ n \in broken /\ broken' = broken)
  <2>1. CASE Invalid
    BY <1>d, <2>1 DEF Invalid, Booked, world
  <2>2. CASE ApplyFallback
    BY <2>2 DEF ApplyFallback, NoFailure
  <2>3. SteadyStep => Invalid \/ ApplyFallback \/ UNCHANGED ledger
    BY DEF SteadyStep, BeginPass, TakeOrder, Decide, Place, Book, Record, Validated, Refuse,
           Tick, ChangeOfLuck, Announce, store, vars
  <2> QED
    BY <2>1, <2>2, <2>3
<1>4. ASSUME row'.fails = 0 PROVE row'.next <= now' /\ now' <= DueBy' /\ \A n \in Names : Old(n)'
  <2>1. ~(Refuse \/ Invalid) /\ row.fails = 0 /\ row'.next = row.next
    BY <1>t, <1>1, <1>4 DEF Least, TimeTypes
  <2>2. row.next <= now /\ now <= DueBy /\ \A n \in Names : Old(n)
    BY <2>1 DEF Fresh
  <2>3. row'.next <= now' /\ now' <= DueBy
    <3>1. CASE now' = now
      BY <2>1, <2>2, <3>1
    <3>2. CASE Tick /\ now' = now + 1
      <4>1. ~(now >= DueBy)
        BY <1>t, <2>2, <3>2 DEF Tick, Fresh, TimeTypes
      <4> QED
        BY <1>t, <1>p, <2>1, <2>2, <3>2, <4>1 DEF TimeTypes
    <3> QED
      BY <1>1, <3>1, <3>2
  <2> QED
    BY <1>2, <1>3, <2>1, <2>2, <2>3 DEF Old
<1>5. ASSUME NEW n \in Names \ broken' PROVE Old(n)'
  <2>1. CASE ChangeOfLuck
    <3>1. row.fails = 0 /\ UNCHANGED ledger
      BY <2>1 DEF ChangeOfLuck, SteadyStep, store
    <3> QED
      BY <1>2, <3>1 DEF Fresh, Old
  <2>2. CASE broken' = broken
    BY <1>2, <1>3, <1>5, <2>2 DEF Fresh, Old
  <2>3. SteadyStep => ChangeOfLuck \/ broken' = broken
    BY DEF SteadyStep, BeginPass, ApplyFallback, TakeOrder, Decide, Place, Book, Record, Validated,
           Tick, Announce, Refuse, Invalid, world, vars
  <2> QED
    BY <2>1, <2>2, <2>3
<1>6. ASSUME At("idle")', ran', now' >= DueBy' PROVE now' < row'.next
  <2>1. CASE BeginPass
    <3>1. Waits /\ UNCHANGED <<now, row>>
      BY <1>d, <1>6, <2>1 DEF BeginPass, At, Idle, world, store
    <3>2. transient <= now
      BY <1>t, <1>2, <1>6, <3>1, QuietIsOver DEF Settled, Past, TimeTypes
    <3> QED
      BY <1>t, <3>1, <3>2 DEF Waits, TimeTypes
  <2>2. CASE Decide
    <3>0. Goes("place") => pass'.pc = "place"
      BY <1>d DEF Goes, Passes
    <3>5. ~(now >= Due(row')) /\ now' = now
      BY <1>6, <2>2, <3>0 DEF Decide, At, world
    <3>6. row'.ari \in Int /\ Quiet \in Int /\ row'.after \in Int
      BY <1>t, <1>1 DEF TimeTypes, IssuanceInv, StoreTypes, Rows
    <3>1. now < Due(row') /\ now' = now
      BY <1>t, <3>5, <3>6 DEF Due, TimeTypes
    <3>2. row'.ari # 0 /\ now < row'.ari
      BY <1>t, <1>1, <1>2, <1>6, <3>1 DEF Due, DueBy, TimeTypes
    <3>3. row'.ari <= now' \/ row'.ari <= Quiet'
      <4>1. Past(row.ari, 0)'
        BY DEF Settled
      <4> QED
        BY <1>p, <1>2, <3>6, <4>1 DEF Past
    <3>4. Quiet + 1 < DueBy
      BY <1>t, QuietIsOver
    <3>7. DueBy <= now
      BY <1>t, <1>2, <1>6, <3>1 DEF TimeTypes
    <3> QED
      BY <1>t, <1>2, <3>1, <3>2, <3>3, <3>4, <3>6, <3>7 DEF TimeTypes
  <2>3. CASE Refuse \/ Invalid
    BY <1>t, <1>1, <1>p, <2>3 DEF TimeTypes
  <2>4. CASE ChangeOfLuck \/ Announce \/ UNCHANGED vars
    <3>1. UNCHANGED <<now, row, pass, ran>>
      BY <2>4 DEF ChangeOfLuck, Announce, store, vars
    <3> QED
      BY <1>2, <1>6, <3>1 DEF Fresh, At
  <2>5. ~Tick
    BY <1>6 DEF Tick
  <2>6. TakeOrder \/ Place \/ Book \/ Validated \/ ApplyFallback \/ Record => ~At("idle")'
    BY <1>d DEF TakeOrder, Place, Book, Validated, ApplyFallback, Record, Goes, At, Passes, SteadyStep, Mishap
  <2> QED
    BY <1>6, <2>1, <2>2, <2>3, <2>4, <2>5, <2>6 DEF SteadyStep
<1> QED
  BY <1>4, <1>5, <1>6 DEF Fresh

\* The countdown reads the row, the ledger, the clock and what is broken; a pass that goes
\* on orders what it ordered.
LEMMA CountdownSame ==
  ASSUME Countdown, UNCHANGED <<now, broken, cfg, ledger>>,
         row'.after = row.after, row'.fails = row.fails, row'.next = row.next,
         \/ pass'.pc \in {"idle", "apply"}
         \/ pass.pc \notin {"idle", "apply"} /\ pass'.set = pass.set
  PROVE  Countdown'
<1>1. /\ DueBy' = DueBy
      /\ \A n : Evidence(n)' = Evidence(n)
  BY DEF DueBy, Evidence
<1>2. \A n : Short(n)' = Short(n) /\ LastStart(n)' = LastStart(n)
  BY <1>1 DEF Short, LastStart
<1>3. NoneBroken'
  BY <1>1 DEF Countdown, NoneBroken
<1>4. ASSUME NEW n \in Names, Only(n)' PROVE (Recent(n) /\ EnoughTime(n) /\ NotOrdered(n))'
  <2>1. Recent(n) /\ EnoughTime(n) /\ NotOrdered(n) /\ Promised' = Promised
    BY <1>4 DEF Countdown, Only, Promised
  <2> QED
    BY <1>1, <1>2, <2>1 DEF Recent, EnoughTime, NotOrdered
<1> QED
  BY <1>3, <1>4 DEF Countdown

\* The name whose evidence is complete is dropped, near expiry, by the pass that looks.
LEMMA BadIsDropped ==
  ASSUME Timely, IssuanceInv, BegunShape, Fresh, Countdown, At("apply"),
         NEW n \in Names, Only(n), Promised, Short(n) = 0, now >= row.after - BeforeExpiry,
         NEW held
  PROVE  n \in Dropped(held)
<1>t. TimeTypes
  BY TimeIsTyped
<1>0. pass.cfg = cfg.names /\ pass.policy /\ n \in cfg.names /\ row.names # {}
  BY DEF IssuanceInv, PassShape, BegunShape, At, Promised, Only
<1>1. row.fails >= AfterFailures /\ Evidence(n) >= MinFailures
  BY <1>t, ShortIs DEF ShortFacts
<1>2. n \in Bad
  <2>1. ledger[n].n >= MinFailures /\ Evidence(n) > 0
    BY <1>t, <1>1 DEF Evidence, TimeTypes
  <2>2. now <= ledger[n].at + 2
    BY <2>1 DEF Countdown, Recent
  <2> QED
    BY <1>t, <2>1, <2>2 DEF Bad, Timely, TimeTypes
<1>3. \A m \in cfg.names \ {n} : m \notin Bad
  <2> SUFFICES ASSUME NEW m \in Names, m # n, m \in cfg.names PROVE m \notin Bad
    BY DEF Bad
  <2>1. Old(m)
    BY DEF Fresh, Only
  <2>2. ledger[m].n = 0 \/ ledger[m].at <= now - Window
    BY <1>t, <2>1, QuietIsOver DEF Old, TimeTypes
  <2> QED
    BY <1>t, <2>2 DEF Bad, TimeTypes
<1>4. pass.cfg \ Bad = cfg.names \ broken
  BY <1>0, <1>2, <1>3 DEF Only
<1>5. KeepsEnough /\ MayDrop(held)
  BY <1>t, <1>4 DEF KeepsEnough, Promised, MayDrop, Left, TimeTypes
<1> QED
  BY <1>0, <1>1, <1>2, <1>5 DEF Dropped

LEMMA CountdownApplied ==
  ASSUME Timely, IssuanceInv, BegunShape, Fresh, Countdown, ApplyFallback, steady'
  PROVE  Countdown'
<1>t. TimeTypes
  BY TimeIsTyped
<1>d. pass \in Passes /\ ledger \in Ledgers
  BY DEF IssuanceInv, MemoryTypes, StoreTypes
<1>1. PICK held : pass' = [pass EXCEPT !.pc = "order", !.set = pass.cfg \ Dropped(held),
                                       !.held = held \/ Dropped(held) # {}]
  BY DEF ApplyFallback
<1>2. UNCHANGED <<now, row, broken, cfg>> /\ At("apply")
  BY DEF ApplyFallback, world
<1>3. \A n \in Names : ledger'[n] = ledger[n] \/ (Forgotten(n) /\ ledger'[n] = NoFailure)
  BY DEF ApplyFallback
<1>4. NoneBroken'
  BY <1>2 DEF NoneBroken, Countdown, DueBy
<1>5. ASSUME NEW n \in Names, Only(n)' PROVE (Recent(n) /\ EnoughTime(n) /\ NotOrdered(n))'
  <2>1. Only(n) /\ Recent(n) /\ EnoughTime(n) /\ (Promised' <=> Promised) /\ DueBy' = DueBy
    BY <1>2, <1>5 DEF Only, Countdown, Promised, DueBy
  <2>2. Evidence(n)' = Evidence(n) /\ (Evidence(n) > 0 => ledger'[n] = ledger[n])
    <3>1. CASE ledger'[n] = ledger[n]
      BY <2>1, <3>1 DEF Evidence
    <3>2. CASE Forgotten(n) /\ ledger'[n] = NoFailure
      <4>1. Evidence(n) = 0
        BY <1>t, <2>1, <3>2, ShortIs DEF Forgotten, Recent, Timely, TimeTypes, ShortFacts
      <4>2. Evidence(n)' = 0
        BY <3>2 DEF Evidence, NoFailure
      <4> QED
        BY <4>1, <4>2
    <3> QED
      BY <1>3, <3>1, <3>2
  <2>3. Short(n)' = Short(n) /\ LastStart(n)' = LastStart(n)
    BY <1>2, <2>2 DEF Short, LastStart
  <2>4. Recent(n)' /\ EnoughTime(n)'
    BY <1>2, <2>1, <2>2, <2>3 DEF Recent, EnoughTime
  <2>5. NotOrdered(n)'
    <3>1. Promised /\ n \notin Dropped(held) => Short(n) # 0 \/ ~(now >= row.after - BeforeExpiry)
      BY <1>2, <2>1, BadIsDropped
    <3>2. n \in pass'.set => n \notin Dropped(held)
      BY <1>d, <1>1 DEF Passes
    <3>3. Short(n) \in Nat
      BY <1>t, ShortIs DEF ShortFacts
    <3> QED
      BY <1>t, <1>2, <2>1, <2>3, <3>1, <3>2, <3>3 DEF NotOrdered, TimeTypes
  <2> QED
    BY <2>4, <2>5
<1> QED
  BY <1>4, <1>5 DEF Countdown

\* A failure takes two units at most, and it is one of those that were still missing or
\* comes before the fallback begins.
LEMMA CountdownFailed ==
  ASSUME Timely, IssuanceInv, IssuanceInv', BegunShape, Settled, Countdown, SteadyStep, Refuse \/ Invalid
  PROVE  Countdown'
<1>t. TimeTypes
  BY TimeIsTyped
<1>u. TimeTypes'
  BY TimeIsTypedAfter
<1>d. ledger \in Ledgers /\ PassShape
  BY DEF IssuanceInv, StoreTypes
<1>0. At("idle")'
  BY DEF Refuse, Invalid, Fails, Ends, At, Idle
<1>1. /\ row'.after = row.after /\ row'.fails = Least(row.fails + 1, AfterFailures)
      /\ UNCHANGED <<now, broken, cfg>> /\ row'.next \in {now + 1, now + 2}
  BY SteadyRow DEF Refuse, Invalid, world
<1>2. PICK r, l : row' = r /\ ledger' = l
  OBVIOUS
<1>3. DueBy' = DueBy /\ row'.next \in Int /\ row'.next <= now + 2
  BY <1>t, <1>1, <1>2 DEF DueBy, TimeTypes
<1>6. ASSUME Invalid, NEW n \in Names, Only(n)
      PROVE  /\ ledger'[n] = [n |-> Least(ledger[n].n + 1, MinFailures), at |-> now]
             /\ n \in pass.set /\ At("solve")
  <2>1. order \subseteq cfg.names /\ order = pass.set
    BY <1>d, <1>6 DEF Invalid, At, PassShape
  <2>2. PICK bad \in (SUBSET (order \cap broken)) \ {{}} : ledger' = Booked(bad)
    BY <1>6 DEF Invalid
  <2>3. n \in bad
    BY <1>6, <2>1, <2>2 DEF Only
  <2> QED
    BY <1>6, <2>1, <2>2, <2>3 DEF Booked, Invalid
<1>4. CASE now < DueBy - 1
  <2>1. row'.next <= DueBy /\ now <= DueBy
    BY <1>t, <1>3, <1>4 DEF TimeTypes
  <2>2. NoneBroken'
    BY <1>1, <1>3, <2>1 DEF NoneBroken
  <2>3. ASSUME NEW n \in Names PROVE EnoughTime(n)'
    <3>1. PICK s \in Nat : Short(n)' = s /\ 2 * s < RenewBefore
      BY <1>u, ShortIsAfter DEF ShortFacts
    <3>2. LastStart(n)' = row.after - 1 - 2 * s
      BY <1>1, <3>1 DEF LastStart
    <3>3. DueBy <= row.after - 1 - 2 * s
      BY <1>t, <3>1 DEF DueBy, TimeTypes
    <3> QED
      BY <1>t, <1>1, <1>3, <2>1, <3>2, <3>3 DEF EnoughTime, TimeTypes
  <2>4. ASSUME NEW n \in Names, Only(n) PROVE Recent(n)'
    <3>1. CASE UNCHANGED ledger
      <4>1. Evidence(n)' = Evidence(n)
        BY <1>3, <3>1 DEF Evidence
      <4>2. Evidence(n) > 0 => now <= ledger[n].at + 2 /\ now + 2 <= ledger[n].at + 2
        BY <1>t, <1>4 DEF Evidence, TimeTypes
      <4>3. ledger[n].at \in Int /\ Evidence(n) \in Nat
        BY <1>t DEF TimeTypes, Evidence
      <4> QED
        BY <1>t, <1>1, <1>3, <3>1, <4>1, <4>2, <4>3 DEF Recent, TimeTypes
    <3>2. CASE Invalid
      <4>0. ledger'[n] = [n |-> Least(ledger[n].n + 1, MinFailures), at |-> now]
        BY <3>2, <2>4, <1>6
      <4>1. ledger'[n].at = now
        BY <4>0
      <4>2. Evidence(n)' = 0
        BY <1>t, <1>2, <1>3, <1>4, <4>1 DEF Evidence, TimeTypes
      <4> QED
        BY <4>2 DEF Recent
    <3> QED
      BY <3>1, <3>2 DEF Refuse, store
  <2> QED
    BY <1>0, <1>1, <2>2, <2>3, <2>4 DEF Countdown, NotOrdered, At, Only
<1>5. CASE now >= DueBy - 1
  <2>1. Invalid
    BY <1>5, NotRefused DEF Refuse
  <2>2. broken \cap cfg.names # {}
    <3>1. order \subseteq cfg.names
      BY <1>d, <2>1 DEF Invalid, At, PassShape
    <3> QED
      BY <2>1, <3>1 DEF Invalid
  <2>3. NoneBroken'
    BY <1>1, <2>2 DEF NoneBroken
  <2>4. ASSUME NEW n \in Names, Only(n) PROVE Recent(n)' /\ EnoughTime(n)'
    <3>1. /\ ledger'[n] = [n |-> Least(ledger[n].n + 1, MinFailures), at |-> now]
          /\ n \in pass.set /\ At("solve")
      BY <1>6, <2>1, <2>4
    <3>2. Evidence(n)' = Least(ledger[n].n + 1, MinFailures)
      BY <1>3, <1>5, <3>1 DEF Evidence
    <3>3. Recent(n)'
      BY <1>t, <1>1, <1>3, <3>1 DEF Recent, TimeTypes
    <3>4. EnoughTime(n)'
      <4> SUFFICES ASSUME Promised PROVE now <= LastStart(n)' /\ row'.next <= LastStart(n)'
        BY <1>1 DEF EnoughTime, Promised
      <4>1. PICK s \in Nat : Short(n) = s
        BY <1>t, ShortIs DEF ShortFacts
      <4>2. PICK d \in Nat : Short(n)' = d
        BY <1>u, ShortIsAfter DEF ShortFacts
      <4>3. /\ now <= row.after - 1 - 2 * s /\ (s > 0 \/ now < row.after - BeforeExpiry)
        BY <2>4, <3>1, <4>1 DEF Countdown, EnoughTime, LastStart, NotOrdered, At
      <4>4. s = Greatest(Greatest(0, AfterFailures - row.fails), MinFailures - Evidence(n))
        BY <4>1 DEF Short
      <4>5. d = Greatest(Greatest(0, AfterFailures - Least(row.fails + 1, AfterFailures)),
                         MinFailures - Least(ledger[n].n + 1, MinFailures))
        BY <1>1, <3>2, <4>2 DEF Short
      <4>6. Evidence(n) \in Nat /\ ledger[n].n \in Nat /\ Evidence(n) <= ledger[n].n
        BY <1>t DEF Evidence, TimeTypes
      <4>7. AfterFailures \in Nat /\ MinFailures \in Nat /\ row.fails \in Nat
        BY <1>t DEF TimeTypes
      <4>8. IF s > 0 THEN d <= s - 1 ELSE d = 0
        BY <4>4, <4>5, <4>6, <4>7 DEF Greatest, Least
      <4>9. now + 2 <= row.after - 1 - 2 * d
        BY <1>t, <4>3, <4>8 DEF Timely, TimeTypes
      <4>10. LastStart(n)' = row.after - 1 - 2 * d
        BY <1>1, <4>2 DEF LastStart
      <4> QED
        BY <1>t, <1>3, <4>9, <4>10 DEF TimeTypes
    <3> QED
      BY <3>3, <3>4
  <2> QED
    BY <1>0, <1>1, <2>3, <2>4 DEF Countdown, NotOrdered, At, Only
<1> QED
  BY <1>t, <1>4, <1>5 DEF TimeTypes

\* The clock moves past a due certificate only while a backoff runs.
LEMMA CountdownTicks ==
  ASSUME Timely, IssuanceInv, Fresh, Countdown, Tick
  PROVE  Countdown'
<1>t. TimeTypes
  BY TimeIsTyped
<1>1. /\ At("idle") /\ ran /\ now' = now + 1
      /\ UNCHANGED <<row, broken, cfg, ledger, pass>>
  BY DEF Tick, store
<1>2. now >= DueBy => now < row.next
  BY <1>1 DEF Fresh
<1>3. NoneBroken'
  BY <1>t, <1>1, <1>2 DEF Countdown, NoneBroken, DueBy, TimeTypes
<1>4. ASSUME NEW n \in Names, Only(n)' PROVE (Recent(n) /\ EnoughTime(n) /\ NotOrdered(n))'
  <2>1. Recent(n) /\ EnoughTime(n)
    BY <1>1, <1>4 DEF Countdown, Only
  <2>2. DueBy' = DueBy /\ Evidence(n)' = Evidence(n)
    BY <1>1 DEF Evidence, DueBy
  <2>3. Short(n)' = Short(n) /\ LastStart(n)' = LastStart(n) /\ Promised' = Promised
    BY <1>1, <2>2 DEF Short, LastStart, Promised
  <2>4. DueBy <= LastStart(n) /\ LastStart(n) \in Int
    BY <1>t, ShortIs DEF LastStart, DueBy, ShortFacts, TimeTypes
  <2>5. EnoughTime(n)'
    BY <1>t, <1>1, <1>2, <2>1, <2>3, <2>4 DEF EnoughTime, TimeTypes
  <2>6. Evidence(n) > 0 => ledger[n].at >= DueBy - 1
    BY <1>t DEF Evidence, TimeTypes
  <2>7. Recent(n)'
    BY <1>t, <1>1, <1>2, <2>1, <2>2, <2>6 DEF Recent, TimeTypes
  <2>8. NotOrdered(n)'
    BY <1>1 DEF NotOrdered, At
  <2> QED
    BY <2>5, <2>7, <2>8
<1> QED
  BY <1>3, <1>4 DEF Countdown

\* What breaks before the first failure finds all of the time that is needed.
LEMMA CountdownStarts ==
  ASSUME Timely, IssuanceInv, Fresh, ChangeOfLuck, steady'
  PROVE  Countdown'
<1>t. TimeTypes
  BY TimeIsTyped
<1>1. /\ row.fails = 0 /\ At("idle")
      /\ UNCHANGED <<now, cfg, row, ledger, pass>>
  BY DEF ChangeOfLuck, store
<1>2. row.next <= now /\ now <= DueBy /\ row.next <= DueBy /\ \A n \in Names : Old(n)
  BY <1>t, <1>1 DEF Fresh, TimeTypes
<1>3. NoneBroken'
  BY <1>1, <1>2 DEF NoneBroken, DueBy
<1>4. ASSUME NEW n \in Names PROVE (Recent(n) /\ EnoughTime(n) /\ NotOrdered(n))'
  <2>1. Evidence(n) = 0
    BY <1>t, <1>2, QuietIsOver DEF Old, Evidence, TimeTypes
  <2>2. Evidence(n)' = 0 /\ DueBy' = DueBy
    BY <1>1, <2>1 DEF Evidence, DueBy
  <2>3. LastStart(n)' = LastStart(n)
    BY <1>1, <2>1, <2>2 DEF LastStart, Short
  <2>4. DueBy <= LastStart(n) /\ LastStart(n) \in Int
    BY <1>t, ShortIs DEF LastStart, DueBy, ShortFacts, TimeTypes
  <2>5. EnoughTime(n)'
    BY <1>t, <1>1, <1>2, <2>3, <2>4 DEF EnoughTime, TimeTypes
  <2> QED
    BY <1>1, <2>2, <2>5 DEF Recent, NotOrdered, At
<1> QED
  BY <1>3, <1>4 DEF Countdown

LEMMA CountdownKept ==
  ASSUME Timely, IssuanceInv, IssuanceInv', BegunShape, Settled, Fresh, Countdown, SteadyStep
  PROVE  Countdown'
<1>0. pass \in Passes
  BY DEF IssuanceInv, MemoryTypes
<1>1. CASE Refuse \/ Invalid
  BY <1>1, CountdownFailed
<1>2. CASE ApplyFallback
  BY <1>2, CountdownApplied DEF SteadyStep
<1>3. CASE Tick
  BY <1>3, CountdownTicks
<1>4. CASE ChangeOfLuck
  BY <1>4, CountdownStarts DEF SteadyStep
<1>5. ASSUME ~(Refuse \/ Invalid), ~ApplyFallback, ~Tick, ~ChangeOfLuck
      PROVE  Countdown'
  <2>1. row'.after = row.after /\ row'.next = row.next /\ row'.fails = row.fails /\ now' = now
    BY <1>5, SteadyRow
  <2>2. UNCHANGED <<broken, cfg, ledger>>
    BY <1>5 DEF SteadyStep, BeginPass, TakeOrder, Decide, Place, Book, Record, Validated, Announce, world, store, vars
  <2>3. \/ pass'.pc \in {"idle", "apply"} \/ UNCHANGED pass
        \/ pass.pc \notin {"idle", "apply"} /\ pass'.set = pass.set
    <3>1. BeginPass \/ Announce \/ UNCHANGED vars => pass'.pc = "apply" \/ UNCHANGED pass
      BY DEF BeginPass, Idle, Announce, vars
    <3>2. TakeOrder \/ Decide \/ Place \/ Book \/ Record \/ Validated
            => pass'.pc = "idle" \/ (pass.pc \notin {"idle", "apply"} /\ pass'.set = pass.set)
      BY <1>0 DEF TakeOrder, Decide, Place, Book, Record, Validated, Goes, Ends, At, Idle, Passes
    <3> QED
      BY <1>5, <3>1, <3>2 DEF SteadyStep
  <2>4. \/ pass'.pc \in {"idle", "apply"}
        \/ pass.pc \notin {"idle", "apply"} /\ pass'.set = pass.set
    BY <2>3
  <2> QED
    BY <2>1, <2>2, <2>4, CountdownSame
<1> QED
  BY <1>1, <1>2, <1>3, <1>4, <1>5

(* The certificate does not expire over one broken name *)

LEMMA InitTime == Init => TimeInv
<1> SUFFICES ASSUME Init PROVE TimeInv
  OBVIOUS
<1>i. IssuanceInv
  BY InitIssuance
<1>t. TimeTypes
  BY <1>i, TimeIsTyped
<1>1. BoundsShape
  <2>1. /\ spent = 0 /\ lost = 0 /\ now = 1 /\ transient = 0 /\ caWindow = 0 /\ row.next = 0 /\ row.ari = 0
        /\ bucket.reset = 0 /\ steady = TRUE /\ ran = FALSE
        /\ \A n \in Names : cool[n] = 0 /\ ledger[n].at = 0
    BY DEF Init, NoBucket, Never, NoFailure
  <2>2. {steady, ran} \subseteq BOOLEAN
    BY <2>1
  <2> QED
    BY <1>t, <2>1, <2>2 DEF BoundsShape, TimeTypes
<1>2. BegunShape
  BY DEF Init, BegunShape, At, Idle
<1>3. DueBy = 1 /\ now = 1
  BY DEF Init, DueBy
<1>4. Settled
  BY <1>t DEF Init, Settled, Past, NoBucket, Never, NoFailure, TimeTypes, At, Idle
<1>5. Fresh
  BY <1>3 DEF Init, Fresh, Old, NoFailure
<1>6. Countdown
  BY <1>3 DEF Init, Countdown, NoneBroken, Only
<1> QED
  BY <1>1, <1>2, <1>4, <1>5, <1>6 DEF TimeInv

LEMMA StepTime == Timely /\ IssuanceInv /\ TimeInv /\ [Next]_vars => TimeInv'
<1> SUFFICES ASSUME Timely, IssuanceInv, TimeInv, [Next]_vars PROVE TimeInv'
  OBVIOUS
<1>1. IssuanceInv' /\ BoundsShape /\ BegunShape
  BY StepIssuance DEF TimeInv
<1>2. BoundsShape' /\ BegunShape'
  BY <1>1, BoundsKept, BegunKept
<1>3. ASSUME steady' PROVE (Settled /\ Fresh /\ Countdown)'
  <2>1. CASE Finish /\ order' = {} /\ pass' = Idle
             /\ row' = [row EXCEPT !.names = order, !.after = now + Life, !.next = 0, !.ari = 0,
                                   !.fails = IF AllIssued THEN 0 ELSE @]
    <3>1. row \in Rows /\ now' = now
      BY <2>1 DEF IssuanceInv, StoreTypes, Finish, world
    <3>2. Issued'
      BY <2>1, <3>1 DEF Issued, Rows, At, Idle
    <3>3. (Timely /\ IssuanceInv /\ BoundsShape /\ Issued)' => (Settled /\ Fresh /\ Countdown)'
      BY JustIssued, PTL
    <3> QED
      BY <1>1, <1>2, <3>2, <3>3 DEF Timely
  <2>2. CASE steady /\ SteadyStep
    <3>1. Settled /\ Fresh /\ Countdown
      BY <2>2 DEF TimeInv
    <3>2. Settled'
      BY <1>1, <2>2, <3>1, SettledKept
    <3>3. Fresh'
      BY <1>1, <2>2, <3>1, <3>2, FreshKept
    <3>4. Countdown'
      BY <1>1, <2>2, <3>1, CountdownKept
    <3> QED
      BY <3>2, <3>3, <3>4
  <2> QED
    BY <1>1, <1>3, <2>1, <2>2, SteadySteps
<1> QED
  BY <1>2, <1>3 DEF TimeInv

\* With times that fit together, TimeInv holds throughout.
THEOREM TimeInductive == Timely => (Spec => []TimeInv)
<1> SUFFICES ASSUME Timely PROVE Spec => []TimeInv
  OBVIOUS
<1>1. TimeInv /\ IssuanceInv /\ [Next]_vars => TimeInv'
  BY StepTime
<1> QED
  BY <1>1, InitTime, IssuanceInductive, PTL DEF Spec

\* A certificate of which one name at a time cannot be validated is reissued without it
\* before it expires (fallbackDomains, recordFailure, renewIfDue), life after life, when
\* the configured times fit together.
THEOREM OthersAreSaved == Timely => (Spec => [](AtMostOneBroken => OthersNeverExpire))
<1> SUFFICES ASSUME Timely PROVE Spec => [](AtMostOneBroken => OthersNeverExpire)
  OBVIOUS
<1>1. IssuanceInv /\ TimeInv => (AtMostOneBroken => OthersNeverExpire)
  <2> SUFFICES ASSUME IssuanceInv, TimeInv, AtMostOneBroken, steady, Promised PROVE now < row.after
    BY DEF OthersNeverExpire, Promised
  <2>t. TimeTypes
    BY TimeIsTyped
  <2>1. CASE broken \cap cfg.names = {}
    BY <2>t, <2>1 DEF TimeInv, Countdown, NoneBroken, DueBy, Timely, TimeTypes
  <2>2. CASE broken \cap cfg.names # {}
    <3>1. PICK n \in Names : Only(n)
      BY <2>2 DEF AtMostOneBroken, Only, IssuanceInv, WorldTypes
    <3>2. now <= LastStart(n)
      BY <3>1 DEF TimeInv, Countdown, EnoughTime
    <3> QED
      BY <2>t, <3>2, ShortIs DEF LastStart, ShortFacts, TimeTypes
  <2> QED
    BY <2>1, <2>2
<1> QED
  BY <1>1, IssuanceInductive, TimeInductive, PTL
=============================================================================
