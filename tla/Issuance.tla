------------------------------ MODULE Issuance ------------------------------
(* One certificate's passes as a decision about names: which set of names a pass      *)
(* orders, when it orders at all, and what a failure leaves behind for the next pass  *)
(* (internal/acme/manager.go, manager_renew.go, fallback.go, ari.go, and              *)
(* internal/ratelimit through Quota). Renewal has the uploads and switches that       *)
(* follow an issued certificate, Challenges what happens inside Solve; both are one   *)
(* outcome here. Time is counted in units of a backoff.                               *)
EXTENDS Quota, FiniteSets

CONSTANTS Names,         \* the names a certificate may be configured for
          MaxTime,       \* bound on the clock
          Life,          \* how long a certificate is valid
          RenewBefore,   \* renewBefore
          BeforeExpiry,  \* failureFallback.beforeExpiry
          Window,        \* failureFallback.failureWindow
          AfterFailures, \* failureFallback.afterFailures
          MinFailures,   \* failureFallback.minIdentifierFailures
          MinNames,      \* failureFallback.minNames
          Faults, MaxMishaps

Times == 0..MaxTime
ASSUME TimesAssumption ==
    /\ {Life, RenewBefore, BeforeExpiry, Window, MaxTime} \subseteq Nat \ {0}
    /\ BeforeExpiry <= RenewBefore /\ RenewBefore < Life
    /\ {AfterFailures, MinFailures, MinNames} \subseteq Nat \ {0} /\ MaxMishaps \in Nat

VARIABLES
    now, lost,  \* the wall clock, and by how much it has been set back
    cfg,        \* the configuration: the names, and whether the fallback is enabled
    broken,     \* the names whose authorization cannot succeed at the moment
    caWindow,   \* the start of the window the CA suggests, 0 for none
    ca,         \* the CA's own count of new orders
    row,        \* certificates: SANs, notAfter, failures in a row, backoff, ARI window
    fb,         \* cert_fallback: the names dropped, {} for no row
    ledger,     \* identifier_failures
    order,      \* orders: the identifiers of the order in progress, {} for none
    bucket,     \* rate_buckets: new orders
    cool,       \* memory: identifierCooldown
    transient,  \* memory: transientBackoff
    pass,       \* the pass in progress
    spent,
    ran,        \* history: a pass has run since the clock last moved
    lacks,      \* history: what the certificate in effect was issued without, and recorded so
    steady,     \* history: nothing unforeseen since that certificate was issued
    told,       \* history: the latest instant the CA named and the store has
    unbooked    \* history: orders the CA has counted and the estimate has not
vars == <<now, lost, cfg, broken, caWindow, ca, row, fb, ledger, order, bucket, cool,
          transient, pass, spent, ran, lacks, steady, told, unbooked>>
world == <<now, lost, cfg, broken, caWindow>>
store == <<row, fb, ledger, order, bucket>>
history == <<lacks, told>>

Real == now + lost
NoFailure == [n |-> 0, at |-> 0]
Idle == [pc |-> "idle", cfg |-> {}, policy |-> FALSE, set |-> {}, held |-> FALSE, unknown |-> FALSE]

\* A certificate that was issued for the whole set, some time ago.
Init ==
    /\ now = 1 /\ lost = 0
    /\ cfg = [names |-> Names, policy |-> TRUE] /\ broken = {} /\ caWindow = 0
    /\ ca = [level |-> Full, at |-> 1]
    /\ row = [names |-> Names, after |-> RenewBefore + 1, fails |-> 0, next |-> 0, ari |-> 0]
    /\ fb = {} /\ ledger = [n \in Names |-> NoFailure] /\ order = {} /\ bucket = NoBucket
    /\ cool = [n \in Names |-> 0] /\ transient = 0 /\ pass = Idle
    /\ spent = 0 /\ ran = FALSE /\ lacks = {} /\ steady = TRUE /\ told = 0 /\ unbooked = 0

Mishap(f) == f \in Faults /\ spent < MaxMishaps /\ spent' = spent + 1 /\ steady' = FALSE
Fine == UNCHANGED <<spent, steady>>
At(pc) == pass.pc = pc
Goes(pc) == pass' = [pass EXCEPT !.pc = pc]
Ends == pass' = Idle

-----------------------------------------------------------------------------
(* A failed pass: recordFailure *)

Backoff(fails) == IF fails <= 1 THEN 1 ELSE 2
Failed(r) == LET fails == Least(r.fails + 1, AfterFailures)
             IN  [r EXCEPT !.fails = fails, !.next = now + Backoff(fails)]
\* The row and its backoff; when they cannot be written, a backoff in memory.
Fails ==
    /\ Ends
    /\ \/ row' = Failed(row) /\ Fine /\ UNCHANGED transient
       \/ Mishap("row") /\ transient' = Failed(row).next /\ UNCHANGED row

(* loadRound and honourBackoff *)

Waits == now < transient \/ now < row.next
BeginPass ==
    /\ At("idle")
    /\ ran' = TRUE
    /\ \/ Waits /\ Fine /\ UNCHANGED pass
       \/ /\ ~Waits
          /\ \E unknown \in BOOLEAN :
                /\ IF unknown THEN Mishap("read") ELSE Fine
                /\ pass' = [Idle EXCEPT !.pc = "apply", !.cfg = cfg.names, !.policy = cfg.policy,
                                        !.set = cfg.names, !.held = ~unknown /\ fb # {}, !.unknown = unknown]
    /\ UNCHANGED <<world, ca, store, cool, transient, history, unbooked>>

(* applyFallback: pruneFallback, fallbackDomains, PutFallback *)

StillConfigured == fb \cap pass.cfg
Left == row.after - now
\* The names that have failed often enough, and lately.
Bad == {n \in Names : ledger[n].n >= MinFailures /\ ledger[n].at > now - Window}
\* Near expiry to enter, not to stay.
MayDrop(held) == held \/ Left <= BeforeExpiry
\* Mutation: the minimum is the first number that is too few.
KeepsEnough_Above == Cardinality(pass.cfg \ Bad) > MinNames
KeepsEnough == Cardinality(pass.cfg \ Bad) >= MinNames
Dropped(held) ==
    IF /\ pass.policy /\ row.names # {} /\ row.fails >= AfterFailures
       /\ MayDrop(held) /\ KeepsEnough
    THEN pass.cfg \cap Bad ELSE {}
Forgotten(n) == ledger[n].at < now - Window
ApplyFallback ==
    /\ At("apply")
    /\ \E written \in BOOLEAN :
        LET held == pass.held /\ (StillConfigured # {} \/ ~written)
            gone == Dropped(held)
        IN  /\ pass' = [pass EXCEPT !.pc = "order", !.set = pass.cfg \ gone, !.held = held \/ gone # {}]
            /\ IF written THEN Fine /\ fb' = (IF gone = {} THEN StillConfigured ELSE gone)
                          ELSE Mishap("put") /\ UNCHANGED fb
            /\ ledger' = IF gone # {} THEN ledger
                         ELSE [n \in Names |-> IF Forgotten(n) THEN NoFailure ELSE ledger[n]]
    /\ UNCHANGED <<world, ca, row, order, bucket, cool, transient, ran, history, unbooked>>

(* continueOrDropOrder, reissueOnSANDrift, renewIfDue *)

\* An order for other names is discarded; the pass goes on.
\* Mutation: whatever order is there is continued.
OrderMatches_Any == order # {}
OrderMatches == order = pass.set
TakeOrder ==
    /\ At("order")
    /\ IF OrderMatches THEN Goes("solve") /\ UNCHANGED order
       ELSE Goes("decide") /\ order' = {}
    /\ Fine /\ UNCHANGED <<world, ca, row, fb, ledger, bucket, cool, transient, ran, history, unbooked>>

Drifted == row.names # pass.set
\* driftIsTheDegradation: the SANs are the configured names without the dropped ones.
IsTheDegradation == pass.unknown \/ (pass.held /\ fb # {} /\ row.names = pass.set \ fb)
Due(r) == IF r.ari # 0 THEN r.ari ELSE r.after - RenewBefore
\* FetchRenewalInfo when it is time to ask again and the certificate has not expired.
Asked == IF now >= row.after THEN {row.ari} ELSE {row.ari, caWindow}
Decide ==
    /\ At("decide")
    /\ IF row.names = {} \/ (Drifted /\ ~IsTheDegradation)
       THEN Goes("place") /\ UNCHANGED row
       ELSE \E window \in Asked :
              /\ row' = [row EXCEPT !.ari = window]
              /\ IF now >= Due(row') THEN Goes("place") ELSE Ends
    /\ Fine /\ UNCHANGED <<world, ca, fb, ledger, order, bucket, cool, transient, ran, history, unbooked>>

(* issue *)

\* coolingDown: in memory, or seeded from the ledger after a restart.
CoolFor == 1
CoolingDown == \E n \in pass.set : now < cool[n] \/ (ledger[n].n > 0 /\ now < ledger[n].at + CoolFor)
\* blockedByRecordedDeadline.
Refused == CoolingDown \/ Blocked(bucket, now)
Refuse ==
    /\ At("place") /\ Refused /\ Fails
    /\ UNCHANGED <<world, ca, fb, ledger, order, bucket, cool, ran, history, unbooked>>

\* core.NewOrder: the CA counts it, or not (an ARI replacement), or has none left.
Place ==
    /\ At("place") /\ ~Refused /\ CaLevel(ca, Real) >= Refill
    /\ \/ ca' = CaTake(ca, Real) /\ unbooked' = unbooked + 1
       \/ UNCHANGED <<ca, unbooked>>
    /\ Goes("book")
    /\ Fine /\ UNCHANGED <<world, store, cool, transient, ran, history>>
\* The instants a refusal may name, in its text or its header; 0 for none. A paused name
\* is booked for a refill interval at least, since nothing else says when to come back.
Instants == {0} \cup (Real + 1 .. Real + Refill)
PauseFloor == now + Refill
Deadline(paused, at) == IF paused THEN Greatest(PauseFloor, at) ELSE at
\* The attempt without replaces that follows an answer without an instant fares the same.
NewOrderRefused ==
    /\ At("place") /\ ~Refused
    /\ \E paused \in BOOLEAN, at \in Instants :
        /\ paused \/ CaLevel(ca, Real) < Refill
        /\ bucket' = NoteDeadline(bucket, Deadline(paused, at)) /\ told' = Greatest(told, at)
    /\ Ends /\ row' = Failed(row) /\ Mishap("refusal")
    /\ UNCHANGED <<world, ca, fb, ledger, order, cool, transient, ran, lacks, unbooked>>

\* The CA counts it and its answer does not arrive.
AnswerLost ==
    /\ At("place") /\ ~Refused /\ CaLevel(ca, Real) >= Refill
    /\ ca' = CaTake(ca, Real) /\ unbooked' = unbooked + 1
    /\ Mishap("lost") /\ Ends /\ row' = Failed(row)
    /\ UNCHANGED <<world, fb, ledger, order, bucket, cool, transient, ran, history>>

\* spendNewOrder, whatever the CA did not count included.
Book ==
    /\ At("book")
    /\ bucket' = Spend(bucket, now)
    /\ unbooked' = IF unbooked > 0 THEN unbooked - 1 ELSE 0
    /\ Goes("record")
    /\ Fine /\ UNCHANGED <<world, ca, row, fb, ledger, order, cool, transient, ran, history>>

\* PutOrder; without it the order is lost and the attempt has failed.
Record ==
    /\ At("record")
    /\ \/ order' = pass.set /\ Goes("solve") /\ Fine /\ UNCHANGED <<row, transient>>
       \/ Mishap("record") /\ Ends /\ row' = Failed(row) /\ UNCHANGED <<order, transient>>
    /\ UNCHANGED <<world, ca, fb, ledger, bucket, cool, ran, history, unbooked>>

(* advance: the authorizations, the certificate, its deployment *)

Validated ==
    /\ At("solve") /\ order \cap broken = {}
    /\ cool' = [n \in Names |-> IF n \in order THEN 0 ELSE cool[n]]
    /\ Goes("finish")
    /\ Fine /\ UNCHANGED <<world, ca, store, transient, ran, history, unbooked>>
\* RecordIdentifierFailure, for each of them.
Booked(bad) == [n \in Names |-> IF n \in bad
                   THEN [n |-> Least(ledger[n].n + 1, MinFailures), at |-> now] ELSE ledger[n]]
\* Every authorization found invalid is noted, cooled down and recorded; the order goes.
Invalid ==
    /\ At("solve")
    /\ \E bad \in (SUBSET (order \cap broken)) \ {{}} :
        /\ ledger' = Booked(bad)
        /\ cool' = [n \in Names |-> IF n \in bad THEN now + CoolFor ELSE cool[n]]
    /\ order' = {}
    /\ Fails
    /\ UNCHANGED <<world, ca, fb, bucket, ran, history, unbooked>>
\* Anything else that fails before the certificate is deployed keeps the order.
Stall ==
    /\ At("solve") /\ Mishap("stall") /\ Ends /\ row' = Failed(row)
    /\ UNCHANGED <<world, ca, fb, ledger, order, bucket, cool, transient, ran, history, unbooked>>

\* The transaction that promotes: the record and the ledger go only with what the issued
\* set says about them, the count only with the full set.
\* Mutation: any success clears the record.
ClearsRecord_Always == TRUE
ClearsRecord == fb \subseteq order
AllIssued == order = pass.cfg
Finish ==
    /\ At("finish")
    /\ \/ /\ row' = [row EXCEPT !.names = order, !.after = now + Life, !.next = 0, !.ari = 0,
                                !.fails = IF AllIssued THEN 0 ELSE @]
          /\ fb' = IF ClearsRecord THEN {} ELSE fb
          /\ ledger' = IF AllIssued THEN [n \in Names |-> NoFailure] ELSE ledger
          /\ order' = {} /\ lacks' = IF fb = pass.cfg \ order THEN fb ELSE {}
          /\ steady' = TRUE /\ UNCHANGED <<spent, transient>>
          /\ Ends
       \/ Mishap("tx") /\ Ends /\ row' = Failed(row) /\ UNCHANGED <<fb, ledger, order, lacks, transient>>
    /\ UNCHANGED <<world, ca, bucket, cool, ran, told, unbooked>>

-----------------------------------------------------------------------------
(* Around it *)

\* A pass takes less than a unit of time, and at least one is due in each.
Tick ==
    /\ At("idle") /\ ran /\ now < MaxTime
    /\ now' = now + 1 /\ ran' = FALSE
    /\ Fine /\ UNCHANGED <<lost, cfg, broken, caWindow, ca, store, cool, transient, pass, history, unbooked>>
\* The wall clock is set back.
StepBack ==
    /\ At("idle") /\ now > 1 /\ Mishap("back")
    /\ now' = now - 1 /\ lost' = lost + 1
    /\ UNCHANGED <<cfg, broken, caWindow, ca, store, cool, transient, pass, ran, history, unbooked>>
\* A name stops validating, or is repaired. What breaks late, or while other failures are
\* being counted, is nobody's promise.
Lead == BeforeExpiry + 2
ChangeOfLuck ==
    /\ At("idle") /\ "luck" \in Faults /\ spent < MaxMishaps /\ spent' = spent + 1
    /\ \E b \in (SUBSET Names) \ {broken} : broken' = b
    /\ steady' = (steady /\ row.fails = 0 /\ now <= row.after - Lead)
    /\ UNCHANGED <<now, lost, cfg, caWindow, ca, store, cool, transient, pass, ran, history, unbooked>>
Edit ==
    /\ At("idle") /\ Mishap("edit")
    /\ \E names \in (SUBSET Names) \ {{}}, policy \in BOOLEAN : cfg' = [names |-> names, policy |-> policy]
    /\ cfg' # cfg
    /\ lacks' = IF cfg'.names = cfg.names THEN lacks ELSE {}
    /\ UNCHANGED <<now, lost, broken, caWindow, ca, store, cool, transient, pass, ran, told, unbooked>>
\* The CA asks for an early renewal.
Announce ==
    /\ At("idle") /\ "ari" \in Faults /\ spent < MaxMishaps /\ spent' = spent + 1
    /\ caWindow # now /\ caWindow' = now
    /\ UNCHANGED <<now, lost, cfg, broken, ca, store, cool, transient, pass, ran, steady, history, unbooked>>
\* Another certificate's order, asked for before an instant was recorded, is refused too.
NeighbourRefused ==
    /\ Mishap("neighbour")
    /\ \E at \in Instants \ {0} : bucket' = NoteDeadline(bucket, at) /\ told' = Greatest(told, at)
    /\ UNCHANGED <<world, ca, row, fb, ledger, order, cool, transient, pass, ran, lacks, unbooked>>
\* A restart forgets what was in memory; the pass is over.
Crash ==
    /\ Mishap("crash") /\ Ends
    /\ cool' = [n \in Names |-> 0] /\ transient' = 0 /\ ran' = FALSE
    /\ UNCHANGED <<world, ca, store, history, unbooked>>

Next == BeginPass \/ ApplyFallback \/ TakeOrder \/ Decide \/ Refuse \/ Place \/ NewOrderRefused \/ AnswerLost
        \/ Book \/ Record \/ Validated \/ Invalid \/ Stall \/ Finish
        \/ Tick \/ StepBack \/ ChangeOfLuck \/ Edit \/ Announce \/ NeighbourRefused \/ Crash
Spec == Init /\ [][Next]_vars

-----------------------------------------------------------------------------
(* Properties *)

Pcs == {"idle", "apply", "order", "decide", "place", "book", "record", "solve", "finish"}
\* Types; the order a pass works on is for the names the pass decided on, and a record of
\* a degradation never drops a name the pass orders as degraded.
TypeOK ==
    /\ now \in Times \ {0} /\ lost \in Nat /\ cfg.names \subseteq Names /\ broken \subseteq Names
    /\ row.names \subseteq Names /\ row.fails \in 0..AfterFailures /\ fb \subseteq Names
    /\ order \subseteq Names /\ pass.pc \in Pcs /\ pass.set \subseteq pass.cfg
    /\ (At("solve") \/ At("finish") => order = pass.set)

\* While the certificate in effect is a recorded reduced one, an order that names a dropped
\* identifier again waits for the renewal window, whatever fails or is forgotten in between
\* (fallback.go:232: "aged-out evidence ... does not by itself place an order"). It does not
\* hold of the code: Issuance_staggered shows the order that evidence of several names,
\* aging out one after the other, places at once.
HeldUntilDue ==
    [][At("place") /\ pass'.pc = "book" /\ pass.set \cap lacks # {} /\ row.names = pass.cfg \ lacks
         => now >= Due(row)]_vars

\* What does hold: the full set is not ordered again before the renewal window
\* (fallback.go:231), in whatever way the passes since the reduced certificate have failed,
\* crashed or lost what they wrote, unless a later reduction overwrote the record.
FullSetWaits ==
    [][At("place") /\ pass'.pc = "book" /\ pass.set = pass.cfg /\ lacks # {}
       /\ row.names = pass.cfg \ lacks /\ fb \in {{}, lacks}
         => now >= Due(row)]_vars

\* A certificate does not expire over names that have been failing since well before:
\* the others are reissued without them in time.
OthersNeverExpire ==
    steady /\ cfg.policy /\ Cardinality(cfg.names \ broken) >= MinNames => now < row.after

\* The estimate is never above what the CA has left, but for orders whose answer was
\* lost, or that the process died on before it could book them (ratelimit.go:250: the direction it must never be wrong in).
EstimateNeverAboveCA == Remaining(bucket, now) <= CaLevel(ca, Real) + unbooked * Refill

\* No order is placed before the latest instant the CA named, across restarts, later and
\* earlier refusals, and other spends from the same bucket.
NoOrderWhileLockedOut == [][At("place") /\ pass'.pc = "book" => now >= told]_vars
=============================================================================
