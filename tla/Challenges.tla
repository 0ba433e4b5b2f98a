----------------------------- MODULE Challenges ------------------------------
(***************************************************************************)
(* DNS-01: several certificates validate at one TXT name.                  *)
(*                                                                         *)
(* A pass writes a TXT value for each pending authorization of its order,  *)
(* waits until the name servers show them, asks the CA to look, waits for  *)
(* the verdicts and cleans up. The provider's clean-up deletes every value *)
(* at the name, so the process keeps a lease per value it relies on, and a *)
(* clean-up that is not the last leaver does not delete. Started passes of *)
(* other certificates and the sweep over stuck rows run at the same time.  *)
(* A row on disk is what a later process knows of a value. A step is one   *)
(* store call, one CA call, or what the mutex of the name makes atomic.    *)
(***************************************************************************)
EXTENDS Propagation

CONSTANTS
    Urls,        \* authorization urls the CA can hand out
    Certs,       \* the certificates
    CertOf,      \* whose order an authorization belongs to
    Sweeper,     \* the goroutine that sweeps stuck rows
    MaxToken,    \* bound: challenge tokens of one authorization
    Settings     \* [provider, triggers, faults, budget]: what a delete removes, whether
                 \* passes overlap, which mishaps happen and (bound) how many

ASSUME CertOfAssumption == CertOf \in [Urls -> Certs]
ASSUME ProcsAssumption == Sweeper \notin Certs
\* A provider's clean-up deletes all at a name or its own records. The timer runs
\* passes one after the other; webhook triggers start them at any time.
Mishaps == {"store", "crash", "hang write", "hang delete", "drop", "ca", "refuse", "token",
            "slow", "blackout", "old row"}
ASSUME SettingsAssumption ==
    Settings \subseteq [provider : {"all", "own"}, triggers : BOOLEAN,
                 faults : SUBSET Mishaps, budget : Nat]
ASSUME BoundsAssumption == MaxToken \in Nat \ {0}

VARIABLES
    \* state.db
    order,      \* the authorization urls of each certificate's order, {} without one
    rows,       \* the authorization rows
    \* the CA
    ca,         \* [status, tok, asked] of each authorization
    \* DNS
    dns,        \* values at the TXT name
    late,       \* a provider call that timed out and still holds the resolver slot
    \* the process
    leases,     \* challengeLeases: values this process relies on
    proc,       \* the passes and the sweep
    setting,
    budget      \* mishaps that may still happen

vars == <<order, rows, ca, dns, late, leases, proc, setting, budget>>
zone == <<dns, late, setting>>

Procs == Certs \cup {Sweeper}
Tokens == 1..MaxToken
Values == Urls \X Tokens
NoTok == 0
NoRow == [tok |-> NoTok, val |-> NoTok, presented |-> FALSE, sent |-> FALSE,
          age |-> "none", stuck |-> FALSE, on |-> FALSE]
NewRow == [NoRow EXCEPT !.on = TRUE]
NewAuthz == [status |-> "none", tok |-> 1, asked |-> FALSE]
NoCall == [op |-> "none", val |-> <<>>]

\* A goroutine: where it is, why it cleans up, what it still has to do, the row it
\* is at, its copies of the rows and of what the CA answered; early (history): it
\* believes a denial that is younger than the propagation window.
Idle == [pc |-> "idle", job |-> "none", todo |-> {}, at |-> <<>>, mem |-> <<>>,
         cur |-> <<>>, pend |-> {}, resumed |-> {}, regs |-> {}, bad |-> FALSE, early |-> FALSE]

ValueOf(a, tok) == <<a, tok>>
RowsOf(c) == {a \in Urls : CertOf[a] = c /\ rows[a].on}
PresentedValues == {ValueOf(a, rows[a].val) : a \in {u \in Urls : rows[u].presented}}

Works == UNCHANGED budget
Mishap(f) == f \in setting.faults /\ budget > 0 /\ budget' = budget - 1

Step(p, r) == proc' = [proc EXCEPT ![p] = r]
GoTo(p, pc) == Step(p, [proc[p] EXCEPT !.pc = pc])
\* recordFailure or the end of a pass: module Renewal keeps its books.
Ends(p) == Step(p, Idle)
Discards == [Idle EXCEPT !.pc = "recover", !.job = "discard"]
CleansUp(r, them) == [Idle EXCEPT !.pc = "recover", !.job = "cleanup", !.todo = them, !.mem = r.mem]

\* "old row": an earlier build let the token of a row move on from the value it wrote.
Fresh ==
    /\ order = [c \in Certs |-> {}] /\ rows = [a \in Urls |-> NoRow]
    /\ ca = [a \in Urls |-> NewAuthz] /\ dns = {}
Inherits(a) ==
    /\ order = [c \in Certs |-> IF c = CertOf[a] THEN {a} ELSE {}]
    /\ ca = [b \in Urls |-> IF b = a THEN [status |-> "pending", tok |-> MaxToken, asked |-> FALSE]
                            ELSE NewAuthz]
    /\ rows = [b \in Urls |-> IF b = a THEN [NewRow EXCEPT !.tok = MaxToken, !.val = 1,
                                                           !.presented = TRUE, !.age = "old"]
                              ELSE NoRow]
    /\ dns = {ValueOf(a, 1)}

Init ==
    /\ setting \in Settings /\ budget = setting.budget
    /\ Fresh \/ ("old row" \in setting.faults /\ \E a \in Urls : Inherits(a))
    /\ late = NoCall /\ leases = {}
    /\ proc = [p \in Procs |-> Idle]

-----------------------------------------------------------------------------
(* The state store: authorization rows                                     *)

\* PutAuthorization: a writer that does not know the age keeps the stored one,
\* and no writer touches the stuck stamp.
Stored(a, r) == [r EXCEPT !.on = TRUE, !.stuck = rows[a].stuck,
                          !.age = IF r.age = "none" THEN rows[a].age ELSE r.age]
PutAuthorization(a, r) == rows' = [rows EXCEPT ![a] = Stored(a, r)]
DeleteAuthorization(a) == rows' = [rows EXCEPT ![a] = NoRow]
MarkTXTReclaimStuck(a) ==
    rows' = [rows EXCEPT ![a].stuck = rows[a].on]
ListStuckTXTReclaims == {a \in Urls : rows[a].on /\ rows[a].stuck}

-----------------------------------------------------------------------------
(* The lease registry                                                      *)

add(v) == leases' = leases \cup {v}
remove(v) == leases' = leases \ {v}
OthersLive(v) == leases \ {v} # {}
valueScopedCleanup == setting.provider = "own"

\* releaseStaleLeaseExcept, under the mutex: the lease stays while the store cannot
\* be read or a presented row, not the excepted one, claims the value.
releaseStaleLease(v, except) ==
    /\ \/ /\ Works
          /\ IF \E a \in Urls \ except : rows[a].presented /\ ValueOf(a, rows[a].val) = v
             THEN UNCHANGED leases ELSE remove(v)
       \/ Mishap("store") /\ UNCHANGED leases

-----------------------------------------------------------------------------
(* DNS and its provider                                                    *)

NameServers == {"ns1", "ns2"}
Transport == {"denies", "has", "refused", "silent"}
\* What one exchange and its retry over UDP and TCP can end with.
Heard == [truth \in {"everywhere", "somewhere", "nowhere"} |->
    LET can == CASE truth = "everywhere" -> Transport \ {"denies"}
                 [] truth = "nowhere" -> Transport \ {"has"}
                 [] OTHER -> Transport
    IN  {probeTXT(exchangeDNS(u, t), exchangeDNS(u2, t2)) : u, t, u2, t2 \in can}]
\* Within the propagation window some servers may not serve a new value yet.
Truths(v) == IF v \notin dns THEN {"nowhere"}
             ELSE IF rows[v[1]].age = "young" THEN {"somewhere", "everywhere"} ELSE {"everywhere"}

\* The delegation as this host resolves it: names may have no address here.
Delegation(up) == authoritativeNS(NameServers, [n \in NameServers |-> IF n \in up THEN {n} ELSE {}])

\* What LookupTXT can conclude. An SOA or NS lookup that fails is "unknown" too.
Looked == [truth \in {"everywhere", "somewhere", "nowhere"} |->
    LET servers == Delegation(NameServers).servers
    IN  {LookupTXT(servers, ans) : ans \in [servers -> Heard[truth]]}]
Lookups(v) ==
    {"unknown"} \cup
    UNION {Looked[t] : t \in Truths(v)}

\* acquireLegoResolver: a call that timed out keeps the slot until it is over.
Busy == late # NoCall
\* A provider's error; a busy slot needs none.
Refused == (Busy /\ Works) \/ Mishap("refuse")

\* What a finished delete leaves at the name.
DeleteLeaves(v) == IF valueScopedCleanup THEN dns \ {v} ELSE {}
Deletes(v) == dns' = DeleteLeaves(v)
Writes(v) == dns' = dns \cup {v}

\* callProviderBounded: the call answers, or the deadline passes and the call
\* goes on alone.
TimesOut(op, v) ==
    /\ Mishap(IF op = "write" THEN "hang write" ELSE "hang delete") /\ ~Busy
    /\ late' = [op |-> op, val |-> v]
    /\ UNCHANGED dns
\* The call that was left alone comes back: it took effect or it did not.
Lands ==
    /\ Busy /\ late' = NoCall
    /\ \/ late.op = "write" /\ Writes(late.val)
       \/ late.op = "delete" /\ Deletes(late.val)
       \/ UNCHANGED dns
    /\ UNCHANGED <<order, rows, ca, leases, proc, setting, budget>>

\* The propagation window of a row's challenge passes. The value it was opened for
\* has been written by then, also by a call that timed out.
GrowsOld(a) ==
    /\ rows[a].age = "young"
    /\ \A t \in Tokens : ValueOf(a, t) # late.val
    /\ \A p \in Procs : proc[p].at = a => proc[p].pc \notin {"probe", "present"}
    /\ rows' = [rows EXCEPT ![a].age = "old"]
    /\ proc' = [p \in Procs |-> IF a \in DOMAIN proc[p].mem /\ proc[p].mem[a].age = "young"
                                THEN [proc[p] EXCEPT !.mem[a].age = "old"] ELSE proc[p]]
    /\ UNCHANGED <<order, ca, leases, budget>> /\ UNCHANGED zone

-----------------------------------------------------------------------------
(* The CA                                                                  *)

\* It looks for the value of a challenge it was asked to validate.
Validates(a) ==
    /\ ca[a].status = "pending" /\ ca[a].asked
    /\ ca' = [ca EXCEPT ![a].status =
                IF ValueOf(a, ca[a].tok) \in dns THEN "valid" ELSE "invalid"]
    /\ UNCHANGED <<order, rows, leases, proc, budget>> /\ UNCHANGED zone

\* It closes an authorization, or refuses one for reasons of its own.
Closes(a) ==
    /\ ca[a].status = "pending" /\ Mishap("ca")
    /\ \E s \in {"closed", "invalid"} : ca' = [ca EXCEPT ![a].status = s]
    /\ UNCHANGED <<order, rows, leases, proc>> /\ UNCHANGED zone

\* It names another challenge for an authorization that is still pending.
Rechallenges(a) ==
    /\ ca[a].status = "pending" /\ ca[a].tok < MaxToken /\ Mishap("token")
    /\ ca' = [ca EXCEPT ![a].tok = ca[a].tok + 1, ![a].asked = FALSE]
    /\ UNCHANGED <<order, rows, leases, proc>> /\ UNCHANGED zone

-----------------------------------------------------------------------------
(* solveChallenges                                                         *)

\* The timer loop runs the passes and the sweep one after the other.
MayStart == setting.triggers \/ \A p \in Procs : proc[p] = Idle

\* A pass for a certificate: an order in progress is driven on; a dead, expired
\* or outdated one is discarded; without one, what is left over goes first.
Begin(c) ==
    /\ proc[c].pc = "idle" /\ MayStart
    /\ \/ order[c] # {} /\ Works /\ GoTo(c, "load")
       \/ order[c] # {} /\ Mishap("drop") /\ Step(c, [Discards EXCEPT !.job = "replace"])
       \/ order[c] = {} /\ Works /\ Step(c, [Idle EXCEPT !.pc = "recover", !.job = "orphan"])
    /\ UNCHANGED <<order, rows, ca, leases>> /\ UNCHANGED zone

\* issue: the CA hands out authorizations, fresh ones or ones that are valid. A url
\* is handed out as a fresh one once: the number of urls bounds the orders.
NewOrder(c) ==
    /\ proc[c].pc = "order"
    /\ LET mine == {a \in Urls : CertOf[a] = c}
           fresh == {a \in mine : ca[a].status = "none"}
       IN \/ \E us \in SUBSET (fresh \cup {a \in mine : ca[a].status = "valid"}) :
                /\ us \cap fresh # {}
                /\ order' = [order EXCEPT ![c] = us]
                /\ ca' = [a \in Urls |-> IF a \in us \cap fresh
                                        THEN [NewAuthz EXCEPT !.status = "pending"] ELSE ca[a]]
                /\ GoTo(c, "load") /\ Works
          \/ /\ (fresh = {} /\ Works) \/ Mishap("refuse")
             /\ Ends(c) /\ UNCHANGED <<order, ca>>
    /\ UNCHANGED <<rows, leases>> /\ UNCHANGED zone

\* loadAuthorizations: the rows of the order's authorizations, inserted when
\* missing.
loadAuthorizations(c) ==
    /\ proc[c].pc = "load"
    /\ LET new == {a \in order[c] : ~rows[a].on} IN
       \/ /\ Works
          /\ rows' = [a \in Urls |-> IF a \in new THEN NewRow ELSE rows[a]]
          /\ Step(c, [Idle EXCEPT !.pc = "fetch", !.mem = [a \in order[c] |-> rows'[a]]])
       \/ /\ Mishap("store") /\ Ends(c)
          /\ \E put \in SUBSET new : rows' = [a \in Urls |-> IF a \in put THEN NewRow ELSE rows[a]]
    /\ UNCHANGED <<order, ca, leases>> /\ UNCHANGED zone

\* fetchAuthzs: one answer per authorization, or the pass fails.
fetchAuthzs(c) ==
    /\ proc[c].pc = "fetch"
    /\ \/ Works /\ Step(c, [proc[c] EXCEPT !.pc = "visit", !.todo = DOMAIN proc[c].mem,
                                  !.cur = [a \in DOMAIN proc[c].mem |-> ca[a]]])
       \/ Mishap("refuse") /\ Ends(c)
    /\ UNCHANGED <<order, rows, ca, leases>> /\ UNCHANGED zone

\* Phase 1 goes on with the next authorization. At its end an invalid one costs the
\* order, and with nothing pending only the clean-up is left.
Visited(r0) ==
    LET r == [r0 EXCEPT !.pc = "visit", !.todo = @ \ {r0.at}, !.at = <<>>]
    IN  IF r.todo # {} THEN r
        ELSE IF r.bad THEN Discards
        ELSE IF r.pend = {} THEN CleansUp(r, DOMAIN r.mem)
        ELSE [r EXCEPT !.pc = "lease", !.regs = {ValueOf(a, r.mem[a].val) : a \in r.pend}]

\* An authorization the CA has finished with. Only the write about a valid one
\* ends the pass when it fails.
VisitsClosed(c, a) ==
    /\ proc[c].pc = "visit" /\ a \in proc[c].todo
    /\ proc[c].cur[a].status # "pending"
    /\ LET r == [proc[c] EXCEPT !.at = a]
           next == CASE r.cur[a].status = "valid" -> Visited(r)
                     [] r.cur[a].status = "invalid" -> Visited([r EXCEPT !.bad = TRUE])
                     [] OTHER -> Discards
       IN \/ Works /\ PutAuthorization(a, r.mem[a]) /\ Step(c, next)
          \/ /\ Mishap("store") /\ UNCHANGED rows
             /\ Step(c, IF r.cur[a].status = "valid" THEN Idle ELSE next)
    /\ UNCHANGED <<order, ca, leases>> /\ UNCHANGED zone

\* The row names the record from here on; when that write fails, the record is
\* taken out again.
PersistsPresented(c, r, rs) ==
    \/ /\ Works /\ PutAuthorization(r.at, r.mem[r.at])
       /\ Step(c, Visited([r EXCEPT !.pend = @ \cup {r.at}, !.resumed = @ \cup rs]))
    \/ /\ Mishap("store") /\ UNCHANGED rows
       /\ Step(c, [Idle EXCEPT !.pc = "claim", !.job = "undo", !.at = r.at, !.mem = r.mem])

\* One that is pending and whose record an earlier pass wrote.
Resumes(c, a) ==
    /\ proc[c].pc = "visit" /\ a \in proc[c].todo
    /\ proc[c].cur[a].status = "pending" /\ proc[c].mem[a].presented
    /\ PersistsPresented(c, [proc[c] EXCEPT !.at = a], {a})
    /\ UNCHANGED <<order, ca, leases>> /\ UNCHANGED zone
Persists(c) ==
    /\ proc[c].pc = "persist" /\ PersistsPresented(c, proc[c], {})
    /\ UNCHANGED <<order, ca, leases>> /\ UNCHANGED zone

\* One that is pending and not presented. A row that named another challenge gives
\* its lease up first.
Stale(r, a) == r.mem[a].tok # r.cur[a].tok /\ r.mem[a].val # NoTok
New(c, a) == /\ proc[c].pc = "visit" /\ a \in proc[c].todo
             /\ proc[c].cur[a].status = "pending" /\ ~proc[c].mem[a].presented
ReleasesStale(c, a) ==
    /\ New(c, a) /\ Stale(proc[c], a)
    /\ releaseStaleLease(ValueOf(a, proc[c].mem[a].val), {})
    /\ Step(c, [proc[c] EXCEPT !.pc = "prepare", !.at = a])
    /\ UNCHANGED <<order, rows, ca>> /\ UNCHANGED zone

\* The age goes to disk before the write it is about. The token goes along on a
\* first visit only: a later one may replace the clue to an earlier record.
Clue(m, tok) == IF m.tok = NoTok THEN tok ELSE m.tok
VisitsNew(c, a) ==
    /\ (New(c, a) /\ ~Stale(proc[c], a)) \/ (proc[c].pc = "prepare" /\ proc[c].at = a)
    /\ LET tok == proc[c].cur[a].tok
           old == proc[c].mem[a]
           m == [old EXCEPT !.sent = @ /\ old.tok = tok, !.age = "young"]
       IN \/ /\ Works /\ PutAuthorization(a, [m EXCEPT !.tok = Clue(m, tok)])
             /\ Step(c, [proc[c] EXCEPT !.at = a, !.mem[a] = [m EXCEPT !.tok = tok],
                                        !.pc = IF old.tok = NoTok THEN "present" ELSE "probe"])
          \/ Mishap("store") /\ UNCHANGED rows /\ Ends(c)
    /\ UNCHANGED <<order, ca, leases>> /\ UNCHANGED zone

\* Mutation: the row does not say which value it wrote.
Presented_NoValue(r) == [r EXCEPT !.pc = "persist", !.mem[r.at].presented = TRUE]
Presented(r) ==
    [r EXCEPT !.pc = "persist", !.mem[r.at].presented = TRUE, !.mem[r.at].val = r.mem[r.at].tok]
Wanted(p) == ValueOf(proc[p].at, proc[p].mem[proc[p].at].tok)

\* A later visit looks first: a record that is up is adopted.
Probes(c) ==
    /\ proc[c].pc = "probe"
    /\ \E r \in Lookups(Wanted(c)) :
         IF r = "found" THEN Step(c, Presented(proc[c])) ELSE GoTo(c, "present")
    /\ UNCHANGED <<order, rows, ca, leases, budget>> /\ UNCHANGED zone

\* Present: the write and its lease, under the mutex. A missing zone, a busy slot
\* or the provider's error fails the pass.
Present(c) ==
    /\ proc[c].pc = "present"
    /\ \/ /\ ~Busy /\ Works /\ Writes(Wanted(c)) /\ add(Wanted(c))
          /\ Step(c, Presented(proc[c])) /\ UNCHANGED late
       \/ TimesOut("write", Wanted(c)) /\ Ends(c) /\ UNCHANGED leases
       \/ Refused /\ Ends(c) /\ UNCHANGED leases /\ UNCHANGED zone
    /\ UNCHANGED <<order, rows, ca, setting>>

\* WaitAll registers the leases of every record first, a resumed one included.
Leases(c) ==
    /\ proc[c].pc = "lease"
    /\ \E v \in proc[c].regs : add(v) /\ Step(c, [proc[c] EXCEPT !.regs = @ \ {v},
            !.pc = IF proc[c].regs = {v} THEN "wait" ELSE "lease"])
    /\ UNCHANGED <<order, rows, ca, budget>> /\ UNCHANGED zone

\* The sets of truths about the records with which a round of waitZone can end the
\* wait. "blackout": no server and no resolver answers at all.
Confirmable == [blackout \in BOOLEAN |-> {T \in SUBSET {"everywhere", "somewhere", "nowhere"} :
    \E up \in SUBSET NameServers :
       LET d == Delegation(up) IN
       /\ d.ok
       /\ \E auth \in [T -> [d.servers -> Transport]], rec \in [T -> [{"resolver"} -> Transport]] :
            /\ \A t \in T : /\ \A s \in d.servers : auth[t][s] \in Heard[t]
                           /\ rec[t]["resolver"] \in Heard[t]
                           /\ \/ blackout
                              \/ rec[t]["resolver"] \in {"has", "denies"}
                              \/ \E s \in d.servers : auth[t][s] \in {"has", "denies"}
            /\ waitZone(d.servers, d.delegated, T, auth, rec)}]

\* WaitAll: every record is confirmed. What is still to be accepted, then awaited.
Accepting(r) == IF r.todo # {} THEN [r EXCEPT !.pc = "accept", !.at = <<>>]
                ELSE [r EXCEPT !.pc = "await", !.at = <<>>, !.todo = r.pend]
WaitsAll(c) ==
    /\ proc[c].pc = "wait"
    /\ \E truth \in [proc[c].pend -> {"everywhere", "somewhere", "nowhere"}] :
          /\ \A a \in proc[c].pend : truth[a] \in Truths(ValueOf(a, proc[c].mem[a].val))
          /\ {truth[a] : a \in proc[c].pend} \in Confirmable["blackout" \in setting.faults]
    /\ Step(c, Accepting([proc[c] EXCEPT !.todo = {a \in proc[c].pend : ~proc[c].mem[a].sent}]))
    /\ UNCHANGED <<order, rows, ca, leases, budget>> /\ UNCHANGED zone

\* It gives up: markResumedUnpresented, one write per row, a failed one is logged.
\* A cancelled wait says nothing about the records.
markUnpresented(p) == proc[p].resumed
GivesUpWaiting(c) ==
    /\ proc[c].pc = "wait" /\ Ends(c)
    /\ \/ Mishap("slow") /\ UNCHANGED rows
       \/ \E lost \in SUBSET markUnpresented(c) :
             /\ Mishap(IF lost = {} THEN "slow" ELSE "store")
             /\ rows' = [a \in Urls |->
                    IF a \in markUnpresented(c) \ lost
                    THEN Stored(a, [proc[c].mem[a] EXCEPT !.presented = FALSE]) ELSE rows[a]]
    /\ UNCHANGED <<order, ca, leases>> /\ UNCHANGED zone

\* Phase 3: the CA is told to look. It refuses a challenge it no longer has; an
\* answer may be lost.
Accepts(c, a) ==
    /\ proc[c].pc = "accept" /\ a \in proc[c].todo
    /\ LET open == ca[a].status = "pending" /\ ca[a].tok = proc[c].cur[a].tok IN
       \/ /\ open /\ ca' = [ca EXCEPT ![a].asked = TRUE] /\ Works
          /\ Step(c, [proc[c] EXCEPT !.pc = "sent", !.at = a, !.mem[a].sent = TRUE])
       \/ open /\ ca' = [ca EXCEPT ![a].asked = TRUE] /\ Mishap("refuse") /\ Ends(c)
       \/ ~open /\ UNCHANGED ca /\ Works /\ Ends(c)
    /\ UNCHANGED <<order, rows, leases>> /\ UNCHANGED zone
RecordsSent(c) ==
    /\ proc[c].pc = "sent"
    /\ LET a == proc[c].at IN
       \/ /\ Works /\ PutAuthorization(a, proc[c].mem[a])
          /\ Step(c, Accepting([proc[c] EXCEPT !.todo = @ \ {a}]))
       \/ Mishap("store") /\ UNCHANGED rows /\ Ends(c)
    /\ UNCHANGED <<order, ca, leases>> /\ UNCHANGED zone

\* awaitAuthorizations, one poll: transitions are written, an invalid one costs the
\* order, and the pass may run out of time or of answers.
Polls(c) ==
    /\ proc[c].pc = "await"
    /\ LET r == proc[c]
           over == {a \in r.todo : ca[a].status # r.cur[a].status}
           left == {a \in r.todo : ca[a].status \notin {"valid", "invalid"}}
       IN \/ /\ over # {} /\ Works
             /\ rows' = [a \in Urls |-> IF a \in over THEN Stored(a, r.mem[a]) ELSE rows[a]]
             /\ Step(c, IF \E a \in over : ca[a].status = "invalid" THEN Discards
                        ELSE IF left = {} THEN CleansUp(r, r.pend)
                        ELSE [r EXCEPT !.todo = left, !.cur = [a \in DOMAIN r.cur |-> ca[a]]])
          \/ over # {} /\ Mishap("store") /\ UNCHANGED rows /\ Ends(c)
          \/ Mishap("slow") /\ UNCHANGED rows /\ Ends(c)
    /\ UNCHANGED <<order, ca, leases>> /\ UNCHANGED zone

-----------------------------------------------------------------------------
(* Clean-up: of a pass that is through, of a row whose write failed, of an   *)
(* order that goes away, of what is left over, and of the rows that are stuck*)

\* SweepStuckTXT is called when a timer round ends.
BeginsSweep ==
    /\ proc[Sweeper].pc = "idle" /\ MayStart /\ ListStuckTXTReclaims # {}
    /\ Step(Sweeper, [Idle EXCEPT !.pc = "recover", !.job = "sweep"])
    /\ UNCHANGED <<order, rows, ca, leases, budget>> /\ UNCHANGED zone

\* registerRecoveredLeases: the presented rows are listed, then their leases are
\* added one by one under the mutex. A list that fails is only logged.
Recovered == PresentedValues
Recovers(p) ==
    /\ proc[p].pc = "recover"
    /\ \/ Works /\ Step(p, [proc[p] EXCEPT !.pc = "register", !.regs = Recovered])
       \/ Mishap("store") /\ Step(p, [proc[p] EXCEPT !.pc = "register"])
    /\ UNCHANGED <<order, rows, ca, leases>> /\ UNCHANGED zone
Registers(p) ==
    /\ proc[p].pc = "register"
    /\ \E v \in proc[p].regs : add(v) /\ Step(p, [proc[p] EXCEPT !.regs = @ \ {v}])
    /\ UNCHANGED <<order, rows, ca, budget>> /\ UNCHANGED zone

\* The rows the clean-up walks: those of the pass, of the certificate, or the
\* stuck ones. Without them only a discard goes on.
Lists(p) ==
    /\ proc[p].pc = "register" /\ proc[p].regs = {}
    /\ LET them == IF p = Sweeper THEN ListStuckTXTReclaims ELSE RowsOf(p) IN
       \/ /\ Works
          /\ Step(p, IF proc[p].job = "cleanup" THEN [proc[p] EXCEPT !.pc = "clean"]
                     ELSE [proc[p] EXCEPT !.pc = "clean", !.todo = them, !.mem = [a \in them |-> rows[a]]])
       \/ /\ proc[p].job # "cleanup" /\ Mishap("store")
          /\ Step(p, IF proc[p].job = "sweep" THEN Idle ELSE [proc[p] EXCEPT !.pc = "clean"])
    /\ UNCHANGED <<order, rows, ca, leases>> /\ UNCHANGED zone

\* The next row. A presented one is claimed and removed; one with a token may still
\* have its record up, so DNS is asked; one without never reached DNS.
Asks(p, a) == proc[p].job # "cleanup" /\ ~proc[p].mem[a].presented /\ proc[p].mem[a].tok # NoTok
Passed(p) == [proc[p] EXCEPT !.pc = "clean", !.todo = @ \ {proc[p].at}, !.at = <<>>, !.early = FALSE]
Takes(p, a) ==
    /\ proc[p].pc = "clean" /\ a \in proc[p].todo /\ ~Asks(p, a)
    /\ Step(p, [proc[p] EXCEPT !.at = a, !.pc = IF proc[p].mem[a].presented THEN "claim" ELSE "gone"])
    /\ UNCHANGED <<order, rows, ca, leases, budget>> /\ UNCHANGED zone

\* reclaimUnpresentedTXT: a denial counts once the challenge is older than the
\* propagation window.
\* Mutation: a denial is believed at once.
Believes_AtOnce(m) == TRUE
Believes(m) == m.age # "young"
Looks(p, a) ==
    /\ proc[p].pc = "clean" /\ a \in proc[p].todo /\ Asks(p, a)
    /\ \E r \in Lookups(ValueOf(a, proc[p].mem[a].tok)) :
          Step(p, CASE r = "unknown" -> [proc[p] EXCEPT !.at = a, !.pc = "kept"]
                    [] r = "found" -> [proc[p] EXCEPT !.at = a, !.pc = "claim"]
                    [] r = "absent" /\ Believes(proc[p].mem[a]) -> [proc[p] EXCEPT !.at = a, !.pc = "drop"]
                    [] OTHER -> [proc[p] EXCEPT !.todo = @ \ {a}])
    /\ UNCHANGED <<order, rows, ca, leases, budget>> /\ UNCHANGED zone
\* The value is proved absent: its lease goes.
Drops(p) ==
    /\ proc[p].pc = "drop" /\ releaseStaleLease(Wanted(p), {})
    /\ GoTo(p, "gone")
    /\ UNCHANGED <<order, rows, ca>> /\ UNCHANGED zone

\* removeAuthzTXT: the lease of the value that is about to go is added without the
\* mutex; the lease of another value the row names is released under it.
Claims(p) ==
    /\ proc[p].pc = "claim" /\ add(Wanted(p))
    /\ LET m == proc[p].mem[proc[p].at] IN
       GoTo(p, IF m.val \notin {NoTok, m.tok} THEN "release" ELSE "remove")
    /\ UNCHANGED <<order, rows, ca, budget>> /\ UNCHANGED zone
releaseRowStaleLease(p) ==
    /\ proc[p].pc = "release"
    /\ releaseStaleLease(ValueOf(proc[p].at, proc[p].mem[proc[p].at].val), {proc[p].at})
    /\ GoTo(p, "remove")
    /\ UNCHANGED <<order, rows, ca>> /\ UNCHANGED zone

\* CleanUp, under the mutex of the name: the lease goes first; the provider is called
\* unless it deletes all and others still need theirs. The delete is done, refused,
\* or left hanging. A provider that deletes its own records may not know one of an
\* earlier process or from before its token was renewed; newCloudflareTXTRecovery
\* then deletes the exact pair, and when that fails too the error says so.
\* Mutation: the provider is called whoever else has a value there.
LeavesToOthers_Never(v) == FALSE
LeavesToOthers(v) == OthersLive(v) /\ ~valueScopedCleanup
CleanUp(p) ==
    /\ proc[p].pc = "remove" /\ remove(Wanted(p))
    /\ IF LeavesToOthers(Wanted(p)) THEN Works /\ GoTo(p, "gone") /\ UNCHANGED zone
       ELSE \/ ~Busy /\ Works /\ Deletes(Wanted(p)) /\ GoTo(p, "gone") /\ UNCHANGED late
            \/ TimesOut("delete", Wanted(p)) /\ GoTo(p, "kept")
            \/ Refused /\ GoTo(p, "kept") /\ UNCHANGED zone
            \/ /\ ~Busy /\ valueScopedCleanup /\ Refused /\ UNCHANGED zone
               /\ GoTo(p, IF proc[p].mem[proc[p].at].presented THEN "kept" ELSE "relook")
    /\ UNCHANGED <<order, rows, ca, setting>>

\* It may have forgotten the record because it is gone: DNS is asked again.
LooksAgain(p) ==
    /\ proc[p].pc = "relook"
    /\ \E r \in Lookups(Wanted(p)) :
          Step(p, [proc[p] EXCEPT !.pc = IF r = "absent" THEN "drop" ELSE "kept",
                                  !.early = r = "absent" /\ ~Believes(proc[p].mem[proc[p].at])])
    /\ UNCHANGED <<order, rows, ca, leases, budget>> /\ UNCHANGED zone

\* The record is out: the clean-up of a pass flips its row, the others delete it.
\* A write that fails is only logged.
After(p) == IF proc[p].job = "undo" THEN Idle ELSE Passed(p)
Gone(p) ==
    /\ proc[p].pc = "gone" /\ Step(p, After(p))
    /\ LET a == proc[p].at IN
       \/ /\ Works
          /\ CASE proc[p].job = "undo" -> UNCHANGED rows
               [] proc[p].job = "cleanup" -> PutAuthorization(a, [proc[p].mem[a] EXCEPT !.presented = FALSE])
               [] OTHER -> DeleteAuthorization(a)
       \/ proc[p].job # "undo" /\ Mishap("store") /\ UNCHANGED rows
    /\ UNCHANGED <<order, ca, leases>> /\ UNCHANGED zone

\* It is not: the row stays, stamped as stuck unless a pass was cleaning up.
\* Mutation: the row goes anyway.
Keeps_Nothing(p, a) == DeleteAuthorization(a)
Keeps(p, a) == IF proc[p].job \in {"cleanup", "undo"} THEN UNCHANGED rows ELSE MarkTXTReclaimStuck(a)
Kept(p) ==
    /\ proc[p].pc = "kept" /\ Step(p, After(p))
    /\ \/ Works /\ Keeps(p, proc[p].at)
       \/ proc[p].job \notin {"cleanup", "undo"} /\ Mishap("store") /\ UNCHANGED rows
    /\ UNCHANGED <<order, ca, leases>> /\ UNCHANGED zone

\* All rows were walked. A pass that is through finalizes, downloads and deploys,
\* and its epilogue cleans up once more before the order goes; a discarded order
\* goes whatever was cleaned.
CleanedAll(p) ==
    /\ proc[p].pc = "clean" /\ proc[p].todo = {}
    /\ LET job == proc[p].job
           Orders == Step(p, [Idle EXCEPT !.pc = "order"])
       IN \/ job = "cleanup" /\ Mishap("refuse") /\ UNCHANGED order /\ Ends(p)
          \/ job = "cleanup" /\ Works /\ UNCHANGED order
             /\ Step(p, [Idle EXCEPT !.pc = "recover", !.job = "epilogue"])
          \/ job \in {"discard", "replace", "epilogue"} /\ Works /\ order' = [order EXCEPT ![p] = {}]
             /\ IF job = "replace" THEN Orders ELSE Ends(p)
          \/ job \in {"discard", "replace", "epilogue"} /\ Mishap("store") /\ UNCHANGED order /\ Ends(p)
          \/ job = "orphan" /\ Works /\ UNCHANGED order /\ Orders
          \/ job = "sweep" /\ Works /\ UNCHANGED order /\ Ends(p)
    /\ UNCHANGED <<rows, ca, leases>> /\ UNCHANGED zone

-----------------------------------------------------------------------------
\* The process dies; a new one knows the rows. A call in flight has its effect or not.
Crash ==
    /\ Mishap("crash")
    /\ proc' = [p \in Procs |-> Idle] /\ leases' = {}
    /\ late' = NoCall
    /\ \/ late.op = "write" /\ dns' = dns \cup {late.val}
       \/ late.op = "delete" /\ dns' = DeleteLeaves(late.val)
       \/ UNCHANGED dns
    /\ UNCHANGED <<order, rows, ca, setting>>

Pass(c) ==
    \/ Begin(c) \/ NewOrder(c) \/ loadAuthorizations(c) \/ fetchAuthzs(c)
    \/ \E a \in Urls : \/ VisitsClosed(c, a) \/ Resumes(c, a) \/ ReleasesStale(c, a)
                       \/ VisitsNew(c, a) \/ Accepts(c, a)
    \/ Probes(c) \/ Present(c) \/ Persists(c) \/ Leases(c) \/ WaitsAll(c) \/ GivesUpWaiting(c)
    \/ RecordsSent(c) \/ Polls(c)
Cleaning(p) ==
    \/ Recovers(p) \/ Registers(p) \/ Lists(p)
    \/ \E a \in Urls : Takes(p, a) \/ Looks(p, a)
    \/ Drops(p) \/ Claims(p) \/ releaseRowStaleLease(p) \/ CleanUp(p)
    \/ LooksAgain(p) \/ Gone(p) \/ Kept(p) \/ CleanedAll(p)

Next ==
    \/ \E c \in Certs : Pass(c)
    \/ \E p \in Procs : Cleaning(p)
    \/ BeginsSweep \/ Lands \/ Crash
    \/ \E a \in Urls : GrowsOld(a) \/ Validates(a) \/ Closes(a) \/ Rechallenges(a)

Spec == Init /\ [][Next]_vars

-----------------------------------------------------------------------------
(* Properties                                                              *)

\* The shape of the state.
TypeOK ==
    /\ \A c \in Certs : \A a \in order[c] : CertOf[a] = c
    /\ \A a \in Urls : rows[a].tok \in Tokens \cup {NoTok} /\ rows[a].val \in Tokens \cup {NoTok}
    /\ dns \subseteq Values /\ leases \subseteq Values
    /\ \A a \in Urls : rows[a].presented => rows[a].tok # NoTok /\ rows[a].val # NoTok

\* A record the CA was or is about to be told to look at stays up while the pass
\* waits for the verdict, whoever else cleans up at the name (challengeLeases).
AwaitedStays ==
    \A c \in Certs : proc[c].pc \in {"accept", "sent", "await"} =>
        \A a \in proc[c].pend : ca[a].status = "pending" => ValueOf(a, proc[c].mem[a].val) \in dns

\* Is somebody dropping a's row on an early denial?
Trusting(a) == \E p \in Procs : proc[p].at = a /\ proc[p].early

\* What a call that timed out may still write.
Unwritten == IF late.op = "write" THEN {late.val} ELSE {}

\* Without overlap a row goes only when its record is down, also the one a call that
\* timed out may still write, or when a lease or another row will have everything at
\* the name deleted later (CleanUp: the last leaver's single call removes what the
\* earlier ones skipped; cleanupOrphanTXT: a row is all that names a record). Of an
\* earlier challenge of the row too. Under a provider that deletes by value that is not
\* so, nor of a young one it had forgotten: LooksAgain believes a denial at once.
RowOutlivesRecord ==
    [][~setting.triggers => \A a \in Urls : rows[a].on /\ ~rows'[a].on =>
         \A t \in Tokens :
            \/ ValueOf(a, t) \notin dns \cup Unwritten
            \/ leases \ {ValueOf(a, t)} # {}
            \/ \E b \in Urls \ {a} : rows[b].on /\ rows[b].tok # NoTok
            \/ valueScopedCleanup /\ (t \notin {rows[a].tok, rows[a].val} \/ Trusting(a))]_vars

\* Under either kind of provider and whatever goes wrong: the record of the challenge a row
\* names is down, or will not be written any more, or another lease will have it deleted.
NamedRecordFirst ==
    [][~setting.triggers => \A a \in Urls : rows[a].on /\ ~rows'[a].on /\ rows[a].tok # NoTok =>
         LET v == ValueOf(a, rows[a].tok) IN
            \/ v \notin dns \cup Unwritten \/ leases \ {v} # {}
            \/ valueScopedCleanup /\ Trusting(a)]_vars
=============================================================================
