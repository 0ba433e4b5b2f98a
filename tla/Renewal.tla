------------------------------ MODULE Renewal ------------------------------
(***************************************************************************)
(* One certificate of internal/acme, from the decision to renew it to the  *)
(* reclaim of the copies it leaves in the cloud account.                   *)
(*                                                                         *)
(* Four parties share the state: the reconcile pass (one at a time: it     *)
(* holds the certificate's claim), the reaper that ends every wrap-up, the *)
(* pending-binding refresh (a timer and a console button, which take no    *)
(* claim) and the outside world - the CA, the cloud's asynchronous switch  *)
(* task, the operator who binds a listener, the clock and the power cord.  *)
(*                                                                         *)
(* A certificate is the number of the order that issued it, so "newer" is  *)
(* ">". A cloud copy is an id the upload returns; the upload is repeatable *)
(* (deploy/tencent_upload.go), so an id is never returned twice. A store   *)
(* write is one atomic step that may fail; a pass is a sequence of store   *)
(* calls, CA calls and cloud calls, and everything else may happen between *)
(* two of them.                                                            *)
(***************************************************************************)
EXTENDS Integers, FiniteSets

CONSTANTS
    Ids,               \* cloud certificate ids an upload may return
    NoId,              \* the empty CertId
    Listeners,         \* CLB listeners the operator may bind
    Configs,           \* [ids, deploy]: the certificate's configuration
    MaxOrders,         \* bound: orders the CA ever creates
    MaxFetchFailures,  \* maxOrderFetchFailures
    MaxMishaps,        \* bound: failed store calls, kills and configuration edits
    OrdersDie,         \* may an order expire, or its URL stop answering?
    CalmOperator,      \* does the operator act only while nothing is in flight?
    RefreshOn          \* does the pending-binding refresh run?

Certs == 1..MaxOrders
DomainSets == {c.ids : c \in Configs}
NoIds == "none"

ASSUME IdsAssumption == NoId \notin Ids
ASSUME OrdersAssumption == MaxOrders \in Nat \ {0}
ASSUME ConfigsAssumption ==
    /\ \A c \in Configs : c = [ids |-> c.ids, deploy |-> c.deploy]
    /\ \A c \in Configs : c.deploy \in BOOLEAN /\ c.ids # NoIds
ASSUME BoundsAssumption ==
    /\ MaxFetchFailures \in Nat \ {0}
    /\ MaxMishaps \in Nat
ASSUME ModesAssumption ==
    OrdersDie \in BOOLEAN /\ CalmOperator \in BOOLEAN /\ RefreshOn \in BOOLEAN

VARIABLES
    \* state.db
    row,        \* certificates: [cert, dep, conf, wait]
    order,      \* orders: [n, ids, dep, expired]; n = 0 is "no order"
    retired,    \* retired_certificates
    abandoned,  \* ids no row names any more: given up, with only a log line
    \* the CA and the cloud account
    placed,     \* orders the CA has created
    ca,         \* status of each order at the CA
    certOf,     \* cloud id -> the certificate uploaded under it (0: unused)
    deleted,    \* cloud ids deleted from the account
    bound,      \* listener -> the cloud id it serves
    task,       \* the cloud's switch task
    \* the process
    desired,    \* the current configuration
    pc,         \* where the reconcile pass is; "idle" between passes
    pass,       \* what it carries
    refresh,    \* the pending-binding refresh
    reaping,    \* id whose cloud copy is gone and whose reclaim row is not
    mem,        \* Manager's memory: transientBackoff, orderFetchFails
    mishaps,    \* failed store calls, kills and edits so far
    \* history
    served,     \* ids that some listener has served
    hot         \* a pass has failed and its backoff has not elapsed

store == <<row, order, retired, abandoned>>
cloud == <<certOf, deleted, bound, task, served>>
acme == <<placed, ca>>
vars == <<row, order, retired, abandoned, placed, ca, certOf, deleted, bound,
          task, desired, pc, pass, refresh, reaping, mem, mishaps, served, hot>>

-----------------------------------------------------------------------------
BlankRow == [cert |-> 0, dep |-> NoId, conf |-> FALSE, wait |-> FALSE]
NoOrder == [n |-> 0, ids |-> NoIds, dep |-> NoId, expired |-> FALSE]
NoTask == [from |-> NoId, to |-> NoId, todo |-> {}, failed |-> FALSE]
NoRefresh == [on |-> FALSE, st |-> BlankRow, seen |-> FALSE]
NoConfig == [ids |-> NoIds, deploy |-> FALSE]
FreshMem == [wait |-> FALSE, fetch |-> 0]

\* The pass between two calls: its copy of the row (st), the configuration it
\* was handed, the uploaded id, how the switch ended, the id orphanToRecord
\* chose and where the pass goes once the order is discarded.
Blank == [st |-> BlankRow, cfg |-> NoConfig, new |-> NoId,
         out |-> "none", err |-> "none", orphan |-> NoId, then |-> "none"]

BoundTo(id) == {l \in Listeners : bound[l] = id}
InProgress(t) == t.todo # {}
Tracked == (({row.dep, order.dep} \cup retired) \ {NoId})

running == <<pc, pass>>
Goto(next) == pc' = next /\ UNCHANGED pass
GiveUp == Goto("fail")
Finish == pc' = "idle" /\ pass' = Blank

\* Mishaps are counted, and bounded.
Mishap(k) == /\ mishaps + k <= MaxMishaps
             /\ mishaps' = mishaps + k

\* A store call either works or fails.
Works == UNCHANGED mishaps
Fails == Mishap(1)

\* AddRetiredCert, an upsert. (The retention period it starts is time, which
\* the model leaves free: any listed copy may be past it.)
AddRetired(ids) == retired' = retired \cup ids

Init ==
    /\ row = BlankRow /\ order = NoOrder
    /\ retired = {} /\ abandoned = {}
    /\ placed = 0 /\ ca = [n \in Certs |-> "none"]
    /\ certOf = [id \in Ids |-> 0] /\ deleted = {}
    /\ bound = [l \in Listeners |-> NoId] /\ task = NoTask
    /\ desired \in {c \in Configs : c.deploy}
    /\ pc = "idle" /\ pass = Blank /\ refresh = NoRefresh /\ reaping = NoId
    /\ mem = FreshMem
    /\ mishaps = 0
    /\ served = {} /\ hot = FALSE

-----------------------------------------------------------------------------
(* The pass: Manager.Reconcile                                             *)

\* The row is read and no retry is scheduled, in memory or in the row.
Begin ==
    /\ pc = "idle"
    /\ ~mem.wait /\ ~row.wait
    /\ pc' = "lookup" /\ pass' = [Blank EXCEPT !.st = row, !.cfg = desired]
    /\ UNCHANGED <<store, acme, cloud, desired, refresh, reaping, mem, mishaps, hot>>

\* setTransientBackoff keeps the deadline of a failure that could not be written.
\* Mutation: nothing keeps it.
KeepDeadline_Nowhere == UNCHANGED mem
KeepDeadline == mem' = [mem EXCEPT !.wait = TRUE]

\* recordFailureUnreadable writes the failure columns and nothing else.
\* Mutation: it persists a row synthesised from the name.
FailureColumns_Synthesised == [BlankRow EXCEPT !.wait = TRUE]
FailureColumns == [row EXCEPT !.wait = TRUE]

\* The row cannot be read: only the failure columns are written; when that
\* write fails too the deadline is kept in memory.
BeginUnreadable ==
    /\ pc = "idle"
    /\ \/ /\ Mishap(1)
          /\ row' = FailureColumns
          /\ UNCHANGED mem
       \/ /\ Mishap(2)
          /\ KeepDeadline
          /\ UNCHANGED row
    /\ hot' = TRUE
    /\ UNCHANGED <<order, retired, abandoned, acme, cloud, desired, running, refresh, reaping>>

\* Past its expiry, or for other identifiers than the configured ones.
\* Mutation: the expiry is not looked at.
OrderIsDead_NoExpiry == order.ids # pass.cfg.ids
OrderIsDead == order.expired \/ order.ids # pass.cfg.ids

\* continueOrDropOrder: an order in progress is advanced, and dropped when it
\* is dead.
ReadOrder ==
    /\ pc = "lookup"
    /\ \/ Fails /\ GiveUp
       \/ /\ Works
          /\ \/ order.n = 0 /\ Goto("decide")
             \/ /\ order.n # 0 /\ OrderIsDead
                /\ pc' = "discard" /\ pass' = [pass EXCEPT !.then = "decide"]
             \/ order.n # 0 /\ ~OrderIsDead /\ Goto("advance")
    /\ UNCHANGED <<store, acme, cloud, desired, refresh, reaping, mem, hot>>

\* orphanToRecord: the order's uploaded id goes on the reclaim list unless it is
\* the live one: the id being promoted, or the row's when nothing is promoted.
\* Mutation: it is compared with the row even while another id is promoted.
Orphan_StaleRow(live) == IF order.dep = row.dep THEN NoId ELSE order.dep
Orphan(live) == IF order.dep = live THEN NoId ELSE order.dep

ChooseOrphan(live, next) ==
    \/ /\ Works
       /\ pc' = next /\ pass' = [pass EXCEPT !.orphan = Orphan(live)]
       /\ UNCHANGED abandoned
    \/ /\ Fails   \* the order is unreadable: its upload may be left unreclaimed
       /\ Goto(next)
       /\ abandoned' = abandoned \cup ({order.dep} \ {NoId, live})

Discard ==
    /\ pc = "discard"
    /\ \/ ChooseOrphan(row.dep, "drop")
       \/ /\ Fails   \* the row is unreadable: err toward reclaiming
          /\ pc' = "drop" /\ pass' = [pass EXCEPT !.orphan = order.dep]
          /\ UNCHANGED abandoned
    /\ UNCHANGED <<row, order, retired, acme, cloud, desired, refresh, reaping, mem, hot>>

\* discardOrder's transaction: the reclaim row and the order's deletion, or
\* neither.
OrderDropped ==
    /\ AddRetired({pass.orphan} \ {NoId})
    /\ order' = NoOrder
    /\ mem' = [mem EXCEPT !.fetch = 0]
    /\ \/ pass.then = "idle" /\ Finish
       \/ /\ pass.then # "idle"
          /\ pc' = pass.then /\ pass' = [pass EXCEPT !.then = "none", !.orphan = NoId]

DropFails == GiveUp /\ UNCHANGED <<order, retired, mem>>

DropOrder ==
    /\ pc = "drop"
    /\ \/ Works /\ OrderDropped
       \/ Fails /\ DropFails
    /\ UNCHANGED <<row, abandoned, acme, cloud, desired, refresh, reaping, hot>>

\* confirmBindingIfDue: an uploaded, unconfirmed copy that a listener serves is
\* confirmed. The throttle decides whether the lookup is made; a failed write
\* is only logged, and the pass goes on with the flag set in its own copy.
ConfirmBinding ==
    /\ pc = "decide"
    /\ pass.cfg.deploy /\ pass.st.cert # 0
    /\ pass.st.dep # NoId /\ ~pass.st.conf /\ BoundTo(pass.st.dep) # {}
    /\ pass' = [pass EXCEPT !.st.conf = TRUE] /\ UNCHANGED pc
    /\ \/ Works /\ row' = [pass.st EXCEPT !.conf = TRUE]
       \/ Fails /\ UNCHANGED row
    /\ UNCHANGED <<order, retired, abandoned, acme, cloud, desired, refresh, reaping, mem, hot>>

\* No certificate yet, a drifted name set or a renewal that is due: issue.
\* Otherwise the pass has nothing to do. (Whether a renewal is due - ARI or the
\* threshold - is left open.)
Decide ==
    /\ pc = "decide"
    /\ \/ Goto("issue")
       \/ pass.st.cert # 0 /\ Finish
    /\ UNCHANGED <<store, acme, cloud, desired, refresh, reaping, mem, mishaps, hot>>

\* issue: a cooldown or a recorded refusal stops it, the CA may refuse, or the
\* order exists at the CA - and nowhere else until Record.
Issue ==
    /\ pc = "issue"
    /\ \/ GiveUp /\ UNCHANGED acme
       \/ /\ placed < MaxOrders
          /\ placed' = placed + 1
          /\ ca' = [ca EXCEPT ![placed + 1] = "open"]
          /\ Goto("record")
    /\ UNCHANGED <<store, cloud, desired, refresh, reaping, mem, mishaps, hot>>

Record ==
    /\ pc = "record"
    /\ \/ /\ Works
          /\ order' = [NoOrder EXCEPT !.n = placed, !.ids = pass.cfg.ids]
          /\ Goto("advance")
       \/ Fails /\ GiveUp /\ UNCHANGED order
    /\ UNCHANGED <<row, retired, abandoned, acme, cloud, desired, refresh, reaping, mem, hot>>

\* noteOrderFetchFailure: a URL that fails MaxFetchFailures times in a row is
\* treated as dead.
\* Mutation: nothing counts the failures out.
FetchFails_Forever ==
    /\ pc = "advance" /\ OrdersDie
    /\ mem' = [mem EXCEPT !.fetch = @ + 1]
    /\ GiveUp
    /\ UNCHANGED <<store, acme, cloud, desired, refresh, reaping, mishaps, hot>>

FetchFails ==
    /\ pc = "advance" /\ OrdersDie
    /\ \/ /\ mem.fetch + 1 < MaxFetchFailures
          /\ mem' = [mem EXCEPT !.fetch = @ + 1]
          /\ GiveUp
       \/ /\ mem.fetch + 1 >= MaxFetchFailures
          /\ mem' = [mem EXCEPT !.fetch = 0]
          /\ pc' = "discard" /\ pass' = [pass EXCEPT !.then = "fail"]
    /\ UNCHANGED <<store, acme, cloud, desired, refresh, reaping, mishaps, hot>>

\* advance: the order is fetched and persisted, then its status decides.
Advance ==
    /\ pc = "advance"
    /\ mem' = [mem EXCEPT !.fetch = 0]
    /\ \/ Fails /\ GiveUp
       \/ /\ Works
          /\ \/ ca[order.n] = "invalid"
                /\ pc' = "discard" /\ pass' = [pass EXCEPT !.then = "fail"]
             \/ ca[order.n] = "valid" /\ Goto("download")
             \/ ca[order.n] \in {"open", "processing"} /\ Goto("solve")
    /\ UNCHANGED <<store, acme, cloud, desired, refresh, reaping, hot>>

\* solveChallenges, finalize and the waits between them: the CSR is submitted
\* once, and a pass that sees neither outcome in time fails and leaves the
\* order for the next one.
Solve ==
    /\ pc = "solve"
    /\ \/ GiveUp /\ Works /\ UNCHANGED ca
       \/ /\ ca[order.n] = "open"
          /\ ca' = [ca EXCEPT ![order.n] = "processing"]
          /\ Works /\ UNCHANGED running
       \/ /\ ca[order.n] = "valid"
          /\ UNCHANGED ca
          /\ \/ Works /\ Goto("download")
             \/ Fails /\ GiveUp
    /\ UNCHANGED <<store, placed, cloud, desired, refresh, reaping, mem, hot>>

\* download, up to the deploy: a certificate that is already live only finishes
\* its order; the gates (coverage, newer than the live one, key) may refuse.
Download ==
    /\ pc = "download"
    /\ \/ GiveUp
       \/ /\ pass.st.cert = order.n
          /\ pc' = "discard" /\ pass' = [pass EXCEPT !.then = "idle"]
       \/ /\ pass.st.cert < order.n
          /\ \/ /\ ~pass.cfg.deploy
                /\ pc' = "promote" /\ pass' = [pass EXCEPT !.out = "off"]
             \/ /\ pass.cfg.deploy /\ order.dep = NoId
                /\ Goto("upload")
             \/ /\ pass.cfg.deploy /\ order.dep # NoId
                /\ pc' = "switch" /\ pass' = [pass EXCEPT !.new = order.dep]
    /\ UNCHANGED <<store, acme, cloud, desired, refresh, reaping, mem, mishaps, hot>>

\* Upload: the copy exists in the account; no row names it until Anchor.
Upload ==
    /\ pc = "upload"
    /\ \/ GiveUp /\ UNCHANGED certOf
       \/ \E id \in Ids :
            /\ certOf[id] = 0
            /\ certOf' = [certOf EXCEPT ![id] = order.n]
            /\ pc' = "anchor" /\ pass' = [pass EXCEPT !.new = id]
    /\ UNCHANGED <<store, acme, deleted, bound, task, served, desired, refresh,
                   reaping, mem, mishaps, hot>>

\* The id is recorded in the order as the resume anchor; when that write fails
\* it goes on the reclaim list instead, and when both fail only the log has it.
Anchor ==
    /\ pc = "anchor"
    /\ \/ /\ Works
          /\ order' = [order EXCEPT !.dep = pass.new]
          /\ Goto("switch")
          /\ UNCHANGED <<retired, abandoned>>
       \/ /\ Fails /\ GiveUp
          /\ AddRetired({pass.new})
          /\ UNCHANGED <<order, abandoned>>
       \/ /\ Mishap(2)
          /\ GiveUp
          /\ abandoned' = abandoned \cup {pass.new}
          /\ UNCHANGED <<order, retired>>
    /\ UNCHANGED <<row, acme, cloud, desired, refresh, reaping, mem, hot>>

-----------------------------------------------------------------------------
(* The switch: deployUploaded, updateInstance, waitDeployRecord            *)

SwitchDone == pc' = "promote" /\ pass' = [pass EXCEPT !.out = "rebound"]
SwitchError(e) == pc' = "enumNew" /\ pass' = [pass EXCEPT !.err = e]

\* UpdateCertificateInstance from the row's id to the new one: nothing to do on
\* a first upload; an API error; a task of the same old certificate that is
\* still running is adopted; otherwise a task over what the old one serves.
Switch ==
    /\ pc = "switch"
    /\ \/ /\ pass.st.dep = NoId
          /\ pc' = "promote" /\ pass' = [pass EXCEPT !.out = "first"]
          /\ UNCHANGED task
       \/ /\ pass.st.dep # NoId
          /\ SwitchError("failed") /\ UNCHANGED task
       \/ /\ pass.st.dep # NoId
          /\ InProgress(task) /\ task.from = pass.st.dep
          /\ Goto("adopt") /\ UNCHANGED task
       \/ /\ pass.st.dep # NoId /\ BoundTo(pass.st.dep) # {}
          /\ ~(InProgress(task) /\ task.from = pass.st.dep)
          /\ task' = [from |-> pass.st.dep, to |-> pass.new,
                      todo |-> BoundTo(pass.st.dep), failed |-> FALSE]
          /\ Goto("wait")
    /\ UNCHANGED <<store, acme, certOf, deleted, bound, served, desired, refresh,
                   reaping, mem, mishaps, hot>>

\* Its own task: done, finished with failures, or not finished in three minutes
\* - in which case the cloud goes on with it.
TaskSucceeded == ~InProgress(task) /\ ~task.failed

AwaitSwitch ==
    /\ pc = "wait"
    /\ \/ TaskSucceeded /\ SwitchDone /\ task' = NoTask
       \/ ~InProgress(task) /\ ~TaskSucceeded /\ SwitchError("failed") /\ task' = NoTask
       \/ InProgress(task) /\ SwitchError("failed") /\ UNCHANGED task
    /\ UNCHANGED <<store, acme, certOf, deleted, bound, served, desired, refresh,
                   reaping, mem, mishaps, hot>>

\* Somebody else's task: once it is finished the new certificate must turn out
\* to be bound; an enumeration that does not answer leaves that unverified.
AwaitAdopted ==
    /\ pc = "adopt"
    /\ \/ InProgress(task) /\ SwitchError("failed") /\ UNCHANGED task
       \/ ~InProgress(task) /\ ~TaskSucceeded /\ SwitchError("failed") /\ task' = NoTask
       \/ /\ TaskSucceeded
          /\ task' = NoTask
          /\ \/ BoundTo(pass.new) # {} /\ SwitchDone
             \/ BoundTo(pass.new) = {} /\ SwitchError("failed")
             \/ SwitchError("unverified")
    /\ UNCHANGED <<store, acme, certOf, deleted, bound, served, desired, refresh,
                   reaping, mem, mishaps, hot>>

\* A failed update is judged by two enumerations. Nothing bound to either, both
\* complete: there was nothing to switch. The new one bound, the old one
\* completely not: the switch happened unrecorded. Anything else stands.
Verdict ==
    \/ pass.err # "unverified" /\ GiveUp
    \/ /\ pass.err = "unverified"
       /\ pc' = "promote" /\ pass' = [pass EXCEPT !.out = "unverified", !.err = "none"]

\* Mutation: a bound new certificate is enough, whatever the old one serves.
AfterNewEnumerated_NewIsEnough ==
    \/ /\ BoundTo(pass.new) = {}
       /\ pc' = "enumOld" /\ pass' = [pass EXCEPT !.out = "nothing"]
    \/ /\ BoundTo(pass.new) # {}
       /\ pc' = "promote" /\ pass' = [pass EXCEPT !.out = "rebound", !.err = "none"]
AfterNewEnumerated ==
    /\ pc' = "enumOld"
    /\ \/ BoundTo(pass.new) = {} /\ pass' = [pass EXCEPT !.out = "nothing"]
       \/ BoundTo(pass.new) # {} /\ pass' = [pass EXCEPT !.out = "rebound"]

EnumerateNew ==
    /\ pc = "enumNew"
    /\ \/ AfterNewEnumerated
       \/ Verdict   \* an error, or a zero that does not cover every region
    /\ UNCHANGED <<store, acme, cloud, desired, refresh, reaping, mem, mishaps, hot>>

EnumerateOld ==
    /\ pc = "enumOld"
    /\ \/ /\ BoundTo(pass.st.dep) = {}
          /\ pc' = "promote" /\ pass' = [pass EXCEPT !.err = "none"]
       \/ Verdict
    /\ UNCHANGED <<store, acme, cloud, desired, refresh, reaping, mem, mishaps, hot>>

-----------------------------------------------------------------------------
(* The epilogue: download after the deploy                                 *)

\* What the transaction will write is decided before it is opened.
Promote ==
    /\ pc = "promote"
    /\ ChooseOrphan(IF pass.new # NoId THEN pass.new ELSE row.dep, "commit")
    /\ UNCHANGED <<row, order, retired, acme, cloud, desired, refresh, reaping, mem, hot>>

\* The row as promoted: confirmed only by a switch that was seen through.
Promoted == [cert |-> order.n, dep |-> pass.new, conf |-> pass.out = "rebound",
             wait |-> FALSE]

\* retireOld or reclaimFirstBind: the replaced copy goes on the reclaim list.
\* Mutations: not when nothing was bound; not when the switch is unverified.
Retires_NotFirstBind == pass.out \in {"rebound", "unverified"} /\ pass.st.dep # pass.new
Retires_NotUnverified == pass.out \in {"rebound", "nothing"} /\ pass.st.dep # pass.new
Retires == pass.out \in {"rebound", "unverified", "nothing"} /\ pass.st.dep # pass.new

\* Promote, retire the old copy, hand over the orphan and discard the order in
\* one transaction. With deploy off the old copy is left alone, unmanaged.
\* A transaction that fails leaves the pass's copy of the row as it was.
Commit ==
    /\ pc = "commit"
    /\ \/ /\ Works
          /\ row' = Promoted
          /\ AddRetired((IF Retires THEN {pass.st.dep} ELSE {}) \cup ({pass.orphan} \ {NoId}))
          /\ abandoned' = abandoned \cup
                          (IF pass.out = "off" THEN {pass.st.dep} \ {NoId} ELSE {})
          /\ order' = NoOrder
          /\ Finish
       \/ /\ Fails /\ GiveUp
          /\ UNCHANGED <<row, order, retired, abandoned>>
    /\ UNCHANGED <<acme, cloud, desired, refresh, reaping, mem, hot>>

\* recordFailure: the pass's whole copy of the row goes back with the backoff.
RecordFailure ==
    /\ pc = "fail"
    /\ \/ Works /\ row' = [pass.st EXCEPT !.wait = TRUE] /\ UNCHANGED mem
       \/ Fails /\ KeepDeadline /\ UNCHANGED row
    /\ hot' = TRUE
    /\ Finish
    /\ UNCHANGED <<order, retired, abandoned, acme, cloud, desired, refresh, reaping>>

-----------------------------------------------------------------------------
(* The pending-binding refresh: RefreshPendingBindings, which takes no     *)
(* claim and holds a copy of the row across a cloud enumeration            *)

RefreshRead ==
    /\ RefreshOn /\ ~refresh.on
    /\ row.dep # NoId /\ ~row.conf
    /\ refresh' = [on |-> TRUE, st |-> row, seen |-> FALSE]
    /\ UNCHANGED <<store, acme, cloud, desired, running, reaping, mem, mishaps, hot>>

\* Mutation: the enumeration answers from a cache that predates the bind.
SeenBound_Cached(id) == FALSE
SeenBound(id) == BoundTo(id) # {}

RefreshLookup ==
    /\ refresh.on /\ ~refresh.seen
    /\ refresh' = IF SeenBound(refresh.st.dep)
                  THEN [refresh EXCEPT !.seen = TRUE] ELSE NoRefresh
    /\ UNCHANGED <<store, acme, cloud, desired, running, reaping, mem, mishaps, hot>>

RefreshWrite ==
    /\ refresh.on /\ refresh.seen
    /\ \/ Works /\ row' = [refresh.st EXCEPT !.conf = TRUE]
       \/ Fails /\ UNCHANGED row
    /\ refresh' = NoRefresh
    /\ UNCHANGED <<order, retired, abandoned, acme, cloud, desired, running, reaping, mem, hot>>

-----------------------------------------------------------------------------
(* The reaper: ReapRetired                                                 *)

\* The cloud refuses to delete a certificate that serves a listener
\* (IsCheckResource); one that is already gone counts as deleted.
\* Mutation: a delete task that failed counts as done.
Gone_Unchecked(id) == UNCHANGED deleted
Gone(id) == deleted' = deleted \cup {id}

ReapDelete ==
    /\ reaping = NoId
    /\ \E id \in retired :
         /\ BoundTo(id) = {}
         /\ Gone(id)
         /\ reaping' = id
    /\ UNCHANGED <<store, acme, certOf, bound, task, served, desired, running, refresh,
                   mem, mishaps, hot>>

ReapForget ==
    /\ reaping # NoId
    /\ \/ /\ Works
          /\ retired' = retired \ {reaping}
       \/ Fails /\ UNCHANGED retired
    /\ reaping' = NoId
    /\ UNCHANGED <<row, order, abandoned, acme, cloud, desired, running, refresh, mem, hot>>

-----------------------------------------------------------------------------
(* The outside world                                                       *)

\* The CA decides an order; a submitted CSR is issued or refused, and an
\* authorization that failed makes the order invalid.
CADecides ==
    /\ order.n # 0
    /\ \E s \in {"valid", "invalid"} :
         /\ ca[order.n] = "processing" \/ (ca[order.n] = "open" /\ s = "invalid")
         /\ ca' = [ca EXCEPT ![order.n] = s]
    /\ UNCHANGED <<store, placed, cloud, desired, running, refresh, reaping, mem, mishaps, hot>>

\* The switch task reaches a listener: it now serves the new copy, or it fails
\* - and it must, when the listener no longer has the old copy or the new one
\* is gone.
TaskStep ==
    /\ \E l \in task.todo :
         \/ /\ bound[l] = task.from /\ task.to \notin deleted
            /\ bound' = [bound EXCEPT ![l] = task.to]
            /\ served' = served \cup {task.to}
            /\ task' = [task EXCEPT !.todo = @ \ {l}]
         \/ /\ task' = [task EXCEPT !.todo = @ \ {l}, !.failed = TRUE]
            /\ UNCHANGED <<bound, served>>
    /\ UNCHANGED <<store, acme, certOf, deleted, desired, running, refresh, reaping,
                   mem, mishaps, hot>>

\* The operator binds a free listener to the id the row names (the console
\* bind the documentation asks for), or unbinds one.
OperatorMayAct == CalmOperator => pc = "idle" /\ ~InProgress(task)

Bind ==
    /\ OperatorMayAct
    /\ row.dep # NoId /\ row.dep \notin deleted
    /\ \E l \in BoundTo(NoId) : bound' = [bound EXCEPT ![l] = row.dep]
    /\ served' = served \cup {row.dep}
    /\ UNCHANGED <<store, acme, certOf, deleted, task, desired, running, refresh,
                   reaping, mem, mishaps, hot>>

Unbind ==
    /\ OperatorMayAct
    /\ \E l \in Listeners \ BoundTo(NoId) : bound' = [bound EXCEPT ![l] = NoId]
    /\ UNCHANGED <<store, acme, certOf, deleted, task, served, desired, running, refresh,
                   reaping, mem, mishaps, hot>>

Edit ==
    /\ Mishap(1)
    /\ desired' \in Configs \ {desired}
    /\ UNCHANGED <<store, acme, cloud, running, refresh, reaping, mem, hot>>

OrderExpires ==
    /\ OrdersDie
    /\ order.n # 0 /\ ~order.expired
    /\ order' = [order EXCEPT !.expired = TRUE]
    /\ UNCHANGED <<row, retired, abandoned, acme, cloud, desired, running, refresh,
                   reaping, mem, mishaps, hot>>

BackoffElapses ==
    /\ row.wait \/ mem.wait
    /\ row' = [row EXCEPT !.wait = FALSE]
    /\ mem' = [mem EXCEPT !.wait = FALSE]
    /\ refresh' = [refresh EXCEPT !.st.wait = FALSE]
    /\ hot' = FALSE
    /\ UNCHANGED <<order, retired, abandoned, acme, cloud, desired, running, reaping,
                   mishaps>>

\* The process ends: between passes (a timer-driven run ends after one), or
\* killed in the middle of one. What was only in memory is gone.
Stop ==
    /\ Finish /\ refresh' = NoRefresh /\ reaping' = NoId /\ mem' = FreshMem
    /\ hot' = (hot /\ row.wait)
    /\ UNCHANGED <<store, acme, cloud, desired>>

Restart == pc = "idle" /\ reaping = NoId /\ ~refresh.on /\ mem # FreshMem /\ Stop /\ UNCHANGED mishaps

Crash ==
    /\ pc # "idle" \/ reaping # NoId \/ refresh.on
    /\ Mishap(1)
    /\ Stop

-----------------------------------------------------------------------------
PassStep ==
    \/ Begin \/ BeginUnreadable \/ ReadOrder \/ Discard \/ DropOrder
    \/ ConfirmBinding \/ Decide \/ Issue \/ Record \/ FetchFails \/ Advance \/ Solve
    \/ Download \/ Upload \/ Anchor \/ Switch \/ AwaitSwitch \/ AwaitAdopted
    \/ EnumerateNew \/ EnumerateOld \/ Promote \/ Commit \/ RecordFailure

RefreshStep == RefreshRead \/ RefreshLookup \/ RefreshWrite
ReapStep == ReapDelete \/ ReapForget
CloudStep == CADecides \/ TaskStep
OperatorStep == Bind \/ Unbind \/ Edit
ClockStep == OrderExpires \/ BackoffElapses

Next == PassStep \/ RefreshStep \/ ReapStep \/ CloudStep \/ OperatorStep \/ ClockStep
        \/ Restart \/ Crash

Spec == Init /\ [][Next]_vars

\* A pass keeps moving and passes keep being started (the timer); time passes;
\* the reaper and the refresh run again and again and the cloud answers them.
Fairness ==
    /\ WF_vars(PassStep) /\ WF_vars(BackoffElapses) /\ WF_vars(OrderExpires)
    /\ WF_vars(ReapStep) /\ WF_vars(RefreshStep)

LiveSpec == Spec /\ Fairness

-----------------------------------------------------------------------------
(* The copies in the cloud account, as CloudCopies describes them          *)

PhaseOf(id) ==
    IF certOf[id] = 0 THEN "unused"
    ELSE IF id \in deleted THEN "gone"
    ELSE IF id = row.dep THEN "live"
    ELSE IF id = order.dep THEN "anchored"
    ELSE IF id \in retired THEN "retired"
    ELSE IF pc = "anchor" /\ id = pass.new THEN "held"
    ELSE "stray"

Copies == INSTANCE CloudCopies WITH Ids <- Ids, phase <- [id \in Ids |-> PhaseOf(id)]

-----------------------------------------------------------------------------
(* Properties                                                              *)

\* Type correctness of every variable.
Pcs == {"idle", "lookup", "discard", "drop", "decide", "issue", "record", "advance",
        "solve", "download", "upload", "anchor", "switch", "wait", "adopt", "enumNew",
        "enumOld", "promote", "commit", "fail"}
RowType == [cert : 0..MaxOrders, dep : Ids \cup {NoId}, conf : BOOLEAN, wait : BOOLEAN]
OrderType == [n : 0..MaxOrders, ids : DomainSets \cup {NoIds}, dep : Ids \cup {NoId},
              expired : BOOLEAN]
PassType == [st : RowType, cfg : Configs \cup {NoConfig}, new : Ids \cup {NoId},
             out : {"none", "off", "first", "rebound", "unverified", "nothing"},
             err : {"none", "failed", "unverified"}, orphan : Ids \cup {NoId},
             then : {"none", "decide", "fail", "idle"}]
StoreType == /\ row \in RowType /\ order \in OrderType
             /\ retired \subseteq Ids /\ abandoned \subseteq Ids
AcmeType == /\ placed \in 0..MaxOrders
            /\ ca \in [Certs -> {"none", "open", "processing", "valid", "invalid"}]
TaskType == [from : Ids \cup {NoId}, to : Ids \cup {NoId}, todo : SUBSET Listeners,
             failed : BOOLEAN]
CloudType ==
    /\ certOf \in [Ids -> 0..MaxOrders]
    /\ deleted \subseteq Ids /\ served \subseteq Ids
    /\ bound \in [Listeners -> Ids \cup {NoId}]
    /\ task \in TaskType
RefreshType == [on : BOOLEAN, st : RowType, seen : BOOLEAN]
MemType == [wait : BOOLEAN, fetch : 0..MaxFetchFailures]
TypeOK ==
    /\ StoreType /\ AcmeType /\ CloudType
    /\ desired \in Configs /\ pc \in Pcs /\ pass \in PassType /\ refresh \in RefreshType
    /\ reaping \in Ids \cup {NoId} /\ mem \in MemType
    /\ mishaps \in 0..MaxMishaps /\ hot \in BOOLEAN

\* The certificate in the row is the one in the copy the row names: key and
\* cloud id never come from two different issuances.
RowCoherent == row.dep # NoId => certOf[row.dep] = row.cert

\* What the program still depends on - the id the row names and the id the
\* order will resume from - is neither on the reclaim list nor deleted.
LiveNotReclaimed ==
    \A id \in {row.dep, order.dep} \ {NoId} : id \notin retired \cup deleted

\* "Deployed" is claimed only of a copy some listener has really served.
ConfirmedMeansServed == row.conf => row.dep \in served

\* The row is sound: one issuance, out of the reaper's reach, and truly deployed when it
\* says so - whatever the epilogue, a failed write or a dying process left it at.
RowIsSound == RowCoherent /\ LiveNotReclaimed /\ ConfirmedMeansServed

\* A copy some row names stays named by a row until the cloud has deleted it or
\* a log line gave it up: neither a crash nor a failed write forgets one.
NeverForgotten ==
    [][ \A id \in Tracked : id \in Tracked' \cup deleted' \cup abandoned' ]_vars

\* The certificate in service is never replaced by an older one.
PromotionNeverUndone == [][ row.cert <= row'.cert ]_vars

\* Invariant 1 of the package: no order is created while one is on disk.
OneOrder == [][ placed' # placed => order.n = 0 ]_vars

\* A pass that failed costs its backoff before the CA is asked for an order.
BackoffRespected == [][ placed' # placed => ~hot ]_vars

\* The CA is asked for an order only when none is on disk and no backoff is running, over
\* restarts, lost fetches and failed writes.
OrdersArePaced == OneOrder /\ BackoffRespected

\* The copies in the account live the life CloudCopies describes.
ImplementsCloudCopies == Copies!Spec

\* A step that puts a copy on the reclaim list does not pick one that a
\* listener serves at that moment.
RetireNeverMarksServing ==
    [][ \A id \in retired' \ retired : BoundTo(id) = {} ]_vars

\* What listeners serve stays the program's: the row's copy or the order's, and never up
\* for deletion.
ServedStaysManaged ==
    /\ [](\A l \in Listeners : bound[l] \in {row.dep, order.dep, NoId})
    /\ RetireNeverMarksServing

\* An order on disk never blocks renewal for good: it is finished or discarded.
OrderNeverWedges ==
    \A n \in Certs : order.n = n ~> order.n # n

\* A copy on the reclaim list leaves the account, unless a listener serves it.
RetiredIsReclaimed ==
    \A id \in Ids : id \in retired ~> (id \in deleted \/ BoundTo(id) # {})

\* A bind the operator has made is eventually noticed, unless it is undone or
\* the certificate moves on first.
BindIsNoticed ==
    \A id \in Ids : (row.dep = id /\ BoundTo(id) # {})
                      ~> (row.conf \/ row.dep # id \/ BoundTo(id) = {})
=============================================================================
