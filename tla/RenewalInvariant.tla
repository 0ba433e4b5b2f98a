------------------------- MODULE RenewalInvariant -------------------------
(***************************************************************************)
(* The inductive invariants behind the safety properties of Renewal.       *)
(*                                                                         *)
(* TypeInv carries TypeOK, whatever the constants. IInv carries the rest,  *)
(* for a process without the pending-binding refresh (RefreshOn = FALSE):  *)
(* with it the pass's copy of the row is no longer current, and the first  *)
(* conjunct that fails is PassCopy. Serving adds what listeners serve.     *)
(***************************************************************************)
EXTENDS Renewal

NoOrderPcs == {"decide", "issue", "record"}
OrderPcs == {"discard", "drop", "advance", "solve", "download", "upload", "anchor",
             "switch", "wait", "adopt", "enumNew", "enumOld", "promote", "commit"}
SwitchPcs == {"switch", "wait", "adopt", "enumNew", "enumOld"}
EpiloguePcs == {"promote", "commit"}

\* The ids that reach the reclaim list and the listeners are real ones, not the
\* empty CertId: the pass has something in hand wherever it uses it.
InHand ==
    /\ pc \in SwitchPcs \cup {"anchor"} => pass.new # NoId
    /\ pc \in SwitchPcs \ {"switch"} => pass.st.dep # NoId
    /\ pc \in EpiloguePcs /\ pass.out \in {"rebound", "unverified", "nothing"}
         => pass.st.dep # NoId
    /\ pc \in {"discard", "drop"} => pass.then # "none"
    /\ InProgress(task) => task.to # NoId

TypeInv == TypeOK /\ InHand

\* Nobody but the pass writes the row's certificate: its copy stays current.
PassCopy ==
    /\ refresh = NoRefresh
    /\ pc # "idle" => /\ pass.st.cert = row.cert
                      /\ pass.st.dep = row.dep
                      /\ ~pass.st.wait

\* An order on disk is younger than the certificate in the row, and is there
\* exactly where the pass relies on it.
OrderShape ==
    /\ order.n = 0 => order.dep = NoId
    /\ order.n # 0 => row.cert < order.n
    /\ order.n <= placed /\ row.cert <= placed
    /\ pc \in NoOrderPcs => order.n = 0
    /\ pc \in OrderPcs => order.n # 0
    /\ pc = "record" => row.cert < placed

\* A named copy was uploaded for the certificate of the row that names it, so
\* no two rows name the same one.
CopyShape ==
    /\ row.dep # NoId => row.cert # 0 /\ certOf[row.dep] = row.cert
    /\ order.dep # NoId => certOf[order.dep] = order.n

\* What the pass has in hand: an upload nothing names, or the anchor.
HandShape ==
    /\ pc = "upload" => order.dep = NoId
    /\ pc = "anchor" => /\ certOf[pass.new] = order.n
                        /\ order.dep = NoId
                        /\ pass.new \notin retired \cup deleted
    /\ pc \in SwitchPcs => pass.new = order.dep
    /\ pc \notin SwitchPcs \cup EpiloguePcs \cup {"anchor", "fail"} => pass.new = NoId
    /\ pc = "enumOld" => pass.out \in {"rebound", "nothing"}
    /\ pc \in EpiloguePcs =>
         \/ pass.out = "off" /\ pass.new = NoId
         \/ pass.out = "first" /\ pass.new = order.dep /\ pass.new # NoId /\ pass.st.dep = NoId
         \/ /\ pass.out \in {"rebound", "unverified", "nothing"}
            /\ pass.new = order.dep /\ pass.new # NoId
    /\ pc \notin EpiloguePcs \cup {"enumOld", "fail"} => pass.out = "none"
    /\ pass.orphan # NoId => pc \in {"drop", "commit", "fail"}
    /\ pass.orphan # NoId /\ pc # "fail" => pass.orphan = order.dep
    /\ pass.orphan # NoId /\ pc = "commit" => pass.out = "off"

\* An order about to be dropped without its copy becoming the live one hands the
\* copy to the reclaim list, unless a log line has given it up.
HandOver ==
    pc = "drop" \/ (pc = "commit" /\ pass.out = "off")
      => order.dep \in {NoId, pass.orphan} \cup abandoned

\* Only uploaded copies are reclaimed, and the reaper forgets only what the
\* cloud has deleted.
ReclaimShape ==
    /\ \A id \in retired \cup deleted : certOf[id] # 0
    /\ reaping # NoId => reaping \in deleted

\* Whatever a listener serves, or a confirmed row names, has been served; so
\* has the target of a switch task that ended without a failure.
ServedShape ==
    /\ \A l \in Listeners : bound[l] # NoId => bound[l] \in served
    /\ row.conf => row.dep \in served
    /\ pc # "idle" /\ pass.st.conf => pass.st.dep \in served
    /\ task.todo = {} /\ ~task.failed /\ task.to # NoId => task.to \in served
    /\ pc = "wait" => task.to = pass.new
    /\ pc \in EpiloguePcs \cup {"enumOld"} /\ pass.out = "rebound" => pass.new \in served

\* A pass that runs has no failure behind it whose backoff is still due.
BackoffShape ==
    /\ hot => row.wait \/ mem.wait
    /\ pc # "idle" => ~hot /\ ~row.wait

Rest == /\ PassCopy /\ OrderShape /\ CopyShape /\ HandShape /\ HandOver
        /\ ReclaimShape /\ ServedShape /\ BackoffShape /\ LiveNotReclaimed

IInv == TypeInv /\ Rest

-----------------------------------------------------------------------------
(* What listeners serve, where the operator is calm, no order dies and the *)
(* one configuration deploys: IInv and Serving.                             *)

SteadySetting ==
    /\ ~RefreshOn /\ CalmOperator /\ ~OrdersDie
    /\ \A c \in Configs : c.deploy /\ \A d \in Configs : c = d

\* Until an order is valid it has no copy; with one it is never dropped.
OrderSurvives ==
    /\ order.n # 0 => order.ids \in DomainSets /\ ~order.expired
    /\ pc # "idle" => pass.cfg \in Configs
    /\ order.dep # NoId => ca[order.n] = "valid"
    /\ pc \in {"download", "upload", "anchor"} \cup SwitchPcs \cup EpiloguePcs
         => ca[order.n] = "valid"
    /\ pc \in {"discard", "drop"} => order.dep = NoId
    /\ pc \in EpiloguePcs => pass.out # "off"

\* A task that runs, or that the pass still waits for, moves the row's copy to
\* the order's: what it has left serves the old copy, and unless a listener has
\* failed nothing else does.
TaskMovesTheRow ==
    InProgress(task) \/ pc \in {"wait", "adopt"} =>
      /\ row.dep # NoId /\ task.from = row.dep /\ task.to = order.dep
      /\ task.todo \subseteq BoundTo(row.dep)
      /\ ~task.failed => BoundTo(row.dep) \subseteq task.todo

\* Once a pass has taken the switch for done, finished unverified or not needed,
\* nothing serves the row's copy.
SwitchBehind ==
    \/ pc \in {"enumNew", "enumOld"} /\ pass.err = "unverified"
    \/ pc \in EpiloguePcs /\ pass.out # "first"
SwitchedOff == SwitchBehind => BoundTo(row.dep) = {}

ServedByName == \A l \in Listeners : bound[l] \in {row.dep, order.dep, NoId}

Serving == OrderSurvives /\ TaskMovesTheRow /\ SwitchedOff /\ ServedByName
=============================================================================
