--------------------------- MODULE ClaimsInvariant ---------------------------
(***************************************************************************)
(* The strengthening of the safety properties of Claims that is inductive. *)
(* The counters are what the code decides with; the properties are about   *)
(* who is where, so the invariant says first of all what each counter      *)
(* counts.                                                                 *)
(***************************************************************************)
EXTENDS Claims

Opening == {t \in Triggers : trigger[t].pc \in {"reset", "loop", "claim"}}
Going == {w \in Workers : worker[w].pc \in {"queued", "pass", "report", "over"}}
Publishing ==
    \/ \E t \in Triggers : trigger[t].pc = "publish"
    \/ \E w \in Workers : worker[w].pc = "publish"

\* What the counters count.
Counters ==
    /\ DrainWaitsForAll
    /\ starting = Cardinality(Opening)
    /\ passes = Cardinality(Going)

\* A registration is for a name.
ClaimShape == \A t \in Triggers : trigger[t].pc = "claim" => trigger[t].name \in Names

\* The daemon loop is over before the drain, and a finished drain has waited.
DrainShape ==
    /\ proc # "up" => timer.pc \in {"due", "idle"}
    /\ proc = "drained" => bg = 0

\* While a trigger registers its passes its publication is owed; what is owed is
\* not yet published and has somebody who will publish it; and whoever may
\* publish finds it owed or published.
OwedShape ==
    /\ \A t \in Triggers : trigger[t].pc \in {"loop", "claim"} => owed
    /\ published => ~owed
    /\ owed => starting # 0 \/ passes # 0 \/ Publishing
    /\ passes # 0 \/ Publishing => owed \/ published

IInv ==
    /\ TypeOK /\ Counters /\ ClaimShape /\ DrainShape /\ OwedShape
    /\ OneAtATime /\ NoClaimLeaks
=============================================================================
