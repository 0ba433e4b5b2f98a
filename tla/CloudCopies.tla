---------------------------- MODULE CloudCopies ----------------------------
(***************************************************************************)
(* What the renewal of one certificate promises about the copies it leaves *)
(* in the cloud account, whatever fails and wherever the process dies.     *)
(*                                                                         *)
(* A copy is unused until it is uploaded and held by the pass that         *)
(* uploaded it. Recorded in the order it is anchored, recorded in the      *)
(* certificate's row it is live, on the reclaim list it is retired, and    *)
(* deleted from the account it is gone. A stray is a copy nothing names.   *)
(*                                                                         *)
(* The promise: only an anchored copy becomes live, and in the same step   *)
(* the copy it replaces is retired; only retired copies are deleted; a     *)
(* retired copy never comes back; and a copy in the row is let go of only  *)
(* by a renewal that has cloud deployment switched off.                    *)
(***************************************************************************)
CONSTANT Ids
VARIABLE phase

Phases == {"unused", "held", "anchored", "live", "retired", "stray", "gone"}
In(p) == {i \in Ids : phase[i] = p}
Become(i, p) == phase' = [phase EXCEPT ![i] = p]

Init == phase = [i \in Ids |-> "unused"]

Upload(i) == phase[i] = "unused" /\ In("held") = {} /\ In("anchored") = {} /\ Become(i, "held")
Anchor(i) == phase[i] = "held" /\ Become(i, "anchored")

\* A copy that will not be promoted is put on the reclaim list, or it is lost.
GiveUp(i) == /\ phase[i] \in {"held", "anchored"}
             /\ \E p \in {"retired", "stray"} : Become(i, p)

\* One step: the anchored copy is live and every earlier one is retired.
Promote(i) ==
    /\ phase[i] = "anchored"
    /\ phase' = [j \in Ids |-> IF j = i THEN "live"
                               ELSE IF phase[j] = "live" THEN "retired" ELSE phase[j]]

\* A renewal without deployment: the live copy is left alone, unmanaged, and
\* the order's copy is given up.
LetGo ==
    /\ In("live") # {}
    /\ \E p \in {"retired", "stray"} :
         phase' = [j \in Ids |-> CASE phase[j] = "live" -> "stray"
                                   [] phase[j] = "anchored" -> p
                                   [] OTHER -> phase[j]]

Delete(i) == phase[i] = "retired" /\ Become(i, "gone")

Next == \/ \E i \in Ids : Upload(i) \/ Anchor(i) \/ GiveUp(i) \/ Promote(i) \/ Delete(i)
        \/ LetGo

Spec == Init /\ [][Next]_phase
=============================================================================
