------------------------- MODULE SnapshotsInvariant -------------------------
(* What holds in every state of Snapshots and makes its properties inductive: names   *)
(* are unique, nothing holds a later version than the database, a round's own copy is *)
(* where the round has put it, and a round nothing disturbed has put it last.         *)
EXTENDS Snapshots

Pcs == {"idle", "sweep", "repair", "copy", "prune", "put", "sign", "delete", "verify"}
Files == [name : Names, ver : Vers, mtime : Nat]
Objects == [name : Names, ver : Vers]
Rounds == [pc : Pcs, stamp : Nat, now : Nat, stuck : SUBSET Names, name : Names, ver : Vers]
Distinct(files) == \A f, g \in files : f.name = g.name => f = g

BasicTypes ==
    /\ clock \in Times /\ db \in Vers /\ shipped \in Vers /\ clean \in BOOLEAN
    /\ setting \in Settings /\ spent \in Nat /\ round \in Rounds
PoolShape == pool \in SUBSET Files /\ IsFiniteSet(pool) /\ Distinct(pool)
\* Only names of the present form are uploaded.
RemoteShape ==
    /\ objects \in SUBSET Objects /\ IsFiniteSet(objects) /\ Distinct(objects)
    /\ sidecars \in SUBSET Objects
    /\ \A f \in objects : f.name.base = "hashed"

Begun == {"sweep", "repair", "copy"}
Copied == {"prune", "put", "sign", "delete", "verify"}
\* The copy a round has made is the newest there is.
VersionShape ==
    /\ shipped <= db /\ \A f \in pool \cup objects : f.ver <= db
    /\ (round.pc \in Copied =>
          /\ round.name.base = "hashed" /\ round.name.at = round.stamp
          /\ shipped <= round.ver /\ round.ver <= db
          /\ \A f \in pool \cup objects : f.ver <= round.ver)
\* Until it is put, no name of the round's stamp is at the remote end.
FreshShape ==
    /\ (round.pc \in Begun \cup {"prune", "put"} => \A f \in objects : f.name.at # round.stamp)
    /\ (round.pc \in Begun \cup {"prune", "put", "sign"} => \A s \in sidecars : s.name.at # round.stamp)
    /\ (round.pc \in {"sign", "delete", "verify"} =>
          \A f \in objects : f.name.at = round.stamp => f.name = round.name)
\* It is in the pool until pruning is over, at the remote end from then on, and signed
\* before anything else goes.
OwnShape ==
    /\ (round.pc = "prune" => \E f \in pool : f.name = round.name /\ f.ver = round.ver)
    /\ (round.pc \in {"sign", "delete", "verify"} =>
          \E f \in objects : f.name = round.name /\ f.ver = round.ver /\ (round.pc # "sign" => Pair(f)))
\* What a round that nothing disturbed leaves behind sorts after everything else there.
Last(f) == \A g \in objects : g = f \/ g.name.at < f.name.at
CleanShape ==
    clean => /\ (round.pc # "idle" => round.stamp <= clock)
             /\ (round.pc = "verify" =>
                   \A g \in objects : g.name = round.name \/ g.name.at < round.stamp)
             /\ (round.pc = "idle" /\ shipped > 0 =>
                   \E f \in objects : f.ver = shipped /\ Pair(f) /\ f.name.at <= clock /\ Last(f))

SnapshotsInv ==
    /\ BasicTypes /\ PoolShape /\ RemoteShape /\ VersionShape /\ FreshShape /\ OwnShape
    /\ ShippedStaysRestorable /\ CleanShape
=============================================================================
