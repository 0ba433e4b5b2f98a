---------------------------- MODULE MC_Snapshots ----------------------------
(* Small instances of Snapshots for TLC. *)
EXTENDS Snapshots
Keeping(k, rk, r, s, fs, n, p) ==
    [keep |-> k, remoteKeep |-> rk, remote |-> r, signed |-> s, faults |-> fs, budget |-> n, pool |-> p]
Any == {Keeping(k, rk, r, s, Mishaps, 2, {}) :
            k \in {1, 2}, rk \in {1, 2}, r \in {"s3", "sftp"}, s \in BOOLEAN}
\* A directory an older build has written to.
Old == {[name |-> Name("plain", t, 0), ver |-> 0, mtime |-> t] : t \in {1, 2}}
Upgraded == {Keeping(2, 2, "s3", FALSE, {}, 0, Old)}
=============================================================================
