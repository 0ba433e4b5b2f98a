--------------------------- MODULE MC_StateFiles ---------------------------
(* Small instances of StateFiles, and of Sealing, for TLC. *)
EXTENDS StateFiles, Sealing
Allow(fs, n) == [faults |-> fs, budget |-> n]
\* Any mishap but a kill between the two renames, and that one alone.
Most == {Allow(Mishaps \ {"torn"}, 3)}
Torn == {Allow({"torn", "crash"}, 2)}
ByHand == {Allow({"stop", "copy"}, 3)}

\* Sealing over two keys, two places and up to three layers.
Keys == {"k1", "k2"}
Places == {"p", "q"}
Layers == {Layer(v, k, a) : v \in Versions, k \in Keys, a \in Places}
Blobs == {Empty} \cup {[layers |-> ls, text |-> t] : ls \in UNION {[1..n -> Layers] : n \in 0..3},
                                                    t \in {"pem", "junk"}}
\* migrateSealedMaterial (seal_migrate.go): a field this key opened comes out sealed once,
\* readable and acceptable to a restore that holds the key; a second run changes nothing.
ASSUME MigrationMakesReadable ==
    \A b \in Blobs :
        LET m == Migrated(b, "k1", "p")
            again == Migrated(m.blob, "k1", "p")
            deep == Len(b.layers) <= 1 \/ (Len(b.layers) = 2 /\ b.layers[1].v = "v2")
        IN  /\ (m.ok /\ deep /\ m.blob # b => Readable(m.blob, "k1", "p") /\ Checked(m.blob, "k1", "p"))
            /\ (m.ok /\ deep => again.ok /\ (b = m.blob \/ Len(again.blob.layers) = 1))
\* checkSnapshotPayload (restore.go): with the key, what passes is what the restored
\* daemon can read once it has run its migration.
ASSUME CheckedIsReadable ==
    \A b \in Blobs :
        Checked(b, "k1", "p") => LET m == Migrated(b, "k1", "p") IN m.ok /\ Readable(m.blob, "k1", "p")
=============================================================================
