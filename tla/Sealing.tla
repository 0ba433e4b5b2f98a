------------------------------ MODULE Sealing ------------------------------
(* Key material at rest (internal/state/seal.go, seal_migrate.go): what a sealed      *)
(* field is, the migration OpenSealed runs over every field, and what a restore       *)
(* checks of a snapshot's fields. Ciphertext is the list of its layers, outermost     *)
(* first; text is what they cover.                                                    *)
EXTENDS Sequences, Integers

Versions == {"v1", "v2"}
Empty == [layers |-> <<>>, text |-> "nothing"]
Layer(v, key, aad) == [v |-> v, key |-> key, aad |-> aad]

isSealed(b) == b.layers # <<>>
isSealedV1(b) == isSealed(b) /\ b.layers[1].v = "v1"

\* seal writes the current version only and leaves an empty field alone.
seal(b, key, aad) == IF b = Empty THEN b ELSE [b EXCEPT !.layers = <<Layer("v2", key, aad)>> \o @]

\* open takes one layer off, under the key and the place the layer was made for.
Opens(b, key, aad) == isSealed(b) /\ b.layers[1].key = key /\ b.layers[1].aad = aad
open(b, key, aad) == [b EXCEPT !.layers = Tail(@)]

\* migrateSealedMaterial on one field: the outcome "fails" rolls the transaction back.
\* A current layer this key does not open is left for the read path to report.
CurrentLayer(b, key, aad) ==
    IF ~Opens(b, key, aad) \/ ~isSealed(open(b, key, aad)) THEN [ok |-> TRUE, blob |-> b]
    ELSE LET inner == open(b, key, aad)
         IN  [ok |-> Opens(inner, key, aad), blob |-> seal(open(inner, key, aad), key, aad)]
Migrated(b, key, aad) ==
    CASE b = Empty -> [ok |-> TRUE, blob |-> b]
      [] isSealed(b) /\ ~isSealedV1(b) -> CurrentLayer(b, key, aad)
      [] isSealedV1(b) -> [ok |-> Opens(b, key, aad), blob |-> seal(open(b, key, aad), key, aad)]
      [] OTHER -> [ok |-> TRUE, blob |-> seal(b, key, aad)]

\* checkSnapshotPayload on one field; no key is a check of the shape alone.
NoKey == "no key"
Checked(b, key, aad) ==
    \/ b = Empty
    \/ isSealed(b) /\ (key = NoKey \/ (Opens(b, key, aad) /\ ~isSealed(open(b, key, aad))))
    \/ ~isSealed(b) /\ b.text = "pem"
checkSnapshotPayload(fields, key) == \A f \in fields : Checked(f.blob, key, f.aad)

\* What the read path returns of a field (Store.GetCert and its siblings).
Readable(b, key, aad) == b = Empty \/ (Opens(b, key, aad) /\ ~isSealed(open(b, key, aad)))
=============================================================================
