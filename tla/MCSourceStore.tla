---------------------------- MODULE MCSourceStore ----------------------------
(* Small instances of SourceStore for TLC. *)
EXTENDS SourceStore, TLC

CONSTANTS p1, p2, a, b, x, y, s1, s2, e1, e2, e3

(* The digest of a text is another value, and tells texts apart. *)
DigestOf == [text \in Texts |-> << "sha256", text >>]

(* One file; one file named twice; two files. *)
SomeBatches == {<< a >>, << a, a >>, << b, a >>}
OneFile == {<< a >>}

(* Processes, texts and identifiers are only ever compared. *)
SeedSymmetry ==
    Permutations(Seeders) \cup Permutations(Texts)
    \cup Permutations(SourceIds) \cup Permutations(EvidenceIds)
=============================================================================
