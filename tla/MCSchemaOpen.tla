---------------------------- MODULE MCSchemaOpen ----------------------------
(* Small instances of SchemaOpen for TLC. *)
EXTENDS SchemaOpen, TLC

CONSTANTS p1, p2, p3

Store(v, present, found, is_indexed, builds) ==
    [version |-> v, objects |-> present, rows |-> found,
     events |-> [id \in Ids |-> IF v >= 2 /\ "events" \in present /\ id \in found THEN 1 ELSE 0],
     indexed |-> is_indexed, index |-> IF is_indexed THEN found ELSE {}, builds |-> builds]

(* A file not created yet, one of every age, and two already indexed, for  *)
(* processes that all have FTS5 or among which one has not.                *)
SoundStores ==
    LET Aged(builds) ==
            {Store(0, {}, {}, FALSE, builds)}
            \cup {Store(v, ObjectsAt(v), {1}, FALSE, builds) : v \in 1 .. 7}
            \cup {Store(v, ObjectsAt(v), {1}, TRUE, builds) : v \in {4, 7}}
    IN Aged(Processes) \cup Aged({p1, p2})

(* Tables without a stamp; a stamp without tables; a table, or the column  *)
(* the tests use, ahead of its step; a stamp from the future.              *)
CorruptStores ==
    {Store(0, {"memories"}, {1}, FALSE, Processes),
     Store(1, {}, {}, FALSE, Processes),
     Store(2, ObjectsAt(2) \cup {"sources"}, {1}, FALSE, Processes),
     Store(4, ObjectsAt(5), {1}, FALSE, Processes),
     Store(5, ObjectsAt(5) \ {"skills"}, {1}, FALSE, Processes),
     Store(7, ObjectsAt(7) \ {"events"}, {1}, FALSE, Processes),
     Store(8, ObjectsAt(7), {1}, FALSE, Processes)}

AllStores == SoundStores \cup CorruptStores

(* The store the disputed claim is checked on: the oldest one, with a long *)
(* way to go.                                                              *)
OldStore == {Store(1, ObjectsAt(1), {1}, FALSE, Processes)}
=============================================================================
