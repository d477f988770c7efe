----------------------------- MODULE Observation -----------------------------
(***************************************************************************)
(* What the Dev watcher promises of the files it watches                   *)
(* (src/urdyn/_watcher.py): what Urdyn last recorded of a file is          *)
(* something the file has said, a later record is of a later state of the  *)
(* file, and a record is made only of a change.                            *)
(*                                                                         *)
(* A file may say several things between two records.  Which of them is    *)
(* recorded is left open: a save may be coalesced with the next.           *)
(***************************************************************************)
CONSTANTS Paths,
          Contents,   \* what may be at a path: nothing, or a document or not
          Texts       \* what a document can say: the Contents that are one

VARIABLES disk,   \* what is at each path
          said,   \* what was last recorded of each file, if anything was
          since   \* all that each file has said since it said what was recorded

vars == << disk, said, since >>

Init ==
    /\ since = [path \in Paths |-> {disk[path]}]
    /\ \A path \in Paths : said[path] \in Texts => said[path] = disk[path]

Edit(path) ==
    /\ \E state \in Contents : disk' = [disk EXCEPT ![path] = state]
    /\ since' = [since EXCEPT ![path] = @ \cup {disk'[path]}]
    /\ UNCHANGED said

(* Of what the file has said since, something new to Urdyn is recorded;    *)
(* what the file said before that is of the past.                          *)
Observe(path) ==
    /\ \E text \in (since[path] \cap Texts) \ {said[path]},
          still \in SUBSET since[path] :
         /\ {text, disk[path]} \subseteq still
         /\ said' = [said EXCEPT ![path] = text]
         /\ since' = [since EXCEPT ![path] = still]
    /\ UNCHANGED disk

Next == \E path \in Paths : Edit(path) \/ Observe(path)

Spec == Init /\ [][Next]_vars
=============================================================================
