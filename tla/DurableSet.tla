------------------------------ MODULE DurableSet ------------------------------
(***************************************************************************)
(* What the panel store promises, without files: the disk holds a set of   *)
(* changes that only grows, by whole changes, and a caller is told that    *)
(* its change is saved only when the disk holds it.  A restart in between  *)
(* is no step at all: it finds the disk as it is.  The promise ends with   *)
(* the first breach of what it rests on.                                   *)
(***************************************************************************)
CONSTANT Changes

VARIABLES disk, acked, kept

Init == disk = {} /\ acked = {} /\ kept = TRUE

\* The disk takes in one save: its change, and those of earlier saves that failed.
Commit(S) == kept /\ disk' = disk \cup S /\ UNCHANGED <<acked, kept>>

Acknowledge(c) == kept /\ c \in disk /\ acked' = acked \cup {c} /\ UNCHANGED <<disk, kept>>

\* From here on nothing is promised of the disk.
Breach == kept' = FALSE

Next ==
    \/ \E S \in SUBSET Changes : Commit(S)
    \/ \E c \in Changes : Acknowledge(c)
    \/ Breach

Spec == Init /\ [][Next]_<<disk, acked, kept>>
=============================================================================
