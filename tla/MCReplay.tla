------------------------------ MODULE MCReplay ------------------------------
(* A small store and a few replays for model checking Replay.              *)
EXTENDS Replay

\* Two full files and, after a gap, one that is not full.
ThreeFiles == {0, 1, 2, 3, 6}

\* All of it, one image, from the middle of a file, within the gap, beyond the
\* store, without an end.
Ranges == {[start |-> 0, end |-> 6], [start |-> 2, end |-> 2], [start |-> 1, end |-> 3],
           [start |-> 4, end |-> 5], [start |-> 8, end |-> 9], [start |-> 0, end |-> None]}
=============================================================================
