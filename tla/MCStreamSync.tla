---------------------------- MODULE MCStreamSync ----------------------------
(* A few receivers and images for model checking StreamSync.               *)
EXTENDS StreamSync

CONSTANTS p1, p2, p3

ThreeParts == {p1, p2, p3}

FiveImages == 1 .. 5
=============================================================================
