---------------------------- MODULE MCAcquisition ----------------------------
(* A small detector for model checking Acquisition.                        *)
EXTENDS Acquisition

TwoModules == 0 .. 1

AllDetectors == {"eiger", "jungfrau", "gigafrost"}

TwoFrames == 1 .. 2

\* The network repeats the first packet of one frame, the last of the other.
FirstAndLast == {[frame |-> 1, place |-> 0], [frame |-> 2, place |-> 1]}

\* Bunch ids grow faster than frame numbers.
BunchId(f) == 2 * f + 1
=============================================================================
