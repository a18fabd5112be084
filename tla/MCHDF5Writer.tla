---------------------------- MODULE MCHDF5Writer ----------------------------
(* Files, users and block sizes for model checking HDF5Writer.             *)
EXTENDS HDF5Writer

TwoPaths == {"p", "q"}

ThreeUsers == {"root", "alice", "bob"}

\* No image fits, one image, three images and six records fit in a block.
BlockSizes == {3, 4, 12}
=============================================================================
