--------------------------- MODULE MCBufferStore ---------------------------
(* A small store: two images per file, two files per folder.               *)
EXTENDS BufferStore

SomeImages == {0, 1, 2, 5}

ShortAndLong == {1, 2}
=============================================================================
