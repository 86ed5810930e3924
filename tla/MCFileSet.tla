------------------------------ MODULE MCFileSet -----------------------------
(* FileSet with an int of a few bits; sizes are as large as an int goes.   *)
EXTENDS FileSet

MCSizes == 0 .. MaxInt
=============================================================================
