----------------------------- MODULE TokenFiles -----------------------------
(***************************************************************************)
(* The positions of package go/token, as codec uses them: a FileSet lays   *)
(* its files out one after the other on the positive integers, and a       *)
(* token.Pos is a number there.  A file is a record with its base and size *)
(* and takes size + 1 positions, the last one being its end of file.       *)
(***************************************************************************)
EXTENDS Integers, Sequences

NoPos == 0

Covers(file, pos) == pos \in file.base .. file.base + file.size

(* FileSet.File: the files that cover a position (at most one, FileSet     *)
(* shows).                                                                 *)
FilesAt(files, pos) == { f \in DOMAIN files : Covers(files[f], pos) }

(* File.Pos and File.Offset                                                *)
PosOf(file, offset) == file.base + offset
OffsetOf(file, pos) == pos - file.base
=============================================================================
