------------------------------- MODULE FileSet ------------------------------
(***************************************************************************)
(* The FileSet that Decode builds from the sources of a unit, one AddFile  *)
(* per source.  Base and sizes are Go ints: AddFile panics when the next   *)
(* base does not fit, and sizes come from the wire, so Decode has a guard  *)
(* of its own in front of it.                                              *)
(***************************************************************************)
EXTENDS TokenFiles

CONSTANTS MaxInt,  \* the largest int, int(^uint(0) >> 1)
          Sizes    \* the sizes of sources: any int that is not negative

ASSUME SizesAssumption == /\ MaxInt \in Nat \ {0}
                          /\ Sizes \subseteq 0 .. MaxInt

VARIABLES files,    \* the files added so far
          base,     \* FileSet.Base(): the base of the next file
          panicked  \* an AddFile has overflowed

vars == <<files, base, panicked>>

Init == /\ files = <<>>
        /\ base = 1
        /\ panicked = FALSE

(* Seeded defects of the guard: it forgets the position at the end of the  *)
(* file; it counts one too many.                                           *)
TooLargeWithoutEnd(size) == size > MaxInt - base
TooLargeByOne(size) == size > MaxInt - base - 2

(* The guard in Decode.                                                    *)
TooLarge(size) == size > MaxInt - base - 1

(* token.FileSet.AddFile(name, -1, size)                                   *)
AddFile(size) ==
    IF base + size + 1 > MaxInt
    THEN /\ panicked' = TRUE
         /\ UNCHANGED <<files, base>>
    ELSE /\ files' = Append(files, [base |-> base, size |-> size])
         /\ base' = base + size + 1
         /\ UNCHANGED panicked

(* A seeded defect: the base of the next file is computed without the      *)
(* position at the end of this one.                                        *)
AddSourceTight(size) ==
    /\ ~ TooLarge(size)
    /\ files' = Append(files, [base |-> base, size |-> size])
    /\ base' = base + size
    /\ UNCHANGED panicked

(* One turn of the loop over the sources that does not end in an error.    *)
AddSource(size) == ~ TooLarge(size) /\ AddFile(size)

Next == \E size \in Sizes : AddSource(size)

Spec == Init /\ [][Next]_vars

-----------------------------------------------------------------------------

Files == [base : 1 .. MaxInt, size : Sizes]

TypeOK == /\ files \in Seq(Files)
          /\ base \in 1 .. MaxInt
          /\ panicked \in BOOLEAN

(* No unit makes AddFile panic, whatever the sizes it declares and however *)
(* many sources it has.                                                    *)
NeverPanics == ~ panicked

(* The files are laid out in order, without overlap, below the next base.  *)
LaidOut ==
    /\ \A f \in DOMAIN files : files[f].base + files[f].size < base
    /\ \A f, g \in DOMAIN files :
         f < g => files[f].base + files[f].size < files[g].base

(* A position leads back to the file and the offset it was made from, for  *)
(* every offset from the first byte to the end of file, and none of them   *)
(* is NoPos: two sources are never confused, not even empty ones.          *)
PositionsRoundTrip ==
    \A f \in DOMAIN files : \A offset \in 0 .. files[f].size :
        LET pos == PosOf(files[f], offset)
        IN /\ pos # NoPos
           /\ FilesAt(files, pos) = {f}
           /\ OffsetOf(files[f], pos) = offset
=============================================================================
