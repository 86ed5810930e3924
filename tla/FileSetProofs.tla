---------------------------- MODULE FileSetProofs ---------------------------
(***************************************************************************)
(* For an int of any width and sources of any sizes: building the FileSet  *)
(* of a unit never panics, and positions and (file, offset) pairs          *)
(* correspond one to one.                                                  *)
(***************************************************************************)
EXTENDS FileSet, TLAPS

IInv == TypeOK /\ NeverPanics /\ LaidOut

(* Bases and sizes are natural numbers.                                    *)
LEMMA FilesAreNatural ==
    ASSUME TypeOK
    PROVE  \A f \in DOMAIN files : /\ files[f].base \in Nat \ {0}
                                   /\ files[f].size \in Nat /\ f \in Nat
<1>1. ASSUME NEW f \in DOMAIN files
      PROVE  files[f] \in Files /\ f \in Nat
  BY DEF TypeOK
<1>2. \A file \in Files : file.base \in Nat \ {0} /\ file.size \in Nat
  <2>1. \A file \in Files : file.base \in 1 .. MaxInt /\ file.size \in Sizes
    BY DEF Files
  <2>2. 1 .. MaxInt \subseteq Nat \ {0} /\ Sizes \subseteq Nat
    BY SizesAssumption
  <2> QED
    BY <2>1, <2>2
<1> QED
  BY <1>1, <1>2

(* The guard of Decode leaves AddFile only sizes that fit: the next file   *)
(* is added behind all others, and the base stays an int.                  *)
LEMMA InvStep == IInv /\ [Next]_vars => IInv'
<1> SUFFICES ASSUME IInv, [Next]_vars
             PROVE  IInv'
  OBVIOUS
<1> USE SizesAssumption DEF IInv, TypeOK, NeverPanics, LaidOut
<1>1. ASSUME NEW size \in Sizes, AddSource(size)
      PROVE  IInv'
  <2>1. size \in Nat /\ base \in Nat /\ MaxInt \in Nat /\ base + size + 1 <= MaxInt
    BY <1>1 DEF AddSource, TooLarge
  <2>2. /\ files' = Append(files, [base |-> base, size |-> size])
        /\ base' = base + size + 1 /\ panicked' = panicked
    BY <1>1, <2>1 DEF AddSource, AddFile
  <2> DEFINE file == [base |-> base, size |-> size]
  <2>3. file \in Files /\ files \in Seq(Files)
    BY <2>1 DEF Files
  <2> HIDE DEF file
  <2>4. /\ files' \in Seq(Files)
        /\ DOMAIN files' = DOMAIN files \cup {Len(files) + 1}
        /\ \A f \in DOMAIN files : f \in 1 .. Len(files) /\ files'[f] = files[f]
        /\ files'[Len(files) + 1] = file
    BY <2>2, <2>3 DEF file
  <2>5. file.base = base /\ file.size = size
    BY DEF file
  <2>6. \A f \in DOMAIN files : files[f].base \in Nat /\ files[f].size \in Nat
    BY FilesAreNatural
  <2>7. TypeOK'
    BY <2>1, <2>2, <2>4
  <2>8. \A f \in DOMAIN files' : files'[f].base + files'[f].size < base'
    BY <2>1, <2>2, <2>4, <2>5, <2>6
  <2>9. \A f, g \in DOMAIN files' :
          f < g => files'[f].base + files'[f].size < files'[g].base
    BY <2>1, <2>4, <2>5, <2>6
  <2> QED
    BY <2>2, <2>7, <2>8, <2>9
<1>2. CASE UNCHANGED vars
  BY <1>2 DEF vars
<1> QED
  BY <1>1, <1>2 DEF Next

(* It holds of the empty FileSet.                                          *)
LEMMA InvHoldsFirst == Init => IInv
<1> SUFFICES ASSUME Init PROVE IInv
  OBVIOUS
<1>1. files = <<>> /\ base = 1 /\ panicked = FALSE /\ DOMAIN files = {}
  BY DEF Init
<1>2. TypeOK
  <2>1. <<>> \in Seq(Files) /\ 1 \in 1 .. MaxInt
    BY SizesAssumption
  <2> QED
    BY <1>1, <2>1 DEF TypeOK
<1> QED
  BY <1>1, <1>2 DEF IInv, NeverPanics, LaidOut

(* The files follow one another without a gap: each base comes right       *)
(* behind the end of the file before.                                      *)
BaseOf(f) == IF f \in DOMAIN files THEN files[f].base ELSE base

Chained == /\ BaseOf(1) = 1
           /\ \A f \in DOMAIN files :
                BaseOf(f + 1) = files[f].base + files[f].size + 1

LEMMA ChainedFirst == Init => Chained
  BY DEF Init, Chained, BaseOf

LEMMA ChainedStep ==
    ASSUME IInv, Chained, [Next]_vars PROVE Chained'
<1>1. ASSUME NEW size \in Sizes, AddSource(size)
      PROVE  Chained'
  <2>1. size \in Nat /\ base \in Nat /\ base + size + 1 <= MaxInt
    BY <1>1, SizesAssumption DEF AddSource, TooLarge, IInv, TypeOK
  <2>2. /\ files' = Append(files, [base |-> base, size |-> size])
        /\ base' = base + size + 1
    BY <1>1, <2>1, SizesAssumption DEF AddSource, AddFile
  <2> PICK file : file = [base |-> base, size |-> size]
    OBVIOUS
  <2>3. file \in Files /\ files \in Seq(Files)
    BY <2>1 DEF Files, IInv, TypeOK
  <2>4. /\ DOMAIN files = 1 .. Len(files) /\ Len(files) \in Nat
        /\ DOMAIN files' = 1 .. Len(files) + 1
        /\ \A f \in 1 .. Len(files) : files'[f] = files[f]
        /\ files'[Len(files) + 1] = file
    <3>1. files' = Append(files, file)
      BY <2>2
    <3> QED
      BY <2>3, <3>1
  <2>5. BaseOf(Len(files) + 1) = base /\ BaseOf(1)' = BaseOf(1)
    BY <2>4 DEF BaseOf
  <2>6. ASSUME NEW f \in 1 .. Len(files) + 1
        PROVE  BaseOf(f + 1)' = files'[f].base + files'[f].size + 1
    <3>1. CASE f = Len(files) + 1
      BY <2>2, <2>4, <3>1 DEF BaseOf
    <3>2. CASE f \in 1 .. Len(files)
      <4>1. BaseOf(f + 1)' = BaseOf(f + 1)
        BY <2>4, <3>2 DEF BaseOf
      <4> QED
        BY <2>4, <3>2, <4>1 DEF Chained
    <3> QED
      BY <2>4, <3>1, <3>2
  <2> QED
    BY <2>4, <2>5, <2>6 DEF Chained
<1>2. CASE UNCHANGED vars
  BY <1>2 DEF vars, Chained, BaseOf
<1> QED
  BY <1>1, <1>2 DEF Next

(* IInv holds in every state of the construction.                          *)
THEOREM Invariance == Spec => []IInv
  BY InvHoldsFirst, InvStep, PTL DEF Spec

(* No declared size reaches AddFile that would make it panic.              *)
THEOREM AddFileNeverPanics == Spec => []NeverPanics
<1>1. IInv => NeverPanics
  BY DEF IInv
<1> QED
  BY <1>1, Invariance, PTL

(* Where the files lie decides which file a position belongs to.           *)
LEMMA LaidOutRoundTrips == IInv => PositionsRoundTrip
<1> SUFFICES ASSUME IInv, NEW f \in DOMAIN files, NEW offset \in 0 .. files[f].size
             PROVE  /\ PosOf(files[f], offset) # NoPos
                    /\ FilesAt(files, PosOf(files[f], offset)) = {f}
                    /\ OffsetOf(files[f], PosOf(files[f], offset)) = offset
  BY DEF PositionsRoundTrip
<1>1. \A g \in DOMAIN files : /\ files[g].base \in Nat \ {0}
                              /\ files[g].size \in Nat /\ g \in Nat
  BY FilesAreNatural DEF IInv
<1>2. offset \in Nat /\ offset <= files[f].size
  BY <1>1
<1>3. Covers(files[f], PosOf(files[f], offset))
  BY <1>1, <1>2 DEF Covers, PosOf
<1>4. ASSUME NEW g \in DOMAIN files, g # f
      PROVE  ~ Covers(files[g], PosOf(files[f], offset))
  <2>1. CASE g < f
    BY <1>1, <1>2, <2>1 DEF IInv, LaidOut, Covers, PosOf
  <2>2. CASE f < g
    BY <1>1, <1>2, <2>2 DEF IInv, LaidOut, Covers, PosOf
  <2> QED
    BY <1>1, <1>4, <2>1, <2>2
<1> QED
  BY <1>1, <1>2, <1>3, <1>4 DEF FilesAt, PosOf, OffsetOf, NoPos

(* A position always leads back to the source and the offset it encodes.   *)
THEOREM PositionsAreFaithful == Spec => []PositionsRoundTrip
  BY LaidOutRoundTrips, Invariance, PTL
=============================================================================
