-------------------------------- MODULE Codec -------------------------------
(***************************************************************************)
(* The way of an AST through the bridge: Encode in one process, the unit   *)
(* as a JSON document, Decode in another one.  The two share nothing but   *)
(* the unit, and Decode trusts nothing of it.                              *)
(***************************************************************************)
EXTENDS Encoder

CONSTANTS MaxInt, Sizes  \* see FileSet

ASSUME WidthAssumption == MaxInt \in Nat \ {0} /\ Sizes \subseteq 0 .. MaxInt

(* A FileSet is the work of FileSet.AddFile: its files lie one behind the  *)
(* other, and there would be a base for one more.  The line table of a     *)
(* file grows by lines that start in the file, each behind the last; the   *)
(* one it begins with is no line of an empty file.                         *)
ASSUME FileSetsAssumption ==
    \A input \in Inputs : input.fset # Nil =>
        /\ \A f \in DOMAIN input.fset :
             /\ input.fset[f].base >= 1 /\ input.fset[f].size \in Sizes
             /\ input.fset[f].base + input.fset[f].size + 1 <= MaxInt
             /\ input.fset[f].size # 0 => LinesOK(input.fset[f])
        /\ \A f, g \in DOMAIN input.fset :
             \/ f = g
             \/ input.fset[f].base + input.fset[f].size < input.fset[g].base
             \/ input.fset[g].base + input.fset[g].size < input.fset[f].base

VARIABLES unit, files, base, panicked, nodes, next, phase  \* see Decoder

decoding  == <<unit, files, base, panicked, nodes, next, phase>>
codecVars == <<vars, decoding>>

Dec == INSTANCE Decoder WITH Units <- {}

CodecInit == /\ Init
             /\ Dec!Idle
             /\ unit = Nil
             /\ phase = "waiting"

Encode == Next /\ UNCHANGED decoding

(* What writeJSON writes: the encoder's own tables stay behind.            *)
Document ==
    [Unit EXCEPT !.sources =
        [k \in DOMAIN @ |-> [id |-> @[k].id, size |-> @[k].size,
                             lines |-> @[k].lines]]]

(* writeJSON and readJSON: what "omitempty" leaves out reads back as what  *)
(* it was.                                                                 *)
Transmit ==
    /\ outcome = "encoded"
    /\ phase = "waiting"
    /\ unit' = Document
    /\ phase' = "validate"
    /\ UNCHANGED <<vars, files, base, panicked, nodes, next>>

Decode == Dec!Next /\ UNCHANGED vars

CodecNext == Encode \/ Transmit \/ Decode

CodecSpec == CodecInit /\ [][CodecNext]_codecVars

(* Both calls run to their end, and a unit that was written is read.       *)
FairSpec == CodecSpec /\ WF_codecVars(CodecNext)

-----------------------------------------------------------------------------

(* A field of a node and the same field of its copy.  Positions are not    *)
(* equal numbers, as the new FileSet has its own layout: they are the same *)
(* place of the same file.                                                 *)
SamePlace(pos, copy) ==
    \E f \in FilesAt(fset, pos) : \E g \in FilesAt(files, copy) :
        /\ sources[g].file = f
        /\ OffsetOf(fset[f], pos) = OffsetOf(files[g], copy)

SameField(value, copy) ==
    IF HasRefs(value)
    THEN copy = [value EXCEPT !.ids = [i \in DOMAIN @ |-> ids[@[i]]]]
    ELSE IF value.tag = "pos" /\ value.pos # NoPos
    THEN copy.tag = "pos" /\ SamePlace(value.pos, copy.pos)
    ELSE copy = value

(* What comes out of Decode is isomorphic to what went into Encode: one    *)
(* copy of each reachable node, shared wherever the node was shared, nil   *)
(* apart from empty, every position where it was in its own file, and the  *)
(* records of the caller as they were.                                     *)
RoundTrip ==
    phase = "decoded" =>
        /\ DOMAIN ids = Reached
        /\ \A o, p \in DOMAIN ids : ids[o] = ids[p] => o = p
        /\ DOMAIN nodes = { ids[o] : o \in DOMAIN ids }
        /\ unit.root = ids[root]
        /\ unit.origins = options.origins
        /\ unit.annotations = options.annotations
        /\ \A o \in DOMAIN ids :
             LET copy == nodes[ids[o]]
             IN /\ copy.kind = heap[o].kind
                /\ DOMAIN copy.fields = DOMAIN heap[o].fields
                /\ \A k \in DOMAIN copy.fields :
                     SameField(heap[o].fields[k], copy.fields[k])

(* Decode takes every unit Encode returns: the checks of both sides agree, *)
(* and the files of the unit fit where the original ones fitted.           *)
NeverRefused == phase # "error"

(* Every call returns, on cyclic ASTs too, and what Encode returned is     *)
(* read and arrives in full.                                               *)
Arrives == <>(outcome = "error" \/ phase = "decoded")

=============================================================================
