------------------------------- MODULE Decoder ------------------------------
(***************************************************************************)
(* codec.Decode: from a unit of the wire to a graph of Go AST nodes.       *)
(*                                                                         *)
(* The unit is validated as a whole, then its sources become a FileSet,    *)
(* then every node is allocated, and only then are fields decoded: that is *)
(* how a row may refer to a later one.  Errors still occur in this last    *)
(* part, when the node table is half filled: the form of a scalar or a     *)
(* position, and whether a child's kind fits the Go type of the field, are *)
(* looked at nowhere else.                                                 *)
(***************************************************************************)
EXTENDS Wire, TokenFiles

CONSTANTS Units,         \* the units that may arrive
          MaxInt, Sizes  \* see FileSet

ASSUME WidthAssumption == MaxInt \in Nat \ {0} /\ Sizes \subseteq 0 .. MaxInt

(* What a JSON document is by its form: lists of rows and sources, sizes   *)
(* that are ints, and one null.                                            *)
ASSUME UnitsAssumption ==
    \A u \in Units :
        /\ u.nodes \in Seq(SeqRange(u.nodes))
        /\ u.sources \in Seq(SeqRange(u.sources))
        /\ \A source \in SeqRange(u.sources) :
             /\ source.size \in Int
             /\ source.size >= 0 => source.size \in Sizes
        /\ \A node \in SeqRange(u.nodes) : \A k \in DOMAIN node.fields :
             node.fields[k].tag = "null" => node.fields[k] = Null

VARIABLES
    unit,                  \* the argument of Decode
    files, base, panicked, \* the FileSet under construction
    nodes,                 \* node ID -> ast.Node: its kind and fields set so far
    next,                  \* position in the current loop: [row, field]
    phase                  \* where Decode is; "decoded" and "error" end it

fileSet == <<files, base, panicked>>
vars == <<unit, files, base, panicked, nodes, next, phase>>

Fs == INSTANCE FileSet

Begin == [row |-> 1, field |-> 1]

(* The state of Decode before its first statement.                         *)
Idle == /\ Fs!Init
        /\ nodes = <<>>
        /\ next = Begin

Init == /\ unit \in Units
        /\ Idle
        /\ phase = "validate"

(* An error returns nothing of what was built.                             *)
Fail == /\ phase' = "error"
        /\ UNCHANGED <<unit, files, base, panicked, nodes, next>>

Validate ==
    /\ phase = "validate"
    /\ \/ /\ ~ ValidForToolchain(unit)
          /\ Fail
       \/ /\ ValidForToolchain(unit)
          /\ phase' = "sources"
          /\ UNCHANGED <<unit, fileSet, nodes, next>>

(* A seeded defect: sizes are not looked at before AddFile.                *)
AddSourceUnguarded ==
    /\ phase = "sources"
    /\ next.row \in DOMAIN unit.sources
    /\ Fs!AddFile(unit.sources[next.row].size)
    /\ next' = [next EXCEPT !.row = @ + 1]
    /\ UNCHANGED <<unit, nodes, phase>>

(* One source.  That its ID is new and that SetLines takes its table is    *)
(* known from Validate; Decode's checks of both never fail.                *)
AddSource ==
    /\ phase = "sources"
    /\ next.row \in DOMAIN unit.sources
    /\ LET size == unit.sources[next.row].size
       IN \/ /\ Fs!TooLarge(size)
             /\ Fail
          \/ /\ Fs!AddSource(size)
             /\ next' = [next EXCEPT !.row = @ + 1]
             /\ UNCHANGED <<unit, nodes, phase>>

(* Every row gets an empty node before any field is decoded.               *)
Allocate ==
    /\ phase = "sources"
    /\ next.row \notin DOMAIN unit.sources
    /\ nodes' = [ id \in NodeIds(unit) |->
                    [kind |-> (CHOOSE n \in SeqRange(unit.nodes) : n.id = id).kind,
                     fields |-> <<>>] ]
    /\ next' = Begin
    /\ phase' = "fields"
    /\ UNCHANGED <<unit, fileSet>>

Row == unit.nodes[next.row]
FieldSpec == KindFields[Row.kind][next.field]

InField == /\ phase = "fields"
           /\ next.row \in DOMAIN unit.nodes
           /\ next.field \in DOMAIN KindFields[Row.kind]

(* A field is set, or passed over, which leaves its zero value.            *)
Set(value) ==
    /\ nodes' = [nodes EXCEPT ![Row.id].fields = Append(@, value)]
    /\ next' = [next EXCEPT !.field = @ + 1]
    /\ UNCHANGED <<unit, fileSet, phase>>

Zero(spec) == IF spec.type = "position" THEN Pos(NoPos) ELSE Null

SkipField ==
    /\ InField
    /\ next.field \notin DOMAIN Row.fields
    /\ Set(Zero(FieldSpec))

(* decodeField: the wire form has to be the one of the field.              *)
Decodes(value, spec) ==
    CASE spec.type = "position" -> value.tag \in {"null", "position"}
      [] spec.type = "scalar" -> value.tag = "scalar" /\ value.value \in Registered
      [] OTHER -> TRUE

(* SetNodeField: the Go type of the field has to hold each of the nodes.   *)
Holds(value, spec) ==
    \A id \in SeqRange(RefIds(value)) : nodes[id].kind \in spec.holds

(* A seeded defect: the offset is taken for the position.                  *)
PosWithoutBase(value) == value.offset

(* The token.Pos of a wire position.                                       *)
PosAt(value) ==
    LET f == CHOOSE f \in DOMAIN unit.sources : unit.sources[f].id = value.source
    IN PosOf(files[f], value.offset)

DecodeField ==
    /\ InField
    /\ next.field \in DOMAIN Row.fields
    /\ LET value == Row.fields[next.field]
       IN \/ /\ ~ Decodes(value, FieldSpec) \/ ~ Holds(value, FieldSpec)
             /\ Fail
          \/ /\ Decodes(value, FieldSpec) /\ Holds(value, FieldSpec)
             /\ Set(IF FieldSpec.type = "position"
                    THEN Pos(IF value = Null THEN NoPos ELSE PosAt(value))
                    ELSE value)

NextNode ==
    /\ phase = "fields"
    /\ next.row \in DOMAIN unit.nodes
    /\ next.field \notin DOMAIN KindFields[Row.kind]
    /\ next' = [row |-> next.row + 1, field |-> 1]
    /\ UNCHANGED <<unit, fileSet, nodes, phase>>

(* The root, the nodes and the FileSet are returned together.              *)
Return ==
    /\ phase = "fields"
    /\ next.row \notin DOMAIN unit.nodes
    /\ phase' = "decoded"
    /\ UNCHANGED <<unit, fileSet, nodes, next>>

Next == \/ Validate \/ AddSource \/ Allocate
        \/ SkipField \/ DecodeField \/ NextNode
        \/ Return

Spec == Init /\ [][Next]_vars

-----------------------------------------------------------------------------

(* A Go value is what the wire says: the same children, null only for nil  *)
(* and NoPos, the zero value for what was left out, and a position that    *)
(* the FileSet resolves to the source and offset it came from.             *)
StandsFor(value, fields, k, spec) ==
    IF k \notin DOMAIN fields THEN value = Zero(spec)
    ELSE IF spec.type # "position" THEN value = fields[k]
    ELSE IF fields[k] = Null THEN value = Pos(NoPos)
    ELSE /\ value = Pos(value.pos) /\ value.pos # NoPos
         /\ \E f \in DOMAIN files :
              /\ FilesAt(files, value.pos) = {f}
              /\ unit.sources[f].id = fields[k].source
              /\ OffsetOf(files[f], value.pos) = fields[k].offset

(* What is returned is complete: nodes are handed out that still wait for  *)
(* fields while Decode runs, but every one of them is filled at the end.   *)
DecodedIsCopy ==
    phase = "decoded" =>
        /\ DOMAIN nodes = NodeIds(unit) /\ unit.root \in DOMAIN nodes
        /\ \A node \in SeqRange(unit.nodes) :
             LET specs == KindFields[node.kind]
                 fields == nodes[node.id].fields
             IN /\ nodes[node.id].kind = node.kind
                /\ DOMAIN fields = DOMAIN specs
                /\ \A k \in DOMAIN specs :
                     StandsFor(fields[k], node.fields, k, specs[k])

(* Whatever visits the decoded AST without remembering what it saw, such   *)
(* as go/format and ast.Inspect, comes to an end; and every node it meets  *)
(* has a Go type its parent's field can hold.                              *)
DecodedIsGoAST ==
    phase = "decoded" =>
        /\ Acyclic([ id \in DOMAIN nodes |->
                       FieldRefs(nodes[id].fields, KindFields[nodes[id].kind]) ])
        /\ \A id \in DOMAIN nodes : \A k \in DOMAIN nodes[id].fields :
             \A child \in SeqRange(RefIds(nodes[id].fields[k])) :
                 IsChildField(KindFields[nodes[id].kind][k]) =>
                     nodes[child].kind \in KindFields[nodes[id].kind][k].holds

(* The sources of a unit fit one after the other below MaxInt: there are   *)
(* bases for the files and for the one that would come next.               *)
Layouts == [1 .. Len(unit.sources) + 1 -> 1 .. MaxInt]

IsLayout(bases) ==
    /\ bases[1] = 1
    /\ \A k \in DOMAIN unit.sources :
         bases[k + 1] = bases[k] + unit.sources[k].size + 1

SourcesFit == \E bases \in Layouts : IsLayout(bases)

(* What a unit has to be: valid, below MaxInt, of the wire form that each  *)
(* field asks for, and with children that the Go fields can hold.          *)
Decodable ==
    /\ ValidForToolchain(unit)
    /\ SourcesFit
    /\ \A node \in SeqRange(unit.nodes) : \A k \in DOMAIN node.fields :
         LET spec == KindFields[node.kind][k]
         IN /\ Decodes(node.fields[k], spec)
            /\ \A child \in SeqRange(unit.nodes) :
                 child.id \in SeqRange(RefIds(node.fields[k])) =>
                     child.kind \in spec.holds

(* Decode turns a unit down for no other reason than these, and whatever   *)
(* part it has built by then: forward references, shared children, empty   *)
(* files and offsets at the end of a file are all accepted.                *)
ErrorIsJustified ==
    phase \in {"decoded", "error"} => (phase = "decoded" <=> Decodable)

(* The FileSet is built by the protocol of FileSet: no panic, no overlap.  *)
BuildsFileSet == Fs!Spec

=============================================================================
