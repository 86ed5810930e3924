------------------------------- MODULE Encoder ------------------------------
(***************************************************************************)
(* codec.Encode: from a graph of Go AST nodes in memory to a node table.   *)
(*                                                                         *)
(* The recursion encodeNode / encodeField is a stack with one frame per    *)
(* active call of encodeNode.  A node gets its ID and its row *before* its *)
(* fields are read, which is what makes sharing and cycles come to an end, *)
(* and what makes rows that are not complete yet be referred to.           *)
(***************************************************************************)
EXTENDS Wire, TokenFiles

CONSTANTS
    Objects,    \* the ast.Node values in memory
    Inputs      \* the arguments Encode may be given

(* A heap gives each object its kind, its origin (EncodeOptions.Origins)   *)
(* and its fields, all of them.  The root may be Nil, and so may the       *)
(* FileSet, a sequence of files with their name, base, size and lines.     *)
(* The options bring origin records and annotations (see Wire), written in *)
(* terms of the IDs that Encode is about to give to nodes and sources.     *)

(* What a field of each Go type may hold: a child or nil, a list or nil,   *)
(* whose elements may be nil, a position, a scalar.                        *)
FieldInMemory(value, spec) ==
    \/ /\ spec.type = "node"
       /\ value = Null \/ \E object \in Objects : value = Ref(object)
    \/ /\ spec.type = "nodes"
       /\ \/ value = Null
          \/ value = Refs(value.ids) /\ value.ids \in Seq(Objects \cup {Nil})
    \/ spec.type = "position" /\ value = Pos(value.pos)
    \/ spec.type = "scalar" /\ value = Scalar(value.value)

ArgumentsOK(nodes, node, files) ==
    /\ node \in Objects \cup {Nil}
    /\ \A o \in Objects :
         /\ nodes[o].kind \in DOMAIN KindFields
         /\ DOMAIN nodes[o].fields = DOMAIN KindFields[nodes[o].kind]
         /\ \A k \in DOMAIN nodes[o].fields :
              FieldInMemory(nodes[o].fields[k], KindFields[nodes[o].kind][k])
    /\ files # Nil =>
         \A f \in DOMAIN files : files[f].base \in Nat /\ files[f].size \in Nat

ASSUME InputsAssumption ==
    \A input \in Inputs : ArgumentsOK(input.heap, input.root, input.fset)

VARIABLES
    heap, root, fset, options,  \* the arguments of Encode
    ids,               \* encoder.ids: the objects met and their node IDs
    rows,              \* encoder.nodes
    sources,           \* encoder.sources
    stack,             \* active calls of encodeNode, outermost first
    outcome            \* "called", "encoding", then "encoded" or "error"

inputs == <<heap, root, fset, options>>
vars == <<heap, root, fset, options, ids, rows, sources, stack, outcome>>

-----------------------------------------------------------------------------
(* The file of a position, if the encoder has a FileSet and it covers it.  *)
FileOf(pos) == IF fset = Nil THEN {} ELSE FilesAt(fset, pos)

Top == stack[Len(stack)]

(* The innermost call is at the first field its row does not have.         *)
Row       == rows[ids[Top.object]]
FieldSpec == KindFields[heap[Top.object].kind]
Field     == Len(Row.fields) + 1
Value     == heap[Top.object].fields[Field]
InField   == outcome = "encoding" /\ stack # <<>> /\ Field <= Len(FieldSpec)

(* The static types of package ast: a field only holds nodes of the kinds  *)
(* its Go type admits.                                                     *)
WellTyped ==
    \A o \in Objects : \A k \in DOMAIN heap[o].fields :
        \A child \in SeqRange(RefIds(heap[o].fields[k])) \ {Nil} :
            heap[child].kind \in KindFields[heap[o].kind][k].holds

Init == /\ \E input \in Inputs : /\ heap = input.heap
                                 /\ root = input.root
                                 /\ fset = input.fset
                                 /\ options = input.options
        /\ WellTyped
        /\ ids = <<>>
        /\ rows = <<>>
        /\ sources = <<>>
        /\ stack = <<>>
        /\ outcome = "called"

(* Any error is returned through all active calls; the unit is not built.  *)
Fail == /\ outcome' = "error"
        /\ UNCHANGED <<inputs, ids, rows, sources, stack>>

(* encodeNode of an object that has no ID: take the next ID, remember it   *)
(* and append the row, then go through the fields.                         *)
Enter(object) ==
    LET id == Len(rows) + 1
    IN /\ ids' = [o \in DOMAIN ids \cup {object} |->
                    IF o = object THEN id ELSE ids[o]]
       /\ rows' = Append(rows, [id |-> id, kind |-> heap[object].kind,
                                origin |-> heap[object].origin,
                                fields |-> <<>>])
       /\ stack' = Append(stack, [object |-> object, refs |-> <<>>])

(* The current field is encoded: its wire value goes into the row.         *)
Write(value) ==
    /\ rows' = [rows EXCEPT ![ids[Top.object]].fields = Append(@, value)]
    /\ stack' = [stack EXCEPT ![Len(stack)].refs = <<>>]
    /\ UNCHANGED <<inputs, ids, outcome>>

Start ==
    /\ outcome = "called"
    /\ \/ /\ root = Nil
          /\ Fail
       \/ /\ root # Nil
          /\ Enter(root)
          /\ outcome' = "encoding"
          /\ UNCHANGED <<inputs, sources>>

(* A seeded defect: a list is null when it has no elements.                *)
EncodeEmptyAsNull ==
    /\ InField
    /\ Value \in {Null, Pos(NoPos), Refs(<<>>)}
    /\ Write(Null)
    /\ UNCHANGED sources

(* A nil child, a nil list or map, and NoPos are all null on the wire; an  *)
(* empty list is not.                                                      *)
EncodeNull ==
    /\ InField
    /\ Value \in {Null, Pos(NoPos)}
    /\ Write(Null)
    /\ UNCHANGED sources

EncodeScalar ==
    /\ InField
    /\ Value.tag = "scalar"
    /\ \/ /\ Value.value \in Registered
          /\ Write(Value)
          /\ UNCHANGED sources
       \/ /\ Value.value \notin Registered
          /\ Fail

(* A seeded defect: the line table of an empty file is sent as it is.      *)
NewSourceWithLines(f) ==
    [id |-> Len(sources) + 1, file |-> f, size |-> fset[f].size,
     lines |-> fset[f].lines]

(* encodePosition: the source of a file is interned at its first position. *)
NewSource(f) ==
    [id |-> Len(sources) + 1, file |-> f, size |-> fset[f].size,
     lines |-> IF fset[f].size # 0 THEN fset[f].lines ELSE Nil]

(* A seeded defect: the source of any file is taken.                       *)
EncodePositionAnySource ==
    /\ InField
    /\ Value.tag = "pos" /\ Value.pos # NoPos
    /\ \/ /\ FileOf(Value.pos) = {}
          /\ Fail
       \/ \E f \in FileOf(Value.pos), k \in DOMAIN sources :
             /\ Write(At(k, Value.pos - fset[f].base))
             /\ UNCHANGED sources
       \/ \E f \in FileOf(Value.pos) :
             /\ sources = <<>>
             /\ sources' = Append(sources, NewSource(f))
             /\ Write(At(Len(sources) + 1, Value.pos - fset[f].base))

EncodePosition ==
    /\ InField
    /\ Value.tag = "pos" /\ Value.pos # NoPos
    /\ \/ /\ FileOf(Value.pos) = {}
          /\ Fail
       \/ \E f \in FileOf(Value.pos), k \in DOMAIN sources :
             /\ sources[k].file = f
             /\ Write(At(k, Value.pos - fset[f].base))
             /\ UNCHANGED sources
       \/ \E f \in FileOf(Value.pos) :
             /\ \A k \in DOMAIN sources : sources[k].file # f
             /\ sources' = Append(sources, NewSource(f))
             /\ Write(At(Len(sources) + 1, Value.pos - fset[f].base))

(* Seeded defects: a child that has an ID gets another one; the loop over  *)
(* the children does not advance past such a child.                        *)
EncodeChildUnshared ==
    /\ InField
    /\ HasRefs(Value)
    /\ Len(Top.refs) < Len(Value.ids)
    /\ LET child == Value.ids[Len(Top.refs) + 1]
       IN /\ child # Nil
          /\ Enter(child)
          /\ UNCHANGED <<inputs, sources, outcome>>

EncodeChildStuck ==
    /\ InField
    /\ HasRefs(Value)
    /\ Len(Top.refs) < Len(Value.ids)
    /\ LET child == Value.ids[Len(Top.refs) + 1]
       IN /\ child # Nil /\ child \notin DOMAIN ids
          /\ Enter(child)
          /\ UNCHANGED <<inputs, sources, outcome>>

(* The next child of a node, node-list or node-map field.                  *)
EncodeChild ==
    /\ InField
    /\ HasRefs(Value)
    /\ Len(Top.refs) < Len(Value.ids)
    /\ LET child == Value.ids[Len(Top.refs) + 1]
       IN \/ /\ child = Nil
             /\ Fail
          \/ /\ child \in DOMAIN ids
             /\ stack' = [stack EXCEPT ![Len(stack)].refs =
                            Append(@, ids[child])]
             /\ UNCHANGED <<inputs, ids, rows, sources, outcome>>
          \/ /\ child # Nil /\ child \notin DOMAIN ids
             /\ Enter(child)
             /\ UNCHANGED <<inputs, sources, outcome>>

(* All children of the field have their IDs.                               *)
EncodeRefs ==
    /\ InField
    /\ HasRefs(Value)
    /\ Len(Top.refs) = Len(Value.ids)
    /\ Write([Value EXCEPT !.ids = Top.refs])
    /\ UNCHANGED sources

(* encodeNode returns the ID to the call that was waiting for it.          *)
Return ==
    /\ outcome = "encoding" /\ stack # <<>>
    /\ Field > Len(FieldSpec)
    /\ LET callers == SubSeq(stack, 1, Len(stack) - 1)
       IN stack' = IF callers = <<>> THEN <<>>
                   ELSE [callers EXCEPT ![Len(callers)].refs =
                           Append(@, ids[Top.object])]
    /\ UNCHANGED <<inputs, ids, rows, sources, outcome>>

Unit == [root |-> ids[root], nodes |-> rows, sources |-> sources,
         origins |-> options.origins, annotations |-> options.annotations]

(* A seeded defect: the unit is returned without validation.               *)
DeliverUnvalidated ==
    /\ outcome = "encoding" /\ stack = <<>>
    /\ outcome' = "encoded"
    /\ UNCHANGED <<inputs, ids, rows, sources, stack>>

(* The unit is validated before it is returned.                            *)
Deliver ==
    /\ outcome = "encoding" /\ stack = <<>>
    /\ outcome' = IF ValidForToolchain(Unit) THEN "encoded" ELSE "error"
    /\ UNCHANGED <<inputs, ids, rows, sources, stack>>

Next == \/ Start
        \/ EncodeNull \/ EncodeScalar \/ EncodePosition
        \/ EncodeChild \/ EncodeRefs \/ Return
        \/ Deliver

Spec == Init /\ [][Next]_vars

-----------------------------------------------------------------------------
(* The encoding in progress                                                *)

(* Every object met has a row of its own, found under its ID.              *)
OneRowEach ==
    /\ \A o \in DOMAIN ids :
         /\ ids[o] \in DOMAIN rows
         /\ rows[ids[o]].kind = heap[o].kind
         /\ rows[ids[o]].origin = heap[o].origin
    /\ \A o, p \in DOMAIN ids : ids[o] = ids[p] => o = p
    /\ \A k \in DOMAIN rows : rows[k].id = k /\ \E o \in DOMAIN ids : ids[o] = k

(* A wire value stands for a field of the heap: null for nil and NoPos     *)
(* only, the IDs of the children in their order, and a position that leads *)
(* back to the same place of the same file.                                *)
Represents(wire, value) ==
    CASE HasRefs(value) ->
           /\ SeqRange(value.ids) \subseteq DOMAIN ids
           /\ wire = [value EXCEPT !.ids = [i \in DOMAIN @ |-> ids[@[i]]]]
      [] value.tag = "pos" /\ value.pos # NoPos ->
           \E k \in DOMAIN sources :
               /\ fset[sources[k].file].base + wire.offset = value.pos
               /\ wire = At(k, wire.offset)
               /\ wire.offset \in 0 .. sources[k].size
      [] OTHER -> wire = IF value.tag = "pos" THEN Null ELSE value

(* In the middle of an encoding too: what a row has so far represents the  *)
(* first fields of its object, and only rows of active calls lack fields.  *)
(* No reference leaves the table, although it may lead to such a row.      *)
RowsRepresent ==
    \A o \in DOMAIN ids :
        LET fields == rows[ids[o]].fields
        IN /\ \A k \in DOMAIN fields : Represents(fields[k], heap[o].fields[k])
           /\ Len(fields) = Len(KindFields[heap[o].kind])
              \/ \E k \in DOMAIN stack : stack[k].object = o

(* The references gathered for the current field of each active call, with *)
(* the call below it as the next one.                                      *)
CallersWait ==
    \A k \in DOMAIN stack :
        LET frame == stack[k]
            field == Len(rows[ids[frame.object]].fields) + 1
            value == heap[frame.object].fields[field]
        IN /\ frame.refs # <<>> => \A i \in DOMAIN frame.refs :
                frame.refs[i] = ids[value.ids[i]]
           /\ k < Len(stack) =>
                stack[k + 1].object = value.ids[Len(frame.refs) + 1]

(* Each file is interned once.                                             *)
SourcesInterned ==
    \A j, k \in DOMAIN sources :
        /\ sources[k].id = k
        /\ sources[j].file = sources[k].file => j = k

EncoderInv == /\ OneRowEach
              /\ RowsRepresent
              /\ CallersWait
              /\ SourcesInterned

-----------------------------------------------------------------------------
(* What Encode promises                                                    *)

(* The child graph in memory; nil children are no edges.                   *)
HeapGraph ==
    [ o \in Objects |->
        LET refs == FieldRefs(heap[o].fields, KindFields[heap[o].kind])
        IN [ place \in { p \in DOMAIN refs : refs[p] # Nil } |-> refs[place] ] ]

Reached == Reachable(HeapGraph, root)

(* A field that has a wire form and that the schema accepts.               *)
Encodable(value, spec) ==
    /\ HasRefs(value) => Nil \notin SeqRange(value.ids)
    /\ value.tag = "scalar" => value.value \in Registered
    /\ value.tag = "pos" /\ value.pos # NoPos => FileOf(value.pos) # {}
    /\ value = Null => Nullable(spec)

(* The nodes and the files the unit will know, and the records the caller  *)
(* has made for it.                                                        *)
FilesMet ==
    UNION { UNION { IF value.tag = "pos" THEN FileOf(value.pos) ELSE {} :
                      value \in SeqRange(heap[o].fields) } : o \in Reached }

(* Source k will be the k-th file met; its size is the largest offset.     *)
RecordsFit ==
    /\ Distinct(options.origins)
    /\ \A origin \in SeqRange(options.origins) :
         /\ SeqRange(origin.inputs) \subseteq { r.id : r \in SeqRange(options.origins) }
         /\ \A span \in origin.spans :
              /\ span.source \in 1 .. Cardinality(FilesMet)
              /\ 0 <= span.first /\ span.first <= span.last
              /\ span.last <= fset[sources[span.source].file].size
    /\ Acyclic(OriginGraph(options))
    /\ \A note \in SeqRange(options.annotations) :
         note.namespace # Nil /\ note.node \in 1 .. Cardinality(Reached)
    /\ \A j, k \in DOMAIN options.annotations :
         options.annotations[j] = options.annotations[k] => j = k

(* What an AST and its records have to be.  In particular every DAG is     *)
(* accepted.                                                               *)
EncodableArguments ==
    /\ root # Nil
    /\ \A o \in Reached :
         /\ heap[o].origin \in OriginIds(options) \cup {NoOrigin}
         /\ \A k \in DOMAIN heap[o].fields :
              Encodable(heap[o].fields[k], KindFields[heap[o].kind][k])
    /\ Acyclic([o \in Reached |-> HeapGraph[o]])
    /\ RecordsFit

(* An AST is turned down exactly when something in it has no wire form: a  *)
(* nil root, a nil list element, a required child that is nil, a token     *)
(* that is not registered, a stray position, an origin that is not         *)
(* declared, or a child cycle; or when the records of the caller do not    *)
(* fit the nodes and sources of the unit, a cycle of origins included.     *)
ErrorIsJustified ==
    outcome \in {"encoded", "error"} =>
        (outcome = "encoded" <=> EncodableArguments)

(* Once given, an ID, a written field and an interned source stay: other   *)
(* rows may refer to them already.                                         *)
Stays ==
    /\ \A o \in DOMAIN ids : o \in DOMAIN ids' /\ ids'[o] = ids[o]
    /\ \A k \in DOMAIN rows :
         /\ k \in DOMAIN rows'
         /\ \A f \in DOMAIN rows[k].fields :
              /\ f \in DOMAIN rows'[k].fields
              /\ rows'[k].fields[f] = rows[k].fields[f]
    /\ \A k \in DOMAIN sources : k \in DOMAIN sources' /\ sources'[k] = sources[k]

WrittenStays == [][Stays]_vars
=============================================================================
