-------------------------------- MODULE Wire --------------------------------
(***************************************************************************)
(* The node table that Racket and Go exchange, the Go AST it stands for,   *)
(* and the checks both directions run on it (codec/wire.go, validate.go    *)
(* and the first half of decode.go).                                       *)
(*                                                                         *)
(* A field value is a record whose "tag" says which of the wire forms it   *)
(* is.  The fields of a node in memory are written with the same records,  *)
(* with objects in the place of node IDs, so that encoding a field is a    *)
(* renaming.  A node-map is a "refs" value in the order of its sorted      *)
(* keys.  Tokens, enums, strings, booleans and integers are scalars.       *)
(***************************************************************************)
EXTENDS Integers, Sequences, FiniteSets, ReferenceGraphs

CONSTANTS
    Nil,         \* the nil node, the nil FileSet
    NoOrigin,    \* a node without provenance (the empty OriginID)
    KindFields,  \* [kind -> Seq of field specifications]: generated NodeSpecs
    Registered   \* the scalars with a wire form: registered tokens, enum names

(* A field specification: its form, whether it may be omitted, and which   *)
(* node kinds the Go field type can hold.  The generated schema makes only *)
(* children and positions optional.                                        *)
FieldSpecs == [type : {"node", "nodes", "position", "scalar"},
               optional : BOOLEAN,
               holds : SUBSET DOMAIN KindFields]

ASSUME KindFieldsAssumption ==
    \A kind \in DOMAIN KindFields :
        /\ KindFields[kind] \in Seq(FieldSpecs)
        /\ \A k \in DOMAIN KindFields[kind] :
             KindFields[kind][k].type = "scalar" => ~ KindFields[kind][k].optional

Null              == [tag |-> "null"]
Ref(id)           == [tag |-> "ref", ids |-> <<id>>]
Refs(ids)         == [tag |-> "refs", ids |-> ids]
At(source, offset) == [tag |-> "position", source |-> source, offset |-> offset]
Pos(pos)          == [tag |-> "pos", pos |-> pos]   \* in memory only
Scalar(value)     == [tag |-> "scalar", value |-> value]

HasRefs(value) == value.tag \in {"ref", "refs"}

(* The references in a field value, in order.                              *)
RefIds(value) == IF HasRefs(value) THEN value.ids ELSE <<>>

IsChildField(spec) == spec.type \in {"node", "nodes"}

(* The children of a record: the references of its child fields, by the    *)
(* field and the place in it.                                              *)
FieldRefs(fields, spec) ==
    LET childFields == { k \in DOMAIN spec \cap DOMAIN fields :
                           IsChildField(spec[k]) }
    IN [ place \in UNION { {k} \X DOMAIN RefIds(fields[k]) : k \in childFields } |->
           RefIds(fields[place[1]])[place[2]] ]

SeqRange(seq) == { seq[i] : i \in DOMAIN seq }

-----------------------------------------------------------------------------
(* Validation of a unit: [root, nodes, sources, origins, annotations],     *)
(* where a node is [id, kind, origin, fields] and fields is a function on  *)
(* some of the field positions of the kind; a source is [id, size, lines]; *)
(* an origin is [id, inputs, spans], its primary origin first among the    *)
(* inputs and spans a set of [source, first, last]; an annotation is       *)
(* [namespace, node], with Nil for a namespace or a value that is not      *)
(* well-formed.                                                            *)

NodeIds(unit)   == { unit.nodes[k].id : k \in DOMAIN unit.nodes }
OriginIds(unit) == { unit.origins[k].id : k \in DOMAIN unit.origins }

Distinct(seq) == \A j, k \in DOMAIN seq : seq[j].id = seq[k].id => j = k

(* The line table of a source: strictly increasing offsets of the text.    *)
(* Nil stands for a table that is left out.                                *)
LinesOK(source) ==
    source.lines # Nil =>
        \A k \in DOMAIN source.lines :
            /\ source.lines[k] \in 0 .. source.size - 1
            /\ k > 1 => source.lines[k - 1] < source.lines[k]

(* validateWireValue                                                       *)
ValueOK(value, unit) ==
    /\ SeqRange(RefIds(value)) \subseteq NodeIds(unit)
    /\ value.tag = "position" =>
         \E source \in SeqRange(unit.sources) :
             /\ source.id = value.source
             /\ value.offset \in 0 .. source.size

(* validateSpan                                                            *)
SpanOK(span, unit) ==
    \E source \in SeqRange(unit.sources) :
        /\ source.id = span.source
        /\ 0 <= span.first /\ span.first <= span.last
        /\ span.last <= source.size

(* The edges that validateOriginAcyclic follows.                           *)
OriginGraph(unit) ==
    [ id \in OriginIds(unit) |->
        (CHOOSE origin \in SeqRange(unit.origins) : origin.id = id).inputs ]

(* The provenance of a unit is a DAG over its sources.                     *)
OriginsOK(unit) ==
    /\ Distinct(unit.origins)
    /\ \A origin \in SeqRange(unit.origins) :
         /\ SeqRange(origin.inputs) \subseteq OriginIds(unit)
         /\ \A span \in origin.spans : SpanOK(span, unit)
    /\ Acyclic(OriginGraph(unit))

(* One annotation of each namespace for a node.                            *)
AnnotationsOK(unit) ==
    \A j \in DOMAIN unit.annotations :
        /\ unit.annotations[j].namespace # Nil
        /\ unit.annotations[j].node \in NodeIds(unit)
        /\ \A k \in DOMAIN unit.annotations \ {j} :
             unit.annotations[j] # unit.annotations[k]

(* ValidateEnvelope, apart from extensions and the format's own identity.  *)
EnvelopeOK(unit) ==
    /\ Distinct(unit.nodes)
    /\ unit.root \in NodeIds(unit)
    /\ Distinct(unit.sources)
    /\ \A source \in SeqRange(unit.sources) : source.size >= 0 /\ LinesOK(source)
    /\ \A node \in SeqRange(unit.nodes) :
         /\ node.origin = NoOrigin \/ node.origin \in OriginIds(unit)
         /\ \A k \in DOMAIN node.fields : ValueOK(node.fields[k], unit)
    /\ OriginsOK(unit)
    /\ AnnotationsOK(unit)

Nullable(spec) == spec.optional \/ spec.type \in {"nodes", "position"}

(* The field checks of ValidateForToolchain and, for child fields, of      *)
(* childReferenceIDs.                                                      *)
FieldsOK(node) ==
    LET spec == KindFields[node.kind]
    IN /\ DOMAIN node.fields \subseteq DOMAIN spec
       /\ \A k \in DOMAIN spec \ DOMAIN node.fields : spec[k].optional
       /\ \A k \in DOMAIN node.fields :
            /\ node.fields[k] = Null => Nullable(spec[k])
            /\ spec[k].type = "node" => node.fields[k].tag \in {"null", "ref"}
            /\ spec[k].type = "nodes" => node.fields[k].tag \in {"null", "refs"}

(* The edges that validateASTAcyclic collects: child fields only.          *)
ChildGraph(nodes) ==
    [ id \in { node.id : node \in nodes } |->
        LET node == CHOOSE node \in nodes : node.id = id
        IN FieldRefs(node.fields, KindFields[node.kind]) ]

(* A seeded defect: cycles are not looked for.                             *)
ValidCyclesAllowed(unit) ==
    /\ EnvelopeOK(unit)
    /\ \A node \in SeqRange(unit.nodes) :
         node.kind \in DOMAIN KindFields /\ FieldsOK(node)

(* ValidateForToolchain                                                    *)
ValidForToolchain(unit) ==
    /\ EnvelopeOK(unit)
    /\ \A node \in SeqRange(unit.nodes) :
         node.kind \in DOMAIN KindFields /\ FieldsOK(node)
    /\ Acyclic(ChildGraph(SeqRange(unit.nodes)))
=============================================================================
