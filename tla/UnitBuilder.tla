----------------------------- MODULE UnitBuilder ----------------------------
(***************************************************************************)
(* make-go-ast-unit of go-kernel/wire.rkt: from IR nodes in memory to a    *)
(* unit.  Nodes are immutable values that carry their ID, so two of them   *)
(* may carry the same one: a node and an edited copy of it, or nodes made  *)
(* before and after the ID counter was reset.  The builder keeps one row   *)
(* per ID.  The fields of a node are a Racket hash, so they are visited in *)
(* no particular order; a list is a run of fields.  A mutable vector or    *)
(* hash in a field can hold the node whose field it is: nodes of extension *)
(* namespaces can be cyclic.  What the unit says beside the nodes, origins *)
(* and annotations, is given with them and judged at the end.              *)
(***************************************************************************)
EXTENDS Integers, Sequences, FiniteSets, ReferenceGraphs

CONSTANTS
    Nil,      \* a size that is not declared, an origin a node does not have,
              \* an ID a wire hash does not have (#f)
    Heaps,    \* what the nodes in memory may be, by object
    Arguments \* what may be given with them: [sources, origins, annotations,
              \* extensions], the first three sequences of records

Root == 1  \* the object that is given to the builder

Node(object)       == [tag |-> "node", object |-> object]
Ref(id)            == [tag |-> "ref", id |-> id]
At(source, offset) == [tag |-> "position", source |-> source, offset |-> offset]
Plain(value)       == [tag |-> "plain", value |-> value]

(* A field is one of the four.  Offsets and sizes are not negative.        *)
ASSUME HeapsAssumption ==
    \A heap \in Heaps :
        /\ Root \in DOMAIN heap /\ IsFiniteSet(DOMAIN heap)
        /\ \A o \in DOMAIN heap : \A k \in DOMAIN heap[o].fields :
             LET value == heap[o].fields[k]
             IN \/ /\ value.tag = "node" /\ value = Node(value.object)
                   /\ value.object \in DOMAIN heap
                \/ value.tag = "ref" /\ value = Ref(value.id)
                \/ /\ value.tag = "position"
                   /\ value = At(value.source, value.offset)
                   /\ value.offset \in Nat
                \/ value.tag = "plain" /\ value = Plain(value.value)

ASSUME ArgumentsAssumption ==
    \A arguments \in Arguments : \A i \in DOMAIN arguments.sources :
        arguments.sources[i].size # Nil => arguments.sources[i].size \in Nat

VARIABLES
    heap,      \* the nodes: [id, origin, valid, fields]
    arguments, \* a source is [id, size, lines]; an origin [typed, id, inputs,
               \* spans], a span being [source, end]; an annotation [typed,
               \* namespace, node]; extensions says if all entries are right
    originals, \* ID -> the object first met with it
    table,     \* ID -> [origin, fields] of its row, Placeholder until complete
    sizes,     \* source-records: source -> size
    stack,     \* active calls of visit, with the fields they have left
    outcome    \* "called", "declared", "visiting", then "built" or "error"

vars == <<heap, arguments, originals, table, sizes, stack, outcome>>

Placeholder == [origin |-> Nil, fields |-> <<[tag |-> "placeholder"]>>]

Top == stack[Len(stack)]

-----------------------------------------------------------------------------
(* Declared sources                                                        *)

SourcesDistinct ==
    \A i, j \in DOMAIN arguments.sources :
        arguments.sources[i].id = arguments.sources[j].id => i = j

declared ==
    [ s \in { arguments.sources[i].id : i \in DOMAIN arguments.sources } |->
        arguments.sources[ CHOOSE i \in DOMAIN arguments.sources :
                             arguments.sources[i].id = s ] ]

-----------------------------------------------------------------------------
(* Values                                                                  *)

Objects == DOMAIN heap

(* What equal? compares of two nodes, once R is known of the nodes in      *)
(* their fields.                                                           *)
Alike(o, p, R) ==
    /\ heap[o].id = heap[p].id
    /\ heap[o].origin = heap[p].origin /\ heap[o].valid = heap[p].valid
    /\ DOMAIN heap[o].fields = DOMAIN heap[p].fields
    /\ \A k \in DOMAIN heap[o].fields :
         LET v == heap[o].fields[k]
             w == heap[p].fields[k]
         IN IF v.tag = "node"
            THEN w.tag = "node" /\ <<v.object, w.object>> \in R
            ELSE v = w

(* equal? of two nodes: it takes in all that is below them.                *)
SameNode(o, p) ==
    \/ o = p
    \/ \E R \in SUBSET (Objects \X Objects) :
          <<o, p>> \in R /\ \A pair \in R : Alike(pair[1], pair[2], R)

(* canonical-value, apart from what it visits.                             *)
Canonical(value) ==
    IF value.tag = "node" THEN Ref(heap[value.object].id) ELSE value

MaxOf(m, n) == IF m >= n THEN m ELSE n

(* Bind x to v in a table.                                                 *)
Put(f, x, v) == [y \in DOMAIN f \cup {x} |-> IF y = x THEN v ELSE f[y]]

SizeOf(source) == IF source \in DOMAIN sizes THEN sizes[source] ELSE 0

TooFar(position) ==
    /\ position.source \in DOMAIN declared
    /\ declared[position.source].size # Nil
    /\ position.offset > declared[position.source].size

-----------------------------------------------------------------------------

Init == /\ heap \in Heaps
        /\ arguments \in Arguments
        /\ originals = <<>>
        /\ table = <<>>
        /\ sizes = <<>>
        /\ stack = <<>>
        /\ outcome = "called"

Fail == /\ outcome' = "error"
        /\ UNCHANGED <<originals, table, stack>>

(* A source may be declared once; what was recorded before the second one  *)
(* is found is not used.                                                   *)
DeclareSources ==
    /\ outcome = "called"
    /\ \/ /\ ~ SourcesDistinct
          /\ Fail
          /\ UNCHANGED sizes
       \/ /\ SourcesDistinct
          /\ sizes' = [ s \in DOMAIN declared |->
                          IF declared[s].size = Nil THEN 0 ELSE declared[s].size ]
          /\ outcome' = "declared"
          /\ UNCHANGED <<originals, table, stack>>
    /\ UNCHANGED <<heap, arguments>>

(* Seeded defects of visit: the first node with an ID stands for all; a    *)
(* node is looked for in the table, where the placeholder (#f) looks like  *)
(* no row.                                                                 *)
VisitFirstWins(o, callers) ==
    LET id == heap[o].id
    IN IF ~ heap[o].valid THEN Fail
       ELSE IF id \in DOMAIN originals
       THEN /\ stack' = callers
            /\ outcome' = "visiting"
            /\ UNCHANGED <<originals, table>>
       ELSE /\ originals' = Put(originals, id, o)
            /\ table' = Put(table, id, Placeholder)
            /\ stack' = Append(callers, [object |-> o, left |-> DOMAIN heap[o].fields])
            /\ outcome' = "visiting"

VisitUnmarked(o, callers) ==
    LET id    == heap[o].id
        known == id \in DOMAIN originals /\ table[id] # Placeholder
    IN \/ /\ ~ heap[o].valid \/ (known /\ ~ SameNode(originals[id], o))
          /\ Fail
       \/ /\ heap[o].valid /\ known /\ SameNode(originals[id], o)
          /\ stack' = callers
          /\ outcome' = "visiting"
          /\ UNCHANGED <<originals, table>>
       \/ /\ heap[o].valid /\ ~ known
          /\ originals' = Put(originals, id, o)
          /\ table' = Put(table, id, Placeholder)
          /\ stack' = Append(callers, [object |-> o, left |-> DOMAIN heap[o].fields])
          /\ outcome' = "visiting"

(* visit: a node the schema refuses, a node whose ID another node has, a   *)
(* node met before, or a new one, whose ID is taken before its fields are  *)
(* gone through.                                                           *)
Visit(o, callers) ==
    LET id    == heap[o].id
        known == id \in DOMAIN originals
    IN \/ /\ ~ heap[o].valid \/ (known /\ ~ SameNode(originals[id], o))
          /\ Fail
       \/ /\ heap[o].valid /\ known /\ SameNode(originals[id], o)
          /\ stack' = callers
          /\ outcome' = "visiting"
          /\ UNCHANGED <<originals, table>>
       \/ /\ heap[o].valid /\ ~ known
          /\ originals' = Put(originals, id, o)
          /\ table' = Put(table, id, Placeholder)
          /\ stack' = Append(callers, [object |-> o, left |-> DOMAIN heap[o].fields])
          /\ outcome' = "visiting"

VisitRoot ==
    /\ outcome = "declared"
    /\ Visit(Root, <<>>)
    /\ UNCHANGED <<heap, arguments, sizes>>

(* The caller once its field k is done with.                               *)
Callers(k) == [stack EXCEPT ![Len(stack)].left = @ \ {k}]

VisitField(k) ==
    LET value == heap[Top.object].fields[k]
    IN /\ value.tag = "node"
       /\ Visit(value.object, Callers(k))
       /\ UNCHANGED <<heap, arguments, sizes>>

(* A seeded defect: the last offset met counts, not the largest.           *)
PositionFieldLast(k) ==
    LET value == heap[Top.object].fields[k]
    IN /\ value.tag = "position"
       /\ IF TooFar(value) THEN Fail /\ UNCHANGED sizes
          ELSE /\ sizes' = Put(sizes, value.source, value.offset)
               /\ stack' = Callers(k)
               /\ UNCHANGED <<originals, table, outcome>>
       /\ UNCHANGED <<heap, arguments>>

(* normalize-position: a source is as large as the largest offset met.     *)
PositionField(k) ==
    LET value == heap[Top.object].fields[k]
    IN /\ value.tag = "position"
       /\ \/ /\ TooFar(value)
             /\ Fail
             /\ UNCHANGED sizes
          \/ /\ ~ TooFar(value)
             /\ sizes' = Put(sizes, value.source,
                             MaxOf(SizeOf(value.source), value.offset))
             /\ stack' = Callers(k)
             /\ UNCHANGED <<originals, table, outcome>>
       /\ UNCHANGED <<heap, arguments>>

(* References and all values without nodes or positions in them.           *)
PlainField(k) ==
    /\ heap[Top.object].fields[k].tag \in {"ref", "plain"}
    /\ stack' = Callers(k)
    /\ UNCHANGED <<heap, arguments, originals, table, sizes, outcome>>

Field == /\ outcome = "visiting" /\ stack # <<>>
         /\ \E k \in Top.left : VisitField(k) \/ PositionField(k) \/ PlainField(k)

(* A seeded defect: the row keeps the nodes and not references to them.    *)
FinishUncanonical ==
    /\ outcome = "visiting" /\ stack # <<>>
    /\ Top.left = {}
    /\ table' = Put(table, heap[Top.object].id,
                    [ origin |-> heap[Top.object].origin,
                      fields |-> heap[Top.object].fields ])
    /\ stack' = SubSeq(stack, 1, Len(stack) - 1)
    /\ UNCHANGED <<heap, arguments, originals, sizes, outcome>>

(* All fields are canonical: the row replaces the placeholder.             *)
Finish ==
    /\ outcome = "visiting" /\ stack # <<>>
    /\ Top.left = {}
    /\ LET fields == heap[Top.object].fields
       IN table' = Put(table, heap[Top.object].id,
                       [ origin |-> heap[Top.object].origin,
                         fields |-> [k \in DOMAIN fields |-> Canonical(fields[k])] ])
    /\ stack' = SubSeq(stack, 1, Len(stack) - 1)
    /\ UNCHANGED <<heap, arguments, originals, sizes, outcome>>

(* A declared line table has to fit the size the source has in the unit:   *)
(* source-file refuses it otherwise.                                       *)
LinesFit == \A s \in DOMAIN declared : \A offset \in declared[s].lines :
              offset <= sizes[s]

RefsResolve ==
    \A id \in DOMAIN table : \A k \in DOMAIN table[id].fields :
        table[id].fields[k].tag = "ref" => table[id].fields[k].id \in DOMAIN table

PositionsInside ==
    \A id \in DOMAIN table : \A k \in DOMAIN table[id].fields :
        table[id].fields[k].tag = "position" =>
            table[id].fields[k].offset <= sizes[table[id].fields[k].source]

(* Entries are structs or wire hashes; if one is a struct, all have to be. *)
Typed(entries) == { i \in DOMAIN entries : entries[i].typed }

OriginIds == { arguments.origins[i].id : i \in DOMAIN arguments.origins }

(* origin-dependencies of the origins.                                     *)
OriginGraph ==
    [ id \in OriginIds |->
        arguments.origins[ CHOOSE i \in DOMAIN arguments.origins :
                             arguments.origins[i].id = id ].inputs ]

(* Origins have IDs of their own, those that nodes use among them; typed   *)
(* ones are a table without cycles, with spans inside of the sources of    *)
(* the unit, the sizes of which are bounds.                                *)
OriginsFit(bounds, used) ==
    LET origins == arguments.origins
    IN /\ Nil \notin OriginIds
       /\ \A i, j \in DOMAIN origins : origins[i].id = origins[j].id => i = j
       /\ Typed(origins) # {} =>
            /\ Typed(origins) = DOMAIN origins
            /\ Closed(OriginGraph, OriginIds) /\ Acyclic(OriginGraph)
            /\ \A i \in DOMAIN origins : \A span \in origins[i].spans :
                 span.source \in DOMAIN bounds /\ span.end <= bounds[span.source]
       /\ used \ {Nil} \subseteq OriginIds

(* Typed annotations: one per node and namespace, of nodes in the unit.    *)
AnnotationsFit(ids) ==
    LET annotations == arguments.annotations
    IN Typed(annotations) # {} =>
         /\ Typed(annotations) = DOMAIN annotations
         /\ \A i, j \in DOMAIN annotations :
              /\ annotations[i].namespace = annotations[j].namespace
              /\ annotations[i].node = annotations[j].node
              => i = j
         /\ \A i \in DOMAIN annotations : annotations[i].node \in ids

(* A seeded defect: the sources of spans have the sizes that were declared.*)
DeliverDeclared ==
    /\ outcome = "visiting" /\ stack = <<>>
    /\ outcome' = IF /\ LinesFit /\ RefsResolve /\ PositionsInside
                     /\ OriginsFit([ s \in DOMAIN sizes |->
                                       IF s \in DOMAIN declared /\ declared[s].size # Nil
                                       THEN declared[s].size ELSE 0 ],
                                   { table[id].origin : id \in DOMAIN table })
                     /\ AnnotationsFit(DOMAIN table) /\ arguments.extensions
                  THEN "built" ELSE "error"
    /\ UNCHANGED <<heap, arguments, originals, table, sizes, stack>>

(* The rest of make-go-ast-unit: the sources of the unit have the sizes    *)
(* that resulted, and the unit is validated.  validate-ir-node is called   *)
(* again, on nodes with their references followed; references are to nodes *)
(* of kinds that suit the field, so it finds nothing new.                  *)
Deliver ==
    /\ outcome = "visiting" /\ stack = <<>>
    /\ outcome' = IF /\ LinesFit /\ RefsResolve /\ PositionsInside
                     /\ OriginsFit(sizes, { table[id].origin : id \in DOMAIN table })
                     /\ AnnotationsFit(DOMAIN table) /\ arguments.extensions
                  THEN "built" ELSE "error"
    /\ UNCHANGED <<heap, arguments, originals, table, sizes, stack>>

Next == DeclareSources \/ VisitRoot \/ Field \/ Finish \/ Deliver

Spec == Init /\ [][Next]_vars

-----------------------------------------------------------------------------
(* Properties                                                              *)

(* The nodes the root contains, itself among them.                         *)
Children(o) ==
    { heap[o].fields[k].object :
        k \in { k \in DOMAIN heap[o].fields : heap[o].fields[k].tag = "node" } }

ClosedUnder(S) == \A o \in S : Children(o) \subseteq S

Contained == { o \in Objects :
                 \A S \in SUBSET Objects :
                     Root \in S /\ ClosedUnder(S) => o \in S }

RowOf(o) ==
    [ origin |-> heap[o].origin,
      fields |-> [k \in DOMAIN heap[o].fields |-> Canonical(heap[o].fields[k])] ]

(* A node that is being visited is not entered again, though a vector in   *)
(* one of its fields, or a copy of it further down, leads back to it: no   *)
(* more calls are active than there are IDs.                               *)
DescentIsBounded ==
    Len(stack) <= Cardinality({ heap[o].id : o \in Objects })

(* The nodes being visited are exactly those whose rows are placeholders,  *)
(* each with an ID of its own; all other rows are complete.                *)
RowsInProgress ==
    /\ \A id \in DOMAIN table :
         \/ table[id] = RowOf(originals[id])
         \/ /\ table[id] = Placeholder
            /\ \E k \in DOMAIN stack : stack[k].object = originals[id]
    /\ \A k \in DOMAIN stack : /\ table[heap[stack[k].object].id] = Placeholder
                               /\ originals[heap[stack[k].object].id] = stack[k].object

(* The unit says of every node the root contains what the node says, also  *)
(* of those that did not get the row of their ID; and it has no other row. *)
UnitIsCopy ==
    outcome = "built" =>
        /\ DOMAIN table = { heap[o].id : o \in Contained }
        /\ \A o \in Contained : table[heap[o].id] = RowOf(o)

(* Sizes do not depend on the order of visits: a declared one stays, any   *)
(* other source ends at its last position.                                 *)
Positions ==
    UNION { { heap[o].fields[k] :
                k \in { k \in DOMAIN heap[o].fields :
                          heap[o].fields[k].tag = "position" } } :
              o \in Contained }

Offsets(s) == { p.offset : p \in { p \in Positions : p.source = s } }

Fixed(s) == s \in DOMAIN declared /\ declared[s].size # Nil

FinalSize(s) == IF Fixed(s) THEN declared[s].size
                ELSE CHOOSE m \in Offsets(s) \cup {0} :
                       \A offset \in Offsets(s) : offset <= m

Sources == DOMAIN declared \cup { p.source : p \in Positions }

SizesAreFinal ==
    outcome = "built" => sizes = [s \in Sources |-> FinalSize(s)]

(* What has to be given to make a unit: sources declared once; valid       *)
(* nodes, of which equal ones may share an ID and different ones may not;  *)
(* references to nodes the root contains, wherever they stand; positions,  *)
(* lines and spans inside of their sources, which are as large as all of   *)
(* the nodes make them; origins and annotations that are right in          *)
(* themselves and for these nodes.                                         *)
Buildable ==
    /\ SourcesDistinct
    /\ \A o \in Contained : heap[o].valid
    /\ \A o, p \in Contained : heap[o].id = heap[p].id => SameNode(o, p)
    /\ \A o \in Contained : \A k \in DOMAIN heap[o].fields :
         LET value == heap[o].fields[k]
         IN /\ value.tag = "ref" => \E p \in Contained : heap[p].id = value.id
            /\ value.tag = "position" => value.offset <= FinalSize(value.source)
    /\ \A s \in DOMAIN declared : \A offset \in declared[s].lines :
         offset <= FinalSize(s)
    /\ OriginsFit([s \in Sources |-> FinalSize(s)],
                  { heap[o].origin : o \in Contained })
    /\ AnnotationsFit({ heap[o].id : o \in Contained })
    /\ arguments.extensions

(* Whether there is a unit depends on what is given only, not on the order *)
(* in which fields are visited.                                            *)
ErrorIsJustified ==
    outcome \in {"built", "error"} => (outcome = "built" <=> Buildable)

(* Whether ValidateEnvelope takes the line table of a source.              *)
GoTakesLines(s) ==
    s \in DOMAIN declared =>
        \A offset \in declared[s].lines : 0 <= offset /\ offset < sizes[s]

(* A line table the Racket side takes, the Go side takes.  It does not: a  *)
(* line that starts at the end of its file, after a trailing newline, is   *)
(* fine for source-file and an "invalid line offset" for ValidateEnvelope. *)
LineTablesAgree ==
    outcome = "built" => \A s \in DOMAIN sizes : GoTakesLines(s)
=============================================================================
