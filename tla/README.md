# GoRack in TLA+

GoRack lets Racket programs build, transform and emit Go. The repository has two halves that
share no memory. A Racket front-end (`src/gorack/`) constructs an intermediate representation of
the Go AST; a Go bridge (`src/go-bridge/`) turns Go source files into *units* (JSON documents
with a node table) and units back into Go source files. This directory models the code that
decides whether an AST survives the trip, checks it with TLC on small instances and proves the
parts that can be proved for every instance with TLAPS.

All of the program is sequential: no goroutines, no threads, no locks. What makes it hard is the
*shape of the data*. The "AST" is a graph (comments and import specs are shared between fields),
it is cut into a table and put together again, recursion runs over tables that are half filled,
traversals go through hash tables in any order, and the two halves check the same document with
different code. "Interleavings" here are the orders in which maps, fields and roots are visited.

## 1. Inventory

| Component | Source | State | Operations | Correct when |
|---|---|---|---|---|
| Child-cycle check | `codec/decode.go` 64-108; the same search in `codec/validate.go` 286-317 and `metadata/origin.rkt` 61-95 | colours, recursion of `visit` | `validateASTAcyclic`, `validateOriginAcyclic` | cycles rejected, sharing accepted, in any order of the outer loop, always returns |
| FileSet reconstruction | `codec/decode.go` 161-181 | `token.FileSet`, `sourceFiles` | the guard, `AddFile`, `SetLines` | no panic whatever sizes are declared, positions unambiguous |
| Encode | `codec/encode.go`, `generated/field_access.go` | `ids`, `nodes`, `sources`, recursion of `encodeNode` | `Encode`, `encodeNode`, `encodeField`, `encodePosition`, `encodeOrigins` | one row per reachable node, nil apart from empty, positions in their own file, an error exactly for what has no wire form, returns on cycles |
| Wire validation | `codec/validate.go`, `codec/decode.go` 19-154 | none | `ValidateEnvelope`, `ValidateForToolchain` | no dangling reference, no child or origin cycle, spans within their sources |
| Decode | `codec/decode.go` | `FileSet`, `sourceFiles`, `nodes` | `Decode`, `decodeField`, `SetNodeField` | every node filled, every position resolves to its source and offset, nothing returned on error |
| Source maps | `codec/source_map.go`, `generated/traversal.go` | recorded paths, entries | `StructuralPaths`, `FollowStructuralPath`, `SourceMapForFormatted` | the range of an entry is the range of its node in the output |
| Bridge commands | `cmd/gorack-go-bridge/main.go` | files on disk | `encode`, `decode`, `schema` | what is on disk after failures is either refused or whole, and no Go file stands beside an older map |
| Generated Go | `internal/generated/*.go` | tables; `seen` of `structuralEqual` | `NewNode`, `GetNodeField`, `SetNodeField`, `ChildEdges`, `StructuralEqual`, `ParseEnum`, `EnumNames` | get after set is the identity, enums round-trip, equality is equality up to identity and returns on cycles |
| Node IDs, IR nodes | `go-kernel/node.rkt` | `node-id-counter`; memo of `ir-node-map`; `seen` of `ir-node-structural=?` | `fresh-node-id`, `canonical-node-id`, `reset-node-ids!`; `ir-node-walk`, `ir-node-map`, `ir-node-structural=?` | fresh IDs are fresh; each node mapped once |
| Unit builder, materialisation | `go-kernel/wire.rkt` | `table`, `originals`, `source-records`; `memo`, `active` | `make-go-ast-unit`, `materialize-node`, `validate-go-ast-unit`, JSON and S-expression readers and writers | the table says what the nodes say; building again after materialising gives the table back; the verdict on a unit does not hang on hash order |
| Kernel passes | `go-kernel/transform.rkt` | memo of `ir-node-map` | `run-go-kernel-pass` | handler once per node, children first, identities kept |
| Provenance | `metadata/*.rkt` | origin, annotation and source tables | `make-origin-table`, `origin-ancestors`, `make-source-table`, `source-map-resolve` | DAGs accepted, cycles rejected, agreement with Go's validator |
| Schema | `go-kernel/schema.rkt` | tables | `validate-ir-node`, `field-child-valid?` | agreement with Go's validator |
| Generated Racket, surface language | `go-kernel/generated/`, `lang/` | the ID counter of a module | constructors, matchers, macros | - |

How they interact. `gorack-go-bridge encode` parses a file and calls **Encode**, which ends with
**wire validation** of what it made, and writes JSON. `decode` reads JSON and calls **Decode**,
which validates (the **cycle check** is part of it), rebuilds the **FileSet**, allocates and
fills nodes; the result is formatted, and **source maps** join the decoded tree with the parsed
output. On the Racket side constructors take **node IDs**, `make-go-ast-unit` (the **unit
builder**) makes units from nodes, reading a unit gives nodes back (**materialisation**), and a
**pass** maps the nodes of a tree. The two sides only ever exchange documents, and the commands of
the bridge meet each other's files on disk.

What is hard to test, line by line, is the `hazards` list of `PROJECT.json`, each with the
properties that would catch it.

## 2. Modules and the code

Recursive Go and Racket functions are modelled as machines with an explicit stack, one frame per
active call and one step per loop iteration, because the interesting bugs are in the middle of
the recursion. Formatting, wording and JSON syntax are left out. Operators whose comment begins
*A seeded defect* are not part of any specification: they are plausible bugs, listed as `mutants`,
which the properties are tested against.

**ReferenceGraphs** has reachability and acyclicity stated over sets (a graph is acyclic iff every
non-empty set of vertices has one without a successor in it), which suits both TLC and proofs and
does not repeat the algorithm under test.

**AcyclicDfs** is `validateASTAcyclic`: `colour` is `state`, `stack` the active calls of
`visit`, `todo` what is left of the outer loop. Actions: `VisitRoot`, `VisitChild`, `Finish`,
`Accept`; an active vertex met again ends the search. The outer loop takes vertices in any order,
as the two origin checks (a Go map, a Racket hash) do. **AcyclicCheck** is what it promises: one
step that decides. `Decides` states the refinement.

**TokenFiles** has the external `token.File` arithmetic (base, size, offset). **FileSet** is the
loop over sources in `Decode`: the guard and `AddFile`, which sets `panicked` where go/token
panics. Integers are bounded by `MaxInt`, the largest `int`.

**Wire** has the document: rows, references, positions, scalars, sources, origin records with their
inputs and spans, annotations; and the two validators as predicates (`EnvelopeOK`,
`ValidForToolchain`). A kind has a sequence of field specs, the generated schema reduced to what
the validators read (`type`, `optional`, which kinds the Go type holds). The two cycle checks are
the predicate that `AcyclicDfs` is shown to decide.

**Encoder** is `Encode`. The heap is a function from objects to nodes, well typed in Go's sense;
`options` are the origin records and annotations of the caller (`EncodeOptions`), which are copied
into the unit as they are. `Enter` takes the ID and appends the row *before* the fields; one action
per kind of field (`EncodeNull`, `EncodeScalar`, `EncodePosition` with interning of sources,
`EncodeChild`, `EncodeRefs`); `Return`; `Deliver` validates. Every error return of `encodeField`
is a branch to `Fail`. **Decoder** is `Decode`: `Validate`, `AddSource` (by `FileSet`,
instantiated), `Allocate`, then `SkipField`, `DecodeField`, `NextNode` row by row, `Return`.

**Codec** composes them and is where `codec` checks both: it extends `Encoder` and instantiates
`Decoder`. `CodecNext` is `Encode`, then `Transmit` (the JSON document: the encoder's private
tables stay behind), then `Decode` in another process.

**SourceMap** is `StructuralPaths` and `SourceMapForFormatted`. The path handed down the recursion
is a Go slice: `append(path, step)` either writes into the array of its argument or allocates one
with arbitrary spare room, so arrays are explicit (`memory`) and how much `append` allocates is a
nondeterministic choice up to `MaxSpare`. The edges of a node are numbered by field and index, so
there are gaps where an optional field is absent. What go/format and go/parser make of a tree is a
parameter, `Outputs`: the second trees that may come back, none if the output does not parse.
**GoFormat** (external) has the `Outputs` of the runs, what those packages do to the *shape* of a
tree. Imports are sorted by path, name and comment in runs that doc lines part; a duplicate is
dropped unless a comment ends its line. Names and end-of-line comments move with their import, docs
stay above the run. Empty statements are not printed, two pairs of parentheses become one, a
one-index `IndexListExpr` is read as `IndexExpr`, and of a tree that was not parsed as it is
comments may be lost (`AnyOutputs`; `ParsedOutputs` keeps them).

**StructuralEqual** is `structuralEqual` (`traversal.go`) and `ir-node-structural=?` (`node.rkt`):
one machine, as they are one algorithm. A pair of nodes is assumed equal once its comparison has
begun; `seen` is never taken back. Go knows a node by its pointer, Racket by its ID; `Namings`
says by what, and the properties say what follows when names do not tell nodes apart.

**BridgeCli** is `main.go` over the files it reads and leaves: `Start`, `ReadSource` or `ReadWire`,
`Decode`, then `Create` and `Write` for each output in the order of the code (the map before the
Go file). Writes fail half way, processes are killed between any two steps (`Crash`), an error of
the deferred `Close` of `writeJSON` is lost, and `Edit` changes the program between commands. What
the codec makes of a version is abstract: it can be refused in each of the three ways the other
modules know.

**NodeIds** is the counter of `node.rkt`. An ID is a number with its leading zeros (`n07` is not
`n7`) or another string. `stale` holds IDs from before a reset; nothing is promised of them. That
they may come back is an input of the next module. Its definitions have names of their own
(`CounterInit`, `CounterNext`), as one module has the proofs about both.

**UnitBuilder** is `make-go-ast-unit`. IR nodes are immutable values that carry their ID, so two
objects may carry the same one; a mutable vector in a field of an extension node can hold that node,
so nodes can be cyclic. `arguments` has what is given with the nodes: declared sources, origin
records, annotations, extension entries. `DeclareSources` refuses a source declared twice. `Visit`
has the three outcomes of `visit` (refused, met before, new),
`VisitField`/`PositionField`/`PlainField` the cases of `canonical-value`, `Finish` replaces the
placeholder, `Deliver` assembles the sources and validates the unit: line tables, references,
positions, origins (`OriginsFit`: IDs given once and to every node that names one; of structs also
no dangling or cyclic input and no span outside of its source at its *final* size), annotations
(`AnnotationsFit`: of structs one per node and namespace, of nodes in the unit) and extensions.
Fields of a node are visited in any order (a Racket hash); a list is a run of fields. `equal?` of
two nodes takes in all that is below them (`SameNode`: some relation, borne out by the fields of
what it relates, relates the two). `valid` stands for `validate-ir-node` on the node as written;
references lead to nodes of suitable kinds (Materialize has the others). `LineTablesAgree` evaluates
Go's check of a line table on the units that are built.

**IrTrees** relates the two forms of a graph of IR nodes: nodes nested in nodes, and rows that
mention each other by ID. **Materialize** goes from rows to trees: `validate-go-ast-unit` takes the
rows in the order of a hash (`CheckRow`) and checks the children of each materialised node;
`go-ast-unit-root-node` builds the root's tree anew (`Build`). `Reference` is `materialize-value`,
with the three cases active (the reference stays), remembered, new; `Return` completes a node.
**KernelPass** is `run-go-kernel-pass` over `ir-node-map`: `Field` maps the children in hash order
with the memo by ID, `Apply` calls the handler or follows the policy. What a handler does is the
author's; `Behaviours` has one of each sort the code tells apart. **RacketPass** composes them: read
a unit, materialise it, run a pass; or run a pass on a tree the program built itself.
`PassIsRowwise` says what the composition means on tables. It assumes of a unit the form that
reading gives it and that references lead to rows (`UnitsAssumption`). `validate-go-ast-unit` looks
at the references of a row just before it materialises that row, so a dangling one may be met by the
check or by `materialize-node` first; it is refused in both places and no unit with one gets
further. RacketPass assumes of a tree that its nodes are values, so that nesting ends
(`TreesAssumption`); and of both that a handler can take a new ID for the node it makes
(`NewIdsAreNew`), as `fresh-node-id` promises (`NodeIds`). Its definitions have names of their own
(`RacketInit`, `RacketNext`), as one module has the proofs about it and about `StructuralEqual`.

## 3. Runs

| Run | Question | Bounds, and why they are enough |
|---|---|---|
| `acyclic_dfs` | Does the search accept exactly the acyclic graphs, in every order? | every graph of 3 vertices with 0-2 references each: self-loops, 2- and 3-cycles, diamonds, repeated edges, cycles found from a later root |
| `file_set` | Can declared sizes make `AddFile` panic, or positions coincide? | an `int` of 11: all sequences of sizes, up to ten files, exact fit included |
| `decoder` | What does `Decode` accept, and what does it build? | all units of 2 rows (equal IDs included) over 3 kinds with 8 source tables; forward, backward, dangling, cyclic references, absent fields, wrong forms, sizes exactly at the limit and one above it; origin records that form DAGs, cycles of 1-3 and dangle, spans off each end of a source, annotations twice on a node |
| `codec` | Is the table a copy while it grows, is every refusal justified, and does every accepted AST arrive as an isomorphic copy? | all heaps of 3 nodes over list, child and scalar kinds (sharing, cycles of 1-3, nil and empty lists, nil elements, unregistered tokens, undeclared origins); all placements of positions in 2 adjacent files, one empty, in both orders, and without a FileSet, every offset up to and beyond the end; origin records and annotations of each sort. `MaxInt` is the smallest the FileSet fits in |
| `source_map` | Does every entry have the range of its node? | all trees of 4 nodes with up to 2 edges and sharing, with imports in each order and duplicated, one of them with or without a fifth node, which is its name, its doc or the comment at its end; empty statements, double parentheses, one-index lists; comments kept and lost, nodes without text, output that does not parse, and nodes off the tree. `MaxSpare = 1`: one spare element is what two siblings need to write into the same array |
| `source_map_parsed` | Does every *parsed* file get a map? (violated, see section 5) | the trees above that a parser can produce |
| `node_ids` | Can a fresh ID be in use already? | numbers 0, 1, 3 with and without a leading zero, counter up to 4: choices below, at and above the counter, before and after resets |
| `unit_builder` | Is the unit what the nodes say, whatever the order of fields? | 3 nodes that may share IDs pairwise or all three or hold each other, references ahead and back, positions in declared, undeclared and undeclared-size sources, sources declared twice; origins that nodes name, that are missing, given twice or cyclic, spans inside and outside of a final size; annotations twice on a node and of nodes outside; a wrong extension |
| `unit_builder_lines` | Does Go take every line table Racket builds? (violated, see section 5) | the same |
| `structural_equal` | Is the comparison bisimilarity, on cycles too? | all graphs of 3 nodes, two of them or nil compared, names that tell nodes apart and names that do not; 3 nodes give cycles of different length that unfold alike |
| `racket_passes` | Do materialising, passing and building again commute with what the rows say? | tables of 3 rows, cyclic ones and ones with children of wrong kinds included, and rows of other namespaces; passes that keep, edit, drop, wrap, change an ID or return something else, under both policies; trees with two nodes of one ID side by side and one in the other |
| `bridge_cli` | What do failures leave on disk? | 5 versions (plain twice, unencodable, undecodable, without a map), any sequence of commands, up to 3 faults: a fault, another one while repairing it, and one more |

There are no type invariants among the checked properties: where one is needed it is part of an
inductive invariant that is proved (section 4), and the others add nothing to what the properties
above would show. Invariants, action properties and liveness properties are each preceded by a
comment in the module that says what they mean for the code. Every property of a passing run has a
mutant that violates it.

*Deadlock.* Every model is one call that returns, a sequence of calls cut off by a bound
(`FileSet`, `NodeIds`), or a sequence of commands (`BridgeCli`), so runs allow the final state;
`Terminates`, `Arrives` and `Finishes` state that nothing stops before it.

`UnitBuilder` has a stronger statement in place of liveness: `DescentIsBounded` bounds the nesting of
calls whatever the nodes hold, cycles included.

*Fairness.* `FairSpec` (in RacketPass `FairRacketSpec`) is `WF_vars(Next)` of one sequential call:
the Go or Racket runtime keeps executing it until it returns. No fairness between different actions
is assumed. `Codec` assumes in addition that a document that was written is read, `RacketPass` that
a unit that was read is passed over. `BridgeCli` has no fairness: nobody must run a command.

## 4. Proofs

`AcyclicDfsProofs`, for every finite or infinite vertex set and all adjacency lists in it
(`GraphsAssumption`: references stay in the table, which `ValidateEnvelope` has checked before):
`TypeCorrect`; `Invariance` and, as a part of it, `SearchIsSound`, which is the invariant
`SearchInv` of the run; `AcceptsOnlyAcyclic`; `RejectsOnlyCyclic`; `DfsDecides`, the refinement of
`AcyclicCheck`. The verdicts are not inductive. The strengthening `SearchInv` says that the grey
vertices are exactly the callers, each once and each a parent of the next (`GreyPath`: what makes
meeting a grey vertex a cycle), that the children a caller has passed are black
(`PassedIsFinished`), that black vertices refer to black ones only and are acyclic
(`BlackIsAcyclic`), and that the outer loop leaves no white vertex behind (`LeftIsSeen`). TLC checks
it as an invariant of `acyclic_dfs`. The one delicate step is `Finish`: a set of black vertices with
a cycle through the new one would have to leave it to a black vertex and could not return.

`FileSetProofs`, for every `MaxInt` and set of sizes (`SizesAssumption`): `Invariance` (bases and
sizes are ints, files are laid out in order), `AddFileNeverPanics` (the guard of `Decode` is
strong enough for every sequence of declared sizes) and `PositionsAreFaithful` (a position leads
back to its own file and offset and no other). That the guard is not *too* strong is part of
`RefusesOnlyUndecodable` below: files laid out one behind the other have their bases determined
(`ChainedFirst`, `ChainedStep`), so that the guard fails only if there is no room for them at all.

`DecoderProofs`, for every schema, every set of units, valid or not, and an `int` of any width
(`KindFieldsAssumption`: field specs have the three attributes the validators read;
`UnitsAssumption`: the form a JSON document has when it was read into Go's structs, and nothing
about what is in it; `WidthAssumption`): `DecodeBuildsFileSet`, the refinement of `FileSet`, so that
what is proved of positions there holds of `Decode`; `DecodedIsFaithful`: whatever is returned is
the copy the unit describes; `DecodedIsGo`: it has no child cycle and no child its Go type cannot
hold; `RefusesOnlyUndecodable`: a unit is refused exactly if it is not `Decodable`, a predicate of
the unit alone, whichever error the loops meet first. The inductive invariant says that past
`Validate` the unit is valid (`Validated`), which place of which row is being filled (`PlaceOK`),
that the FileSet has one file per source so far, with its size (`FilesInv`), and that the fields
before that place have their values (`RowsInv`). The delicate part is positions: that an offset
leads back to its source needs the layout of the FileSet, which is `Inv` of `FileSetProofs`, carried
over by the refinement. For the refusals, `Refusals` says that every layout of the sources below
`MaxInt` has the next source where `Decode` is about to put it, so that where the guard fails there
is none (`SourcesFit`). It is an invariant that uses the inductive one and is not a part of it.

`CodecProofs`, for every schema, heap, FileSet and width of an `int` (`InputsAssumption`: the objects
of a heap are finitely many, fields and children are what Go's types admit; `FileSetsAssumption`:
what go/token guarantees - files lie apart from each other, fit into an `int` and have line offsets
in order within a file; `WidthAssumption`): `EncoderSafety`, which is `EncoderInv` at every moment on
the way through the bridge; `WrittenIsFinal`, which is `WrittenStays`; `EncodeRefusesOnlyFaults`,
which is `ErrorIsJustified`: there is a unit exactly if the arguments are `EncodableArguments`;
`ArrivesIntact`, which is `RoundTrip`; `NothingIsRefused`, which is `NeverRefused`. None of them is
inductive; four invariants together are.

- `IInv` is about the tables so far. That a call takes over the right ID has to be known while it
  waits, whatever the calls below it do. `StackInv` says that no object is entered twice, that every
  waiting call is at a child field (`InProgress`), has the IDs of the children before the awaited
  one (`Gathers`) and waits for the call below it (`Awaits`); `RowsInv` that rows say what their
  objects are, as far as they go; `SourcesInv` that a source has the size of its file. All of it is
  monotone: a wire value keeps its meaning when IDs, rows and sources are added (`StandsGrows`,
  `AwaitsGrows`).
- `MetInv`: what has an ID is reachable from the root. When no call is active the converse follows,
  as the objects with an ID are closed under the references of their fields (`AllMet`).
- `FaultInv`: an error has its reason in the arguments. The validator of the last step judges rows
  and sources, and the IDs rename the objects one to one: there are as many rows as objects reached
  and as many sources as files met (`Counted`), and there is a cycle in the rows exactly if there is
  one in the heap (`RowGraph`, `AcyclicRenamed`).
- `SentInv`: once the document is written the encoder rests, and what the other process does is a
  behaviour of `Decoder` whose units are the documents of `Encode`. `DecoderProofs` is instantiated
  with these: the document has the form it assumes of any unit (`DecodeAssumptions`).

At the end a decoded node is what its row says (`DecodedIsFaithful`) and the row is what its object
says (`EncoderSafety`), field by field (`FieldArrives`); for a position, both sides name the same
offset of the same source. That nothing is refused needs one more argument: the decoder lays files
out without gaps from 1 on, the FileSet of the program had them anywhere, and the documents mention
some of them in another order. A base without gaps is one more than the number of positions of the
files before it; these are different positions below `MaxInt` of the program's FileSet, so there
are fewer than `MaxInt` (`LaidOutAnew`).

`SourceMapProofs`, for finite trees of any size, any room that `append` may leave and *any*
formatter: nothing at all is assumed of `Outputs` (`TreesAssumption`: numbered nodes without a child
cycle, which `Decode` has seen to): `PathsAreFirst`, which is `FirstPathsRecorded`;
`EveryEntryIsFaithful`, which is `EntriesAreFaithful`; `EveryErrorIsJustified`, which is
`ErrorIsJustified`. The invariant of the walk (`WalkInv`) is where the shared arrays are dealt with:
the path of an active call extends the path of its caller by the edge the caller is at (`CallsInv`),
while a recorded path has an array of its own that no call writes to (`OwnArrays`). A node that a
call has left behind has all below it recorded (`DoneInv`), only what the root reaches is
(`MetInv`), and recorded paths are the first to their nodes (`PathsInv`). When a node is met, an
earlier path to it would have to leave the path of the walk by an edge that a call has passed; what
is below such an edge is done and refers only to what is done, and the new node is not (`StaysDone`,
`NewPath`). Two lemmas about walks along a path do the rest. A walk meets no node twice, or there
would be a cycle, so it has fewer steps than there are nodes and is among the paths that `FirstPath`
chooses from; and two trees with the same edges along a walk have the same walk, so that where
nothing was moved every path leads to its own node. `JoinInv` says that every ID the loop has behind
it was found and made its entry. As recorded paths are the first ones, what the join finds and
misses is determined by the two trees alone: by what the second one has at the end of the first path
to each node. These are inductions on the length of a path; they are done by hand, from the least
natural number that has not got a property (`Climb`).

`IrNodeProofs`, for tables and trees of any size, any passes and any order of rows and fields
(the assumptions of `RacketPass` named in section 2): `KindCheckInvariant`, which is
`KindCheckIsExact`; `TreeTableInvariant`, which is `TreeIsTable`; `ErrorInvariant`, which is
`ErrorIsJustified`; `OneResultInvariant`, which is `OneResultPerId`; `RowwiseInvariant`, which is
`PassIsRowwise`. All five follow from one inductive invariant, `RacketInvariant`, with three parts.

- `MatInv` is about `materialize-node`. The rows that are being made are those of the active calls,
  no two of the same row and none made already; each call waits for the one above it at one of its
  references (`Making`). Hence the active rows are a path of the table, and a reference to one of
  them closes a cycle (`MetActive`). What stands for a reference is the node made of that row,
  or the reference itself, which then lies on a cycle (`MadeFor`). Of any made nodes there is one
  that holds none of the others (`Layered`), because a node holds only what was made before it: this
  is why the memo can hold nodes and not only IDs, and why a tree that was cut out of a cyclic table
  is finite. While the root is made, what is made can be reached from it and lies in what is being
  made (`TreeMaking`), so at the end nothing was made for nothing. `CheckedRight` says of the rows
  gone through that a wrong child was found unless it lies on a cycle; it holds although the check
  is made on nodes whose references to rows *then* active were left in the memo for good.
- `PassInv` is about `ir-node-map` and the pass. What is remembered under an ID is the answer to
  *some* node of the tree with that ID, one that the pass could take, and its children were answered
  before it (`AnswerTo`). If no node holds its own ID, a node whose call is active has no answer yet
  (`Unanswered`), so no answer is ever overwritten, each handler runs once for an ID (`Counted`),
  and an answer still says what became of the children when the whole tree is done.
- `Linked`: what a pass over a unit goes over is the tree of its root, in which no node holds its
  own ID (`RootIsTree`, by `Layered`).

When the pass is done, what comes out consists of answers and of nodes put around an answer
(`ResultLaws`); an ID names one of them, as the ID of a node that was put there is new. The row of
an answer is what the handler makes of the old row (`AnswerRow`), by the references only: that is
what "passes on trees are passes on rows" comes down to. A field of the result that is no node
names a row that went in (`FieldsOfParts`); where nothing is dropped it came out as well
(`NothingLost`), so that exactly the rows reachable in the new table come out (`AllRows`).

The parts of a tree are found level by level, until a level adds nothing (`Parts`); that this comes
to an end and finds the least set that holds what its nodes hold (`PartsLaws`) is an induction on
the levels by hand, as in `SourceMapProofs`.

The last part of `IrNodeProofs` is about `StructuralEqual`, for graphs of any size and shape
(`StructuralAssumption`): `EqualOnlyIfBisimilar`, `DifferentOnlyIfNot`, `NestingIsBounded`. The
inductive invariant (`CompareInvariance`): a pair that has begun is borne out by its fields, up to
pairs that have begun too or that an active call still has to compare (`TakenInv`); active calls are
of different pairs that have begun (`ActiveInv`); every bisimulation that relates the roots relates
all that is being compared (`NeededInv`); the verdicts have their reason (`VerdictInv`). At `equal`
the set of pairs seen is itself the bisimulation; at `different` every bisimulation would need a
pair that differs.

`UnitBuilderProofs`, for all nodes and arguments (`HeapsAssumption`: a field is one of four forms
and there are finitely many nodes, cyclic or not; `ArgumentsAssumption`: declared sizes are not
negative): `PlaceholdersAreActive`, which is `RowsInProgress`; `UnitSaysWhatNodesSay`, which is
`UnitIsCopy`; `SizesAreThoseOfTheNodes`, which is `SizesAreFinal`; `BuildsWhatCanBeBuilt`, which is
`ErrorIsJustified`: whether there is a unit depends on the nodes and the arguments and not on the
order of a hash; `CyclesEnd`, which is `DescentIsBounded`. The difficulty is that only the first
node with an ID is visited, and the unit has to be right about the others. Sameness is a
bisimulation, so it goes down to the fields and is transitive (`SameAgree` and the lemmas after it).
The invariant: an original is in the program and has its ID (`Originals`); active calls are of
different originals (`Calls`); a row is a placeholder or complete (`Rows`); every field of an
original is still to be visited by an active call, or what is in it is *met*: the same as the
original of its ID (`Fields`); a source has exactly the size of the fields gone through (`Sized`).
When no call is active, the met nodes are closed under containment, hence all there are (`AllMet`);
sizes and rows are then what the nodes alone determine (`SizesAtEnd`, `RowsAtEnd`), and the last
checks are `Buildable`. An `error` in the middle is of a node or a position that no order of fields
would have avoided. The calls have different originals, so taking a call to the ID of its object is
an injection into the IDs of the program (`CallsAreBounded`); that the ID is taken *before* the
fields are gone through is what it rests on. The last part of the module is about `NodeIds`, where
IDs come from, for all chosen numbers and any bound of the counter (`NodeIdsAssumption`):
`StaysReserved` and, from it, `FreshIdsAreNew`.

`BridgeCliProofs`, for any number of versions, however many of them are refused, and any number of
faults (`VersionsAssumption`): `NeverAnOlderMap`, `OkIsWritten`, `OneRunRepairs`, which is
`FaultlessRunDecides`, and `OnlyWholeDocuments`, which is `BrokenDocumentsAreNotRead`. The invariant
orders the versions on the disk - the program, the document, the map, a Go file written with its
map (`Ordered`) - and says that the version a running command has read is in its input still
(`HasRead`) and which outputs it has written when it stands at a given one (`Remaining`). For the
last two, `SinceInv` relates the disk to what it was when the command started: no file is changed
before the input is accepted, only outputs are changed after, and as long as no fault was met the
map is whole before the Go file is created.

Only model-checked: the liveness properties (`Terminates`, `Arrives`, `Finishes`), which
TLAPS does not do, and the two runs of section 5, which show violations. Every invariant and every
action property of the passing runs is proved, and so are the refinements.

## 5. Findings

`FuzzASTRoundTrip` (`codec/fuzz_test.go`) demands that every file that parses gets through
`FormatFileWithSourceMap`. `source_map_parsed` refutes it: for

    import (
        "a"
        "a"
    )

go/format drops one of the two specs, so the path to the second one in the decoded tree leads
nowhere in the reparsed tree, and `FollowStructuralPath` (`source_map.go` 128) turns that into an
error. The same happens without a duplicate when sorting moves a spec without a name to the place
of one with a name, as in

    import (
        b "z"
        "a"
    )

where the path to the identifier `b` leads nowhere, or when a comment at the end of a line moves, as
in

    import (
        "z" // last
        "a"
    )

where the path to the comment group leads nowhere, and in the same way wherever printing changes
shape: empty statements and double parentheses. There is no list of forms to rely on;
`ErrorIsJustified` says, and `EveryErrorIsJustified` proves for any formatter, exactly when there is
an error: when the output does not parse, or has no node of the right kind at the end of the *first*
path to some node. A related weakness is visible in the premise of `EntriesAreFaithful` (`Unmoved`):
with imports that are merely unsorted the paths do lead to nodes of the same kind, and the entries
of the moved specs silently get each other's ranges. No document of the repository promises
otherwise, so this is stated as the limit of the property and not as a finding.

`source.rkt` 195 says of the line offsets of a source: "A trailing newline creates an empty final
line whose start is exactly EOF", and accepts an offset that equals the size. `ValidateEnvelope`
(`validate.go` 61) refuses it. `unit_builder_lines` shows a declared source of size 2 with line
offsets 0 and 2 from which `make-go-ast-unit` builds a unit that the bridge does not take. (Units
made by the bridge have no such offset: go/token keeps none.)

## 6. Limits

- *SourceMap.* A node that is printed at two places has the number of its original at both. Entries
  are a set: they are sorted at the end by a total order. The runs know the changes of shape that
  `GoFormat` has, and no others; the proofs assume nothing of the formatter. In `GoFormat` runs of
  imports are parted by doc lines only (blank lines are left out), and the path of an import, a
  child that is always there, is the `key` of its spec.
- *UnitBuilder.* References lead to nodes of suitable kinds, so that the second check of each node
  by `validate-go-ast-unit` finds nothing new. `Materialize` has references of unsuitable kinds:
  `KindCheckIsExact` says that hash order never makes a right unit wrong, and that a child of a
  wrong kind may slip through only on a cycle (which Go's validator refuses anyway). Whether the
  extension entries are well formed is a flag. Nodes that hold each other stand for those of
  extension namespaces, whose fields the schema does not look into.
- *KernelPass.* Handlers look at their node and do not reach into its children. Two different
  nodes of one ID in a tree become the first one that is met (`ir-node-map` remembers by ID);
  `OneResultPerId` says what is left to rely on then: the result is again a tree of which a unit
  can be made, unless a node holds another one of its own ID, which the code does not handle.
- *BridgeCli.* Commands run one after the other, with all of their files named and different;
  standard input and output are left out. A lost error of `Close` is the stated exception of
  `OkMeansWritten`. That a map may be *newer* than the Go file beside it, when a run stopped in
  between, is what the order of the writes gives; `OutputsBelongTogether` says so.
- *Wire.* Format, versions, the schema hash, namespaces, extension values and scalar wording are
  tests of one string or number by itself, left out or a flag of the value.
- *Encoder.* Origin records of the caller mention sources by the IDs `Encode` is about to give
  (`source:1`, ...). They are validated against the sources there are, and `ErrorIsJustified` says
  exactly when they are refused; that the caller *meant* that file is beyond the code's knowledge,
  since the numbers follow the order in which the AST mentions files.
- *Encoder, Decoder.* Scalars are one field type: tokens, enums, strings, ints and bools differ in
  the code by which check they fail, which `Registered` stands for. The one map field
  (`ast.Package.Files`) is a list here, as its keys are sorted before it is gone through.
- *External code.* go/token (`TokenFiles`, `AddFile`), go/format, go/parser and `append` are
  modelled from how `src/` uses them and marked external in `PROJECT.json`.

Not modelled:

- the conversions to and from JSON and S-expressions (`wire.rkt`), and reading the schema's JSON
  file (`schema.rkt`): pure functions of their input, one case per form, where a model would repeat
  the code. One hazard among them, rows of an S-expression with one ID, is listed and uncovered;
- `ir-node-walk`, `origin-ancestors`, `source-map-resolve`: pure traversals; the order of ancestors
  is a listed hazard without a property, as no document says which order is meant;
- the token and enumeration tables (`token_registry.go`): generated data;
- generated constructors and matchers, the surface language (macros over constructors; its one
  piece of state, the ID counter, is `NodeIds`), examples and packaging.

## 7. Left to do

1. `RacketToGo`: `UnitBuilder`, the document and `Decoder` composed, for the positions that are
   computed on one side and resolved on the other.
2. `ParseEnum` after `EnumNames` on overlapping bit sets.
