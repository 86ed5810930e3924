------------------------------ MODULE SourceMap -----------------------------
(***************************************************************************)
(* codec/source_map.go: which range of the formatted file stands for which *)
(* node of the unit.  The decoded tree is printed and parsed again; a node *)
(* of the first tree is looked up in the second one under the path of      *)
(* child edges that leads to it in the first.                              *)
(*                                                                         *)
(* The path handed down the recursion is a Go slice: appending a step may  *)
(* write into an array that the paths of siblings share.  Arrays are       *)
(* therefore explicit ("memory"), and how much room a new one has is left  *)
(* open.  Formatting and parsing are external: what comes back of a tree   *)
(* is a parameter.  The formatter leaves the decoded tree alone, so when   *)
(* it runs does not matter.                                                *)
(***************************************************************************)
EXTENDS Integers, Sequences, FiniteSets, ReferenceGraphs

CONSTANTS
    Trees,       \* the decoded ASTs: [nodes -> [kind, key, children]]
    Outputs(_),  \* the trees that a tree may come back as when it is
                 \* formatted and parsed; none if it does not parse
    MaxSpare     \* bound: spare elements of an array that append allocates

Root == 1

(* ChildEdges: a step names the field and the index where a child stands.  *)
(* Fields and indices are numbered in their order; one without a child is  *)
(* passed over, so that the numbers a node uses may have gaps.             *)
Edges(t, n) == t[n].children
Graph(t) == [n \in DOMAIN t |-> Edges(t, n)]

(* Child cycles are rejected by Decode.                                    *)
ASSUME TreesAssumption ==
    /\ MaxSpare \in Nat
    /\ \A t \in Trees :
         /\ Root \in DOMAIN t /\ DOMAIN t \subseteq Nat /\ IsFiniteSet(DOMAIN t)
         /\ \A n \in DOMAIN t :
              /\ DOMAIN Edges(t, n) \subseteq Nat \ {0}
              /\ Successors(Graph(t), n) \subseteq DOMAIN t
         /\ Acyclic(Graph(t))

VARIABLES
    tree,      \* decoded.Nodes, by node ID
    memory,    \* the arrays behind slices of path steps
    paths,     \* "result" of StructuralPaths: node -> slice
    stack,     \* active calls of walk: node, path and where to go on
    reparsed,  \* the tree that the formatted output parses to
    todo,      \* IDs the loop of SourceMapForFormatted has yet to look at
    entries,   \* the source map
    phase      \* "walk", "join", then "mapped" or "error"

vars == <<tree, memory, paths, stack, reparsed, todo, entries, phase>>

-----------------------------------------------------------------------------
(* Slices                                                                  *)

NilSlice == [array |-> 0, len |-> 0]
Contents(slice) ==
    IF slice.len = 0 THEN <<>> ELSE SubSeq(memory[slice.array], 1, slice.len)

(* What append(slice, step) may return, and the memory it leaves: in place *)
(* when the array has room, otherwise a new array.                         *)
Appended(slice, step) ==
    IF slice.len > 0 /\ slice.len < Len(memory[slice.array])
    THEN { [slice |-> [slice EXCEPT !.len = @ + 1],
            memory |-> [memory EXCEPT ![slice.array][slice.len + 1] = step]] }
    ELSE { [slice |-> [array |-> Len(memory) + 1, len |-> slice.len + 1],
            memory |-> Append(memory, [i \in 1 .. slice.len + 1 + spare |->
                         IF i <= slice.len THEN Contents(slice)[i]
                         ELSE IF i = slice.len + 1 THEN step ELSE 0])] :
           spare \in 0 .. MaxSpare }

(* A seeded defect: the path is recorded as it is handed down.             *)
CopiedNot(slice, mem) == [slice |-> slice, memory |-> mem]

(* append(StructuralPath(nil), path...): a copy with an array of its own.  *)
Copied(slice, mem) ==
    IF slice.len = 0 THEN [slice |-> NilSlice, memory |-> mem]
    ELSE [slice  |-> [array |-> Len(mem) + 1, len |-> slice.len],
          memory |-> Append(mem, SubSeq(mem[slice.array], 1, slice.len))]

-----------------------------------------------------------------------------
(* StructuralPaths                                                         *)

Top == stack[Len(stack)]

(* The edges that the loop of a call has before it.                        *)
Ahead == { e \in DOMAIN Edges(tree, Top.node) : e >= Top.next }
NextEdge == CHOOSE e \in Ahead : \A other \in Ahead : e <= other

(* A node met for the first time is recorded under the path it is met on.  *)
Record(n, path, mem, callers) ==
    LET copy == Copied(path, mem)
    IN /\ paths' = [m \in DOMAIN paths \cup {n} |->
                      IF m = n THEN copy.slice ELSE paths[m]]
       /\ memory' = copy.memory
       /\ stack' = Append(callers, [node |-> n, path |-> path, next |-> 1])

Init == /\ tree \in Trees
        /\ memory = <<>>
        /\ paths = <<>>
        /\ stack = <<>>
        /\ reparsed = <<>>
        /\ todo = {}
        /\ entries = {}
        /\ phase = "walk"

WalkRoot ==
    /\ phase = "walk" /\ paths = <<>>
    /\ Record(Root, NilSlice, memory, <<>>)
    /\ UNCHANGED <<tree, reparsed, todo, entries, phase>>

(* The append is evaluated before walk looks whether it saw the node.      *)
WalkEdge ==
    /\ phase = "walk" /\ stack # <<>>
    /\ Ahead # {}
    /\ LET child   == Edges(tree, Top.node)[NextEdge]
           callers == [stack EXCEPT ![Len(stack)].next = NextEdge + 1]
       IN \E result \in Appended(Top.path, NextEdge) :
            \/ /\ child \in DOMAIN paths
               /\ memory' = result.memory
               /\ stack' = callers
               /\ UNCHANGED paths
            \/ /\ child \notin DOMAIN paths
               /\ Record(child, result.slice, result.memory, callers)
    /\ UNCHANGED <<tree, reparsed, todo, entries, phase>>

WalkReturn ==
    /\ phase = "walk" /\ stack # <<>>
    /\ Ahead = {}
    /\ stack' = SubSeq(stack, 1, Len(stack) - 1)
    /\ UNCHANGED <<tree, memory, paths, reparsed, todo, entries, phase>>

-----------------------------------------------------------------------------
(* Formatting and parsing again.  A node of the second tree has the number *)
(* of the node it was printed from: its range is where that one is.        *)

Format ==
    /\ phase = "walk" /\ paths # <<>> /\ stack = <<>>
    /\ \/ /\ reparsed' \in Outputs(tree)
          /\ todo' = DOMAIN tree
          /\ phase' = "join"
       \/ /\ Outputs(tree) = {}
          /\ phase' = "error"
          /\ UNCHANGED <<reparsed, todo>>
    /\ UNCHANGED <<tree, memory, paths, stack, entries>>

(* FollowStructuralPath: the node a path leads to, if all of its edges are *)
(* there.                                                                  *)
Followed(t, path) ==
    LET follow[i \in 0 .. Len(path)] ==
          IF i = 0 THEN {Root}
          ELSE { Edges(t, n)[path[i]] :
                   n \in { m \in follow[i - 1] : path[i] \in DOMAIN Edges(t, m) } }
    IN follow[Len(path)]

(* Nodes without text have no position: an empty field list, for one.      *)
HasRange(n) == reparsed[n].kind # "Empty"

Drop(id) == todo' = todo \ {id}

(* Seeded defects: kinds are not compared; the path of a node off the tree *)
(* is not missed (a Go map answers with the nil path, that of the root).   *)
JoinAnyKind(id) ==
    /\ Drop(id)
    /\ LET found == IF id \in DOMAIN paths
                    THEN Followed(reparsed, Contents(paths[id])) ELSE {}
       IN /\ entries' = entries \cup
               { [node |-> id, range |-> n] : n \in { m \in found : HasRange(m) } }
          /\ phase' = IF id \in DOMAIN paths /\ found = {} THEN "error" ELSE phase

JoinUnreached(id) ==
    /\ Drop(id)
    /\ LET path  == IF id \in DOMAIN paths THEN Contents(paths[id]) ELSE <<>>
           found == { n \in Followed(reparsed, path) :
                        reparsed[n].kind = tree[id].kind }
       IN IF found = {} THEN phase' = "error" /\ UNCHANGED entries
          ELSE /\ entries' = entries \cup
                    { [node |-> id, range |-> n] :
                        n \in { m \in found : HasRange(m) } }
               /\ UNCHANGED phase

(* One ID of the unit: no path leads to it; its path leads nowhere in the  *)
(* second tree, or to a node of another kind; or it gets an entry.         *)
Join(id) ==
    /\ Drop(id)
    /\ \/ /\ id \notin DOMAIN paths
          /\ UNCHANGED <<entries, phase>>
       \/ /\ id \in DOMAIN paths
          /\ LET found == { n \in Followed(reparsed, Contents(paths[id])) :
                              reparsed[n].kind = tree[id].kind }
             IN \/ /\ found = {}
                   /\ phase' = "error"
                   /\ UNCHANGED entries
                \/ /\ found # {}
                   /\ entries' = entries \cup
                        { [node |-> id, range |-> n] :
                            n \in { m \in found : HasRange(m) } }
                   /\ UNCHANGED phase

(* The IDs are looked at in their order.  The entries are sorted at the    *)
(* end by a total order, so a set stands for them.                         *)
JoinNext ==
    /\ phase = "join" /\ todo # {}
    /\ LET id == CHOOSE i \in todo : \A j \in todo : i <= j
       IN Join(id)
    /\ UNCHANGED <<tree, memory, paths, stack, reparsed>>

Finish ==
    /\ phase = "join" /\ todo = {}
    /\ phase' = "mapped"
    /\ UNCHANGED <<tree, memory, paths, stack, reparsed, todo, entries>>

Next == \/ WalkRoot \/ WalkEdge \/ WalkReturn
        \/ Format \/ JoinNext \/ Finish

Spec == Init /\ [][Next]_vars

-----------------------------------------------------------------------------
(* Properties                                                              *)

(* A path of a tree visits no node twice.                                  *)
Paths == LET steps == UNION { DOMAIN Edges(tree, n) : n \in DOMAIN tree }
         IN UNION { [1 .. k -> steps] : k \in 0 .. Cardinality(DOMAIN tree) - 1 }

Precedes(p, q) ==
    \E i \in DOMAIN p \cap DOMAIN q :
        p[i] < q[i] /\ \A j \in 1 .. i - 1 : p[j] = q[j]

(* A recorded path leads to its node, and of all paths that do it is the   *)
(* first: shared nodes have one well-defined path.  It stays that way when *)
(* siblings write into the array of the path it was copied from.           *)
FirstPathsRecorded ==
    /\ \A n \in DOMAIN paths : Followed(tree, Contents(paths[n])) = {n}
    /\ \A other \in Paths : \A n \in DOMAIN paths \cap Followed(tree, other) :
         other = Contents(paths[n]) \/ Precedes(Contents(paths[n]), other)

(* The nodes of the root's tree, and the first path to one of them.        *)
Met == Reachable(Graph(tree), Root)

FirstPath(n) ==
    LET leading == { p \in Paths : Followed(tree, p) = {n} }
    IN CHOOSE p \in leading : \A q \in leading : q = p \/ Precedes(p, q)

(* Every node comes back with the edges it had.                            *)
Unmoved == \A n \in Met : n \in DOMAIN reparsed /\ Edges(reparsed, n) = Edges(tree, n)

(* When the formatter moves nothing, every node of the root's tree that    *)
(* has text gets the range of its own text, and no other node an entry.    *)
EntriesAreFaithful ==
    phase = "mapped" /\ Unmoved =>
        entries = { [node |-> n, range |-> n] : n \in { m \in Met : HasRange(m) } }

(* There is a map if and only if the output parses and has, at the end of  *)
(* the first path to each node of the root's tree, a node of its kind.     *)
(* Later paths to shared nodes, nodes off the tree and what the formatter  *)
(* does elsewhere never prevent it.                                        *)
ErrorIsJustified ==
    phase \in {"mapped", "error"} =>
        (phase = "mapped" <=>
            /\ Outputs(tree) # {}
            /\ \A n \in Met : \E m \in Followed(reparsed, FirstPath(n)) :
                 reparsed[m].kind = tree[n].kind)

(* A file that the parser has read gets a source map, as the fuzz target   *)
(* of the codec demands.                                                   *)
MapsEveryParsedFile == phase # "error"

=============================================================================
