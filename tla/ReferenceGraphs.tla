--------------------------- MODULE ReferenceGraphs --------------------------
(***************************************************************************)
(* Graphs of references, as the wire table and the origin table hold them: *)
(* a function from the identity of a record to the identities it refers    *)
(* to, with repetitions: a sequence of them, or a function from the places *)
(* in the record where they stand.                                         *)
(***************************************************************************)
EXTENDS Sequences

Successors(graph, id) == { graph[id][i] : i \in DOMAIN graph[id] }

(* Every vertex of S has a successor in S.                                 *)
Sinkless(graph, S) == \A id \in S : Successors(graph, id) \cap S # {}

(* No cycle: on a finite graph, no nonempty set of vertices is without a   *)
(* sink.                                                                   *)
Acyclic(graph) ==
    \A S \in SUBSET DOMAIN graph : S # {} => ~ Sinkless(graph, S)

(* The set S leaves no vertex it refers to outside.                        *)
Closed(graph, S) == \A id \in S : Successors(graph, id) \subseteq S

(* The vertices reachable from root: the smallest closed set around it.    *)
Reachable(graph, root) ==
    { id \in DOMAIN graph :
        \A S \in SUBSET DOMAIN graph :
            root \in S /\ Closed(graph, S) => id \in S }
=============================================================================
