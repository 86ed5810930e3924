-------------------------------- MODULE IrTrees -----------------------------
(***************************************************************************)
(* The two forms of a graph of IR nodes on the Racket side: nodes nested in *)
(* one another, as constructors build them and passes see them, and the    *)
(* rows of a unit, in which nodes are mentioned by their IDs.              *)
(*                                                                         *)
(* A node is [id, kind, text, fields]: text is all that is no child, and a *)
(* list of n children is n fields.  A field holds a node or a reference.   *)
(***************************************************************************)
EXTENDS Naturals, Sequences, FiniteSets, ReferenceGraphs

(* hash-set                                                                *)
Put(table, key, value) ==
    [k \in DOMAIN table \cup {key} |-> IF k = key THEN value ELSE table[k]]

Ref(id) == [ref |-> id]

IsNode(value) == "kind" \in DOMAIN value

IdOf(value) == IF IsNode(value) THEN value.id ELSE value.ref

(* The nodes in the fields of a node.                                      *)
Children(node) ==
    { node.fields[i] : i \in { j \in DOMAIN node.fields : IsNode(node.fields[j]) } }

Nested(S) == UNION { Children(node) : node \in S }

(* A node and all that is nested in it, level by level.                    *)
Parts(node) ==
    LET within[n \in Nat] ==
          IF n = 0 THEN {node}
          ELSE LET outer == within[n - 1] IN outer \cup Nested(outer)
        all[n \in Nat] ==
          IF Nested(within[n]) \subseteq within[n] THEN within[n] ELSE all[n + 1]
    IN all[0]

(* What a program can build: nodes are values, so the nesting ends.        *)
IsTree(node) ==
    LET parts == Parts(node)
    IN /\ node \in parts /\ Nested(parts) \subseteq parts /\ IsFiniteSet(parts)
       /\ \A p \in parts :
            /\ p = [id |-> p.id, kind |-> p.kind, text |-> p.text, fields |-> p.fields]
            /\ p.fields \in Seq({ p.fields[i] : i \in DOMAIN p.fields })

(* make-go-ast-unit raises no "two different nodes use the same node ID".  *)
OneNodePerId(node) ==
    \A p, q \in Parts(node) : p.id = q.id => p = q

Row(node) == [kind |-> node.kind, text |-> node.text,
              refs |-> [i \in DOMAIN node.fields |-> IdOf(node.fields[i])]]

(* The node table make-go-ast-unit makes of a tree (see UnitBuilder).      *)
Rows(node) ==
    [id \in { p.id : p \in Parts(node) } |->
       Row(CHOOSE p \in Parts(node) : p.id = id)]

Graph(rows) == [id \in DOMAIN rows |-> rows[id].refs]

RefsResolve(rows) ==
    \A id \in DOMAIN rows : Successors(Graph(rows), id) \subseteq DOMAIN rows

(* The rows that can be reached from a root.                               *)
Part(rows, root) == [id \in Reachable(Graph(rows), root) |-> rows[id]]

IsPart(part, rows) == \A id \in DOMAIN part : /\ id \in DOMAIN rows
                                              /\ part[id] = rows[id]
=============================================================================
