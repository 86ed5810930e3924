------------------------- MODULE MCStructuralEqual --------------------------
(* StructuralEqual on all graphs of three nodes of two kinds.               *)
EXTENDS StructuralEqual

CONSTANTS a, b, c

Node(kind, fields) == [kind |-> kind, fields |-> fields]
Value(label, refs) == [label |-> label, refs |-> refs]

Lists == { Value("list", r) : r \in {<<>>} \cup { <<x>> : x \in Objects \cup {Nil} }
                                   \cup { <<x, y>> : x, y \in Objects } }

(* A leaf has a scalar, an inner node a list, which may be nil.            *)
Nodes == { Node("Leaf", <<Value(s, <<>>)>>) : s \in {"x", "y"} }
         \cup { Node("Inner", <<l>>) : l \in Lists \cup {Value("nil", <<>>)} }

(* A node of two fields, in the place of c.                                *)
Wide == { Node("Inner", <<Value("list", <<x>>), Value("node", <<y>>)>>) :
            x, y \in {a, b} }

MCHeaps == { [o \in Objects |-> IF o = a THEN x ELSE IF o = b THEN y ELSE z] :
               x, y \in Nodes, z \in Nodes }
           \cup { [o \in Objects |-> IF o = c THEN x ELSE y] : x, y \in Wide }

MCRoots == {<<a, b>>, <<a, Nil>>, <<Nil, Nil>>}

Pointers == [o \in Objects |-> o]

(* Pointers; IDs, with the copy b of a known by its name; and IDs of which *)
(* two nodes on the left share one.                                        *)
MCNamings == {[left |-> Pointers, right |-> Pointers],
              [left |-> Pointers, right |-> [Pointers EXCEPT ![a] = b, ![b] = a]],
              [left |-> [Pointers EXCEPT ![c] = a], right |-> Pointers]}
=============================================================================
