----------------------------- MODULE MCSourceMap ----------------------------
(* SourceMap on all trees of four nodes with sharing: the children of a    *)
(* node have larger numbers, which gives every acyclic graph up to         *)
(* renaming.  A fifth node is the name of a spec, or a comment on it that  *)
(* the root may list as well.                                              *)
EXTENDS SourceMap, GoFormat

CONSTANT MaxEdges  \* children of a node

Node(kind, key, children) == [kind |-> kind, key |-> key, children |-> children]

Lists(n, lengths) == UNION { [1 .. k -> n + 1 .. 4] : k \in lengths }

(* The fields X and Indices of an IndexListExpr.                           *)
Indexed(x, indices) ==
    [ e \in {1} \cup { 2 + i : i \in DOMAIN indices } |->
        IF e = 1 THEN x ELSE indices[e - 2] ]

(* What a node may be.  Only node 3 has imports to be sorted before or     *)
(* after others, or to be their duplicate, and may have a name or comment; *)
(* only node 4 can have no text, or a text that does not parse, or be an   *)
(* empty statement.                                                        *)
MCNodes(n) ==
         { Node("List", 0, l) : l \in Lists(n, 0 .. MaxEdges) }
    \cup { Node("IndexList", 0, Indexed(x, l)) :
             x \in n + 1 .. 4, l \in IF n = 2 THEN Lists(n, {1}) \cup {<<3, 4>>} ELSE {} }
    \cup { Node("Imports", 0, l) : l \in Lists(n, 1 .. MaxEdges) }
    \cup { Node("Spec", key, <<>>) : key \in IF n = 3 THEN 1 .. 3 ELSE {2} }
    \cup { Node("Spec", key, [f \in {field} |-> 5]) :
             key \in IF n = 3 THEN 1 .. 3 ELSE {}, field \in {Doc, Name, Comment} }
    \cup { Node("Block", 0, l) : l \in IF n = 2 THEN Lists(n, {2}) ELSE {} }
    \cup { Node("Paren", 0, <<c>>) : c \in IF n < 4 THEN {n + 1} ELSE {} }
    \cup { Node(kind, 0, <<>>) :
             kind \in IF n = 4 THEN {"Empty", "Broken", "EmptyStmt"} ELSE {} }

(* Nodes that the root's list has in common with a spec.                   *)
MCRoots == LET lists == Lists(1, 1 .. MaxEdges)
               listed(l) == [e \in DOMAIN l \cup {4} |-> IF e = 4 THEN 5 ELSE l[e]]
           IN { Node("List", 0, l) : l \in lists \cup { listed(l) : l \in lists } }

Fifth(spec) ==
    IF spec.kind # "Spec" \/ spec.children = <<>> THEN <<>>
    ELSE << Node(IF Name \in DOMAIN spec.children THEN "Name" ELSE "Comments", 1, <<>>) >>

(* Only specs stand in an import declaration; other imports than node 4,   *)
(* and names and comments, matter there, in one that the root lists first; *)
(* empty statements stand in blocks; parentheses matter where there are    *)
(* two.                                                                    *)
WellTyped(t) ==
    LET Is(n, kind) == t[n].kind = kind
    IN /\ \A n \in DOMAIN t : Is(n, "Imports") =>
            \A i \in DOMAIN t[n].children : Is(t[n].children[i], "Spec")
       /\ 4 \in DOMAIN t[1].children => 5 \in DOMAIN t /\ Is(5, "Comments")
       /\ Is(3, "Spec") /\ t[3].key # 2 => Is(2, "Imports")
       /\ Is(2, "Imports") => t[1].children[1] = 2
       /\ 5 \in DOMAIN t => Is(2, "Imports") /\ Is(4, "Spec")
       /\ Is(2, "Block") <=> Is(4, "EmptyStmt")
       /\ Is(2, "Block") => Is(3, "List")
       /\ Is(2, "Paren") <=> Is(3, "Paren")

MCTrees ==
    { t \in { <<a, b, c, d>> \o Fifth(c) :
               a \in MCRoots, b \in MCNodes(2), c \in MCNodes(3), d \in MCNodes(4) } :
      WellTyped(t) }

(* The parser makes no IndexListExpr of one index; of what it reads, this  *)
(* is about the imports.                                                   *)
MCParsedTrees ==
    { t \in MCTrees : \A n \in DOMAIN t :
        /\ t[n].kind = "IndexList" => DOMAIN t[n].children # {1, 3}
        /\ t[n].kind \notin {"Broken", "EmptyStmt", "Paren"} }
=============================================================================
