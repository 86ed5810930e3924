----------------------------- MODULE MCRacketPass ---------------------------
(* RacketPass on tables of three rows, cyclic ones included.                *)
EXTENDS RacketPass, TLC

CONSTANTS n1, n2, n3

IDs == {n1, n2, n3}

(* An Expr holds Exprs and nodes of a later Go, a Decl anything of go/ast. *)
(* Note is a kind of another namespace.                                    *)
MCGoKinds == {"Decl", "Expr"}
MCHolds == [k \in MCGoKinds |-> IF k = "Decl" THEN MCGoKinds ELSE {"Expr"}]

RefLists == {<<>>} \cup { <<i>> : i \in IDs }
            \cup {<<n1, n2>>, <<n2, n3>>, <<n3, n1>>}

MCRow(kind, refs) == [kind |-> kind, text |-> "old", refs |-> refs]

Kinds(k, l, m) == [i \in IDs |-> IF i = n1 THEN k ELSE IF i = n2 THEN l ELSE m]

MCUnits ==
    { [root |-> n1, matches |-> m,
       rows |-> [i \in IDs |-> MCRow(kinds[i], refs[i])]] :
        m \in BOOLEAN,
        kinds \in {Kinds("Decl", "Expr", "Decl"), Kinds("Decl", "Decl", "Note"),
                    Kinds("Note", "Decl", "Expr")},
        refs \in { r \in [IDs -> RefLists] : r[n1] # <<>> } }

MCPasses ==
    { [handler |-> "Decl" :> b, policy |-> "recurse"] :
        b \in {"keep", "edit", "dropFirst", "wrapFirst", "changeId", "returnOther"} }
    \cup { [handler |-> ("Decl" :> b @@ "Expr" :> c), policy |-> "reject"] :
             b, c \in {"edit", "dropFirst", "wrapFirst"} }
    \cup { [handler |-> "Expr" :> "keep", policy |-> "reject"] }

Node(id, kind, text, fields) ==
    [id |-> id, kind |-> kind, text |-> text, fields |-> fields]

(* Trees with a node that is shared, with two nodes of one ID side by side *)
(* or one in the other, and with a copy of their root.                     *)
MCTrees ==
    LET leaf(text) == Node(n3, "Expr", text, <<>>)
        inner(x, y) == Node(n1, "Decl", "old", <<x, Node(n2, "Decl", "old", <<y>>)>>)
    IN { inner(leaf(s), leaf(t)) : s, t \in {"old", "other"} }
       \cup { inner(Node(n3, "Expr", "old", <<leaf("other")>>), leaf("old")) }
       \cup { Node(n1, "Decl", "old", <<Node(n1, "Decl", "other", <<>>), leaf("old")>>) }
=============================================================================
