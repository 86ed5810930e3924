------------------------------ MODULE MCCodec -------------------------------
(* Codec on three objects, in three families of inputs: graphs of every    *)
(* shape without positions, positions in every place of a FileSet, and     *)
(* origin records and annotations of every kind on a small AST.            *)
EXTENDS Codec

CONSTANTS MCPositions,   \* the positions that occur
          a, b, c        \* the objects

MCKinds ==
    LET spec(type, kinds) == [type |-> type, optional |-> type = "node",
                              holds |-> kinds]
    IN [kind \in {"Block", "Paren", "Ident", "Range"} |->
          CASE kind = "Block" ->
                 <<spec("nodes", {"Block", "Paren", "Ident"})>>
            [] kind = "Paren" ->
                 <<[spec("node", {"Block", "Paren", "Ident"})
                      EXCEPT !.optional = FALSE]>>
            [] kind = "Ident" -> <<spec("scalar", {})>>
            [] kind = "Range" ->
                 <<spec("position", {}), spec("node", {"Range"}),
                   spec("position", {})>>]

Node(kind, fields) == [kind |-> kind, fields |-> fields, origin |-> NoOrigin]

Lists == {Null, Refs(<<>>)} \cup { Refs(<<x>>) : x \in Objects \cup {Nil} }
         \cup { Refs(<<x, y>>) : x, y \in Objects }

OneOrNil == { Ref(x) : x \in Objects } \cup {Null}

GraphNodes ==
         { Node("Block", <<l>>) : l \in Lists }
    \cup { Node("Paren", <<x>>) : x \in OneOrNil }
    \cup { Node("Ident", <<Scalar(v)>>) : v \in {"ADD", "unregistered"} }
    \cup { [Node("Ident", <<Scalar("SUB")>>) EXCEPT !.origin = g] :
             g \in {"written", "undeclared"} }

RangeNodes ==
    { Node("Range", <<Pos(p), x, Pos(q)>>) :
        p, q \in MCPositions, x \in {Null, Ref(a), Ref(b)} }

File(name, first, size, lines) ==
    [name |-> name, base |-> first, size |-> size, lines |-> lines]

(* Two files with the gap-free bases FileSet.AddFile gives them; the empty *)
(* file has the line table <<0>> of every new token.File.  MaxInt is the   *)
(* smallest int they fit in.                                               *)
MCFileSets ==
    {Nil, <<File("a.go", 1, 2, <<0, 1>>), File("b.go", 4, 0, <<0>>)>>,
     <<File("b.go", 1, 0, <<0>>), File("a.go", 2, 2, <<0, 1>>)>>}

Origin(id, inputsOf, spans) == [id |-> id, inputs |-> inputsOf, spans |-> spans]
Span(source, first, last) == [source |-> source, first |-> first, last |-> last]
Note(namespace, node) == [namespace |-> namespace, node |-> node]
Options(origins, annotations) ==
    [origins |-> origins, annotations |-> annotations]

Plain == Options(<<Origin("written", <<>>, {})>>, <<>>)

OriginTables ==
    LET spans == { Span(s, m, n) : s \in 1 .. 2, m \in 0 .. 1, n \in {0, 1, 3} }
        others == {<<>>, <<"made">>, <<"written">>}
    IN {<<>>, <<Origin("written", <<>>, {}), Origin("written", <<>>, {})>>}
       \cup { <<Origin("written", <<>>, {s})>> : s \in spans }
       \cup { <<Origin("written", <<"made">>, {})>> }
       \cup { <<Origin("made", x, {}), Origin("written", y, {Span(1, 0, 2)})>> :
                 x, y \in others }

Annotations ==
    LET notes == { Note(n, k) : n \in {"doc", Nil}, k \in 1 .. 3 }
    IN {<<>>} \cup { <<x>> : x \in notes }
       \cup { <<Note("doc", 1), x>> : x \in notes }

(* a has a position in one file and, through b, one in the other.          *)
RecordInputs ==
    { [heap |-> [o \in Objects |->
                   IF o = a THEN [Node("Range", <<Pos(p), Ref(b), Pos(0)>>)
                                    EXCEPT !.origin = "written"]
                   ELSE Node("Range", <<Pos(q), Null, Pos(0)>>)],
       root |-> a, fset |-> f, options |-> x] :
         p, q \in MCPositions, f \in MCFileSets \ {Nil},
         x \in { Options(t, <<>>) : t \in OriginTables }
               \cup { Options(Plain.origins, n) : n \in Annotations } }

MCInputs ==
         [heap : [Objects -> GraphNodes], root : {a, Nil}, fset : {Nil},
          options : {Plain}]
    \cup RecordInputs
    \cup { [heap |-> [o \in Objects |-> IF o = a THEN x
                                         ELSE IF o = b THEN y
                                         ELSE Node("Ident", <<Scalar("ADD")>>)],
            root |-> a, fset |-> f, options |-> Plain] :
              x, y \in RangeNodes, f \in MCFileSets }

MCSizes == 0 .. MaxInt
=============================================================================
