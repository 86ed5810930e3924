----------------------------- MODULE MCDecoder ------------------------------
(* Decoder on units of two rows over a small schema: valid ones and ones   *)
(* that are wrong in one or several places, as the wire may bring them.    *)
EXTENDS Decoder, TLC

CONSTANT Ids   \* the node IDs of the rows

MCKinds == [kind \in {"Block", "Paren", "Ident"} |->
    CASE kind = "Block" ->
           <<[type |-> "nodes", optional |-> FALSE, holds |-> {"Paren", "Ident"}]>>
      [] kind = "Paren" ->
           <<[type |-> "node", optional |-> FALSE, holds |-> {"Paren", "Ident"}],
             [type |-> "position", optional |-> TRUE, holds |-> {}]>>
      [] kind = "Ident" ->
           <<[type |-> "scalar", optional |-> FALSE, holds |-> {}]>>]

Missing == "n9"

Row0(kind, fields) == [kind |-> kind, fields |-> fields, origin |-> NoOrigin]

BlockRows ==
    LET lists == {Null, Refs(<<>>), Refs(<<Missing>>)}
                 \cup { Refs(<<x>>) : x \in Ids } \cup { Ref(x) : x \in Ids }
                 \cup { Refs(<<x, y>>) : x, y \in Ids }
    IN {Row0("Block", <<>>)} \cup { Row0("Block", <<l>>) : l \in lists }

ParenRows ==
    LET children  == { Ref(x) : x \in Ids } \cup {Null}
        positions == { At("s1", offset) : offset \in 0 .. 2 }
                     \cup {At("s2", 0), Scalar("ADD"), Null}
    IN { Row0("Paren", <<c>>) : c \in children }
       \cup { Row0("Paren", <<c, p>>) : c \in children, p \in positions }
       \cup {Row0("Paren", 2 :> Null)}

IdentRows ==
    { Row0("Ident", <<v>>) :
        v \in {Scalar("ADD"), Scalar("unregistered"), Null, Refs(<<>>)} }
    \cup {[Row0("Ident", <<Scalar("ADD")>>) EXCEPT !.origin = "undeclared"]}
    \cup {Row0("Ident", <<Scalar("ADD"), Null>>), Row0("Extension", <<>>)}

Rows == BlockRows \cup ParenRows \cup IdentRows

Source(id, size, lines) == [id |-> id, size |-> size, lines |-> lines]

SourceTables ==
    { <<>>,
      <<Source("s1", 1, Nil)>>,
      <<Source("s1", 2, <<0, 2>>)>>,                   \* a line beyond the text
      <<Source("s1", 2, <<0, 1>>), Source("s2", 0, Nil)>>,
      <<Source("s2", 0, Nil), Source("s1", 1, <<0>>)>>,
      <<Source("s1", 1, Nil), Source("s1", 0, Nil)>>,  \* a duplicate
      <<Source("s1", 1, Nil), Source("s2", 5, Nil)>>,  \* fits MaxInt = 9
      <<Source("s1", 1, Nil), Source("s2", 6, Nil)>> } \* does not

TableRow(id, row) ==
    [id |-> id, kind |-> row.kind, fields |-> row.fields, origin |-> row.origin]

Origin(id, inputs, spans) == [id |-> id, inputs |-> inputs, spans |-> spans]
Span(source, first, last) == [source |-> source, first |-> first, last |-> last]
Note(namespace, node) == [namespace |-> namespace, node |-> node]

Written == <<Origin("written", <<>>, {})>>

OriginTables ==
    LET spans == { Span(s, m, n) : s \in {"s1", "s2"}, m \in 0 .. 1, n \in 0 .. 2 }
        others == {<<>>, <<"o1">>, <<"o2">>, <<"o3">>, <<"o3", "o2">>}
    IN { <<Origin("written", <<>>, {s})>> : s \in spans }
       \cup { <<Origin("o1", x, {}), Origin(id, y, {}), Origin("o3", <<>>, {})>> :
                 id \in {"o1", "o2"}, x, y \in others }

Annotations ==
    LET notes == { Note(n, i) : n \in {"doc", Nil}, i \in Ids \cup {Missing} }
    IN { <<x>> : x \in notes } \cup { <<x, y>> : x, y \in notes }

Unit(sources, rows, origins, annotations) ==
    [root |-> "n1", sources |-> sources, nodes |-> rows,
     origins |-> origins, annotations |-> annotations]

SoundRows == <<TableRow("n1", Row0("Block", <<Refs(<<"n2", "n2">>)>>)),
               TableRow("n2", Row0("Ident", <<Scalar("ADD")>>))>>

(* All tables of two rows, and one sound table with provenance of every    *)
(* kind.                                                                   *)
MCUnits ==
         { Unit(sources, <<TableRow(i, r), TableRow(j, q)>>, Written, <<>>) :
             sources \in SourceTables, i, j \in Ids, r, q \in Rows }
    \cup { Unit(sources, SoundRows, origins, <<>>) :
             sources \in SourceTables, origins \in OriginTables }
    \cup { Unit(<<>>, SoundRows, Written, notes) : notes \in Annotations }

MCSizes == 0 .. MaxInt
=============================================================================
