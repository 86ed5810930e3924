---------------------------- MODULE MCUnitBuilder ---------------------------
(* UnitBuilder on three nodes, some of which may have the same ID or hold  *)
(* each other.  Every program is built with every list of sources; a       *)
(* smaller set of programs, of which some name an origin, with origins,    *)
(* annotations and extensions.                                             *)
EXTENDS UnitBuilder, TLC

NodeOf(id, fields) ==
    [id |-> id, origin |-> Nil, valid |-> TRUE, fields |-> fields]

From(origin, node) == [node EXCEPT !.origin = origin]

MCRootFields ==
    { <<Node(2), Node(3)>>, <<Node(2), Node(2)>>, <<Node(2), Ref("n3")>>,
      <<Node(2), At("s", 2)>> }

MCInner == { NodeOf(id, fields) :
               id \in {"n1", "n2"},
               fields \in { <<>>, <<Node(3)>>, <<Node(1)>>, <<Ref("n1")>>, <<At("s", 1)>>,
                            <<Plain("a")>>, <<At("s", 1), Node(3)>>,
                            <<Node(1), Node(3)>> } }
           \cup {NodeOf("n1", <<Node(2), Node(3)>>)}

MCLeaves == { NodeOf(id, fields) :
                id \in {"n2", "n3"},
                fields \in { <<>>, <<At("s", 3)>>, <<At("t", 1)>>,
                             <<Ref("n2")>>, <<Plain("a")>>, <<Node(2)>> } }
            \cup {NodeOf("n1", <<>>), NodeOf("n1", <<Node(2), Node(3)>>)}
            \cup {[NodeOf("n3", <<>>) EXCEPT !.valid = FALSE]}

MCPlainHeaps ==
    { <<NodeOf("n1", fields), inner, leaf>> :
        fields \in MCRootFields, inner \in MCInner, leaf \in MCLeaves }

(* Two copies of a node with an ID may differ in nothing but their origin. *)
MCOriginHeaps ==
    { <<From(origin, NodeOf("n1", <<Node(2), Node(3)>>)),
        From("o1", NodeOf("n2", fields)), From(copy, NodeOf("n2", fields))>> :
        origin \in {Nil, "o2"}, copy \in {Nil, "o1"},
        fields \in { <<>>, <<At("s", 1)>>, <<Node(1), At("s", 3)>> } }

MCHeaps == MCPlainHeaps \cup MCOriginHeaps

Source(id, size, lines) == [id |-> id, size |-> size, lines |-> lines]

MCSources ==
    { <<>>,
      <<Source("s", 2, {0, 2})>>,
      <<Source("s", 3, {}), Source("u", 0, {})>>,
      <<Source("s", Nil, {0, 2})>>,
      <<Source("s", 3, {}), Source("s", 3, {})>> }

Origin(id, inputs, spans) ==
    [typed |-> TRUE, id |-> id, inputs |-> inputs, spans |-> spans]

Hash(id) == [typed |-> FALSE, id |-> id, inputs |-> <<>>, spans |-> {}]

Span(source, end) == [source |-> source, end |-> end]

(* Spans are inside, beyond a source or of an unknown one depending on the *)
(* program and its sources.                                                *)
MCOrigins ==
    { <<>>, <<Hash("o1")>>, <<Hash(Nil)>>, <<Hash("o1"), Hash("o1")>>,
      <<Origin("o1", <<>>, {Span("s", 1)})>>,
      <<Origin("o1", <<>>, {Span("s", 3)})>>,
      <<Origin("o1", <<>>, {Span("t", 0)})>>,
      <<Origin("o1", <<"o2">>, {})>>,
      <<Origin("o1", <<>>, {}), Hash("o2")>>,
      <<Origin("o1", <<"o2">>, {Span("s", 2)}), Origin("o2", <<>>, {})>>,
      <<Origin("o1", <<"o2", "o2">>, {}), Origin("o2", <<"o1">>, {})>> }

Note(typed, namespace, node) ==
    [typed |-> typed, namespace |-> namespace, node |-> node]

MCAnnotations ==
    { <<>>,
      <<Note(TRUE, "a", "n1"), Note(TRUE, "b", "n1")>>,
      <<Note(TRUE, "a", "n2"), Note(TRUE, "a", "n2")>>,
      <<Note(TRUE, "a", "n2"), Note(FALSE, "a", "n1")>>,
      <<Note(FALSE, "a", "n3"), Note(FALSE, "a", "n3")>>,
      <<Note(TRUE, "a", "n3")>> }

Given(sources, origins, annotations, extensions) ==
    [ sources |-> sources, origins |-> origins, annotations |-> annotations,
      extensions |-> extensions ]

MCArguments ==
    { Given(sources, <<>>, <<>>, TRUE) : sources \in MCSources }
    \cup { Given(<<>>, origins, <<>>, TRUE) : origins \in MCOrigins }
    \cup { Given(<<Source("s", 3, {})>>, origins, <<>>, TRUE) :
             origins \in { origins \in MCOrigins :
                             \E i \in DOMAIN origins : origins[i].spans # {} } }
    \cup { Given(<<>>, <<Hash("o1"), Hash("o2")>>, annotations, TRUE) :
             annotations \in MCAnnotations }
    \cup { Given(<<>>, <<Hash("o1"), Hash("o2")>>, <<>>, FALSE) }
=============================================================================
