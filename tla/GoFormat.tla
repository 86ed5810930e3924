------------------------------ MODULE GoFormat ------------------------------
(***************************************************************************)
(* What go/format and go/parser make of a tree of go/ast: the packages are *)
(* not part of the repository, which calls them in codec/source_map.go     *)
(* (lines 89-113).  A tree is a function from nodes to their kind, the key *)
(* of their text and their children, as in SourceMap.                      *)
(***************************************************************************)
EXTENDS Integers, Sequences, FiniteSets, ReferenceGraphs

(* Where the children of an import spec stand.  Its path, always there, is *)
(* the key of the spec.                                                    *)
Doc == 1
Name == 2
Comment == 4

Has(t, spec, field) == field \in DOMAIN t[spec].children
TextOf(t, spec, field) ==
    IF Has(t, spec, field) THEN t[t[spec].children[field]].key ELSE 0

(* A line of documentation, too, parts an import from the one before it:   *)
(* imports are sorted within runs of successive lines, by path, name and   *)
(* comment.                                                                *)
RunOf(t, specs, i) ==
    CHOOSE h \in 1 .. i :
        /\ h = 1 \/ Has(t, specs[h], Doc)
        /\ \A j \in h + 1 .. i : ~ Has(t, specs[j], Doc)

Place(t, specs, i) ==
    << RunOf(t, specs, i), t[specs[i]].key, TextOf(t, specs[i], Name),
       TextOf(t, specs[i], Comment), i >>

Smaller(p, q) == \E i \in DOMAIN p : p[i] < q[i] /\ \A j \in 1 .. i - 1 : p[j] = q[j]

(* Of two imports with one path and name the earlier is dropped, unless it *)
(* has a comment at its end.                                               *)
Kept(t, specs) ==
    { i \in DOMAIN specs :
        \/ Has(t, specs[i], Comment)
        \/ \A j \in DOMAIN specs :
             SubSeq(Place(t, specs, j), 1, 3) = SubSeq(Place(t, specs, i), 1, 3)
               => ~ Smaller(Place(t, specs, i), Place(t, specs, j)) }

SortedImports(t, specs) ==
    LET kept    == Kept(t, specs)
        Rank(i) == Cardinality({ j \in kept :
                     ~ Smaller(Place(t, specs, i), Place(t, specs, j)) })
    IN [ r \in 1 .. Cardinality(kept) |-> specs[CHOOSE i \in kept : Rank(i) = r] ]

(* Comments at the end of an import move with it; the lines above the      *)
(* first of a run stay where they are, above whichever is the first then.  *)
FirstOfRun(t, specs, run) ==
    specs[CHOOSE i \in Kept(t, specs) :
            /\ RunOf(t, specs, i) = run
            /\ \A j \in Kept(t, specs) :
                 RunOf(t, specs, j) = run => ~ Smaller(Place(t, specs, j), Place(t, specs, i))]

DocsAbove(t, spec) ==
    UNION { { t[t[d].children[run]].children[Doc] :
                run \in { i \in DOMAIN t[d].children :
                            /\ Has(t, t[d].children[i], Doc)
                            /\ FirstOfRun(t, t[d].children, i) = spec } } :
            d \in { m \in DOMAIN t : t[m].kind = "Imports" } }

SpecEdges(t, spec) ==
    LET docs == DocsAbove(t, spec)
        own  == DOMAIN t[spec].children \ {Doc}
    IN [ field \in own \cup (IF docs = {} THEN {} ELSE {Doc}) |->
           IF field = Doc THEN CHOOSE doc \in docs : TRUE ELSE t[spec].children[field] ]

(* Of two pairs of parentheses around an expression, the inner is printed. *)
Printed(t) ==
    LET Inner(n) == t[n].kind = "Paren" /\ t[t[n].children[1]].kind = "Paren"
        printed[n \in DOMAIN t] ==
          IF Inner(n) THEN printed[t[n].children[1]] ELSE n
    IN printed

(* Empty statements are not printed.  The parser reads T[x] as IndexExpr,  *)
(* which has a field X in common with the IndexListExpr that may have      *)
(* printed it and Index (2) in place of Indices (from 3 on).               *)
GoReparsed(t) ==
    LET OneIndex(n) == t[n].kind = "IndexList" /\ DOMAIN t[n].children = {1, 3}
        NewEdges(n) ==
          IF t[n].kind = "Imports" THEN SortedImports(t, t[n].children)
          ELSE IF t[n].kind = "Spec" THEN SpecEdges(t, n)
          ELSE IF t[n].kind = "Block"
          THEN SelectSeq(t[n].children, LAMBDA s : t[s].kind # "EmptyStmt")
          ELSE IF OneIndex(n) THEN << t[n].children[1], t[n].children[3] >>
          ELSE t[n].children
    IN [ n \in DOMAIN t |->
           [ kind |-> IF OneIndex(n) THEN "Index" ELSE t[n].kind, key |-> t[n].key,
             children |-> [ e \in DOMAIN NewEdges(n) |-> Printed(t)[NewEdges(n)[e]] ] ] ]

(* What was printed may not parse: names and literals are only strings.    *)
GoParses(t) ==
    \A n \in Reachable([m \in DOMAIN t |-> t[m].children], 1) : t[n].kind # "Broken"

(* Comments are printed where their positions are.                         *)
Comments(t) == { n \in DOMAIN t : t[n].kind = "Comments" }

Without(t, lost) ==
    [ n \in DOMAIN t |->
        [ t[n] EXCEPT !.children =
            [ e \in { e \in DOMAIN @ : @[e] \notin lost } |-> @[e] ] ] ]

(* Of a file that was parsed, as it is, all comments come back; of another *)
(* one some may be missing, for want of a position or since only those in  *)
(* the list of the file are printed, if it has one.                        *)
ParsedOutputs(t) == IF GoParses(t) THEN { GoReparsed(t) } ELSE {}
AnyOutputs(t) ==
    IF GoParses(t)
    THEN { GoReparsed(Without(t, lost)) : lost \in SUBSET Comments(t) } ELSE {}
=============================================================================
