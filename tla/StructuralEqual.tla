--------------------------- MODULE StructuralEqual --------------------------
(***************************************************************************)
(* Whether two graphs of nodes are the same up to identity: structuralEqual *)
(* of generated/traversal.go, which the bridge's own tests rely on, and    *)
(* ir-node-structural=? of node.rkt, the same comparison on the Racket     *)
(* side.                                                                   *)
(*                                                                         *)
(* Graphs may have cycles.  A pair of nodes is taken for equal as soon as  *)
(* its comparison has begun, and nothing is taken back: one difference     *)
(* anywhere ends the whole comparison.  Go tells pairs apart by pointers,  *)
(* Racket by the IDs of the nodes.                                         *)
(***************************************************************************)
EXTENDS Naturals, Sequences, FiniteSets

CONSTANTS
    Objects,  \* the nodes
    Nil,      \* the nil node
    Heaps,    \* what the nodes may be: [Objects -> [kind, fields]]
    Roots,    \* the pairs that may be compared
    Namings   \* by what a node may be known on each side: [left, right]

(* A field value is [label, refs]: the references in it, and all else that *)
(* counts - the scalar, the position as positionEqual sees it, whether a   *)
(* list is nil, the keys of a map.                                         *)
Values == [label : STRING, refs : Seq(Objects \cup {Nil})]

ASSUME StructuralAssumption ==
    /\ Nil \notin Objects
    /\ Heaps \subseteq [Objects -> [kind : STRING, fields : Seq(Values)]]
    /\ Roots \subseteq (Objects \cup {Nil}) \X (Objects \cup {Nil})

VARIABLES
    heap, root, names,  \* the arguments
    seen,               \* the pairs of names whose comparison has begun
    stack,              \* active calls, outermost first
    verdict             \* "called", "comparing", then "equal" or "different"

vars == <<heap, root, names, seen, stack, verdict>>

-----------------------------------------------------------------------------

Key(x, y) == <<names.left[x], names.right[y]>>

(* An active call: its arguments, the fields it has not come to, and the   *)
(* pairs of children of the current field it has yet to compare.           *)
Frame(x, y) == [left |-> x, right |-> y,
                todo |-> DOMAIN heap[x].fields, pairs |-> {}]

Top == stack[Len(stack)]

(* Two nodes, and two values of a field, as far as they are told apart     *)
(* without going down.                                                     *)
SameKind(x, y) == /\ heap[x].kind = heap[y].kind
                  /\ DOMAIN heap[x].fields = DOMAIN heap[y].fields

SameShape(v, w) == v.label = w.label /\ Len(v.refs) = Len(w.refs)

ChildPairs(v, w) ==
    { <<v.refs[i], w.refs[i]>> : i \in DOMAIN v.refs \cap DOMAIN w.refs }

Init == /\ heap \in Heaps
        /\ root \in Roots
        /\ names \in Namings
        /\ seen = {}
        /\ stack = <<>>
        /\ verdict = "called"

Different == /\ verdict' = "different"
             /\ UNCHANGED <<seen, stack>>

(* A call that returns true at once, to the callers.                       *)
Same(callers) == /\ stack' = callers
                 /\ verdict' = "comparing"
                 /\ UNCHANGED seen

(* Seeded defects: a pair is told by its left node; one that is being      *)
(* compared counts as different; pairs are not remembered.                 *)
CompareLeft(x, y, callers) ==
    IF x = Nil \/ y = Nil
    THEN IF x = y THEN Same(callers) ELSE Different
    ELSE IF \E z \in Objects : Key(x, z) \in seen THEN Same(callers)
    ELSE IF ~ SameKind(x, y) THEN Different
    ELSE /\ seen' = seen \cup {Key(x, y)}
         /\ stack' = Append(callers, Frame(x, y))
         /\ verdict' = "comparing"

CompareActive(x, y, callers) ==
    IF x = Nil \/ y = Nil
    THEN IF x = y THEN Same(callers) ELSE Different
    ELSE IF Key(x, y) \in seen \/ ~ SameKind(x, y) THEN Different
    ELSE /\ seen' = seen \cup {Key(x, y)}
         /\ stack' = Append(callers, Frame(x, y))
         /\ verdict' = "comparing"

CompareUnmarked(x, y, callers) ==
    IF x = Nil \/ y = Nil
    THEN IF x = y THEN Same(callers) ELSE Different
    ELSE IF ~ SameKind(x, y) THEN Different
    ELSE /\ stack' = Append(callers, Frame(x, y))
         /\ verdict' = "comparing"
         /\ UNCHANGED seen

(* A call on x and y.  Go looks at the kinds before it looks for the pair, *)
(* Racket after: a pair of pointers that was seen has one kind.            *)
Compare(x, y, callers) ==
    \/ /\ x = Nil \/ y = Nil
       /\ IF x = y THEN Same(callers) ELSE Different
    \/ /\ x # Nil /\ y # Nil
       /\ Key(x, y) \in seen
       /\ Same(callers)
    \/ /\ x # Nil /\ y # Nil
       /\ Key(x, y) \notin seen
       /\ ~ SameKind(x, y)
       /\ Different
    \/ /\ x # Nil /\ y # Nil
       /\ Key(x, y) \notin seen
       /\ SameKind(x, y)
       /\ seen' = seen \cup {Key(x, y)}
       /\ stack' = Append(callers, Frame(x, y))
       /\ verdict' = "comparing"

CompareRoot ==
    /\ verdict = "called"
    /\ Compare(root[1], root[2], <<>>)
    /\ UNCHANGED <<heap, root, names>>

(* The next field.  Go goes through them in the order of the schema,       *)
(* Racket in that of a hash.                                               *)
CompareField(f) ==
    /\ verdict = "comparing" /\ stack # <<>>
    /\ f \in Top.todo /\ Top.pairs = {}
    /\ LET v == heap[Top.left].fields[f]
           w == heap[Top.right].fields[f]
       IN \/ /\ ~ SameShape(v, w)
             /\ Different
          \/ /\ SameShape(v, w)
             /\ stack' = [stack EXCEPT ![Len(stack)] =
                            [Top EXCEPT !.todo = @ \ {f},
                                        !.pairs = ChildPairs(v, w)]]
             /\ UNCHANGED <<seen, verdict>>
    /\ UNCHANGED <<heap, root, names>>

(* The next pair of children: in the order of a list, or in any order in a *)
(* map.  A pair that occurs twice was seen the second time.                *)
CompareChild(pair) ==
    /\ verdict = "comparing" /\ stack # <<>>
    /\ pair \in Top.pairs
    /\ Compare(pair[1], pair[2],
               [stack EXCEPT ![Len(stack)] = [Top EXCEPT !.pairs = @ \ {pair}]])
    /\ UNCHANGED <<heap, root, names>>

(* No difference was found: true is returned.                              *)
Return ==
    /\ verdict = "comparing" /\ stack # <<>>
    /\ Top.todo = {} /\ Top.pairs = {}
    /\ stack' = SubSeq(stack, 1, Len(stack) - 1)
    /\ UNCHANGED <<heap, root, names, seen, verdict>>

Finish ==
    /\ verdict = "comparing" /\ stack = <<>>
    /\ verdict' = "equal"
    /\ UNCHANGED <<heap, root, names, seen, stack>>

Next == \/ CompareRoot
        \/ stack # <<>> /\ \E f \in Top.todo : CompareField(f)
        \/ stack # <<>> /\ \E pair \in Top.pairs : CompareChild(pair)
        \/ Return \/ Finish

Spec == Init /\ [][Next]_vars

-----------------------------------------------------------------------------
(* What the comparison is meant to decide: bisimilarity                    *)

(* Two nodes or nils that a relation R takes for the same.                 *)
Related(R, x, y) == \/ x = Nil /\ y = Nil
                    \/ <<x, y>> \in R

FieldsRelated(R, x, y, f) ==
    LET v == heap[x].fields[f]
        w == heap[y].fields[f]
    IN /\ SameShape(v, w)
       /\ \A i \in DOMAIN v.refs : Related(R, v.refs[i], w.refs[i])

(* R says nothing of its pairs that their fields do not bear out.          *)
Bisimulation(R) ==
    \A x, y \in Objects :
        <<x, y>> \in R =>
            /\ SameKind(x, y)
            /\ \A f \in DOMAIN heap[x].fields : FieldsRelated(R, x, y, f)

Relations == SUBSET (Objects \X Objects)

(* No walk along fields tells the two roots apart.                         *)
Bisimilar == \E R \in Relations : /\ Bisimulation(R)
                                  /\ Related(R, root[1], root[2])

(* On each side different nodes are known by different names: pointers, or *)
(* the IDs of a unit.                                                      *)
NamesAreUnique ==
    \A x, y \in Objects : /\ names.left[x] = names.left[y] => x = y
                          /\ names.right[x] = names.right[y] => x = y

(* Graphs that are said to be equal are, cycles and sharing included: what *)
(* was taken for granted while it was being compared was borne out.        *)
EqualIsBisimilar ==
    verdict = "equal" /\ NamesAreUnique => Bisimilar

(* Graphs that are said to differ do differ, also when they are shared     *)
(* differently, and also when nodes share their names.                     *)
DifferentIsNotBisimilar == verdict = "different" => ~ Bisimilar

(* The comparison comes to an end on cycles: no pair of nodes is compared  *)
(* again below itself, so calls are never nested deeper than there are     *)
(* pairs.                                                                  *)
NoPairIsNested ==
    \A j, k \in DOMAIN stack :
        stack[j].left = stack[k].left /\ stack[j].right = stack[k].right => j = k
=============================================================================
