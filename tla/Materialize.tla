------------------------------ MODULE Materialize ---------------------------
(***************************************************************************)
(* From rows to trees: materialize-node of wire.rkt, in its two uses.      *)
(* validate-go-ast-unit goes through the table in the order of a hash and  *)
(* checks the children of each node on the materialised node, with one     *)
(* table of results for all of them; go-ast-unit-root-node then builds the *)
(* tree of the root anew.                                                  *)
(***************************************************************************)
EXTENDS IrTrees

CONSTANTS
    Units,    \* the units read, with no reference into nothing: the root,
              \* the rows, whether they were made for the active schema
    GoKinds,  \* the kinds in the namespace go/ast
    Holds     \* the kinds a node of a kind may have for its children

VARIABLES
    unit,     \* the unit
    todo,     \* the rows that have yet to be checked
    memo,     \* the nodes made so far
    active,   \* the nodes being made
    stack,    \* active calls of materialize-node, outermost first
    phase     \* "checking", then "refused", or "building" and "built"

vars == <<unit, todo, memo, active, stack, phase>>

-----------------------------------------------------------------------------

Refs(id) == unit.rows[id].refs

(* An active call: its row, the fields to come, the one whose node is      *)
(* being made, and the values so far.                                      *)
Frame(id) == [id |-> id, todo |-> DOMAIN Refs(id), at |-> 0, done |-> <<>>]

Top == stack[Len(stack)]
Callers == SubSeq(stack, 1, Len(stack) - 1)

With(frame, i, value) ==
    [frame EXCEPT !.todo = @ \ {i}, !.at = 0, !.done = Put(@, i, value)]

Built(frame) == [id |-> frame.id,
                 kind |-> unit.rows[frame.id].kind,
                 text |-> unit.rows[frame.id].text,
                 fields |-> [i \in DOMAIN Refs(frame.id) |-> frame.done[i]]]

(* field-child-valid? of each child: a reference passes.                   *)
ChildrenFit(node) ==
    \A i \in DOMAIN node.fields :
        IsNode(node.fields[i]) => node.fields[i].kind \in Holds[node.kind]

Init == /\ unit \in Units
        /\ todo = DOMAIN unit.rows
        /\ memo = <<>> /\ active = {} /\ stack = <<>>
        /\ phase = "checking"

Enter(id, callers) ==
    /\ active' = active \cup {id}
    /\ stack' = Append(callers, Frame(id))
    /\ UNCHANGED memo

(* What validate-go-ast-unit says of a node it had made.                   *)
Check(node) ==
    IF ChildrenFit(node) THEN todo' = todo \ {node.id} /\ UNCHANGED phase
                         ELSE phase' = "refused" /\ UNCHANGED todo

(* Only nodes of go/ast are looked at, and only by the schema they have.   *)
Checked(id) == unit.matches /\ unit.rows[id].kind \in GoKinds

(* The next row of the table.                                              *)
CheckRow(id) ==
    /\ phase = "checking" /\ stack = <<>>
    /\ id \in todo
    /\ \/ /\ ~ Checked(id)
          /\ todo' = todo \ {id}
          /\ UNCHANGED <<memo, active, stack, phase>>
       \/ /\ Checked(id)
          /\ id \in DOMAIN memo
          /\ Check(memo[id])
          /\ UNCHANGED <<memo, active, stack>>
       \/ /\ Checked(id)
          /\ id \notin DOMAIN memo
          /\ Enter(id, <<>>)
          /\ UNCHANGED <<todo, phase>>
    /\ UNCHANGED unit

(* Every row was found right; the root is materialised.                    *)
Build ==
    /\ phase = "checking" /\ stack = <<>> /\ todo = {}
    /\ phase' = "building"
    /\ active' = {unit.root}
    /\ stack' = <<Frame(unit.root)>>
    /\ memo' = <<>>
    /\ UNCHANGED <<unit, todo>>

(* Seeded defects: nodes are not remembered; a reference to an active node *)
(* is met again and again.                                                 *)
ReferenceUnremembered(i) ==
    /\ stack # <<>> /\ i \in Top.todo
    /\ LET id == Refs(Top.id)[i]
       IN IF id \in active
          THEN /\ stack' = Append(Callers, With(Top, i, Ref(id)))
               /\ UNCHANGED <<memo, active>>
          ELSE Enter(id, Append(Callers, [Top EXCEPT !.at = i]))
    /\ UNCHANGED <<unit, todo, phase>>

ReferenceAgain(i) ==
    /\ stack # <<>> /\ i \in Top.todo
    /\ LET id == Refs(Top.id)[i]
       IN IF id \in active THEN UNCHANGED <<memo, active, stack>>
          ELSE IF id \in DOMAIN memo
          THEN /\ stack' = Append(Callers, With(Top, i, memo[id]))
               /\ UNCHANGED <<memo, active>>
          ELSE Enter(id, Append(Callers, [Top EXCEPT !.at = i]))
    /\ UNCHANGED <<unit, todo, phase>>

(* The next field, in the order of a hash: materialize-value of the        *)
(* reference in it.                                                        *)
Reference(i) ==
    /\ stack # <<>> /\ i \in Top.todo
    /\ LET id == Refs(Top.id)[i]
       IN \/ /\ id \in active
             /\ stack' = Append(Callers, With(Top, i, Ref(id)))
             /\ UNCHANGED <<memo, active>>
          \/ /\ id \notin active /\ id \in DOMAIN memo
             /\ stack' = Append(Callers, With(Top, i, memo[id]))
             /\ UNCHANGED <<memo, active>>
          \/ /\ id \notin active /\ id \notin DOMAIN memo
             /\ Enter(id, Append(Callers, [Top EXCEPT !.at = i]))
    /\ UNCHANGED <<unit, todo, phase>>

(* A seeded defect: a node that was made stays active.                     *)
ReturnActive ==
    /\ stack # <<>> /\ Top.todo = {}
    /\ LET node == Built(Top)
       IN /\ memo' = Put(memo, node.id, node)
          /\ stack' = IF Callers = <<>> THEN <<>>
                      ELSE [Callers EXCEPT ![Len(Callers)] = With(@, @.at, node)]
          /\ IF Callers = <<>> /\ phase = "checking" THEN Check(node)
             ELSE /\ phase' = IF Callers = <<>> THEN "built" ELSE phase
                  /\ UNCHANGED todo
    /\ UNCHANGED <<unit, active>>

(* The node is complete: it is remembered, no longer active, and handed to *)
(* the field it was made for, or to the caller of materialize-node.        *)
Return ==
    /\ stack # <<>> /\ Top.todo = {}
    /\ LET node == Built(Top)
       IN /\ memo' = Put(memo, node.id, node)
          /\ active' = active \ {node.id}
          /\ \/ /\ Callers # <<>>
                /\ stack' = [Callers EXCEPT ![Len(Callers)] = With(@, @.at, node)]
                /\ UNCHANGED <<todo, phase>>
             \/ /\ Callers = <<>> /\ phase = "checking"
                /\ stack' = <<>>
                /\ Check(node)
             \/ /\ Callers = <<>> /\ phase = "building"
                /\ stack' = <<>>
                /\ phase' = "built"
                /\ UNCHANGED todo
    /\ UNCHANGED unit

Next == \/ \E id \in todo : CheckRow(id)
        \/ Build
        \/ stack # <<>> /\ \E i \in Top.todo : Reference(i)
        \/ Return

-----------------------------------------------------------------------------

IsAcyclic == Acyclic(Graph(unit.rows))

(* The tree of the root.                                                   *)
Root == memo[unit.root]

(* A child of a kind its field does not hold.                              *)
Wrong(id, child) == /\ unit.rows[id].kind \in GoKinds
                    /\ child \in Successors(Graph(unit.rows), id)
                    /\ unit.rows[child].kind \notin Holds[unit.rows[id].kind]

OnCycle(id, child) == id \in Reachable(Graph(unit.rows), child)

(* In whatever order the rows come, a unit is refused only for a child of  *)
(* a wrong kind, and every such child is noticed unless it lies on a cycle *)
(* of children.                                                            *)
KindCheckIsExact ==
    /\ phase = "refused" =>
         \E id, child \in DOMAIN unit.rows : Wrong(id, child)
    /\ phase = "built" /\ unit.matches =>
         \A id, child \in DOMAIN unit.rows :
             Wrong(id, child) => OnCycle(id, child)

(* The tree says of each node that can be reached from the root what its   *)
(* row says, wherever the node occurs and whether a reference had to stay; *)
(* where no cycle is, none stays.                                          *)
TreeIsTable ==
    phase = "built" =>
        /\ OneNodePerId(Root)
        /\ Rows(Root) = Part(unit.rows, unit.root)
        /\ IsAcyclic =>
             \A p \in Parts(Root) : \A i \in DOMAIN p.fields : IsNode(p.fields[i])
=============================================================================
