------------------------------ MODULE RacketPass ----------------------------
(***************************************************************************)
(* A pass over a unit that was read: the table is checked, materialised    *)
(* from its root, transformed as a tree, and made into a table again.      *)
(* Or a pass over the tree a program built itself.                         *)
(***************************************************************************)
EXTENDS IrTrees

CONSTANTS Units, GoKinds, Holds,  \* see Materialize
          Passes,                 \* see KernelPass
          Trees                   \* the trees programs build

VARIABLES unit, todo, matMemo, active, matStack, phase,  \* Materialize
          tree, pass, memo, passStack, calls, outcome    \* KernelPass

reading == <<unit, todo, matMemo, active, matStack, phase>>
passing == <<tree, pass, memo, passStack, calls, outcome>>
racketVars == <<reading, passing>>

Mat == INSTANCE Materialize WITH memo <- matMemo, stack <- matStack
Pass == INSTANCE KernelPass WITH stack <- passStack

ASSUME PassesAssumption == \A p \in Passes : Pass!PassOK(p)

(* A handler that makes a node takes an ID that is not in use.             *)
NewIdsAreNew(ids) == ids \cap (ids \X Nat) = {}

(* The form of a unit that was read; its references lead to rows.          *)
ASSUME UnitsAssumption ==
    \A u \in Units :
        /\ u.matches \in BOOLEAN
        /\ u.root \in DOMAIN u.rows /\ IsFiniteSet(DOMAIN u.rows)
        /\ \A id \in DOMAIN u.rows : LET row == u.rows[id]
             IN /\ row = [kind |-> row.kind, text |-> row.text, refs |-> row.refs]
                /\ row.refs \in Seq(DOMAIN u.rows)
        /\ NewIdsAreNew(DOMAIN u.rows)

ASSUME TreesAssumption ==
    \A t \in Trees : IsTree(t) /\ NewIdsAreNew({ p.id : p \in Parts(t) })

RacketInit ==
    /\ Mat!Init
    /\ tree = Ref(unit.root)
    /\ Pass!Idle

Read == Mat!Next /\ UNCHANGED passing

RunOnUnit == /\ phase = "built"
             /\ Pass!Run(Mat!Root)
             /\ UNCHANGED reading

(* No unit is read; the program hands over a tree of its own.              *)
RunOnTree == /\ phase = "checking" /\ todo = DOMAIN unit.rows /\ matStack = <<>>
             /\ \E root \in Trees : Pass!Run(root)
             /\ phase' = "none" /\ unit' = <<>> /\ todo' = {}
             /\ UNCHANGED <<matMemo, active, matStack>>

Transform == Pass!Next /\ UNCHANGED reading

RacketNext == Read \/ RunOnUnit \/ RunOnTree \/ Transform

RacketSpec == RacketInit /\ [][RacketNext]_racketVars

(* Each of the calls goes on to its end.                                   *)
FairRacketSpec == RacketSpec /\ WF_racketVars(RacketNext)

-----------------------------------------------------------------------------
(* What a pass means on a table                                            *)

Behaviour(id) == IF Pass!Handled(unit.rows[id].kind)
                 THEN pass.handler[unit.rows[id].kind] ELSE "keep"

Wraps(id) == Behaviour(id) = "wrapFirst" /\ unit.rows[id].refs # <<>>

(* A row after the pass, and the row of the node that was put around its   *)
(* first child.                                                            *)
RowAfter(id) ==
    LET row == unit.rows[id]
    IN CASE Behaviour(id) = "edit" -> [row EXCEPT !.text = "new"]
         [] Behaviour(id) = "dropFirst" /\ row.refs # <<>> ->
              [row EXCEPT !.refs = Tail(@)]
         [] Wraps(id) -> [row EXCEPT !.refs[1] = <<id, 1>>]
         [] OTHER -> row

RowAround(id) == [kind |-> "wrapper", text |-> "new",
                  refs |-> <<unit.rows[id].refs[1]>>]

TableAfter ==
    LET wrappers == { <<id, 1>> : id \in { i \in DOMAIN unit.rows : Wraps(i) } }
    IN [id \in DOMAIN unit.rows \cup wrappers |->
          IF id \in DOMAIN unit.rows THEN RowAfter(id) ELSE RowAround(id[1])]

DropsNothing == \A id \in DOMAIN unit.rows : Behaviour(id) # "dropFirst"

(* A pass on trees is a pass on rows: whatever is shared, and in whatever  *)
(* order fields come, each node is handled once, its row in the new table  *)
(* is what the handler makes of its old one, and make-go-ast-unit takes    *)
(* the tree.  On a cyclic table a node may have been reached through a     *)
(* child that was dropped; its reference is then left without a row.       *)
PassIsRowwise ==
    outcome = "mapped" /\ phase = "built" =>
        LET rows == Rows(Pass!Result)
        IN /\ OneNodePerId(Pass!Result)
           /\ IsPart(rows, TableAfter)
           /\ Mat!IsAcyclic \/ DropsNothing =>
                rows = Part(TableAfter, unit.root)

(* Reading, materialising and passing come to an end, on cycles too.       *)
Finishes == <>(phase = "refused" \/ outcome \in {"mapped", "error"})

KindCheckIsExact == Mat!KindCheckIsExact
TreeIsTable      == Mat!TreeIsTable
ErrorIsJustified == Pass!ErrorIsJustified
OneResultPerId   == Pass!OneResultPerId
=============================================================================
