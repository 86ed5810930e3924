----------------------------- MODULE AcyclicDfs -----------------------------
(***************************************************************************)
(* The three-colour depth-first search that validateASTAcyclic (decode.go) *)
(* runs over the child edges of a unit before anything is allocated.  The  *)
(* same algorithm is written out twice more: validateOriginAcyclic in      *)
(* validate.go and validate-origin-table in metadata/origin.rkt.           *)
(*                                                                         *)
(* The recursion of "visit" is a stack of frames, one per active call, so  *)
(* that what holds in the middle of the search can be stated.  The outer   *)
(* loop takes the vertices in any order: decode.go goes through a slice,   *)
(* the two origin checks through a hash table.                             *)
(***************************************************************************)
EXTENDS Naturals, ReferenceGraphs

CONSTANTS Ids,     \* identities of the vertices (NodeID, OriginID)
          Graphs   \* the graphs the search may be given

(* Every reference names a vertex of the table: ValidateEnvelope and the   *)
(* first loop of validate-origin-table reject the others beforehand.       *)
ASSUME GraphsAssumption == Graphs \subseteq [Ids -> Seq(Ids)]

VARIABLES children,  \* the adjacency lists ("edges"), fixed during the search
          colour,    \* "state": 0 not seen, 1 active, 2 finished
          stack,     \* active calls of visit, outermost first
          todo,      \* vertices the outer loop has yet to visit
          verdict    \* "running", "ok" (nil returned) or "cycle" (the error)

vars == <<children, colour, stack, todo, verdict>>

Check == INSTANCE AcyclicCheck

White == 0
Grey  == 1
Black == 2

(* A call of visit: its argument and the position of its loop over the     *)
(* children of that argument.                                              *)
Frames == [id : Ids, next : Nat \ {0}]

TypeOK == /\ children \in Graphs
          /\ colour \in [Ids -> {White, Grey, Black}]
          /\ stack \in Seq(Frames)
          /\ todo \subseteq Ids
          /\ verdict \in {"running", "ok", "cycle"}

Top == stack[Len(stack)]

Init == /\ children \in Graphs
        /\ colour = [id \in Ids |-> White]
        /\ stack = <<>>
        /\ todo = Ids
        /\ verdict = "running"

-----------------------------------------------------------------------------

(* Seeded defects of visit: an active vertex is taken for a finished one,  *)
(* a finished one for an active one.                                       *)
VisitGreyIgnored(id, callers) ==
    \/ /\ colour[id] # White
       /\ stack' = callers
       /\ UNCHANGED <<colour, verdict>>
    \/ /\ colour[id] = White
       /\ colour' = [colour EXCEPT ![id] = Grey]
       /\ stack' = Append(callers, [id |-> id, next |-> 1])
       /\ UNCHANGED verdict

VisitSharingRejected(id, callers) ==
    \/ /\ colour[id] # White
       /\ verdict' = "cycle"
       /\ stack' = callers
       /\ UNCHANGED colour
    \/ /\ colour[id] = White
       /\ colour' = [colour EXCEPT ![id] = Grey]
       /\ stack' = Append(callers, [id |-> id, next |-> 1])
       /\ UNCHANGED verdict

(* visit(id), called when the callers below it are the frames of "callers" *)
Visit(id, callers) ==
    \/ /\ colour[id] = Grey
       /\ verdict' = "cycle"
       /\ stack' = callers
       /\ UNCHANGED colour
    \/ /\ colour[id] = Black
       /\ stack' = callers
       /\ UNCHANGED <<colour, verdict>>
    \/ /\ colour[id] = White
       /\ colour' = [colour EXCEPT ![id] = Grey]
       /\ stack' = Append(callers, [id |-> id, next |-> 1])
       /\ UNCHANGED verdict

(* One turn of the outer loop.                                             *)
VisitRoot(id) ==
    /\ verdict = "running"
    /\ stack = <<>>
    /\ todo' = todo \ {id}
    /\ Visit(id, <<>>)
    /\ UNCHANGED children

(* A seeded defect: the loop over the children does not advance.           *)
VisitChildAgain ==
    /\ verdict = "running"
    /\ stack # <<>>
    /\ Top.next \in DOMAIN children[Top.id]
    /\ Visit(children[Top.id][Top.next], stack)
    /\ UNCHANGED <<children, todo>>

(* The innermost active call visits its next child.                        *)
VisitChild ==
    /\ verdict = "running"
    /\ stack # <<>>
    /\ Top.next \in DOMAIN children[Top.id]
    /\ Visit(children[Top.id][Top.next],
             [stack EXCEPT ![Len(stack)].next = @ + 1])
    /\ UNCHANGED <<children, todo>>

(* A seeded defect: the vertex stays active after its call has returned.   *)
FinishGrey ==
    /\ verdict = "running"
    /\ stack # <<>>
    /\ Top.next \notin DOMAIN children[Top.id]
    /\ stack' = SubSeq(stack, 1, Len(stack) - 1)
    /\ UNCHANGED <<children, colour, todo, verdict>>

(* The innermost active call has been through all its children.            *)
Finish ==
    /\ verdict = "running"
    /\ stack # <<>>
    /\ Top.next \notin DOMAIN children[Top.id]
    /\ colour' = [colour EXCEPT ![Top.id] = Black]
    /\ stack' = SubSeq(stack, 1, Len(stack) - 1)
    /\ UNCHANGED <<children, todo, verdict>>

(* A seeded defect: only the first tree is searched.                       *)
AcceptEarly ==
    /\ verdict = "running"
    /\ stack = <<>>
    /\ todo # Ids
    /\ verdict' = "ok"
    /\ UNCHANGED <<children, colour, stack, todo>>

(* The outer loop ends.                                                    *)
Accept ==
    /\ verdict = "running"
    /\ stack = <<>>
    /\ todo = {}
    /\ verdict' = "ok"
    /\ UNCHANGED <<children, colour, stack, todo>>

Next == \/ \E id \in todo : VisitRoot(id)
        \/ VisitChild
        \/ Finish
        \/ Accept

Spec == Init /\ [][Next]_vars

(* The search is one sequential call: the Go runtime runs it until it      *)
(* returns.                                                                *)
FairSpec == Spec /\ WF_vars(Next)

-----------------------------------------------------------------------------
(* Properties                                                              *)

(* A unit is accepted only if its child graph has no cycle: go/format and  *)
(* ast.Inspect, which do not remember what they visited, then terminate.   *)
AcceptedIsAcyclic == verdict = "ok" => Acyclic(children)

(* Sharing is not a cycle: a unit is rejected only if it has a real one,   *)
(* however many parents a shared comment or import spec has.               *)
RejectedIsCyclic == verdict = "cycle" => ~ Acyclic(children)

(* The active vertices are exactly the callers, each once, and each caller *)
(* is a parent of the next one: what makes meeting an active vertex a      *)
(* cycle and not just a vertex met before.                                 *)
GreyPath ==
    /\ \A id \in Ids :
         colour[id] = Grey <=> \E k \in DOMAIN stack : stack[k].id = id
    /\ \A j, k \in DOMAIN stack : stack[j].id = stack[k].id => j = k
    /\ \A k \in DOMAIN stack : k + 1 \in DOMAIN stack =>
         stack[k + 1].id \in Successors(children, stack[k].id)

(* What a call of visit has been through is finished: the children that a  *)
(* caller has passed are black, but the one whose visit is still active.   *)
PassedIsFinished ==
    \A k \in DOMAIN stack : \A i \in DOMAIN children[stack[k].id] :
        i < stack[k].next => \/ colour[children[stack[k].id][i]] = Black
                            \/ /\ k + 1 \in DOMAIN stack
                               /\ children[stack[k].id][i] = stack[k + 1].id

(* Black vertices only refer to black ones, and no cycle runs among them.  *)
BlackIsAcyclic ==
    /\ \A id \in Ids : colour[id] = Black =>
         \A child \in Successors(children, id) : colour[child] = Black
    /\ \A S \in SUBSET { id \in Ids : colour[id] = Black } :
         S # {} => ~ Sinkless(children, S)

(* The outer loop has left no vertex behind it unvisited.                  *)
LeftIsSeen == \A id \in Ids : colour[id] = White => id \in todo

(* The invariant of the search that the two properties above rest on.      *)
(* After the error nothing reads the frames any more.                      *)
SearchInv == verdict # "cycle" => /\ GreyPath
                                  /\ PassedIsFinished
                                  /\ BlackIsAcyclic
                                  /\ LeftIsSeen

(* The search implements the one-step decision.                            *)
Decides == Check!Spec

(* Every search returns, on cyclic graphs too.                             *)
Terminates == <>(verdict # "running")

=============================================================================
