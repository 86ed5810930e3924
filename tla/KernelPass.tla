------------------------------ MODULE KernelPass ----------------------------
(***************************************************************************)
(* A transformation of a tree: run-go-kernel-pass of transform.rkt over    *)
(* ir-node-map of node.rkt.  Children come before their parents, and what  *)
(* became of a node is remembered under its ID.                            *)
(*                                                                         *)
(* What handlers do is up to their authors.  Those here are local: they    *)
(* look at the node they are given and leave its children as they are.     *)
(***************************************************************************)
EXTENDS IrTrees

CONSTANTS
    GoKinds,  \* the kinds in the namespace go/ast
    Passes    \* [handler: [the handled kinds -> Behaviours], policy]

Behaviours ==
    {"keep", "edit", "dropFirst", "wrapFirst", "changeId", "returnOther"}
Policies == {"recurse", "reject"}

PassOK(p) == /\ DOMAIN p.handler \subseteq GoKinds
             /\ \A k \in DOMAIN p.handler : p.handler[k] \in Behaviours
             /\ p.policy \in Policies

VARIABLES
    tree,     \* the root
    pass,     \* the pass
    memo,     \* what became of nodes, by ID
    stack,    \* active calls of map-node, outermost first
    calls,    \* how often the handler was called for an ID
    outcome   \* "idle", "mapping", then "mapped" or "error"

vars == <<tree, pass, memo, stack, calls, outcome>>

-----------------------------------------------------------------------------

(* An active call, as in Materialize.                                      *)
Frame(node) == [node |-> node, todo |-> DOMAIN node.fields,
                at |-> 0, done |-> <<>>]

Top == stack[Len(stack)]
Callers == SubSeq(stack, 1, Len(stack) - 1)

With(frame, i, value) ==
    [frame EXCEPT !.todo = @ \ {i}, !.at = 0, !.done = Put(@, i, value)]

Mapped(frame) == [frame.node EXCEPT !.fields =
                    [i \in DOMAIN @ |-> frame.done[i]]]

(* A node the handler makes around a child: its ID is new at each call.    *)
Wrapper(id, n, child) == [id |-> <<id, n>>, kind |-> "wrapper",
                          text |-> "new", fields |-> <<child>>]

(* The handler's answer to a node, at its n-th call for the ID.            *)
Handle(behaviour, node, n) ==
    LET first == node.fields # <<>>
    IN CASE behaviour = "edit" -> [node EXCEPT !.text = "new"]
         [] behaviour = "dropFirst" /\ first ->
              [node EXCEPT !.fields = Tail(@)]
         [] behaviour = "wrapFirst" /\ first ->
              [node EXCEPT !.fields[1] = Wrapper(node.id, n, @)]
         [] behaviour = "changeId" -> [node EXCEPT !.id = <<@, n>>]
         [] behaviour = "returnOther" -> Ref(node.id)
         [] OTHER -> node

Idle == /\ pass = <<>>
        /\ memo = <<>> /\ stack = <<>> /\ calls = <<>>
        /\ outcome = "idle"

Run(root) ==
    /\ outcome = "idle"
    /\ tree' = root
    /\ pass' \in Passes
    /\ stack' = <<Frame(root)>>
    /\ outcome' = "mapping"
    /\ UNCHANGED <<memo, calls>>

(* A seeded defect: what became of a node is not looked up.                *)
FieldUnremembered(i) ==
    /\ outcome = "mapping" /\ i \in Top.todo
    /\ LET value == Top.node.fields[i]
       IN stack' = IF IsNode(value)
                   THEN Append(Append(Callers, [Top EXCEPT !.at = i]), Frame(value))
                   ELSE Append(Callers, With(Top, i, value))
    /\ UNCHANGED <<tree, pass, memo, calls, outcome>>

(* The next field, in the order of a hash: map-value.                      *)
Field(i) ==
    /\ outcome = "mapping" /\ i \in Top.todo
    /\ LET value == Top.node.fields[i]
       IN \/ /\ ~ IsNode(value)
             /\ stack' = Append(Callers, With(Top, i, value))
          \/ /\ IsNode(value) /\ value.id \in DOMAIN memo
             /\ stack' = Append(Callers, With(Top, i, memo[value.id]))
          \/ /\ IsNode(value) /\ value.id \notin DOMAIN memo
             /\ stack' = Append(Append(Callers, [Top EXCEPT !.at = i]),
                                Frame(value))
    /\ UNCHANGED <<tree, pass, memo, calls, outcome>>

(* What became of a node goes to the memo and to its parent.               *)
Yield(node) ==
    /\ memo' = Put(memo, Top.node.id, node)
    /\ \/ /\ Callers # <<>>
          /\ stack' = [Callers EXCEPT ![Len(Callers)] = With(@, @.at, node)]
          /\ UNCHANGED outcome
       \/ /\ Callers = <<>>
          /\ stack' = <<>>
          /\ outcome' = "mapped"

Raise == /\ outcome' = "error"
         /\ UNCHANGED <<memo, stack>>

Handled(kind) == kind \in DOMAIN pass.handler

(* Seeded defects: the answer is not looked at; it is looked at and left.  *)
ApplyUnchecked ==
    /\ outcome = "mapping" /\ Top.todo = {}
    /\ LET node == Mapped(Top)
           n == 1 + (IF node.id \in DOMAIN calls THEN calls[node.id] ELSE 0)
       IN IF Handled(node.kind)
          THEN /\ calls' = Put(calls, node.id, n)
               /\ Yield(Handle(pass.handler[node.kind], node, n))
          ELSE /\ UNCHANGED calls
               /\ IF node.kind \in GoKinds /\ pass.policy = "reject"
                  THEN Raise ELSE Yield(node)
    /\ UNCHANGED <<tree, pass>>

ApplyDiscarded ==
    /\ outcome = "mapping" /\ Top.todo = {}
    /\ LET node == Mapped(Top)
           answer == Handle(pass.handler[node.kind], node, 1)
       IN IF Handled(node.kind)
          THEN /\ calls' = Put(calls, node.id, 1)
               /\ IF IsNode(answer) /\ IdOf(answer) = node.id
                  THEN Yield(node) ELSE Raise
          ELSE /\ UNCHANGED calls
               /\ IF node.kind \in GoKinds /\ pass.policy = "reject"
                  THEN Raise ELSE Yield(node)
    /\ UNCHANGED <<tree, pass>>

(* All children are there: the procedure run-go-kernel-pass maps with.     *)
Apply ==
    /\ outcome = "mapping" /\ Top.todo = {}
    /\ LET node == Mapped(Top)
           n == 1 + (IF node.id \in DOMAIN calls THEN calls[node.id] ELSE 0)
           answer == Handle(pass.handler[node.kind], node, n)
       IN \/ /\ Handled(node.kind)
             /\ calls' = Put(calls, node.id, n)
             /\ IF IsNode(answer) /\ IdOf(answer) = node.id
                THEN Yield(answer) ELSE Raise
          \/ /\ ~ Handled(node.kind)
             /\ node.kind \notin GoKinds \/ pass.policy = "recurse"
             /\ Yield(node)
             /\ UNCHANGED calls
          \/ /\ ~ Handled(node.kind)
             /\ node.kind \in GoKinds /\ pass.policy = "reject"
             /\ Raise
             /\ UNCHANGED calls
    /\ UNCHANGED <<tree, pass>>

Next == \/ outcome = "mapping" /\ \E i \in Top.todo : Field(i)
        \/ Apply

-----------------------------------------------------------------------------

Result == memo[tree.id]

(* A reason for which a pass cannot go through a node.                     *)
Unfit(node) ==
    \/ Handled(node.kind) /\ pass.handler[node.kind] \in {"changeId", "returnOther"}
    \/ ~ Handled(node.kind) /\ node.kind \in GoKinds /\ pass.policy = "reject"

(* A pass stops for a node that is really there and that it cannot take,   *)
(* and never lets such a node through.                                     *)
ErrorIsJustified ==
    /\ outcome = "error" => \E p \in Parts(tree) : Unfit(p)
    /\ outcome = "mapped" /\ OneNodePerId(tree) =>
         \A p \in Parts(tree) : ~ Unfit(p)

(* No node holds another one under its own ID.                             *)
NoIdInItself(node) ==
    \A p \in Parts(node) : \A child \in Children(p) :
        \A q \in Parts(child) : q.id # p.id

(* A node that was nested in several places comes out as one node, also    *)
(* when the tree that came in held two different nodes under one ID, side  *)
(* by side: what comes out can be made into a unit.                        *)
OneResultPerId ==
    outcome = "mapped" /\ NoIdInItself(tree) => OneNodePerId(Result)
=============================================================================
