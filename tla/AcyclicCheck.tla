---------------------------- MODULE AcyclicCheck ----------------------------
(***************************************************************************)
(* What the acyclicity checks of the bridge promise: one decision about a  *)
(* finite directed graph that was fixed beforehand.                        *)
(*                                                                         *)
(* go-bridge/internal/codec/decode.go says it of AST child edges ("must    *)
(* not contain a child-edge cycle"), validate.go and metadata/origin.rkt   *)
(* say it of origin dependencies.  AcyclicDfs is the algorithm they all    *)
(* use, and it is shown to implement this module.                          *)
(***************************************************************************)
EXTENDS ReferenceGraphs

CONSTANT Graphs     \* the graphs considered

VARIABLES children, \* children[id]: the references of id, in visiting order
          verdict   \* "running", then "ok" or "cycle"

Init == /\ children \in Graphs
        /\ verdict = "running"

Decide == /\ verdict = "running"
          /\ verdict' = IF Acyclic(children) THEN "ok" ELSE "cycle"
          /\ UNCHANGED children

Spec == Init /\ [][Decide]_<<children, verdict>>
=============================================================================
