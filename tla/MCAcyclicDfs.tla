---------------------------- MODULE MCAcyclicDfs ----------------------------
(* AcyclicDfs on every graph of three vertices with at most MaxRefs        *)
(* references each, repetitions and self-references included.              *)
EXTENDS AcyclicDfs

CONSTANT MaxRefs

MCGraphs == [Ids -> UNION { [1 .. n -> Ids] : n \in 0 .. MaxRefs }]
=============================================================================
