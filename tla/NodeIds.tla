------------------------------- MODULE NodeIds ------------------------------
(***************************************************************************)
(* The node-ID counter of go-kernel/node.rkt.  IDs come from three places: *)
(* constructors that ask for a fresh one, programs that choose their own,  *)
(* and units that are read; every one of them passes canonical-node-id,    *)
(* which keeps the counter at or above every number seen.  Each Gorack     *)
(* module resets the counter when it starts (lang/main.rkt).               *)
(***************************************************************************)
EXTENDS Naturals

CONSTANTS Numbers,    \* the numbers that occur in chosen IDs
          Zeros,      \* leading zeros that occur in them: "n07" is not "n7"
          Names,      \* chosen IDs that are not of the form nNUMBER
          MaxCounter  \* bound of the counter

ASSUME NodeIdsAssumption == /\ Numbers \subseteq Nat
                            /\ Zeros \subseteq Nat
                            /\ MaxCounter \in Nat

VARIABLES counter,  \* node-id-counter
          inUse,    \* the IDs nodes and references got since the last reset
          stale     \* those of before, which programs may still hold

counterVars == <<counter, inUse, stale>>

(* The string "n" with zeros and a number, and any other string.           *)
Numeric == [number : Nat, zeros : Nat]
Other   == [name : Names]

CounterInit == counter = 0 /\ inUse = {} /\ stale = {}

(* fresh-node-id                                                           *)
NextId == [number |-> counter + 1, zeros |-> 0]

Fresh ==
    /\ counter < MaxCounter
    /\ counter' = counter + 1
    /\ inUse' = inUse \cup {NextId}
    /\ UNCHANGED stale

(* Seeded defects: a chosen number is not reserved; the counter follows it *)
(* down as well as up.                                                     *)
ReserveNot(id) ==
    /\ inUse' = inUse \cup {id}
    /\ UNCHANGED <<counter, stale>>

ReserveAny(id) ==
    /\ counter' = id.number
    /\ inUse' = inUse \cup {id}
    /\ UNCHANGED stale

(* canonical-node-id of an ID with a number: chosen by a program, or read. *)
Reserve(id) ==
    /\ counter' = IF id.number > counter THEN id.number ELSE counter
    /\ inUse' = inUse \cup {id}
    /\ UNCHANGED stale

(* canonical-node-id of any other ID.                                      *)
Keep(id) ==
    /\ inUse' = inUse \cup {id}
    /\ UNCHANGED <<counter, stale>>

(* reset-node-ids!                                                         *)
Reset ==
    /\ counter' = 0
    /\ stale' = stale \cup inUse
    /\ inUse' = {}

Chosen == [number : Numbers, zeros : Zeros]

CounterNext ==
    \/ Fresh
    \/ \E id \in Chosen : Reserve(id)
    \/ \E id \in Other : Keep(id)
    \/ Reset

CounterSpec == CounterInit /\ [][CounterNext]_counterVars

-----------------------------------------------------------------------------

CounterTypeOK ==
    /\ counter \in Nat
    /\ inUse \subseteq Numeric \cup Other
    /\ stale \subseteq Numeric \cup Other

(* The counter is at or above the number of every ID in use, however it    *)
(* is spelled: a number that was chosen, or read with a unit, stays taken. *)
Reserved == \A id \in inUse \cap Numeric : id.number <= counter

(* A fresh ID is the ID of no node and no reference made since the reset.  *)
FreshIsNew == [][Fresh => NextId \notin inUse]_counterVars
=============================================================================
