----------------------------- MODULE IrNodeProofs ---------------------------
(***************************************************************************)
(* Proofs about nodes of the IR that are nested in one another: what       *)
(* materialize-node makes of a table, what ir-node-map and a kernel pass   *)
(* make of a tree, and what the comparison of two graphs decides.  Tables, *)
(* trees and graphs are of any size; the order of a hash is any order.     *)
(*                                                                         *)
(* A tree is known by the set of its parts.  Parts searches for it level   *)
(* by level; the first section shows that this search ends whenever the    *)
(* nodes lie in a finite set that holds what its nodes hold, and that it   *)
(* finds the smallest such set around a node.                              *)
(*                                                                         *)
(* MatInv is about the calls of materialize-node.  Each call waits for the *)
(* one above it, so the rows being made are a path of the table, and a     *)
(* reference stays only where it closes a cycle (MadeFor).  A made node    *)
(* has for each reference the node made of that row, or such a reference   *)
(* (AllMade).  Nesting ends: of any made nodes, there is one that holds    *)
(* none of the others (Layered).  RootIsTable and TreeTable conclude that  *)
(* the tree of the root is the table, as far as it can be reached.         *)
(*                                                                         *)
(* PassInv is about the calls of ir-node-map.  What is remembered under an *)
(* ID answers a node of the tree that has the ID, and its children were    *)
(* answered before it (AnswerTo).  Where no node holds its own ID, a node  *)
(* whose call is active is not answered (Unanswered), so each handler runs *)
(* once and an answer stays what it was.  Answers, and nodes that were put *)
(* around children, are then all that comes out (ResultLaws), and the row  *)
(* of each is what the pass makes of a row (AnswerRow, WrapperRow).        *)
(***************************************************************************)
EXTENDS RacketPass, StructuralEqual, FiniteSetTheorems, SequenceTheorems,
        WellFoundedInduction, TLAPS

-----------------------------------------------------------------------------
(* Induction on numbers                                                    *)

LEMMA LessIsWellFounded ==
    \E R : IsWellFoundedOn(R, Nat) /\ R = { p \in Nat \X Nat : p[1] < p[2] }
<1>1. OpToRel(<, Nat) = { p \in Nat \X Nat : p[1] < p[2] }
  BY Zenon DEF OpToRel
<1> QED
  BY <1>1, NatLessThanWellFounded, Zenon

LEMMA Least ==
    ASSUME NEW S \in SUBSET Nat, S # {}
    PROVE  \E n \in S : \A m \in S : n <= m
<1>1. PICK R : IsWellFoundedOn(R, Nat) /\ R = { p \in Nat \X Nat : p[1] < p[2] }
  BY LessIsWellFounded
<1>2. PICK n \in S : \A m \in S : <<m, n>> \notin R
  BY <1>1, WFMin
<1>3. ASSUME NEW m \in S PROVE n <= m
  <2>1. <<m, n>> \notin R /\ m \in Nat /\ n \in Nat
    BY <1>2
  <2>2. <<m, n>> \in R <=> m < n
    BY <1>1, <2>1
  <2> QED
    BY <2>1, <2>2
<1> QED
  BY <1>3

LEMMA Climb ==
    ASSUME NEW S, 0 \in S, \A n \in Nat : n \in S => n + 1 \in S
    PROVE  Nat \subseteq S
<1> SUFFICES ASSUME Nat \ S # {} PROVE FALSE
  OBVIOUS
<1>1. PICK n \in Nat \ S : \A m \in Nat \ S : n <= m
  BY Least
<1> QED
  BY <1>1

-----------------------------------------------------------------------------
(* The parts of a node                                                     *)

(* A set of nodes that holds what its nodes hold.                          *)
ClosedNodes(S) == Nested(S) \subseteq S

(* The equations of Parts.                                                 *)
Within(node, f) ==
    f = [n \in Nat |-> IF n = 0 THEN {node}
                       ELSE LET outer == f[n - 1] IN outer \cup Nested(outer)]

All(f, g) ==
    g = [n \in Nat |-> IF Nested(f[n]) \subseteq f[n] THEN f[n] ELSE g[n + 1]]

(* A way of n steps down from a node, with pauses.                         *)
Descent(node, S, n, c) ==
    /\ c \in [0 .. n -> S] /\ c[0] = node
    /\ \A k \in 1 .. n : c[k] = c[k - 1] \/ c[k] \in Children(c[k - 1])

LEMMA WithinExists ==
    ASSUME NEW node, NEW S, node \in S, ClosedNodes(S)
    PROVE  \E f : Within(node, f)
<1> DEFINE D(n) == { p \in S : \E c : Descent(node, S, n, c) /\ c[n] = p }
<1>1. D(0) = {node}
  <2>1. PICK c : c = [k \in 0 .. 0 |-> node]
    OBVIOUS
  <2>2. Descent(node, S, 0, c) /\ c[0] = node
    BY <2>1 DEF Descent
  <2> QED
    BY <2>2 DEF Descent
<1>2. ASSUME NEW n \in Nat, n # 0
      PROVE  D(n) = D(n - 1) \cup Nested(D(n - 1))
  <2>1. ASSUME NEW p \in D(n) PROVE p \in D(n - 1) \cup Nested(D(n - 1))
    <3>1. PICK c : Descent(node, S, n, c) /\ c[n] = p
      OBVIOUS
    <3>2. PICK d : d = [k \in 0 .. n - 1 |-> c[k]]
      OBVIOUS
    <3>3. /\ n \in 1 .. n /\ n - 1 \in 0 .. n - 1 /\ n - 1 \in 0 .. n /\ 0 \in 0 .. n - 1
          /\ \A k \in 0 .. n - 1 : k \in 0 .. n
          /\ \A k \in 1 .. n - 1 : k \in 1 .. n /\ k \in 0 .. n - 1 /\ k - 1 \in 0 .. n - 1
      BY <1>2
    <3>4. /\ \A k \in 0 .. n - 1 : d[k] = c[k] /\ c[k] \in S
          /\ d \in [0 .. n - 1 -> S]
      BY <3>1, <3>2, <3>3 DEF Descent
    <3>5. Descent(node, S, n - 1, d) /\ d[n - 1] = c[n - 1] /\ c[n - 1] \in S
      BY <3>1, <3>3, <3>4 DEF Descent
    <3>6. c[n - 1] \in D(n - 1)
      BY <3>5
    <3>7. p = c[n - 1] \/ p \in Children(c[n - 1])
      BY <3>1, <3>3 DEF Descent
    <3> QED
      BY <3>6, <3>7 DEF Nested
  <2>2. ASSUME NEW p \in D(n - 1) \cup Nested(D(n - 1)) PROVE p \in D(n)
    <3>1. PICK q \in D(n - 1) : p = q \/ p \in Children(q)
      BY DEF Nested
    <3>2. PICK c : Descent(node, S, n - 1, c) /\ c[n - 1] = q
      BY <3>1
    <3>3. PICK d : d = [k \in 0 .. n |-> IF k = n THEN p ELSE c[k]]
      OBVIOUS
    <3>4. p \in S
      BY <3>1 DEF ClosedNodes, Nested
    <3>5. /\ n - 1 \in Nat /\ n \in 0 .. n /\ 0 \in 0 .. n - 1 /\ 0 \in 0 .. n
          /\ \A k \in 0 .. n : k # n => k \in 0 .. n - 1
          /\ \A k \in 1 .. n : /\ k \in 0 .. n /\ k - 1 \in 0 .. n /\ k - 1 # n
                               /\ (k # n => k \in 1 .. n - 1)
      BY <1>2
    <3>6. d[n] = p /\ d[0] = node /\ d \in [0 .. n -> S]
      BY <1>2, <3>2, <3>3, <3>4, <3>5 DEF Descent
    <3>7. ASSUME NEW k \in 1 .. n PROVE d[k] = d[k - 1] \/ d[k] \in Children(d[k - 1])
      <4>1. d[k - 1] = c[k - 1] /\ (k # n => d[k] = c[k])
        BY <3>3, <3>5
      <4>2. CASE k = n
        BY <3>1, <3>2, <3>6, <4>1, <4>2
      <4>3. CASE k # n
        BY <3>2, <3>5, <4>1, <4>3 DEF Descent
      <4> QED
        BY <4>2, <4>3
    <3> QED
      BY <3>4, <3>6, <3>7 DEF Descent
  <2> QED
    BY <2>1, <2>2
<1>3. PICK f : f = [n \in Nat |-> D(n)]
  OBVIOUS
<1> HIDE DEF D
<1>4. ASSUME NEW n \in Nat
      PROVE  f[n] = IF n = 0 THEN {node} ELSE f[n - 1] \cup Nested(f[n - 1])
  BY <1>1, <1>2, <1>3
<1> QED
  BY <1>3, <1>4 DEF Within

LEMMA WithinLaws ==
    ASSUME NEW node, NEW f, Within(node, f)
    PROVE  /\ f[0] = {node}
           /\ \A n \in Nat : f[n + 1] = f[n] \cup Nested(f[n])
           /\ \A n \in Nat : node \in f[n]
           /\ \A T : node \in T /\ ClosedNodes(T) => \A n \in Nat : f[n] \subseteq T
<1>1. f[0] = {node}
  BY DEF Within
<1>2. ASSUME NEW n \in Nat PROVE f[n + 1] = f[n] \cup Nested(f[n])
  <2>1. n + 1 \in Nat /\ n + 1 # 0 /\ (n + 1) - 1 = n
    OBVIOUS
  <2> QED
    BY <2>1 DEF Within
<1>3. \A n \in Nat : node \in f[n]
  <2> DEFINE K == { n \in Nat : node \in f[n] }
  <2>1. 0 \in K /\ \A n \in Nat : n \in K => n + 1 \in K
    BY <1>1, <1>2
  <2> QED
    BY <2>1, Climb
<1>4. ASSUME NEW T, node \in T, ClosedNodes(T)
      PROVE  \A n \in Nat : f[n] \subseteq T
  <2> DEFINE K == { n \in Nat : f[n] \subseteq T }
  <2>1. 0 \in K
    BY <1>1, <1>4
  <2>2. ASSUME NEW n \in Nat, n \in K PROVE n + 1 \in K
    <3>1. Nested(f[n]) \subseteq Nested(T)
      BY <2>2 DEF Nested
    <3> QED
      BY <1>2, <1>4, <2>2, <3>1 DEF ClosedNodes
  <2> HIDE DEF K
  <2>3. Nat \subseteq K
    BY <2>1, <2>2, Climb
  <2> QED
    BY <2>3 DEF K
<1> QED
  BY <1>1, <1>2, <1>3, <1>4

LEMMA WithinSettles ==
    ASSUME NEW node, NEW f, Within(node, f),
           NEW S, IsFiniteSet(S), node \in S, ClosedNodes(S)
    PROVE  \E n \in Nat : Nested(f[n]) \subseteq f[n]
<1> SUFFICES ASSUME \A n \in Nat : ~ (Nested(f[n]) \subseteq f[n])
             PROVE  FALSE
  OBVIOUS
<1>1. ASSUME NEW n \in Nat
      PROVE  IsFiniteSet(f[n]) /\ Cardinality(f[n]) <= Cardinality(S)
             /\ Cardinality(f[n]) \in Nat
  BY WithinLaws, FS_Subset, FS_CardinalityType
<1> DEFINE K == { n \in Nat : n + 1 <= Cardinality(f[n]) }
<1>2. 0 \in K
  <2>1. Cardinality(f[0]) = 1
    BY WithinLaws, FS_Singleton
  <2> QED
    BY <2>1
<1>3. ASSUME NEW n \in Nat, n \in K PROVE n + 1 \in K
  <2>1. PICK x \in Nested(f[n]) : x \notin f[n]
    OBVIOUS
  <2>2. f[n + 1] = f[n] \cup Nested(f[n])
    BY WithinLaws
  <2>3. f[n] \cup {x} \subseteq f[n + 1]
    BY <2>1, <2>2
  <2>4. Cardinality(f[n] \cup {x}) = Cardinality(f[n]) + 1
    BY <1>1, <2>1, FS_AddElement
  <2>5. Cardinality(f[n] \cup {x}) <= Cardinality(f[n + 1])
    BY <1>1, <2>3, FS_Subset
  <2>6. Cardinality(f[n + 1]) \in Nat /\ Cardinality(f[n]) \in Nat
    BY <1>1
  <2>7. n + 1 <= Cardinality(f[n])
    BY <1>3
  <2> QED
    BY <2>4, <2>5, <2>6, <2>7
<1> HIDE DEF K
<1>4. Nat \subseteq K
  BY <1>2, <1>3, Climb
<1>5. Cardinality(S) \in Nat
  BY FS_CardinalityType
<1>6. Cardinality(S) + 1 <= Cardinality(f[Cardinality(S)])
  BY <1>4, <1>5 DEF K
<1> QED
  BY <1>1, <1>5, <1>6

LEMMA WithinStays ==
    ASSUME NEW node, NEW f, Within(node, f), NEW a \in Nat, Nested(f[a]) \subseteq f[a],
           NEW b \in Nat, a <= b
    PROVE  f[b] = f[a]
<1> DEFINE K == { k \in Nat : f[a + k] = f[a] }
<1>1. 0 \in K
  OBVIOUS
<1>2. ASSUME NEW k \in Nat, k \in K PROVE k + 1 \in K
  <2>1. a + k \in Nat /\ (a + k) + 1 = a + (k + 1)
    OBVIOUS
  <2>2. f[(a + k) + 1] = f[a + k] \cup Nested(f[a + k])
    BY <2>1, WithinLaws
  <2> QED
    BY <1>2, <2>1, <2>2
<1> HIDE DEF K
<1>3. Nat \subseteq K
  BY <1>1, <1>2, Climb
<1>4. b - a \in Nat /\ a + (b - a) = b
  OBVIOUS
<1> QED
  BY <1>3, <1>4 DEF K

(* Parts finds what can be reached by nesting, if that is finite.          *)
LEMMA PartsLaws ==
    ASSUME NEW node, NEW S, IsFiniteSet(S), node \in S, ClosedNodes(S)
    PROVE  /\ node \in Parts(node) /\ ClosedNodes(Parts(node)) /\ IsFiniteSet(Parts(node))
           /\ \A T : node \in T /\ ClosedNodes(T) => Parts(node) \subseteq T
<1>1. PICK h : Within(node, h)
  BY WithinExists
<1>2. PICK f, g : /\ f = CHOOSE x : Within(node, x)
                  /\ g = CHOOSE x : All(f, x)
                  /\ Parts(node) = g[0]
  <2>1. PICK f : f = CHOOSE x : Within(node, x)
    OBVIOUS
  <2>2. PICK g : g = CHOOSE x : All(f, x)
    OBVIOUS
  <2>3. Parts(node) = g[0]
    BY <2>1, <2>2 DEF Parts, Within, All
  <2> QED
    BY <2>1, <2>2, <2>3
<1>3. Within(node, f)
  BY <1>1, <1>2
<1>4. PICK m \in Nat : Nested(f[m]) \subseteq f[m]
  BY <1>3, WithinSettles
<1>5. ASSUME NEW n \in Nat, Nested(f[n]) \subseteq f[n] PROVE f[n] = f[m]
  <2>1. n <= m \/ m <= n
    OBVIOUS
  <2> QED
    BY <1>3, <1>4, <1>5, <2>1, WithinStays
<1>6. All(f, g)
  <2>1. PICK e : e = [n \in Nat |-> f[m]]
    OBVIOUS
  <2>2. ASSUME NEW n \in Nat
        PROVE  e[n] = IF Nested(f[n]) \subseteq f[n] THEN f[n] ELSE e[n + 1]
    BY <1>5, <2>1
  <2>3. All(f, e)
    BY <2>1, <2>2 DEF All
  <2> QED
    BY <1>2, <2>3
<1>7. \A n \in Nat : g[n] = IF Nested(f[n]) \subseteq f[n] THEN f[n] ELSE g[n + 1]
  BY <1>6 DEF All
<1>8. g[0] = f[m]
  <2> DEFINE K == { n \in Nat : g[n] = f[m] }
  <2>1. m \in K
    BY <1>4, <1>7
  <2>2. PICK n \in K : \A k \in K : n <= k
    BY <2>1, Least
  <2>3. ASSUME n # 0 PROVE FALSE
    <3>1. n - 1 \in Nat /\ (n - 1) + 1 = n /\ ~ (n <= n - 1)
      BY <2>3
    <3>2. g[n - 1] = f[m]
      BY <1>5, <1>7, <2>2, <3>1
    <3> QED
      BY <2>2, <3>1, <3>2
  <2> QED
    BY <2>2, <2>3
<1>9. f[m] \subseteq S /\ node \in f[m]
  BY <1>3, WithinLaws
<1>10. IsFiniteSet(f[m])
  BY <1>9, FS_Subset
<1>11. \A T : node \in T /\ ClosedNodes(T) => f[m] \subseteq T
  BY <1>3, WithinLaws
<1> QED
  BY <1>2, <1>4, <1>8, <1>9, <1>10, <1>11 DEF ClosedNodes

-----------------------------------------------------------------------------
(* Stacks                                                                  *)

IsSeq(s) == s \in Seq({ s[k] : k \in DOMAIN s })

LEMMA SeqLaws ==
    ASSUME NEW s, IsSeq(s)
    PROVE  Len(s) \in Nat /\ DOMAIN s = 1 .. Len(s) /\ (s = <<>> <=> Len(s) = 0)
BY DEF IsSeq

LEMMA LongerSeq ==
    ASSUME NEW s, IsSeq(s), NEW x
    PROVE  /\ IsSeq(Append(s, x)) /\ Len(Append(s, x)) = Len(s) + 1
           /\ \A k \in 1 .. Len(s) : Append(s, x)[k] = s[k]
           /\ Append(s, x)[Len(s) + 1] = x
<1>1. PICK S : S = { s[k] : k \in DOMAIN s } \cup {x}
  OBVIOUS
<1>2. s \in Seq(S) /\ x \in S
  <2>1. { s[k] : k \in DOMAIN s } \subseteq S
    BY <1>1
  <2>2. s \in Seq({ s[k] : k \in DOMAIN s })
    BY DEF IsSeq
  <2> QED
    BY <1>1, <2>1, <2>2
<1>3. /\ Append(s, x) \in Seq(S) /\ Len(Append(s, x)) = Len(s) + 1
      /\ \A k \in 1 .. Len(s) : Append(s, x)[k] = s[k]
      /\ Append(s, x)[Len(s) + 1] = x
  BY <1>2
<1> QED
  BY <1>3 DEF IsSeq

LEMMA ShorterSeq ==
    ASSUME NEW s, IsSeq(s), s # <<>>
    PROVE  LET t == SubSeq(s, 1, Len(s) - 1)
           IN /\ IsSeq(t) /\ Len(t) = Len(s) - 1 /\ Len(s) \in Nat \ {0}
              /\ \A k \in 1 .. Len(s) - 1 : t[k] = s[k]
<1>1. PICK S : S = { s[k] : k \in DOMAIN s }
  OBVIOUS
<1>2. s \in Seq(S) /\ Len(s) \in Nat \ {0}
  BY <1>1 DEF IsSeq
<1>3. PICK t : t = SubSeq(s, 1, Len(s) - 1)
  OBVIOUS
<1>4. t \in Seq(S) /\ Len(t) = Len(s) - 1 /\ \A k \in 1 .. Len(s) - 1 : t[k] = s[k]
  <2>1. PICK n \in Nat : n = Len(s) - 1
    BY <1>2
  <2>2. /\ \A i \in 1 .. n : s[i] \in S
        /\ 1 \in Int /\ n \in Int /\ n - 1 + 1 = n /\ (1 <= n \/ n = 0)
        /\ \A i \in 1 .. n : 1 + i - 1 = i
    <3>1. \A i \in 1 .. n : i \in 1 .. Len(s)
      BY <1>2, <2>1
    <3> QED
      BY <1>2, <2>1, <3>1, ElementOfSeq
  <2>3. /\ SubSeq(s, 1, n) \in Seq(S)
        /\ Len(SubSeq(s, 1, n)) = IF 1 <= n THEN n - 1 + 1 ELSE 0
        /\ \A i \in 1 .. n - 1 + 1 : SubSeq(s, 1, n)[i] = s[1 + i - 1]
    BY <2>2, SubSeqProperties
  <2> QED
    BY <1>3, <2>1, <2>2, <2>3
<1>5. IsSeq(t)
  BY <1>4 DEF IsSeq
<1> QED
  BY <1>2, <1>3, <1>4, <1>5, Zenon

LEMMA ReplacedSeq ==
    ASSUME NEW T, NEW s \in Seq(T), NEW k \in DOMAIN s, NEW x \in T
    PROVE  LET new == [s EXCEPT ![k] = x]
           IN /\ new \in Seq(T) /\ Len(new) = Len(s)
              /\ new[k] = x /\ \A j \in DOMAIN s : j # k => new[j] = s[j]
OBVIOUS

(* What becomes of a stack: its top is replaced, one call is added to it,  *)
(* its top is taken away and the next one replaced.                        *)
Replaces(s, t, x) ==
    /\ IsSeq(t) /\ Len(t) = Len(s) /\ t[Len(s)] = x
    /\ \A k \in 1 .. Len(s) - 1 : t[k] = s[k]

Adds(s, t, x, y) ==
    /\ IsSeq(t) /\ Len(t) = Len(s) + 1 /\ t[Len(s)] = x /\ t[Len(s) + 1] = y
    /\ \A k \in 1 .. Len(s) - 1 : t[k] = s[k]

Removes(s, t, x) ==
    /\ IsSeq(t) /\ Len(s) > 1 /\ Len(t) = Len(s) - 1 /\ t[Len(s) - 1] = x
    /\ \A k \in 1 .. Len(s) - 2 : t[k] = s[k]

LEMMA ReplacedTop ==
    ASSUME NEW s, NEW callers, IsSeq(callers), callers # <<>>,
           Len(s) \in Nat \ {0}, Len(callers) = Len(s) - 1,
           \A k \in 1 .. Len(s) - 1 : callers[k] = s[k], NEW x
    PROVE  Removes(s, [callers EXCEPT ![Len(callers)] = x], x)
<1>1. PICK S : S = { callers[k] : k \in DOMAIN callers } \cup {x}
  OBVIOUS
<1>2. callers \in Seq(S) /\ x \in S
  <2>1. { callers[k] : k \in DOMAIN callers } \subseteq S
    BY <1>1
  <2>2. callers \in Seq({ callers[k] : k \in DOMAIN callers })
    BY DEF IsSeq
  <2> QED
    BY <1>1, <2>1, <2>2
<1>3. /\ Len(callers) \in Nat \ {0} /\ DOMAIN callers = 1 .. Len(callers)
      /\ Len(callers) \in DOMAIN callers
      /\ \A k \in 1 .. Len(callers) - 1 : k \in DOMAIN callers /\ k # Len(callers)
  BY SeqLaws
<1>4. PICK t : t = [callers EXCEPT ![Len(callers)] = x]
  OBVIOUS
<1>5. /\ t \in Seq(S) /\ Len(t) = Len(callers) /\ t[Len(callers)] = x
      /\ \A k \in DOMAIN callers : k # Len(callers) => t[k] = callers[k]
  BY <1>2, <1>3, <1>4, ReplacedSeq
<1>6. IsSeq(t)
  BY <1>5 DEF IsSeq
<1>7. \A k \in 1 .. Len(s) - 2 : k \in 1 .. Len(callers) - 1 /\ k \in 1 .. Len(s) - 1
  OBVIOUS
<1> QED
  BY <1>3, <1>4, <1>5, <1>6, <1>7 DEF Removes

RemovesTop(s, callers) ==
    /\ callers[Len(callers)] = s[Len(s) - 1]
    /\ \A x, t : t = [callers EXCEPT ![Len(callers)] = x] => Removes(s, t, x)

StackTurns(s, callers) ==
    /\ \A x, t : t = Append(callers, x) => Replaces(s, t, x)
    /\ \A x, y, t : t = Append(Append(callers, x), y) => Adds(s, t, x, y)
    /\ callers # <<>> => RemovesTop(s, callers)
    /\ callers = <<>> <=> Len(s) = 1

LEMMA StackLaws ==
    ASSUME NEW s, IsSeq(s), s # <<>>,
           NEW callers, callers = SubSeq(s, 1, Len(s) - 1)
    PROVE  StackTurns(s, callers)
<1>1. /\ IsSeq(callers) /\ Len(callers) = Len(s) - 1 /\ Len(s) \in Nat \ {0}
      /\ \A k \in 1 .. Len(s) - 1 : callers[k] = s[k]
  BY ShorterSeq
<1>2. ASSUME NEW x PROVE Replaces(s, Append(callers, x), x)
  <2>1. PICK t : t = Append(callers, x)
    OBVIOUS
  <2>2. /\ IsSeq(t) /\ Len(t) = Len(callers) + 1
        /\ \A k \in 1 .. Len(callers) : t[k] = callers[k]
        /\ t[Len(callers) + 1] = x
    BY <1>1, <2>1, LongerSeq
  <2> QED
    BY <1>1, <2>1, <2>2 DEF Replaces
<1>3. ASSUME NEW x, NEW y PROVE Adds(s, Append(Append(callers, x), y), x, y)
  <2>1. PICK t : t = Append(callers, x)
    OBVIOUS
  <2>2. Replaces(s, t, x)
    BY <1>2, <2>1
  <2>3. PICK v : v = Append(t, y)
    OBVIOUS
  <2>4. /\ IsSeq(v) /\ Len(v) = Len(t) + 1
        /\ \A k \in 1 .. Len(t) : v[k] = t[k]
        /\ v[Len(t) + 1] = y
    BY <2>2, <2>3, LongerSeq DEF Replaces
  <2>5. /\ Len(t) = Len(s) /\ Len(s) \in 1 .. Len(s)
        /\ \A k \in 1 .. Len(s) - 1 : k \in 1 .. Len(s)
    BY <1>1, <2>2 DEF Replaces
  <2>6. Adds(s, v, x, y)
    BY <2>2, <2>4, <2>5 DEF Replaces, Adds
  <2> QED
    BY <2>1, <2>3, <2>6
<1>4. ASSUME callers # <<>>, NEW x
      PROVE  Removes(s, [callers EXCEPT ![Len(callers)] = x], x)
  BY <1>1, <1>4, ReplacedTop
<1>5. callers = <<>> <=> Len(s) = 1
  <2>1. callers = <<>> <=> Len(callers) = 0
    BY <1>1, SeqLaws
  <2> QED
    BY <1>1, <2>1
<1>6. callers # <<>> => callers[Len(callers)] = s[Len(s) - 1]
  <2> SUFFICES ASSUME callers # <<>> PROVE callers[Len(callers)] = s[Len(s) - 1]
    OBVIOUS
  <2>1. Len(s) - 1 \in 1 .. Len(s) - 1
    BY <1>1, <1>5
  <2> QED
    BY <1>1, <2>1
<1>7. callers # <<>> => RemovesTop(s, callers)
  BY <1>4, <1>6 DEF RemovesTop
<1> QED
  BY <1>2, <1>3, <1>5, <1>7 DEF StackTurns

LEMMA OneCall ==
    ASSUME NEW x
    PROVE  IsSeq(<<x>>) /\ Len(<<x>>) = 1 /\ <<x>>[1] = x /\ IsSeq(<<>>) /\ Len(<<>>) = 0
<1>1. <<x>> \in Seq({x}) /\ Len(<<x>>) = 1 /\ <<x>>[1] = x /\ DOMAIN <<x>> = 1 .. 1
  OBVIOUS
<1>2. { <<x>>[k] : k \in DOMAIN <<x>> } = {x}
  BY <1>1
<1> QED
  BY <1>1, <1>2 DEF IsSeq

-----------------------------------------------------------------------------
(* Materialising: what calls and made nodes are                            *)

Kids(u, id) == u.rows[id].refs
RowGraph(u) == Graph(u.rows)

IsUnit(u) ==
    /\ u.root \in DOMAIN u.rows
    /\ \A id \in DOMAIN u.rows : Kids(u, id) \in Seq(DOMAIN u.rows)

NewCall(u, id) == [id |-> id, todo |-> DOMAIN Kids(u, id), at |-> 0, done |-> <<>>]

Given(f, i, v) == [f EXCEPT !.todo = @ \ {i}, !.at = 0, !.done = Put(@, i, v)]

MadeOf(u, f) == [id |-> f.id, kind |-> u.rows[f.id].kind, text |-> u.rows[f.id].text,
                 fields |-> [i \in DOMAIN Kids(u, f.id) |-> f.done[i]]]

(* What stands for the i-th reference of a row: the node made of the row   *)
(* it leads to, or, on a cycle, the reference.                             *)
MadeFor(u, id, i, v, m, a) ==
    LET child == Kids(u, id)[i]
    IN \/ child \in DOMAIN m /\ v = m[child]
       \/ /\ v = Ref(child)
          /\ id \in Reachable(RowGraph(u), child) /\ ~ Acyclic(RowGraph(u))
          /\ child \in DOMAIN m \cup a

(* The fields of the node made of a row.                                   *)
FieldsFit(u, id, fields, m, a) ==
    /\ DOMAIN fields = DOMAIN Kids(u, id)
    /\ \A i \in DOMAIN Kids(u, id) : MadeFor(u, id, i, fields[i], m, a)

CallFits(u, m, a, f) ==
    /\ f = [id |-> f.id, todo |-> f.todo, at |-> f.at, done |-> f.done]
    /\ f.id \in DOMAIN u.rows
    /\ f.todo \subseteq DOMAIN Kids(u, f.id)
    /\ DOMAIN f.done = DOMAIN Kids(u, f.id) \ f.todo
    /\ \A i \in DOMAIN f.done : MadeFor(u, f.id, i, f.done[i], m, a)

NodeFits(u, m, a, id) ==
    /\ id \in DOMAIN u.rows
    /\ m[id] = [id |-> id, kind |-> u.rows[id].kind, text |-> u.rows[id].text,
                fields |-> m[id].fields]
    /\ m[id].fields = [i \in DOMAIN Kids(u, id) |-> m[id].fields[i]]
    /\ \A i \in DOMAIN Kids(u, id) : MadeFor(u, id, i, m[id].fields[i], m, a)

AllMade(u, m, a) == \A id \in DOMAIN m : NodeFits(u, m, a, id)

(* Made nodes stay, and a row that was active is active or made.           *)
TablesGrow(m, a, m2, a2) ==
    /\ \A x \in DOMAIN m : x \in DOMAIN m2 /\ m2[x] = m[x]
    /\ DOMAIN m \cup a \subseteq DOMAIN m2 \cup a2

(* The nodes in a node were made.                                          *)
HoldsMade(node, m) == \A x \in Children(node) : \E c \in DOMAIN m : x = m[c]

(* A table with one more node in it.                                       *)
Puts(m, id, node, m2) ==
    /\ DOMAIN m2 = DOMAIN m \cup {id} /\ m2[id] = node
    /\ \A x \in DOMAIN m : m2[x] = m[x]

(* Nesting among the made nodes ends.                                      *)
Layered(m) ==
    \A S \in SUBSET DOMAIN m :
        S # {} => \E id \in S : \A child \in S : m[child] \notin Children(m[id])

(* Each call waits for the one above it; no row is made twice.             *)
Making(u, m, a, s) ==
    /\ IsSeq(s)
    /\ a = { s[k].id : k \in 1 .. Len(s) }
    /\ a \cap DOMAIN m = {}
    /\ \A j, k \in 1 .. Len(s) : s[j].id = s[k].id => j = k
    /\ \A k \in 1 .. Len(s) : CallFits(u, m, a, s[k])
    /\ \A k \in 1 .. Len(s) - 1 :
         /\ s[k].at \in s[k].todo
         /\ s[k + 1].id = Kids(u, s[k].id)[s[k].at]
    /\ AllMade(u, m, a)
    /\ Layered(m)

LEMMA PutLaws ==
    ASSUME NEW t, NEW k, NEW v
    PROVE  /\ DOMAIN Put(t, k, v) = DOMAIN t \cup {k}
           /\ Put(t, k, v)[k] = v
           /\ \A x \in DOMAIN t : x # k => Put(t, k, v)[x] = t[x]
BY DEF Put

LEMMA EmptyTable == DOMAIN <<>> = {} /\ \A t : t = <<>> => DOMAIN t = {}
OBVIOUS

LEMMA NodeOrRef ==
    /\ \A x : ~ IsNode(Ref(x)) /\ IdOf(Ref(x)) = x
    /\ \A i, k, t, f, n : n = [id |-> i, kind |-> k, text |-> t, fields |-> f]
         => IsNode(n) /\ IdOf(n) = i /\ n.id = i /\ n.kind = k /\ n.text = t /\ n.fields = f
BY DEF IsNode, IdOf, Ref

LEMMA SameFunction ==
    ASSUME NEW f, NEW g, NEW D,
           f = [x \in D |-> f[x]], g = [x \in D |-> g[x]], \A x \in D : f[x] = g[x]
    PROVE  f = g
OBVIOUS

LEMMA GivenLaws ==
    ASSUME NEW f, f = [id |-> f.id, todo |-> f.todo, at |-> f.at, done |-> f.done],
           NEW i, NEW v
    PROVE  /\ Given(f, i, v) = [id |-> f.id, todo |-> f.todo \ {i}, at |-> 0,
                                done |-> Put(f.done, i, v)]
           /\ [f EXCEPT !.at = i] = [id |-> f.id, todo |-> f.todo, at |-> i, done |-> f.done]
<1>1. PICK D : D = {"id", "todo", "at", "done"}
  OBVIOUS
<1>2. DOMAIN f = D /\ f = [x \in D |-> f[x]]
  BY <1>1
<1>3. Given(f, i, v) = [id |-> f.id, todo |-> f.todo \ {i}, at |-> 0,
                        done |-> Put(f.done, i, v)]
  <2>1. PICK g : g = Given(f, i, v)
    OBVIOUS
  <2>2. PICK r : r = [id |-> f.id, todo |-> f.todo \ {i}, at |-> 0,
                      done |-> Put(f.done, i, v)]
    OBVIOUS
  <2>3. g = [x \in D |-> g[x]] /\ r = [x \in D |-> r[x]]
    BY <1>1, <1>2, <2>1, <2>2 DEF Given
  <2>4. g.id = r.id /\ g.todo = r.todo /\ g.at = r.at /\ g.done = r.done
    BY <1>1, <1>2, <2>1, <2>2 DEF Given
  <2>5. g = r
    BY <1>1, <2>3, <2>4, SameFunction
  <2> QED
    BY <2>1, <2>2, <2>5
<1>4. [f EXCEPT !.at = i] = [id |-> f.id, todo |-> f.todo, at |-> i, done |-> f.done]
  <2>1. PICK g : g = [f EXCEPT !.at = i]
    OBVIOUS
  <2>2. PICK r : r = [id |-> f.id, todo |-> f.todo, at |-> i, done |-> f.done]
    OBVIOUS
  <2>3. g = [x \in D |-> g[x]] /\ r = [x \in D |-> r[x]]
    BY <1>1, <1>2, <2>1, <2>2
  <2>4. g.id = r.id /\ g.todo = r.todo /\ g.at = r.at /\ g.done = r.done
    BY <1>1, <1>2, <2>1, <2>2
  <2>5. g = r
    BY <1>1, <2>3, <2>4, SameFunction
  <2> QED
    BY <2>1, <2>2, <2>5
<1> QED
  BY <1>3, <1>4

LEMMA MadeForGrows ==
    ASSUME NEW u, NEW id, NEW i, NEW v, NEW m, NEW a, NEW m2, NEW a2,
           MadeFor(u, id, i, v, m, a), TablesGrow(m, a, m2, a2)
    PROVE  MadeFor(u, id, i, v, m2, a2)
BY DEF MadeFor, TablesGrow

LEMMA MakingGrows ==
    ASSUME NEW u, NEW m, NEW a, NEW m2, NEW a2, TablesGrow(m, a, m2, a2)
    PROVE  /\ \A f : CallFits(u, m, a, f) => CallFits(u, m2, a2, f)
           /\ \A id \in DOMAIN m : NodeFits(u, m, a, id) => NodeFits(u, m2, a2, id)
<1>1. ASSUME NEW f, CallFits(u, m, a, f) PROVE CallFits(u, m2, a2, f)
  <2>1. \A i \in DOMAIN f.done : MadeFor(u, f.id, i, f.done[i], m2, a2)
    BY <1>1, MadeForGrows DEF CallFits
  <2> QED
    BY <1>1, <2>1 DEF CallFits
<1>2. ASSUME NEW id \in DOMAIN m, NodeFits(u, m, a, id) PROVE NodeFits(u, m2, a2, id)
  <2>1. m2[id] = m[id]
    BY DEF TablesGrow
  <2>2. \A i \in DOMAIN Kids(u, id) : MadeFor(u, id, i, m[id].fields[i], m2, a2)
    BY <1>2, MadeForGrows DEF NodeFits
  <2> QED
    BY <1>2, <2>1, <2>2 DEF NodeFits
<1> QED
  BY <1>1, <1>2

LEMMA RowGraphLaws ==
    ASSUME NEW u, IsUnit(u)
    PROVE  /\ DOMAIN RowGraph(u) = DOMAIN u.rows
           /\ \A id \in DOMAIN u.rows :
                /\ Successors(RowGraph(u), id) = { Kids(u, id)[i] : i \in DOMAIN Kids(u, id) }
                /\ \A i \in DOMAIN Kids(u, id) :
                     /\ Kids(u, id)[i] \in DOMAIN u.rows
                     /\ Kids(u, id)[i] \in Successors(RowGraph(u), id)
<1>1. \A id \in DOMAIN u.rows : RowGraph(u)[id] = Kids(u, id)
  BY DEF RowGraph, Graph, Kids
<1>2. DOMAIN RowGraph(u) = DOMAIN u.rows
  BY DEF RowGraph, Graph
<1>3. \A id \in DOMAIN u.rows :
        Successors(RowGraph(u), id) = { Kids(u, id)[i] : i \in DOMAIN Kids(u, id) }
  BY <1>1 DEF Successors
<1>4. ASSUME NEW id \in DOMAIN u.rows, NEW i \in DOMAIN Kids(u, id)
      PROVE  Kids(u, id)[i] \in DOMAIN u.rows
  <2>1. Kids(u, id) \in Seq(DOMAIN u.rows)
    BY DEF IsUnit
  <2> QED
    BY <2>1
<1> QED
  BY <1>2, <1>3, <1>4

LEMMA ReachableLaws ==
    ASSUME NEW g, NEW r \in DOMAIN g
    PROVE  /\ r \in Reachable(g, r) /\ Reachable(g, r) \subseteq DOMAIN g
           /\ \A o \in Reachable(g, r) : \A c \in Successors(g, o) :
                c \in DOMAIN g => c \in Reachable(g, r)
           /\ \A S \in SUBSET DOMAIN g :
                r \in S /\ Closed(g, S) => Reachable(g, r) \subseteq S
BY DEF Reachable, Closed

(* A reference to a row that is being made closes a cycle.                 *)
LEMMA MetActive ==
    ASSUME NEW u, IsUnit(u), NEW m, NEW a, NEW s, Making(u, m, a, s), s # <<>>,
           NEW i \in s[Len(s)].todo, Kids(u, s[Len(s)].id)[i] \in a
    PROVE  MadeFor(u, s[Len(s)].id, i, Ref(Kids(u, s[Len(s)].id)[i]), m, a)
<1>1. Len(s) \in Nat \ {0}
  BY SeqLaws DEF Making
<1>2. PICK g : g = RowGraph(u)
  OBVIOUS
<1>3. PICK c : c = Kids(u, s[Len(s)].id)[i]
  OBVIOUS
<1>4. PICK b \in 1 .. Len(s) : s[b].id = c
  BY <1>3 DEF Making
<1>5. \A k \in 1 .. Len(s) : /\ s[k].id \in DOMAIN u.rows
                             /\ s[k].todo \subseteq DOMAIN Kids(u, s[k].id)
  BY DEF Making, CallFits
<1>6. \A k \in 1 .. Len(s) - 1 :
        s[k + 1].id \in Successors(g, s[k].id) /\ s[k + 1].id \in DOMAIN g
  <2>1. ASSUME NEW k \in 1 .. Len(s) - 1
        PROVE  s[k + 1].id \in Successors(g, s[k].id) /\ s[k + 1].id \in DOMAIN g
    <3>1. k \in 1 .. Len(s)
      BY <1>1
    <3>2. s[k].at \in DOMAIN Kids(u, s[k].id) /\ s[k + 1].id = Kids(u, s[k].id)[s[k].at]
      BY <1>5, <3>1 DEF Making
    <3>3. s[k].id \in DOMAIN u.rows
      BY <1>5, <3>1
    <3> QED
      BY <1>2, <3>2, <3>3, RowGraphLaws
  <2> QED
    BY <2>1
<1>7. c \in Successors(g, s[Len(s)].id) /\ c \in DOMAIN g
  <2>1. Len(s) \in 1 .. Len(s)
    BY <1>1
  <2>2. s[Len(s)].id \in DOMAIN u.rows /\ i \in DOMAIN Kids(u, s[Len(s)].id)
    BY <1>5, <2>1
  <2> QED
    BY <1>2, <1>3, <2>2, RowGraphLaws
<1>8. s[Len(s)].id \in Reachable(g, c)
  <2> DEFINE K == { k \in Nat : b + k <= Len(s) => s[b + k].id \in Reachable(g, c) }
  <2>1. 0 \in K
    BY <1>4, <1>7, ReachableLaws
  <2>2. ASSUME NEW k \in Nat, k \in K PROVE k + 1 \in K
    <3> SUFFICES ASSUME b + (k + 1) <= Len(s)
                 PROVE  s[b + (k + 1)].id \in Reachable(g, c)
      OBVIOUS
    <3>1. b + k \in 1 .. Len(s) - 1 /\ b + k <= Len(s) /\ b + (k + 1) = (b + k) + 1
      BY <1>1
    <3>2. s[b + k].id \in Reachable(g, c)
      BY <2>2, <3>1
    <3>3. s[(b + k) + 1].id \in Successors(g, s[b + k].id) /\ s[(b + k) + 1].id \in DOMAIN g
      BY <1>6, <3>1
    <3> QED
      BY <1>7, <3>1, <3>2, <3>3, ReachableLaws
  <2> HIDE DEF K
  <2>3. Nat \subseteq K
    BY <2>1, <2>2, Climb
  <2>4. Len(s) - b \in Nat /\ b + (Len(s) - b) = Len(s)
    BY <1>1
  <2> QED
    BY <1>1, <2>3, <2>4 DEF K
<1>9. ~ Acyclic(g)
  <2>1. PICK S : S = { s[k].id : k \in b .. Len(s) }
    OBVIOUS
  <2>2. \A k \in b .. Len(s) :
          /\ k \in 1 .. Len(s)
          /\ k # Len(s) => k \in 1 .. Len(s) - 1 /\ k + 1 \in b .. Len(s)
    BY <1>1
  <2>3. b \in b .. Len(s)
    BY <1>1
  <2>4. S \in SUBSET DOMAIN g /\ S # {} /\ c \in S
    BY <1>2, <1>4, <1>5, <2>1, <2>2, <2>3, RowGraphLaws
  <2>5. ASSUME NEW x \in S PROVE Successors(g, x) \cap S # {}
    <3>1. PICK k \in b .. Len(s) : x = s[k].id
      BY <2>1
    <3>2. CASE k = Len(s)
      BY <1>7, <2>4, <3>1, <3>2
    <3>3. CASE k # Len(s)
      BY <1>6, <2>1, <2>2, <3>1, <3>3
    <3> QED
      BY <3>2, <3>3
  <2> QED
    BY <2>4, <2>5 DEF Acyclic, Sinkless
<1> QED
  BY <1>2, <1>3, <1>8, <1>9 DEF MadeFor

LEMMA NewCallFits ==
    ASSUME NEW u, NEW m, NEW a, NEW id \in DOMAIN u.rows
    PROVE  CallFits(u, m, a, NewCall(u, id)) /\ NewCall(u, id).id = id
BY EmptyTable DEF CallFits, NewCall

LEMMA MakingStarts ==
    ASSUME NEW u, NEW m, Making(u, m, {}, <<>>), NEW id \in DOMAIN u.rows, id \notin DOMAIN m
    PROVE  Making(u, m, {id}, <<NewCall(u, id)>>)
<1>1. PICK s : s = <<NewCall(u, id)>>
  OBVIOUS
<1>2. IsSeq(s) /\ Len(s) = 1 /\ s[1] = NewCall(u, id)
  BY <1>1, OneCall
<1>3. 1 .. Len(s) = {1} /\ 1 .. Len(s) - 1 = {}
  BY <1>2
<1>4. CallFits(u, m, {id}, s[1]) /\ s[1].id = id
  BY <1>2, NewCallFits
<1>5. AllMade(u, m, {id})
  <2>1. TablesGrow(m, {}, m, {id})
    BY DEF TablesGrow
  <2> QED
    BY <2>1, MakingGrows DEF Making, AllMade
<1>6. Layered(m)
  BY DEF Making
<1>7. {id} = { s[k].id : k \in 1 .. Len(s) } /\ {id} \cap DOMAIN m = {}
  BY <1>3, <1>4
<1>8. \A j, k \in 1 .. Len(s) : s[j].id = s[k].id => j = k
  BY <1>3
<1>9. \A k \in 1 .. Len(s) : CallFits(u, m, {id}, s[k])
  BY <1>3, <1>4
<1>10. Making(u, m, {id}, s)
  BY <1>2, <1>3, <1>5, <1>6, <1>7, <1>8, <1>9 DEF Making
<1> QED
  BY <1>1, <1>10

(* The top call is given a value for its i-th field, or calls for it.      *)
GivesTop(u, m, a, s, i, v, t) ==
    /\ s # <<>> /\ i \in s[Len(s)].todo
    /\ MadeFor(u, s[Len(s)].id, i, v, m, a)
    /\ Replaces(s, t, Given(s[Len(s)], i, v))

CallsFor(u, m, a, s, i, id, t) ==
    /\ s # <<>> /\ i \in s[Len(s)].todo
    /\ id = Kids(u, s[Len(s)].id)[i] /\ id \notin a /\ id \notin DOMAIN m
    /\ Adds(s, t, [s[Len(s)] EXCEPT !.at = i], NewCall(u, id))

SameIds(s, t) == \A k \in 1 .. Len(s) : t[k].id = s[k].id

LEMMA MakingGives ==
    ASSUME NEW u, NEW m, NEW a, NEW s, Making(u, m, a, s),
           NEW i, NEW v, NEW t, GivesTop(u, m, a, s, i, v, t)
    PROVE  Making(u, m, a, t) /\ SameIds(s, t)
<1> USE DEF GivesTop, SameIds
<1>1. Len(s) \in Nat \ {0} /\ Len(t) = Len(s) /\ IsSeq(t)
  BY SeqLaws DEF Making, Replaces
<1>2. PICK n : n = Len(s)
  OBVIOUS
<1>3. PICK f : f = s[n]
  OBVIOUS
<1>4. CallFits(u, m, a, f)
  BY <1>1, <1>2, <1>3 DEF Making
<1>5. t[n] = [id |-> f.id, todo |-> f.todo \ {i}, at |-> 0, done |-> Put(f.done, i, v)]
  <2>1. t[n] = Given(f, i, v)
    BY <1>2, <1>3 DEF Replaces
  <2>2. f = [id |-> f.id, todo |-> f.todo, at |-> f.at, done |-> f.done]
    BY <1>4 DEF CallFits
  <2> QED
    BY <2>1, <2>2, GivenLaws
<1>6. \A k \in 1 .. n - 1 : t[k] = s[k]
  BY <1>2 DEF Replaces
<1>7. CallFits(u, m, a, t[n]) /\ t[n].id = s[n].id
  <2>1. /\ t[n].id = f.id /\ t[n].todo = f.todo \ {i} /\ t[n].at = 0
        /\ t[n].done = Put(f.done, i, v)
    BY <1>5
  <2>2. i \in DOMAIN Kids(u, f.id)
    BY <1>2, <1>3, <1>4 DEF CallFits
  <2>3. ASSUME NEW j \in DOMAIN f.done \cup {i}
        PROVE  MadeFor(u, f.id, j, Put(f.done, i, v)[j], m, a)
    <3>1. PICK p : p = Put(f.done, i, v)
      OBVIOUS
    <3>2. p[i] = v /\ \A x \in DOMAIN f.done : x # i => p[x] = f.done[x]
      BY <3>1 DEF Put
    <3>3. CASE j = i
      BY <1>2, <1>3, <3>1, <3>2, <3>3
    <3>4. CASE j # i
      BY <1>4, <3>1, <3>2, <3>4 DEF CallFits
    <3> QED
      BY <3>3, <3>4
  <2>4. DOMAIN Put(f.done, i, v) = DOMAIN f.done \cup {i}
    BY PutLaws
  <2>5. DOMAIN t[n].done = DOMAIN Kids(u, f.id) \ t[n].todo
    BY <1>4, <2>1, <2>2, <2>4 DEF CallFits
  <2>6. t[n] = [id |-> t[n].id, todo |-> t[n].todo, at |-> t[n].at, done |-> t[n].done]
    BY <1>5, <2>1
  <2>7. \A j \in DOMAIN t[n].done : MadeFor(u, t[n].id, j, t[n].done[j], m, a)
    BY <2>1, <2>3, <2>4
  <2>8. t[n].id \in DOMAIN u.rows /\ t[n].todo \subseteq DOMAIN Kids(u, t[n].id)
    BY <1>4, <2>1 DEF CallFits
  <2> QED
    BY <1>3, <2>1, <2>5, <2>6, <2>7, <2>8 DEF CallFits
<1>8. \A k \in 1 .. n : t[k].id = s[k].id
  BY <1>1, <1>2, <1>6, <1>7
<1>9. \A k \in 1 .. n : CallFits(u, m, a, t[k])
  BY <1>1, <1>2, <1>6, <1>7 DEF Making
<1>10. \A k \in 1 .. n - 1 : t[k].at \in t[k].todo /\ t[k + 1].id = Kids(u, t[k].id)[t[k].at]
  <2>1. ASSUME NEW k \in 1 .. n - 1
        PROVE  t[k].at \in t[k].todo /\ t[k + 1].id = Kids(u, t[k].id)[t[k].at]
    <3>1. k + 1 \in 1 .. n
      BY <1>1, <1>2
    <3>2. t[k] = s[k] /\ t[k + 1].id = s[k + 1].id
      BY <1>6, <1>8, <3>1
    <3> QED
      BY <1>2, <3>2 DEF Making
  <2> QED
    BY <2>1
<1>11. \A j, k \in 1 .. n : t[j].id = t[k].id => j = k
  BY <1>2, <1>8 DEF Making
<1>12. a = { t[k].id : k \in 1 .. n }
  BY <1>2, <1>8 DEF Making
<1> QED
  BY <1>1, <1>2, <1>8, <1>9, <1>10, <1>11, <1>12 DEF Making

LEMMA MakingCalls ==
    ASSUME NEW u, IsUnit(u), NEW m, NEW a, NEW s, Making(u, m, a, s),
           NEW i, NEW id, NEW t, CallsFor(u, m, a, s, i, id, t)
    PROVE  Making(u, m, a \cup {id}, t) /\ SameIds(s, t)
<1> USE DEF CallsFor, SameIds
<1>1. Len(s) \in Nat \ {0} /\ Len(t) = Len(s) + 1 /\ IsSeq(t)
  BY SeqLaws DEF Making, Adds
<1>2. PICK n : n = Len(s)
  OBVIOUS
<1>3. PICK f : f = s[n]
  OBVIOUS
<1>4. PICK b : b = a \cup {id}
  OBVIOUS
<1>5. \A g : CallFits(u, m, a, g) => CallFits(u, m, b, g)
  <2>1. TablesGrow(m, a, m, b)
    BY <1>4 DEF TablesGrow
  <2> QED
    BY <2>1, MakingGrows
<1>6. AllMade(u, m, b)
  <2>1. TablesGrow(m, a, m, b)
    BY <1>4 DEF TablesGrow
  <2> QED
    BY <2>1, MakingGrows DEF Making, AllMade
<1>7. CallFits(u, m, b, f)
  BY <1>1, <1>2, <1>3, <1>5 DEF Making
<1>8. t[n] = [id |-> f.id, todo |-> f.todo, at |-> i, done |-> f.done]
  BY <1>2, <1>3, <1>7, GivenLaws DEF CallFits, Adds
<1>9. t[n].id = f.id /\ t[n].todo = f.todo /\ t[n].at = i /\ t[n].done = f.done
  BY <1>8
<1>10. CallFits(u, m, b, t[n])
  BY <1>7, <1>8, <1>9 DEF CallFits
<1>11. id \in DOMAIN u.rows
  <2>1. f.id \in DOMAIN u.rows /\ i \in DOMAIN Kids(u, f.id)
    BY <1>2, <1>3, <1>7 DEF CallFits
  <2> QED
    BY <1>2, <1>3, <2>1, RowGraphLaws
<1>12. t[n + 1] = NewCall(u, id) /\ t[n + 1].id = id /\ CallFits(u, m, b, t[n + 1])
  <2>1. t[n + 1] = NewCall(u, id)
    BY <1>2 DEF Adds
  <2> QED
    <3>1. CallFits(u, m, b, NewCall(u, id)) /\ NewCall(u, id).id = id
      BY <1>11, NewCallFits
    <3> QED
      BY <2>1, <3>1, Zenon
<1>13. \A k \in 1 .. n - 1 : t[k] = s[k]
  BY <1>2 DEF Adds
<1>14. \A k \in 1 .. n : t[k].id = s[k].id
  BY <1>1, <1>2, <1>3, <1>9, <1>13
<1>15. \A k \in 1 .. n + 1 : CallFits(u, m, b, t[k])
  <2>1. ASSUME NEW k \in 1 .. n + 1 PROVE CallFits(u, m, b, t[k])
    <3>1. k \in 1 .. n - 1 \/ k = n \/ k = n + 1
      BY <1>1, <1>2
    <3>2. CASE k \in 1 .. n - 1
      <4>1. k \in 1 .. n
        BY <1>1, <1>2, <3>2
      <4> QED
        BY <1>2, <1>5, <1>13, <3>2, <4>1 DEF Making
    <3> QED
      BY <1>10, <1>12, <3>1, <3>2
  <2> QED
    BY <2>1
<1>16. \A k \in 1 .. n : t[k].at \in t[k].todo /\ t[k + 1].id = Kids(u, t[k].id)[t[k].at]
  <2>1. ASSUME NEW k \in 1 .. n
        PROVE  t[k].at \in t[k].todo /\ t[k + 1].id = Kids(u, t[k].id)[t[k].at]
    <3>1. CASE k = n
      BY <1>2, <1>3, <1>9, <1>12, <3>1
    <3>2. CASE k # n
      <4>1. k \in 1 .. n - 1 /\ k + 1 \in 1 .. n
        BY <1>1, <1>2, <3>2
      <4>2. t[k] = s[k] /\ t[k + 1].id = s[k + 1].id
        BY <1>13, <1>14, <4>1
      <4> QED
        BY <1>2, <4>1, <4>2 DEF Making
    <3> QED
      BY <3>1, <3>2
  <2> QED
    BY <2>1
<1>17. b = { t[k].id : k \in 1 .. n + 1 }
  <2>1. a = { s[k].id : k \in 1 .. n }
    BY <1>2 DEF Making
  <2>2. 1 .. n + 1 = (1 .. n) \cup {n + 1}
    BY <1>1, <1>2
  <2> QED
    BY <1>4, <1>12, <1>14, <2>1, <2>2
<1>18. \A j, k \in 1 .. n + 1 : t[j].id = t[k].id => j = k
  <2>1. \A k \in 1 .. n : t[k].id \in a
    BY <1>2, <1>14 DEF Making
  <2>2. \A j, k \in 1 .. n : t[j].id = t[k].id => j = k
    BY <1>2, <1>14 DEF Making
  <2>3. \A k \in 1 .. n + 1 : k \in 1 .. n \/ k = n + 1
    BY <1>1, <1>2
  <2> QED
    BY <1>12, <2>1, <2>2, <2>3
<1>19. b \cap DOMAIN m = {} /\ Layered(m)
  BY <1>4 DEF Making
<1>20. Len(t) = n + 1 /\ Len(t) - 1 = n
  BY <1>1, <1>2
<1>21. Making(u, m, b, t)
  BY <1>1, <1>6, <1>15, <1>16, <1>17, <1>18, <1>19, <1>20 DEF Making
<1>22. SameIds(s, t)
  BY <1>2, <1>14
<1> QED
  BY <1>4, <1>21, <1>22

(* The nodes in a made node are made nodes themselves.                     *)
LEMMA ChildrenMade ==
    ASSUME NEW u, NEW m, NEW a, NEW id, NEW node, FieldsFit(u, id, node.fields, m, a)
    PROVE  HoldsMade(node, m)
<1>1. ASSUME NEW x \in Children(node)
      PROVE  \E c \in DOMAIN m : x = m[c]
  <2>1. PICK i \in DOMAIN node.fields : x = node.fields[i] /\ IsNode(node.fields[i])
    BY DEF Children
  <2>2. MadeFor(u, id, i, x, m, a)
    BY <2>1 DEF FieldsFit
  <2>3. x # Ref(Kids(u, id)[i])
    BY <2>1, NodeOrRef
  <2> QED
    BY <2>2, <2>3 DEF MadeFor
<1> QED
  BY <1>1 DEF HoldsMade

LEMMA MadeChildren ==
    ASSUME NEW u, NEW m, NEW a, AllMade(u, m, a)
    PROVE  \A id \in DOMAIN m :
             /\ m[id].id = id /\ IsNode(m[id]) /\ IdOf(m[id]) = id
             /\ HoldsMade(m[id], m)
<1>1. ASSUME NEW id \in DOMAIN m
      PROVE  /\ m[id].id = id /\ IsNode(m[id]) /\ IdOf(m[id]) = id
             /\ HoldsMade(m[id], m)
  <2>1. NodeFits(u, m, a, id)
    BY DEF AllMade
  <2>2. FieldsFit(u, id, m[id].fields, m, a)
    <3>1. DOMAIN m[id].fields = DOMAIN Kids(u, id)
      BY <2>1 DEF NodeFits
    <3> QED
      BY <2>1, <3>1 DEF NodeFits, FieldsFit
  <2>3. HoldsMade(m[id], m)
    BY <2>2, ChildrenMade
  <2>4. m[id] = [id |-> id, kind |-> u.rows[id].kind, text |-> u.rows[id].text,
                 fields |-> m[id].fields]
    BY <2>1 DEF NodeFits
  <2> QED
    BY <2>3, <2>4, NodeOrRef
<1> QED
  BY <1>1

LEMMA LayeredGrows ==
    ASSUME NEW m, NEW x, x \notin DOMAIN m, NEW node, node.id = x,
           Layered(m),
           \A id \in DOMAIN m : m[id].id = id /\ HoldsMade(m[id], m),
           HoldsMade(node, m), NEW m2, Puts(m, x, node, m2)
    PROVE  Layered(m2)
<1>2. DOMAIN m2 = DOMAIN m \cup {x} /\ m2[x] = node /\ \A y \in DOMAIN m : m2[y] = m[y]
  BY DEF Puts
<1>3. \A y \in DOMAIN m : m2[x] \notin Children(m2[y])
  BY <1>2 DEF HoldsMade
<1>4. m2[x] \notin Children(m2[x])
  BY <1>2 DEF HoldsMade
<1>5. ASSUME NEW S \in SUBSET DOMAIN m2, S # {}
      PROVE  \E id \in S : \A child \in S : m2[child] \notin Children(m2[id])
  <2>1. CASE S \ {x} = {}
    BY <1>4, <1>5, <2>1
  <2>2. CASE S \ {x} # {}
    <3>1. S \ {x} \in SUBSET DOMAIN m
      BY <1>2
    <3>2. PICK id \in S \ {x} : \A child \in S \ {x} : m[child] \notin Children(m[id])
      BY <2>2, <3>1 DEF Layered
    <3>3. \A child \in S \ {x} : m2[child] \notin Children(m2[id])
      BY <1>2, <3>1, <3>2
    <3> QED
      BY <1>3, <3>1, <3>3
  <2> QED
    BY <2>1, <2>2
<1> QED
  BY <1>5 DEF Layered

(* The top call has made its node.                                         *)
EndsTop(u, m, a, s, node, m2, a2) ==
    /\ s # <<>> /\ s[Len(s)].todo = {}
    /\ node = MadeOf(u, s[Len(s)])
    /\ Puts(m, node.id, node, m2)
    /\ \A x : x \in a2 <=> x \in a /\ x # node.id

LEMMA MakingEnds ==
    ASSUME NEW u, NEW m, NEW a, NEW s, Making(u, m, a, s),
           NEW node, NEW m2, NEW a2, EndsTop(u, m, a, s, node, m2, a2),
           NEW q, IsSeq(q), Len(q) = Len(s) - 1, \A k \in 1 .. Len(s) - 1 : q[k] = s[k]
    PROVE  /\ Making(u, m2, a2, q)
           /\ node.id = s[Len(s)].id /\ IsNode(node)
<1> USE DEF EndsTop
<1>1. PICK n \in Nat \ {0} : n = Len(s)
  BY SeqLaws DEF Making
<1>2. PICK f : f = s[n]
  OBVIOUS
<1>3. n \in 1 .. n /\ \A k \in 1 .. n - 1 : k \in 1 .. n /\ k # n
  BY <1>1
<1>4. CallFits(u, m, a, f) /\ f.id \in a
  BY <1>1, <1>2, <1>3 DEF Making
<1>5. PICK id : id = f.id
  OBVIOUS
<1>6. PICK fields : fields = [i \in DOMAIN Kids(u, id) |-> f.done[i]]
  OBVIOUS
<1>7. node = [id |-> id, kind |-> u.rows[id].kind, text |-> u.rows[id].text, fields |-> fields]
  BY <1>1, <1>2, <1>5, <1>6 DEF MadeOf
<1>8. node.id = id /\ node.fields = fields
  BY <1>7
<1>9. id \notin DOMAIN m /\ id \in DOMAIN u.rows
  BY <1>4, <1>5 DEF Making, CallFits
<1>10. FieldsFit(u, id, fields, m, a)
  <2>1. DOMAIN f.done = DOMAIN Kids(u, id) /\ DOMAIN fields = DOMAIN Kids(u, id)
    BY <1>1, <1>2, <1>4, <1>5, <1>6 DEF CallFits
  <2>2. \A i \in DOMAIN Kids(u, id) : MadeFor(u, id, i, f.done[i], m, a) /\ fields[i] = f.done[i]
    BY <1>4, <1>5, <1>6, <2>1 DEF CallFits
  <2> QED
    BY <2>1, <2>2 DEF FieldsFit
<1>11. /\ DOMAIN m2 = DOMAIN m \cup {id} /\ m2[id] = node
       /\ \A x \in DOMAIN m : m2[x] = m[x]
  BY <1>8 DEF Puts
<1>12. TablesGrow(m, a, m2, a2)
  BY <1>8, <1>11 DEF TablesGrow
<1>13. NodeFits(u, m2, a2, id)
  <2>1. \A i \in DOMAIN Kids(u, id) : MadeFor(u, id, i, fields[i], m2, a2)
    BY <1>10, <1>12, MadeForGrows DEF FieldsFit
  <2> QED
    BY <1>6, <1>7, <1>8, <1>9, <1>11, <2>1 DEF NodeFits
<1>14. AllMade(u, m, a)
  BY DEF Making
<1>15. AllMade(u, m2, a2)
  <2>1. ASSUME NEW x \in DOMAIN m PROVE NodeFits(u, m2, a2, x)
    <3>1. NodeFits(u, m, a, x)
      BY <1>14 DEF AllMade
    <3> QED
      BY <1>12, <3>1, MakingGrows
  <2> QED
    BY <1>11, <1>13, <2>1 DEF AllMade
<1>16. Layered(m2)
  <2>1. \A x \in DOMAIN m : m[x].id = x /\ HoldsMade(m[x], m)
    BY <1>14, MadeChildren
  <2>2. HoldsMade(node, m)
    BY <1>8, <1>10, ChildrenMade
  <2>3. Layered(m)
    BY DEF Making
  <2>4. Puts(m, id, node, m2)
    BY <1>8
  <2> QED
    BY <1>8, <1>9, <2>1, <2>2, <2>3, <2>4, LayeredGrows
<1>17. \A k \in 1 .. n - 1 : CallFits(u, m2, a2, q[k])
  <2>1. ASSUME NEW k \in 1 .. n - 1 PROVE CallFits(u, m2, a2, q[k])
    <3>1. CallFits(u, m, a, s[k])
      BY <1>1, <1>3 DEF Making
    <3>2. CallFits(u, m2, a2, s[k])
      BY <1>12, <3>1, MakingGrows
    <3> QED
      BY <1>1, <3>2
  <2> QED
    BY <2>1
<1>18. \A j, k \in 1 .. n - 1 : q[j].id = q[k].id => j = k
  <2>1. ASSUME NEW j \in 1 .. n - 1, NEW k \in 1 .. n - 1, q[j].id = q[k].id PROVE j = k
    <3>1. s[j].id = s[k].id /\ j \in 1 .. n /\ k \in 1 .. n
      BY <1>1, <1>3, <2>1
    <3> QED
      BY <1>1, <3>1 DEF Making
  <2> QED
    BY <2>1
<1>19. \A k \in 1 .. (n - 1) - 1 :
         q[k].at \in q[k].todo /\ q[k + 1].id = Kids(u, q[k].id)[q[k].at]
  <2>1. ASSUME NEW k \in 1 .. (n - 1) - 1
        PROVE  q[k].at \in q[k].todo /\ q[k + 1].id = Kids(u, q[k].id)[q[k].at]
    <3>1. k \in 1 .. Len(s) - 1 /\ k + 1 \in 1 .. Len(s) - 1
      BY <1>1
    <3>2. q[k] = s[k] /\ q[k + 1] = s[k + 1]
      BY <3>1
    <3>3. s[k].at \in s[k].todo /\ s[k + 1].id = Kids(u, s[k].id)[s[k].at]
      BY <3>1 DEF Making
    <3> QED
      BY <3>2, <3>3
  <2> QED
    BY <2>1
<1>20. a2 = { q[k].id : k \in 1 .. n - 1 }
  <2>1. a = { s[k].id : k \in 1 .. n }
    BY <1>1 DEF Making
  <2>2. \A k \in 1 .. n - 1 : s[k].id # id
    BY <1>1, <1>2, <1>3, <1>5 DEF Making
  <2>3. \A k \in 1 .. n : k \in 1 .. n - 1 \/ k = n
    BY <1>1
  <2>4. \A x : x \in a2 <=> x \in a /\ x # id
    BY <1>8
  <2>5. ASSUME NEW x \in a2 PROVE \E k \in 1 .. n - 1 : x = q[k].id
    <3>1. PICK k \in 1 .. n : x = s[k].id
      BY <2>1, <2>4, <2>5
    <3>2. k # n
      BY <1>2, <1>5, <2>4, <2>5, <3>1
    <3>3. k \in 1 .. n - 1 /\ q[k] = s[k]
      BY <1>1, <2>3, <3>1, <3>2
    <3> QED
      BY <3>1, <3>3
  <2>6. ASSUME NEW k \in 1 .. n - 1 PROVE q[k].id \in a2
    <3>1. q[k] = s[k] /\ k \in 1 .. n
      BY <1>1, <1>3
    <3> QED
      BY <2>1, <2>2, <2>4, <3>1
  <2> QED
    BY <2>5, <2>6
<1>21. a2 \cap DOMAIN m2 = {}
  BY <1>8, <1>11 DEF Making
<1>22. Len(q) = n - 1
  BY <1>1
<1>23. Making(u, m2, a2, q)
  BY <1>15, <1>16, <1>17, <1>18, <1>19, <1>20, <1>21, <1>22 DEF Making
<1>24. IsNode(node)
  BY <1>7, NodeOrRef
<1> QED
  BY <1>1, <1>2, <1>5, <1>8, <1>23, <1>24

LEMMA MakingReturns ==
    ASSUME NEW u, NEW m, NEW a, NEW s, Making(u, m, a, s),
           NEW node, NEW m2, NEW a2, EndsTop(u, m, a, s, node, m2, a2)
    PROVE  /\ node.id = s[Len(s)].id /\ IsNode(node)
           /\ Len(s) = 1 => Making(u, m2, a2, <<>>) /\ a2 = {}
           /\ \A t : Removes(s, t, Given(s[Len(s) - 1], s[Len(s) - 1].at, node))
                     => Making(u, m2, a2, t)
<1>1. IsSeq(s) /\ s # <<>>
  BY DEF Making, EndsTop
<1>2. PICK q : q = SubSeq(s, 1, Len(s) - 1)
  OBVIOUS
<1>3. /\ IsSeq(q) /\ Len(q) = Len(s) - 1 /\ Len(s) \in Nat \ {0}
      /\ \A k \in 1 .. Len(s) - 1 : q[k] = s[k]
  BY <1>1, <1>2, ShorterSeq
<1>4. Making(u, m2, a2, q) /\ node.id = s[Len(s)].id /\ IsNode(node)
  BY <1>3, MakingEnds
<1>5. ASSUME Len(s) = 1 PROVE Making(u, m2, a2, <<>>) /\ a2 = {}
  <2>1. q = <<>>
    BY <1>3, <1>5, SeqLaws
  <2>2. a2 = {}
    BY <1>3, <1>4, <1>5 DEF Making
  <2> QED
    BY <1>4, <2>1, <2>2
<1>6. ASSUME NEW t, Removes(s, t, Given(s[Len(s) - 1], s[Len(s) - 1].at, node))
      PROVE  Making(u, m2, a2, t)
  <2>1. PICK n \in Nat : n = Len(s) /\ n > 1
    BY <1>3, <1>6 DEF Removes
  <2>2. n - 1 \in 1 .. n - 1 /\ n - 1 \in 1 .. n /\ (n - 1) + 1 = n /\ Len(q) = n - 1
    BY <1>3, <2>1
  <2>3. q[n - 1] = s[n - 1] /\ q # <<>>
    BY <1>3, <2>1, <2>2, SeqLaws
  <2>4. s[n - 1].at \in s[n - 1].todo /\ s[n].id = Kids(u, s[n - 1].id)[s[n - 1].at]
    BY <2>1, <2>2 DEF Making
  <2>5. MadeFor(u, s[n - 1].id, s[n - 1].at, node, m2, a2)
    BY <1>4, <2>1, <2>4 DEF MadeFor, EndsTop, Puts
  <2>6. Replaces(q, t, Given(s[n - 1], s[n - 1].at, node))
    <3>1. \A k \in 1 .. (n - 1) - 1 : k \in 1 .. n - 2 /\ k \in 1 .. n - 1
      BY <2>1
    <3> QED
      BY <1>3, <1>6, <2>1, <2>2, <3>1 DEF Removes, Replaces
  <2>7. GivesTop(u, m2, a2, q, s[n - 1].at, node, t)
    BY <2>2, <2>3, <2>4, <2>5, <2>6 DEF GivesTop
  <2> QED
    BY <1>4, <2>7, MakingGives
<1> QED
  BY <1>4, <1>5, <1>6

-----------------------------------------------------------------------------
(* The kinds of children                                                   *)

IsChecked(u, id) == u.matches /\ u.rows[id].kind \in GoKinds

IsWrong(u, id, child) ==
    /\ u.rows[id].kind \in GoKinds
    /\ child \in Successors(RowGraph(u), id)
    /\ u.rows[child].kind \notin Holds[u.rows[id].kind]

FitsHolds(node) ==
    \A i \in DOMAIN node.fields :
        IsNode(node.fields[i]) => node.fields[i].kind \in Holds[node.kind]

(* No row outside "rest" has a wrong child that is not on a cycle.         *)
CheckedRight(u, rest) ==
    \A id \in DOMAIN u.rows \ rest :
        IsChecked(u, id) =>
            \A child \in DOMAIN u.rows :
                IsWrong(u, id, child) => id \in Reachable(RowGraph(u), child)

SomeWrong(u) == \E id, child \in DOMAIN u.rows : IsWrong(u, id, child)

(* The check of a made node is one of its row.                             *)
LEMMA NodeVerdict ==
    ASSUME NEW u, IsUnit(u), NEW m, NEW a, AllMade(u, m, a),
           NEW id \in DOMAIN m, IsChecked(u, id), NEW rest, CheckedRight(u, rest)
    PROVE  IF FitsHolds(m[id]) THEN CheckedRight(u, rest \ {id}) ELSE SomeWrong(u)
<1>1. NodeFits(u, m, a, id)
  BY DEF AllMade
<1>2. id \in DOMAIN u.rows /\ m[id].kind = u.rows[id].kind
      /\ DOMAIN m[id].fields = DOMAIN Kids(u, id)
  <2>1. /\ m[id] = [id |-> id, kind |-> u.rows[id].kind, text |-> u.rows[id].text,
                    fields |-> m[id].fields]
        /\ DOMAIN m[id].fields = DOMAIN Kids(u, id)
    BY <1>1 DEF NodeFits
  <2> QED
    BY <1>1, <2>1, NodeOrRef DEF NodeFits
<1>3. ASSUME NEW i \in DOMAIN Kids(u, id)
      PROVE  LET child == Kids(u, id)[i]
                 value == m[id].fields[i]
             IN /\ child \in DOMAIN u.rows /\ child \in Successors(RowGraph(u), id)
                /\ \/ IsNode(value) /\ value.kind = u.rows[child].kind
                   \/ ~ IsNode(value) /\ id \in Reachable(RowGraph(u), child)
  <2>1. PICK child : child = Kids(u, id)[i]
    OBVIOUS
  <2>2. PICK value : value = m[id].fields[i]
    OBVIOUS
  <2>3. child \in DOMAIN u.rows /\ child \in Successors(RowGraph(u), id)
    BY <1>2, <2>1, RowGraphLaws
  <2>4. MadeFor(u, id, i, value, m, a)
    BY <1>1, <2>2 DEF NodeFits
  <2>5. CASE child \in DOMAIN m /\ value = m[child]
    <3>1. m[child] = [id |-> child, kind |-> u.rows[child].kind,
                      text |-> u.rows[child].text, fields |-> m[child].fields]
      BY <2>5 DEF AllMade, NodeFits
    <3> QED
      BY <2>1, <2>2, <2>3, <2>5, <3>1, NodeOrRef
  <2>6. CASE value = Ref(child) /\ id \in Reachable(RowGraph(u), child)
    BY <2>1, <2>2, <2>3, <2>6, NodeOrRef
  <2> QED
    BY <2>1, <2>4, <2>5, <2>6 DEF MadeFor
<1>4. CASE FitsHolds(m[id])
  <2>1. ASSUME NEW child \in DOMAIN u.rows, IsWrong(u, id, child)
        PROVE  id \in Reachable(RowGraph(u), child)
    <3>1. PICK i \in DOMAIN Kids(u, id) : child = Kids(u, id)[i]
      BY <1>2, <2>1, RowGraphLaws DEF IsWrong
    <3>2. u.rows[child].kind \notin Holds[u.rows[id].kind]
      BY <2>1 DEF IsWrong
    <3>3. IsNode(m[id].fields[i]) => m[id].fields[i].kind \in Holds[u.rows[id].kind]
      BY <1>2, <1>4 DEF FitsHolds
    <3> QED
      BY <1>3, <3>1, <3>2, <3>3
  <2> QED
    BY <1>4, <2>1 DEF CheckedRight
<1>5. CASE ~ FitsHolds(m[id])
  <2>1. PICK i \in DOMAIN Kids(u, id) :
          IsNode(m[id].fields[i]) /\ m[id].fields[i].kind \notin Holds[u.rows[id].kind]
    BY <1>2, <1>5 DEF FitsHolds
  <2>2. PICK child : child = Kids(u, id)[i]
    OBVIOUS
  <2>3. /\ child \in DOMAIN u.rows /\ child \in Successors(RowGraph(u), id)
        /\ u.rows[child].kind \notin Holds[u.rows[id].kind]
    BY <1>3, <2>1, <2>2
  <2> QED
    BY <1>2, <1>5, <2>3 DEF SomeWrong, IsWrong, IsChecked
<1> QED
  BY <1>4, <1>5

-----------------------------------------------------------------------------
(* The tree of the root                                                    *)

(* The nodes that calls have so far are in T.                              *)
Delivered(s, T) ==
    \A k \in 1 .. Len(s) : \A i \in DOMAIN s[k].done :
        IsNode(s[k].done[i]) => s[k].done[i] \in T

(* No node is made for nothing.                                            *)
Covered(m, s) ==
    \A T : ClosedNodes(T) /\ Delivered(s, T) => \A id \in DOMAIN m : m[id] \in T

TreeMaking(u, m, s) ==
    LET below == Reachable(RowGraph(u), u.root)
    IN /\ s # <<>> /\ s[1].id = u.root
       /\ \A k \in 1 .. Len(s) : s[k].id \in below
       /\ DOMAIN m \subseteq below
       /\ Covered(m, s)

TreeMade(u, m) ==
    /\ u.root \in DOMAIN m
    /\ DOMAIN m \subseteq Reachable(RowGraph(u), u.root)
    /\ \A T : ClosedNodes(T) /\ m[u.root] \in T => \A id \in DOMAIN m : m[id] \in T

LEMMA TreeStarts ==
    ASSUME NEW u, IsUnit(u)
    PROVE  TreeMaking(u, <<>>, <<NewCall(u, u.root)>>)
<1>1. PICK s : s = <<NewCall(u, u.root)>>
  OBVIOUS
<1>2. Len(s) = 1 /\ s[1] = NewCall(u, u.root) /\ s # <<>>
  BY <1>1, OneCall
<1>3. s[1].id = u.root
  BY <1>2 DEF NewCall
<1>4. u.root \in Reachable(RowGraph(u), u.root)
  BY RowGraphLaws, ReachableLaws DEF IsUnit
<1>5. \A k \in 1 .. Len(s) : s[k].id = u.root
  BY <1>2, <1>3
<1>6. TreeMaking(u, <<>>, s)
  BY <1>2, <1>3, <1>4, <1>5, EmptyTable DEF TreeMaking, Covered
<1> QED
  BY <1>1, <1>6

LEMMA TreeGives ==
    ASSUME NEW u, NEW m, NEW a, NEW s, Making(u, m, a, s), TreeMaking(u, m, s),
           NEW i, NEW v, NEW t, GivesTop(u, m, a, s, i, v, t), SameIds(s, t)
    PROVE  TreeMaking(u, m, t)
<1> USE DEF GivesTop, SameIds
<1>1. PICK n \in Nat \ {0} : n = Len(s)
  BY SeqLaws DEF Making, TreeMaking
<1>2. PICK f : f = s[n]
  OBVIOUS
<1>3. CallFits(u, m, a, f)
  BY <1>1, <1>2 DEF Making
<1>4. t[n].done = Put(f.done, i, v)
  <2>1. t[n] = Given(f, i, v)
    BY <1>1, <1>2 DEF Replaces
  <2>2. f = [id |-> f.id, todo |-> f.todo, at |-> f.at, done |-> f.done]
    BY <1>3 DEF CallFits
  <2>3. t[n] = [id |-> f.id, todo |-> f.todo \ {i}, at |-> 0, done |-> Put(f.done, i, v)]
    BY <2>1, <2>2, GivenLaws
  <2> QED
    BY <2>3
<1>5. i \notin DOMAIN f.done
  BY <1>1, <1>2, <1>3 DEF CallFits
<1>6. \A j \in DOMAIN f.done : j \in DOMAIN t[n].done /\ t[n].done[j] = f.done[j]
  BY <1>4, <1>5 DEF Put
<1>7. \A k \in 1 .. n - 1 : t[k] = s[k]
  BY <1>1 DEF Replaces
<1>8. ASSUME NEW T, Delivered(t, T) PROVE Delivered(s, T)
  <2>1. ASSUME NEW k \in 1 .. n, NEW j \in DOMAIN s[k].done, IsNode(s[k].done[j])
        PROVE  s[k].done[j] \in T
    <3>1. j \in DOMAIN t[k].done /\ t[k].done[j] = s[k].done[j]
      <4>1. CASE k = n
        BY <1>2, <1>6, <2>1, <4>1
      <4>2. CASE k # n
        <5>1. k \in 1 .. n - 1
          BY <1>1, <4>2
        <5> QED
          BY <1>7, <2>1, <5>1
      <4> QED
        BY <4>1, <4>2
    <3>2. Len(t) = n
      BY <1>1 DEF Replaces
    <3> QED
      BY <1>8, <2>1, <3>1, <3>2 DEF Delivered
  <2> QED
    BY <1>1, <2>1 DEF Delivered
<1>9. Covered(m, t)
  BY <1>8 DEF TreeMaking, Covered
<1>10. Len(t) = n /\ t # <<>> /\ 1 \in 1 .. n
  BY <1>1, SeqLaws DEF Replaces
<1>11. t[1].id = u.root /\ \A k \in 1 .. Len(t) : t[k].id \in Reachable(RowGraph(u), u.root)
  BY <1>1, <1>10 DEF TreeMaking
<1> QED
  BY <1>9, <1>10, <1>11 DEF TreeMaking

LEMMA TreeCalls ==
    ASSUME NEW u, IsUnit(u), NEW m, NEW a, NEW s, Making(u, m, a, s), TreeMaking(u, m, s),
           NEW i, NEW id, NEW t, CallsFor(u, m, a, s, i, id, t), SameIds(s, t)
    PROVE  TreeMaking(u, m, t)
<1> USE DEF CallsFor, SameIds
<1>1. PICK n \in Nat \ {0} : n = Len(s)
  BY SeqLaws DEF Making, TreeMaking
<1>2. PICK f : f = s[n]
  OBVIOUS
<1>3. CallFits(u, m, a, f)
  BY <1>1, <1>2 DEF Making
<1>4. t[n].done = f.done
  <2>1. t[n] = [f EXCEPT !.at = i]
    BY <1>1, <1>2 DEF Adds
  <2>2. f = [id |-> f.id, todo |-> f.todo, at |-> f.at, done |-> f.done]
    BY <1>3 DEF CallFits
  <2>3. t[n] = [id |-> f.id, todo |-> f.todo, at |-> i, done |-> f.done]
    BY <2>1, <2>2, GivenLaws
  <2> QED
    BY <2>3
<1>5. Len(t) = n + 1 /\ t # <<>> /\ 1 \in 1 .. n
  BY <1>1, SeqLaws DEF Adds
<1>6. \A k \in 1 .. n - 1 : t[k] = s[k]
  BY <1>1 DEF Adds
<1>7. ASSUME NEW T, Delivered(t, T) PROVE Delivered(s, T)
  <2>1. ASSUME NEW k \in 1 .. n, NEW j \in DOMAIN s[k].done, IsNode(s[k].done[j])
        PROVE  s[k].done[j] \in T
    <3>1. t[k].done = s[k].done
      <4>1. CASE k = n
        BY <1>2, <1>4, <4>1
      <4>2. CASE k # n
        <5>1. k \in 1 .. n - 1
          BY <1>1, <4>2
        <5> QED
          BY <1>6, <5>1
      <4> QED
        BY <4>1, <4>2
    <3>2. k \in 1 .. Len(t)
      BY <1>1, <1>5
    <3> QED
      BY <1>7, <2>1, <3>1, <3>2 DEF Delivered
  <2> QED
    BY <1>1, <2>1 DEF Delivered
<1>8. Covered(m, t)
  BY <1>7 DEF TreeMaking, Covered
<1>9. id \in Reachable(RowGraph(u), u.root)
  <2>1. f.id \in DOMAIN u.rows /\ i \in DOMAIN Kids(u, f.id)
    BY <1>1, <1>2, <1>3 DEF CallFits
  <2>2. id \in Successors(RowGraph(u), f.id) /\ id \in DOMAIN RowGraph(u)
    BY <1>1, <1>2, <2>1, RowGraphLaws
  <2>3. f.id \in Reachable(RowGraph(u), u.root)
    <3>1. n \in 1 .. n
      BY <1>1
    <3> QED
      BY <1>1, <1>2, <3>1 DEF TreeMaking
  <2>4. u.root \in DOMAIN RowGraph(u)
    BY RowGraphLaws DEF IsUnit
  <2> QED
    BY <2>2, <2>3, <2>4, ReachableLaws
<1>10. t[n + 1].id = id
  <2>1. t[n + 1] = NewCall(u, id)
    BY <1>1 DEF Adds
  <2> QED
    BY <2>1 DEF NewCall
<1>11. \A k \in 1 .. n + 1 : t[k].id \in Reachable(RowGraph(u), u.root)
  <2>1. \A k \in 1 .. n : t[k].id \in Reachable(RowGraph(u), u.root)
    BY <1>1 DEF TreeMaking
  <2>2. \A k \in 1 .. n + 1 : k \in 1 .. n \/ k = n + 1
    BY <1>1
  <2> QED
    BY <1>9, <1>10, <2>1, <2>2
<1>12. t[1].id = u.root
  BY <1>1, <1>5 DEF TreeMaking
<1> QED
  BY <1>5, <1>8, <1>11, <1>12 DEF TreeMaking

(* What a call has so far is in the node it makes.                         *)
LEMMA MadeDelivers ==
    ASSUME NEW u, NEW m, NEW a, NEW s, Making(u, m, a, s), s # <<>>, s[Len(s)].todo = {},
           NEW node, node = MadeOf(u, s[Len(s)]),
           NEW T, ClosedNodes(T), node \in T
    PROVE  \A i \in DOMAIN s[Len(s)].done :
             IsNode(s[Len(s)].done[i]) => s[Len(s)].done[i] \in T
<1>1. PICK n \in Nat \ {0} : n = Len(s)
  BY SeqLaws DEF Making
<1>2. PICK f : f = s[n]
  OBVIOUS
<1>3. DOMAIN f.done = DOMAIN Kids(u, f.id)
  <2>1. n \in 1 .. n
    BY <1>1
  <2>2. CallFits(u, m, a, f)
    BY <1>1, <1>2, <2>1 DEF Making
  <2> QED
    BY <1>1, <1>2, <2>2 DEF CallFits
<1>4. PICK fields : fields = [i \in DOMAIN Kids(u, f.id) |-> f.done[i]]
  OBVIOUS
<1>5. node.fields = fields
  BY <1>1, <1>2, <1>4 DEF MadeOf
<1>6. ASSUME NEW i \in DOMAIN f.done, IsNode(f.done[i]) PROVE f.done[i] \in T
  <2>1. i \in DOMAIN fields /\ fields[i] = f.done[i]
    BY <1>3, <1>4
  <2>2. f.done[i] \in Children(node)
    BY <1>5, <1>6, <2>1 DEF Children
  <2> QED
    BY <2>2 DEF ClosedNodes, Nested
<1> QED
  BY <1>1, <1>2, <1>6

LEMMA TreeReturns ==
    ASSUME NEW u, NEW m, NEW a, NEW s, Making(u, m, a, s), TreeMaking(u, m, s),
           NEW node, NEW m2, NEW a2, EndsTop(u, m, a, s, node, m2, a2),
           NEW t, Removes(s, t, Given(s[Len(s) - 1], s[Len(s) - 1].at, node))
    PROVE  TreeMaking(u, m2, t)
<1>0. node.id = s[Len(s)].id /\ IsNode(node)
  BY MakingReturns
<1> USE DEF EndsTop
<1>1. PICK n \in Nat : n = Len(s) /\ n > 1
  BY SeqLaws DEF Making, Removes
<1>2. PICK f : f = s[n - 1]
  OBVIOUS
<1>3. n - 1 \in 1 .. n /\ n - 1 \in 1 .. n - 1 /\ n \in 1 .. n /\ (n - 1) + 1 = n
  BY <1>1
<1>4. CallFits(u, m, a, f) /\ f.at \in f.todo
  BY <1>1, <1>2, <1>3 DEF Making
<1>5. t[n - 1].done = Put(f.done, f.at, node) /\ t[n - 1].id = f.id
  <2>1. t[n - 1] = Given(f, f.at, node)
    BY <1>1, <1>2 DEF Removes
  <2>2. f = [id |-> f.id, todo |-> f.todo, at |-> f.at, done |-> f.done]
    BY <1>4 DEF CallFits
  <2>3. t[n - 1] = [id |-> f.id, todo |-> f.todo \ {f.at}, at |-> 0,
                    done |-> Put(f.done, f.at, node)]
    BY <2>1, <2>2, GivenLaws
  <2> QED
    BY <2>3
<1>6. f.at \notin DOMAIN f.done
  BY <1>4 DEF CallFits
<1>7. /\ f.at \in DOMAIN t[n - 1].done /\ t[n - 1].done[f.at] = node
      /\ \A j \in DOMAIN f.done : j \in DOMAIN t[n - 1].done /\ t[n - 1].done[j] = f.done[j]
  BY <1>5, <1>6 DEF Put
<1>8. \A k \in 1 .. n - 2 : t[k] = s[k]
  BY <1>1 DEF Removes
<1>9. Len(t) = n - 1
  BY <1>1 DEF Removes
<1>10. ASSUME NEW T, ClosedNodes(T), Delivered(t, T) PROVE Delivered(s, T) /\ node \in T
  <2>1. node \in T
    BY <1>0, <1>3, <1>7, <1>9, <1>10 DEF Delivered
  <2>2. ASSUME NEW k \in 1 .. n, NEW j \in DOMAIN s[k].done, IsNode(s[k].done[j])
        PROVE  s[k].done[j] \in T
    <3>1. CASE k = n
      <4>1. s # <<>>
        BY DEF TreeMaking
      <4> QED
        BY <1>1, <1>10, <2>1, <2>2, <3>1, <4>1, MadeDelivers
    <3>2. CASE k # n
      <4>1. k \in 1 .. n - 1
        BY <1>1, <3>2
      <4>2. j \in DOMAIN t[k].done /\ t[k].done[j] = s[k].done[j]
        <5>1. CASE k = n - 1
          BY <1>2, <1>7, <2>2, <5>1
        <5>2. CASE k # n - 1
          <6>1. k \in 1 .. n - 2
            BY <1>1, <4>1, <5>2
          <6> QED
            BY <1>8, <2>2, <6>1
        <5> QED
          BY <5>1, <5>2
      <4> QED
        BY <1>9, <1>10, <2>2, <4>1, <4>2 DEF Delivered
    <3> QED
      BY <3>1, <3>2
  <2> QED
    BY <1>1, <2>1, <2>2 DEF Delivered
<1>11. Covered(m2, t)
  <2>1. ASSUME NEW T, ClosedNodes(T), Delivered(t, T), NEW id \in DOMAIN m2
        PROVE  m2[id] \in T
    <3>1. Delivered(s, T) /\ node \in T
      BY <1>10, <2>1
    <3>2. \A x \in DOMAIN m : m[x] \in T
      BY <2>1, <3>1 DEF TreeMaking, Covered
    <3>3. id \in DOMAIN m \/ id = node.id
      BY DEF Puts
    <3> QED
      BY <3>1, <3>2, <3>3 DEF Puts
  <2> QED
    BY <2>1 DEF Covered
<1>12. \A k \in 1 .. n - 1 : t[k].id = s[k].id
  <2>1. ASSUME NEW k \in 1 .. n - 1 PROVE t[k].id = s[k].id
    <3>1. CASE k = n - 1
      BY <1>2, <1>5, <3>1
    <3>2. CASE k # n - 1
      <4>1. k \in 1 .. n - 2
        BY <1>1, <3>2
      <4> QED
        BY <1>8, <4>1
    <3> QED
      BY <3>1, <3>2
  <2> QED
    BY <2>1
<1>13. PICK R : R = Reachable(RowGraph(u), u.root)
  OBVIOUS
<1>14. /\ s[1].id = u.root /\ DOMAIN m \subseteq R /\ \A k \in 1 .. n : s[k].id \in R
  BY <1>1, <1>13 DEF TreeMaking
<1>15. DOMAIN m2 \subseteq R
  BY <1>0, <1>1, <1>3, <1>14 DEF Puts
<1>16. t # <<>> /\ 1 \in 1 .. n - 1 /\ \A k \in 1 .. n - 1 : k \in 1 .. n
  BY <1>1, <1>9, SeqLaws DEF Removes
<1>17. t[1].id = u.root /\ \A k \in 1 .. Len(t) : t[k].id \in R
  BY <1>9, <1>12, <1>14, <1>16
<1> QED
  BY <1>11, <1>13, <1>15, <1>16, <1>17 DEF TreeMaking

LEMMA TreeEnds ==
    ASSUME NEW u, NEW m, NEW a, NEW s, Making(u, m, a, s), TreeMaking(u, m, s), Len(s) = 1,
           NEW node, NEW m2, NEW a2, EndsTop(u, m, a, s, node, m2, a2)
    PROVE  TreeMade(u, m2)
<1>1. node.id = u.root /\ u.root \in Reachable(RowGraph(u), u.root)
  <2>1. PICK n : n = Len(s)
    OBVIOUS
  <2>2. node.id = s[n].id
    BY <2>1, MakingReturns
  <2>3. node.id = s[1].id
    BY <2>1, <2>2
  <2> QED
    BY <2>3 DEF TreeMaking
<1> USE DEF EndsTop
<1>2. u.root \in DOMAIN m2 /\ m2[u.root] = node
  BY <1>1 DEF Puts
<1>3. DOMAIN m2 \subseteq Reachable(RowGraph(u), u.root)
  BY <1>1 DEF Puts, TreeMaking
<1>4. ASSUME NEW T, ClosedNodes(T), node \in T, NEW id \in DOMAIN m2
      PROVE  m2[id] \in T
  <2>1. s # <<>>
    BY DEF TreeMaking
  <2>2. \A i \in DOMAIN s[1].done : IsNode(s[1].done[i]) => s[1].done[i] \in T
    BY <1>4, <2>1, MadeDelivers
  <2>3. Delivered(s, T)
    BY <2>2 DEF Delivered
  <2>4. \A x \in DOMAIN m : m[x] \in T
    BY <1>4, <2>3 DEF TreeMaking, Covered
  <2>5. id \in DOMAIN m \/ id = node.id
    BY DEF Puts
  <2> QED
    BY <1>4, <2>4, <2>5 DEF Puts
<1> QED
  BY <1>2, <1>3, <1>4 DEF TreeMade

-----------------------------------------------------------------------------
(* What the tree of the root is, once it is made                           *)

LEMMA RootIsTable ==
    ASSUME NEW u, IsUnit(u), IsFiniteSet(DOMAIN u.rows), NEW m,
           Making(u, m, {}, <<>>), TreeMade(u, m)
    PROVE  /\ DOMAIN m = Reachable(RowGraph(u), u.root)
           /\ Parts(m[u.root]) = { m[id] : id \in DOMAIN m }
           /\ m[u.root] \in Parts(m[u.root]) /\ ClosedNodes(Parts(m[u.root]))
           /\ IsFiniteSet(Parts(m[u.root]))
           /\ \A id \in DOMAIN m : m[id].id = id /\ HoldsMade(m[id], m) /\ NodeFits(u, m, {}, id)
<1>1. AllMade(u, m, {}) /\ Layered(m)
  BY DEF Making
<1>2. \A id \in DOMAIN m : m[id].id = id /\ HoldsMade(m[id], m) /\ NodeFits(u, m, {}, id)
  BY <1>1, MadeChildren DEF AllMade
<1>3. PICK S : S = { m[id] : id \in DOMAIN m }
  OBVIOUS
<1>4. DOMAIN m \subseteq DOMAIN u.rows
  BY <1>2 DEF NodeFits
<1>5. IsFiniteSet(S)
  <2>1. IsFiniteSet(DOMAIN m)
    BY <1>4, FS_Subset
  <2>2. IsFiniteSet({ m[id] : id \in DOMAIN m })
    <3>1. PICK f : f = [id \in DOMAIN m |-> m[id]]
      OBVIOUS
    <3>2. f \in [DOMAIN m -> S]
      BY <1>3, <3>1
    <3>3. \A y \in S : \E x \in DOMAIN m : f[x] = y
      BY <1>3, <3>1
    <3>4. f \in Surjection(DOMAIN m, S)
      BY <3>2, <3>3 DEF Surjection
    <3> QED
      BY <1>3, <2>1, <3>4, FS_Surjection
  <2> QED
    BY <1>3, <2>2
<1>6. ClosedNodes(S)
  BY <1>2, <1>3 DEF ClosedNodes, Nested, HoldsMade
<1>7. m[u.root] \in S
  BY <1>3 DEF TreeMade
<1>8. /\ m[u.root] \in Parts(m[u.root]) /\ ClosedNodes(Parts(m[u.root]))
      /\ IsFiniteSet(Parts(m[u.root])) /\ Parts(m[u.root]) \subseteq S
  BY <1>5, <1>6, <1>7, PartsLaws
<1>9. S \subseteq Parts(m[u.root])
  BY <1>3, <1>8 DEF TreeMade
<1>10. DOMAIN m = Reachable(RowGraph(u), u.root)
  <2>1. Closed(RowGraph(u), DOMAIN m)
    <3>1. ASSUME NEW id \in DOMAIN m, NEW c \in Successors(RowGraph(u), id)
          PROVE  c \in DOMAIN m
      <4>1. id \in DOMAIN u.rows
        BY <1>4
      <4>2. PICK i \in DOMAIN Kids(u, id) : c = Kids(u, id)[i]
        BY <4>1, RowGraphLaws
      <4>3. MadeFor(u, id, i, m[id].fields[i], m, {})
        BY <1>2 DEF NodeFits
      <4> QED
        BY <4>2, <4>3 DEF MadeFor
    <3> QED
      BY <3>1 DEF Closed
  <2>2. u.root \in DOMAIN m /\ DOMAIN m \subseteq DOMAIN RowGraph(u)
    BY <1>4, RowGraphLaws DEF TreeMade
  <2>3. Reachable(RowGraph(u), u.root) \subseteq DOMAIN m
    BY <2>1, <2>2, ReachableLaws
  <2> QED
    BY <2>3 DEF TreeMade
<1> QED
  BY <1>2, <1>3, <1>8, <1>9, <1>10

-----------------------------------------------------------------------------
(* The steps of materialising                                              *)

MatInv ==
    /\ phase = "none" => todo = {} /\ matStack = <<>>
    /\ phase # "none" =>
         /\ phase \in {"checking", "refused", "building", "built"}
         /\ unit \in Units
         /\ Making(unit, matMemo, active, matStack)
         /\ phase = "checking" =>
              /\ todo \subseteq DOMAIN unit.rows
              /\ CheckedRight(unit, todo)
              /\ matStack # <<>> => IsChecked(unit, matStack[1].id)
         /\ phase = "refused" => matStack = <<>> /\ SomeWrong(unit)
         /\ phase \in {"building", "built"} => todo = {} /\ CheckedRight(unit, {})
         /\ phase = "building" => TreeMaking(unit, matMemo, matStack)
         /\ phase = "built" => matStack = <<>> /\ TreeMade(unit, matMemo)

LEMMA UnitLaws ==
    ASSUME NEW u \in Units
    PROVE  /\ IsUnit(u) /\ IsFiniteSet(DOMAIN u.rows) /\ NewIdsAreNew(DOMAIN u.rows)
           /\ \A id \in DOMAIN u.rows :
                u.rows[id] = [kind |-> u.rows[id].kind, text |-> u.rows[id].text,
                              refs |-> u.rows[id].refs]
BY UnitsAssumption DEF IsUnit, Kids

LEMMA MatOps ==
    /\ \A x : Mat!IsNode(x) = IsNode(x) /\ Mat!Ref(x) = Ref(x)
    /\ \A x : Mat!Refs(x) = Kids(unit, x)
    /\ \A t, k, v : Mat!Put(t, k, v) = Put(t, k, v)
    /\ \A x : Mat!Frame(x) = NewCall(unit, x)
    /\ \A f, i, v : Mat!With(f, i, v) = Given(f, i, v)
    /\ \A f : Mat!Built(f) = MadeOf(unit, f)
    /\ \A n : Mat!ChildrenFit(n) = FitsHolds(n)
    /\ \A id : Mat!Checked(id) = IsChecked(unit, id)
<1>1. \A x : Mat!IsNode(x) = IsNode(x) /\ Mat!Ref(x) = Ref(x)
  BY DEF Mat!IsNode, IsNode, Mat!Ref, Ref
<1>2. \A x : Mat!Refs(x) = Kids(unit, x)
  BY DEF Mat!Refs, Kids
<1>3. \A t, k, v : Mat!Put(t, k, v) = Put(t, k, v)
  BY DEF Mat!Put, Put
<1>4. \A x : Mat!Frame(x) = NewCall(unit, x)
  BY <1>2 DEF Mat!Frame, NewCall
<1>5. \A f, i, v : Mat!With(f, i, v) = Given(f, i, v)
  BY <1>3 DEF Mat!With, Given
<1>6. \A f : Mat!Built(f) = MadeOf(unit, f)
  BY <1>2 DEF Mat!Built, MadeOf
<1>7. \A n : Mat!ChildrenFit(n) = FitsHolds(n)
  BY <1>1 DEF Mat!ChildrenFit, FitsHolds
<1>8. \A id : Mat!Checked(id) = IsChecked(unit, id)
  BY DEF Mat!Checked, IsChecked
<1> QED
  BY <1>1, <1>2, <1>3, <1>4, <1>5, <1>6, <1>7, <1>8

Verdict(node) ==
    IF FitsHolds(node) THEN todo' = todo \ {node.id} /\ phase' = phase
                       ELSE phase' = "refused" /\ todo' = todo

MatStays == matMemo' = matMemo /\ active' = active /\ matStack' = matStack

LEMMA CheckRowForms ==
    ASSUME NEW id, Mat!CheckRow(id)
    PROVE  /\ phase = "checking" /\ matStack = <<>> /\ unit' = unit /\ id \in todo
           /\ \/ /\ ~ IsChecked(unit, id)
                 /\ todo' = todo \ {id} /\ phase' = phase /\ MatStays
              \/ /\ IsChecked(unit, id) /\ id \in DOMAIN matMemo
                 /\ Verdict(matMemo[id]) /\ MatStays
              \/ /\ IsChecked(unit, id) /\ id \notin DOMAIN matMemo
                 /\ matMemo' = matMemo /\ active' = active \cup {id}
                 /\ matStack' = <<NewCall(unit, id)>>
                 /\ todo' = todo /\ phase' = phase
<1>1. Append(<<>>, NewCall(unit, id)) = <<NewCall(unit, id)>>
  OBVIOUS
<1>2. \A n : Mat!Check(n) <=> Verdict(n)
  BY MatOps DEF Mat!Check, Verdict
<1>3. Mat!Checked(id) = IsChecked(unit, id) /\ Mat!Frame(id) = NewCall(unit, id)
  BY MatOps
<1> QED
  BY <1>1, <1>2, <1>3 DEF Mat!CheckRow, Mat!Enter, MatStays

LEMMA CheckRowStep ==
    ASSUME MatInv, NEW id, Mat!CheckRow(id)
    PROVE  MatInv'
<1>1. /\ phase = "checking" /\ matStack = <<>> /\ unit' = unit /\ id \in todo
      /\ \/ /\ ~ IsChecked(unit, id)
            /\ todo' = todo \ {id} /\ phase' = phase /\ MatStays
         \/ /\ IsChecked(unit, id) /\ id \in DOMAIN matMemo
            /\ Verdict(matMemo[id]) /\ MatStays
         \/ /\ IsChecked(unit, id) /\ id \notin DOMAIN matMemo
            /\ matMemo' = matMemo /\ active' = active \cup {id}
            /\ matStack' = <<NewCall(unit, id)>>
            /\ todo' = todo /\ phase' = phase
  BY CheckRowForms
<1>2. /\ unit \in Units /\ Making(unit, matMemo, active, matStack)
      /\ todo \subseteq DOMAIN unit.rows /\ CheckedRight(unit, todo)
  BY <1>1 DEF MatInv
<1>3. IsUnit(unit) /\ AllMade(unit, matMemo, active)
  BY <1>2, UnitLaws DEF Making
<1>4. CASE /\ ~ IsChecked(unit, id)
           /\ todo' = todo \ {id} /\ phase' = phase /\ MatStays
  <2>1. CheckedRight(unit, todo \ {id})
    BY <1>2, <1>4 DEF CheckedRight
  <2>2. /\ phase' = "checking" /\ matStack' = <<>> /\ todo' \subseteq DOMAIN unit.rows
        /\ Making(unit', matMemo', active', matStack') /\ CheckedRight(unit', todo')
    BY <1>1, <1>2, <1>4, <2>1 DEF MatStays
  <2> QED
    BY <1>1, <1>2, <2>2 DEF MatInv
<1>5. CASE /\ IsChecked(unit, id) /\ id \in DOMAIN matMemo
           /\ Verdict(matMemo[id]) /\ MatStays
  <2>1. IF FitsHolds(matMemo[id]) THEN CheckedRight(unit, todo \ {id}) ELSE SomeWrong(unit)
    BY <1>2, <1>3, <1>5, NodeVerdict
  <2>2. matMemo[id].id = id
    BY <1>3, <1>5, MadeChildren
  <2>3. CASE FitsHolds(matMemo[id])
    <3>1. /\ phase' = "checking" /\ matStack' = <<>> /\ todo' \subseteq DOMAIN unit.rows
          /\ Making(unit', matMemo', active', matStack') /\ CheckedRight(unit', todo')
      BY <1>1, <1>2, <1>5, <2>1, <2>2, <2>3 DEF Verdict, MatStays
    <3> QED
      BY <1>1, <1>2, <3>1 DEF MatInv
  <2>4. CASE ~ FitsHolds(matMemo[id])
    <3>1. /\ phase' = "refused" /\ matStack' = <<>> /\ SomeWrong(unit')
          /\ Making(unit', matMemo', active', matStack')
      BY <1>1, <1>2, <1>5, <2>1, <2>4 DEF Verdict, MatStays
    <3> QED
      BY <1>1, <1>2, <3>1 DEF MatInv
  <2> QED
    BY <2>3, <2>4
<1>6. CASE /\ IsChecked(unit, id) /\ id \notin DOMAIN matMemo
           /\ matMemo' = matMemo /\ active' = active \cup {id}
           /\ matStack' = <<NewCall(unit, id)>>
           /\ todo' = todo /\ phase' = phase
  <2>1. active = {}
    BY <1>1, <1>2, OneCall DEF Making
  <2>2. Making(unit, matMemo, {id}, <<NewCall(unit, id)>>)
    BY <1>1, <1>2, <1>6, <2>1, MakingStarts
  <2>3. matStack'[1].id = id
    BY <1>6, OneCall DEF NewCall
  <2>4. /\ phase' = "checking" /\ todo' \subseteq DOMAIN unit.rows
        /\ Making(unit', matMemo', active', matStack') /\ CheckedRight(unit', todo')
        /\ IsChecked(unit', matStack'[1].id)
    BY <1>1, <1>2, <1>6, <2>1, <2>2, <2>3
  <2> QED
    BY <1>1, <1>2, <2>4 DEF MatInv
<1> QED
  BY <1>1, <1>4, <1>5, <1>6

LEMMA BuildStep ==
    ASSUME MatInv, Mat!Build
    PROVE  MatInv'
<1>1. /\ phase = "checking" /\ matStack = <<>> /\ todo = {} /\ phase' = "building"
      /\ active' = {unit.root} /\ matStack' = <<NewCall(unit, unit.root)>>
      /\ matMemo' = <<>> /\ unit' = unit /\ todo' = todo
  BY MatOps DEF Mat!Build
<1>2. unit \in Units /\ CheckedRight(unit, todo) /\ IsUnit(unit)
  BY <1>1, UnitLaws DEF MatInv
<1>3. Making(unit, <<>>, {}, <<>>)
  <2>1. IsSeq(<<>>) /\ Len(<<>>) = 0 /\ DOMAIN <<>> = {}
    BY OneCall, EmptyTable
  <2> QED
    BY <2>1 DEF Making, AllMade, Layered
<1>4. Making(unit, <<>>, {unit.root}, <<NewCall(unit, unit.root)>>)
  BY <1>2, <1>3, EmptyTable, MakingStarts DEF IsUnit
<1>5. TreeMaking(unit, <<>>, <<NewCall(unit, unit.root)>>)
  BY <1>2, TreeStarts
<1>6. /\ Making(unit', matMemo', active', matStack') /\ TreeMaking(unit', matMemo', matStack')
      /\ CheckedRight(unit', {}) /\ todo' = {} /\ unit' \in Units
  BY <1>1, <1>2, <1>4, <1>5
<1> QED
  BY <1>1, <1>6 DEF MatInv

LEMMA ReferenceForms ==
    ASSUME MatInv, NEW i, Mat!Reference(i)
    PROVE  LET n == Len(matStack)
               child == Kids(unit, matStack[n].id)[i]
           IN /\ matStack # <<>> /\ i \in matStack[n].todo
              /\ unit' = unit /\ todo' = todo /\ phase' = phase /\ matMemo' = matMemo
              /\ \/ /\ child \in active /\ active' = active
                    /\ Replaces(matStack, matStack', Given(matStack[n], i, Ref(child)))
                 \/ /\ child \notin active /\ child \in DOMAIN matMemo /\ active' = active
                    /\ Replaces(matStack, matStack', Given(matStack[n], i, matMemo[child]))
                 \/ /\ child \notin active /\ child \notin DOMAIN matMemo
                    /\ active' = active \cup {child}
                    /\ Adds(matStack, matStack', [matStack[n] EXCEPT !.at = i],
                            NewCall(unit, child))
<1>1. PICK s : s = matStack
  OBVIOUS
<1>2. PICK callers : callers = SubSeq(s, 1, Len(s) - 1)
  OBVIOUS
<1>3. PICK f : f = s[Len(s)]
  OBVIOUS
<1>4. PICK child : child = Kids(unit, f.id)[i]
  OBVIOUS
<1>5. Mat!Top = f /\ Mat!Callers = callers
  BY <1>1, <1>2, <1>3 DEF Mat!Top, Mat!Callers
<1>6. /\ s # <<>> /\ i \in f.todo
      /\ unit' = unit /\ todo' = todo /\ phase' = phase
      /\ \/ /\ child \in active /\ active' = active /\ matMemo' = matMemo
            /\ matStack' = Append(callers, Given(f, i, Ref(child)))
         \/ /\ child \notin active /\ child \in DOMAIN matMemo
            /\ active' = active /\ matMemo' = matMemo
            /\ matStack' = Append(callers, Given(f, i, matMemo[child]))
         \/ /\ child \notin active /\ child \notin DOMAIN matMemo
            /\ active' = active \cup {child} /\ matMemo' = matMemo
            /\ matStack' = Append(Append(callers, [f EXCEPT !.at = i]), NewCall(unit, child))
  BY <1>1, <1>4, <1>5, MatOps DEF Mat!Reference, Mat!Enter
<1>7. IsSeq(s)
  BY <1>1, <1>6 DEF MatInv, Making
<1>8. StackTurns(s, callers)
  BY <1>2, <1>6, <1>7, StackLaws
<1> QED
  BY <1>1, <1>3, <1>4, <1>6, <1>8 DEF StackTurns

LEMMA ReferenceStep ==
    ASSUME MatInv, NEW i, Mat!Reference(i)
    PROVE  MatInv'
<1>1. PICK n, child :
        /\ n = Len(matStack) /\ child = Kids(unit, matStack[n].id)[i]
        /\ matStack # <<>> /\ i \in matStack[n].todo
        /\ unit' = unit /\ todo' = todo /\ phase' = phase /\ matMemo' = matMemo
        /\ \/ /\ child \in active /\ active' = active
              /\ Replaces(matStack, matStack', Given(matStack[n], i, Ref(child)))
           \/ /\ child \notin active /\ child \in DOMAIN matMemo /\ active' = active
              /\ Replaces(matStack, matStack', Given(matStack[n], i, matMemo[child]))
           \/ /\ child \notin active /\ child \notin DOMAIN matMemo
              /\ active' = active \cup {child}
              /\ Adds(matStack, matStack', [matStack[n] EXCEPT !.at = i],
                      NewCall(unit, child))
  BY ReferenceForms
<1>2. phase \in {"checking", "building"} /\ unit \in Units
      /\ Making(unit, matMemo, active, matStack)
  BY <1>1 DEF MatInv
<1>3. IsUnit(unit)
  BY <1>2, UnitLaws
<1>4. n \in Nat \ {0}
  BY <1>1, <1>2, SeqLaws DEF Making
<1>5. /\ Making(unit, matMemo, active', matStack')
      /\ SameIds(matStack, matStack')
      /\ TreeMaking(unit, matMemo, matStack) => TreeMaking(unit, matMemo, matStack')
  <2>1. ASSUME NEW v, MadeFor(unit, matStack[n].id, i, v, matMemo, active), active' = active,
               Replaces(matStack, matStack', Given(matStack[n], i, v))
        PROVE  <1>5
    <3>1. GivesTop(unit, matMemo, active, matStack, i, v, matStack')
      BY <1>1, <2>1 DEF GivesTop
    <3>2. Making(unit, matMemo, active, matStack') /\ SameIds(matStack, matStack')
      BY <1>2, <3>1, MakingGives
    <3>3. TreeMaking(unit, matMemo, matStack) => TreeMaking(unit, matMemo, matStack')
      BY <1>2, <3>1, <3>2, TreeGives
    <3> QED
      BY <2>1, <3>2, <3>3
  <2>2. CASE /\ child \in active /\ active' = active
             /\ Replaces(matStack, matStack', Given(matStack[n], i, Ref(child)))
    <3>1. MadeFor(unit, matStack[n].id, i, Ref(child), matMemo, active)
      BY <1>1, <1>2, <1>3, <2>2, MetActive
    <3> QED
      BY <2>1, <2>2, <3>1
  <2>3. CASE /\ child \notin active /\ child \in DOMAIN matMemo /\ active' = active
             /\ Replaces(matStack, matStack', Given(matStack[n], i, matMemo[child]))
    <3>1. MadeFor(unit, matStack[n].id, i, matMemo[child], matMemo, active)
      BY <1>1, <2>3 DEF MadeFor
    <3> QED
      BY <2>1, <2>3, <3>1
  <2>4. CASE /\ child \notin active /\ child \notin DOMAIN matMemo
             /\ active' = active \cup {child}
             /\ Adds(matStack, matStack', [matStack[n] EXCEPT !.at = i],
                     NewCall(unit, child))
    <3>1. CallsFor(unit, matMemo, active, matStack, i, child, matStack')
      BY <1>1, <2>4 DEF CallsFor
    <3>2. Making(unit, matMemo, active \cup {child}, matStack') /\ SameIds(matStack, matStack')
      BY <1>2, <1>3, <3>1, MakingCalls
    <3>3. TreeMaking(unit, matMemo, matStack) => TreeMaking(unit, matMemo, matStack')
      BY <1>2, <1>3, <3>1, <3>2, TreeCalls
    <3> QED
      BY <2>4, <3>2, <3>3
  <2> QED
    BY <1>1, <2>2, <2>3, <2>4
<1>6. phase = "checking" =>
        /\ todo \subseteq DOMAIN unit.rows /\ CheckedRight(unit, todo)
        /\ IsChecked(unit, matStack'[1].id)
  <2>1. 1 \in 1 .. n
    BY <1>4
  <2> QED
    BY <1>1, <1>5, <2>1 DEF MatInv, SameIds
<1>7. phase = "building" => /\ todo = {} /\ CheckedRight(unit, {})
                            /\ TreeMaking(unit, matMemo, matStack')
  BY <1>5 DEF MatInv
<1>8. /\ unit' \in Units /\ Making(unit', matMemo', active', matStack')
      /\ phase' \in {"checking", "building"}
      /\ phase' = "checking" =>
           /\ todo' \subseteq DOMAIN unit'.rows /\ CheckedRight(unit', todo')
           /\ IsChecked(unit', matStack'[1].id)
      /\ phase' = "building" => /\ todo' = {} /\ CheckedRight(unit', {})
                                /\ TreeMaking(unit', matMemo', matStack')
  BY <1>1, <1>2, <1>5, <1>6, <1>7
<1> QED
  BY <1>8 DEF MatInv

LEMMA ReturnForms ==
    ASSUME MatInv, Mat!Return
    PROVE  LET n == Len(matStack)
               node == MadeOf(unit, matStack[n])
           IN /\ matStack # <<>> /\ matStack[n].todo = {} /\ unit' = unit
              /\ Puts(matMemo, node.id, node, matMemo')
              /\ \A x : x \in active' <=> x \in active /\ x # node.id
              /\ \/ /\ n > 1 /\ todo' = todo /\ phase' = phase
                    /\ Removes(matStack, matStack',
                               Given(matStack[n - 1], matStack[n - 1].at, node))
                 \/ /\ n = 1 /\ phase = "checking" /\ matStack' = <<>> /\ Verdict(node)
                 \/ /\ n = 1 /\ phase = "building" /\ matStack' = <<>>
                    /\ phase' = "built" /\ todo' = todo
<1>1. PICK s : s = matStack
  OBVIOUS
<1>2. PICK callers : callers = SubSeq(s, 1, Len(s) - 1)
  OBVIOUS
<1>3. PICK f : f = s[Len(s)]
  OBVIOUS
<1>4. PICK node : node = MadeOf(unit, f)
  OBVIOUS
<1>5. Mat!Top = f /\ Mat!Callers = callers
  BY <1>1, <1>2, <1>3 DEF Mat!Top, Mat!Callers
<1>6. \A x : Mat!Check(x) <=> Verdict(x)
  BY MatOps DEF Mat!Check, Verdict
<1>7. /\ s # <<>> /\ f.todo = {} /\ unit' = unit
      /\ matMemo' = Put(matMemo, node.id, node) /\ active' = active \ {node.id}
      /\ \/ /\ callers # <<>> /\ todo' = todo /\ phase' = phase
            /\ matStack' = [callers EXCEPT ![Len(callers)] =
                              Given(callers[Len(callers)], callers[Len(callers)].at, node)]
         \/ /\ callers = <<>> /\ phase = "checking" /\ matStack' = <<>> /\ Verdict(node)
         \/ /\ callers = <<>> /\ phase = "building" /\ matStack' = <<>>
            /\ phase' = "built" /\ todo' = todo
  BY <1>1, <1>4, <1>5, <1>6, MatOps DEF Mat!Return
<1>8. IsSeq(s)
  BY <1>1, <1>7 DEF MatInv, Making
<1>9. /\ callers # <<>> => RemovesTop(s, callers)
      /\ callers = <<>> <=> Len(s) = 1
  <2>1. StackTurns(s, callers)
    BY <1>2, <1>7, <1>8, StackLaws
  <2> QED
    BY <2>1 DEF StackTurns
<1>10. Puts(matMemo, node.id, node, matMemo')
  <2>1. node.id \notin DOMAIN matMemo
    <3>1. Making(unit, matMemo, active, matStack)
      BY <1>1, <1>7 DEF MatInv
    <3>2. f.id \in active
      <4>1. Len(s) \in 1 .. Len(s)
        BY <1>7, <1>8, SeqLaws
      <4> QED
        BY <1>1, <1>3, <3>1, <4>1 DEF Making
    <3>3. node.id = f.id
      BY <1>4 DEF MadeOf
    <3> QED
      BY <3>1, <3>2, <3>3 DEF Making
  <2> QED
    BY <1>7, <2>1 DEF Puts, Put
<1>11. \A x : x \in active' <=> x \in active /\ x # node.id
  BY <1>7
<1>12. Len(s) \in Nat \ {0}
  BY <1>7, <1>8, SeqLaws
<1>13. callers # <<>> =>
         Removes(s, matStack', Given(s[Len(s) - 1], s[Len(s) - 1].at, node))
  <2> SUFFICES ASSUME callers # <<>>
               PROVE  Removes(s, matStack', Given(s[Len(s) - 1], s[Len(s) - 1].at, node))
    OBVIOUS
  <2>1. PICK x : x = Given(s[Len(s) - 1], s[Len(s) - 1].at, node)
    OBVIOUS
  <2>2. matStack' = [callers EXCEPT ![Len(callers)] = x]
    BY <1>7, <1>9, <2>1 DEF RemovesTop
  <2> QED
    BY <1>9, <2>1, <2>2 DEF RemovesTop
<1>14. \/ /\ Len(s) > 1 /\ todo' = todo /\ phase' = phase
          /\ Removes(s, matStack', Given(s[Len(s) - 1], s[Len(s) - 1].at, node))
       \/ /\ Len(s) = 1 /\ phase = "checking" /\ matStack' = <<>> /\ Verdict(node)
       \/ /\ Len(s) = 1 /\ phase = "building" /\ matStack' = <<>>
          /\ phase' = "built" /\ todo' = todo
  <2>1. callers # <<>> => Len(s) > 1
    BY <1>9, <1>12
  <2> QED
    BY <1>7, <1>9, <1>13, <2>1, Zenon
<1> QED
  BY <1>1, <1>3, <1>4, <1>7, <1>10, <1>11, <1>14

LEMMA ReturnStep ==
    ASSUME MatInv, Mat!Return
    PROVE  MatInv'
<1>1. PICK n, node :
        /\ n = Len(matStack) /\ node = MadeOf(unit, matStack[n])
        /\ matStack # <<>> /\ matStack[n].todo = {} /\ unit' = unit
        /\ Puts(matMemo, node.id, node, matMemo')
        /\ \A x : x \in active' <=> x \in active /\ x # node.id
        /\ \/ /\ n > 1 /\ todo' = todo /\ phase' = phase
              /\ Removes(matStack, matStack',
                         Given(matStack[n - 1], matStack[n - 1].at, node))
           \/ /\ n = 1 /\ phase = "checking" /\ matStack' = <<>> /\ Verdict(node)
           \/ /\ n = 1 /\ phase = "building" /\ matStack' = <<>>
              /\ phase' = "built" /\ todo' = todo
  BY ReturnForms
<1>2. phase \in {"checking", "building"} /\ unit \in Units
      /\ Making(unit, matMemo, active, matStack)
  BY <1>1 DEF MatInv
<1>3. IsUnit(unit)
  BY <1>2, UnitLaws
<1>4. EndsTop(unit, matMemo, active, matStack, node, matMemo', active')
  BY <1>1 DEF EndsTop
<1>5. node.id = matStack[n].id
  BY <1>1, <1>2, <1>4, MakingReturns
<1>6. CASE /\ n > 1 /\ todo' = todo /\ phase' = phase
           /\ Removes(matStack, matStack',
                      Given(matStack[n - 1], matStack[n - 1].at, node))
  <2>1. Making(unit, matMemo', active', matStack')
    BY <1>1, <1>2, <1>4, <1>6, MakingReturns
  <2>2. TreeMaking(unit, matMemo, matStack) => TreeMaking(unit, matMemo', matStack')
    BY <1>1, <1>2, <1>4, <1>6, TreeReturns
  <2>3. matStack'[1].id = matStack[1].id
    <3>1. CallFits(unit, matMemo, active, matStack[1])
      BY <1>1, <1>2, <1>6, SeqLaws DEF Making
    <3>2. CASE n = 2
      <4>1. matStack'[1] = Given(matStack[1], matStack[1].at, node)
        BY <1>1, <1>6, <3>2 DEF Removes
      <4>2. matStack[1] = [id |-> matStack[1].id, todo |-> matStack[1].todo,
                           at |-> matStack[1].at, done |-> matStack[1].done]
        BY <3>1 DEF CallFits
      <4>3. Given(matStack[1], matStack[1].at, node) =
              [id |-> matStack[1].id, todo |-> matStack[1].todo \ {matStack[1].at},
               at |-> 0, done |-> Put(matStack[1].done, matStack[1].at, node)]
        BY <4>2, GivenLaws
      <4> QED
        BY <4>1, <4>3
    <3>3. CASE n # 2
      <4>1. 1 \in 1 .. n - 2
        BY <1>1, <1>2, <1>6, <3>3, SeqLaws DEF Making
      <4> QED
        BY <1>1, <1>6, <4>1 DEF Removes
    <3> QED
      BY <3>2, <3>3
  <2>4. phase = "checking" =>
          /\ todo \subseteq DOMAIN unit.rows /\ CheckedRight(unit, todo)
          /\ IsChecked(unit, matStack[1].id)
    BY <1>1 DEF MatInv
  <2>5. phase = "building" => /\ todo = {} /\ CheckedRight(unit, {})
                              /\ TreeMaking(unit, matMemo, matStack)
    BY DEF MatInv
  <2>6. /\ unit' \in Units /\ Making(unit', matMemo', active', matStack')
        /\ phase' \in {"checking", "building"}
        /\ phase' = "checking" =>
             /\ todo' \subseteq DOMAIN unit'.rows /\ CheckedRight(unit', todo')
             /\ IsChecked(unit', matStack'[1].id)
        /\ phase' = "building" => /\ todo' = {} /\ CheckedRight(unit', {})
                                  /\ TreeMaking(unit', matMemo', matStack')
    BY <1>1, <1>2, <1>6, <2>1, <2>2, <2>3, <2>4, <2>5
  <2> QED
    BY <2>6 DEF MatInv
<1>7. CASE n = 1 /\ phase = "checking" /\ matStack' = <<>> /\ Verdict(node)
  <2>1. Making(unit, matMemo', {}, <<>>) /\ active' = {}
    <3>1. Len(matStack) = 1
      BY <1>1, <1>7
    <3>2. Making(unit, matMemo', active', <<>>) /\ active' = {}
      BY <1>2, <1>4, <3>1, MakingReturns
    <3> QED
      BY <3>2
  <2>2. todo \subseteq DOMAIN unit.rows /\ CheckedRight(unit, todo) /\ IsChecked(unit, node.id)
    BY <1>1, <1>5, <1>7 DEF MatInv
  <2>3. node.id \in DOMAIN matMemo' /\ matMemo'[node.id] = node
    BY <1>1 DEF Puts
  <2>4. AllMade(unit, matMemo', {})
    BY <2>1 DEF Making
  <2>5. IF FitsHolds(node) THEN CheckedRight(unit, todo \ {node.id}) ELSE SomeWrong(unit)
    BY <1>3, <2>2, <2>3, <2>4, NodeVerdict
  <2>6. CASE FitsHolds(node)
    <3>1. /\ phase' = "checking" /\ matStack' = <<>> /\ todo' \subseteq DOMAIN unit'.rows
          /\ Making(unit', matMemo', active', matStack') /\ CheckedRight(unit', todo')
      BY <1>1, <1>7, <2>1, <2>2, <2>5, <2>6 DEF Verdict
    <3> QED
      BY <1>1, <1>2, <3>1 DEF MatInv
  <2>7. CASE ~ FitsHolds(node)
    <3>1. /\ phase' = "refused" /\ matStack' = <<>> /\ SomeWrong(unit')
          /\ Making(unit', matMemo', active', matStack')
      BY <1>1, <1>7, <2>1, <2>5, <2>7 DEF Verdict
    <3> QED
      BY <1>1, <1>2, <3>1 DEF MatInv
  <2> QED
    BY <2>6, <2>7
<1>8. CASE /\ n = 1 /\ phase = "building" /\ matStack' = <<>>
           /\ phase' = "built" /\ todo' = todo
  <2>1. Making(unit, matMemo', {}, <<>>) /\ active' = {}
    <3>1. Len(matStack) = 1
      BY <1>1, <1>8
    <3>2. Making(unit, matMemo', active', <<>>) /\ active' = {}
      BY <1>2, <1>4, <3>1, MakingReturns
    <3> QED
      BY <3>2
  <2>2. todo = {} /\ CheckedRight(unit, {}) /\ TreeMaking(unit, matMemo, matStack)
    BY <1>8 DEF MatInv
  <2>3. TreeMade(unit, matMemo')
    BY <1>1, <1>2, <1>4, <1>8, <2>2, TreeEnds
  <2>4. /\ unit' \in Units /\ Making(unit', matMemo', active', matStack')
        /\ phase' = "built" /\ matStack' = <<>> /\ todo' = {} /\ CheckedRight(unit', {})
        /\ TreeMade(unit', matMemo')
    BY <1>1, <1>2, <1>8, <2>1, <2>2, <2>3
  <2> QED
    BY <2>4 DEF MatInv
<1> QED
  BY <1>1, <1>6, <1>7, <1>8

LEMMA MatInit == RacketInit => MatInv
<1> SUFFICES ASSUME RacketInit PROVE MatInv
  OBVIOUS
<1>1. /\ unit \in Units /\ todo = DOMAIN unit.rows
      /\ matMemo = <<>> /\ active = {} /\ matStack = <<>> /\ phase = "checking"
  BY DEF RacketInit, Mat!Init
<1>2. Making(unit, <<>>, {}, <<>>)
  <2>1. IsSeq(<<>>) /\ Len(<<>>) = 0 /\ DOMAIN <<>> = {}
    BY OneCall, EmptyTable
  <2> QED
    BY <2>1 DEF Making, AllMade, Layered
<1>3. CheckedRight(unit, todo)
  BY <1>1 DEF CheckedRight
<1> QED
  BY <1>1, <1>2, <1>3 DEF MatInv

LEMMA MatStep == MatInv /\ [RacketNext]_racketVars => MatInv'
<1> SUFFICES ASSUME MatInv, [RacketNext]_racketVars PROVE MatInv'
  OBVIOUS
<1>1. CASE UNCHANGED reading
  BY <1>1 DEF MatInv, reading
<1>2. CASE Mat!Next
  <2>1. CASE \E id \in todo : Mat!CheckRow(id)
    BY <2>1, CheckRowStep
  <2>2. CASE Mat!Build
    BY <2>2, BuildStep
  <2>3. CASE \E i \in Mat!Top.todo : Mat!Reference(i)
    BY <2>3, ReferenceStep
  <2>4. CASE Mat!Return
    BY <2>4, ReturnStep
  <2> QED
    BY <1>2, <2>1, <2>2, <2>3, <2>4 DEF Mat!Next
<1>3. CASE RunOnTree
  <2>1. phase' = "none" /\ todo' = {} /\ matStack' = <<>>
    BY <1>3 DEF RunOnTree
  <2> QED
    BY <2>1 DEF MatInv
<1> QED
  BY <1>1, <1>2, <1>3 DEF RacketNext, Read, RunOnUnit, Transform, racketVars

LEMMA MatInvariance == RacketSpec => []MatInv
  BY MatInit, MatStep, PTL DEF RacketSpec

-----------------------------------------------------------------------------
(* The operators of the two components are those of IrTrees.               *)

LEMMA MatGraphs ==
    /\ Mat!Graph(unit.rows) = RowGraph(unit)
    /\ \A g, x : Mat!Successors(g, x) = Successors(g, x) /\ Mat!Reachable(g, x) = Reachable(g, x)
    /\ \A g : Mat!Acyclic(g) <=> Acyclic(g)
    /\ \A id, child : Mat!Wrong(id, child) <=> IsWrong(unit, id, child)
<1>1. Mat!Graph(unit.rows) = RowGraph(unit)
  BY DEF Mat!Graph, RowGraph, Graph
<1>2. \A g, x : Mat!Successors(g, x) = Successors(g, x)
  BY DEF Mat!Successors, Successors
<1>3. \A g, x : Mat!Reachable(g, x) = Reachable(g, x)
  BY DEF Mat!Reachable, Reachable, Mat!Closed, Closed, Mat!Successors, Successors
<1>4. \A g : Mat!Acyclic(g) <=> Acyclic(g)
  BY DEF Mat!Acyclic, Acyclic, Mat!Sinkless, Sinkless, Mat!Successors, Successors
<1>5. \A id, child : Mat!Wrong(id, child) <=> IsWrong(unit, id, child)
  BY <1>1, <1>2 DEF Mat!Wrong, IsWrong
<1> QED
  BY <1>1, <1>2, <1>3, <1>4, <1>5

LEMMA MatTrees ==
    /\ \A x : Mat!IsNode(x) = IsNode(x) /\ Mat!IdOf(x) = IdOf(x) /\ Mat!Children(x) = Children(x)
    /\ \A x : Mat!Parts(x) = Parts(x) /\ Mat!Row(x) = Row(x) /\ Mat!Rows(x) = Rows(x)
    /\ \A x : Mat!OneNodePerId(x) <=> OneNodePerId(x)
    /\ \A r, x : Mat!Part(r, x) = Part(r, x)
    /\ Mat!Root = matMemo[unit.root]
<1>1. \A x : Mat!IsNode(x) = IsNode(x)
  BY DEF Mat!IsNode, IsNode
<1>2. \A x : Mat!IdOf(x) = IdOf(x)
  BY DEF Mat!IsNode, IsNode, Mat!IdOf, IdOf
<1>3. \A x : Mat!Children(x) = Children(x)
  BY DEF Mat!IsNode, IsNode, Mat!Children, Children
<1>4. \A x : Mat!Parts(x) = Parts(x)
  BY DEF Mat!IsNode, IsNode, Mat!Children, Children, Mat!Nested, Nested, Mat!Parts, Parts
<1>5. \A x : Mat!Row(x) = Row(x)
  BY <1>2 DEF Mat!Row, Row
<1>6. \A x : Mat!Rows(x) = Rows(x)
  BY DEF Mat!IsNode, IsNode, Mat!Children, Children, Mat!Nested, Nested, Mat!Parts, Parts,
         Mat!IdOf, IdOf, Mat!Row, Row, Mat!Rows, Rows
<1>7. \A x : Mat!OneNodePerId(x) <=> OneNodePerId(x)
  BY <1>4 DEF Mat!OneNodePerId, OneNodePerId
<1>8. \A r, x : Mat!Part(r, x) = Part(r, x)
  BY DEF Mat!Part, Part, Mat!Graph, Graph, Mat!Reachable, Reachable, Mat!Closed, Closed,
         Mat!Successors, Successors
<1>9. Mat!Root = matMemo[unit.root]
  BY DEF Mat!Root
<1> QED
  BY <1>1, <1>2, <1>3, <1>4, <1>5, <1>6, <1>7, <1>8, <1>9

LEMMA KindCheck == MatInv => KindCheckIsExact
<1> SUFFICES ASSUME MatInv PROVE Mat!KindCheckIsExact
  BY DEF KindCheckIsExact
<1>1. ASSUME phase = "refused"
      PROVE  \E id, child \in DOMAIN unit.rows : Mat!Wrong(id, child)
  <2>1. SomeWrong(unit)
    BY <1>1 DEF MatInv
  <2> QED
    BY <2>1, MatGraphs DEF SomeWrong
<1>2. ASSUME phase = "built", unit.matches,
             NEW id \in DOMAIN unit.rows, NEW child \in DOMAIN unit.rows, Mat!Wrong(id, child)
      PROVE  Mat!OnCycle(id, child)
  <2>1. CheckedRight(unit, {})
    BY <1>2 DEF MatInv
  <2>2. IsWrong(unit, id, child) /\ IsChecked(unit, id)
    BY <1>2, MatGraphs DEF IsWrong, IsChecked
  <2>3. id \in Reachable(RowGraph(unit), child)
    BY <2>1, <2>2 DEF CheckedRight
  <2> QED
    BY <2>3, MatGraphs DEF Mat!OnCycle
<1> QED
  BY <1>1, <1>2 DEF Mat!KindCheckIsExact

(* The check of validate-go-ast-unit refuses a unit only for a child of a  *)
(* wrong kind and misses such a child only on a cycle, in whatever order   *)
(* the hash gives rows and fields: for every table, not only small ones.   *)
THEOREM KindCheckInvariant == RacketSpec => []KindCheckIsExact
  BY MatInvariance, KindCheck, PTL

(* The row of a made node is the row it was made of.                       *)
LEMMA RowOfMade ==
    ASSUME NEW u \in Units, NEW m, AllMade(u, m, {}), NEW id \in DOMAIN m
    PROVE  /\ Row(m[id]) = u.rows[id]
           /\ \A i \in DOMAIN m[id].fields : IdOf(m[id].fields[i]) = Kids(u, id)[i]
           /\ Acyclic(RowGraph(u)) => \A i \in DOMAIN m[id].fields : IsNode(m[id].fields[i])
<1>1. NodeFits(u, m, {}, id)
  BY DEF AllMade
<1>2. PICK refs : refs = Kids(u, id)
  OBVIOUS
<1>3. PICK fields : fields = m[id].fields
  OBVIOUS
<1>4. /\ m[id] = [id |-> id, kind |-> u.rows[id].kind, text |-> u.rows[id].text,
                  fields |-> fields]
      /\ id \in DOMAIN u.rows /\ DOMAIN fields = DOMAIN refs
  BY <1>1, <1>2, <1>3 DEF NodeFits
<1>5. ASSUME NEW i \in DOMAIN refs
      PROVE  IdOf(fields[i]) = refs[i] /\ (Acyclic(RowGraph(u)) => IsNode(fields[i]))
  <2>1. MadeFor(u, id, i, fields[i], m, {})
    BY <1>1, <1>2, <1>3 DEF NodeFits
  <2>2. CASE refs[i] \in DOMAIN m /\ fields[i] = m[refs[i]]
    BY <2>2, MadeChildren
  <2>3. CASE fields[i] = Ref(refs[i]) /\ ~ Acyclic(RowGraph(u))
    BY <2>3, NodeOrRef
  <2> QED
    BY <1>2, <2>1, <2>2, <2>3 DEF MadeFor
<1>6. m[id].kind = u.rows[id].kind /\ m[id].text = u.rows[id].text
  BY <1>4, NodeOrRef
<1>7. refs \in Seq(DOMAIN u.rows)
  BY <1>2, <1>4, UnitLaws DEF IsUnit
<1>8. [i \in DOMAIN fields |-> IdOf(fields[i])] = refs
  <2>1. PICK f : f = [i \in DOMAIN fields |-> IdOf(fields[i])]
    OBVIOUS
  <2>2. refs = [i \in DOMAIN refs |-> refs[i]]
    BY <1>7
  <2>3. f = [i \in DOMAIN refs |-> f[i]] /\ \A i \in DOMAIN refs : f[i] = refs[i]
    BY <1>4, <1>5, <2>1
  <2>4. f = refs
    BY <2>2, <2>3, SameFunction
  <2> QED
    BY <2>1, <2>4
<1>9. u.rows[id] = [kind |-> u.rows[id].kind, text |-> u.rows[id].text, refs |-> refs]
  BY <1>2, <1>4, UnitLaws DEF Kids
<1>10. Row(m[id]) = u.rows[id]
  BY <1>3, <1>6, <1>8, <1>9 DEF Row
<1> QED
  BY <1>2, <1>3, <1>4, <1>5, <1>10

LEMMA RootLaws ==
    ASSUME MatInv, phase = "built", NEW m, m = matMemo
    PROVE  /\ unit \in Units /\ AllMade(unit, m, {}) /\ Layered(m)
           /\ unit.root \in DOMAIN m
           /\ DOMAIN m = Reachable(RowGraph(unit), unit.root)
           /\ DOMAIN m \subseteq DOMAIN unit.rows
           /\ Parts(m[unit.root]) = { m[id] : id \in DOMAIN m }
           /\ IsFiniteSet(Parts(m[unit.root]))
           /\ \A id \in DOMAIN m : m[id].id = id /\ HoldsMade(m[id], m)
<1>1. /\ unit \in Units /\ Making(unit, m, active, <<>>) /\ TreeMade(unit, m)
  BY DEF MatInv
<1>2. active = {}
  BY <1>1, OneCall DEF Making
<1>3. Making(unit, m, {}, <<>>)
  BY <1>1, <1>2
<1>4. AllMade(unit, m, {}) /\ Layered(m)
  BY <1>3 DEF Making
<1>5. IsUnit(unit) /\ IsFiniteSet(DOMAIN unit.rows)
  BY <1>1, UnitLaws
<1>6. DOMAIN m \subseteq DOMAIN unit.rows
  BY <1>4 DEF AllMade, NodeFits
<1>7. unit.root \in DOMAIN m
  BY <1>1 DEF TreeMade
<1>8. TreeMade(unit, m)
  BY <1>1
<1>9. /\ DOMAIN m = Reachable(RowGraph(unit), unit.root)
      /\ Parts(m[unit.root]) = { m[id] : id \in DOMAIN m }
      /\ IsFiniteSet(Parts(m[unit.root]))
      /\ \A id \in DOMAIN m : m[id].id = id /\ HoldsMade(m[id], m)
  BY <1>3, <1>5, <1>8, RootIsTable
<1> QED
  BY <1>1, <1>4, <1>6, <1>7, <1>9

LEMMA TreeTable == MatInv => TreeIsTable
<1> SUFFICES ASSUME MatInv, phase = "built"
             PROVE  /\ OneNodePerId(Mat!Root)
                    /\ Rows(Mat!Root) = Part(unit.rows, unit.root)
                    /\ Acyclic(RowGraph(unit)) =>
                         \A p \in Parts(Mat!Root) : \A i \in DOMAIN p.fields : IsNode(p.fields[i])
  BY MatTrees, MatGraphs DEF TreeIsTable, Mat!TreeIsTable, Mat!IsAcyclic
<1>1. PICK m : m = matMemo
  OBVIOUS
<1>2. PICK whole : whole = Mat!Root
  OBVIOUS
<1>3. /\ unit \in Units /\ AllMade(unit, m, {})
      /\ DOMAIN m = Reachable(RowGraph(unit), unit.root)
      /\ Parts(whole) = { m[id] : id \in DOMAIN m }
      /\ \A id \in DOMAIN m : m[id].id = id
  BY <1>1, <1>2, RootLaws, MatTrees
<1>4. OneNodePerId(whole)
  BY <1>3 DEF OneNodePerId
<1>5. { p.id : p \in Parts(whole) } = DOMAIN m
  BY <1>3
<1>6. ASSUME NEW id \in DOMAIN m
      PROVE  Row(CHOOSE p \in Parts(whole) : p.id = id) = unit.rows[id]
  <2>1. \A p \in Parts(whole) : p.id = id => p = m[id]
    BY <1>3
  <2>2. m[id] \in Parts(whole) /\ m[id].id = id
    BY <1>3
  <2>3. (CHOOSE p \in Parts(whole) : p.id = id) = m[id]
    BY <2>1, <2>2
  <2> QED
    BY <1>3, <2>3, RowOfMade
<1>7. Rows(whole) = Part(unit.rows, unit.root)
  BY <1>3, <1>5, <1>6 DEF Rows, Part, RowGraph
<1>8. Acyclic(RowGraph(unit)) =>
        \A p \in Parts(whole) : \A i \in DOMAIN p.fields : IsNode(p.fields[i])
  BY <1>3, RowOfMade
<1> QED
  BY <1>2, <1>4, <1>7, <1>8

(* What go-ast-unit-root-node returns says of every node what its row      *)
(* says, in one node for each ID, and without references where no cycle    *)
(* is: for every table and every order of the hash.                        *)
THEOREM TreeTableInvariant == RacketSpec => []TreeIsTable
  BY MatInvariance, TreeTable, PTL

-----------------------------------------------------------------------------
(* Passes over trees                                                       *)

BehaviourFor(pa, kind) ==
    IF kind \in DOMAIN pa.handler THEN pa.handler[kind] ELSE "keep"

IsUnfit(pa, node) ==
    \/ node.kind \in DOMAIN pa.handler
       /\ pa.handler[node.kind] \in {"changeId", "returnOther"}
    \/ node.kind \notin DOMAIN pa.handler /\ node.kind \in GoKinds /\ pa.policy = "reject"

Around(id, n, child) == [id |-> <<id, n>>, kind |-> "wrapper",
                         text |-> "new", fields |-> <<child>>]

(* What becomes of a node if its fields became f.                          *)
ReplyText(b, p) == IF b = "edit" THEN "new" ELSE p.text

ReplyFields(b, p, f, n) ==
    IF b = "dropFirst" /\ p.fields # <<>> THEN Tail(f)
    ELSE IF b = "wrapFirst" /\ p.fields # <<>>
    THEN [f EXCEPT ![1] = Around(p.id, n, f[1])]
    ELSE f

Reply(b, p, f, n) == [id |-> p.id, kind |-> p.kind, text |-> ReplyText(b, p),
                      fields |-> ReplyFields(b, p, f, n)]

Out(m, value) == IF IsNode(value) THEN m[value.id] ELSE value

Outs(m, p) == [i \in DOMAIN p.fields |-> Out(m, p.fields[i])]

NoOwnId(t) ==
    \A p \in Parts(t) : \A child \in Children(p) :
        \A q \in Parts(child) : q.id # p.id

Plain(p) == p = [id |-> p.id, kind |-> p.kind, text |-> p.text, fields |-> p.fields]

LEMMA TreeLaws ==
    ASSUME NEW t, IsTree(t)
    PROVE  /\ t \in Parts(t) /\ ClosedNodes(Parts(t)) /\ IsFiniteSet(Parts(t))
           /\ \A p \in Parts(t) :
                /\ Plain(p) /\ IsSeq(p.fields) /\ IsNode(p) /\ IdOf(p) = p.id
                /\ \A i \in DOMAIN p.fields :
                     IsNode(p.fields[i]) => p.fields[i] \in Parts(t) /\ p.fields[i] \in Children(p)
                /\ p \in Parts(p) /\ ClosedNodes(Parts(p)) /\ Parts(p) \subseteq Parts(t)
<1>1. t \in Parts(t) /\ ClosedNodes(Parts(t)) /\ IsFiniteSet(Parts(t))
  BY DEF IsTree, ClosedNodes
<1>2. ASSUME NEW p \in Parts(t)
      PROVE  Plain(p) /\ IsSeq(p.fields)
  BY DEF IsTree, Plain, IsSeq
<1>3. ASSUME NEW p \in Parts(t)
      PROVE  IsNode(p) /\ IdOf(p) = p.id
  BY <1>2, NodeOrRef DEF Plain
<1>4. ASSUME NEW p \in Parts(t), NEW i \in DOMAIN p.fields, IsNode(p.fields[i])
      PROVE  p.fields[i] \in Parts(t) /\ p.fields[i] \in Children(p)
  <2>1. p.fields[i] \in Children(p)
    BY <1>4 DEF Children
  <2> QED
    BY <1>1, <2>1 DEF ClosedNodes, Nested
<1>5. ASSUME NEW p \in Parts(t)
      PROVE  p \in Parts(p) /\ ClosedNodes(Parts(p)) /\ Parts(p) \subseteq Parts(t)
  BY <1>1, PartsLaws
<1> QED
  BY <1>1, <1>2, <1>3, <1>4, <1>5

LEMMA PassOps ==
    /\ \A x : Pass!IsNode(x) = IsNode(x) /\ Pass!IdOf(x) = IdOf(x) /\ Pass!Ref(x) = Ref(x)
    /\ \A x : Pass!Children(x) = Children(x) /\ Pass!Parts(x) = Parts(x)
    /\ \A x : Pass!OneNodePerId(x) <=> OneNodePerId(x)
    /\ \A x : Pass!NoIdInItself(x) <=> NoOwnId(x)
    /\ \A t, k, v : Pass!Put(t, k, v) = Put(t, k, v)
    /\ \A f, i, v : Pass!With(f, i, v) = Given(f, i, v)
    /\ \A x : Pass!Unfit(x) <=> IsUnfit(pass, x)
    /\ \A k : Pass!Handled(k) <=> k \in DOMAIN pass.handler
    /\ \A i, n, c : Pass!Wrapper(i, n, c) = Around(i, n, c)
<1>1. \A x : Pass!IsNode(x) = IsNode(x)
  BY DEF Pass!IsNode, IsNode
<1>2. \A x : Pass!IdOf(x) = IdOf(x)
  BY DEF Pass!IsNode, IsNode, Pass!IdOf, IdOf
<1>3. \A x : Pass!Ref(x) = Ref(x)
  BY DEF Pass!Ref, Ref
<1>4. \A x : Pass!Children(x) = Children(x)
  BY DEF Pass!IsNode, IsNode, Pass!Children, Children
<1>5. \A x : Pass!Parts(x) = Parts(x)
  BY DEF Pass!IsNode, IsNode, Pass!Children, Children, Pass!Nested, Nested, Pass!Parts, Parts
<1>6. \A x : Pass!OneNodePerId(x) <=> OneNodePerId(x)
  BY <1>5 DEF Pass!OneNodePerId, OneNodePerId
<1>7. \A x : Pass!NoIdInItself(x) <=> NoOwnId(x)
  BY <1>4, <1>5 DEF Pass!NoIdInItself, NoOwnId
<1>8. \A t, k, v : Pass!Put(t, k, v) = Put(t, k, v)
  BY DEF Pass!Put, Put
<1>9. \A f, i, v : Pass!With(f, i, v) = Given(f, i, v)
  BY <1>8 DEF Pass!With, Given
<1>10. \A k : Pass!Handled(k) <=> k \in DOMAIN pass.handler
  BY DEF Pass!Handled
<1>11. \A x : Pass!Unfit(x) <=> IsUnfit(pass, x)
  BY <1>10 DEF Pass!Unfit, IsUnfit
<1>12. \A i, n, c : Pass!Wrapper(i, n, c) = Around(i, n, c)
  BY DEF Pass!Wrapper, Around
<1> QED
  BY <1>1, <1>2, <1>3, <1>4, <1>5, <1>6, <1>7, <1>8, <1>9, <1>10, <1>11, <1>12

(* A node with other contents.                                             *)
LEMMA ChangedNode ==
    ASSUME NEW i, NEW k, NEW t, NEW f, NEW p,
           p = [id |-> i, kind |-> k, text |-> t, fields |-> f], NEW x
    PROVE  /\ [p EXCEPT !.id = x] = [id |-> x, kind |-> k, text |-> t, fields |-> f]
           /\ [p EXCEPT !.text = x] = [id |-> i, kind |-> k, text |-> x, fields |-> f]
           /\ [p EXCEPT !.fields = x] = [id |-> i, kind |-> k, text |-> t, fields |-> x]
<1>1. PICK D : D = {"id", "kind", "text", "fields"}
  OBVIOUS
<1>2. DOMAIN p = D /\ p = [y \in D |-> p[y]] /\ p.id = i /\ p.kind = k /\ p.text = t /\ p.fields = f
  BY <1>1
<1>3. [p EXCEPT !.id = x] = [id |-> x, kind |-> k, text |-> t, fields |-> f]
  <2>1. PICK g : g = [p EXCEPT !.id = x]
    OBVIOUS
  <2>2. PICK r : r = [id |-> x, kind |-> k, text |-> t, fields |-> f]
    OBVIOUS
  <2>3. g = [y \in D |-> g[y]] /\ r = [y \in D |-> r[y]]
    BY <1>1, <1>2, <2>1, <2>2
  <2>4. g.id = r.id /\ g.kind = r.kind /\ g.text = r.text /\ g.fields = r.fields
    BY <1>1, <1>2, <2>1, <2>2
  <2>5. g = r
    BY <1>1, <2>3, <2>4, SameFunction
  <2> QED
    BY <2>1, <2>2, <2>5
<1>4. [p EXCEPT !.text = x] = [id |-> i, kind |-> k, text |-> x, fields |-> f]
  <2>1. PICK g : g = [p EXCEPT !.text = x]
    OBVIOUS
  <2>2. PICK r : r = [id |-> i, kind |-> k, text |-> x, fields |-> f]
    OBVIOUS
  <2>3. g = [y \in D |-> g[y]] /\ r = [y \in D |-> r[y]]
    BY <1>1, <1>2, <2>1, <2>2
  <2>4. g.id = r.id /\ g.kind = r.kind /\ g.text = r.text /\ g.fields = r.fields
    BY <1>1, <1>2, <2>1, <2>2
  <2>5. g = r
    BY <1>1, <2>3, <2>4, SameFunction
  <2> QED
    BY <2>1, <2>2, <2>5
<1>5. [p EXCEPT !.fields = x] = [id |-> i, kind |-> k, text |-> t, fields |-> x]
  <2>1. PICK g : g = [p EXCEPT !.fields = x]
    OBVIOUS
  <2>2. PICK r : r = [id |-> i, kind |-> k, text |-> t, fields |-> x]
    OBVIOUS
  <2>3. g = [y \in D |-> g[y]] /\ r = [y \in D |-> r[y]]
    BY <1>1, <1>2, <2>1, <2>2
  <2>4. g.id = r.id /\ g.kind = r.kind /\ g.text = r.text /\ g.fields = r.fields
    BY <1>1, <1>2, <2>1, <2>2
  <2>5. g = r
    BY <1>1, <2>3, <2>4, SameFunction
  <2> QED
    BY <2>1, <2>2, <2>5
<1> QED
  BY <1>3, <1>4, <1>5

LEMMA SeqLike ==
    ASSUME NEW s, IsSeq(s), NEW f, f = [i \in DOMAIN s |-> f[i]]
    PROVE  IsSeq(f) /\ Len(f) = Len(s) /\ DOMAIN f = DOMAIN s /\ (f = <<>> <=> s = <<>>)
<1>1. Len(s) \in Nat /\ DOMAIN s = 1 .. Len(s)
  BY SeqLaws
<1>2. PICK S : S = { f[i] : i \in DOMAIN f }
  OBVIOUS
<1>3. f \in [1 .. Len(s) -> S]
  BY <1>1, <1>2
<1>4. f \in Seq(S) /\ Len(f) = Len(s)
  BY <1>1, <1>3
<1>5. IsSeq(f)
  BY <1>2, <1>4 DEF IsSeq
<1> QED
  BY <1>1, <1>4, <1>5, SeqLaws

(* A node whose fields became f, before it is handed to a handler.         *)
ToHandle(p, f, node, n) ==
    /\ Plain(p) /\ IsSeq(p.fields) /\ f = [i \in DOMAIN p.fields |-> f[i]]
    /\ node = [id |-> p.id, kind |-> p.kind, text |-> p.text, fields |-> f]
    /\ p.id # <<p.id, n>>

(* What handlers answer.                                                   *)
Handles(b, p, f, n, answer) ==
    /\ b \notin {"changeId", "returnOther"} =>
         answer = Reply(b, p, f, n) /\ IsNode(answer) /\ IdOf(answer) = p.id
    /\ b \in {"changeId", "returnOther"} =>
         ~ (IsNode(answer) /\ IdOf(answer) = p.id)

LEMMA HandleLaws ==
    ASSUME NEW p, NEW f, NEW node, NEW n, ToHandle(p, f, node, n), NEW b \in Pass!Behaviours
    PROVE  Handles(b, p, f, n, Pass!Handle(b, node, n))
<1> USE DEF ToHandle, Handles
<1>1. node.id = p.id /\ node.kind = p.kind /\ node.text = p.text /\ node.fields = f
  OBVIOUS
<1>2. node.fields # <<>> <=> p.fields # <<>>
  BY <1>1, SeqLike
<1>3. PICK answer : answer = Pass!Handle(b, node, n)
  OBVIOUS
<1>4. PICK r : r = Reply(b, p, f, n)
  OBVIOUS
<1>5. IsNode(r) /\ IdOf(r) = p.id
  BY <1>4, NodeOrRef DEF Reply
<1>6. CASE b = "edit"
  <2>1. answer = [node EXCEPT !.text = "new"]
    BY <1>3, <1>6 DEF Pass!Handle
  <2>2. answer = [id |-> p.id, kind |-> p.kind, text |-> "new", fields |-> f]
    BY <2>1, ChangedNode
  <2>3. answer = r
    BY <1>4, <1>6, <2>2 DEF Reply, ReplyText, ReplyFields
  <2> QED
    BY <1>3, <1>4, <1>5, <1>6, <2>3
<1>7. CASE b = "dropFirst" /\ p.fields # <<>>
  <2>1. answer = [node EXCEPT !.fields = Tail(@)]
    BY <1>2, <1>3, <1>7 DEF Pass!Handle
  <2>2. answer = [id |-> p.id, kind |-> p.kind, text |-> p.text, fields |-> Tail(f)]
    BY <1>1, <2>1, ChangedNode
  <2>3. answer = r
    BY <1>4, <1>7, <2>2 DEF Reply, ReplyText, ReplyFields
  <2> QED
    BY <1>3, <1>4, <1>5, <1>7, <2>3
<1>8. CASE b = "wrapFirst" /\ p.fields # <<>>
  <2>1. answer = [node EXCEPT !.fields[1] = Pass!Wrapper(node.id, n, @)]
    BY <1>2, <1>3, <1>8 DEF Pass!Handle
  <2>2. PICK g : g = [f EXCEPT ![1] = Around(p.id, n, f[1])]
    OBVIOUS
  <2>3. answer = [node EXCEPT !.fields = g]
    BY <1>1, <2>1, <2>2, PassOps
  <2>4. answer = [id |-> p.id, kind |-> p.kind, text |-> p.text, fields |-> g]
    BY <2>3, ChangedNode
  <2>5. answer = r
    BY <1>4, <1>8, <2>2, <2>4 DEF Reply, ReplyText, ReplyFields
  <2> QED
    BY <1>3, <1>4, <1>5, <1>8, <2>5
<1>9. CASE b = "changeId"
  <2>1. answer = [node EXCEPT !.id = <<@, n>>]
    BY <1>3, <1>9 DEF Pass!Handle
  <2>2. answer = [id |-> <<p.id, n>>, kind |-> p.kind, text |-> p.text, fields |-> f]
    BY <1>1, <2>1, ChangedNode
  <2>3. IdOf(answer) # p.id
    BY <2>2, NodeOrRef
  <2> QED
    BY <1>3, <1>9, <2>3
<1>10. CASE b = "returnOther"
  <2>1. answer = Ref(p.id)
    BY <1>1, <1>3, <1>10, PassOps DEF Pass!Handle
  <2> QED
    BY <1>3, <1>10, <2>1, NodeOrRef
<1>11. CASE b = "keep" \/ (b \in {"dropFirst", "wrapFirst"} /\ p.fields = <<>>)
  <2>1. answer = node
    BY <1>2, <1>3, <1>11 DEF Pass!Handle
  <2>2. node = r
    BY <1>4, <1>11 DEF Reply, ReplyText, ReplyFields
  <2> QED
    BY <1>3, <1>4, <1>5, <1>11, <2>1, <2>2
<1>12. \/ b = "edit" \/ b = "changeId" \/ b = "returnOther"
       \/ b = "dropFirst" /\ p.fields # <<>>
       \/ b = "wrapFirst" /\ p.fields # <<>>
       \/ b = "keep" \/ (b \in {"dropFirst", "wrapFirst"} /\ p.fields = <<>>)
  BY DEF Pass!Behaviours
<1> QED
  BY <1>6, <1>7, <1>8, <1>9, <1>10, <1>11, <1>12

NodeCall(node) == [node |-> node, todo |-> DOMAIN node.fields, at |-> 0, done |-> <<>>]

(* What stands for the i-th field of a node.                               *)
MappedFor(t, m, p, i, v) ==
    /\ IsNode(p.fields[i]) => p.fields[i].id \in DOMAIN m
    /\ NoOwnId(t) => v = Out(m, p.fields[i])

MapFits(t, m, f) ==
    /\ f = [node |-> f.node, todo |-> f.todo, at |-> f.at, done |-> f.done]
    /\ f.node \in Parts(t)
    /\ f.todo \subseteq DOMAIN f.node.fields
    /\ DOMAIN f.done = DOMAIN f.node.fields \ f.todo
    /\ \A i \in DOMAIN f.done : MappedFor(t, m, f.node, i, f.done[i])

(* A remembered answer is one to a node of the tree, all of whose children *)
(* were answered to before.                                                *)
AnswerTo(t, pa, m, id, p) ==
    /\ p.id = id /\ ~ IsUnfit(pa, p)
    /\ \A i \in DOMAIN p.fields : IsNode(p.fields[i]) => p.fields[i].id \in DOMAIN m
    /\ NoOwnId(t) => m[id] = Reply(BehaviourFor(pa, p.kind), p, Outs(m, p), 1)

AnswerFits(t, pa, m, id) == \E p \in Parts(t) : AnswerTo(t, pa, m, id, p)

AllAnswered(t, pa, m) == \A id \in DOMAIN m : AnswerFits(t, pa, m, id)

(* Each call waits for the one above it.                                   *)
Waiting(s) ==
    \A k \in 1 .. Len(s) - 1 :
        LET p == s[k].node
            i == s[k].at
        IN i \in s[k].todo /\ IsNode(p.fields[i]) /\ s[k + 1].node = p.fields[i]

(* Where no node holds its own ID, no node is handled twice.               *)
Unanswered(t, m, s) ==
    NoOwnId(t) => \A k \in 1 .. Len(s) : s[k].node.id \notin DOMAIN m

Counted(t, m, c) ==
    /\ \A id \in DOMAIN c : c[id] \in Nat
    /\ NoOwnId(t) => DOMAIN c \subseteq DOMAIN m

Mapping(t, pa, m, s) ==
    /\ IsTree(t) /\ IsSeq(s)
    /\ \A k \in 1 .. Len(s) : MapFits(t, m, s[k])
    /\ Waiting(s) /\ Unanswered(t, m, s)
    /\ AllAnswered(t, pa, m)

LEMMA NodeGivenLaws ==
    ASSUME NEW f, f = [node |-> f.node, todo |-> f.todo, at |-> f.at, done |-> f.done],
           NEW i, NEW v
    PROVE  /\ Given(f, i, v) = [node |-> f.node, todo |-> f.todo \ {i}, at |-> 0,
                                done |-> Put(f.done, i, v)]
           /\ [f EXCEPT !.at = i] = [node |-> f.node, todo |-> f.todo, at |-> i, done |-> f.done]
<1>1. PICK D : D = {"node", "todo", "at", "done"}
  OBVIOUS
<1>2. DOMAIN f = D /\ f = [x \in D |-> f[x]]
  BY <1>1
<1>3. Given(f, i, v) = [node |-> f.node, todo |-> f.todo \ {i}, at |-> 0,
                        done |-> Put(f.done, i, v)]
  <2>1. PICK g : g = Given(f, i, v)
    OBVIOUS
  <2>2. PICK r : r = [node |-> f.node, todo |-> f.todo \ {i}, at |-> 0,
                      done |-> Put(f.done, i, v)]
    OBVIOUS
  <2>3. g = [x \in D |-> g[x]] /\ r = [x \in D |-> r[x]]
    BY <1>1, <1>2, <2>1, <2>2 DEF Given
  <2>4. g.node = r.node /\ g.todo = r.todo /\ g.at = r.at /\ g.done = r.done
    BY <1>1, <1>2, <2>1, <2>2 DEF Given
  <2>5. g = r
    BY <1>1, <2>3, <2>4, SameFunction
  <2> QED
    BY <2>1, <2>2, <2>5
<1>4. [f EXCEPT !.at = i] = [node |-> f.node, todo |-> f.todo, at |-> i, done |-> f.done]
  <2>1. PICK g : g = [f EXCEPT !.at = i]
    OBVIOUS
  <2>2. PICK r : r = [node |-> f.node, todo |-> f.todo, at |-> i, done |-> f.done]
    OBVIOUS
  <2>3. g = [x \in D |-> g[x]] /\ r = [x \in D |-> r[x]]
    BY <1>1, <1>2, <2>1, <2>2
  <2>4. g.node = r.node /\ g.todo = r.todo /\ g.at = r.at /\ g.done = r.done
    BY <1>1, <1>2, <2>1, <2>2
  <2>5. g = r
    BY <1>1, <2>3, <2>4, SameFunction
  <2> QED
    BY <2>1, <2>2, <2>5
<1> QED
  BY <1>3, <1>4

LEMMA NodeCallFits ==
    ASSUME NEW t, NEW m, NEW p \in Parts(t)
    PROVE  MapFits(t, m, NodeCall(p)) /\ NodeCall(p).node = p
BY EmptyTable DEF MapFits, NodeCall

LEMMA MappingStarts ==
    ASSUME NEW t, IsTree(t), NEW pa
    PROVE  Mapping(t, pa, <<>>, <<NodeCall(t)>>)
<1>1. PICK s : s = <<NodeCall(t)>>
  OBVIOUS
<1>2. IsSeq(s) /\ Len(s) = 1 /\ s[1] = NodeCall(t)
  BY <1>1, OneCall
<1>3. 1 .. Len(s) = {1} /\ 1 .. Len(s) - 1 = {}
  BY <1>2
<1>4. MapFits(t, <<>>, s[1]) /\ s[1].node = t
  BY <1>2, TreeLaws, NodeCallFits
<1>5. \A k \in 1 .. Len(s) : MapFits(t, <<>>, s[k])
  BY <1>3, <1>4
<1>6. Waiting(s) /\ Unanswered(t, <<>>, s) /\ AllAnswered(t, pa, <<>>)
  BY <1>3, EmptyTable DEF Waiting, Unanswered, AllAnswered
<1>7. Mapping(t, pa, <<>>, s)
  BY <1>2, <1>5, <1>6 DEF Mapping
<1> QED
  BY <1>1, <1>7

(* The top call is given what became of its i-th field, or calls for it.   *)
GivesField(t, m, s, i, v, s2) ==
    /\ s # <<>> /\ i \in s[Len(s)].todo
    /\ MappedFor(t, m, s[Len(s)].node, i, v)
    /\ Replaces(s, s2, Given(s[Len(s)], i, v))

CallsField(m, s, i, s2) ==
    LET value == s[Len(s)].node.fields[i]
    IN /\ s # <<>> /\ i \in s[Len(s)].todo
       /\ IsNode(value) /\ value.id \notin DOMAIN m
       /\ Adds(s, s2, [s[Len(s)] EXCEPT !.at = i], NodeCall(value))

SameNodes(s, s2) == \A k \in 1 .. Len(s) : s2[k].node = s[k].node

LEMMA MappingGives ==
    ASSUME NEW t, NEW pa, NEW m, NEW s, Mapping(t, pa, m, s),
           NEW i, NEW v, NEW s2, GivesField(t, m, s, i, v, s2)
    PROVE  Mapping(t, pa, m, s2) /\ SameNodes(s, s2)
<1> USE DEF GivesField, SameNodes
<1>1. Len(s) \in Nat \ {0} /\ Len(s2) = Len(s) /\ IsSeq(s2)
  BY SeqLaws DEF Mapping, Replaces
<1>2. PICK n : n = Len(s)
  OBVIOUS
<1>3. PICK f : f = s[n]
  OBVIOUS
<1>4. MapFits(t, m, f)
  BY <1>1, <1>2, <1>3 DEF Mapping
<1>5. s2[n] = [node |-> f.node, todo |-> f.todo \ {i}, at |-> 0, done |-> Put(f.done, i, v)]
  <2>1. s2[n] = Given(f, i, v)
    BY <1>2, <1>3 DEF Replaces
  <2>2. f = [node |-> f.node, todo |-> f.todo, at |-> f.at, done |-> f.done]
    BY <1>4 DEF MapFits
  <2> QED
    BY <2>1, <2>2, NodeGivenLaws
<1>6. \A k \in 1 .. n - 1 : s2[k] = s[k]
  BY <1>2 DEF Replaces
<1>7. MapFits(t, m, s2[n]) /\ s2[n].node = s[n].node
  <2>1. /\ s2[n].node = f.node /\ s2[n].todo = f.todo \ {i} /\ s2[n].at = 0
        /\ s2[n].done = Put(f.done, i, v)
    BY <1>5
  <2>2. i \in DOMAIN f.node.fields
    BY <1>2, <1>3, <1>4 DEF MapFits
  <2>3. ASSUME NEW j \in DOMAIN f.done \cup {i}
        PROVE  MappedFor(t, m, f.node, j, Put(f.done, i, v)[j])
    <3>1. PICK p : p = Put(f.done, i, v)
      OBVIOUS
    <3>2. p[i] = v /\ \A x \in DOMAIN f.done : x # i => p[x] = f.done[x]
      BY <3>1 DEF Put
    <3>3. CASE j = i
      BY <1>2, <1>3, <3>1, <3>2, <3>3
    <3>4. CASE j # i
      BY <1>4, <3>1, <3>2, <3>4 DEF MapFits
    <3> QED
      BY <3>3, <3>4
  <2>4. DOMAIN Put(f.done, i, v) = DOMAIN f.done \cup {i}
    BY PutLaws
  <2>5. DOMAIN s2[n].done = DOMAIN f.node.fields \ s2[n].todo
    BY <1>4, <2>1, <2>2, <2>4 DEF MapFits
  <2>6. s2[n] = [node |-> s2[n].node, todo |-> s2[n].todo, at |-> s2[n].at, done |-> s2[n].done]
    BY <1>5, <2>1
  <2>7. \A j \in DOMAIN s2[n].done : MappedFor(t, m, s2[n].node, j, s2[n].done[j])
    BY <2>1, <2>3, <2>4
  <2>8. s2[n].node \in Parts(t) /\ s2[n].todo \subseteq DOMAIN s2[n].node.fields
    BY <1>4, <2>1 DEF MapFits
  <2> QED
    BY <1>3, <2>1, <2>5, <2>6, <2>7, <2>8 DEF MapFits
<1>8. \A k \in 1 .. n : s2[k].node = s[k].node
  BY <1>1, <1>2, <1>6, <1>7
<1>9. \A k \in 1 .. n : MapFits(t, m, s2[k])
  BY <1>1, <1>2, <1>6, <1>7 DEF Mapping
<1>10. Waiting(s2)
  <2>1. ASSUME NEW k \in 1 .. n - 1
        PROVE  LET p == s2[k].node
                   j == s2[k].at
               IN j \in s2[k].todo /\ IsNode(p.fields[j]) /\ s2[k + 1].node = p.fields[j]
    <3>1. k + 1 \in 1 .. n
      BY <1>1, <1>2
    <3>2. s2[k] = s[k] /\ s2[k + 1].node = s[k + 1].node
      BY <1>6, <1>8, <3>1
    <3>3. Waiting(s)
      BY DEF Mapping
    <3> QED
      BY <1>2, <3>2, <3>3 DEF Waiting
  <2> QED
    BY <1>1, <1>2, <2>1 DEF Waiting
<1>11. Unanswered(t, m, s2)
  BY <1>1, <1>2, <1>8 DEF Mapping, Unanswered
<1> QED
  BY <1>1, <1>2, <1>8, <1>9, <1>10, <1>11 DEF Mapping

LEMMA MappingCalls ==
    ASSUME NEW t, NEW pa, NEW m, NEW s, Mapping(t, pa, m, s),
           NEW i, NEW s2, CallsField(m, s, i, s2)
    PROVE  Mapping(t, pa, m, s2) /\ SameNodes(s, s2)
<1> USE DEF CallsField, SameNodes
<1>1. Len(s) \in Nat \ {0} /\ Len(s2) = Len(s) + 1 /\ IsSeq(s2)
  BY SeqLaws DEF Mapping, Adds
<1>2. PICK n : n = Len(s)
  OBVIOUS
<1>3. PICK f : f = s[n]
  OBVIOUS
<1>4. PICK value : value = f.node.fields[i]
  OBVIOUS
<1>5. MapFits(t, m, f)
  BY <1>1, <1>2, <1>3 DEF Mapping
<1>6. s2[n] = [node |-> f.node, todo |-> f.todo, at |-> i, done |-> f.done]
  <2>1. s2[n] = [f EXCEPT !.at = i]
    BY <1>2, <1>3 DEF Adds
  <2>2. f = [node |-> f.node, todo |-> f.todo, at |-> f.at, done |-> f.done]
    BY <1>5 DEF MapFits
  <2> QED
    BY <2>1, <2>2, NodeGivenLaws
<1>7. s2[n].node = f.node /\ s2[n].todo = f.todo /\ s2[n].at = i /\ s2[n].done = f.done
  BY <1>6
<1>8. MapFits(t, m, s2[n])
  BY <1>5, <1>6, <1>7 DEF MapFits
<1>9. value \in Parts(t) /\ IsNode(value) /\ value.id \notin DOMAIN m
  <2>1. IsNode(value) /\ value.id \notin DOMAIN m
    BY <1>2, <1>3, <1>4
  <2>2. f.node \in Parts(t) /\ i \in DOMAIN f.node.fields
    BY <1>2, <1>3, <1>5 DEF MapFits
  <2>3. IsTree(t)
    BY DEF Mapping
  <2> QED
    BY <1>4, <2>1, <2>2, <2>3, TreeLaws
<1>10. s2[n + 1].node = value /\ MapFits(t, m, s2[n + 1])
  <2>1. s2[n + 1] = NodeCall(value)
    BY <1>2, <1>3, <1>4 DEF Adds
  <2>2. MapFits(t, m, NodeCall(value)) /\ NodeCall(value).node = value
    BY <1>9, NodeCallFits
  <2> QED
    BY <2>1, <2>2, Zenon
<1>11. \A k \in 1 .. n - 1 : s2[k] = s[k]
  BY <1>2 DEF Adds
<1>12. \A k \in 1 .. n : s2[k].node = s[k].node
  BY <1>1, <1>2, <1>3, <1>7, <1>11
<1>13. ASSUME NEW k \in 1 .. n + 1 PROVE MapFits(t, m, s2[k])
  <2>1. k \in 1 .. n - 1 \/ k = n \/ k = n + 1
    BY <1>1, <1>2
  <2>2. CASE k \in 1 .. n - 1
    <3>1. k \in 1 .. n
      BY <1>1, <1>2, <2>2
    <3> QED
      BY <1>2, <1>11, <2>2, <3>1 DEF Mapping
  <2> QED
    BY <1>8, <1>10, <2>1, <2>2
<1>14. Waiting(s2)
  <2>1. ASSUME NEW k \in 1 .. n
        PROVE  LET p == s2[k].node
                   j == s2[k].at
               IN j \in s2[k].todo /\ IsNode(p.fields[j]) /\ s2[k + 1].node = p.fields[j]
    <3>1. CASE k = n
      BY <1>2, <1>3, <1>4, <1>7, <1>9, <1>10, <3>1
    <3>2. CASE k # n
      <4>1. k \in 1 .. n - 1 /\ k + 1 \in 1 .. n
        BY <1>1, <1>2, <3>2
      <4>2. s2[k] = s[k] /\ s2[k + 1].node = s[k + 1].node
        BY <1>11, <1>12, <4>1
      <4>3. Waiting(s)
        BY DEF Mapping
      <4> QED
        BY <1>2, <4>1, <4>2, <4>3 DEF Waiting
    <3> QED
      BY <3>1, <3>2
  <2>2. Len(s2) - 1 = n
    BY <1>1, <1>2
  <2> QED
    BY <2>1, <2>2 DEF Waiting
<1>15. Unanswered(t, m, s2)
  <2>1. ASSUME NoOwnId(t), NEW k \in 1 .. n + 1 PROVE s2[k].node.id \notin DOMAIN m
    <3>1. CASE k = n + 1
      BY <1>9, <1>10, <3>1
    <3>2. CASE k # n + 1
      <4>1. k \in 1 .. n
        BY <1>1, <1>2, <3>2
      <4> QED
        BY <1>2, <1>12, <2>1, <4>1 DEF Mapping, Unanswered
    <3> QED
      BY <3>1, <3>2
  <2> QED
    BY <1>1, <1>2, <2>1 DEF Unanswered
<1>16. Len(s2) = n + 1 /\ IsTree(t) /\ AllAnswered(t, pa, m)
  BY <1>1, <1>2 DEF Mapping
<1> QED
  BY <1>1, <1>2, <1>12, <1>13, <1>14, <1>15, <1>16 DEF Mapping

(* More answers; where no node is handled twice, those there were remain.  *)
AnswersGrow(t, m, m2) ==
    /\ DOMAIN m \subseteq DOMAIN m2
    /\ NoOwnId(t) => \A x \in DOMAIN m : m2[x] = m[x]

LEMMA MappedForGrows ==
    ASSUME NEW t, NEW m, NEW m2, AnswersGrow(t, m, m2),
           NEW p, NEW i, NEW v, MappedFor(t, m, p, i, v)
    PROVE  MappedFor(t, m2, p, i, v)
BY DEF AnswersGrow, MappedFor, Out

LEMMA MapFitsGrows ==
    ASSUME NEW t, NEW m, NEW m2, AnswersGrow(t, m, m2), NEW f, MapFits(t, m, f)
    PROVE  MapFits(t, m2, f)
<1>1. \A i \in DOMAIN f.done : MappedFor(t, m2, f.node, i, f.done[i])
  BY MappedForGrows DEF MapFits
<1> QED
  BY <1>1 DEF MapFits

LEMMA SameOuts ==
    ASSUME NEW m, NEW m2, NEW p,
           \A i \in DOMAIN p.fields : Out(m2, p.fields[i]) = Out(m, p.fields[i])
    PROVE  Outs(m2, p) = Outs(m, p)
BY DEF Outs

LEMMA AnswerGrows ==
    ASSUME NEW t, NEW m, NEW m2, AnswersGrow(t, m, m2),
           NEW pa, NEW id \in DOMAIN m, AnswerFits(t, pa, m, id)
    PROVE  AnswerFits(t, pa, m2, id)
<1>1. PICK p \in Parts(t) : AnswerTo(t, pa, m, id, p)
  BY DEF AnswerFits
<1>2. \A i \in DOMAIN p.fields : IsNode(p.fields[i]) => p.fields[i].id \in DOMAIN m2
  BY <1>1 DEF AnswerTo, AnswersGrow
<1>3. ASSUME NoOwnId(t)
      PROVE  m2[id] = Reply(BehaviourFor(pa, p.kind), p, Outs(m2, p), 1)
  <2>1. \A i \in DOMAIN p.fields : Out(m2, p.fields[i]) = Out(m, p.fields[i])
    BY <1>1, <1>3 DEF AnswerTo, AnswersGrow, Out
  <2>2. Outs(m2, p) = Outs(m, p)
    BY <2>1, SameOuts
  <2>3. m2[id] = m[id]
    BY <1>3 DEF AnswersGrow
  <2> QED
    BY <1>1, <1>3, <2>2, <2>3 DEF AnswerTo
<1>4. AnswerTo(t, pa, m2, id, p)
  BY <1>1, <1>2, <1>3 DEF AnswerTo
<1> QED
  BY <1>4 DEF AnswerFits

(* A call is not for a node that has the ID of one of its callers.         *)
LEMMA NotItself ==
    ASSUME NEW t, NEW pa, NEW m, NEW s, Mapping(t, pa, m, s), NoOwnId(t),
           NEW j \in 1 .. Len(s) - 1
    PROVE  s[j].node.id # s[Len(s)].node.id
<1>1. PICK n \in Nat : n = Len(s) /\ j \in 1 .. n - 1
  BY SeqLaws DEF Mapping
<1>2. \A k \in 1 .. n : s[k].node \in Parts(t)
  BY <1>1 DEF Mapping, MapFits
<1>3. \A k \in 1 .. n - 1 : s[k + 1].node \in Children(s[k].node)
  <2>1. ASSUME NEW k \in 1 .. n - 1 PROVE s[k + 1].node \in Children(s[k].node)
    <3>1. Waiting(s)
      BY DEF Mapping
    <3>2. /\ s[k].at \in s[k].todo /\ IsNode(s[k].node.fields[s[k].at])
          /\ s[k + 1].node = s[k].node.fields[s[k].at]
      BY <1>1, <3>1 DEF Waiting
    <3>3. s[k].todo \subseteq DOMAIN s[k].node.fields
      <4>1. k \in 1 .. Len(s)
        BY <1>1
      <4> QED
        BY <4>1 DEF Mapping, MapFits
    <3> QED
      BY <3>2, <3>3 DEF Children
  <2> QED
    BY <2>1
<1>4. PICK child : child = s[j + 1].node
  OBVIOUS
<1>5. child \in Children(s[j].node) /\ child \in Parts(t) /\ s[j].node \in Parts(t)
  <2>1. j + 1 \in 1 .. n /\ j \in 1 .. n
    BY <1>1
  <2> QED
    BY <1>1, <1>2, <1>3, <1>4, <2>1
<1>6. child \in Parts(child) /\ ClosedNodes(Parts(child))
  BY <1>5, TreeLaws DEF Mapping
<1>7. s[n].node \in Parts(child)
  <2> DEFINE K == { k \in Nat : j + 1 + k <= n => s[j + 1 + k].node \in Parts(child) }
  <2>1. 0 \in K
    BY <1>1, <1>4, <1>6
  <2>2. ASSUME NEW k \in Nat, k \in K PROVE k + 1 \in K
    <3> SUFFICES ASSUME j + 1 + (k + 1) <= n
                 PROVE  s[j + 1 + (k + 1)].node \in Parts(child)
      OBVIOUS
    <3>1. j + 1 + k \in 1 .. n - 1 /\ j + 1 + k <= n /\ j + 1 + (k + 1) = (j + 1 + k) + 1
      BY <1>1
    <3>2. s[j + 1 + k].node \in Parts(child)
      BY <2>2, <3>1
    <3>3. s[(j + 1 + k) + 1].node \in Children(s[j + 1 + k].node)
      BY <1>3, <3>1
    <3>4. s[(j + 1 + k) + 1].node \in Parts(child)
      BY <1>6, <3>2, <3>3 DEF ClosedNodes, Nested
    <3> QED
      BY <3>1, <3>4
  <2> HIDE DEF K
  <2>3. Nat \subseteq K
    BY <2>1, <2>2, Climb
  <2>4. PICK d \in Nat : j + 1 + d = n
    <3>1. n - (j + 1) \in Nat /\ j + 1 + (n - (j + 1)) = n
      BY <1>1
    <3> QED
      BY <3>1
  <2>5. d \in K
    BY <2>3
  <2>6. j + 1 + d <= n
    BY <1>1, <2>4
  <2> QED
    BY <2>4, <2>5, <2>6 DEF K
<1> QED
  BY <1>1, <1>5, <1>7 DEF NoOwnId

(* The top call has the answer to its node.                                *)
EndsNode(t, pa, m, s, answer, m2) ==
    LET p == s[Len(s)].node
    IN /\ s # <<>> /\ s[Len(s)].todo = {}
       /\ ~ IsUnfit(pa, p)
       /\ DOMAIN m2 = DOMAIN m \cup {p.id} /\ m2[p.id] = answer
       /\ \A x \in DOMAIN m : x # p.id => m2[x] = m[x]
       /\ NoOwnId(t) =>
            answer = Reply(BehaviourFor(pa, p.kind), p,
                           [i \in DOMAIN p.fields |-> s[Len(s)].done[i]], 1)

LEMMA MappingSettles ==
    ASSUME NEW t, NEW pa, NEW m, NEW s, Mapping(t, pa, m, s),
           NEW answer, NEW m2, EndsNode(t, pa, m, s, answer, m2),
           NEW q, IsSeq(q), Len(q) = Len(s) - 1, \A k \in 1 .. Len(s) - 1 : q[k] = s[k]
    PROVE  Mapping(t, pa, m2, q)
<1>1. PICK n \in Nat \ {0} : n = Len(s)
  BY SeqLaws DEF Mapping, EndsNode
<1>2. PICK f : f = s[n]
  OBVIOUS
<1>3. PICK p : p = f.node
  OBVIOUS
<1>4. /\ f.todo = {} /\ ~ IsUnfit(pa, p)
      /\ DOMAIN m2 = DOMAIN m \cup {p.id} /\ m2[p.id] = answer
      /\ \A x \in DOMAIN m : x # p.id => m2[x] = m[x]
      /\ NoOwnId(t) => answer = Reply(BehaviourFor(pa, p.kind), p,
                                      [i \in DOMAIN p.fields |-> f.done[i]], 1)
  BY <1>1, <1>2, <1>3 DEF EndsNode
<1>5. n \in 1 .. n /\ \A k \in 1 .. n - 1 : k \in 1 .. n
  BY <1>1
<1>6. MapFits(t, m, f)
  BY <1>1, <1>2, <1>5 DEF Mapping
<1>7. p \in Parts(t) /\ DOMAIN f.done = DOMAIN p.fields
      /\ \A i \in DOMAIN p.fields : MappedFor(t, m, p, i, f.done[i])
  <2>1. f.node \in Parts(t) /\ DOMAIN f.done = DOMAIN f.node.fields \ f.todo
        /\ \A i \in DOMAIN f.done : MappedFor(t, m, f.node, i, f.done[i])
    BY <1>6 DEF MapFits
  <2>2. DOMAIN f.done = DOMAIN p.fields
    BY <1>3, <1>4, <2>1
  <2> QED
    BY <1>3, <2>1, <2>2
<1>8. AnswersGrow(t, m, m2)
  <2>1. NoOwnId(t) => p.id \notin DOMAIN m
    BY <1>1, <1>2, <1>3, <1>5 DEF Mapping, Unanswered
  <2> QED
    BY <1>4, <2>1 DEF AnswersGrow
<1>9. AnswerFits(t, pa, m2, p.id)
  <2>1. \A i \in DOMAIN p.fields : MappedFor(t, m2, p, i, f.done[i])
    BY <1>7, <1>8, MappedForGrows
  <2>2. ASSUME NoOwnId(t)
        PROVE  m2[p.id] = Reply(BehaviourFor(pa, p.kind), p, Outs(m2, p), 1)
    <3>1. \A i \in DOMAIN p.fields : f.done[i] = Out(m2, p.fields[i])
      BY <2>1, <2>2 DEF MappedFor
    <3>2. Outs(m2, p) = [i \in DOMAIN p.fields |-> f.done[i]]
      BY <3>1 DEF Outs
    <3> QED
      BY <1>4, <2>2, <3>2
  <2>3. AnswerTo(t, pa, m2, p.id, p)
    BY <1>4, <2>1, <2>2 DEF AnswerTo, MappedFor
  <2> QED
    BY <1>7, <2>3 DEF AnswerFits
<1>10. AllAnswered(t, pa, m2)
  <2>1. AllAnswered(t, pa, m)
    BY DEF Mapping
  <2>2. ASSUME NEW id \in DOMAIN m PROVE AnswerFits(t, pa, m2, id)
    <3>1. AnswerFits(t, pa, m, id)
      BY <2>1 DEF AllAnswered
    <3> QED
      BY <1>8, <3>1, AnswerGrows
  <2> QED
    BY <1>4, <1>9, <2>2 DEF AllAnswered
<1>11. \A k \in 1 .. n - 1 : MapFits(t, m2, q[k])
  <2>1. ASSUME NEW k \in 1 .. n - 1 PROVE MapFits(t, m2, q[k])
    <3>1. MapFits(t, m, s[k])
      BY <1>1, <1>5 DEF Mapping
    <3>2. MapFits(t, m2, s[k])
      BY <1>8, <3>1, MapFitsGrows
    <3> QED
      BY <1>1, <3>2
  <2> QED
    BY <2>1
<1>12. Waiting(q)
  <2>1. ASSUME NEW k \in 1 .. (n - 1) - 1
        PROVE  LET r == q[k].node
                   i == q[k].at
               IN i \in q[k].todo /\ IsNode(r.fields[i]) /\ q[k + 1].node = r.fields[i]
    <3>1. k \in 1 .. Len(s) - 1 /\ k + 1 \in 1 .. Len(s) - 1
      BY <1>1
    <3>2. q[k] = s[k] /\ q[k + 1] = s[k + 1]
      BY <3>1
    <3>3. Waiting(s)
      BY DEF Mapping
    <3> QED
      BY <3>1, <3>2, <3>3 DEF Waiting
  <2> QED
    BY <1>1, <2>1 DEF Waiting
<1>13. Unanswered(t, m2, q)
  <2>1. ASSUME NoOwnId(t), NEW k \in 1 .. n - 1 PROVE q[k].node.id \notin DOMAIN m2
    <3>1. s[k].node.id # p.id
      BY <1>1, <1>2, <1>3, <2>1, NotItself
    <3>2. s[k].node.id \notin DOMAIN m
      BY <1>1, <1>5, <2>1 DEF Mapping, Unanswered
    <3>3. q[k] = s[k]
      BY <1>1
    <3> QED
      BY <1>4, <3>1, <3>2, <3>3
  <2> QED
    BY <1>1, <2>1 DEF Unanswered
<1>14. IsTree(t)
  BY DEF Mapping
<1> QED
  BY <1>1, <1>10, <1>11, <1>12, <1>13, <1>14 DEF Mapping

NodesBelow(s, s2) == \A k \in 1 .. Len(s) - 1 : s2[k].node = s[k].node

LEMMA MappingHandsOn ==
    ASSUME NEW t, NEW pa, NEW m, NEW s, Mapping(t, pa, m, s),
           NEW answer, NEW m2, EndsNode(t, pa, m, s, answer, m2)
    PROVE  /\ Len(s) = 1 => Mapping(t, pa, m2, <<>>)
           /\ \A s2 : Removes(s, s2, Given(s[Len(s) - 1], s[Len(s) - 1].at, answer))
                      => Mapping(t, pa, m2, s2) /\ NodesBelow(s, s2)
<1>1. IsSeq(s) /\ s # <<>>
  BY DEF Mapping, EndsNode
<1>2. PICK q : q = SubSeq(s, 1, Len(s) - 1)
  OBVIOUS
<1>3. /\ IsSeq(q) /\ Len(q) = Len(s) - 1 /\ Len(s) \in Nat \ {0}
      /\ \A k \in 1 .. Len(s) - 1 : q[k] = s[k]
  BY <1>1, <1>2, ShorterSeq
<1>4. Mapping(t, pa, m2, q)
  BY <1>3, MappingSettles
<1>5. ASSUME Len(s) = 1 PROVE Mapping(t, pa, m2, <<>>)
  <2>1. q = <<>>
    BY <1>3, <1>5, SeqLaws
  <2> QED
    BY <1>4, <2>1
<1>6. ASSUME NEW s2, Removes(s, s2, Given(s[Len(s) - 1], s[Len(s) - 1].at, answer))
      PROVE  Mapping(t, pa, m2, s2) /\ NodesBelow(s, s2)
  <2>1. PICK n \in Nat : n = Len(s) /\ n > 1
    BY <1>3, <1>6 DEF Removes
  <2>2. n - 1 \in 1 .. n - 1 /\ n - 1 \in 1 .. n /\ (n - 1) + 1 = n /\ Len(q) = n - 1
    BY <1>3, <2>1
  <2>3. q[n - 1] = s[n - 1] /\ q # <<>>
    BY <1>3, <2>1, <2>2, SeqLaws
  <2>4. PICK f : f = s[n - 1]
    OBVIOUS
  <2>5. f.at \in f.todo /\ IsNode(f.node.fields[f.at]) /\ s[n].node = f.node.fields[f.at]
    <3>1. Waiting(s)
      BY DEF Mapping
    <3> QED
      BY <2>1, <2>2, <2>4, <3>1 DEF Waiting
  <2>6. MappedFor(t, m2, f.node, f.at, answer)
    <3>1. s[n].node.id \in DOMAIN m2 /\ m2[s[n].node.id] = answer
      BY <2>1 DEF EndsNode
    <3> QED
      BY <2>5, <3>1 DEF MappedFor, Out
  <2>7. Replaces(q, s2, Given(f, f.at, answer))
    <3>1. \A k \in 1 .. (n - 1) - 1 : k \in 1 .. n - 2 /\ k \in 1 .. n - 1
      BY <2>1
    <3> QED
      BY <1>3, <1>6, <2>1, <2>2, <2>4, <3>1 DEF Removes, Replaces
  <2>8. GivesField(t, m2, q, f.at, answer, s2)
    BY <2>2, <2>3, <2>4, <2>5, <2>6, <2>7 DEF GivesField
  <2>9. Mapping(t, pa, m2, s2) /\ SameNodes(q, s2)
    BY <1>4, <2>8, MappingGives
  <2>10. NodesBelow(s, s2)
    BY <1>3, <2>9 DEF SameNodes, NodesBelow
  <2> QED
    BY <2>9, <2>10
<1> QED
  BY <1>5, <1>6

-----------------------------------------------------------------------------
(* The steps of a pass                                                     *)

IdsNew(t) == NewIdsAreNew({ p.id : p \in Parts(t) })

PassInv ==
    /\ outcome \in {"idle", "mapping", "mapped", "error"}
    /\ outcome = "idle" => memo = <<>> /\ calls = <<>>
    /\ outcome # "idle" => IsTree(tree) /\ IdsNew(tree) /\ pass \in Passes
    /\ outcome = "mapping" =>
         /\ passStack # <<>> /\ passStack[1].node = tree
         /\ Mapping(tree, pass, memo, passStack) /\ Counted(tree, memo, calls)
    /\ outcome = "mapped" => tree.id \in DOMAIN memo /\ Mapping(tree, pass, memo, <<>>)
    /\ outcome = "error" => \E p \in Parts(tree) : IsUnfit(pass, p)

LEMMA RunStep ==
    ASSUME PassInv, NEW t, IsTree(t), IdsNew(t), Pass!Run(t)
    PROVE  PassInv' /\ tree' = t
<1>1. /\ tree' = t /\ pass' \in Passes /\ passStack' = <<NodeCall(t)>>
      /\ outcome' = "mapping" /\ memo' = <<>> /\ calls' = <<>>
  BY DEF PassInv, Pass!Run, Pass!Frame, NodeCall
<1>2. Mapping(t, pass', <<>>, <<NodeCall(t)>>)
  BY MappingStarts
<1>3. Counted(t, <<>>, <<>>)
  BY EmptyTable DEF Counted
<1>4. <<NodeCall(t)>> # <<>> /\ <<NodeCall(t)>>[1].node = t
  BY OneCall DEF NodeCall
<1>5. /\ passStack' # <<>> /\ passStack'[1].node = tree'
      /\ Mapping(tree', pass', memo', passStack') /\ Counted(tree', memo', calls')
      /\ IsTree(tree') /\ IdsNew(tree')
  BY <1>1, <1>2, <1>3, <1>4
<1> QED
  BY <1>1, <1>5 DEF PassInv

LEMMA FieldForms ==
    ASSUME PassInv, NEW i, Pass!Field(i)
    PROVE  /\ outcome = "mapping" /\ outcome' = outcome
           /\ tree' = tree /\ pass' = pass /\ memo' = memo /\ calls' = calls
           /\ \/ \E v : GivesField(tree, memo, passStack, i, v, passStack')
              \/ CallsField(memo, passStack, i, passStack')
<1>1. PICK s : s = passStack
  OBVIOUS
<1>2. PICK callers : callers = SubSeq(s, 1, Len(s) - 1)
  OBVIOUS
<1>3. PICK f : f = s[Len(s)]
  OBVIOUS
<1>4. PICK value : value = f.node.fields[i]
  OBVIOUS
<1>5. Pass!Top = f /\ Pass!Callers = callers
  BY <1>1, <1>2, <1>3 DEF Pass!Top, Pass!Callers
<1>6. /\ outcome = "mapping" /\ i \in f.todo /\ outcome' = outcome
      /\ tree' = tree /\ pass' = pass /\ memo' = memo /\ calls' = calls
      /\ \/ /\ ~ IsNode(value)
            /\ passStack' = Append(callers, Given(f, i, value))
         \/ /\ IsNode(value) /\ value.id \in DOMAIN memo
            /\ passStack' = Append(callers, Given(f, i, memo[value.id]))
         \/ /\ IsNode(value) /\ value.id \notin DOMAIN memo
            /\ passStack' = Append(Append(callers, [f EXCEPT !.at = i]), NodeCall(value))
  BY <1>4, <1>5, PassOps DEF Pass!Field, Pass!Frame, NodeCall
<1>7. IsSeq(s) /\ s # <<>>
  BY <1>1, <1>6 DEF PassInv, Mapping
<1>8. StackTurns(s, callers)
  BY <1>2, <1>7, StackLaws
<1>9. CASE ~ IsNode(value) /\ passStack' = Append(callers, Given(f, i, value))
  <2>1. Replaces(s, passStack', Given(f, i, value))
    BY <1>8, <1>9 DEF StackTurns
  <2>2. MappedFor(tree, memo, f.node, i, value)
    BY <1>4, <1>9 DEF MappedFor, Out
  <2>3. GivesField(tree, memo, s, i, value, passStack')
    BY <1>3, <1>6, <1>7, <2>1, <2>2 DEF GivesField
  <2> QED
    BY <1>1, <1>6, <2>3
<1>10. CASE /\ IsNode(value) /\ value.id \in DOMAIN memo
            /\ passStack' = Append(callers, Given(f, i, memo[value.id]))
  <2>1. Replaces(s, passStack', Given(f, i, memo[value.id]))
    BY <1>8, <1>10 DEF StackTurns
  <2>2. MappedFor(tree, memo, f.node, i, memo[value.id])
    BY <1>4, <1>10 DEF MappedFor, Out
  <2>3. GivesField(tree, memo, s, i, memo[value.id], passStack')
    BY <1>3, <1>6, <1>7, <2>1, <2>2 DEF GivesField
  <2> QED
    BY <1>1, <1>6, <2>3
<1>11. CASE /\ IsNode(value) /\ value.id \notin DOMAIN memo
            /\ passStack' = Append(Append(callers, [f EXCEPT !.at = i]), NodeCall(value))
  <2>1. Adds(s, passStack', [f EXCEPT !.at = i], NodeCall(value))
    BY <1>8, <1>11 DEF StackTurns
  <2>2. CallsField(memo, s, i, passStack')
    BY <1>3, <1>4, <1>6, <1>7, <1>11, <2>1 DEF CallsField
  <2> QED
    BY <1>1, <1>6, <2>2
<1> QED
  BY <1>6, <1>9, <1>10, <1>11

LEMMA FieldStep ==
    ASSUME PassInv, NEW i, Pass!Field(i)
    PROVE  PassInv' /\ tree' = tree
<1>1. /\ outcome = "mapping" /\ outcome' = outcome
      /\ tree' = tree /\ pass' = pass /\ memo' = memo /\ calls' = calls
      /\ \/ \E v : GivesField(tree, memo, passStack, i, v, passStack')
         \/ CallsField(memo, passStack, i, passStack')
  BY FieldForms
<1>2. /\ Mapping(tree, pass, memo, passStack) /\ Counted(tree, memo, calls)
      /\ passStack # <<>> /\ passStack[1].node = tree
      /\ IsTree(tree) /\ IdsNew(tree) /\ pass \in Passes
  BY <1>1 DEF PassInv
<1>3. Len(passStack) \in Nat \ {0} /\ 1 \in 1 .. Len(passStack)
  BY <1>2, SeqLaws DEF Mapping
<1>4. /\ Mapping(tree, pass, memo, passStack') /\ SameNodes(passStack, passStack')
      /\ passStack' # <<>>
  <2>1. CASE \E v : GivesField(tree, memo, passStack, i, v, passStack')
    <3>1. PICK v : GivesField(tree, memo, passStack, i, v, passStack')
      BY <2>1
    <3>2. Mapping(tree, pass, memo, passStack') /\ SameNodes(passStack, passStack')
      BY <1>2, <3>1, MappingGives
    <3>3. Len(passStack') = Len(passStack) /\ IsSeq(passStack')
      BY <3>1 DEF GivesField, Replaces
    <3> QED
      BY <1>3, <3>2, <3>3, SeqLaws
  <2>2. CASE CallsField(memo, passStack, i, passStack')
    <3>1. Mapping(tree, pass, memo, passStack') /\ SameNodes(passStack, passStack')
      BY <1>2, <2>2, MappingCalls
    <3>2. Len(passStack') = Len(passStack) + 1 /\ IsSeq(passStack')
      BY <2>2 DEF CallsField, Adds
    <3> QED
      BY <1>3, <3>1, <3>2, SeqLaws
  <2> QED
    BY <1>1, <2>1, <2>2
<1>5. passStack'[1].node = tree
  BY <1>2, <1>3, <1>4 DEF SameNodes
<1>6. /\ passStack' # <<>> /\ passStack'[1].node = tree' /\ outcome' = "mapping"
      /\ Mapping(tree', pass', memo', passStack') /\ Counted(tree', memo', calls')
      /\ IsTree(tree') /\ IdsNew(tree') /\ pass' \in Passes
  BY <1>1, <1>2, <1>4, <1>5
<1> QED
  BY <1>1, <1>6 DEF PassInv

YieldsTo(s, s2, answer) ==
    \/ Len(s) = 1 /\ s2 = <<>> /\ outcome' = "mapped"
    \/ /\ Len(s) > 1 /\ outcome' = outcome
       /\ Removes(s, s2, Given(s[Len(s) - 1], s[Len(s) - 1].at, answer))

LEMMA YieldForms ==
    ASSUME IsSeq(passStack), passStack # <<>>, NEW answer, Pass!Yield(answer)
    PROVE  /\ memo' = Put(memo, passStack[Len(passStack)].node.id, answer)
           /\ YieldsTo(passStack, passStack', answer)
<1>1. PICK s : s = passStack
  OBVIOUS
<1>2. PICK callers : callers = SubSeq(s, 1, Len(s) - 1)
  OBVIOUS
<1>3. Pass!Top = s[Len(s)] /\ Pass!Callers = callers
  BY <1>1, <1>2 DEF Pass!Top, Pass!Callers
<1>4. /\ memo' = Put(memo, s[Len(s)].node.id, answer)
      /\ \/ /\ callers # <<>> /\ outcome' = outcome
            /\ passStack' = [callers EXCEPT ![Len(callers)] =
                               Given(callers[Len(callers)], callers[Len(callers)].at, answer)]
         \/ callers = <<>> /\ passStack' = <<>> /\ outcome' = "mapped"
  BY <1>3, PassOps DEF Pass!Yield
<1>5. /\ callers # <<>> => RemovesTop(s, callers)
      /\ callers = <<>> <=> Len(s) = 1
      /\ Len(s) \in Nat \ {0}
  <2>1. StackTurns(s, callers)
    BY <1>1, <1>2, StackLaws
  <2>2. Len(s) \in Nat \ {0}
    BY <1>1, SeqLaws
  <2> QED
    BY <2>1, <2>2 DEF StackTurns
<1>6. CASE callers = <<>>
  BY <1>1, <1>4, <1>5, <1>6 DEF YieldsTo
<1>7. CASE callers # <<>>
  <2>1. PICK x : x = Given(s[Len(s) - 1], s[Len(s) - 1].at, answer)
    OBVIOUS
  <2>2. passStack' = [callers EXCEPT ![Len(callers)] = x]
    BY <1>4, <1>5, <1>7, <2>1 DEF RemovesTop
  <2>3. Removes(s, passStack', x)
    BY <1>5, <1>7, <2>2 DEF RemovesTop
  <2>4. Len(s) > 1
    BY <2>3 DEF Removes
  <2> QED
    BY <1>1, <1>4, <1>7, <2>1, <2>3, <2>4 DEF YieldsTo
<1> QED
  BY <1>6, <1>7

(* An answer goes where it must, or the pass stops for good reason.        *)
LEMMA ApplyForms ==
    ASSUME PassInv, Pass!Apply
    PROVE  /\ outcome = "mapping" /\ tree' = tree /\ pass' = pass
           /\ \/ outcome' = "error" /\ IsUnfit(pass, passStack[Len(passStack)].node)
              \/ \E answer :
                   /\ EndsNode(tree, pass, memo, passStack, answer, memo')
                   /\ Counted(tree, memo', calls')
                   /\ YieldsTo(passStack, passStack', answer)
<1>1. PICK s : s = passStack
  OBVIOUS
<1>2. PICK f : f = s[Len(s)]
  OBVIOUS
<1>3. PICK p : p = f.node
  OBVIOUS
<1>4. Pass!Top = f
  BY <1>1, <1>2 DEF Pass!Top
<1>5. /\ outcome = "mapping" /\ f.todo = {} /\ tree' = tree /\ pass' = pass
  BY <1>4 DEF Pass!Apply
<1>6. /\ Mapping(tree, pass, memo, s) /\ Counted(tree, memo, calls) /\ s # <<>>
      /\ IsTree(tree) /\ IdsNew(tree) /\ pass \in Passes
  BY <1>1, <1>5 DEF PassInv
<1>7. IsSeq(s) /\ Len(s) \in 1 .. Len(s)
  BY <1>6, SeqLaws DEF Mapping
<1>8. MapFits(tree, memo, f)
  BY <1>2, <1>6, <1>7 DEF Mapping
<1>9. p \in Parts(tree) /\ DOMAIN f.done = DOMAIN p.fields
  BY <1>3, <1>5, <1>8 DEF MapFits
<1>10. Plain(p) /\ IsSeq(p.fields)
  BY <1>6, <1>9, TreeLaws
<1>11. PICK outs : outs = [i \in DOMAIN p.fields |-> f.done[i]]
  OBVIOUS
<1>12. PICK node : node = [id |-> p.id, kind |-> p.kind, text |-> p.text, fields |-> outs]
  OBVIOUS
<1>13. Pass!Mapped(f) = node
  <2>1. Pass!Mapped(f) = [p EXCEPT !.fields = outs]
    BY <1>3, <1>11 DEF Pass!Mapped
  <2>2. [p EXCEPT !.fields = outs] = node
    BY <1>10, <1>12, ChangedNode DEF Plain
  <2> QED
    BY <2>1, <2>2
<1>14. node.id = p.id /\ node.kind = p.kind
  BY <1>12
<1>15. PICK n : n = 1 + (IF p.id \in DOMAIN calls THEN calls[p.id] ELSE 0)
  OBVIOUS
<1>16. n \in Nat /\ p.id # <<p.id, n>> /\ (NoOwnId(tree) => n = 1)
  <2>1. n \in Nat
    BY <1>6, <1>15 DEF Counted
  <2>2. p.id # <<p.id, n>>
    <3>1. PICK ids : ids = { q.id : q \in Parts(tree) }
      OBVIOUS
    <3>2. p.id \in ids /\ <<p.id, n>> \in ids \X Nat
      BY <1>9, <2>1, <3>1
    <3>3. ids \cap (ids \X Nat) = {}
      BY <1>6, <3>1 DEF IdsNew, NewIdsAreNew
    <3> QED
      BY <3>2, <3>3
  <2>3. ASSUME NoOwnId(tree) PROVE p.id \notin DOMAIN calls
    BY <1>2, <1>3, <1>6, <1>7, <2>3 DEF Mapping, Unanswered, Counted
  <2> QED
    BY <1>15, <2>1, <2>2, <2>3
<1>17. PICK b : b = BehaviourFor(pass, p.kind)
  OBVIOUS
<1>18. p.kind \in DOMAIN pass.handler => b = pass.handler[p.kind] /\ b \in Pass!Behaviours
  BY <1>6, <1>17, PassesAssumption DEF BehaviourFor, Pass!PassOK
<1>19. outs = [i \in DOMAIN p.fields |-> outs[i]]
  BY <1>11
<1>20. s[Len(s)].node = p /\ s[Len(s)].todo = {} /\ s[Len(s)].done = f.done
  BY <1>2, <1>3, <1>5
<1>21. ASSUME NEW answer, Pass!Yield(answer), ~ IsUnfit(pass, p), answer = Reply(b, p, outs, n),
              \/ calls' = calls
              \/ calls' = Put(calls, p.id, n)
       PROVE  \E a : /\ EndsNode(tree, pass, memo, s, a, memo')
                     /\ Counted(tree, memo', calls')
                     /\ YieldsTo(s, passStack', a)
  <2>1. memo' = Put(memo, p.id, answer) /\ YieldsTo(s, passStack', answer)
    BY <1>1, <1>6, <1>7, <1>20, <1>21, YieldForms
  <2>2. /\ DOMAIN memo' = DOMAIN memo \cup {p.id} /\ memo'[p.id] = answer
        /\ \A x \in DOMAIN memo : x # p.id => memo'[x] = memo[x]
    <3>1. PICK id : id = p.id
      OBVIOUS
    <3>2. PICK m2 : m2 = Put(memo, id, answer)
      OBVIOUS
    <3>3. /\ DOMAIN m2 = DOMAIN memo \cup {id} /\ m2[id] = answer
          /\ \A x \in DOMAIN memo : x # id => m2[x] = memo[x]
      BY <3>2 DEF Put
    <3> QED
      BY <2>1, <3>1, <3>2, <3>3
  <2>3. NoOwnId(tree) => answer = Reply(b, p, outs, 1)
    BY <1>16, <1>21
  <2>4. EndsNode(tree, pass, memo, s, answer, memo')
    BY <1>6, <1>11, <1>17, <1>20, <1>21, <2>2, <2>3 DEF EndsNode
  <2>5. Counted(tree, memo', calls')
    <3>1. CASE calls' = calls
      BY <1>6, <2>2, <3>1 DEF Counted
    <3>2. CASE calls' = Put(calls, p.id, n)
      <4>1. /\ DOMAIN calls' = DOMAIN calls \cup {p.id} /\ calls'[p.id] = n
            /\ \A x \in DOMAIN calls : x # p.id => calls'[x] = calls[x]
        <5>1. PICK id : id = p.id
          OBVIOUS
        <5>2. PICK c2 : c2 = Put(calls, id, n)
          OBVIOUS
        <5>3. /\ DOMAIN c2 = DOMAIN calls \cup {id} /\ c2[id] = n
              /\ \A x \in DOMAIN calls : x # id => c2[x] = calls[x]
          BY <5>2 DEF Put
        <5> QED
          BY <3>2, <5>1, <5>2, <5>3
      <4> QED
        BY <1>6, <1>16, <2>2, <4>1 DEF Counted
    <3> QED
      BY <1>21, <3>1, <3>2
  <2> QED
    BY <2>1, <2>4, <2>5
<1>22. /\ Pass!Handled(node.kind) <=> p.kind \in DOMAIN pass.handler
       /\ 1 + (IF node.id \in DOMAIN calls THEN calls[node.id] ELSE 0) = n
  BY <1>14, <1>15, PassOps
<1>23. CASE p.kind \in DOMAIN pass.handler
  <2>1. PICK answer : answer = Pass!Handle(b, node, n)
    OBVIOUS
  <2>2. /\ calls' = Put(calls, p.id, n)
        /\ IF IsNode(answer) /\ IdOf(answer) = p.id THEN Pass!Yield(answer) ELSE Pass!Raise
    BY <1>4, <1>13, <1>14, <1>18, <1>22, <1>23, <2>1, PassOps DEF Pass!Apply
  <2>3. /\ b \notin {"changeId", "returnOther"} =>
             answer = Reply(b, p, outs, n) /\ IsNode(answer) /\ IdOf(answer) = p.id
        /\ b \in {"changeId", "returnOther"} => ~ (IsNode(answer) /\ IdOf(answer) = p.id)
    <3>1. b \in Pass!Behaviours
      BY <1>18, <1>23
    <3>2. p.id # <<p.id, n>>
      BY <1>16
    <3>3. ToHandle(p, outs, node, n)
      BY <1>10, <1>12, <1>19, <3>2 DEF ToHandle
    <3>4. Handles(b, p, outs, n, answer)
      BY <2>1, <3>1, <3>3, HandleLaws
    <3> QED
      BY <3>4 DEF Handles
  <2>4. IsUnfit(pass, p) <=> b \in {"changeId", "returnOther"}
    BY <1>18, <1>23 DEF IsUnfit
  <2>5. CASE b \in {"changeId", "returnOther"}
    <3>1. outcome' = "error"
      BY <2>2, <2>3, <2>5 DEF Pass!Raise
    <3> QED
      BY <1>1, <1>5, <1>20, <2>4, <2>5, <3>1
  <2>6. CASE b \notin {"changeId", "returnOther"}
    <3>1. Pass!Yield(answer) /\ answer = Reply(b, p, outs, n) /\ ~ IsUnfit(pass, p)
      BY <2>2, <2>3, <2>4, <2>6
    <3> QED
      BY <1>1, <1>5, <1>21, <2>2, <3>1
  <2> QED
    BY <2>5, <2>6
<1>24. CASE p.kind \notin DOMAIN pass.handler
  <2>1. /\ calls' = calls
        /\ \/ (node.kind \notin GoKinds \/ pass.policy = "recurse") /\ Pass!Yield(node)
           \/ (node.kind \in GoKinds /\ pass.policy = "reject") /\ Pass!Raise
    BY <1>4, <1>13, <1>22, <1>24 DEF Pass!Apply
  <2>2. CASE (node.kind \notin GoKinds \/ pass.policy = "recurse") /\ Pass!Yield(node)
    <3>1. ~ IsUnfit(pass, p)
      BY <1>14, <1>24, <2>2 DEF IsUnfit
    <3>2. b = "keep"
      BY <1>17, <1>24 DEF BehaviourFor
    <3>3. node = Reply(b, p, outs, n)
      BY <1>12, <3>2 DEF Reply, ReplyText, ReplyFields
    <3> QED
      BY <1>1, <1>5, <1>21, <2>1, <2>2, <3>1, <3>3
  <2>3. CASE (node.kind \in GoKinds /\ pass.policy = "reject") /\ Pass!Raise
    <3>1. outcome' = "error" /\ IsUnfit(pass, p)
      BY <1>14, <1>24, <2>3 DEF IsUnfit, Pass!Raise
    <3> QED
      BY <1>1, <1>5, <1>20, <3>1
  <2> QED
    BY <2>1, <2>2, <2>3
<1> QED
  BY <1>23, <1>24

LEMMA ApplyStep ==
    ASSUME PassInv, Pass!Apply
    PROVE  PassInv' /\ tree' = tree
<1>1. /\ outcome = "mapping" /\ tree' = tree /\ pass' = pass
      /\ \/ outcome' = "error" /\ IsUnfit(pass, passStack[Len(passStack)].node)
         \/ \E answer :
              /\ EndsNode(tree, pass, memo, passStack, answer, memo')
              /\ Counted(tree, memo', calls')
              /\ YieldsTo(passStack, passStack', answer)
  BY ApplyForms
<1>2. /\ Mapping(tree, pass, memo, passStack) /\ Counted(tree, memo, calls)
      /\ passStack # <<>> /\ passStack[1].node = tree
      /\ IsTree(tree) /\ IdsNew(tree) /\ pass \in Passes
  BY <1>1 DEF PassInv
<1>3. IsSeq(passStack) /\ Len(passStack) \in Nat \ {0}
  BY <1>2, SeqLaws DEF Mapping
<1>4. CASE outcome' = "error" /\ IsUnfit(pass, passStack[Len(passStack)].node)
  <2>1. Len(passStack) \in 1 .. Len(passStack)
    BY <1>3
  <2>2. passStack[Len(passStack)].node \in Parts(tree)
    BY <1>2, <2>1 DEF Mapping, MapFits
  <2>3. /\ IsTree(tree') /\ IdsNew(tree') /\ pass' \in Passes
        /\ \E p \in Parts(tree') : IsUnfit(pass', p)
    BY <1>1, <1>2, <1>4, <2>2
  <2> QED
    BY <1>1, <1>4, <2>3 DEF PassInv
<1>5. ASSUME NEW answer,
             EndsNode(tree, pass, memo, passStack, answer, memo'),
             Counted(tree, memo', calls'),
             YieldsTo(passStack, passStack', answer)
      PROVE  PassInv' /\ tree' = tree
  <2>1. CASE Len(passStack) = 1 /\ passStack' = <<>> /\ outcome' = "mapped"
    <3>1. Mapping(tree, pass, memo', <<>>)
      BY <1>2, <1>5, <2>1, MappingHandsOn
    <3>2. tree.id \in DOMAIN memo'
      BY <1>2, <1>5, <2>1 DEF EndsNode
    <3>3. /\ IsTree(tree') /\ IdsNew(tree') /\ pass' \in Passes
          /\ tree'.id \in DOMAIN memo' /\ Mapping(tree', pass', memo', <<>>)
      BY <1>1, <1>2, <3>1, <3>2
    <3> QED
      BY <1>1, <2>1, <3>3 DEF PassInv
  <2>2. CASE /\ Len(passStack) > 1 /\ outcome' = outcome
             /\ Removes(passStack, passStack',
                        Given(passStack[Len(passStack) - 1],
                              passStack[Len(passStack) - 1].at, answer))
    <3>1. Mapping(tree, pass, memo', passStack') /\ NodesBelow(passStack, passStack')
      BY <1>2, <1>5, <2>2, MappingHandsOn
    <3>2. 1 \in 1 .. Len(passStack) - 1
      BY <1>3, <2>2
    <3>3. passStack'[1].node = tree
      BY <1>2, <3>1, <3>2 DEF NodesBelow
    <3>4. passStack' # <<>>
      <4>1. IsSeq(passStack') /\ Len(passStack') = Len(passStack) - 1
        BY <2>2 DEF Removes
      <4> QED
        BY <1>3, <2>2, <4>1, SeqLaws
    <3>5. /\ passStack' # <<>> /\ passStack'[1].node = tree' /\ outcome' = "mapping"
          /\ Mapping(tree', pass', memo', passStack') /\ Counted(tree', memo', calls')
          /\ IsTree(tree') /\ IdsNew(tree') /\ pass' \in Passes
      BY <1>1, <1>2, <1>5, <2>2, <3>1, <3>3, <3>4
    <3> QED
      BY <1>1, <3>5 DEF PassInv
  <2> QED
    BY <1>5, <2>1, <2>2 DEF YieldsTo
<1> QED
  BY <1>1, <1>4, <1>5

-----------------------------------------------------------------------------
(* The tree of a unit is one that a pass can take.                         *)

LEMMA LessNested ==
    ASSUME NEW S, IsFiniteSet(S), ClosedNodes(S), NEW p \in S,
           NEW q \in Parts(p), q # p
    PROVE  \E child \in Children(p) : q \in Parts(child)
<1>1. PICK below : below = UNION { Parts(child) : child \in Children(p) }
  OBVIOUS
<1>2. ASSUME NEW child \in Children(p)
      PROVE  child \in Parts(child) /\ ClosedNodes(Parts(child))
  <2>1. child \in S
    BY DEF ClosedNodes, Nested
  <2> QED
    BY <2>1, PartsLaws
<1>3. ClosedNodes({p} \cup below)
  <2>1. ASSUME NEW y \in {p} \cup below, NEW x \in Children(y) PROVE x \in below
    <3>1. CASE y = p
      BY <1>1, <1>2, <2>1, <3>1
    <3>2. CASE y \in below
      <4>1. PICK child \in Children(p) : y \in Parts(child)
        BY <1>1, <3>2
      <4>2. x \in Parts(child)
        BY <1>2, <2>1, <4>1 DEF ClosedNodes, Nested
      <4> QED
        BY <1>1, <4>1, <4>2
    <3> QED
      BY <3>1, <3>2
  <2> QED
    BY <2>1 DEF ClosedNodes, Nested
<1>4. Parts(p) \subseteq {p} \cup below
  BY <1>3, PartsLaws
<1> QED
  BY <1>1, <1>4

LEMMA LayersEnd ==
    ASSUME NEW m, Layered(m), NEW S, IsFiniteSet(S), ClosedNodes(S), S = { m[x] : x \in DOMAIN m },
           NEW id \in DOMAIN m, NEW child \in Children(m[id])
    PROVE  m[id] \notin Parts(child)
<1> SUFFICES ASSUME m[id] \in Parts(child) PROVE FALSE
  OBVIOUS
<1>1. m[id] \in S /\ child \in S
  BY DEF ClosedNodes, Nested
<1>2. \A p \in S : p \in Parts(p) /\ ClosedNodes(Parts(p)) /\ Parts(p) \subseteq S
  BY PartsLaws
<1>3. PICK W : W = { x \in DOMAIN m : m[x] \in Parts(child) /\ m[id] \in Parts(m[x]) }
  OBVIOUS
<1>4. id \in W
  BY <1>1, <1>2, <1>3
<1>5. PICK x \in W : \A y \in W : m[y] \notin Children(m[x])
  BY <1>3, <1>4 DEF Layered
<1>6. PICK c \in Children(m[x]) : m[id] \in Parts(c)
  <2>1. CASE m[x] = m[id]
    BY <2>1
  <2>2. CASE m[x] # m[id]
    <3>1. m[x] \in S /\ m[id] \in Parts(m[x])
      BY <1>3, <1>5
    <3> QED
      BY <2>2, <3>1, LessNested
  <2> QED
    BY <2>1, <2>2
<1>7. c \in Parts(child) /\ c \in S
  <2>1. m[x] \in Parts(child)
    BY <1>3, <1>5
  <2> QED
    BY <1>1, <1>2, <1>6, <2>1 DEF ClosedNodes, Nested
<1>8. PICK y \in DOMAIN m : c = m[y]
  BY <1>7
<1>9. y \in W
  BY <1>3, <1>6, <1>7, <1>8
<1> QED
  BY <1>5, <1>6, <1>8, <1>9

LEMMA RootIsTree ==
    ASSUME MatInv, phase = "built"
    PROVE  IsTree(Mat!Root) /\ IdsNew(Mat!Root) /\ NoOwnId(Mat!Root)
<1>1. PICK m : m = matMemo
  OBVIOUS
<1>2. PICK whole : whole = m[unit.root]
  OBVIOUS
<1>3. Mat!Root = whole
  BY <1>1, <1>2, MatTrees
<1>4. /\ unit \in Units /\ AllMade(unit, m, {}) /\ Layered(m)
      /\ unit.root \in DOMAIN m
      /\ DOMAIN m \subseteq DOMAIN unit.rows
      /\ Parts(whole) = { m[id] : id \in DOMAIN m }
      /\ IsFiniteSet(Parts(whole))
      /\ \A id \in DOMAIN m : m[id].id = id /\ HoldsMade(m[id], m)
  BY <1>1, <1>2, RootLaws
<1>5. whole \in Parts(whole) /\ ClosedNodes(Parts(whole))
  BY <1>2, <1>4 DEF ClosedNodes, Nested, HoldsMade
<1>6. ASSUME NEW p \in Parts(whole)
      PROVE  Plain(p) /\ p.fields \in Seq({ p.fields[i] : i \in DOMAIN p.fields })
  <2>1. PICK id \in DOMAIN m : p = m[id]
    BY <1>4
  <2>2. NodeFits(unit, m, {}, id)
    BY <1>4 DEF AllMade
  <2>3. PICK fields : fields = p.fields
    OBVIOUS
  <2>4. /\ p = [id |-> id, kind |-> unit.rows[id].kind, text |-> unit.rows[id].text,
                fields |-> fields]
        /\ fields = [i \in DOMAIN Kids(unit, id) |-> fields[i]]
    BY <2>1, <2>2, <2>3 DEF NodeFits
  <2>5. Plain(p)
    BY <2>4, NodeOrRef DEF Plain
  <2>6. IsSeq(Kids(unit, id))
    <3>1. Kids(unit, id) \in Seq(DOMAIN unit.rows)
      BY <1>4, UnitLaws DEF IsUnit
    <3> QED
      BY <3>1 DEF IsSeq
  <2>7. IsSeq(fields)
    BY <2>4, <2>6, SeqLike
  <2> QED
    BY <2>3, <2>5, <2>7 DEF IsSeq
<1>7. IsTree(whole)
  BY <1>4, <1>5, <1>6 DEF IsTree, Plain, ClosedNodes
<1>8. IdsNew(whole)
  <2>1. PICK ids : ids = { p.id : p \in Parts(whole) }
    OBVIOUS
  <2>2. ids \subseteq DOMAIN unit.rows
    BY <1>4, <2>1
  <2>3. NewIdsAreNew(DOMAIN unit.rows)
    BY <1>4, UnitLaws
  <2>4. NewIdsAreNew(ids)
    BY <2>2, <2>3 DEF NewIdsAreNew
  <2> QED
    BY <2>1, <2>4 DEF IdsNew
<1>9. NoOwnId(whole)
  <2>1. ASSUME NEW p \in Parts(whole), NEW child \in Children(p),
               NEW q \in Parts(child), q.id = p.id
        PROVE  FALSE
    <3>1. PICK id \in DOMAIN m : p = m[id]
      BY <1>4
    <3>2. child \in Parts(whole)
      BY <1>5 DEF ClosedNodes, Nested
    <3>3. Parts(child) \subseteq Parts(whole)
      BY <1>4, <1>5, <3>2, PartsLaws
    <3>4. q = p
      BY <1>4, <2>1, <3>1, <3>3
    <3>5. m[id] \notin Parts(child)
      BY <1>4, <1>5, <3>1, LayersEnd
    <3> QED
      BY <2>1, <3>1, <3>4, <3>5
  <2> QED
    BY <2>1 DEF NoOwnId
<1> QED
  BY <1>3, <1>7, <1>8, <1>9

-----------------------------------------------------------------------------
(* The two together                                                        *)

(* A pass goes over the tree of the unit, and not before there is one.     *)
Linked ==
    /\ phase = "built" /\ outcome # "idle" => tree = Mat!Root
    /\ phase \notin {"none", "built"} => outcome = "idle"

RacketInv == MatInv /\ PassInv /\ Linked

LEMMA ReadForms ==
    ASSUME MatInv, Mat!Next
    PROVE  phase \in {"checking", "building"}
<1>1. CASE \E id \in todo : Mat!CheckRow(id)
  BY <1>1, CheckRowForms
<1>2. CASE Mat!Build
  BY <1>2 DEF Mat!Build
<1>3. CASE \E i \in Mat!Top.todo : Mat!Reference(i)
  BY <1>3 DEF Mat!Reference, MatInv
<1>4. CASE Mat!Return
  BY <1>4 DEF Mat!Return, MatInv
<1> QED
  BY <1>1, <1>2, <1>3, <1>4 DEF Mat!Next

LEMMA RacketInitial == RacketInit => RacketInv
<1> SUFFICES ASSUME RacketInit PROVE RacketInv
  OBVIOUS
<1>1. MatInv
  BY MatInit
<1>2. outcome = "idle" /\ memo = <<>> /\ calls = <<>>
  BY DEF RacketInit, Pass!Idle
<1> QED
  BY <1>1, <1>2 DEF RacketInv, PassInv, Linked

LEMMA RacketStep == RacketInv /\ [RacketNext]_racketVars => RacketInv'
<1> SUFFICES ASSUME RacketInv, [RacketNext]_racketVars PROVE PassInv' /\ Linked'
  BY MatStep DEF RacketInv
<1>1. MatInv /\ PassInv /\ Linked
  BY DEF RacketInv
<1>2. CASE Read
  <2>1. Mat!Next /\ UNCHANGED passing
    BY <1>2 DEF Read
  <2>2. outcome = "idle"
    BY <1>1, <2>1, ReadForms DEF Linked
  <2>3. outcome' = "idle" /\ memo' = memo /\ calls' = calls
    BY <2>1, <2>2 DEF passing
  <2> QED
    BY <1>1, <2>2, <2>3 DEF PassInv, Linked
<1>3. CASE RunOnUnit
  <2>1. phase = "built" /\ Pass!Run(Mat!Root) /\ UNCHANGED reading
    BY <1>3 DEF RunOnUnit
  <2>2. PassInv' /\ tree' = Mat!Root
    BY <1>1, <2>1, RootIsTree, RunStep
  <2>3. unit' = unit /\ matMemo' = matMemo /\ phase' = "built"
    BY <2>1 DEF reading
  <2>4. (Mat!Root)' = Mat!Root
    BY <2>3 DEF Mat!Root
  <2> QED
    BY <2>2, <2>3, <2>4 DEF Linked
<1>4. CASE RunOnTree
  <2>1. PICK t \in Trees : Pass!Run(t)
    BY <1>4 DEF RunOnTree
  <2>2. IsTree(t) /\ IdsNew(t)
    BY <2>1, TreesAssumption DEF IdsNew
  <2>3. PassInv'
    BY <1>1, <2>1, <2>2, RunStep
  <2>4. phase' = "none"
    BY <1>4 DEF RunOnTree
  <2> QED
    BY <2>3, <2>4 DEF Linked
<1>5. CASE Transform
  <2>1. Pass!Next /\ UNCHANGED reading
    BY <1>5 DEF Transform
  <2>2. PassInv' /\ tree' = tree
    BY <1>1, <2>1, FieldStep, ApplyStep DEF Pass!Next
  <2>3. unit' = unit /\ matMemo' = matMemo /\ phase' = phase
    BY <2>1 DEF reading
  <2>4. (Mat!Root)' = Mat!Root
    BY <2>3 DEF Mat!Root
  <2>5. outcome # "idle"
    BY <2>1 DEF Pass!Next, Pass!Apply
  <2> QED
    BY <1>1, <2>2, <2>3, <2>4, <2>5 DEF Linked
<1>6. CASE UNCHANGED racketVars
  <2>1. /\ unit' = unit /\ matMemo' = matMemo /\ phase' = phase
        /\ tree' = tree /\ pass' = pass /\ memo' = memo /\ passStack' = passStack
        /\ calls' = calls /\ outcome' = outcome
    BY <1>6 DEF racketVars, reading, passing
  <2>2. (Mat!Root)' = Mat!Root
    BY <2>1 DEF Mat!Root
  <2>3. PassInv'
    BY <1>1, <2>1 DEF PassInv
  <2>4. Linked'
    BY <1>1, <2>1, <2>2 DEF Linked
  <2> QED
    BY <2>3, <2>4
<1> QED
  BY <1>2, <1>3, <1>4, <1>5, <1>6 DEF RacketNext

(* The invariant of reading and of passing, and that the pass over a unit  *)
(* that was read goes over the tree that was materialised.                 *)
THEOREM RacketInvariant == RacketSpec => []RacketInv
  BY RacketInitial, RacketStep, PTL DEF RacketSpec

LEMMA Justified == PassInv => ErrorIsJustified
<1> SUFFICES ASSUME PassInv
             PROVE  /\ outcome = "error" => \E p \in Parts(tree) : IsUnfit(pass, p)
                    /\ outcome = "mapped" /\ OneNodePerId(tree) =>
                         \A p \in Parts(tree) : ~ IsUnfit(pass, p)
  BY PassOps DEF ErrorIsJustified, Pass!ErrorIsJustified
<1>1. SUFFICES ASSUME outcome = "mapped", OneNodePerId(tree), NEW p \in Parts(tree)
               PROVE  ~ IsUnfit(pass, p)
  BY DEF PassInv
<1>2. IsTree(tree) /\ tree.id \in DOMAIN memo /\ AllAnswered(tree, pass, memo)
  BY <1>1 DEF PassInv, Mapping
<1>3. ASSUME NEW q \in Parts(tree), q.id \in DOMAIN memo
      PROVE  AnswerTo(tree, pass, memo, q.id, q)
  <2>1. PICK r \in Parts(tree) : AnswerTo(tree, pass, memo, q.id, r)
    BY <1>2, <1>3 DEF AllAnswered, AnswerFits
  <2>2. r = q
    BY <1>1, <2>1 DEF AnswerTo, OneNodePerId
  <2> QED
    BY <2>1, <2>2
<1>4. PICK T : T = { q \in Parts(tree) : q.id \in DOMAIN memo }
  OBVIOUS
<1>5. ClosedNodes(T)
  <2>1. ASSUME NEW q \in T, NEW x \in Children(q) PROVE x \in T
    <3>1. PICK i \in DOMAIN q.fields : x = q.fields[i] /\ IsNode(q.fields[i])
      BY DEF Children
    <3>2. x.id \in DOMAIN memo
      BY <1>3, <1>4, <3>1 DEF AnswerTo
    <3>3. x \in Parts(tree)
      BY <1>2, <1>4, <3>1, TreeLaws
    <3> QED
      BY <1>4, <3>2, <3>3
  <2> QED
    BY <2>1 DEF ClosedNodes, Nested
<1>6. Parts(tree) \subseteq T
  <2>1. tree \in Parts(tree) /\ ClosedNodes(Parts(tree)) /\ IsFiniteSet(Parts(tree))
    BY <1>2, TreeLaws
  <2>2. tree \in T
    BY <1>2, <1>4, <2>1
  <2> QED
    BY <1>5, <2>1, <2>2, PartsLaws
<1> QED
  BY <1>1, <1>3, <1>4, <1>6 DEF AnswerTo

(* run-go-kernel-pass raises only for a node that is there and that the    *)
(* pass cannot take, and, where IDs are told apart, lets none through.     *)
THEOREM ErrorInvariant == RacketSpec => []ErrorIsJustified
  BY RacketInvariant, Justified, PTL DEF RacketInv

-----------------------------------------------------------------------------
(* What a pass made                                                        *)

LEMMA ImageFinite ==
    ASSUME NEW S, IsFiniteSet(S), NEW f
    PROVE  IsFiniteSet({ f[x] : x \in S })
<1>1. PICK V : V = { f[x] : x \in S }
  OBVIOUS
<1>2. PICK g : g = [x \in S |-> f[x]]
  OBVIOUS
<1>3. g \in Surjection(S, V)
  <2>1. g \in [S -> V]
    BY <1>1, <1>2
  <2>2. \A y \in V : \E x \in S : g[x] = y
    BY <1>1, <1>2
  <2> QED
    BY <2>1, <2>2 DEF Surjection
<1> QED
  BY <1>1, <1>3, FS_Surjection

LEMMA TailLaws ==
    ASSUME NEW s, IsSeq(s), s # <<>>
    PROVE  LET t == Tail(s)
           IN /\ IsSeq(t) /\ DOMAIN t = 1 .. Len(s) - 1 /\ t = [i \in 1 .. Len(s) - 1 |-> t[i]]
              /\ \A i \in 1 .. Len(s) - 1 : t[i] = s[i + 1]
<1>1. PICK S : S = { s[i] : i \in DOMAIN s }
  OBVIOUS
<1>2. s \in Seq(S) /\ Len(s) \in Nat
  BY <1>1 DEF IsSeq
<1>3. PICK t : t = Tail(s)
  OBVIOUS
<1>4. /\ t \in Seq(S) /\ Len(t) = Len(s) - 1
      /\ \A i \in 1 .. Len(s) - 1 : t[i] = s[i + 1]
  BY <1>2, <1>3
<1>5. DOMAIN t = 1 .. Len(s) - 1 /\ t = [i \in 1 .. Len(s) - 1 |-> t[i]]
  BY <1>4
<1>6. IsSeq(t)
  <2>1. PICK k : k = Len(s) - 1
    OBVIOUS
  <2>2. s # <<>> => Len(s) # 0
    BY <1>2
  <2>3. k \in Nat
    BY <1>2, <2>1, <2>2
  <2>4. PICK V : V = { t[i] : i \in DOMAIN t }
    OBVIOUS
  <2>5. t \in [1 .. k -> V]
    BY <1>5, <2>1, <2>4
  <2>6. t \in Seq(V)
    BY <2>3, <2>5
  <2> QED
    BY <2>4, <2>6 DEF IsSeq
<1> QED
  BY <1>3, <1>4, <1>5, <1>6

(* The fields of an answer are those the node was given, or there is a     *)
(* node around the first one.                                              *)
ReplyFits(b, p, f, n, g) ==
    /\ IsSeq(g)
    /\ \A i \in DOMAIN g : \/ \E j \in DOMAIN f : g[i] = f[j]
                           \/ /\ i = 1 /\ 1 \in DOMAIN f
                              /\ g[1] = Around(p.id, n, f[1])
    /\ b # "dropFirst" =>
         /\ DOMAIN g = DOMAIN f
         /\ \A i \in DOMAIN f : \/ g[i] = f[i]
                                \/ i = 1 /\ g[1] = Around(p.id, n, f[1])

LEMMA ReplyLaws ==
    ASSUME NEW b, NEW p, IsSeq(p.fields), NEW f, f = [i \in DOMAIN p.fields |-> f[i]],
           NEW n, NEW g, g = ReplyFields(b, p, f, n)
    PROVE  ReplyFits(b, p, f, n, g)
<1>1. /\ IsSeq(f) /\ Len(f) \in Nat /\ DOMAIN f = 1 .. Len(f)
      /\ p.fields # <<>> <=> f # <<>>
      /\ f # <<>> <=> Len(f) # 0
  BY SeqLike, SeqLaws
<1>2. CASE b = "dropFirst" /\ p.fields # <<>>
  <2>1. g = Tail(f)
    BY <1>2 DEF ReplyFields
  <2>2. f # <<>>
    BY <1>1, <1>2
  <2>3. PICK k : k = Len(f) - 1
    OBVIOUS
  <2>4. IsSeq(g) /\ DOMAIN g = 1 .. k /\ \A i \in 1 .. k : g[i] = f[i + 1]
    BY <1>1, <2>1, <2>2, <2>3, TailLaws
  <2>5. \A i \in 1 .. k : i + 1 \in DOMAIN f
    BY <1>1, <2>3
  <2>6. \A i \in DOMAIN g : \E j \in DOMAIN f : g[i] = f[j]
    BY <2>4, <2>5
  <2> QED
    BY <1>2, <2>4, <2>6 DEF ReplyFits
<1>3. CASE b = "wrapFirst" /\ p.fields # <<>>
  <2>1. PICK x : x = Around(p.id, n, f[1])
    OBVIOUS
  <2>2. g = [f EXCEPT ![1] = x]
    BY <1>3, <2>1 DEF ReplyFields
  <2>3. 1 \in DOMAIN f
    BY <1>1, <1>3
  <2>4. /\ g = [i \in DOMAIN f |-> g[i]] /\ DOMAIN g = DOMAIN f /\ g[1] = x
        /\ \A i \in DOMAIN f : i # 1 => g[i] = f[i]
    BY <1>1, <2>2, <2>3
  <2>5. IsSeq(g)
    BY <1>1, <2>4, SeqLike
  <2> QED
    BY <1>3, <2>1, <2>3, <2>4, <2>5 DEF ReplyFits
<1>4. CASE ~ (b \in {"dropFirst", "wrapFirst"} /\ p.fields # <<>>)
  <2>1. g = f
    BY <1>4 DEF ReplyFields
  <2>2. b = "dropFirst" => DOMAIN f = {}
    BY <1>1, <1>4
  <2> QED
    BY <1>1, <2>1 DEF ReplyFits
<1> QED
  BY <1>2, <1>3, <1>4

(* A finished pass over a tree in which no node holds its own ID.          *)
Finished(t, pa, m) ==
    /\ IsTree(t) /\ IdsNew(t) /\ NoOwnId(t)
    /\ AllAnswered(t, pa, m) /\ t.id \in DOMAIN m

(* The i-th field of the answer to p is what became of a field of p, or    *)
(* the node around what became of the first.                               *)
FromField(m, p, id, i, v) ==
    \/ \E j \in DOMAIN p.fields : v = Out(m, p.fields[j])
    \/ i = 1 /\ 1 \in DOMAIN p.fields /\ v = Around(id, 1, Out(m, p.fields[1]))

LEMMA AnswerLaws ==
    ASSUME NEW t, NEW pa, NEW m, Finished(t, pa, m), NEW id \in DOMAIN m
    PROVE  \E p \in Parts(t) :
             /\ AnswerTo(t, pa, m, id, p) /\ IsSeq(p.fields) /\ p.id = id
             /\ IsSeq(m[id].fields)
             /\ m[id] = [id |-> id, kind |-> p.kind,
                         text |-> ReplyText(BehaviourFor(pa, p.kind), p),
                         fields |-> m[id].fields]
             /\ m[id].fields = ReplyFields(BehaviourFor(pa, p.kind), p, Outs(m, p), 1)
             /\ \A i \in DOMAIN m[id].fields : FromField(m, p, id, i, m[id].fields[i])
<1>1. PICK p \in Parts(t) : AnswerTo(t, pa, m, id, p)
  BY DEF Finished, AllAnswered, AnswerFits
<1>2. PICK b : b = BehaviourFor(pa, p.kind)
  OBVIOUS
<1>3. PICK f : f = Outs(m, p)
  OBVIOUS
<1>4. PICK g : g = ReplyFields(b, p, f, 1)
  OBVIOUS
<1>5. p.id = id /\ m[id] = Reply(b, p, f, 1)
  BY <1>1, <1>2, <1>3 DEF Finished, AnswerTo
<1>6. m[id] = [id |-> id, kind |-> p.kind, text |-> ReplyText(b, p), fields |-> g]
  BY <1>4, <1>5 DEF Reply
<1>7. m[id].fields = g
  BY <1>6
<1>8. IsSeq(p.fields)
  BY TreeLaws DEF Finished
<1>9. f = [i \in DOMAIN p.fields |-> f[i]] /\ \A j \in DOMAIN p.fields : f[j] = Out(m, p.fields[j])
  BY <1>3 DEF Outs
<1>10. ReplyFits(b, p, f, 1, g)
  BY <1>4, <1>8, <1>9, ReplyLaws
<1>11. DOMAIN f = DOMAIN p.fields
  BY <1>9
<1>12. ASSUME NEW i \in DOMAIN g PROVE FromField(m, p, id, i, g[i])
  <2>1. CASE \E j \in DOMAIN f : g[i] = f[j]
    BY <1>9, <1>11, <2>1 DEF FromField
  <2>2. CASE i = 1 /\ 1 \in DOMAIN f /\ g[1] = Around(p.id, 1, f[1])
    BY <1>5, <1>9, <1>11, <2>2 DEF FromField
  <2> QED
    BY <1>10, <2>1, <2>2 DEF ReplyFits
<1>13. IsSeq(g)
  BY <1>10 DEF ReplyFits
<1> QED
  BY <1>1, <1>2, <1>3, <1>4, <1>5, <1>6, <1>7, <1>8, <1>12, <1>13

(* The nodes a pass made around others.                                    *)
Wrapped(m, id) ==
    /\ 1 \in DOMAIN m[id].fields /\ IsNode(m[id].fields[1])
    /\ m[id].fields[1].id = <<id, 1>>

Wrappers(m) == { m[id].fields[1] : id \in { x \in DOMAIN m : Wrapped(m, x) } }

Answers(m) == { m[id] : id \in DOMAIN m }

LEMMA FieldLaws ==
    ASSUME NEW t, NEW pa, NEW m, Finished(t, pa, m), NEW id, NEW p \in Parts(t),
           AnswerTo(t, pa, m, id, p), NEW j \in DOMAIN p.fields
    PROVE  /\ IsNode(p.fields[j]) =>
                /\ p.fields[j].id \in DOMAIN m /\ Out(m, p.fields[j]) = m[p.fields[j].id]
           /\ IsNode(Out(m, p.fields[j])) => Out(m, p.fields[j]) \in Answers(m)
BY DEF AnswerTo, Out, Answers

LEMMA AnswersClosed ==
    ASSUME NEW t, NEW pa, NEW m, Finished(t, pa, m)
    PROVE  ClosedNodes(Answers(m) \cup Wrappers(m))
<1>1. ASSUME NEW id \in DOMAIN m, NEW i \in DOMAIN m[id].fields, IsNode(m[id].fields[i])
      PROVE  \/ m[id].fields[i] \in Answers(m)
             \/ m[id].fields[i] \in Wrappers(m) /\ Children(m[id].fields[i]) \subseteq Answers(m)
  <2>1. PICK v : v = m[id].fields[i]
    OBVIOUS
  <2>2. PICK p \in Parts(t) : AnswerTo(t, pa, m, id, p) /\ FromField(m, p, id, i, v)
    BY <2>1, AnswerLaws
  <2>3. CASE \E j \in DOMAIN p.fields : v = Out(m, p.fields[j])
    BY <1>1, <2>1, <2>2, <2>3, FieldLaws
  <2>4. CASE i = 1 /\ 1 \in DOMAIN p.fields /\ v = Around(id, 1, Out(m, p.fields[1]))
    <3>1. PICK c : c = Out(m, p.fields[1])
      OBVIOUS
    <3>2. IsNode(c) => c \in Answers(m)
      BY <2>2, <2>4, <3>1, FieldLaws
    <3>3. v = [id |-> <<id, 1>>, kind |-> "wrapper", text |-> "new", fields |-> <<c>>]
      BY <2>4, <3>1 DEF Around
    <3>4. v.id = <<id, 1>> /\ v.fields = <<c>>
      BY <3>3
    <3>5. Children(v) \subseteq Answers(m)
      BY <3>2, <3>4 DEF Children
    <3>6. v \in Wrappers(m)
      BY <1>1, <2>1, <2>4, <3>4 DEF Wrappers, Wrapped
    <3> QED
      BY <2>1, <3>5, <3>6
  <2> QED
    BY <2>2, <2>3, <2>4 DEF FromField
<1>2. ASSUME NEW y \in Answers(m) \cup Wrappers(m), NEW x \in Children(y)
      PROVE  x \in Answers(m) \cup Wrappers(m)
  <2>1. CASE y \in Answers(m)
    <3>1. PICK id \in DOMAIN m : y = m[id]
      BY <2>1 DEF Answers
    <3>2. PICK i \in DOMAIN y.fields : x = y.fields[i] /\ IsNode(y.fields[i])
      BY <1>2 DEF Children
    <3> QED
      BY <1>1, <3>1, <3>2
  <2>2. CASE y \in Wrappers(m)
    <3>1. PICK id \in DOMAIN m : Wrapped(m, id) /\ y = m[id].fields[1]
      BY <2>2 DEF Wrappers
    <3>2. y \in Answers(m) \/ Children(y) \subseteq Answers(m)
      BY <1>1, <3>1 DEF Wrapped
    <3> QED
      BY <1>2, <2>1, <3>2
  <2> QED
    BY <2>1, <2>2
<1> QED
  BY <1>2 DEF ClosedNodes, Nested

(* What came out consists of answers and of nodes around their children.   *)
LEMMA ResultLaws ==
    ASSUME NEW t, NEW pa, NEW m, Finished(t, pa, m)
    PROVE  /\ \A id \in DOMAIN m : m[id].id = id /\ IsNode(m[id])
           /\ \A id \in DOMAIN m : \A k : id # <<k, 1>> \/ k \notin DOMAIN m
           /\ Parts(m[t.id]) \subseteq Answers(m) \cup Wrappers(m)
           /\ m[t.id] \in Parts(m[t.id]) /\ ClosedNodes(Parts(m[t.id]))
           /\ IsFiniteSet(Parts(m[t.id]))
           /\ \A T : m[t.id] \in T /\ ClosedNodes(T) => Parts(m[t.id]) \subseteq T
<1>1. ASSUME NEW id \in DOMAIN m PROVE m[id].id = id /\ IsNode(m[id])
  <2>1. PICK kind, text, fields :
          m[id] = [id |-> id, kind |-> kind, text |-> text, fields |-> fields]
    BY AnswerLaws
  <2> QED
    BY <2>1, NodeOrRef
<1>2. PICK ids : ids = { p.id : p \in Parts(t) }
  OBVIOUS
<1>3. DOMAIN m \subseteq ids
  BY <1>2 DEF Finished, AllAnswered, AnswerFits, AnswerTo
<1>4. ASSUME NEW id \in DOMAIN m, NEW k, id = <<k, 1>>, k \in DOMAIN m PROVE FALSE
  <2>1. id \in ids \cap (ids \X Nat)
    BY <1>3, <1>4
  <2>2. NewIdsAreNew(ids)
    BY <1>2 DEF Finished, IdsNew
  <2> QED
    BY <2>1, <2>2 DEF NewIdsAreNew
<1>5. IsFiniteSet(DOMAIN m)
  <2>1. PICK f : f = [p \in Parts(t) |-> p.id]
    OBVIOUS
  <2>2. IsFiniteSet({ f[p] : p \in Parts(t) })
    BY TreeLaws, ImageFinite DEF Finished
  <2>3. ids = { f[p] : p \in Parts(t) }
    BY <1>2, <2>1
  <2> QED
    BY <1>3, <2>2, <2>3, FS_Subset
<1>6. IsFiniteSet(Answers(m))
  BY <1>5, ImageFinite DEF Answers
<1>7. IsFiniteSet(Wrappers(m))
  <2>1. PICK W : W = { x \in DOMAIN m : Wrapped(m, x) }
    OBVIOUS
  <2>2. IsFiniteSet(W)
    BY <1>5, <2>1, FS_Subset
  <2>3. PICK f : f = [id \in DOMAIN m |-> m[id].fields[1]]
    OBVIOUS
  <2>4. IsFiniteSet({ f[id] : id \in W })
    BY <2>2, ImageFinite
  <2>5. Wrappers(m) = { f[id] : id \in W }
    BY <2>1, <2>3 DEF Wrappers
  <2> QED
    BY <2>4, <2>5
<1>8. PICK S : S = Answers(m) \cup Wrappers(m)
  OBVIOUS
<1>9. IsFiniteSet(S) /\ ClosedNodes(S)
  BY <1>6, <1>7, <1>8, FS_Union, AnswersClosed
<1>10. PICK r : r = m[t.id]
  OBVIOUS
<1>11. r \in S
  BY <1>8, <1>10 DEF Finished, Answers
<1>12. /\ r \in Parts(r) /\ ClosedNodes(Parts(r)) /\ IsFiniteSet(Parts(r))
       /\ \A T : r \in T /\ ClosedNodes(T) => Parts(r) \subseteq T
  BY <1>9, <1>11, PartsLaws
<1>13. Parts(r) \subseteq S
  BY <1>9, <1>11, <1>12
<1> QED
  BY <1>1, <1>4, <1>8, <1>10, <1>12, <1>13

LEMMA OneResult ==
    ASSUME NEW t, NEW pa, NEW m, Finished(t, pa, m)
    PROVE  OneNodePerId(m[t.id])
<1>1. ASSUME NEW p \in Parts(m[t.id]), NEW q \in Parts(m[t.id]), p.id = q.id
      PROVE  p = q
  <2>1. p \in Answers(m) \cup Wrappers(m) /\ q \in Answers(m) \cup Wrappers(m)
    BY ResultLaws
  <2>2. ASSUME NEW x \in Answers(m) PROVE \E id \in DOMAIN m : x = m[id] /\ x.id = id
    BY ResultLaws DEF Answers
  <2>3. ASSUME NEW x \in Wrappers(m)
        PROVE  \E id \in DOMAIN m : x = m[id].fields[1] /\ x.id = <<id, 1>>
    BY DEF Wrappers, Wrapped
  <2>4. CASE p \in Answers(m) /\ q \in Answers(m)
    BY <1>1, <2>2, <2>4
  <2>5. CASE p \in Wrappers(m) /\ q \in Wrappers(m)
    <3>1. PICK i \in DOMAIN m : p = m[i].fields[1] /\ p.id = <<i, 1>>
      BY <2>3, <2>5
    <3>2. PICK j \in DOMAIN m : q = m[j].fields[1] /\ q.id = <<j, 1>>
      BY <2>3, <2>5
    <3> QED
      BY <1>1, <3>1, <3>2
  <2>6. ASSUME NEW x \in Answers(m), NEW y \in Wrappers(m), x.id = y.id PROVE FALSE
    <3>1. x.id \in DOMAIN m
      BY <2>2
    <3>2. PICK k \in DOMAIN m : y.id = <<k, 1>>
      BY <2>3
    <3> QED
      BY <2>6, <3>1, <3>2, ResultLaws
  <2> QED
    BY <1>1, <2>1, <2>4, <2>5, <2>6
<1> QED
  BY <1>1 DEF OneNodePerId

LEMMA PassFinishes ==
    ASSUME PassInv, outcome = "mapped", NoOwnId(tree)
    PROVE  Finished(tree, pass, memo)
BY DEF PassInv, Mapping, Finished

LEMMA OneResultEach == PassInv => OneResultPerId
<1> SUFFICES ASSUME PassInv, outcome = "mapped", NoOwnId(tree)
             PROVE  OneNodePerId(memo[tree.id])
  BY PassOps DEF OneResultPerId, Pass!OneResultPerId, Pass!Result
<1> QED
  BY PassFinishes, OneResult

(* What comes out of ir-node-map holds one node for each ID, however the   *)
(* tree that went in shared its nodes, if none held its own ID.            *)
THEOREM OneResultInvariant == RacketSpec => []OneResultPerId
  BY RacketInvariant, OneResultEach, PTL DEF RacketInv

-----------------------------------------------------------------------------
(* A pass over the tree of a unit, seen as a pass over its rows.           *)

Passed(u, pa, m, n) ==
    /\ u \in Units /\ AllMade(u, m, {})
    /\ u.root \in DOMAIN m /\ DOMAIN m \subseteq DOMAIN u.rows
    /\ Parts(m[u.root]) = { m[id] : id \in DOMAIN m }
    /\ \A id \in DOMAIN m : m[id].id = id
    /\ Finished(m[u.root], pa, n)

(* The answer to the node of a row, whose fields had become f.             *)
Answered(u, pa, m, n, id, b, f) ==
    /\ id \in DOMAIN m /\ m[id].id = id /\ m[id].text = u.rows[id].text
    /\ AnswerTo(m[u.root], pa, n, id, m[id])
    /\ IsSeq(m[id].fields) /\ IsSeq(Kids(u, id))
    /\ DOMAIN Kids(u, id) = DOMAIN m[id].fields
    /\ f = [i \in DOMAIN m[id].fields |-> f[i]]
    /\ \A i \in DOMAIN f : /\ f[i] = Out(n, m[id].fields[i])
                           /\ IdOf(f[i]) = Kids(u, id)[i]
                           /\ Kids(u, id)[i] \in DOMAIN m
                           /\ Acyclic(RowGraph(u)) => IsNode(f[i])
    /\ n[id] = [id |-> id, kind |-> u.rows[id].kind, text |-> ReplyText(b, m[id]),
                fields |-> ReplyFields(b, m[id], f, 1)]

LEMMA AnsweredLaws ==
    ASSUME NEW u, NEW pa, NEW m, NEW n, Passed(u, pa, m, n), NEW id \in DOMAIN n,
           NEW b, b = BehaviourFor(pa, u.rows[id].kind), NEW f, f = Outs(n, m[id])
    PROVE  Answered(u, pa, m, n, id, b, f)
<1>1. PICK t : t = m[u.root]
  OBVIOUS
<1>2. /\ u \in Units /\ AllMade(u, m, {}) /\ Finished(t, pa, n)
      /\ Parts(t) = { m[x] : x \in DOMAIN m } /\ \A x \in DOMAIN m : m[x].id = x
      /\ DOMAIN m \subseteq DOMAIN u.rows
  BY <1>1 DEF Passed
<1>3. PICK p \in Parts(t) :
        /\ AnswerTo(t, pa, n, id, p) /\ IsSeq(p.fields) /\ p.id = id
        /\ n[id] = [id |-> id, kind |-> p.kind,
                    text |-> ReplyText(BehaviourFor(pa, p.kind), p),
                    fields |-> n[id].fields]
        /\ n[id].fields = ReplyFields(BehaviourFor(pa, p.kind), p, Outs(n, p), 1)
  BY <1>2, AnswerLaws
<1>4. id \in DOMAIN m /\ p = m[id]
  BY <1>2, <1>3
<1>5. /\ Row(p) = u.rows[id]
      /\ \A i \in DOMAIN p.fields : IdOf(p.fields[i]) = Kids(u, id)[i]
      /\ Acyclic(RowGraph(u)) => \A i \in DOMAIN p.fields : IsNode(p.fields[i])
  BY <1>2, <1>4, RowOfMade
<1>6. p.kind = u.rows[id].kind /\ p.text = u.rows[id].text
  BY <1>5 DEF Row
<1>7. NodeFits(u, m, {}, id)
  BY <1>2, <1>4 DEF AllMade
<1>8. DOMAIN p.fields = DOMAIN Kids(u, id)
  BY <1>4, <1>7 DEF NodeFits
<1>9. IsSeq(Kids(u, id))
  <2>1. Kids(u, id) \in Seq(DOMAIN u.rows)
    BY <1>2, <1>4, UnitLaws DEF IsUnit
  <2> QED
    BY <2>1 DEF IsSeq
<1>10. f = [i \in DOMAIN p.fields |-> f[i]] /\ \A i \in DOMAIN f : f[i] = Out(n, p.fields[i])
  BY <1>4 DEF Outs
<1>11. ASSUME NEW i \in DOMAIN f
       PROVE  /\ IdOf(f[i]) = Kids(u, id)[i] /\ Kids(u, id)[i] \in DOMAIN m
              /\ Acyclic(RowGraph(u)) => IsNode(f[i])
  <2>1. PICK v : v = p.fields[i]
    OBVIOUS
  <2>2. i \in DOMAIN p.fields /\ f[i] = Out(n, v) /\ IdOf(v) = Kids(u, id)[i]
        /\ (Acyclic(RowGraph(u)) => IsNode(v))
    BY <1>5, <1>10, <2>1
  <2>3. ASSUME IsNode(v) PROVE f[i] = n[v.id] /\ IsNode(f[i]) /\ IdOf(f[i]) = IdOf(v)
    <3>1. v.id \in DOMAIN n
      BY <1>3, <2>1, <2>2, <2>3 DEF AnswerTo
    <3>2. n[v.id].id = v.id /\ IsNode(n[v.id])
      BY <1>2, <3>1, ResultLaws
    <3> QED
      BY <2>2, <2>3, <3>2 DEF Out, IdOf
  <2>4. ASSUME ~ IsNode(v) PROVE f[i] = v
    BY <2>2, <2>4 DEF Out
  <2>5. Kids(u, id)[i] \in DOMAIN m
    BY <1>7, <1>8, <2>2 DEF NodeFits, MadeFor
  <2> QED
    BY <2>2, <2>3, <2>4, <2>5
<1>12. n[id] = [id |-> id, kind |-> u.rows[id].kind, text |-> ReplyText(b, p),
                fields |-> ReplyFields(b, p, f, 1)]
  BY <1>3, <1>4, <1>6
<1> QED
  BY <1>1, <1>3, <1>4, <1>6, <1>8, <1>9, <1>10, <1>11, <1>12 DEF Answered

(* The references of an answer, and of a node around its first field.      *)
ReplyIds(b, p, f, refs, g, h) ==
    /\ b = "dropFirst" /\ refs # <<>> => h = Tail(refs)
    /\ b = "wrapFirst" /\ refs # <<>> =>
         /\ h = [refs EXCEPT ![1] = <<p.id, 1>>] /\ 1 \in DOMAIN f
         /\ g[1] = Around(p.id, 1, f[1])
    /\ ~ (b = "wrapFirst" /\ refs # <<>>) =>
         \A i \in DOMAIN h : \E j \in DOMAIN refs : h[i] = refs[j]
    /\ ~ (b \in {"dropFirst", "wrapFirst"} /\ refs # <<>>) => h = refs

LEMMA ReplyIdLaws ==
    ASSUME NEW p, IsSeq(p.fields), NEW refs, IsSeq(refs), DOMAIN refs = DOMAIN p.fields,
           NEW f, f = [i \in DOMAIN p.fields |-> f[i]],
           \A i \in DOMAIN f : IdOf(f[i]) = refs[i],
           NEW b, NEW g, g = ReplyFields(b, p, f, 1),
           NEW h, h = [i \in DOMAIN g |-> IdOf(g[i])]
    PROVE  ReplyIds(b, p, f, refs, g, h)
<1>1. /\ IsSeq(f) /\ Len(f) \in Nat /\ DOMAIN f = 1 .. Len(f)
      /\ p.fields # <<>> <=> f # <<>>
      /\ f # <<>> <=> Len(f) # 0
  BY SeqLike, SeqLaws
<1>2. Len(refs) \in Nat /\ DOMAIN refs = 1 .. Len(refs) /\ (refs = <<>> <=> Len(refs) = 0)
  BY SeqLaws
<1>3. DOMAIN f = DOMAIN refs
  OBVIOUS
<1>4. Len(refs) = Len(f) /\ (refs # <<>> <=> p.fields # <<>>)
  <2>1. PICK k \in Nat : k = Len(f)
    BY <1>1
  <2>2. PICK l \in Nat : l = Len(refs)
    BY <1>2
  <2>3. 1 .. k = 1 .. l
    BY <1>1, <1>2, <1>3, <2>1, <2>2
  <2>4. (k \in 1 .. k <=> k # 0) /\ (l \in 1 .. l <=> l # 0)
    OBVIOUS
  <2>5. k = l
    <3>1. k \in 1 .. k => k <= l
      BY <2>3
    <3>2. l \in 1 .. l => l <= k
      BY <2>3
    <3> QED
      BY <2>4, <3>1, <3>2
  <2> QED
    BY <1>1, <1>2, <2>1, <2>2, <2>5
<1>5. CASE b = "dropFirst" /\ refs # <<>>
  <2>1. g = Tail(f) /\ f # <<>>
    BY <1>4, <1>5, <1>1 DEF ReplyFields
  <2>2. PICK r : r = Tail(refs)
    OBVIOUS
  <2>5. PICK l \in Nat : l = Len(f) /\ l # 0
    BY <1>1, <2>1
  <2>6. PICK k : k = l - 1
    OBVIOUS
  <2>7. k \in Nat
    BY <2>5, <2>6
  <2>3. k = Len(f) - 1 /\ Len(f) # 0
    BY <2>5, <2>6
  <2>4. DOMAIN g = 1 .. k /\ \A i \in 1 .. k : g[i] = f[i + 1]
    BY <1>1, <2>1, <2>3, <2>7, TailLaws
  <2>8. DOMAIN r = 1 .. k /\ r = [i \in 1 .. k |-> r[i]] /\ \A i \in 1 .. k : r[i] = refs[i + 1]
    BY <1>4, <1>5, <2>2, <2>3, <2>7, TailLaws
  <2>10. \A i \in 1 .. k : i + 1 \in DOMAIN f
    BY <1>1, <2>3, <2>7
  <2>12. h = [i \in 1 .. k |-> h[i]]
    BY <2>4
  <2>13. ASSUME NEW i \in 1 .. k PROVE h[i] = r[i] /\ r[i] = refs[i + 1] /\ i + 1 \in DOMAIN refs
    BY <1>3, <2>4, <2>8, <2>10
  <2>14. h = r
    BY <2>8, <2>12, <2>13, SameFunction
  <2>15. \A i \in DOMAIN h : \E j \in DOMAIN refs : h[i] = refs[j]
    BY <2>4, <2>13, <2>14
  <2> QED
    BY <1>5, <2>2, <2>14, <2>15 DEF ReplyIds
<1>6. CASE b = "wrapFirst" /\ refs # <<>>
  <2>1. PICK x : x = Around(p.id, 1, f[1])
    OBVIOUS
  <2>2. g = [f EXCEPT ![1] = x]
    BY <1>4, <1>6, <2>1 DEF ReplyFields
  <2>3. 1 \in DOMAIN f
    BY <1>1, <1>4, <1>6
  <2>4. /\ DOMAIN g = DOMAIN f /\ g[1] = x
        /\ \A i \in DOMAIN f : i # 1 => g[i] = f[i]
    BY <1>1, <2>2, <2>3
  <2>5. PICK key : key = <<p.id, 1>>
    OBVIOUS
  <2>6. IdOf(x) = key
    BY <2>1, <2>5, NodeOrRef DEF Around
  <2>7. PICK r : r = [refs EXCEPT ![1] = key]
    OBVIOUS
  <2>8. refs = [i \in DOMAIN f |-> refs[i]]
    BY <1>3 DEF IsSeq
  <2>9. /\ r = [i \in DOMAIN f |-> r[i]] /\ r[1] = key
        /\ \A i \in DOMAIN f : i # 1 => r[i] = refs[i]
    BY <2>3, <2>7, <2>8
  <2>10. h = [i \in DOMAIN f |-> h[i]]
    BY <2>4
  <2>11. ASSUME NEW i \in DOMAIN f PROVE h[i] = r[i]
    BY <2>4, <2>6, <2>9
  <2>12. h = r
    BY <2>9, <2>10, <2>11, SameFunction
  <2> QED
    BY <1>6, <2>1, <2>3, <2>4, <2>5, <2>7, <2>12 DEF ReplyIds
<1>7. CASE ~ (b \in {"dropFirst", "wrapFirst"} /\ refs # <<>>)
  <2>1. g = f
    BY <1>4, <1>7 DEF ReplyFields
  <2>2. refs = [i \in DOMAIN f |-> refs[i]]
    BY <1>3 DEF IsSeq
  <2>3. h = [i \in DOMAIN f |-> h[i]] /\ \A i \in DOMAIN f : h[i] = refs[i]
    BY <2>1
  <2>4. h = refs
    BY <2>2, <2>3, SameFunction
  <2> QED
    BY <1>7, <2>4 DEF ReplyIds
<1> QED
  BY <1>5, <1>6, <1>7

(* A row with other contents.                                              *)
LEMMA ChangedRow ==
    ASSUME NEW k, NEW t, NEW refs, NEW row, row = [kind |-> k, text |-> t, refs |-> refs], NEW x
    PROVE  /\ [row EXCEPT !.text = x] = [kind |-> k, text |-> x, refs |-> refs]
           /\ [row EXCEPT !.refs = x] = [kind |-> k, text |-> t, refs |-> x]
<1>1. PICK D : D = {"kind", "text", "refs"}
  OBVIOUS
<1>2. /\ DOMAIN row = D /\ row = [y \in D |-> row[y]]
      /\ row.kind = k /\ row.text = t /\ row.refs = refs
  BY <1>1
<1>3. [row EXCEPT !.text = x] = [kind |-> k, text |-> x, refs |-> refs]
  <2>1. PICK g : g = [row EXCEPT !.text = x]
    OBVIOUS
  <2>2. PICK r : r = [kind |-> k, text |-> x, refs |-> refs]
    OBVIOUS
  <2>3. g = [y \in D |-> g[y]] /\ r = [y \in D |-> r[y]]
    BY <1>1, <1>2, <2>1, <2>2
  <2>4. g.kind = r.kind /\ g.text = r.text /\ g.refs = r.refs
    BY <1>1, <1>2, <2>1, <2>2
  <2>5. g = r
    BY <1>1, <2>3, <2>4, SameFunction
  <2> QED
    BY <2>1, <2>2, <2>5
<1>4. [row EXCEPT !.refs = x] = [kind |-> k, text |-> t, refs |-> x]
  <2>1. PICK g : g = [row EXCEPT !.refs = x]
    OBVIOUS
  <2>2. PICK r : r = [kind |-> k, text |-> t, refs |-> x]
    OBVIOUS
  <2>3. g = [y \in D |-> g[y]] /\ r = [y \in D |-> r[y]]
    BY <1>1, <1>2, <2>1, <2>2
  <2>4. g.kind = r.kind /\ g.text = r.text /\ g.refs = r.refs
    BY <1>1, <1>2, <2>1, <2>2
  <2>5. g = r
    BY <1>1, <2>3, <2>4, SameFunction
  <2> QED
    BY <2>1, <2>2, <2>5
<1> QED
  BY <1>3, <1>4

LEMMA BehaviourLaws ==
    ASSUME NEW id
    PROVE  /\ Behaviour(id) = BehaviourFor(pass, unit.rows[id].kind)
           /\ Wraps(id) <=> Behaviour(id) = "wrapFirst" /\ Kids(unit, id) # <<>>
BY PassOps DEF Behaviour, BehaviourFor, Wraps, Kids

LEMMA AnswerRow ==
    ASSUME NEW m, NEW n, Passed(unit, pass, m, n), NEW id \in DOMAIN n
    PROVE  Row(n[id]) = RowAfter(id)
<1>1. PICK b : b = Behaviour(id)
  OBVIOUS
<1>2. PICK p : p = m[id]
  OBVIOUS
<1>3. PICK f : f = Outs(n, p)
  OBVIOUS
<1>4. PICK g : g = ReplyFields(b, p, f, 1)
  OBVIOUS
<1>5. PICK h : h = [i \in DOMAIN g |-> IdOf(g[i])]
  OBVIOUS
<1>6. PICK refs : refs = Kids(unit, id)
  OBVIOUS
<1>7. Answered(unit, pass, m, n, id, b, f)
  BY <1>1, <1>2, <1>3, BehaviourLaws, AnsweredLaws
<1>8. /\ p.id = id /\ p.text = unit.rows[id].text /\ IsSeq(p.fields) /\ IsSeq(refs)
      /\ DOMAIN refs = DOMAIN p.fields /\ f = [i \in DOMAIN p.fields |-> f[i]]
      /\ \A i \in DOMAIN f : IdOf(f[i]) = refs[i]
      /\ id \in DOMAIN m
  BY <1>2, <1>6, <1>7 DEF Answered
<1>9. n[id] = [id |-> id, kind |-> unit.rows[id].kind, text |-> ReplyText(b, p), fields |-> g]
  BY <1>2, <1>4, <1>7 DEF Answered
<1>10. ReplyIds(b, p, f, refs, g, h)
  BY <1>4, <1>5, <1>8, ReplyIdLaws
<1>11. PICK row : row = unit.rows[id]
  OBVIOUS
<1>12. row = [kind |-> row.kind, text |-> row.text, refs |-> refs] /\ row.refs = refs
  <2>1. unit \in Units /\ id \in DOMAIN unit.rows
    BY <1>8 DEF Passed
  <2> QED
    BY <1>6, <1>11, <2>1, UnitLaws DEF Kids
<1>13. Row(n[id]) = [kind |-> row.kind, text |-> ReplyText(b, p), refs |-> h]
  BY <1>5, <1>9, <1>11 DEF Row
<1>14. CASE b = "edit"
  <2>1. RowAfter(id) = [row EXCEPT !.text = "new"]
    BY <1>1, <1>11, <1>14, BehaviourLaws DEF RowAfter
  <2>2. RowAfter(id) = [kind |-> row.kind, text |-> "new", refs |-> refs]
    BY <1>12, <2>1, ChangedRow
  <2>3. h = refs /\ ReplyText(b, p) = "new"
    BY <1>10, <1>14 DEF ReplyIds, ReplyText
  <2> QED
    BY <1>13, <2>2, <2>3
<1>15. CASE b = "dropFirst" /\ refs # <<>>
  <2>1. RowAfter(id) = [row EXCEPT !.refs = Tail(@)]
    BY <1>1, <1>11, <1>12, <1>15, BehaviourLaws DEF RowAfter
  <2>2. PICK r : r = Tail(refs)
    OBVIOUS
  <2>3. RowAfter(id) = [row EXCEPT !.refs = r]
    BY <1>12, <2>1, <2>2
  <2>4. RowAfter(id) = [kind |-> row.kind, text |-> row.text, refs |-> r]
    BY <1>12, <2>3, ChangedRow
  <2>5. h = r /\ ReplyText(b, p) = row.text
    BY <1>8, <1>10, <1>11, <1>15, <2>2 DEF ReplyIds, ReplyText
  <2> QED
    BY <1>13, <2>4, <2>5
<1>16. CASE b = "wrapFirst" /\ refs # <<>>
  <2>1. RowAfter(id) = [row EXCEPT !.refs[1] = <<id, 1>>]
    BY <1>1, <1>6, <1>11, <1>12, <1>16, BehaviourLaws DEF RowAfter
  <2>2. PICK r : r = [refs EXCEPT ![1] = <<id, 1>>]
    OBVIOUS
  <2>3. RowAfter(id) = [row EXCEPT !.refs = r]
    BY <1>12, <2>1, <2>2
  <2>4. RowAfter(id) = [kind |-> row.kind, text |-> row.text, refs |-> r]
    BY <1>12, <2>3, ChangedRow
  <2>5. h = r /\ ReplyText(b, p) = row.text
    BY <1>8, <1>10, <1>11, <1>16, <2>2 DEF ReplyIds, ReplyText
  <2> QED
    BY <1>13, <2>4, <2>5
<1>17. CASE b # "edit" /\ ~ (b \in {"dropFirst", "wrapFirst"} /\ refs # <<>>)
  <2>1. RowAfter(id) = row
    BY <1>1, <1>6, <1>11, <1>12, <1>17, BehaviourLaws DEF RowAfter
  <2>2. h = refs /\ ReplyText(b, p) = row.text
    BY <1>8, <1>10, <1>11, <1>17 DEF ReplyIds, ReplyText
  <2> QED
    BY <1>12, <1>13, <2>1, <2>2
<1> QED
  BY <1>14, <1>15, <1>16, <1>17

(* A node that was put around another is that of its row.                  *)
LEMMA WrapperRow ==
    ASSUME NEW m, NEW n, Passed(unit, pass, m, n), NEW id \in DOMAIN n, Wrapped(n, id),
           NEW x, x = n[id].fields[1]
    PROVE  /\ x.id = <<id, 1>> /\ Wraps(id) /\ Row(x) = RowAround(id)
           /\ id \in DOMAIN m
           /\ \E v : /\ x.fields = <<v>> /\ v = Out(n, m[id].fields[1])
                     /\ 1 \in DOMAIN m[id].fields /\ IdOf(v) \in DOMAIN m
                     /\ Acyclic(RowGraph(unit)) => IsNode(v)
<1>1. PICK b : b = Behaviour(id)
  OBVIOUS
<1>2. PICK p : p = m[id]
  OBVIOUS
<1>3. PICK f : f = Outs(n, p)
  OBVIOUS
<1>4. PICK g : g = ReplyFields(b, p, f, 1)
  OBVIOUS
<1>5. PICK h : h = [i \in DOMAIN g |-> IdOf(g[i])]
  OBVIOUS
<1>6. PICK refs : refs = Kids(unit, id)
  OBVIOUS
<1>7. Answered(unit, pass, m, n, id, b, f)
  BY <1>1, <1>2, <1>3, BehaviourLaws, AnsweredLaws
<1>8. /\ p.id = id /\ IsSeq(p.fields) /\ IsSeq(refs)
      /\ DOMAIN refs = DOMAIN p.fields /\ f = [i \in DOMAIN p.fields |-> f[i]]
      /\ \A i \in DOMAIN f : IdOf(f[i]) = refs[i] /\ refs[i] \in DOMAIN m
                             /\ f[i] = Out(n, p.fields[i])
                             /\ (Acyclic(RowGraph(unit)) => IsNode(f[i]))
      /\ id \in DOMAIN m
  BY <1>2, <1>6, <1>7 DEF Answered
<1>9. n[id] = [id |-> id, kind |-> unit.rows[id].kind, text |-> ReplyText(b, p), fields |-> g]
  BY <1>2, <1>4, <1>7 DEF Answered
<1>10. ReplyIds(b, p, f, refs, g, h)
  BY <1>4, <1>5, <1>8, ReplyIdLaws
<1>11. n[id].fields = g
  BY <1>9
<1>12. PICK key : key = <<id, 1>>
  OBVIOUS
<1>13. 1 \in DOMAIN g /\ x = g[1] /\ IsNode(x) /\ x.id = key
  BY <1>11, <1>12 DEF Wrapped
<1>14. h[1] = key /\ 1 \in DOMAIN h
  BY <1>5, <1>13 DEF IdOf
<1>15. key \notin DOMAIN m
  <2>1. unit \in Units /\ DOMAIN m \subseteq DOMAIN unit.rows
    BY DEF Passed
  <2>2. PICK ids : ids = DOMAIN unit.rows
    OBVIOUS
  <2>3. NewIdsAreNew(ids) /\ id \in ids
    BY <1>8, <2>1, <2>2, UnitLaws
  <2>4. key \in ids \X Nat
    BY <1>12, <2>3
  <2> QED
    BY <2>1, <2>2, <2>3, <2>4 DEF NewIdsAreNew
<1>16. b = "wrapFirst" /\ refs # <<>>
  <2>1. SUFFICES ASSUME ~ (b = "wrapFirst" /\ refs # <<>>) PROVE FALSE
    OBVIOUS
  <2>2. PICK j \in DOMAIN refs : h[1] = refs[j]
    BY <1>10, <1>14, <2>1 DEF ReplyIds
  <2>3. j \in DOMAIN f
    BY <1>8
  <2> QED
    BY <1>8, <1>14, <1>15, <2>2, <2>3
<1>17. 1 \in DOMAIN f /\ g[1] = Around(p.id, 1, f[1])
  BY <1>10, <1>16 DEF ReplyIds
<1>18. PICK v : v = f[1]
  OBVIOUS
<1>19. x = [id |-> key, kind |-> "wrapper", text |-> "new", fields |-> <<v>>]
  BY <1>8, <1>12, <1>13, <1>17, <1>18 DEF Around
<1>20. x.fields = <<v>> /\ x.kind = "wrapper" /\ x.text = "new"
  BY <1>19
<1>21. IdOf(v) = refs[1] /\ refs[1] \in DOMAIN m /\ v = Out(n, p.fields[1])
       /\ 1 \in DOMAIN p.fields /\ (Acyclic(RowGraph(unit)) => IsNode(v))
  BY <1>8, <1>17, <1>18
<1>22. Row(x) = RowAround(id)
  <2>1. PICK l : l = [i \in DOMAIN x.fields |-> IdOf(x.fields[i])]
    OBVIOUS
  <2>2. x.fields[1] = v /\ DOMAIN x.fields = {1}
    BY <1>20
  <2>3. l = [i \in {1} |-> l[i]] /\ l[1] = refs[1]
    BY <1>21, <2>1, <2>2
  <2>4. PICK r : r = <<refs[1]>>
    OBVIOUS
  <2>5. r = [i \in {1} |-> r[i]] /\ r[1] = refs[1]
    BY <2>4
  <2>6. l = r
    BY <2>3, <2>5, SameFunction
  <2>7. RowAround(id) = [kind |-> "wrapper", text |-> "new", refs |-> r]
    BY <1>6, <2>4 DEF RowAround, Kids
  <2>8. Row(x) = [kind |-> "wrapper", text |-> "new", refs |-> l]
    BY <1>20, <2>1 DEF Row
  <2> QED
    BY <2>6, <2>7, <2>8
<1>23. Wraps(id)
  BY <1>1, <1>6, <1>16, BehaviourLaws
<1> QED
  BY <1>2, <1>8, <1>12, <1>13, <1>20, <1>21, <1>22, <1>23

LEMMA PassedLaws ==
    ASSUME NEW m, NEW n, Passed(unit, pass, m, n), NEW whole, whole = n[unit.root]
    PROVE  /\ unit.root \in DOMAIN n /\ whole.id = unit.root
           /\ whole \in Parts(whole) /\ ClosedNodes(Parts(whole))
           /\ \A T : whole \in T /\ ClosedNodes(T) => Parts(whole) \subseteq T
           /\ OneNodePerId(whole)
           /\ \A p \in Parts(whole) :
                \/ \E id \in DOMAIN n : p = n[id] /\ p.id = id
                \/ \E id \in DOMAIN n : Wrapped(n, id) /\ p = n[id].fields[1]
<1>1. PICK t : t = m[unit.root]
  OBVIOUS
<1>2. Finished(t, pass, n) /\ t.id = unit.root
  BY <1>1 DEF Passed
<1>3. t.id \in DOMAIN n
  BY <1>2 DEF Finished
<1>4. whole = n[t.id] /\ whole.id = t.id
  BY <1>2, <1>3, ResultLaws
<1>5. Parts(whole) \subseteq Answers(n) \cup Wrappers(n)
  BY <1>2, <1>4, ResultLaws
<1>6. ASSUME NEW p \in Parts(whole)
      PROVE  \/ \E id \in DOMAIN n : p = n[id] /\ p.id = id
             \/ \E id \in DOMAIN n : Wrapped(n, id) /\ p = n[id].fields[1]
  <2>1. CASE p \in Answers(n)
    BY <1>2, <2>1, ResultLaws DEF Answers
  <2>2. CASE p \in Wrappers(n)
    BY <2>2 DEF Wrappers
  <2> QED
    BY <1>5, <2>1, <2>2
<1>7. OneNodePerId(whole)
  BY <1>2, <1>4, OneResult
<1> QED
  BY <1>2, <1>3, <1>4, <1>6, <1>7, ResultLaws

(* A field of what came out that is no node names a node that went in.     *)
LEMMA FieldsOfParts ==
    ASSUME NEW m, NEW n, Passed(unit, pass, m, n), NEW whole, whole = n[unit.root],
           NEW p \in Parts(whole), NEW i \in DOMAIN p.fields, NEW v, v = p.fields[i]
    PROVE  /\ IsNode(v) => v \in Parts(whole) /\ IdOf(v) = v.id
           /\ ~ IsNode(v) => IdOf(v) \in DOMAIN m /\ ~ Acyclic(RowGraph(unit))
<1>1. ASSUME IsNode(v) PROVE v \in Parts(whole) /\ IdOf(v) = v.id
  <2>1. v \in Children(p)
    BY <1>1 DEF Children
  <2> QED
    BY <1>1, <2>1, PassedLaws DEF ClosedNodes, Nested, IdOf
<1>2. ASSUME NEW id \in DOMAIN n, p = n[id], ~ IsNode(v)
      PROVE  IdOf(v) \in DOMAIN m /\ ~ Acyclic(RowGraph(unit))
  <2>1. PICK t : t = m[unit.root]
    OBVIOUS
  <2>2. Finished(t, pass, n)
    BY <2>1 DEF Passed
  <2>3. PICK q \in Parts(t) : q.id = id /\ FromField(n, q, id, i, v)
    BY <1>2, <2>2, AnswerLaws
  <2>4. q = m[id]
    <3>1. PICK x \in DOMAIN m : q = m[x] /\ q.id = x
      BY <2>1, <2>3 DEF Passed
    <3> QED
      BY <2>3, <3>1
  <2>5. ~ (v = Around(id, 1, Out(n, q.fields[1])))
    BY <1>2, NodeOrRef DEF Around
  <2>6. PICK j \in DOMAIN q.fields : v = Out(n, q.fields[j])
    BY <2>3, <2>5 DEF FromField
  <2>7. PICK b : b = BehaviourFor(pass, unit.rows[id].kind)
    OBVIOUS
  <2>8. PICK f : f = Outs(n, m[id])
    OBVIOUS
  <2>9. Answered(unit, pass, m, n, id, b, f)
    BY <2>7, <2>8, AnsweredLaws
  <2>10. j \in DOMAIN f /\ f[j] = v
    BY <2>4, <2>6, <2>8 DEF Outs
  <2>11. IdOf(v) \in DOMAIN m /\ (Acyclic(RowGraph(unit)) => IsNode(v))
    BY <2>9, <2>10 DEF Answered
  <2> QED
    BY <1>2, <2>11
<1>3. ASSUME NEW id \in DOMAIN n, Wrapped(n, id), p = n[id].fields[1], ~ IsNode(v)
      PROVE  IdOf(v) \in DOMAIN m /\ ~ Acyclic(RowGraph(unit))
  <2>1. PICK w : /\ p.fields = <<w>> /\ IdOf(w) \in DOMAIN m
                 /\ Acyclic(RowGraph(unit)) => IsNode(w)
    BY <1>3, WrapperRow
  <2>2. v = w
    BY <2>1
  <2> QED
    BY <1>3, <2>1, <2>2
<1>4. \/ \E id \in DOMAIN n : p = n[id] /\ p.id = id
      \/ \E id \in DOMAIN n : Wrapped(n, id) /\ p = n[id].fields[1]
  BY PassedLaws
<1> QED
  BY <1>1, <1>2, <1>3, <1>4

LEMMA RowOfPart ==
    ASSUME NEW m, NEW n, Passed(unit, pass, m, n), NEW whole, whole = n[unit.root],
           NEW p \in Parts(whole)
    PROVE  p.id \in DOMAIN TableAfter /\ TableAfter[p.id] = Row(p)
<1>1. PICK old : old = DOMAIN unit.rows
  OBVIOUS
<1>2. PICK wrappers : wrappers = { <<id, 1>> : id \in { x \in DOMAIN unit.rows : Wraps(x) } }
  OBVIOUS
<1>3. TableAfter = [id \in old \cup wrappers |->
                      IF id \in old THEN RowAfter(id) ELSE RowAround(id[1])]
  BY <1>1, <1>2 DEF TableAfter
<1>4. DOMAIN m \subseteq old /\ unit \in Units
  BY <1>1 DEF Passed
<1>5. ASSUME NEW id \in DOMAIN n, p = n[id], p.id = id
      PROVE  p.id \in DOMAIN TableAfter /\ TableAfter[p.id] = Row(p)
  <2>1. PICK b : b = BehaviourFor(pass, unit.rows[id].kind)
    OBVIOUS
  <2>2. PICK f : f = Outs(n, m[id])
    OBVIOUS
  <2>3. Answered(unit, pass, m, n, id, b, f)
    BY <2>1, <2>2, AnsweredLaws
  <2>4. id \in old
    BY <1>4, <2>3 DEF Answered
  <2>5. Row(p) = RowAfter(id)
    BY <1>5, AnswerRow
  <2> QED
    BY <1>3, <1>5, <2>4, <2>5
<1>6. ASSUME NEW id \in DOMAIN n, Wrapped(n, id), p = n[id].fields[1]
      PROVE  p.id \in DOMAIN TableAfter /\ TableAfter[p.id] = Row(p)
  <2>1. PICK key : key = <<id, 1>>
    OBVIOUS
  <2>2. p.id = key /\ Wraps(id) /\ Row(p) = RowAround(id) /\ id \in DOMAIN m
    BY <1>6, <2>1, WrapperRow
  <2>3. id \in old /\ key \in wrappers /\ key[1] = id
    BY <1>1, <1>2, <1>4, <2>1, <2>2
  <2>4. key \notin old
    <3>1. NewIdsAreNew(old)
      BY <1>1, <1>4, UnitLaws
    <3>2. key \in old \X Nat
      BY <2>1, <2>3
    <3> QED
      BY <3>1, <3>2 DEF NewIdsAreNew
  <2> QED
    BY <1>3, <2>2, <2>3, <2>4
<1>7. \/ \E id \in DOMAIN n : p = n[id] /\ p.id = id
      \/ \E id \in DOMAIN n : Wrapped(n, id) /\ p = n[id].fields[1]
  BY PassedLaws
<1> QED
  BY <1>5, <1>6, <1>7

(* Where no child is dropped, what went in comes out.                      *)
LEMMA NothingLost ==
    ASSUME NEW m, NEW n, Passed(unit, pass, m, n), NEW whole, whole = n[unit.root],
           DropsNothing, NEW id \in DOMAIN m
    PROVE  id \in DOMAIN n /\ n[id] \in Parts(whole)
<1>1. PICK t : t = m[unit.root]
  OBVIOUS
<1>2. /\ Finished(t, pass, n) /\ t.id = unit.root /\ DOMAIN m \subseteq DOMAIN unit.rows
      /\ Parts(t) = { m[x] : x \in DOMAIN m } /\ \A x \in DOMAIN m : m[x].id = x
  BY <1>1 DEF Passed
<1>3. PICK K : K = { q \in Parts(t) : q.id \in DOMAIN n /\ n[q.id] \in Parts(whole) }
  OBVIOUS
<1>4. t \in Parts(t) /\ ClosedNodes(Parts(t)) /\ IsFiniteSet(Parts(t))
  BY <1>2, TreeLaws DEF Finished
<1>5. t \in K
  BY <1>2, <1>3, <1>4, PassedLaws
<1>6. ASSUME NEW q \in K, NEW x \in Children(q) PROVE x \in K
  <2>1. PICK k \in DOMAIN m : q = m[k] /\ q.id = k
    BY <1>2, <1>3
  <2>2. k \in DOMAIN n /\ n[k] \in Parts(whole)
    BY <1>3, <2>1
  <2>3. PICK j \in DOMAIN q.fields : x = q.fields[j] /\ IsNode(x)
    BY <1>6 DEF Children
  <2>4. PICK b : b = BehaviourFor(pass, unit.rows[k].kind)
    OBVIOUS
  <2>5. PICK f : f = Outs(n, q)
    OBVIOUS
  <2>6. Answered(unit, pass, m, n, k, b, f)
    BY <2>1, <2>2, <2>4, <2>5, AnsweredLaws
  <2>7. PICK g : g = ReplyFields(b, q, f, 1)
    OBVIOUS
  <2>8. /\ n[k] = [id |-> k, kind |-> unit.rows[k].kind, text |-> ReplyText(b, q), fields |-> g]
        /\ AnswerTo(t, pass, n, k, q) /\ IsSeq(q.fields)
        /\ f = [i \in DOMAIN q.fields |-> f[i]] /\ f[j] = Out(n, x)
    BY <1>1, <2>1, <2>3, <2>6, <2>7 DEF Answered
  <2>9. n[k].fields = g
    BY <2>8
  <2>10. x.id \in DOMAIN n /\ f[j] = n[x.id]
    BY <2>3, <2>8 DEF AnswerTo, Out
  <2>11. PICK y : y = n[x.id]
    OBVIOUS
  <2>12. IsNode(y) /\ f[j] = y
    BY <1>2, <2>10, <2>11, ResultLaws
  <2>13. b # "dropFirst"
    BY <1>2, <2>1, <2>4, BehaviourLaws DEF DropsNothing
  <2>14. ReplyFits(b, q, f, 1, g)
    BY <2>7, <2>8, ReplyLaws
  <2>15. /\ DOMAIN g = DOMAIN f /\ j \in DOMAIN f
         /\ g[j] = f[j] \/ (j = 1 /\ g[1] = Around(q.id, 1, f[1]))
    BY <2>8, <2>13, <2>14 DEF ReplyFits
  <2>16. y \in Parts(whole)
    <3>1. ASSUME NEW z \in Parts(whole), NEW i \in DOMAIN z.fields, IsNode(z.fields[i])
          PROVE  z.fields[i] \in Parts(whole)
      BY <3>1, FieldsOfParts
    <3>2. CASE g[j] = f[j]
      BY <2>2, <2>9, <2>12, <2>15, <3>1, <3>2
    <3>3. CASE j = 1 /\ g[1] = Around(q.id, 1, f[1])
      <4>1. PICK z : z = g[1]
        OBVIOUS
      <4>2. z = [id |-> <<q.id, 1>>, kind |-> "wrapper", text |-> "new", fields |-> <<y>>]
        BY <2>12, <3>3, <4>1 DEF Around
      <4>3. IsNode(z) /\ z.fields = <<y>>
        BY <4>2, NodeOrRef
      <4>4. z \in Parts(whole)
        BY <2>2, <2>9, <2>15, <3>1, <3>3, <4>1, <4>3
      <4>5. 1 \in DOMAIN z.fields /\ z.fields[1] = y
        BY <4>3
      <4> QED
        BY <2>12, <3>1, <4>4, <4>5
    <3> QED
      BY <2>15, <3>2, <3>3
  <2>17. x \in Parts(t)
    BY <1>3, <1>4 DEF ClosedNodes, Nested
  <2> QED
    BY <1>3, <2>10, <2>11, <2>16, <2>17
<1>7. ClosedNodes(K)
  BY <1>6 DEF ClosedNodes, Nested
<1>8. Parts(t) \subseteq K
  BY <1>4, <1>5, <1>7, PartsLaws
<1> QED
  BY <1>2, <1>3, <1>8

(* The rows of a tree are rows of a table.                                 *)
RowsFit(whole, rows, after) ==
    /\ DOMAIN rows = { p.id : p \in Parts(whole) }
    /\ rows = [id \in DOMAIN rows |-> rows[id]]
    /\ \A p \in Parts(whole) : rows[p.id] = Row(p)
    /\ IsPart(rows, after)

LEMMA ResultRows ==
    ASSUME NEW m, NEW n, Passed(unit, pass, m, n), NEW whole, whole = n[unit.root],
           NEW rows, rows = Rows(whole)
    PROVE  RowsFit(whole, rows, TableAfter)
<1>1. OneNodePerId(whole)
  BY PassedLaws
<1>2. PICK ids : ids = { p.id : p \in Parts(whole) }
  OBVIOUS
<1>3. rows = [id \in ids |-> Row(CHOOSE p \in Parts(whole) : p.id = id)]
  BY <1>2 DEF Rows
<1>4. DOMAIN rows = ids /\ rows = [id \in ids |-> rows[id]]
  BY <1>3
<1>5. ASSUME NEW p \in Parts(whole) PROVE rows[p.id] = Row(p)
  <2>1. PICK id : id = p.id
    OBVIOUS
  <2>2. (CHOOSE q \in Parts(whole) : q.id = id) = p
    BY <1>1, <2>1 DEF OneNodePerId
  <2> QED
    BY <1>2, <1>3, <2>1, <2>2
<1>6. IsPart(rows, TableAfter)
  <2>1. ASSUME NEW id \in DOMAIN rows
        PROVE  id \in DOMAIN TableAfter /\ rows[id] = TableAfter[id]
    <3>1. PICK p \in Parts(whole) : p.id = id
      BY <1>2, <1>4
    <3> QED
      BY <1>5, <3>1, RowOfPart
  <2> QED
    BY <2>1 DEF IsPart
<1>7. PICK after : after = TableAfter
  OBVIOUS
<1>8. RowsFit(whole, rows, after)
  BY <1>2, <1>4, <1>5, <1>6, <1>7 DEF RowsFit
<1> QED
  BY <1>7, <1>8

LEMMA AllRows ==
    ASSUME NEW m, NEW n, Passed(unit, pass, m, n), NEW whole, whole = n[unit.root],
           NEW rows, rows = Rows(whole), Acyclic(RowGraph(unit)) \/ DropsNothing
    PROVE  rows = Part(TableAfter, unit.root)
<1>1. PICK after : after = TableAfter
  OBVIOUS
<1>2. PICK g : g = Graph(after)
  OBVIOUS
<1>3. DOMAIN g = DOMAIN after /\ \A id \in DOMAIN after : g[id] = after[id].refs
  BY <1>2 DEF Graph
<1>4. PICK D : D = DOMAIN rows
  OBVIOUS
<1>5. /\ D = { p.id : p \in Parts(whole) }
      /\ rows = [id \in D |-> rows[id]]
      /\ \A p \in Parts(whole) : rows[p.id] = Row(p)
      /\ \A id \in D : id \in DOMAIN after /\ rows[id] = after[id]
  <2>1. RowsFit(whole, rows, after)
    BY <1>1, ResultRows
  <2>2. IsPart(rows, after) /\ rows = [id \in D |-> rows[id]]
    BY <1>4, <2>1 DEF RowsFit
  <2> QED
    BY <1>4, <2>1, <2>2 DEF RowsFit, IsPart
<1>6. PICK top : top = unit.root
  OBVIOUS
<1>7. /\ whole.id = top /\ whole \in Parts(whole) /\ ClosedNodes(Parts(whole))
      /\ \A T : whole \in T /\ ClosedNodes(T) => Parts(whole) \subseteq T
  BY <1>6, PassedLaws
<1>8. ASSUME NEW p \in Parts(whole)
      PROVE  /\ p.id \in DOMAIN g /\ DOMAIN g[p.id] = DOMAIN p.fields
             /\ \A i \in DOMAIN p.fields : g[p.id][i] = IdOf(p.fields[i])
  <2>1. after[p.id] = Row(p) /\ p.id \in DOMAIN after
    BY <1>5
  <2>2. PICK refs : refs = [i \in DOMAIN p.fields |-> IdOf(p.fields[i])]
    OBVIOUS
  <2>3. g[p.id] = refs
    BY <1>3, <2>1, <2>2 DEF Row
  <2> QED
    BY <1>3, <2>1, <2>2, <2>3
<1>9. ASSUME NEW S \in SUBSET DOMAIN g, top \in S, Closed(g, S) PROVE D \subseteq S
  <2>1. PICK Q : Q = { p \in Parts(whole) : p.id \in S }
    OBVIOUS
  <2>2. ASSUME NEW p \in Q, NEW x \in Children(p) PROVE x \in Q
    <3>1. p \in Parts(whole) /\ p.id \in S
      BY <2>1
    <3>2. PICK i \in DOMAIN p.fields : x = p.fields[i] /\ IsNode(x)
      BY <2>2 DEF Children
    <3>3. x \in Parts(whole) /\ IdOf(x) = x.id
      BY <3>1, <3>2, FieldsOfParts
    <3>4. g[p.id][i] = x.id /\ i \in DOMAIN g[p.id]
      BY <1>8, <3>1, <3>2, <3>3
    <3>5. x.id \in S
      BY <1>9, <3>1, <3>4 DEF Closed, Successors
    <3> QED
      BY <2>1, <3>3, <3>5
  <2>3. ClosedNodes(Q) /\ whole \in Q
    BY <1>7, <1>9, <2>1, <2>2 DEF ClosedNodes, Nested
  <2>4. Parts(whole) \subseteq Q
    BY <1>7, <2>3
  <2> QED
    BY <1>5, <2>1, <2>4
<1>10. D \subseteq Reachable(g, top)
  BY <1>3, <1>5, <1>9 DEF Reachable
<1>11. Closed(g, D)
  <2>1. ASSUME NEW id \in D, NEW i \in DOMAIN g[id] PROVE g[id][i] \in D
    <3>1. PICK p \in Parts(whole) : p.id = id
      BY <1>5
    <3>2. PICK v : v = p.fields[i]
      OBVIOUS
    <3>3. i \in DOMAIN p.fields /\ g[id][i] = IdOf(v)
      BY <1>8, <2>1, <3>1, <3>2
    <3>4. CASE IsNode(v)
      <4>1. v \in Parts(whole) /\ IdOf(v) = v.id
        BY <3>2, <3>3, <3>4, FieldsOfParts
      <4> QED
        BY <1>5, <3>3, <4>1
    <3>5. CASE ~ IsNode(v)
      <4>1. PICK k : k = IdOf(v)
        OBVIOUS
      <4>2. k \in DOMAIN m /\ DropsNothing
        BY <3>2, <3>3, <3>5, <4>1, FieldsOfParts
      <4>3. k \in DOMAIN n /\ n[k] \in Parts(whole)
        BY <4>2, NothingLost
      <4>4. n[k].id = k
        BY <4>3, ResultLaws DEF Passed
      <4> QED
        BY <1>5, <3>3, <4>1, <4>3, <4>4
    <3> QED
      BY <3>4, <3>5
  <2> QED
    BY <2>1 DEF Closed, Successors
<1>12. Reachable(g, top) \subseteq D
  <2>1. D \in SUBSET DOMAIN g
    BY <1>3, <1>5
  <2>2. top \in D
    BY <1>5, <1>7
  <2> QED
    BY <1>11, <2>1, <2>2 DEF Reachable
<1>13. Reachable(g, top) = D
  BY <1>10, <1>12
<1>14. Part(after, top) = [id \in D |-> after[id]]
  BY <1>2, <1>13 DEF Part
<1> QED
  BY <1>1, <1>5, <1>6, <1>14

LEMMA Rowwise == RacketInv => PassIsRowwise
<1> SUFFICES ASSUME RacketInv, outcome = "mapped", phase = "built"
             PROVE  /\ OneNodePerId(Pass!Result)
                    /\ IsPart(Rows(Pass!Result), TableAfter)
                    /\ Mat!IsAcyclic \/ DropsNothing =>
                         Rows(Pass!Result) = Part(TableAfter, unit.root)
  BY DEF PassIsRowwise
<1>1. PICK m : m = matMemo
  OBVIOUS
<1>2. PICK n : n = memo
  OBVIOUS
<1>3. MatInv /\ PassInv /\ tree = Mat!Root
  BY DEF RacketInv, Linked
<1>4. NoOwnId(tree)
  BY <1>3, RootIsTree
<1>5. Finished(tree, pass, n)
  BY <1>2, <1>3, <1>4, PassFinishes
<1>6. tree = m[unit.root]
  BY <1>1, <1>3, MatTrees
<1>7. /\ unit \in Units /\ AllMade(unit, m, {}) /\ unit.root \in DOMAIN m
      /\ DOMAIN m \subseteq DOMAIN unit.rows
      /\ Parts(m[unit.root]) = { m[id] : id \in DOMAIN m }
      /\ \A id \in DOMAIN m : m[id].id = id
  BY <1>1, <1>3, RootLaws
<1>8. Passed(unit, pass, m, n)
  BY <1>5, <1>6, <1>7 DEF Passed
<1>9. PICK whole : whole = n[unit.root]
  OBVIOUS
<1>10. Pass!Result = whole
  BY <1>2, <1>6, <1>7, <1>9 DEF Pass!Result
<1>11. OneNodePerId(whole)
  BY <1>8, <1>9, PassedLaws
<1>12. PICK rows : rows = Rows(whole)
  OBVIOUS
<1>13. IsPart(rows, TableAfter)
  <2>1. RowsFit(whole, rows, TableAfter)
    BY <1>8, <1>9, <1>12, ResultRows
  <2> QED
    BY <2>1 DEF RowsFit
<1>14. ASSUME Mat!IsAcyclic \/ DropsNothing PROVE rows = Part(TableAfter, unit.root)
  <2>1. Mat!IsAcyclic <=> Acyclic(RowGraph(unit))
    BY MatGraphs DEF Mat!IsAcyclic
  <2> QED
    BY <1>8, <1>9, <1>12, <1>14, <2>1, AllRows
<1> QED
  BY <1>10, <1>11, <1>12, <1>13, <1>14

(* A pass over a tree that was read is a pass over its rows, for every     *)
(* table, every set of handlers and every order of fields.                 *)
THEOREM RowwiseInvariant == RacketSpec => []PassIsRowwise
  BY RacketInvariant, Rowwise, PTL

-----------------------------------------------------------------------------
(* The comparison of two graphs decides bisimilarity, for all graphs,      *)
(* finite or not.                                                          *)

OrNil == Objects \cup {Nil}

Frames == [left : Objects, right : Objects,
           todo : SUBSET Nat, pairs : SUBSET (OrNil \X OrNil)]

CompareTypeOK == /\ heap \in Heaps
          /\ root \in Roots
          /\ stack \in Seq(Frames)
          /\ verdict \in {"called", "comparing", "equal", "different"}

(* The pairs taken for equal so far.                                       *)
Taken(S, x, y) == \/ x = Nil /\ y = Nil
                  \/ x \in Objects /\ y \in Objects /\ Key(x, y) \in S

(* The fields of x and y outside "open" agree, but for pairs of children   *)
(* that are taken for equal or waiting in "pairs".                         *)
BorneOut(S, x, y, open, pairs) ==
    \A f \in DOMAIN heap[x].fields \ open :
        LET v == heap[x].fields[f]
            w == heap[y].fields[f]
        IN /\ SameShape(v, w)
           /\ \A i \in DOMAIN v.refs :
                Taken(S, v.refs[i], w.refs[i]) \/ <<v.refs[i], w.refs[i]>> \in pairs

(* A pair that was taken is borne out in full, or is being compared.       *)
TakenInv(S, st) ==
    NamesAreUnique =>
        \A x, y \in Objects : Key(x, y) \in S =>
            /\ SameKind(x, y)
            /\ \/ BorneOut(S, x, y, {}, {})
               \/ \E k \in DOMAIN st :
                    /\ st[k].left = x /\ st[k].right = y
                    /\ BorneOut(S, x, y, st[k].todo, st[k].pairs)

(* What is being compared has been taken, and no pair twice.               *)
ActiveInv(S, st) ==
    /\ \A k \in DOMAIN st : /\ Key(st[k].left, st[k].right) \in S
                            /\ SameKind(st[k].left, st[k].right)
                            /\ st[k].todo \subseteq DOMAIN heap[st[k].left].fields
    /\ \A j, k \in DOMAIN st :
         st[j].left = st[k].left /\ st[j].right = st[k].right => j = k

(* Whatever relates the roots relates all that is compared.                *)
Witness(R) == Bisimulation(R) /\ Related(R, root[1], root[2])

NeededInv(st) ==
    \A R \in Relations : Witness(R) =>
        \A k \in DOMAIN st :
            /\ <<st[k].left, st[k].right>> \in R
            /\ \A p \in st[k].pairs : Related(R, p[1], p[2])

VerdictInv ==
    /\ verdict = "called" => seen = {} /\ stack = <<>>
    /\ verdict \in {"comparing", "equal"} => Taken(seen, root[1], root[2])
    /\ verdict = "equal" => stack = <<>>
    /\ verdict = "different" => ~ Bisimilar

CompareInv == /\ CompareTypeOK
       /\ TakenInv(seen, stack)
       /\ ActiveInv(seen, stack)
       /\ NeededInv(stack)
       /\ VerdictInv

-----------------------------------------------------------------------------
(* The graphs                                                              *)

LEMMA CompareHeapTypes ==
    ASSUME heap \in Heaps, NEW x \in Objects
    PROVE  /\ heap[x].fields \in Seq(Values)
           /\ DOMAIN heap[x].fields \subseteq Nat
           /\ \A f \in DOMAIN heap[x].fields :
                heap[x].fields[f].refs \in Seq(OrNil)
<1>1. heap[x].fields \in Seq(Values)
  BY StructuralAssumption
<1>2. ASSUME NEW T, NEW s \in Seq(T)
      PROVE  DOMAIN s \subseteq Nat /\ \A f \in DOMAIN s : s[f] \in T
  OBVIOUS
<1>3. \A value \in Values : value.refs \in Seq(OrNil)
  BY DEF Values, OrNil
<1> QED
  BY <1>1, <1>2, <1>3

LEMMA ChildPairTypes ==
    ASSUME heap \in Heaps, NEW x \in Objects, NEW y \in Objects,
           NEW f \in DOMAIN heap[x].fields, f \in DOMAIN heap[y].fields
    PROVE  ChildPairs(heap[x].fields[f], heap[y].fields[f]) \subseteq OrNil \X OrNil
<1>1. heap[x].fields[f].refs \in Seq(OrNil) /\ heap[y].fields[f].refs \in Seq(OrNil)
  BY CompareHeapTypes
<1> QED
  BY <1>1 DEF ChildPairs

(* What was taken stays taken.                                             *)
LEMMA TakenGrows ==
    ASSUME NEW S, NEW T, S \subseteq T, NEW x, NEW y, NEW open, NEW pairs, NEW rest,
           BorneOut(S, x, y, open, pairs),
           \A p \in pairs : p \in rest \/ Taken(T, p[1], p[2])
    PROVE  BorneOut(T, x, y, open, rest)
<1> SUFFICES ASSUME NEW f \in DOMAIN heap[x].fields \ open,
                    NEW i \in DOMAIN heap[x].fields[f].refs
             PROVE  \/ Taken(T, heap[x].fields[f].refs[i], heap[y].fields[f].refs[i])
                    \/ <<heap[x].fields[f].refs[i], heap[y].fields[f].refs[i]>> \in rest
  BY DEF BorneOut
<1> DEFINE p == <<heap[x].fields[f].refs[i], heap[y].fields[f].refs[i]>>
<1>1. CASE Taken(S, p[1], p[2])
  BY <1>1 DEF Taken
<1>2. CASE p \in pairs
  BY <1>2
<1> QED
  BY <1>1, <1>2 DEF BorneOut

-----------------------------------------------------------------------------
(* One call: x and y are compared on behalf of the callers                 *)

(* What the callers rely on, once x and y are taken for equal too.         *)
CallersTaken(callers, x, y) ==
    NamesAreUnique =>
        \A T : seen \subseteq T /\ Taken(T, x, y) =>
            \A u, v \in Objects : Key(u, v) \in seen =>
                /\ SameKind(u, v)
                /\ \/ BorneOut(T, u, v, {}, {})
                   \/ \E k \in DOMAIN callers :
                        /\ callers[k].left = u /\ callers[k].right = v
                        /\ BorneOut(T, u, v, callers[k].todo, callers[k].pairs)

LEMMA CompareTakes ==
    ASSUME heap \in Heaps, NEW callers \in Seq(Frames),
           NEW x \in OrNil, NEW y \in OrNil, Compare(x, y, callers),
           CallersTaken(callers, x, y), ActiveInv(seen, callers), NeededInv(callers),
           \A R \in Relations : Witness(R) => Related(R, x, y)
    PROVE  \/ Different /\ ~ Bisimilar
           \/ /\ verdict' = "comparing"
              /\ seen \subseteq seen' /\ Taken(seen', x, y)
              /\ stack' \in Seq(Frames)
              /\ TakenInv(seen', stack') /\ ActiveInv(seen', stack')
              /\ NeededInv(stack')
<1>1. CASE x = Nil \/ y = Nil
  <2>1. CASE x = y
    <3>1. Same(callers)
      BY <1>1, <2>1, StructuralAssumption DEF Compare
    <3>2. Taken(seen, x, y)
      BY <1>1, <2>1 DEF Taken
    <3> QED
      BY <3>1, <3>2 DEF Same, CallersTaken, TakenInv
  <2>2. CASE x # y
    <3>1. Different
      BY <1>1, <2>2 DEF Compare
    <3>2. ASSUME NEW R \in Relations, Related(R, x, y) PROVE FALSE
      BY <1>1, <2>2, <3>2, StructuralAssumption DEF Related, Relations
    <3> QED
      BY <3>1, <3>2 DEF Witness, Bisimilar
  <2> QED
    BY <2>1, <2>2
<1>2. CASE x # Nil /\ y # Nil /\ Key(x, y) \in seen
  <2>1. Same(callers)
    BY <1>2 DEF Compare
  <2>2. Taken(seen, x, y)
    BY <1>2 DEF Taken, OrNil
  <2> QED
    BY <2>1, <2>2 DEF Same, CallersTaken, TakenInv
<1>3. CASE x # Nil /\ y # Nil /\ Key(x, y) \notin seen /\ ~ SameKind(x, y)
  <2>1. Different
    BY <1>3 DEF Compare
  <2>2. ASSUME NEW R \in Relations, Bisimulation(R), Related(R, x, y) PROVE FALSE
    BY <1>3, <2>2 DEF Related, Bisimulation, OrNil
  <2> QED
    BY <2>1, <2>2 DEF Witness, Bisimilar
<1>4. CASE x # Nil /\ y # Nil /\ Key(x, y) \notin seen /\ SameKind(x, y)
  <2> DEFINE S == seen \cup {Key(x, y)}
             st == Append(callers, Frame(x, y))
             n == Len(callers) + 1
  <2>1. x \in Objects /\ y \in Objects
    BY <1>4 DEF OrNil
  <2>2. seen' = S /\ stack' = st /\ verdict' = "comparing"
    BY <1>4 DEF Compare
  <2>3. Frame(x, y) \in Frames
    BY <2>1, CompareHeapTypes DEF Frame, Frames
  <2>4. /\ st \in Seq(Frames) /\ DOMAIN st = DOMAIN callers \cup {n}
        /\ n \notin DOMAIN callers
        /\ \A k \in DOMAIN callers : st[k] = callers[k]
        /\ st[n] = Frame(x, y)
    BY <2>3
  <2>5. Taken(S, x, y)
    BY <2>1 DEF Taken
  <2>6. TakenInv(S, st)
    <3> SUFFICES ASSUME NamesAreUnique, NEW u \in Objects, NEW v \in Objects,
                        Key(u, v) \in S
                 PROVE  /\ SameKind(u, v)
                        /\ \/ BorneOut(S, u, v, {}, {})
                           \/ \E k \in DOMAIN st :
                                /\ st[k].left = u /\ st[k].right = v
                                /\ BorneOut(S, u, v, st[k].todo, st[k].pairs)
      BY DEF TakenInv
    <3>1. CASE Key(u, v) \in seen
      <4>1. seen \subseteq S
        OBVIOUS
      <4>2. /\ SameKind(u, v)
            /\ \/ BorneOut(S, u, v, {}, {})
               \/ \E k \in DOMAIN callers :
                    /\ callers[k].left = u /\ callers[k].right = v
                    /\ BorneOut(S, u, v, callers[k].todo, callers[k].pairs)
        BY <2>5, <3>1, <4>1 DEF CallersTaken
      <4> HIDE DEF st, S
      <4> QED
        BY <2>4, <4>2
    <3>2. CASE Key(u, v) = Key(x, y)
      <4>1. u = x /\ v = y
        BY <2>1, <3>2 DEF Key, NamesAreUnique
      <4>2. BorneOut(S, x, y, Frame(x, y).todo, Frame(x, y).pairs)
        BY DEF BorneOut, Frame
      <4> QED
        BY <1>4, <2>4, <4>1, <4>2 DEF Frame
    <3> QED
      BY <3>1, <3>2
  <2>7. ActiveInv(S, st)
    <3>1. \A k \in DOMAIN st :
            /\ Key(st[k].left, st[k].right) \in S
            /\ SameKind(st[k].left, st[k].right)
            /\ st[k].todo \subseteq DOMAIN heap[st[k].left].fields
      BY <1>4, <2>4 DEF ActiveInv, Frame
    <3>2. \A k \in DOMAIN callers : callers[k].left # x \/ callers[k].right # y
      BY <1>4 DEF ActiveInv
    <3>3. st[n].left = x /\ st[n].right = y
      BY <2>4 DEF Frame
    <3>4. \A j, k \in DOMAIN st :
            st[j].left = st[k].left /\ st[j].right = st[k].right => j = k
      BY <2>4, <3>2, <3>3 DEF ActiveInv
    <3> QED
      BY <3>1, <3>4 DEF ActiveInv
  <2>8. NeededInv(st)
    <3> SUFFICES ASSUME NEW R \in Relations, Witness(R), NEW k \in DOMAIN st
                 PROVE  /\ <<st[k].left, st[k].right>> \in R
                        /\ \A p \in st[k].pairs : Related(R, p[1], p[2])
      BY DEF NeededInv
    <3>1. CASE k \in DOMAIN callers
      BY <2>4, <3>1 DEF NeededInv
    <3>2. CASE k = n
      BY <1>4, <2>4, <3>2 DEF Frame, Related
    <3> QED
      BY <2>4, <3>1, <3>2
  <2> QED
    BY <2>2, <2>4, <2>5, <2>6, <2>7, <2>8
<1> QED
  BY <1>1, <1>2, <1>3, <1>4

-----------------------------------------------------------------------------
(* The rest of the machine.  Frames above are what matters of a stack:     *)
(* replacing the innermost one leaves the others alone.                    *)

LEMMA TopReplaced ==
    ASSUME NEW st \in Seq(Frames), st # <<>>, NEW frame \in Frames
    PROVE  LET new == [st EXCEPT ![Len(st)] = frame]
           IN /\ new \in Seq(Frames) /\ DOMAIN new = DOMAIN st
              /\ Len(st) \in DOMAIN st /\ new[Len(st)] = frame
              /\ \A k \in DOMAIN st : k # Len(st) => new[k] = st[k]
OBVIOUS

(* Heap, roots and names never change, so the parts of the invariant may   *)
(* be shown of the state before.                                           *)
LEMMA SameArguments ==
    ASSUME UNCHANGED <<heap, root, names>>,
           CompareTypeOK, stack' \in Seq(Frames),
           verdict' \in {"comparing", "equal", "different"},
           TakenInv(seen', stack'), ActiveInv(seen', stack'), NeededInv(stack'),
           verdict' \in {"comparing", "equal"} => Taken(seen', root[1], root[2]),
           verdict' = "equal" => stack' = <<>>,
           verdict' = "different" => ~ Bisimilar
    PROVE  CompareInv'
<1>1. CompareTypeOK'
  BY DEF CompareTypeOK
<1>2. \A x, y : (SameKind(x, y)' <=> SameKind(x, y)) /\ Key(x, y)' = Key(x, y)
  BY DEF SameKind, Key
<1>3. NamesAreUnique' <=> NamesAreUnique
  BY DEF NamesAreUnique
<1>4. \A x, y : Taken(seen, x, y)' <=> Taken(seen', x, y)
  BY <1>2 DEF Taken
<1>5. \A x, y, open, pairs :
        BorneOut(seen, x, y, open, pairs)' <=> BorneOut(seen', x, y, open, pairs)
  <2> SUFFICES ASSUME NEW x, NEW y, NEW open, NEW pairs
               PROVE  BorneOut(seen, x, y, open, pairs)'
                        <=> BorneOut(seen', x, y, open, pairs)
    OBVIOUS
  <2>1. heap' = heap
    OBVIOUS
  <2> QED
    BY <2>1, <1>4, Zenon DEF BorneOut, SameShape
<1>6. \A R : Bisimulation(R)' <=> Bisimulation(R)
  BY <1>2 DEF Bisimulation, FieldsRelated
<1>7. TakenInv(seen, stack)'
  <2> SUFFICES ASSUME NamesAreUnique, NEW x \in Objects, NEW y \in Objects,
                      Key(x, y) \in seen'
               PROVE  /\ SameKind(x, y)
                      /\ \/ BorneOut(seen, x, y, {}, {})'
                         \/ \E k \in DOMAIN stack' :
                              /\ stack'[k].left = x /\ stack'[k].right = y
                              /\ BorneOut(seen, x, y, stack[k].todo, stack[k].pairs)'
    BY <1>2, <1>3 DEF TakenInv
  <2> QED
    BY <1>5 DEF TakenInv
<1>8. ActiveInv(seen, stack)'
  BY DEF ActiveInv, Key, SameKind
<1>9. NeededInv(stack)'
  BY <1>6 DEF NeededInv, Witness
<1>10. VerdictInv'
  BY <1>2, <1>6 DEF VerdictInv, Taken, Bisimilar
<1> QED
  BY <1>1, <1>7, <1>8, <1>9, <1>10 DEF CompareInv

LEMMA CompareInit == Init => CompareInv
<1> SUFFICES ASSUME Init PROVE CompareInv
  OBVIOUS
<1>1. CompareTypeOK
  BY DEF Init, CompareTypeOK
<1> QED
  BY <1>1 DEF Init, CompareInv, TakenInv, ActiveInv, NeededInv, VerdictInv

(* Calls happen only before there is a verdict, and the frames of active   *)
(* calls are well typed.                                                   *)
LEMMA CompareTopTypes ==
    ASSUME CompareTypeOK, stack # <<>>
    PROVE  /\ Top \in Frames /\ Len(stack) \in DOMAIN stack
           /\ Top = stack[Len(stack)]
BY DEF CompareTypeOK, Top

LEMMA CompareRootStep ==
    ASSUME CompareInv, CompareRoot PROVE CompareInv'
<1>1. UNCHANGED <<heap, root, names>> /\ verdict = "called"
  BY DEF CompareRoot
<1>2. heap \in Heaps /\ root[1] \in OrNil /\ root[2] \in OrNil
  BY StructuralAssumption DEF CompareInv, CompareTypeOK, OrNil
<1>3. seen = {} /\ stack = <<>>
  BY <1>1 DEF CompareInv, VerdictInv
<1>4. CallersTaken(<<>>, root[1], root[2])
  BY <1>3 DEF CallersTaken
<1>5. ActiveInv(seen, <<>>) /\ NeededInv(<<>>)
  BY DEF ActiveInv, NeededInv
<1>6. \/ Different /\ ~ Bisimilar
      \/ /\ verdict' = "comparing"
         /\ seen \subseteq seen' /\ Taken(seen', root[1], root[2])
         /\ stack' \in Seq(Frames)
         /\ TakenInv(seen', stack') /\ ActiveInv(seen', stack')
         /\ NeededInv(stack')
  <2>1. Compare(root[1], root[2], <<>>)
    BY DEF CompareRoot
  <2>2. <<>> \in Seq(Frames)
    OBVIOUS
  <2> QED
    BY <1>2, <1>4, <1>5, <2>1, <2>2, CompareTakes DEF Witness
<1>7. CASE Different /\ ~ Bisimilar
  BY <1>1, <1>7, SameArguments DEF Different, CompareInv, CompareTypeOK
<1>8. CASE verdict' = "comparing"
  BY <1>1, <1>6, <1>8, SameArguments DEF Different, CompareInv
<1> QED
  BY <1>6, <1>7, <1>8

LEMMA CompareFieldStep ==
    ASSUME CompareInv, NEW f, CompareField(f) PROVE CompareInv'
<1> DEFINE x == Top.left
           y == Top.right
           v == heap[x].fields[f]
           w == heap[y].fields[f]
           frame == [Top EXCEPT !.todo = @ \ {f}, !.pairs = ChildPairs(v, w)]
           st == [stack EXCEPT ![Len(stack)] = frame]
<1>1. /\ UNCHANGED <<heap, root, names>>
      /\ verdict = "comparing" /\ stack # <<>> /\ f \in Top.todo /\ Top.pairs = {}
  BY DEF CompareField
<1>2. CompareTypeOK /\ stack \in Seq(Frames) /\ heap \in Heaps
  BY DEF CompareInv, CompareTypeOK
<1>3. /\ Top \in Frames /\ Len(stack) \in DOMAIN stack
      /\ Top = stack[Len(stack)]
  BY <1>1, <1>2, CompareTopTypes
<1>4. /\ x \in Objects /\ y \in Objects /\ SameKind(x, y)
      /\ f \in DOMAIN heap[x].fields /\ f \in DOMAIN heap[y].fields
  BY <1>1, <1>3 DEF Frames, CompareInv, ActiveInv, SameKind
<1>5. ASSUME NEW R \in Relations, Witness(R)
      PROVE  FieldsRelated(R, x, y, f)
  <2>1. <<x, y>> \in R
    BY <1>3, <1>5 DEF CompareInv, NeededInv
  <2> QED
    BY <1>4, <1>5, <2>1 DEF Witness, Bisimulation
<1>6. CASE ~ SameShape(v, w) /\ Different
  <2>1. ~ Bisimilar
    BY <1>5, <1>6 DEF Bisimilar, Witness, FieldsRelated
  <2> QED
    BY <1>1, <1>2, <1>6, <2>1, SameArguments DEF Different, CompareInv
<1>7. CASE SameShape(v, w) /\ stack' = st /\ UNCHANGED <<seen, verdict>>
  <2>1. frame \in Frames
    <3>1. ChildPairs(v, w) \subseteq OrNil \X OrNil
      BY <1>2, <1>4, ChildPairTypes
    <3> QED
      BY <1>3, <3>1 DEF Frames
  <2>2. frame.left = x /\ frame.right = y /\ frame.todo = Top.todo \ {f}
        /\ frame.pairs = ChildPairs(v, w)
    BY <1>3 DEF Frames
  <2> HIDE DEF frame
  <2>3. /\ st \in Seq(Frames) /\ DOMAIN st = DOMAIN stack
        /\ st[Len(stack)] = frame
        /\ \A k \in DOMAIN stack : k # Len(stack) => st[k] = stack[k]
    BY <1>1, <1>2, <2>1, TopReplaced
  <2> HIDE DEF st
  <2>4. BorneOut(seen, x, y, Top.todo, {}) =>
            BorneOut(seen, x, y, frame.todo, frame.pairs)
    <3>1. \A i \in DOMAIN v.refs : <<v.refs[i], w.refs[i]>> \in ChildPairs(v, w)
      <4>1. v.refs \in Seq(OrNil) /\ w.refs \in Seq(OrNil)
        BY <1>2, <1>4, CompareHeapTypes
      <4>2. DOMAIN v.refs = DOMAIN w.refs
        <5>1. Len(v.refs) = Len(w.refs)
          BY <1>7 DEF SameShape
        <5>2. ASSUME NEW s \in Seq(OrNil), NEW t \in Seq(OrNil),
                     Len(s) = Len(t)
              PROVE  DOMAIN s = DOMAIN t
          BY <5>2
        <5> HIDE DEF v, w
        <5> QED
          BY <4>1, <5>1, <5>2
      <4> QED
        BY <4>2 DEF ChildPairs
    <3> HIDE DEF v, w
    <3>2. SUFFICES ASSUME BorneOut(seen, x, y, Top.todo, {}),
                          NEW g \in DOMAIN heap[x].fields \ frame.todo
                   PROVE  /\ SameShape(heap[x].fields[g], heap[y].fields[g])
                          /\ \A i \in DOMAIN heap[x].fields[g].refs :
                               \/ Taken(seen, heap[x].fields[g].refs[i],
                                              heap[y].fields[g].refs[i])
                               \/ <<heap[x].fields[g].refs[i],
                                    heap[y].fields[g].refs[i]>> \in frame.pairs
      BY DEF BorneOut
    <3>3. CASE g = f
      BY <1>7, <2>2, <3>1, <3>3 DEF v, w
    <3>4. CASE g # f
      BY <2>2, <3>2, <3>4 DEF BorneOut
    <3> QED
      BY <3>3, <3>4
  <2>5. TakenInv(seen, st)
    <3> SUFFICES ASSUME NamesAreUnique, NEW a \in Objects, NEW b \in Objects,
                        Key(a, b) \in seen, ~ BorneOut(seen, a, b, {}, {})
                 PROVE  /\ SameKind(a, b)
                        /\ \E k \in DOMAIN st :
                             /\ st[k].left = a /\ st[k].right = b
                             /\ BorneOut(seen, a, b, st[k].todo, st[k].pairs)
      BY DEF CompareInv, TakenInv
    <3>1. PICK k \in DOMAIN stack :
            /\ stack[k].left = a /\ stack[k].right = b
            /\ BorneOut(seen, a, b, stack[k].todo, stack[k].pairs)
      BY DEF CompareInv, TakenInv
    <3>2. SameKind(a, b)
      BY DEF CompareInv, TakenInv
    <3>3. CASE k = Len(stack)
      BY <1>1, <1>3, <2>2, <2>3, <2>4, <3>1, <3>2, <3>3
    <3>4. CASE k # Len(stack)
      BY <2>3, <3>1, <3>2, <3>4
    <3> QED
      BY <3>3, <3>4
  <2>6. ActiveInv(seen, st)
    <3>1. \A k \in DOMAIN st : st[k].left = stack[k].left
                               /\ st[k].right = stack[k].right
                               /\ st[k].todo \subseteq stack[k].todo
      BY <1>3, <2>2, <2>3
    <3> QED
      BY <2>3, <3>1 DEF CompareInv, ActiveInv
  <2>7. NeededInv(st)
    <3> SUFFICES ASSUME NEW R \in Relations, Witness(R), NEW k \in DOMAIN st
                 PROVE  /\ <<st[k].left, st[k].right>> \in R
                        /\ \A p \in st[k].pairs : Related(R, p[1], p[2])
      BY DEF NeededInv
    <3>1. CASE k = Len(stack)
      <4>1. <<x, y>> \in R
        BY <1>3 DEF CompareInv, NeededInv
      <4>2. \A p \in ChildPairs(v, w) : Related(R, p[1], p[2])
        BY <1>5 DEF ChildPairs, FieldsRelated
      <4> QED
        BY <2>2, <2>3, <3>1, <4>1, <4>2
    <3>2. CASE k # Len(stack)
      BY <2>3, <3>2 DEF CompareInv, NeededInv
    <3> QED
      BY <3>1, <3>2
  <2>8. Taken(seen, root[1], root[2])
    BY <1>1 DEF CompareInv, VerdictInv
  <2> QED
    BY <1>1, <1>2, <1>7, <2>3, <2>5, <2>6, <2>7, <2>8, SameArguments
<1> QED
  BY <1>6, <1>7 DEF CompareField

LEMMA CompareChildStep ==
    ASSUME CompareInv, NEW pair, CompareChild(pair) PROVE CompareInv'
<1> DEFINE frame == [Top EXCEPT !.pairs = @ \ {pair}]
           st == [stack EXCEPT ![Len(stack)] = frame]
<1>1. /\ UNCHANGED <<heap, root, names>>
      /\ verdict = "comparing" /\ stack # <<>> /\ pair \in Top.pairs
      /\ Compare(pair[1], pair[2], st)
  BY DEF CompareChild
<1>2. CompareTypeOK /\ stack \in Seq(Frames) /\ heap \in Heaps
  BY DEF CompareInv, CompareTypeOK
<1>3. /\ Top \in Frames /\ Len(stack) \in DOMAIN stack
      /\ Top = stack[Len(stack)]
  BY <1>1, <1>2, CompareTopTypes
<1>4. pair[1] \in OrNil /\ pair[2] \in OrNil /\ pair = <<pair[1], pair[2]>>
  BY <1>1, <1>3 DEF Frames
<1>5. /\ frame \in Frames /\ frame.left = Top.left /\ frame.right = Top.right
      /\ frame.todo = Top.todo /\ frame.pairs = Top.pairs \ {pair}
  BY <1>3 DEF Frames
<1> HIDE DEF frame
<1>6. /\ st \in Seq(Frames) /\ DOMAIN st = DOMAIN stack
      /\ st[Len(stack)] = frame
      /\ \A k \in DOMAIN stack : k # Len(stack) => st[k] = stack[k]
  BY <1>1, <1>2, <1>5, TopReplaced
<1> HIDE DEF st
<1>7. \A k \in DOMAIN st : /\ st[k].left = stack[k].left
                           /\ st[k].right = stack[k].right
                           /\ st[k].todo = stack[k].todo
                           /\ st[k].pairs \subseteq stack[k].pairs
                           /\ stack[k].pairs \subseteq st[k].pairs \cup {pair}
  BY <1>3, <1>5, <1>6
<1>8. CallersTaken(st, pair[1], pair[2])
  <2> SUFFICES ASSUME NamesAreUnique, NEW T, seen \subseteq T,
                      Taken(T, pair[1], pair[2]),
                      NEW a \in Objects, NEW b \in Objects, Key(a, b) \in seen
               PROVE  /\ SameKind(a, b)
                      /\ \/ BorneOut(T, a, b, {}, {})
                         \/ \E k \in DOMAIN st :
                              /\ st[k].left = a /\ st[k].right = b
                              /\ BorneOut(T, a, b, st[k].todo, st[k].pairs)
    BY DEF CallersTaken
  <2>1. SameKind(a, b)
    BY DEF CompareInv, TakenInv
  <2>2. CASE BorneOut(seen, a, b, {}, {})
    BY <2>1, <2>2, TakenGrows
  <2>3. ASSUME NEW k \in DOMAIN stack,
               stack[k].left = a, stack[k].right = b,
               BorneOut(seen, a, b, stack[k].todo, stack[k].pairs)
        PROVE  BorneOut(T, a, b, st[k].todo, st[k].pairs)
    <3>1. \A p \in stack[k].pairs : p \in st[k].pairs \/ Taken(T, p[1], p[2])
      BY <1>6, <1>7
    <3>2. BorneOut(T, a, b, stack[k].todo, st[k].pairs)
      BY <2>3, <3>1, TakenGrows
    <3> QED
      BY <1>6, <1>7, <3>2
  <2>4. \/ BorneOut(seen, a, b, {}, {})
        \/ \E k \in DOMAIN stack :
             /\ stack[k].left = a /\ stack[k].right = b
             /\ BorneOut(seen, a, b, stack[k].todo, stack[k].pairs)
    BY DEF CompareInv, TakenInv
  <2> QED
    BY <1>6, <1>7, <2>1, <2>2, <2>3, <2>4
<1>9. ActiveInv(seen, st)
  BY <1>6, <1>7 DEF CompareInv, ActiveInv
<1>10. NeededInv(st)
  BY <1>6, <1>7 DEF CompareInv, NeededInv
<1>11. \A R \in Relations : Witness(R) => Related(R, pair[1], pair[2])
  BY <1>1, <1>3 DEF CompareInv, NeededInv
<1>12. \/ Different /\ ~ Bisimilar
       \/ /\ verdict' = "comparing"
          /\ seen \subseteq seen' /\ Taken(seen', pair[1], pair[2])
          /\ stack' \in Seq(Frames)
          /\ TakenInv(seen', stack') /\ ActiveInv(seen', stack')
          /\ NeededInv(stack')
  BY <1>1, <1>2, <1>4, <1>6, <1>8, <1>9, <1>10, <1>11, CompareTakes
<1>13. CASE Different /\ ~ Bisimilar
  BY <1>1, <1>2, <1>13, SameArguments DEF Different, CompareInv
<1>14. CASE verdict' = "comparing"
  <2>1. Taken(seen', root[1], root[2])
    BY <1>1, <1>12, <1>14 DEF CompareInv, VerdictInv, Taken, Different
  <2> QED
    BY <1>1, <1>2, <1>12, <1>14, <2>1, SameArguments DEF Different
<1> QED
  BY <1>12, <1>13, <1>14

LEMMA CompareReturnStep ==
    ASSUME CompareInv, Return PROVE CompareInv'
<1> DEFINE n == Len(stack)
           st == SubSeq(stack, 1, Len(stack) - 1)
<1>1. /\ UNCHANGED <<heap, root, names, seen, verdict>> /\ stack' = st
      /\ verdict = "comparing" /\ stack # <<>> /\ Top.todo = {} /\ Top.pairs = {}
  BY DEF Return
<1>2. CompareTypeOK /\ stack \in Seq(Frames)
  BY DEF CompareInv, CompareTypeOK
<1>3. Top = stack[n] /\ n \in DOMAIN stack
  BY <1>1, <1>2, CompareTopTypes
<1>4. /\ st \in Seq(Frames) /\ DOMAIN st = DOMAIN stack \ {n}
      /\ \A k \in DOMAIN st : st[k] = stack[k]
  BY <1>1, <1>2
<1> HIDE DEF st, n
<1>5. TakenInv(seen, st)
  <2> SUFFICES ASSUME NamesAreUnique, NEW a \in Objects, NEW b \in Objects,
                      Key(a, b) \in seen, ~ BorneOut(seen, a, b, {}, {})
               PROVE  /\ SameKind(a, b)
                      /\ \E k \in DOMAIN st :
                           /\ st[k].left = a /\ st[k].right = b
                           /\ BorneOut(seen, a, b, st[k].todo, st[k].pairs)
    BY DEF CompareInv, TakenInv
  <2>1. SameKind(a, b)
    BY DEF CompareInv, TakenInv
  <2>2. PICK k \in DOMAIN stack :
          /\ stack[k].left = a /\ stack[k].right = b
          /\ BorneOut(seen, a, b, stack[k].todo, stack[k].pairs)
    BY DEF CompareInv, TakenInv
  <2>3. k # n
    BY <1>1, <1>3, <2>2
  <2> QED
    BY <1>4, <2>1, <2>2, <2>3
<1>6. ActiveInv(seen, st)
  BY <1>4 DEF CompareInv, ActiveInv
<1>7. NeededInv(st)
  BY <1>4 DEF CompareInv, NeededInv
<1>8. Taken(seen, root[1], root[2])
  BY <1>1 DEF CompareInv, VerdictInv
<1> QED
  BY <1>1, <1>2, <1>4, <1>5, <1>6, <1>7, <1>8, SameArguments

LEMMA CompareFinishStep ==
    ASSUME CompareInv, Finish PROVE CompareInv'
<1>1. /\ UNCHANGED <<heap, root, names, seen, stack>>
      /\ verdict = "comparing" /\ stack = <<>> /\ verdict' = "equal"
  BY DEF Finish
<1>2. Taken(seen, root[1], root[2])
  BY <1>1 DEF CompareInv, VerdictInv
<1> QED
  BY <1>1, <1>2, SameArguments DEF CompareInv, CompareTypeOK

-----------------------------------------------------------------------------

(* The parts of the invariant hang together: what makes a pair that was    *)
(* taken for equal come true is that its frame still has to bear it out.   *)
THEOREM CompareInvariance == Spec => []CompareInv
<1>1. CompareInv /\ [Next]_vars => CompareInv'
  <2> SUFFICES ASSUME CompareInv, [Next]_vars PROVE CompareInv'
    OBVIOUS
  <2>1. CASE CompareRoot
    BY <2>1, CompareRootStep
  <2>2. ASSUME NEW f \in Top.todo, CompareField(f) PROVE CompareInv'
    BY <2>2, CompareFieldStep
  <2>3. ASSUME NEW pair \in Top.pairs, CompareChild(pair) PROVE CompareInv'
    BY <2>3, CompareChildStep
  <2>4. CASE Return
    BY <2>4, CompareReturnStep
  <2>5. CASE Finish
    BY <2>5, CompareFinishStep
  <2>6. CASE UNCHANGED vars
    <3>1. UNCHANGED <<heap, root, names, seen, stack, verdict>>
      BY <2>6 DEF vars
    <3>2. CASE verdict = "called"
      <4>1. seen = {} /\ stack = <<>>
        BY <3>2 DEF CompareInv, VerdictInv
      <4> QED
        BY <3>1, <3>2, <4>1 DEF CompareInv, CompareTypeOK, TakenInv, ActiveInv, NeededInv, VerdictInv
    <3>3. CASE verdict # "called"
      BY <3>1, <3>3, SameArguments DEF CompareInv, CompareTypeOK, VerdictInv
    <3> QED
      BY <3>2, <3>3
  <2> QED
    BY <2>1, <2>2, <2>3, <2>4, <2>5, <2>6 DEF Next
<1> QED
  BY <1>1, CompareInit, PTL DEF Spec

(* Graphs found equal are bisimilar, provided that names tell nodes apart. *)
THEOREM EqualOnlyIfBisimilar == Spec => []EqualIsBisimilar
<1>1. CompareInv => EqualIsBisimilar
  <2> SUFFICES ASSUME CompareInv, verdict = "equal", NamesAreUnique PROVE Bisimilar
    BY DEF EqualIsBisimilar
  <2> DEFINE R == { p \in Objects \X Objects : Key(p[1], p[2]) \in seen }
  <2>1. \A x, y : Related(R, x, y) <=> Taken(seen, x, y)
    BY DEF Related, Taken
  <2>2. \A x, y \in Objects : <<x, y>> \in R =>
          SameKind(x, y) /\ BorneOut(seen, x, y, {}, {})
    <3>1. DOMAIN stack = {}
      BY DEF CompareInv, VerdictInv
    <3> QED
      BY <3>1 DEF CompareInv, TakenInv
  <2> HIDE DEF R
  <2>3. Bisimulation(R)
    BY <2>1, <2>2 DEF Bisimulation, BorneOut, FieldsRelated
  <2>4. Related(R, root[1], root[2])
    BY <2>1 DEF CompareInv, VerdictInv
  <2>5. R \in Relations
    BY DEF R, Relations
  <2> QED
    BY <2>3, <2>4, <2>5 DEF Bisimilar
<1> QED
  BY <1>1, CompareInvariance, PTL

(* Graphs found different are not bisimilar, whatever the names.           *)
THEOREM DifferentOnlyIfNot == Spec => []DifferentIsNotBisimilar
<1>1. CompareInv => DifferentIsNotBisimilar
  BY DEF CompareInv, VerdictInv, DifferentIsNotBisimilar
<1> QED
  BY <1>1, CompareInvariance, PTL

(* No pair of nodes is compared below itself.                              *)
THEOREM NestingIsBounded == Spec => []NoPairIsNested
<1>1. CompareInv => NoPairIsNested
  BY DEF CompareInv, ActiveInv, NoPairIsNested
<1> QED
  BY <1>1, CompareInvariance, PTL
=============================================================================
