-------------------------- MODULE UnitBuilderProofs -------------------------
(***************************************************************************)
(* For all programs and arguments: the unit says of every node what the    *)
(* node says, whichever of the nodes with an ID is met first, and in       *)
(* whichever order fields are visited.                                     *)
(*                                                                         *)
(* Nodes that are the same are bisimilar, and so are the nodes below them. *)
(* A node is met when its ID has an original that is the same.  Of every   *)
(* original, a field has been gone through, and what is below it is met,   *)
(* or an active call has it left; when no call is active, the met nodes    *)
(* are closed under containment, and the root is one of them.              *)
(*                                                                         *)
(* And for any IDs that programs choose: fresh ones are new.               *)
(***************************************************************************)
EXTENDS UnitBuilder, NodeIds, FiniteSetTheorems, TLAPS

-----------------------------------------------------------------------------
(* The nodes in memory                                                     *)

LEMMA FieldForms ==
    ASSUME heap \in Heaps, NEW o \in Objects, NEW k \in DOMAIN heap[o].fields
    PROVE  LET value == heap[o].fields[k]
           IN /\ value.tag \in {"node", "ref", "position", "plain"}
              /\ value.tag = "node" => value.object \in Objects
              /\ value.tag = "position" => value.offset \in Nat
<1> PICK value : value = heap[o].fields[k]
  OBVIOUS
<1>1. \/ value.tag = "node" /\ value.object \in DOMAIN heap
      \/ value.tag = "ref"
      \/ value.tag = "position" /\ value.offset \in Nat
      \/ value.tag = "plain"
  BY HeapsAssumption DEF Objects
<1> QED
  BY <1>1 DEF Objects

(* The declared sources, of which the first with an ID counts.             *)
LEMMA DeclaredSizes ==
    ASSUME arguments \in Arguments, NEW s \in DOMAIN declared,
           declared[s].size # Nil
    PROVE  declared[s].size \in Nat
<1>1. s \in { arguments.sources[i].id : i \in DOMAIN arguments.sources }
  BY DEF declared
<1> PICK i : i = CHOOSE j \in DOMAIN arguments.sources : arguments.sources[j].id = s
  OBVIOUS
<1>2. i \in DOMAIN arguments.sources
  BY <1>1
<1>3. declared[s] = arguments.sources[i]
  BY <1>1 DEF declared
<1> QED
  BY <1>2, <1>3, ArgumentsAssumption

LEMMA ContainedClosed ==
    ASSUME heap \in Heaps
    PROVE  /\ Contained \subseteq Objects /\ Root \in Contained
           /\ \A o \in Contained : \A k \in DOMAIN heap[o].fields :
                heap[o].fields[k].tag = "node" =>
                    heap[o].fields[k].object \in Contained
<1>1. Root \in Objects
  BY HeapsAssumption DEF Objects
<1>2. ASSUME NEW o \in Contained, NEW k \in DOMAIN heap[o].fields,
             heap[o].fields[k].tag = "node"
      PROVE  heap[o].fields[k].object \in Contained
  <2>1. o \in Objects
    BY DEF Contained
  <2>2. heap[o].fields[k].object \in Objects
    BY <1>2, <2>1, FieldForms
  <2>3. heap[o].fields[k].object \in Children(o)
    BY <1>2 DEF Children
  <2> QED
    BY <2>2, <2>3 DEF Contained, ClosedUnder
<1> QED
  BY <1>1, <1>2 DEF Contained

(* A set of nodes that holds the root and what its nodes contain.          *)
LEMMA ContainedLeast ==
    ASSUME NEW S \in SUBSET Objects, Root \in S,
           \A o \in S : \A k \in DOMAIN heap[o].fields :
               heap[o].fields[k].tag = "node" => heap[o].fields[k].object \in S
    PROVE  Contained \subseteq S
<1>1. ClosedUnder(S)
  BY DEF ClosedUnder, Children
<1> QED
  BY <1>1 DEF Contained

-----------------------------------------------------------------------------
(* Nodes that are the same                                                 *)

Bisimulation(R) == /\ R \in SUBSET (Objects \X Objects)
                   /\ \A o, p : <<o, p>> \in R => Alike(o, p, R)

LEMMA SameIsRelated ==
    ASSUME heap \in Heaps, NEW o \in Objects, NEW p \in Objects, SameNode(o, p)
    PROVE  \E R : Bisimulation(R) /\ <<o, p>> \in R
<1>1. CASE o = p
  <2> DEFINE R == { <<x, x>> : x \in Objects }
  <2>1. /\ R \in SUBSET (Objects \X Objects) /\ <<o, p>> \in R
        /\ \A x, y : <<x, y>> \in R <=> x \in Objects /\ x = y
    BY <1>1
  <2> HIDE DEF R
  <2>2. ASSUME NEW x \in Objects PROVE Alike(x, x, R)
    <3>1. ASSUME NEW k \in DOMAIN heap[x].fields, heap[x].fields[k].tag = "node"
          PROVE  heap[x].fields[k].object \in Objects
      BY <3>1, FieldForms
    <3> QED
      BY <2>1, <3>1 DEF Alike
  <2> QED
    BY <2>1, <2>2 DEF Bisimulation
<1>2. CASE o # p
  <2>1. PICK R \in SUBSET (Objects \X Objects) :
              <<o, p>> \in R /\ \A pair \in R : Alike(pair[1], pair[2], R)
    BY <1>2 DEF SameNode
  <2>2. \A x, y : <<x, y>> \in R => Alike(x, y, R)
    <3> SUFFICES ASSUME NEW x, NEW y, <<x, y>> \in R PROVE Alike(x, y, R)
      OBVIOUS
    <3>1. Alike(<<x, y>>[1], <<x, y>>[2], R)
      BY <2>1
    <3> QED
      BY <3>1
  <2> QED
    BY <2>1, <2>2 DEF Bisimulation
<1> QED
  BY <1>1, <1>2

LEMMA RelatedIsSame ==
    ASSUME NEW R, Bisimulation(R), NEW o, NEW p, <<o, p>> \in R
    PROVE  SameNode(o, p)
<1>1. \A pair \in R : pair = <<pair[1], pair[2]>>
  BY DEF Bisimulation
<1>2. \A pair \in R : Alike(pair[1], pair[2], R)
  BY <1>1 DEF Bisimulation
<1> QED
  BY <1>2 DEF SameNode, Bisimulation

(* What nodes that are the same have in common.                            *)
LEMMA SameAgree ==
    ASSUME heap \in Heaps, NEW o \in Objects, NEW p \in Objects, SameNode(o, p)
    PROVE  /\ heap[o].id = heap[p].id /\ heap[o].valid = heap[p].valid
           /\ heap[o].origin = heap[p].origin
           /\ DOMAIN heap[o].fields = DOMAIN heap[p].fields
           /\ \A k \in DOMAIN heap[o].fields :
                LET v == heap[o].fields[k]
                    w == heap[p].fields[k]
                IN IF v.tag = "node"
                   THEN w.tag = "node" /\ SameNode(v.object, w.object)
                   ELSE v = w
<1>1. PICK R : Bisimulation(R) /\ <<o, p>> \in R
  BY SameIsRelated
<1>2. Alike(o, p, R)
  BY <1>1 DEF Bisimulation
<1>3. \A k \in DOMAIN heap[o].fields :
        heap[o].fields[k].tag = "node" =>
            SameNode(heap[o].fields[k].object, heap[p].fields[k].object)
  BY <1>1, <1>2, RelatedIsSame DEF Alike
<1> QED
  BY <1>2, <1>3 DEF Alike

LEMMA SameRow ==
    ASSUME heap \in Heaps, NEW o \in Objects, NEW p \in Objects, SameNode(o, p)
    PROVE  RowOf(o) = RowOf(p)
<1>1. ASSUME NEW k \in DOMAIN heap[o].fields
      PROVE  Canonical(heap[o].fields[k]) = Canonical(heap[p].fields[k])
  <2> PICK v, w : v = heap[o].fields[k] /\ w = heap[p].fields[k]
    OBVIOUS
  <2>1. IF v.tag = "node" THEN w.tag = "node" /\ SameNode(v.object, w.object)
        ELSE v = w
    BY SameAgree
  <2>2. CASE v.tag = "node"
    <3>1. v.object \in Objects /\ w.object \in Objects
      BY <2>1, <2>2, FieldForms, SameAgree
    <3>2. heap[v.object].id = heap[w.object].id
      BY <2>1, <2>2, <3>1, SameAgree
    <3> QED
      BY <2>1, <2>2, <3>2 DEF Canonical
  <2>3. CASE v.tag # "node"
    BY <2>1, <2>3
  <2> QED
    BY <2>2, <2>3
<1>2. /\ DOMAIN heap[o].fields = DOMAIN heap[p].fields
      /\ heap[o].origin = heap[p].origin
  BY SameAgree
<1> QED
  BY <1>1, <1>2 DEF RowOf

LEMMA SameSymmetric ==
    ASSUME heap \in Heaps, NEW o \in Objects, NEW p \in Objects, SameNode(o, p)
    PROVE  SameNode(p, o)
<1>1. PICK R : Bisimulation(R) /\ <<o, p>> \in R
  BY SameIsRelated
<1> DEFINE B == { r \in Objects \X Objects : <<r[2], r[1]>> \in R }
<1>2. \A x, y : <<x, y>> \in B <=> <<y, x>> \in R
  BY <1>1 DEF Bisimulation
<1>3. B \in SUBSET (Objects \X Objects)
  OBVIOUS
<1> HIDE DEF B
<1>4. ASSUME NEW x, NEW y, <<x, y>> \in B PROVE Alike(x, y, B)
  <2>1. Alike(y, x, R)
    BY <1>1, <1>2, <1>4 DEF Bisimulation
  <2> QED
    BY <1>2, <2>1 DEF Alike
<1> QED
  BY <1>1, <1>2, <1>3, <1>4, RelatedIsSame DEF Bisimulation

LEMMA SameTransitive ==
    ASSUME heap \in Heaps, NEW o \in Objects, NEW p \in Objects, NEW q \in Objects,
           SameNode(o, p), SameNode(p, q)
    PROVE  SameNode(o, q)
<1>1. PICK R : Bisimulation(R) /\ <<o, p>> \in R
  BY SameIsRelated
<1>2. PICK T : Bisimulation(T) /\ <<p, q>> \in T
  BY SameIsRelated
<1> DEFINE B == { r \in Objects \X Objects :
                    \E y \in Objects : <<r[1], y>> \in R /\ <<y, r[2]>> \in T }
<1>3. \A x, z : <<x, z>> \in B <=>
                  \E y \in Objects : <<x, y>> \in R /\ <<y, z>> \in T
  BY <1>1, <1>2 DEF Bisimulation
<1>4. B \in SUBSET (Objects \X Objects)
  OBVIOUS
<1> HIDE DEF B
<1>5. ASSUME NEW x, NEW z, <<x, z>> \in B PROVE Alike(x, z, B)
  <2>1. PICK y \in Objects : <<x, y>> \in R /\ <<y, z>> \in T
    BY <1>3, <1>5
  <2>2. Alike(x, y, R) /\ Alike(y, z, T)
    BY <1>1, <1>2, <2>1 DEF Bisimulation
  <2>3. ASSUME NEW k \in DOMAIN heap[x].fields,
               heap[x].fields[k].tag = "node"
        PROVE  /\ heap[z].fields[k].tag = "node"
               /\ <<heap[x].fields[k].object, heap[z].fields[k].object>> \in B
    <3>1. /\ heap[y].fields[k].tag = "node" /\ heap[z].fields[k].tag = "node"
          /\ <<heap[x].fields[k].object, heap[y].fields[k].object>> \in R
          /\ <<heap[y].fields[k].object, heap[z].fields[k].object>> \in T
      BY <2>2, <2>3 DEF Alike
    <3>2. heap[y].fields[k].object \in Objects
      BY <1>1, <3>1 DEF Bisimulation
    <3> QED
      BY <1>3, <3>1, <3>2
  <2>4. ASSUME NEW k \in DOMAIN heap[x].fields,
               heap[x].fields[k].tag # "node"
        PROVE  heap[x].fields[k] = heap[z].fields[k]
    BY <2>2, <2>4 DEF Alike
  <2> QED
    BY <2>2, <2>3, <2>4 DEF Alike
<1>6. <<o, q>> \in B
  BY <1>1, <1>2, <1>3
<1> QED
  BY <1>4, <1>5, <1>6, RelatedIsSame DEF Bisimulation

-----------------------------------------------------------------------------
(* The inductive invariant                                                 *)

FrameSet == [object : Objects,
             left : SUBSET UNION { DOMAIN heap[o].fields : o \in Objects }]

(* The parts of the state, given as arguments: the originals, the rows,    *)
(* the sizes and the active calls.                                         *)

(* Every original is a valid node of the program with the ID it stands     *)
(* for.                                                                    *)
Originals(origs) ==
    \A id \in DOMAIN origs : /\ origs[id] \in Contained
                             /\ heap[origs[id]].id = id
                             /\ heap[origs[id]].valid

(* The active calls are those of different originals; their rows, and no   *)
(* others, are placeholders.                                               *)
Calls(origs, rows, calls) ==
    /\ calls \in Seq(FrameSet)
    /\ \A j \in DOMAIN calls :
         /\ heap[calls[j].object].id \in DOMAIN origs
         /\ origs[heap[calls[j].object].id] = calls[j].object
         /\ rows[heap[calls[j].object].id] = Placeholder
         /\ calls[j].left \subseteq DOMAIN heap[calls[j].object].fields
    /\ \A i, j \in DOMAIN calls : calls[i].object = calls[j].object => i = j

Rows(origs, rows, calls) ==
    /\ DOMAIN rows = DOMAIN origs
    /\ \A id \in DOMAIN rows :
         \/ rows[id] = RowOf(origs[id])
         \/ /\ rows[id] = Placeholder
            /\ \E j \in DOMAIN calls : calls[j].object = origs[id]

Met(origs, o) == /\ heap[o].id \in DOMAIN origs
                 /\ SameNode(origs[heap[o].id], o)

(* A field that has been gone through.                                     *)
Through(origs, bounds, value) ==
    /\ value.tag = "node" => Met(origs, value.object)
    /\ value.tag = "position" => /\ value.source \in DOMAIN bounds
                                 /\ value.offset <= bounds[value.source]

(* An active call has the field left.                                      *)
Waiting(calls, o, k) ==
    \E j \in DOMAIN calls : calls[j].object = o /\ k \in calls[j].left

Fields(origs, bounds, calls) ==
    \A id \in DOMAIN origs : \A k \in DOMAIN heap[origs[id]].fields :
        \/ Through(origs, bounds, heap[origs[id]].fields[k])
        \/ Waiting(calls, origs[id], k)

Sized(bounds) ==
    /\ bounds = [s \in DOMAIN bounds |-> bounds[s]]
    /\ DOMAIN declared \subseteq DOMAIN bounds /\ DOMAIN bounds \subseteq Sources
    /\ \A s \in DOMAIN bounds :
         /\ bounds[s] \in Nat
         /\ IF Fixed(s) THEN bounds[s] = declared[s].size
            ELSE bounds[s] \in Offsets(s) \cup {0}

State(origs, rows, bounds, calls) ==
    /\ Originals(origs) /\ Calls(origs, rows, calls) /\ Rows(origs, rows, calls)
    /\ Fields(origs, bounds, calls) /\ Sized(bounds)

(* Nothing is visited before the sources are found to be distinct.         *)
Started == outcome # "called" /\ SourcesDistinct

TypeOK ==
    /\ heap \in Heaps /\ arguments \in Arguments
    /\ outcome \in {"called", "declared", "visiting", "built", "error"}
    /\ ~ SourcesDistinct => outcome \in {"called", "error"}
    /\ ~ Started \/ outcome = "declared" =>
           stack = <<>> /\ originals = <<>> /\ table = <<>>

(* The root is met first.                                                  *)
RootMet == outcome \in {"visiting", "built"} => Met(originals, Root)

AnswerInv ==
    /\ outcome = "built" => stack = <<>> /\ Buildable
    /\ outcome = "error" => ~ Buildable

IInv == /\ TypeOK /\ (Started => State(originals, table, sizes, stack))
        /\ RootMet /\ AnswerInv

-----------------------------------------------------------------------------

(* What is said of the program does not change while it is visited.        *)
LEMMA SameProgram ==
    ASSUME heap' = heap, arguments' = arguments
    PROVE  /\ declared' = declared /\ (SourcesDistinct' <=> SourcesDistinct)
           /\ Objects' = Objects /\ Contained' = Contained
           /\ \A o, p : SameNode(o, p)' <=> SameNode(o, p)
           /\ \A o : RowOf(o)' = RowOf(o)
           /\ Sources' = Sources /\ \A s : Offsets(s)' = Offsets(s)
           /\ \A s : Fixed(s)' <=> Fixed(s)
           /\ FrameSet' = FrameSet
           /\ Buildable' <=> Buildable
<1>0. declared' = declared /\ (SourcesDistinct' <=> SourcesDistinct)
  BY DEF declared, SourcesDistinct
<1>1. Objects' = Objects
  BY DEF Objects
<1>2. \A o : Children(o)' = Children(o)
  BY DEF Children
<1>3. Contained' = Contained
  BY <1>1, <1>2 DEF Contained, ClosedUnder
<1>4. \A o, p : SameNode(o, p)' <=> SameNode(o, p)
  BY <1>1 DEF SameNode, Alike
<1>5. \A o : RowOf(o)' = RowOf(o)
  BY DEF RowOf, Canonical
<1>6. Positions' = Positions
  BY <1>3 DEF Positions
<1>7. Sources' = Sources /\ \A s : Offsets(s)' = Offsets(s)
  BY <1>0, <1>6 DEF Sources, Offsets
<1>8. \A s : (Fixed(s)' <=> Fixed(s)) /\ FinalSize(s)' = FinalSize(s)
  <2> SUFFICES ASSUME NEW s
               PROVE  (Fixed(s)' <=> Fixed(s)) /\ FinalSize(s)' = FinalSize(s)
    OBVIOUS
  <2>1. Fixed(s)' <=> Fixed(s)
    BY <1>0 DEF Fixed
  <2>2. Offsets(s)' = Offsets(s)
    BY <1>7
  <2>3. FinalSize(s)' = FinalSize(s)
    BY <1>0, <2>1, <2>2 DEF FinalSize
  <2> QED
    BY <2>1, <2>3
<1>9. FrameSet' = FrameSet
  BY <1>1 DEF FrameSet
<1>10. OriginsFit([s \in Sources |-> FinalSize(s)],
                  { heap[o].origin : o \in Contained })' <=>
       OriginsFit([s \in Sources |-> FinalSize(s)],
                  { heap[o].origin : o \in Contained })
  <2>1. OriginIds' = OriginIds /\ OriginGraph' = OriginGraph
    BY DEF OriginIds, OriginGraph
  <2>2. [s \in Sources |-> FinalSize(s)]' = [s \in Sources |-> FinalSize(s)]
    BY <1>7, <1>8
  <2>3. { heap[o].origin : o \in Contained }' = { heap[o].origin : o \in Contained }
    BY <1>3
  <2> QED
    BY <2>1, <2>2, <2>3 DEF OriginsFit
<1>11. AnnotationsFit({ heap[o].id : o \in Contained })' <=>
       AnnotationsFit({ heap[o].id : o \in Contained })
  BY <1>3 DEF AnnotationsFit
<1>12. Buildable' <=> Buildable
  BY <1>0, <1>3, <1>4, <1>8, <1>10, <1>11 DEF Buildable
<1> QED
  BY <1>0, <1>1, <1>3, <1>4, <1>5, <1>7, <1>8, <1>9, <1>12

LEMMA SameState ==
    ASSUME heap' = heap, arguments' = arguments
    PROVE  /\ State(originals, table, sizes, stack)' <=>
                  State(originals', table', sizes', stack')
           /\ Met(originals, Root)' <=> Met(originals', Root)
<1>1. Originals(originals)' <=> Originals(originals')
  BY SameProgram DEF Originals
<1>2. Calls(originals, table, stack)' <=> Calls(originals', table', stack')
  BY SameProgram DEF Calls, Placeholder
<1>3. Rows(originals, table, stack)' <=> Rows(originals', table', stack')
  BY DEF Rows, RowOf, Canonical, Placeholder
<1>4. Fields(originals, sizes, stack)' <=> Fields(originals', sizes', stack')
  BY DEF Fields, Through, Waiting, Met, SameNode, Alike, Objects
<1>5. Sized(sizes)' <=> Sized(sizes')
  BY SameProgram DEF Sized
<1>6. Met(originals, Root)' <=> Met(originals', Root)
  BY DEF Met, SameNode, Alike, Objects, Root
<1> QED
  BY <1>1, <1>2, <1>3, <1>4, <1>5, <1>6 DEF State

-----------------------------------------------------------------------------
(* The steps of a visit                                                    *)

(* Call j once it is done with its field k.                                *)
Done(calls, j, k) == [calls EXCEPT ![j].left = @ \ {k}]

LEMMA DoneCalls ==
    ASSUME NEW calls \in Seq(FrameSet), NEW j \in DOMAIN calls, NEW k
    PROVE  /\ Done(calls, j, k) \in Seq(FrameSet)
           /\ DOMAIN Done(calls, j, k) = DOMAIN calls
           /\ \A i \in DOMAIN calls :
                /\ Done(calls, j, k)[i].object = calls[i].object
                /\ Done(calls, j, k)[i].left \subseteq calls[i].left
           /\ \A o, l : Waiting(calls, o, l) =>
                          \/ Waiting(Done(calls, j, k), o, l)
                          \/ o = calls[j].object /\ l = k
<1> PICK call : call = calls[j]
  OBVIOUS
<1>1. call \in FrameSet
  OBVIOUS
<1> PICK rest : rest = [call EXCEPT !.left = @ \ {k}]
  OBVIOUS
<1>2. rest \in FrameSet /\ rest.object = call.object /\ rest.left = call.left \ {k}
  BY <1>1 DEF FrameSet
<1> PICK after : after = Done(calls, j, k)
  OBVIOUS
<1>3. after = [calls EXCEPT ![j] = rest]
  BY DEF Done
<1>4. /\ after \in Seq(FrameSet) /\ DOMAIN after = DOMAIN calls
      /\ after[j] = rest
      /\ \A i \in DOMAIN calls : i # j => after[i] = calls[i]
  BY <1>2, <1>3
<1>5. \A i \in DOMAIN calls : /\ after[i].object = calls[i].object
                              /\ after[i].left \subseteq calls[i].left
  BY <1>2, <1>4
<1>6. ASSUME NEW o, NEW l, NEW i \in DOMAIN calls,
             calls[i].object = o, l \in calls[i].left,
             ~ (o = call.object /\ l = k)
      PROVE  l \in after[i].left
  BY <1>2, <1>4, <1>6
<1> QED
  BY <1>4, <1>5, <1>6 DEF Waiting

(* A call may be done with a field before or after it makes another one.   *)
LEMMA DoneBelow ==
    ASSUME NEW calls \in Seq(FrameSet), NEW j \in DOMAIN calls, NEW k,
           NEW call \in FrameSet, NEW nested, nested = Append(calls, call)
    PROVE  /\ j \in DOMAIN nested /\ nested[j] = calls[j]
           /\ Done(nested, j, k) = Append(Done(calls, j, k), call)
<1>1. /\ nested \in Seq(FrameSet) /\ DOMAIN nested = 1 .. (Len(calls) + 1)
      /\ DOMAIN calls = 1 .. Len(calls) /\ Len(calls) \in Nat
      /\ nested[Len(calls) + 1] = call
      /\ \A i \in DOMAIN calls : nested[i] = calls[i]
  OBVIOUS
<1>2. j \in DOMAIN nested /\ nested[j] = calls[j] /\ j # Len(calls) + 1
  BY <1>1
<1> PICK rest : rest = [calls[j] EXCEPT !.left = @ \ {k}]
  OBVIOUS
<1> PICK less, after : /\ less = [calls EXCEPT ![j] = rest]
                       /\ after = [nested EXCEPT ![j] = rest]
  OBVIOUS
<1>3. Done(calls, j, k) = less /\ Done(nested, j, k) = after
  BY <1>2 DEF Done
<1>4. rest \in FrameSet
  <2> PICK top : top = calls[j]
    OBVIOUS
  <2>1. top \in FrameSet
    OBVIOUS
  <2> QED
    BY <2>1 DEF FrameSet
<1>5. /\ less \in Seq(FrameSet) /\ Len(less) = Len(calls)
      /\ after \in Seq(FrameSet) /\ DOMAIN after = 1 .. (Len(calls) + 1)
      /\ less[j] = rest /\ after[j] = rest
      /\ \A i \in DOMAIN calls : i # j => less[i] = calls[i]
      /\ \A i \in DOMAIN nested : i # j => after[i] = nested[i]
  <2>1. less \in Seq(FrameSet) /\ DOMAIN less = DOMAIN calls
    BY <1>4
  <2>2. less[j] = rest /\ \A i \in DOMAIN calls : i # j => less[i] = calls[i]
    OBVIOUS
  <2>3. Len(less) = Len(calls)
    BY <1>1, <2>1
  <2>4. after \in Seq(FrameSet) /\ DOMAIN after = DOMAIN nested
    BY <1>1, <1>2, <1>4
  <2>5. after[j] = rest /\ \A i \in DOMAIN nested : i # j => after[i] = nested[i]
    BY <1>2
  <2> QED
    BY <1>1, <2>1, <2>2, <2>3, <2>4, <2>5
<1> PICK both : both = Append(less, call)
  OBVIOUS
<1>6. /\ both \in Seq(FrameSet) /\ DOMAIN both = 1 .. (Len(calls) + 1)
      /\ both[Len(calls) + 1] = call
      /\ \A i \in 1 .. Len(calls) : both[i] = less[i]
  BY <1>1, <1>5
<1>7. \A i \in 1 .. (Len(calls) + 1) : both[i] = after[i]
  BY <1>1, <1>2, <1>5, <1>6
<1>8. both = after
  BY <1>5, <1>6, <1>7
<1> QED
  BY <1>2, <1>3, <1>8

(* A field is gone through; the sizes may grow by it.                      *)
LEMMA FieldDone ==
    ASSUME NEW origs, NEW rows, NEW bounds, NEW calls,
           State(origs, rows, bounds, calls),
           NEW j \in DOMAIN calls, NEW k, NEW grown, Sized(grown),
           DOMAIN bounds \subseteq DOMAIN grown,
           \A s \in DOMAIN bounds : bounds[s] <= grown[s],
           Through(origs, grown, heap[calls[j].object].fields[k]),
           heap \in Heaps
    PROVE  State(origs, rows, grown, Done(calls, j, k))
<1>1. PICK after : after = Done(calls, j, k)
  OBVIOUS
<1>2. calls \in Seq(FrameSet)
  BY DEF State, Calls
<1>3. /\ after \in Seq(FrameSet) /\ DOMAIN after = DOMAIN calls
      /\ \A i \in DOMAIN calls : /\ after[i].object = calls[i].object
                                 /\ after[i].left \subseteq calls[i].left
      /\ \A o, l : Waiting(calls, o, l) =>
                     \/ Waiting(after, o, l)
                     \/ o = calls[j].object /\ l = k
  BY <1>1, <1>2, DoneCalls
<1>4. Calls(origs, rows, after)
  BY <1>3 DEF State, Calls
<1>5. Rows(origs, rows, after)
  BY <1>3 DEF State, Rows
<1>6. Fields(origs, grown, after)
  <2> SUFFICES ASSUME NEW id \in DOMAIN origs,
                      NEW l \in DOMAIN heap[origs[id]].fields
               PROVE  \/ Through(origs, grown, heap[origs[id]].fields[l])
                      \/ Waiting(after, origs[id], l)
    BY DEF Fields
  <2> PICK value : value = heap[origs[id]].fields[l]
    OBVIOUS
  <2>1. CASE Through(origs, bounds, value)
    <3>1. value.tag = "position" => value.offset \in Nat
      BY FieldForms, ContainedClosed DEF State, Originals
    <3>2. \A s \in DOMAIN bounds : bounds[s] \in Nat /\ grown[s] \in Nat
      BY DEF State, Sized
    <3> QED
      BY <2>1, <3>1, <3>2 DEF Through
  <2>2. CASE Waiting(calls, origs[id], l)
    BY <1>3, <2>2
  <2> QED
    BY <2>1, <2>2 DEF State, Fields
<1> QED
  BY <1>1, <1>4, <1>5, <1>6 DEF State

LEMMA MetSelf ==
    ASSUME NEW o \in Objects PROVE SameNode(o, o)
BY DEF SameNode

(* A node with a new ID is visited.                                        *)
LEMMA NodeAdded ==
    ASSUME NEW origs, NEW rows, NEW bounds, NEW calls,
           State(origs, rows, bounds, calls), heap \in Heaps,
           NEW o \in Contained, heap[o].valid, heap[o].id \notin DOMAIN origs
    PROVE  LET added == Put(origs, heap[o].id, o)
           IN /\ State(added, Put(rows, heap[o].id, Placeholder), bounds,
                       Append(calls, [object |-> o, left |-> DOMAIN heap[o].fields]))
              /\ Met(added, o)
              /\ \A p : Met(origs, p) => Met(added, p)
<1>1. PICK id, added, more : /\ id = heap[o].id
                             /\ added = Put(origs, heap[o].id, o)
                             /\ more = Put(rows, heap[o].id, Placeholder)
  OBVIOUS
<1> PICK call : call = [object |-> o, left |-> DOMAIN heap[o].fields]
  OBVIOUS
<1> PICK nested : nested = Append(calls, call)
  OBVIOUS
<1>2. o \in Objects /\ Contained \subseteq Objects
  BY ContainedClosed
<1>3. call \in FrameSet /\ call.object = o /\ call.left = DOMAIN heap[o].fields
  BY <1>2 DEF FrameSet
<1>4. /\ nested \in Seq(FrameSet) /\ DOMAIN nested = 1 .. (Len(calls) + 1)
      /\ DOMAIN calls = 1 .. Len(calls) /\ Len(calls) \in Nat
      /\ nested[Len(calls) + 1] = call
      /\ \A j \in DOMAIN calls : nested[j] = calls[j]
  BY <1>3 DEF State, Calls
<1>5. /\ DOMAIN added = DOMAIN origs \cup {id} /\ added[id] = o
      /\ \A x \in DOMAIN origs : x # id /\ added[x] = origs[x]
      /\ DOMAIN more = DOMAIN rows \cup {id} /\ more[id] = Placeholder
      /\ DOMAIN rows = DOMAIN origs
      /\ \A x \in DOMAIN rows : more[x] = rows[x]
  <2>1. DOMAIN rows = DOMAIN origs
    BY DEF State, Rows
  <2>2. added = Put(origs, id, o) /\ more = Put(rows, id, Placeholder)
    BY <1>1
  <2>3. id \notin DOMAIN origs
    BY <1>1
  <2>4. /\ DOMAIN added = DOMAIN origs \cup {id} /\ added[id] = o
        /\ \A x \in DOMAIN origs : x # id => added[x] = origs[x]
    BY <2>2 DEF Put
  <2>5. /\ DOMAIN more = DOMAIN rows \cup {id} /\ more[id] = Placeholder
        /\ \A x \in DOMAIN rows : x # id => more[x] = rows[x]
    BY <2>2 DEF Put
  <2> QED
    BY <2>1, <2>3, <2>4, <2>5
<1>6. Originals(added)
  BY <1>1, <1>5 DEF State, Originals
<1>7. /\ Met(added, o)
      /\ \A p : Met(origs, p) => Met(added, p)
  BY <1>1, <1>2, <1>5, MetSelf DEF Met
<1>8. Calls(added, more, nested)
  <2>1. ASSUME NEW j \in DOMAIN nested
        PROVE  /\ heap[nested[j].object].id \in DOMAIN added
               /\ added[heap[nested[j].object].id] = nested[j].object
               /\ more[heap[nested[j].object].id] = Placeholder
               /\ nested[j].left \subseteq DOMAIN heap[nested[j].object].fields
    <3>1. CASE j \in DOMAIN calls
      BY <1>4, <1>5, <3>1 DEF State, Calls
    <3>2. CASE j = Len(calls) + 1
      BY <1>1, <1>3, <1>4, <1>5, <3>2
    <3> QED
      BY <1>4, <3>1, <3>2
  <2>2. \A j \in DOMAIN calls : nested[j].object # o
    BY <1>1, <1>4 DEF State, Calls
  <2>3. ASSUME NEW i \in DOMAIN nested, NEW j \in DOMAIN nested,
               nested[i].object = nested[j].object
        PROVE  i = j
    <3>1. CASE i \in DOMAIN calls /\ j \in DOMAIN calls
      BY <1>4, <2>3, <3>1 DEF State, Calls
    <3>2. CASE i = Len(calls) + 1 \/ j = Len(calls) + 1
      BY <1>3, <1>4, <2>2, <2>3, <3>2
    <3> QED
      BY <1>4, <3>1, <3>2
  <2> QED
    BY <1>4, <2>1, <2>3 DEF Calls
<1>9. Rows(added, more, nested)
  <2>1. ASSUME NEW x \in DOMAIN more
        PROVE  \/ more[x] = RowOf(added[x])
               \/ /\ more[x] = Placeholder
                  /\ \E j \in DOMAIN nested : nested[j].object = added[x]
    <3>1. CASE x = id
      <4>1. Len(calls) + 1 \in DOMAIN nested
        BY <1>4
      <4> QED
        BY <1>3, <1>4, <1>5, <3>1, <4>1
    <3>2. CASE x \in DOMAIN rows
      <4>1. \A j \in DOMAIN calls : j \in DOMAIN nested
        BY <1>4
      <4> QED
        BY <1>4, <1>5, <3>2, <4>1 DEF State, Rows
    <3> QED
      BY <1>5, <3>1, <3>2
  <2> QED
    BY <1>5, <2>1 DEF Rows
<1>10. Fields(added, bounds, nested)
  <2> SUFFICES ASSUME NEW x \in DOMAIN added,
                      NEW l \in DOMAIN heap[added[x]].fields
               PROVE  \/ Through(added, bounds, heap[added[x]].fields[l])
                      \/ Waiting(nested, added[x], l)
    BY DEF Fields
  <2>1. CASE x = id
    <3>1. Len(calls) + 1 \in DOMAIN nested
      BY <1>4
    <3> QED
      BY <1>3, <1>4, <1>5, <2>1, <3>1 DEF Waiting
  <2>2. CASE x \in DOMAIN origs
    <3>1. \A p, k : Waiting(calls, p, k) => Waiting(nested, p, k)
      BY <1>4 DEF Waiting
    <3>2. \A value : Through(origs, bounds, value) => Through(added, bounds, value)
      BY <1>7 DEF Through
    <3> QED
      BY <1>5, <2>2, <3>1, <3>2 DEF State, Fields
  <2> QED
    BY <1>5, <2>1, <2>2
<1> QED
  BY <1>1, <1>6, <1>7, <1>8, <1>9, <1>10 DEF State

(* A call returns: all of its fields are gone through.                     *)
LEMMA CallDone ==
    ASSUME NEW origs, NEW rows, NEW bounds, NEW calls,
           State(origs, rows, bounds, calls), heap \in Heaps,
           calls # <<>>, calls[Len(calls)].left = {}
    PROVE  LET o == calls[Len(calls)].object
           IN State(origs, Put(rows, heap[o].id, RowOf(o)), bounds,
                    SubSeq(calls, 1, Len(calls) - 1))
<1>1. PICK o : o = calls[Len(calls)].object
  OBVIOUS
<1>2. PICK id, more, rest : /\ id = heap[o].id
                            /\ more = Put(rows, heap[o].id, RowOf(o))
                            /\ rest = SubSeq(calls, 1, Len(calls) - 1)
  OBVIOUS
<1>3. /\ rest \in Seq(FrameSet) /\ DOMAIN rest = 1 .. (Len(calls) - 1)
      /\ DOMAIN calls = 1 .. Len(calls) /\ Len(calls) \in Nat /\ Len(calls) > 0
      /\ \A j \in DOMAIN rest : j \in DOMAIN calls /\ rest[j] = calls[j]
  BY <1>2 DEF State, Calls
<1>4. Len(calls) \in DOMAIN calls
  BY <1>3
<1>5. id \in DOMAIN origs /\ origs[id] = o
  BY <1>1, <1>2, <1>4 DEF State, Calls
<1>6. /\ DOMAIN rows = DOMAIN origs
      /\ DOMAIN more = DOMAIN rows /\ more[id] = RowOf(o)
      /\ \A x \in DOMAIN rows : x # id => more[x] = rows[x]
  <2>1. DOMAIN rows = DOMAIN origs
    BY DEF State, Rows
  <2> PICK row : row = RowOf(o)
    OBVIOUS
  <2>2. more = Put(rows, id, row)
    BY <1>2
  <2>3. /\ DOMAIN more = DOMAIN rows \cup {id} /\ more[id] = row
        /\ \A x \in DOMAIN rows : x # id => more[x] = rows[x]
    BY <2>2 DEF Put
  <2> QED
    BY <1>5, <2>1, <2>3
<1>7. \A j \in DOMAIN rest : rest[j].object # o
  BY <1>1, <1>3, <1>4 DEF State, Calls
<1>8. Calls(origs, more, rest)
  <2>1. ASSUME NEW j \in DOMAIN rest
        PROVE  /\ heap[rest[j].object].id \in DOMAIN origs
               /\ origs[heap[rest[j].object].id] = rest[j].object
               /\ more[heap[rest[j].object].id] = Placeholder
               /\ rest[j].left \subseteq DOMAIN heap[rest[j].object].fields
    BY <1>3, <1>5, <1>6, <1>7 DEF State, Calls
  <2>2. \A i, j \in DOMAIN rest : rest[i].object = rest[j].object => i = j
    BY <1>3 DEF State, Calls
  <2> QED
    BY <1>3, <2>1, <2>2 DEF Calls
<1>9. Rows(origs, more, rest)
  <2>1. ASSUME NEW x \in DOMAIN more, x # id, more[x] # RowOf(origs[x])
        PROVE  /\ more[x] = Placeholder
               /\ \E j \in DOMAIN rest : rest[j].object = origs[x]
    <3>1. PICK j \in DOMAIN calls : calls[j].object = origs[x]
      BY <1>6, <2>1 DEF State, Rows
    <3>2. j # Len(calls)
      BY <1>1, <1>2, <1>6, <2>1, <3>1 DEF State, Originals
    <3>3. j \in DOMAIN rest
      BY <1>3, <3>2
    <3> QED
      BY <1>3, <1>6, <2>1, <3>1, <3>3 DEF State, Rows
  <2> QED
    BY <1>5, <1>6, <2>1 DEF Rows
<1>10. Fields(origs, bounds, rest)
  <2>1. ASSUME NEW p, NEW l, Waiting(calls, p, l) PROVE Waiting(rest, p, l)
    <3>1. PICK j \in DOMAIN calls : calls[j].object = p /\ l \in calls[j].left
      BY <2>1 DEF Waiting
    <3>2. j \in DOMAIN rest
      BY <1>3, <3>1
    <3> QED
      BY <1>3, <3>1, <3>2 DEF Waiting
  <2> QED
    BY <2>1 DEF State, Fields
<1> QED
  BY <1>1, <1>2, <1>8, <1>9, <1>10 DEF State

-----------------------------------------------------------------------------
(* When no call is active                                                  *)

LEMMA AllMet ==
    ASSUME NEW origs, NEW rows, NEW bounds, State(origs, rows, bounds, <<>>),
           heap \in Heaps, Met(origs, Root), NEW o \in Contained
    PROVE  Met(origs, o)
<1>1. Contained \subseteq Objects /\ Root \in Contained
  BY ContainedClosed
<1> DEFINE S == { p \in Objects : Met(origs, p) }
<1>2. S \in SUBSET Objects /\ Root \in S /\ \A p \in S : p \in Objects /\ Met(origs, p)
  BY <1>1
<1>3. ASSUME NEW p \in Objects, Met(origs, p),
             NEW k \in DOMAIN heap[p].fields, heap[p].fields[k].tag = "node"
      PROVE  /\ heap[p].fields[k].object \in Objects
             /\ Met(origs, heap[p].fields[k].object)
  <2> PICK q : q = origs[heap[p].id]
    OBVIOUS
  <2>1. q \in Objects /\ SameNode(q, p) /\ heap[p].id \in DOMAIN origs
    BY <1>1, <1>3 DEF Met, State, Originals
  <2> PICK below, above : /\ below = heap[p].fields[k].object
                          /\ above = heap[q].fields[k].object
    OBVIOUS
  <2>2. DOMAIN heap[q].fields = DOMAIN heap[p].fields
    BY <2>1, SameAgree
  <2>3. heap[q].fields[k].tag = "node" /\ SameNode(above, below)
    BY <1>3, <2>1, <2>2, SameAgree
  <2>4. below \in Objects /\ above \in Objects
    BY <1>3, <2>1, <2>2, <2>3, FieldForms
  <2>5. Through(origs, bounds, heap[q].fields[k])
    BY <2>1, <2>2 DEF State, Fields, Waiting
  <2>6. heap[above].id \in DOMAIN origs /\ SameNode(origs[heap[above].id], above)
    BY <2>3, <2>5 DEF Through, Met
  <2>7. heap[above].id = heap[below].id
    BY <2>3, <2>4, SameAgree
  <2>8. origs[heap[above].id] \in Objects
    BY <1>1, <2>6 DEF State, Originals
  <2>9. SameNode(origs[heap[above].id], below)
    BY <2>3, <2>4, <2>6, <2>8, SameTransitive
  <2> QED
    BY <2>4, <2>6, <2>7, <2>9 DEF Met
<1>4. ASSUME NEW p \in S, NEW k \in DOMAIN heap[p].fields,
             heap[p].fields[k].tag = "node"
      PROVE  heap[p].fields[k].object \in S
  BY <1>3, <1>4
<1> HIDE DEF S
<1> QED
  BY <1>1, <1>2, <1>4, ContainedLeast

(* What the unit says then.                                                *)
LEMMA RowsAtEnd ==
    ASSUME NEW origs, NEW rows, NEW bounds, State(origs, rows, bounds, <<>>),
           heap \in Heaps, Met(origs, Root)
    PROVE  /\ DOMAIN rows = { heap[o].id : o \in Contained }
           /\ \A o \in Contained : rows[heap[o].id] = RowOf(o)
           /\ \A o \in Contained : heap[o].valid
           /\ \A o, p \in Contained : heap[o].id = heap[p].id => SameNode(o, p)
<1>1. Contained \subseteq Objects
  BY ContainedClosed
<1>2. \A id \in DOMAIN origs : /\ origs[id] \in Contained
                               /\ heap[origs[id]].id = id
                               /\ heap[origs[id]].valid
  BY DEF State, Originals
<1>3. \A o \in Contained : /\ heap[o].id \in DOMAIN origs
                           /\ SameNode(origs[heap[o].id], o)
  BY AllMet DEF Met
<1>4. DOMAIN rows = DOMAIN origs /\ \A id \in DOMAIN rows : rows[id] = RowOf(origs[id])
  BY DEF State, Rows
<1>5. DOMAIN rows = { heap[o].id : o \in Contained }
  BY <1>2, <1>3, <1>4
<1>6. ASSUME NEW o \in Contained PROVE rows[heap[o].id] = RowOf(o)
  BY <1>1, <1>2, <1>3, <1>4, SameRow
<1>7. ASSUME NEW o \in Contained PROVE heap[o].valid
  <2> PICK q : q = origs[heap[o].id]
    OBVIOUS
  <2>1. q \in Objects /\ SameNode(q, o) /\ heap[q].valid
    BY <1>1, <1>2, <1>3
  <2>2. heap[q].valid = heap[o].valid
    BY <1>1, <2>1, SameAgree
  <2> QED
    BY <2>1, <2>2
<1>8. ASSUME NEW o \in Contained, NEW p \in Contained, heap[o].id = heap[p].id
      PROVE  SameNode(o, p)
  <2> PICK q : q = origs[heap[o].id]
    OBVIOUS
  <2>1. q \in Objects /\ SameNode(q, o) /\ SameNode(q, p)
    BY <1>1, <1>2, <1>3, <1>8
  <2>2. SameNode(o, q)
    BY <1>1, <2>1, SameSymmetric
  <2> QED
    BY <1>1, <2>1, <2>2, SameTransitive
<1> QED
  BY <1>5, <1>6, <1>7, <1>8

(* And its sizes.                                                          *)
LEMMA SizesAtEnd ==
    ASSUME NEW origs, NEW rows, NEW bounds, State(origs, rows, bounds, <<>>),
           heap \in Heaps, Met(origs, Root)
    PROVE  /\ bounds = [s \in Sources |-> FinalSize(s)]
           /\ \A s \in Sources : bounds[s] = FinalSize(s)
<1>1. Contained \subseteq Objects
  BY ContainedClosed
<1>2. ASSUME NEW o \in Contained, NEW k \in DOMAIN heap[o].fields,
             heap[o].fields[k].tag = "position"
      PROVE  LET value == heap[o].fields[k]
             IN /\ value.source \in DOMAIN bounds
                /\ value.offset <= bounds[value.source] /\ value.offset \in Nat
  <2> PICK q : q = origs[heap[o].id]
    OBVIOUS
  <2>1. Met(origs, o)
    BY AllMet
  <2>2. q \in Objects /\ SameNode(q, o) /\ heap[o].id \in DOMAIN origs
    BY <1>1, <2>1 DEF Met, State, Originals
  <2>3. DOMAIN heap[q].fields = DOMAIN heap[o].fields
    BY <1>1, <2>2, SameAgree
  <2>4. heap[q].fields[k] = heap[o].fields[k]
    <3> PICK v, w : v = heap[q].fields[k] /\ w = heap[o].fields[k]
      OBVIOUS
    <3>1. IF v.tag = "node" THEN w.tag = "node" ELSE v = w
      BY <1>1, <2>2, <2>3, SameAgree
    <3>2. w.tag = "position"
      BY <1>2
    <3> QED
      BY <3>1, <3>2
  <2>5. Through(origs, bounds, heap[q].fields[k])
    BY <2>2, <2>3 DEF State, Fields, Waiting
  <2>6. heap[o].fields[k].offset \in Nat
    BY <1>1, <1>2, FieldForms
  <2> QED
    BY <1>2, <2>4, <2>5, <2>6 DEF Through
<1>3. \A p \in Positions : /\ p.source \in DOMAIN bounds
                           /\ p.offset <= bounds[p.source] /\ p.offset \in Nat
  BY <1>2 DEF Positions
<1>4. /\ bounds = [s \in DOMAIN bounds |-> bounds[s]]
      /\ DOMAIN declared \subseteq DOMAIN bounds /\ DOMAIN bounds \subseteq Sources
      /\ \A s \in DOMAIN bounds :
           /\ bounds[s] \in Nat
           /\ IF Fixed(s) THEN bounds[s] = declared[s].size
              ELSE bounds[s] \in Offsets(s) \cup {0}
  BY DEF State, Sized
<1>5. DOMAIN bounds = Sources
  BY <1>3, <1>4 DEF Sources
<1>6. ASSUME NEW s \in Sources PROVE bounds[s] = FinalSize(s)
  <2>1. CASE Fixed(s)
    BY <1>4, <1>5, <2>1 DEF FinalSize
  <2>2. CASE ~ Fixed(s)
    <3>1. \A offset \in Offsets(s) : offset \in Nat /\ offset <= bounds[s]
      BY <1>3 DEF Offsets
    <3>2. bounds[s] \in Offsets(s) \cup {0} /\ bounds[s] \in Nat
      BY <1>4, <1>5, <2>2
    <3> PICK m : m = FinalSize(s)
      OBVIOUS
    <3>3. /\ m \in Offsets(s) \cup {0}
          /\ \A offset \in Offsets(s) : offset <= m
      BY <2>2, <3>1, <3>2 DEF FinalSize
    <3>4. m \in Nat /\ m <= bounds[s]
      BY <3>1, <3>2, <3>3
    <3>5. bounds[s] <= m
      BY <3>2, <3>3, <3>4
    <3> QED
      BY <3>2, <3>4, <3>5
  <2> QED
    BY <2>1, <2>2
<1>7. bounds = [s \in Sources |-> bounds[s]]
  BY <1>4, <1>5
<1> QED
  BY <1>6, <1>7

(* The checks at the end are what is left to check.                        *)
LEMMA LastChecks ==
    ASSUME State(originals, table, sizes, <<>>), heap \in Heaps,
           Met(originals, Root), SourcesDistinct
    PROVE  /\ LinesFit /\ RefsResolve /\ PositionsInside
           /\ OriginsFit(sizes, { table[id].origin : id \in DOMAIN table })
           /\ AnnotationsFit(DOMAIN table) /\ arguments.extensions
           <=> Buildable
<1>1. Contained \subseteq Objects
  BY ContainedClosed
<1>2. /\ DOMAIN table = { heap[o].id : o \in Contained }
      /\ \A o \in Contained : table[heap[o].id] = RowOf(o)
      /\ \A o \in Contained : heap[o].valid
      /\ \A o, p \in Contained : heap[o].id = heap[p].id => SameNode(o, p)
  BY RowsAtEnd
<1>3. /\ \A s \in Sources : sizes[s] = FinalSize(s)
      /\ sizes = [s \in Sources |-> FinalSize(s)]
  BY SizesAtEnd
<1>4. LinesFit <=> \A s \in DOMAIN declared : \A offset \in declared[s].lines :
                       offset <= FinalSize(s)
  BY <1>3 DEF LinesFit, Sources
<1>5. \A o \in Contained :
        /\ table[heap[o].id].origin = heap[o].origin
        /\ DOMAIN table[heap[o].id].fields = DOMAIN heap[o].fields
        /\ \A k \in DOMAIN heap[o].fields :
             table[heap[o].id].fields[k] = Canonical(heap[o].fields[k])
  <2> SUFFICES ASSUME NEW o \in Contained
               PROVE  /\ table[heap[o].id].origin = heap[o].origin
                      /\ DOMAIN table[heap[o].id].fields = DOMAIN heap[o].fields
                      /\ \A k \in DOMAIN heap[o].fields :
                           table[heap[o].id].fields[k] = Canonical(heap[o].fields[k])
    OBVIOUS
  <2> PICK row : row = table[heap[o].id]
    OBVIOUS
  <2>1. row = RowOf(o)
    BY <1>2
  <2>2. /\ row.origin = heap[o].origin
        /\ row.fields = [k \in DOMAIN heap[o].fields |-> Canonical(heap[o].fields[k])]
    BY <2>1 DEF RowOf
  <2> QED
    BY <2>2
<1>6. RefsResolve <=> \A o \in Contained : \A k \in DOMAIN heap[o].fields :
                          Canonical(heap[o].fields[k]).tag = "ref" =>
                              Canonical(heap[o].fields[k]).id \in DOMAIN table
  <2>1. RefsResolve <=>
            \A o \in Contained : \A k \in DOMAIN table[heap[o].id].fields :
                table[heap[o].id].fields[k].tag = "ref" =>
                    table[heap[o].id].fields[k].id \in DOMAIN table
    BY <1>2 DEF RefsResolve
  <2> QED
    BY <1>5, <2>1
<1>7. PositionsInside <=>
          \A o \in Contained : \A k \in DOMAIN heap[o].fields :
              Canonical(heap[o].fields[k]).tag = "position" =>
                  Canonical(heap[o].fields[k]).offset
                      <= sizes[Canonical(heap[o].fields[k]).source]
  BY <1>2, <1>5 DEF PositionsInside
<1>8. ASSUME NEW o \in Contained, NEW k \in DOMAIN heap[o].fields
      PROVE  LET value == heap[o].fields[k]
             IN /\ (Canonical(value).tag = "ref" =>
                        Canonical(value).id \in DOMAIN table) <=>
                   (value.tag = "ref" => \E p \in Contained : heap[p].id = value.id)
                /\ (Canonical(value).tag = "position" =>
                        Canonical(value).offset <= sizes[Canonical(value).source]) <=>
                   (value.tag = "position" => value.offset <= FinalSize(value.source))
  <2> PICK value : value = heap[o].fields[k]
    OBVIOUS
  <2>1. CASE value.tag = "node"
    <3>1. value.object \in Contained
      BY <2>1, ContainedClosed
    <3>2. /\ Canonical(value).tag = "ref"
          /\ Canonical(value).id = heap[value.object].id
      BY <2>1 DEF Canonical, Ref
    <3> QED
      BY <1>2, <2>1, <3>1, <3>2
  <2>2. CASE value.tag # "node"
    <3>1. Canonical(value) = value
      BY <2>2 DEF Canonical
    <3>2. value.tag = "position" => value.source \in Sources
      BY DEF Sources, Positions
    <3> QED
      BY <1>2, <1>3, <3>1, <3>2
  <2> QED
    BY <2>1, <2>2
<1>9. RefsResolve <=> \A o \in Contained : \A k \in DOMAIN heap[o].fields :
                          heap[o].fields[k].tag = "ref" =>
                              \E p \in Contained : heap[p].id = heap[o].fields[k].id
  BY <1>6, <1>8
<1>10. PositionsInside <=>
           \A o \in Contained : \A k \in DOMAIN heap[o].fields :
               heap[o].fields[k].tag = "position" =>
                   heap[o].fields[k].offset <= FinalSize(heap[o].fields[k].source)
  BY <1>7, <1>8
<1>11. { table[id].origin : id \in DOMAIN table } = { heap[o].origin : o \in Contained }
  BY <1>2, <1>5
<1>12. OriginsFit(sizes, { table[id].origin : id \in DOMAIN table }) <=>
       OriginsFit([s \in Sources |-> FinalSize(s)],
                  { heap[o].origin : o \in Contained })
  BY <1>3, <1>11
<1>13. AnnotationsFit(DOMAIN table) <=>
       AnnotationsFit({ heap[o].id : o \in Contained })
  BY <1>2
<1> QED
  BY <1>2, <1>4, <1>9, <1>10, <1>12, <1>13 DEF Buildable

-----------------------------------------------------------------------------
(* The invariant holds                                                     *)

LEMMA InitInv == Init => IInv
BY DEF Init, IInv, TypeOK, Started, RootMet, AnswerInv

(* The state that goes with each outcome.                                  *)
LEMMA Begun ==
    ASSUME IInv, outcome \in {"declared", "visiting", "built"}
    PROVE  /\ Started /\ SourcesDistinct /\ heap \in Heaps /\ arguments \in Arguments
           /\ State(originals, table, sizes, stack)
BY DEF IInv, TypeOK, Started

LEMMA DeclareSourcesStep == ASSUME IInv, DeclareSources PROVE IInv'
<1>1. /\ outcome = "called" /\ originals = <<>> /\ table = <<>> /\ stack = <<>>
      /\ heap \in Heaps /\ arguments \in Arguments
      /\ UNCHANGED <<heap, arguments>>
  BY DEF IInv, TypeOK, Started, DeclareSources
<1>2. CASE ~ SourcesDistinct /\ Fail /\ UNCHANGED sizes
  <2>1. ~ Buildable
    BY <1>2 DEF Buildable
  <2> QED
    BY <1>1, <1>2, <2>1, SameProgram
       DEF Fail, IInv, TypeOK, Started, RootMet, AnswerInv
<1>3. CASE /\ SourcesDistinct /\ outcome' = "declared"
           /\ sizes' = [ s \in DOMAIN declared |->
                          IF declared[s].size = Nil THEN 0 ELSE declared[s].size ]
           /\ UNCHANGED <<originals, table, stack>>
  <2>1. /\ Originals(originals') /\ Calls(originals', table', stack')
        /\ Rows(originals', table', stack') /\ Fields(originals', sizes', stack')
    BY <1>1, <1>3 DEF Originals, Calls, Rows, Fields
  <2> PICK bounds : bounds = sizes'
    OBVIOUS
  <2>2. Sized(bounds)
    <3>1. /\ DOMAIN bounds = DOMAIN declared
          /\ bounds = [s \in DOMAIN bounds |-> bounds[s]]
          /\ \A s \in DOMAIN declared :
               bounds[s] = IF declared[s].size = Nil THEN 0 ELSE declared[s].size
      BY <1>3
    <3> QED
      BY <1>1, <3>1, DeclaredSizes DEF Sized, Fixed, Sources
  <2>3. State(originals', table', sizes', stack')
    BY <2>1, <2>2 DEF State
  <2>4. State(originals, table, sizes, stack)'
    BY <1>1, <2>3, SameState
  <2>5. SourcesDistinct'
    BY <1>1, <1>3, SameProgram
  <2> QED
    BY <1>1, <1>3, <2>4, <2>5 DEF IInv, TypeOK, Started, RootMet, AnswerInv
<1> QED
  BY <1>2, <1>3 DEF DeclareSources

(* A refused step.                                                         *)
LEMMA Refusal ==
    ASSUME IInv, Fail, UNCHANGED <<heap, arguments, sizes>>, ~ Buildable,
           outcome \in {"declared", "visiting"}
    PROVE  IInv'
<1>1. State(originals', table', sizes', stack') /\ SourcesDistinct
  BY Begun DEF Fail
<1>2. State(originals, table, sizes, stack)' /\ AnswerInv' /\ SourcesDistinct'
  BY <1>1, SameState, SameProgram DEF Fail, AnswerInv
<1> QED
  BY <1>2 DEF IInv, TypeOK, Started, RootMet, Fail

(* A step of an active visit that ends well.                               *)
LEMMA Progress ==
    ASSUME IInv, heap' = heap, arguments' = arguments, outcome' = "visiting",
           outcome \in {"declared", "visiting"},
           State(originals', table', sizes', stack'), Met(originals', Root)
    PROVE  IInv'
<1>1. SourcesDistinct'
  BY Begun, SameProgram
<1> QED
  BY <1>1, SameState DEF IInv, TypeOK, Started, RootMet, AnswerInv

LEMMA VisitRefusal ==
    ASSUME IInv, outcome \in {"declared", "visiting"}, NEW o \in Contained,
           \/ ~ heap[o].valid
           \/ /\ heap[o].id \in DOMAIN originals
              /\ ~ SameNode(originals[heap[o].id], o)
    PROVE  ~ Buildable
BY Begun DEF Buildable, State, Originals

LEMMA VisitRootStep == ASSUME IInv, VisitRoot PROVE IInv'
<1>1. /\ originals = <<>> /\ table = <<>> /\ stack = <<>> /\ heap \in Heaps
      /\ State(originals, table, sizes, <<>>) /\ outcome = "declared"
      /\ UNCHANGED <<heap, arguments, sizes>>
  BY Begun DEF IInv, TypeOK, VisitRoot
<1>2. Root \in Contained
  BY <1>1, ContainedClosed
<1>3. CASE ~ heap[Root].valid /\ Fail
  BY <1>1, <1>2, <1>3, Refusal, VisitRefusal
<1>4. CASE /\ heap[Root].valid
           /\ originals' = Put(originals, heap[Root].id, Root)
           /\ table' = Put(table, heap[Root].id, Placeholder)
           /\ stack' = Append(<<>>, [object |-> Root, left |-> DOMAIN heap[Root].fields])
           /\ outcome' = "visiting"
  <2>1. heap[Root].id \notin DOMAIN originals
    BY <1>1
  <2>2. State(originals', table', sizes, stack') /\ Met(originals', Root)
    BY <1>1, <1>2, <1>4, <2>1, NodeAdded
  <2> QED
    BY <1>1, <1>4, <2>2, Progress
<1> QED
  BY <1>1, <1>3, <1>4 DEF VisitRoot, Visit

(* The active call of a step.                                              *)
LEMMA TopCall ==
    ASSUME IInv, outcome = "visiting", stack # <<>>, NEW k \in Top.left
    PROVE  /\ Len(stack) \in DOMAIN stack /\ stack \in Seq(FrameSet)
           /\ heap \in Heaps /\ Top.object \in Contained
           /\ k \in DOMAIN heap[Top.object].fields
           /\ Callers(k) = Done(stack, Len(stack), k)
           /\ State(originals, table, sizes, stack) /\ Met(originals, Root)
<1>1. /\ Len(stack) \in DOMAIN stack /\ heap \in Heaps
      /\ State(originals, table, sizes, stack) /\ stack \in Seq(FrameSet)
  BY Begun DEF State, Calls
<1>2. Top.object \in Contained /\ k \in DOMAIN heap[Top.object].fields
  BY <1>1 DEF Top, State, Calls, Originals
<1> QED
  BY <1>1, <1>2 DEF Callers, Done, IInv, RootMet

LEMMA VisitFieldStep ==
    ASSUME IInv, outcome = "visiting", stack # <<>>, NEW k \in Top.left, VisitField(k)
    PROVE  IInv'
<1>1. /\ Len(stack) \in DOMAIN stack /\ stack \in Seq(FrameSet)
      /\ heap \in Heaps /\ Top.object \in Contained
      /\ k \in DOMAIN heap[Top.object].fields
      /\ Callers(k) = Done(stack, Len(stack), k)
      /\ State(originals, table, sizes, stack) /\ Met(originals, Root)
  BY TopCall
<1> PICK value, o : value = heap[Top.object].fields[k] /\ o = value.object
  OBVIOUS
<1>2. /\ value.tag = "node" /\ Visit(o, Callers(k))
      /\ UNCHANGED <<heap, arguments, sizes>>
  BY DEF VisitField
<1>3. o \in Contained
  BY <1>1, <1>2, ContainedClosed
<1>4. Sized(sizes)
  BY <1>1 DEF State
<1>5. \A s \in DOMAIN sizes : sizes[s] <= sizes[s]
  BY <1>4 DEF Sized
<1>6. CASE /\ ~ heap[o].valid \/ ( /\ heap[o].id \in DOMAIN originals
                                   /\ ~ SameNode(originals[heap[o].id], o) )
           /\ Fail
  BY <1>2, <1>3, <1>6, Refusal, VisitRefusal
<1>7. CASE /\ heap[o].id \in DOMAIN originals /\ SameNode(originals[heap[o].id], o)
           /\ stack' = Callers(k) /\ outcome' = "visiting"
           /\ UNCHANGED <<originals, table>>
  <2>1. Through(originals, sizes, value)
    BY <1>2, <1>7 DEF Through, Met
  <2>2. State(originals, table, sizes, Done(stack, Len(stack), k))
    BY <1>1, <1>4, <1>5, <2>1, FieldDone DEF Top
  <2>3. State(originals', table', sizes', stack') /\ Met(originals', Root)
    BY <1>1, <1>2, <1>7, <2>2
  <2> QED
    BY <1>2, <1>7, <2>3, Progress
<1>8. CASE /\ heap[o].valid /\ heap[o].id \notin DOMAIN originals
           /\ originals' = Put(originals, heap[o].id, o)
           /\ table' = Put(table, heap[o].id, Placeholder)
           /\ stack' = Append(Callers(k), [object |-> o, left |-> DOMAIN heap[o].fields])
           /\ outcome' = "visiting"
  <2> PICK call : call = [object |-> o, left |-> DOMAIN heap[o].fields]
    OBVIOUS
  <2> PICK nested : nested = Append(stack, call)
    OBVIOUS
  <2> PICK added, more : /\ added = Put(originals, heap[o].id, o)
                         /\ more = Put(table, heap[o].id, Placeholder)
    OBVIOUS
  <2>1. /\ State(added, more, sizes, nested) /\ Met(added, o) /\ Met(added, Root)
    BY <1>1, <1>3, <1>8, NodeAdded
  <2>2. call \in FrameSet
    BY <1>1, <1>3, ContainedClosed DEF FrameSet
  <2>3. Through(added, sizes, value)
    BY <1>2, <2>1 DEF Through
  <2>4. /\ Len(stack) \in DOMAIN nested /\ nested[Len(stack)] = Top
        /\ Done(nested, Len(stack), k) = Append(Done(stack, Len(stack), k), call)
    <3>1. /\ Len(stack) \in DOMAIN nested /\ nested[Len(stack)] = stack[Len(stack)]
          /\ Done(nested, Len(stack), k) = Append(Done(stack, Len(stack), k), call)
      <4> PICK n : n = Len(stack)
        OBVIOUS
      <4>1. n \in DOMAIN stack /\ stack \in Seq(FrameSet)
        BY <1>1
      <4>2. /\ n \in DOMAIN nested /\ nested[n] = stack[n]
            /\ Done(nested, n, k) = Append(Done(stack, n, k), call)
        <5>1. \A calls \in Seq(FrameSet) : \A j \in DOMAIN calls :
                \A c \in FrameSet : \A longer :
                  longer = Append(calls, c) =>
                    /\ j \in DOMAIN longer /\ longer[j] = calls[j]
                    /\ Done(longer, j, k) = Append(Done(calls, j, k), c)
          BY DoneBelow, Zenon
        <5>2. \A longer :
                  longer = Append(stack, call) =>
                    /\ n \in DOMAIN longer /\ longer[n] = stack[n]
                    /\ Done(longer, n, k) = Append(Done(stack, n, k), call)
          BY <2>2, <4>1, <5>1, Zenon
        <5> QED
          BY <5>2, Zenon
      <4> QED
        BY <4>2
    <3> QED
      BY <3>1 DEF Top
  <2>5. State(added, more, sizes, Done(nested, Len(stack), k))
    BY <1>1, <1>4, <1>5, <2>1, <2>3, <2>4, FieldDone
  <2>6. State(originals', table', sizes', stack') /\ Met(originals', Root)
    BY <1>1, <1>2, <1>8, <2>1, <2>4, <2>5
  <2> QED
    BY <1>2, <1>8, <2>6, Progress
<1> QED
  BY <1>2, <1>6, <1>7, <1>8 DEF Visit

(* A position makes its source as large as it has to be.                   *)
LEMMA SizeGrown ==
    ASSUME Sized(sizes), NEW s \in Sources, NEW n \in Nat, n \in Offsets(s),
           Fixed(s) => ~ (n > declared[s].size),
           NEW grown, grown = Put(sizes, s, MaxOf(SizeOf(s), n))
    PROVE  /\ Sized(grown) /\ DOMAIN sizes \subseteq DOMAIN grown
           /\ \A x \in DOMAIN sizes : sizes[x] <= grown[x]
           /\ s \in DOMAIN grown /\ n <= grown[s]
<1> PICK size, m : size = SizeOf(s) /\ m = MaxOf(size, n)
  OBVIOUS
<1>1. /\ sizes = [x \in DOMAIN sizes |-> sizes[x]]
      /\ DOMAIN declared \subseteq DOMAIN sizes /\ DOMAIN sizes \subseteq Sources
      /\ \A x \in DOMAIN sizes :
           /\ sizes[x] \in Nat
           /\ IF Fixed(x) THEN sizes[x] = declared[x].size
              ELSE sizes[x] \in Offsets(x) \cup {0}
  BY DEF Sized
<1>2. size = IF s \in DOMAIN sizes THEN sizes[s] ELSE 0
  BY DEF SizeOf
<1>3. size \in Nat /\ m = IF size >= n THEN size ELSE n
  BY <1>1, <1>2 DEF MaxOf
<1>4. m \in Nat /\ size <= m /\ n <= m
  BY <1>3
<1>5. /\ DOMAIN grown = DOMAIN sizes \cup {s} /\ grown[s] = m
      /\ grown = [x \in DOMAIN grown |-> grown[x]]
      /\ \A x \in DOMAIN sizes : x # s => grown[x] = sizes[x]
  BY DEF Put
<1>6. Fixed(s) => m = declared[s].size
  <2>1. SUFFICES ASSUME Fixed(s) PROVE m = declared[s].size
    OBVIOUS
  <2>2. s \in DOMAIN sizes /\ size = declared[s].size
    BY <1>1, <1>2, <2>1 DEF Fixed
  <2> QED
    BY <1>3, <2>1, <2>2
<1>7. ~ Fixed(s) => m \in Offsets(s) \cup {0}
  BY <1>1, <1>2, <1>3
<1>8. ASSUME NEW x \in DOMAIN grown
      PROVE  /\ grown[x] \in Nat
             /\ IF Fixed(x) THEN grown[x] = declared[x].size
                ELSE grown[x] \in Offsets(x) \cup {0}
  <2>1. CASE x = s
    BY <1>4, <1>5, <1>6, <1>7, <2>1
  <2>2. CASE x # s
    BY <1>1, <1>5, <2>2
  <2> QED
    BY <2>1, <2>2
<1>9. ASSUME NEW x \in DOMAIN sizes PROVE sizes[x] <= grown[x]
  <2>1. CASE x = s
    BY <1>2, <1>4, <1>5, <2>1
  <2>2. CASE x # s
    BY <1>1, <1>5, <2>2
  <2> QED
    BY <2>1, <2>2
<1>10. DOMAIN declared \subseteq DOMAIN grown /\ DOMAIN grown \subseteq Sources
  BY <1>1, <1>5
<1>11. Sized(grown)
  BY <1>5, <1>8, <1>10 DEF Sized
<1> QED
  BY <1>4, <1>5, <1>9, <1>11

LEMMA PositionFieldStep ==
    ASSUME IInv, outcome = "visiting", stack # <<>>, NEW k \in Top.left,
           PositionField(k)
    PROVE  IInv'
<1>1. /\ Len(stack) \in DOMAIN stack /\ stack \in Seq(FrameSet)
      /\ heap \in Heaps /\ Top.object \in Contained
      /\ k \in DOMAIN heap[Top.object].fields
      /\ Callers(k) = Done(stack, Len(stack), k)
      /\ State(originals, table, sizes, stack) /\ Met(originals, Root)
  BY TopCall
<1> PICK value, s : value = heap[Top.object].fields[k] /\ s = value.source
  OBVIOUS
<1>2. /\ value.tag = "position"
      /\ UNCHANGED <<heap, arguments>>
  BY DEF PositionField
<1>3. /\ value \in Positions /\ s \in Sources /\ value.offset \in Offsets(s)
      /\ value.offset \in Nat
  BY <1>1, <1>2, FieldForms, ContainedClosed DEF Positions, Sources, Offsets
<1>4. CASE TooFar(value) /\ Fail /\ UNCHANGED sizes
  <2>1. /\ Fixed(s) /\ value.offset > declared[s].size
        /\ FinalSize(s) = declared[s].size /\ declared[s].size \in Nat
    BY <1>4, Begun, DeclaredSizes DEF TooFar, Fixed, FinalSize
  <2>2. ASSUME Buildable PROVE value.offset <= FinalSize(s)
    BY <1>1, <1>2, <2>2 DEF Buildable
  <2>3. ~ Buildable
    BY <1>3, <2>1, <2>2
  <2> QED
    BY <1>2, <1>4, <2>3, Refusal
<1>5. CASE /\ ~ TooFar(value) /\ stack' = Callers(k)
           /\ sizes' = Put(sizes, s, MaxOf(SizeOf(s), value.offset))
           /\ UNCHANGED <<originals, table, outcome>>
  <2>1. Fixed(s) => ~ (value.offset > declared[s].size)
    BY <1>5 DEF Fixed, TooFar
  <2> PICK grown : grown = Put(sizes, s, MaxOf(SizeOf(s), value.offset))
    OBVIOUS
  <2>2. Sized(sizes)
    BY <1>1 DEF State
  <2>3. /\ Sized(grown) /\ DOMAIN sizes \subseteq DOMAIN grown
        /\ \A x \in DOMAIN sizes : sizes[x] <= grown[x]
        /\ s \in DOMAIN grown /\ value.offset <= grown[s]
    BY <1>3, <2>1, <2>2, SizeGrown
  <2>4. Through(originals, grown, value)
    BY <1>2, <2>3 DEF Through
  <2>5. State(originals, table, grown, Done(stack, Len(stack), k))
    BY <1>1, <2>3, <2>4, FieldDone DEF Top
  <2>6. State(originals', table', sizes', stack') /\ Met(originals', Root)
    BY <1>1, <1>5, <2>5
  <2> QED
    BY <1>2, <1>5, <2>6, Progress
<1> QED
  BY <1>2, <1>4, <1>5 DEF PositionField

LEMMA PlainFieldStep ==
    ASSUME IInv, outcome = "visiting", stack # <<>>, NEW k \in Top.left, PlainField(k)
    PROVE  IInv'
<1>1. /\ Len(stack) \in DOMAIN stack /\ stack \in Seq(FrameSet)
      /\ heap \in Heaps
      /\ Callers(k) = Done(stack, Len(stack), k)
      /\ State(originals, table, sizes, stack) /\ Met(originals, Root)
  BY TopCall
<1>2. Sized(sizes) /\ \A s \in DOMAIN sizes : sizes[s] <= sizes[s]
  BY <1>1 DEF State, Sized
<1>3. Through(originals, sizes, heap[Top.object].fields[k])
  BY DEF PlainField, Through
<1>4. State(originals, table, sizes, Done(stack, Len(stack), k))
  BY <1>1, <1>2, <1>3, FieldDone DEF Top
<1>5. State(originals', table', sizes', stack') /\ Met(originals', Root)
  BY <1>1, <1>4 DEF PlainField
<1> QED
  BY <1>5, Progress DEF PlainField

LEMMA FinishStep == ASSUME IInv, Finish PROVE IInv'
<1>1. /\ heap \in Heaps /\ Met(originals, Root) /\ stack # <<>>
      /\ State(originals, table, sizes, stack) /\ stack[Len(stack)].left = {}
  BY Begun DEF IInv, RootMet, Finish, Top
<1>2. State(originals, Put(table, heap[Top.object].id, RowOf(Top.object)), sizes,
            SubSeq(stack, 1, Len(stack) - 1))
  BY <1>1, CallDone DEF Top
<1>3. State(originals', table', sizes', stack') /\ Met(originals', Root)
  BY <1>1, <1>2 DEF Finish, RowOf
<1> QED
  BY <1>3, Progress DEF Finish

LEMMA DeliverStep == ASSUME IInv, Deliver PROVE IInv'
<1>1. /\ heap \in Heaps /\ Met(originals, Root) /\ stack = <<>>
      /\ State(originals, table, sizes, <<>>) /\ SourcesDistinct
  BY Begun DEF IInv, RootMet, Deliver
<1>2. outcome' = IF Buildable THEN "built" ELSE "error"
  BY <1>1, LastChecks DEF Deliver
<1>3. State(originals', table', sizes', stack') /\ Met(originals', Root)
  BY <1>1 DEF Deliver
<1>4. State(originals, table, sizes, stack)' /\ Met(originals, Root)'
  BY <1>3, SameState DEF Deliver
<1>5. AnswerInv' /\ SourcesDistinct'
  BY <1>1, <1>2, SameProgram DEF Deliver, AnswerInv
<1> QED
  BY <1>2, <1>4, <1>5 DEF IInv, TypeOK, Started, RootMet, Deliver

LEMMA StepInv == IInv /\ [Next]_vars => IInv'
<1> SUFFICES ASSUME IInv, [Next]_vars PROVE IInv'
  OBVIOUS
<1>1. CASE UNCHANGED vars
  <2>1. Started => State(originals', table', sizes', stack')
    BY <1>1 DEF vars, IInv
  <2>2. RootMet' /\ (Started' <=> Started) /\ (SourcesDistinct' <=> SourcesDistinct)
    BY <1>1, SameState, SameProgram DEF vars, IInv, RootMet, Started
  <2> QED
    BY <1>1, <2>1, <2>2, SameState, SameProgram DEF vars, IInv, TypeOK, AnswerInv
<1>6. CASE DeclareSources
  BY <1>6, DeclareSourcesStep
<1>2. CASE VisitRoot
  BY <1>2, VisitRootStep
<1>3. CASE Field
  <2>1. PICK k \in Top.left : VisitField(k) \/ PositionField(k) \/ PlainField(k)
    BY <1>3 DEF Field
  <2>2. outcome = "visiting" /\ stack # <<>>
    BY <1>3 DEF Field
  <2> QED
    BY <2>1, <2>2, VisitFieldStep, PositionFieldStep, PlainFieldStep
<1>4. CASE Finish
  BY <1>4, FinishStep
<1>5. CASE Deliver
  BY <1>5, DeliverStep
<1> QED
  BY <1>1, <1>2, <1>3, <1>4, <1>5, <1>6 DEF Next

THEOREM Invariance == Spec => []IInv
BY InitInv, StepInv, PTL DEF Spec

-----------------------------------------------------------------------------
(* The properties                                                          *)

(* visit sets the placeholder of an ID before it goes through the fields   *)
(* of its node and sets the row after them: at every moment the            *)
(* placeholders are the active calls', and all other rows are complete.    *)
THEOREM PlaceholdersAreActive == Spec => []RowsInProgress
<1>1. IInv => RowsInProgress
  <2>1. ASSUME IInv, Started PROVE RowsInProgress
    BY <2>1 DEF IInv, State, Calls, Rows, RowsInProgress
  <2>2. ASSUME IInv, ~ Started PROVE RowsInProgress
    BY <2>2 DEF IInv, TypeOK, RowsInProgress
  <2> QED
    BY <2>1, <2>2
<1> QED
  BY <1>1, Invariance, PTL

(* make-go-ast-unit keeps, of all nodes with one ID, the row of the first; *)
(* equal? has compared them, so the row is that of any node with the ID.   *)
THEOREM UnitSaysWhatNodesSay == Spec => []UnitIsCopy
<1>1. IInv => UnitIsCopy
  <2> SUFFICES ASSUME IInv, outcome = "built"
               PROVE  /\ DOMAIN table = { heap[o].id : o \in Contained }
                      /\ \A o \in Contained : table[heap[o].id] = RowOf(o)
    BY DEF UnitIsCopy
  <2>1. State(originals, table, sizes, <<>>) /\ heap \in Heaps /\ Met(originals, Root)
    BY Begun DEF IInv, RootMet, AnswerInv
  <2> QED
    BY <2>1, RowsAtEnd
<1> QED
  BY <1>1, Invariance, PTL

(* normalize-position raises the size of a source by the way; the size it  *)
(* has in the unit is the declared one or the largest offset in the nodes. *)
THEOREM SizesAreThoseOfTheNodes == Spec => []SizesAreFinal
<1>1. IInv => SizesAreFinal
  <2> SUFFICES ASSUME IInv, outcome = "built"
               PROVE  sizes = [s \in Sources |-> FinalSize(s)]
    BY DEF SizesAreFinal
  <2>1. State(originals, table, sizes, <<>>) /\ heap \in Heaps /\ Met(originals, Root)
    BY Begun DEF IInv, RootMet, AnswerInv
  <2> QED
    BY <2>1, SizesAtEnd
<1> QED
  BY <1>1, Invariance, PTL

(* visit takes note of an ID before it descends, so that an ID is being    *)
(* visited once at a time, on cyclic nodes too: the recursion ends.        *)
LEMMA CallsAreBounded ==
    ASSUME heap \in Heaps, NEW origs, NEW rows, NEW calls, Calls(origs, rows, calls),
           \A id \in DOMAIN origs : heap[origs[id]].id = id
    PROVE  Len(calls) <= Cardinality({ heap[o].id : o \in Objects })
<1> PICK n, ids : n = Len(calls) /\ ids = { heap[o].id : o \in Objects }
  OBVIOUS
<1>1. n \in Nat /\ DOMAIN calls = 1 .. n /\ calls \in Seq(FrameSet)
  BY DEF Calls
<1> PICK f : f = [j \in 1 .. n |-> heap[calls[j].object].id]
  OBVIOUS
<1>2. f \in Injection(1 .. n, ids)
  <2>1. ASSUME NEW j \in 1 .. n PROVE heap[calls[j].object].id \in ids
    <3>1. calls[j] \in FrameSet
      BY <1>1
    <3>2. calls[j].object \in Objects
      BY <3>1 DEF FrameSet
    <3> QED
      BY <3>2
  <2>2. f \in [1 .. n -> ids]
    BY <2>1
  <2>3. ASSUME NEW i \in 1 .. n, NEW j \in 1 .. n, f[i] = f[j] PROVE i = j
    <3>1. calls[i].object = calls[j].object
      BY <1>1, <2>3 DEF Calls
    <3> QED
      BY <1>1, <3>1 DEF Calls
  <2> QED
    BY <2>2, <2>3 DEF Injection, IsInjective
<1>3. IsFiniteSet(ids)
  <2>1. IsFiniteSet(Objects)
    BY HeapsAssumption DEF Objects
  <2> PICK g : g = [o \in Objects |-> heap[o].id]
    OBVIOUS
  <2>2. g \in Surjection(Objects, ids)
    <3>1. g \in [Objects -> ids] /\ \A id \in ids : \E o \in Objects : g[o] = id
      OBVIOUS
    <3> QED
      BY <3>1 DEF Surjection
  <2> QED
    BY <2>1, <2>2, FS_Surjection
<1>4. Cardinality(1 .. n) <= Cardinality(ids)
  BY <1>2, <1>3, FS_Injection
<1>5. Cardinality(1 .. n) = n
  <2>1. 1 \in Int /\ n \in Int
    BY <1>1
  <2>2. Cardinality(1 .. n) = IF 1 > n THEN 0 ELSE n - 1 + 1
    BY <2>1, FS_Interval
  <2> QED
    BY <1>1, <2>2
<1> QED
  BY <1>4, <1>5

(* No more calls of visit are active than there are IDs, whatever nodes    *)
(* hold each other.                                                        *)
THEOREM CyclesEnd == Spec => []DescentIsBounded
<1>1. IInv => DescentIsBounded
  <2>1. ASSUME IInv, Started PROVE DescentIsBounded
    BY <2>1, CallsAreBounded DEF IInv, TypeOK, State, Originals, DescentIsBounded
  <2>2. ASSUME IInv, ~ Started PROVE DescentIsBounded
    <3>1. stack = <<>> /\ heap \in Heaps
      BY <2>2 DEF IInv, TypeOK
    <3>2. Calls(<<>>, <<>>, stack)
      BY <3>1 DEF Calls
    <3>3. Len(stack) <= Cardinality({ heap[o].id : o \in Objects })
      BY <3>1, <3>2, CallsAreBounded
    <3> QED
      BY <3>3 DEF DescentIsBounded
  <2> QED
    BY <2>1, <2>2
<1> QED
  BY <1>1, Invariance, PTL

(* make-go-ast-unit stops at the first thing it finds wrong and checks     *)
(* references, positions, lines, origins, annotations and extensions last  *)
(* of all; whether it returns a unit does not depend on what it meets      *)
(* first.                                                                  *)
THEOREM BuildsWhatCanBeBuilt == Spec => []ErrorIsJustified
<1>1. IInv => ErrorIsJustified
  BY DEF IInv, AnswerInv, ErrorIsJustified
<1> QED
  BY <1>1, Invariance, PTL

-----------------------------------------------------------------------------
(* Where IDs come from: the counter never falls behind                     *)

CounterInv == CounterTypeOK /\ Reserved

(* Chosen IDs are IDs with a number.                                       *)
LEMMA ChosenIsNumeric == \A id \in Chosen : id \in Numeric /\ id.number \in Nat
BY NodeIdsAssumption DEF Chosen, Numeric

(* Each way to get an ID keeps the counter at or above the numbers in use. *)
LEMMA CounterStep == CounterInv /\ [CounterNext]_counterVars => CounterInv'
<1> SUFFICES ASSUME CounterInv, [CounterNext]_counterVars
             PROVE  CounterInv'
  OBVIOUS
<1> USE DEF CounterInv, CounterTypeOK, Reserved
<1>1. CASE Fresh
  <2>1. NextId \in Numeric /\ NextId.number = counter + 1
    BY DEF NextId, Numeric
  <2>2. counter' = counter + 1 /\ inUse' = inUse \cup {NextId} /\ stale' = stale
    BY <1>1 DEF Fresh
  <2>3. \A id \in inUse \cap Numeric : id.number \in Nat
    BY DEF Numeric
  <2> QED
    BY <2>1, <2>2, <2>3
<1>2. ASSUME NEW id \in Chosen, Reserve(id)
      PROVE  CounterInv'
  <2>1. id \in Numeric /\ id.number \in Nat
    BY ChosenIsNumeric
  <2>2. \A other \in inUse \cap Numeric : other.number \in Nat
    BY DEF Numeric
  <2> QED
    BY <1>2, <2>1, <2>2 DEF Reserve
<1>3. ASSUME NEW id \in Other, Keep(id)
      PROVE  CounterInv'
  <2>1. id \notin Numeric
    BY DEF Other, Numeric
  <2> QED
    BY <1>3, <2>1 DEF Keep
<1>4. CASE Reset
  BY <1>4 DEF Reset
<1>5. CASE UNCHANGED counterVars
  BY <1>5 DEF counterVars
<1> QED
  BY <1>1, <1>2, <1>3, <1>4, <1>5 DEF CounterNext

LEMMA CounterInvariance == CounterSpec => []CounterInv
<1>1. CounterInit => CounterInv
  BY DEF CounterInit, CounterInv, CounterTypeOK, Reserved
<1> QED
  BY <1>1, CounterStep, PTL DEF CounterSpec

(* The counter stays at or above every number in use.                      *)
THEOREM StaysReserved == CounterSpec => []Reserved
<1>1. CounterInv => Reserved
  BY DEF CounterInv
<1> QED
  BY <1>1, CounterInvariance, PTL

(* fresh-node-id never returns an ID in use.                               *)
THEOREM FreshIdsAreNew == CounterSpec => FreshIsNew
<1>1. CounterInv => NextId \notin inUse
  <2> SUFFICES ASSUME CounterInv, NextId \in inUse
               PROVE  FALSE
    OBVIOUS
  <2>1. NextId \in Numeric /\ NextId.number = counter + 1 /\ counter \in Nat
    BY DEF CounterInv, CounterTypeOK, NextId, Numeric
  <2>2. NextId.number <= counter
    BY <2>1 DEF CounterInv, Reserved
  <2> QED
    BY <2>1, <2>2
<1>2. CounterInv => [Fresh => NextId \notin inUse]_counterVars
  BY <1>1
<1> QED
  BY <1>2, CounterInvariance, PTL DEF FreshIsNew
=============================================================================
