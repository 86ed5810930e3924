-------------------------- MODULE AcyclicDfsProofs --------------------------
(***************************************************************************)
(* Partial correctness of the three-colour search, for every set of ids    *)
(* and every graph over it: it accepts only acyclic graphs, it rejects     *)
(* only cyclic ones, and so it implements the one-step decision of         *)
(* AcyclicCheck.  Termination is left to TLC.                              *)
(***************************************************************************)
EXTENDS AcyclicDfs, SequenceTheorems, TLAPS

(* The invariant of the proof: where the search is (SearchInv), and what   *)
(* its answer is worth once it is given.                                   *)
IInv == /\ TypeOK
        /\ SearchInv
        /\ AcceptedIsAcyclic
        /\ RejectedIsCyclic

-----------------------------------------------------------------------------

(* The references of a vertex are vertices.                                *)
LEMMA SuccessorsAreIds ==
    ASSUME TypeOK, NEW id \in Ids
    PROVE  /\ children[id] \in Seq(Ids)
           /\ Successors(children, id) \subseteq Ids
           /\ \A i \in DOMAIN children[id] : children[id][i] \in Ids
  BY GraphsAssumption DEF TypeOK, Successors

(* Type correctness of one step: no frame, colour or verdict outside its   *)
(* type is ever stored.                                                    *)
LEMMA TypeStep == TypeOK /\ [Next]_vars => TypeOK'
<1> SUFFICES ASSUME TypeOK, [Next]_vars
             PROVE  TypeOK'
  OBVIOUS
<1> USE DEF TypeOK, White, Grey, Black
<1>1. ASSUME NEW id \in Ids, NEW callers \in Seq(Frames), Visit(id, callers)
      PROVE  /\ colour' \in [Ids -> {White, Grey, Black}]
             /\ stack' \in Seq(Frames)
             /\ verdict' \in {"running", "ok", "cycle"}
  <2>1. [id |-> id, next |-> 1] \in Frames
    BY DEF Frames
  <2>2. Append(callers, [id |-> id, next |-> 1]) \in Seq(Frames)
    BY <2>1
  <2>3. CASE colour[id] = White
    BY <1>1, <2>2, <2>3 DEF Visit
  <2>4. CASE colour[id] # White
    BY <1>1, <2>4 DEF Visit
  <2> QED
    BY <2>3, <2>4
<1>2. ASSUME NEW id \in todo, VisitRoot(id)
      PROVE  TypeOK'
  BY <1>1, <1>2 DEF VisitRoot
<1>3. CASE VisitChild
  <2>1. Len(stack) \in DOMAIN stack /\ Top \in Frames
    BY <1>3 DEF VisitChild, Top
  <2>2. children[Top.id][Top.next] \in Ids
    BY <1>3, <2>1, SuccessorsAreIds DEF VisitChild, Frames
  <2>3. [stack EXCEPT ![Len(stack)].next = @ + 1] \in Seq(Frames)
    BY <2>1 DEF Top, Frames
  <2> QED
    BY <1>1, <1>3, <2>2, <2>3 DEF VisitChild
<1>4. CASE Finish
  <2>1. Len(stack) \in Nat /\ Len(stack) # 0 /\ Top \in Frames
    BY <1>4 DEF Finish, Top
  <2>2. SubSeq(stack, 1, Len(stack) - 1) \in Seq(Frames)
    BY <2>1, SubSeqProperties
  <2> QED
    BY <1>4, <2>1, <2>2 DEF Finish, Frames
<1>5. CASE Accept
  BY <1>5 DEF Accept
<1>6. CASE UNCHANGED vars
  BY <1>6 DEF vars
<1> QED
  BY <1>2, <1>3, <1>4, <1>5, <1>6 DEF Next

(* Every state of the search has its type.                                 *)
THEOREM TypeCorrect == Spec => []TypeOK
<1>1. Init => TypeOK
  BY DEF Init, TypeOK, White
<1> QED
  BY <1>1, TypeStep, PTL DEF Spec

-----------------------------------------------------------------------------

(* What holds of the black vertices depends on nothing else than which     *)
(* they are.                                                               *)
LEMMA SameBlackIsAcyclic ==
    ASSUME BlackIsAcyclic, TypeOK, children' = children,
           \A id \in Ids : colour'[id] = Black <=> colour[id] = Black
    PROVE  BlackIsAcyclic'
<1>1. \A id \in Ids : Successors(children, id) \subseteq Ids
  BY SuccessorsAreIds
<1>2. { id \in Ids : colour'[id] = Black } = { id \in Ids : colour[id] = Black }
  OBVIOUS
<1> QED
  BY <1>1, <1>2 DEF BlackIsAcyclic, Black

(* The search invariant survives a visit to a vertex not seen before: the  *)
(* new frame extends the path of active callers, and nothing becomes or    *)
(* stops being black.                                                      *)
LEMMA WhiteVisitKeepsSearchInv ==
    ASSUME TypeOK, SearchInv, verdict # "cycle",
           NEW id \in Ids, colour[id] = White,
           NEW n \in Nat, DOMAIN stack = 1 .. n, DOMAIN stack' = 1 .. n + 1,
           \A k \in 1 .. n :
               /\ stack'[k].id = stack[k].id
               /\ stack'[k].next = IF k = n THEN stack[k].next + 1 ELSE stack[k].next,
           stack'[n + 1].id = id, stack'[n + 1].next = 1,
           n # 0 => /\ stack[n].next \in DOMAIN children[stack[n].id]
                    /\ id = children[stack[n].id][stack[n].next],
           children' = children,
           colour' = [colour EXCEPT ![id] = Grey],
           todo \subseteq todo' \cup {id}
    PROVE  SearchInv'
<1> USE DEF White, Grey, Black
<1>1. /\ \A k \in 1 .. n : stack[k].id \in Ids /\ stack[k].next \in Nat \ {0}
      /\ \A k \in 1 .. n : stack[k].id # id
      /\ \A v \in Ids : v # id => colour'[v] = colour[v]
      /\ colour'[id] = Grey
  <2>1. \A k \in DOMAIN stack : stack[k] \in Frames
    BY DEF TypeOK
  <2>2. \A k \in 1 .. n : colour[stack[k].id] = Grey
    BY <2>1 DEF Frames, SearchInv, GreyPath
  <2>3. \A k \in 1 .. n : stack[k].id \in Ids /\ stack[k].next \in Nat \ {0}
    BY <2>1 DEF Frames
  <2>4. DOMAIN colour = Ids
    BY DEF TypeOK
  <2> QED
    BY <2>2, <2>3, <2>4
<1>b. /\ \A v \in Ids : colour[v] = Grey <=> \E k \in 1 .. n : stack[k].id = v
      /\ \A j, k \in 1 .. n : stack[j].id = stack[k].id => j = k
      /\ \A k \in 1 .. n : k + 1 \in 1 .. n =>
           stack[k + 1].id \in Successors(children, stack[k].id)
  BY DEF SearchInv, GreyPath
<1>c. 1 .. n + 1 = (1 .. n) \cup {n + 1} /\ n + 1 \notin 1 .. n
  OBVIOUS
<1>2. GreyPath'
  <2>1. ASSUME NEW v \in Ids
        PROVE  colour'[v] = Grey <=> \E k \in 1 .. n + 1 : stack'[k].id = v
    <3>1. CASE v = id
      BY <1>1, <3>1
    <3>2. CASE v # id
      <4>1. (\E k \in 1 .. n + 1 : stack'[k].id = v)
              <=> \E k \in 1 .. n : stack[k].id = v
        BY <1>c, <3>2
      <4> QED
        BY <1>1, <1>b, <3>2, <4>1
    <3> QED
      BY <3>1, <3>2
  <2>2. \A j, k \in 1 .. n + 1 : stack'[j].id = stack'[k].id => j = k
    BY <1>1, <1>b, <1>c, SMTT(40)
  <2>3. ASSUME NEW k \in 1 .. n + 1, k + 1 \in 1 .. n + 1
        PROVE  stack'[k + 1].id \in Successors(children, stack'[k].id)
    <3>1. CASE k = n
      <4>1. n # 0 /\ n \in 1 .. n /\ stack'[n].id = stack[n].id
        BY <3>1
      <4>2. id \in Successors(children, stack[n].id)
        BY <4>1 DEF Successors
      <4> QED
        BY <3>1, <4>1, <4>2
    <3>2. CASE k # n
      <4>1. k \in 1 .. n /\ k + 1 \in 1 .. n
        BY <2>3, <3>2
      <4> QED
        BY <1>b, <4>1
    <3> QED
      BY <3>1, <3>2
  <2> QED
    BY <2>1, <2>2, <2>3, SMTT(40) DEF GreyPath
<1>3. PassedIsFinished'
  <2>1. ASSUME NEW k \in 1 .. n + 1,
               NEW i \in DOMAIN children[stack'[k].id],
               i < stack'[k].next
        PROVE  \/ colour'[children[stack'[k].id][i]] = Black
               \/ /\ k + 1 \in 1 .. n + 1
                  /\ children[stack'[k].id][i] = stack'[k + 1].id
    <3>1. CASE k = n + 1
      BY <1>1, <2>1, <3>1, SuccessorsAreIds
    <3>2. CASE k \in 1 .. n
      <4> DEFINE child == children[stack[k].id][i]
      <4>1. /\ i \in DOMAIN children[stack[k].id] /\ i \in Nat
            /\ children[stack'[k].id][i] = child /\ child \in Ids
        BY <1>1, <3>2, SuccessorsAreIds
      <4> HIDE DEF child
      <4>2. CASE i < stack[k].next
        <5>1. \/ colour[child] = Black
              \/ k + 1 \in 1 .. n /\ child = stack[k + 1].id
          BY <3>2, <4>1, <4>2 DEF SearchInv, PassedIsFinished, child
        <5>2. colour[child] = Black => colour'[child] = Black
          BY <1>1, <4>1
        <5>3. k + 1 \in 1 .. n =>
                k + 1 \in 1 .. n + 1 /\ stack'[k + 1].id = stack[k + 1].id
          OBVIOUS
        <5> QED
          BY <4>1, <5>1, <5>2, <5>3
      <4>3. CASE ~ (i < stack[k].next)
        <5>1. k = n /\ i = stack[k].next
          BY <1>1, <2>1, <3>2, <4>1, <4>3
        <5>2. child = id
          BY <3>2, <5>1 DEF child
        <5> QED
          BY <4>1, <5>1, <5>2
      <4> QED
        BY <4>2, <4>3
    <3> QED
      BY <3>1, <3>2
  <2> HIDE DEF White, Grey, Black
  <2>2. PassedIsFinished' = \A k \in 1 .. n + 1 : \A i \in DOMAIN children[stack'[k].id] :
          i < stack'[k].next =>
            \/ colour'[children[stack'[k].id][i]] = Black'
            \/ /\ k + 1 \in 1 .. n + 1
               /\ children[stack'[k].id][i] = stack'[k + 1].id
    BY ZenonT(60) DEF PassedIsFinished
  <2> QED
    BY <2>1, <2>2 DEF Black
<1>4. BlackIsAcyclic'
  <2>1. \A v \in Ids : colour'[v] = Black <=> colour[v] = Black
    BY <1>1
  <2> HIDE DEF White, Grey, Black
  <2> QED
    BY <2>1, SameBlackIsAcyclic DEF SearchInv
<1>5. LeftIsSeen'
  BY <1>1 DEF SearchInv, LeftIsSeen
<1> QED
  BY <1>2, <1>3, <1>4, <1>5 DEF SearchInv

(* The search invariant survives a visit to a finished vertex: a caller    *)
(* moves past a child that is black.                                       *)
LEMMA BlackVisitKeepsSearchInv ==
    ASSUME TypeOK, SearchInv, verdict # "cycle",
           NEW id \in Ids, colour[id] = Black,
           NEW n \in Nat, DOMAIN stack = 1 .. n, DOMAIN stack' = 1 .. n,
           \A k \in 1 .. n :
               /\ stack'[k].id = stack[k].id
               /\ stack'[k].next = IF k = n THEN stack[k].next + 1 ELSE stack[k].next,
           n # 0 => /\ stack[n].next \in DOMAIN children[stack[n].id]
                    /\ id = children[stack[n].id][stack[n].next],
           children' = children, colour' = colour,
           todo \subseteq todo' \cup {id}
    PROVE  SearchInv'
<1>1. GreyPath'
  <2>1. GreyPath
    BY DEF SearchInv
  <2>2. \A k \in DOMAIN stack : k + 1 \in DOMAIN stack =>
          stack'[k + 1].id \in Successors(children, stack'[k].id)
    BY <2>1 DEF GreyPath
  <2> QED
    BY <2>1, <2>2 DEF GreyPath, Grey
<1>2. PassedIsFinished'
  <2>1. ASSUME NEW k \in 1 .. n,
               NEW i \in DOMAIN children[stack'[k].id],
               i < stack'[k].next
        PROVE  \/ colour[children[stack'[k].id][i]] = Black
               \/ /\ k + 1 \in 1 .. n
                  /\ children[stack'[k].id][i] = stack'[k + 1].id
    <3>1. stack[k] \in Frames
      BY DEF TypeOK
    <3>2. /\ stack'[k].id = stack[k].id /\ stack[k].id \in Ids
          /\ stack[k].next \in Nat /\ i \in Nat
      BY <2>1, <3>1, SuccessorsAreIds DEF Frames
    <3>3. CASE i < stack[k].next
      <4>1. \/ colour[children[stack[k].id][i]] = Black
            \/ k + 1 \in 1 .. n /\ children[stack[k].id][i] = stack[k + 1].id
        BY <3>2, <3>3 DEF SearchInv, PassedIsFinished
      <4> QED
        BY <3>2, <4>1
    <3>4. CASE ~ (i < stack[k].next)
      <4>1. k = n /\ i = stack[k].next
        BY <2>1, <3>2, <3>4
      <4> QED
        BY <3>2, <4>1
    <3> QED
      BY <3>3, <3>4
  <2>2. PassedIsFinished' = \A k \in 1 .. n : \A i \in DOMAIN children[stack'[k].id] :
          i < stack'[k].next =>
            \/ colour[children[stack'[k].id][i]] = Black
            \/ /\ k + 1 \in 1 .. n
               /\ children[stack'[k].id][i] = stack'[k + 1].id
    BY ZenonT(20) DEF PassedIsFinished, Black
  <2> QED
    BY <2>1, <2>2
<1>3. BlackIsAcyclic'
  BY SameBlackIsAcyclic DEF SearchInv
<1>4. LeftIsSeen'
  BY DEF SearchInv, LeftIsSeen, White, Black
<1> QED
  BY <1>1, <1>2, <1>3, <1>4 DEF SearchInv

(* The search invariant survives the return of a call: its vertex becomes  *)
(* black, all that it refers to is black already, and so no cycle can run  *)
(* through it.                                                             *)
LEMMA FinishKeepsSearchInv ==
    ASSUME TypeOK, SearchInv, verdict # "cycle",
           NEW n \in Nat, n # 0,
           DOMAIN stack = 1 .. n, DOMAIN stack' = 1 .. n - 1,
           \A k \in 1 .. n - 1 : stack'[k] = stack[k],
           stack[n].next \notin DOMAIN children[stack[n].id],
           colour' = [colour EXCEPT ![stack[n].id] = Black],
           children' = children, todo' = todo
    PROVE  SearchInv'
<1> DEFINE id == stack[n].id
<1> USE DEF White, Grey, Black
<1>1. /\ \A k \in 1 .. n : stack[k].id \in Ids /\ stack[k].next \in Nat \ {0}
      /\ \A j, k \in 1 .. n : stack[j].id = stack[k].id => j = k
      /\ \A v \in Ids : colour[v] = Grey <=> \E k \in 1 .. n : stack[k].id = v
      /\ \A k \in 1 .. n : k + 1 \in 1 .. n =>
           stack[k + 1].id \in Successors(children, stack[k].id)
  <2>1. \A k \in DOMAIN stack : stack[k] \in Frames
    BY DEF TypeOK
  <2> QED
    BY <2>1 DEF Frames, SearchInv, GreyPath
<1>2. 1 .. n = (1 .. n - 1) \cup {n} /\ n \notin 1 .. n - 1
  OBVIOUS
<1>3. /\ id \in Ids
      /\ \A v \in Ids : v # id => colour'[v] = colour[v]
      /\ colour'[id] = Black /\ colour[id] = Grey
  BY <1>1 DEF TypeOK
<1> HIDE DEF id
<1>4. GreyPath'
  <2>1. ASSUME NEW v \in Ids
        PROVE  colour'[v] = Grey <=> \E k \in 1 .. n - 1 : stack'[k].id = v
    <3>1. CASE v = id
      BY <1>1, <1>2, <1>3, <3>1 DEF id
    <3>2. CASE v # id
      <4>1. (\E k \in 1 .. n - 1 : stack'[k].id = v)
              <=> \E k \in 1 .. n : stack[k].id = v
        BY <1>2, <3>2 DEF id
      <4> QED
        BY <1>1, <1>3, <3>2, <4>1
    <3> QED
      BY <3>1, <3>2
  <2>2. \A j, k \in 1 .. n - 1 : stack'[j].id = stack'[k].id => j = k
    BY <1>1, <1>2
  <2>3. \A k \in 1 .. n - 1 : k + 1 \in 1 .. n - 1 =>
          stack'[k + 1].id \in Successors(children, stack'[k].id)
    BY <1>1, <1>2
  <2> HIDE DEF White, Grey, Black
  <2> QED
    BY <2>1, <2>2, <2>3 DEF GreyPath, Grey
<1>5. \A i \in DOMAIN children[id] :
        children[id][i] \in Ids /\ colour[children[id][i]] = Black
  <2>1. children[id] \in Seq(Ids) /\ stack[n].next \in Nat \ {0} /\ id = stack[n].id
    BY <1>1, <1>3, SuccessorsAreIds DEF id
  <2>2. \A i \in DOMAIN children[id] : i < stack[n].next /\ children[id][i] \in Ids
    BY <2>1
  <2> QED
    BY <2>1, <2>2 DEF SearchInv, PassedIsFinished
<1>6. PassedIsFinished'
  <2>1. ASSUME NEW k \in 1 .. n - 1,
               NEW i \in DOMAIN children[stack[k].id],
               i < stack[k].next
        PROVE  \/ colour'[children[stack[k].id][i]] = Black
               \/ /\ k + 1 \in 1 .. n - 1
                  /\ children[stack[k].id][i] = stack[k + 1].id
    <3>1. children[stack[k].id][i] \in Ids /\ k \in 1 .. n
      BY <1>1, SuccessorsAreIds
    <3>2. \/ colour[children[stack[k].id][i]] = Black
          \/ k + 1 \in 1 .. n /\ children[stack[k].id][i] = stack[k + 1].id
      BY <2>1, <3>1 DEF SearchInv, PassedIsFinished
    <3>3. k + 1 \in 1 .. n => k + 1 \in 1 .. n - 1 \/ k + 1 = n
      OBVIOUS
    <3> QED
      BY <1>3, <3>1, <3>2, <3>3 DEF id
  <2> HIDE DEF White, Grey, Black
  <2>2. PassedIsFinished' = \A k \in 1 .. n - 1 : \A i \in DOMAIN children[stack'[k].id] :
          i < stack'[k].next =>
            \/ colour'[children[stack'[k].id][i]] = Black
            \/ /\ k + 1 \in 1 .. n - 1
               /\ children[stack'[k].id][i] = stack'[k + 1].id
    BY ZenonT(60) DEF PassedIsFinished, Black
  <2>3. \A k \in 1 .. n - 1 : k + 1 \in 1 .. n - 1 => stack'[k + 1] = stack[k + 1]
    OBVIOUS
  <2> QED
    BY <2>1, <2>2, <2>3
<1>7. BlackIsAcyclic'
  <2>1. \A v \in Ids : colour'[v] = Black <=> colour[v] = Black \/ v = id
    BY <1>3
  <2>2. \A v \in Ids : colour[v] = Black =>
          \A child \in Successors(children, v) : colour[child] = Black
    BY DEF SearchInv, BlackIsAcyclic
  <2>3. \A child \in Successors(children, id) : child \in Ids /\ colour[child] = Black
    BY <1>5 DEF Successors
  <2>4. \A v \in Ids : Successors(children, v) \subseteq Ids
    BY SuccessorsAreIds
  <2>5. \A v \in Ids : colour'[v] = Black =>
          \A child \in Successors(children, v) : colour'[child] = Black
    BY <2>1, <2>2, <2>3, <2>4
  <2>6. ASSUME NEW S \in SUBSET { v \in Ids : colour'[v] = Black }, S # {}
        PROVE  ~ Sinkless(children, S)
    <3> DEFINE old == S \ {id}
    <3>1. old \in SUBSET { v \in Ids : colour[v] = Black }
      BY <2>1
    <3>2. CASE old = {}
      <4>1. S = {id} /\ id \notin Successors(children, id)
        BY <1>3, <2>3, <2>6, <3>2
      <4> QED
        BY <4>1 DEF Sinkless
    <3>3. CASE old # {}
      <4>1. PICK v \in old : Successors(children, v) \cap old = {}
        BY <3>1, <3>3 DEF SearchInv, BlackIsAcyclic, Sinkless
      <4>2. id \notin Successors(children, v)
        BY <1>3, <2>2, <3>1, <4>1
      <4> QED
        BY <4>1, <4>2 DEF Sinkless
    <3> QED
      BY <3>2, <3>3
  <2> HIDE DEF White, Grey, Black
  <2> QED
    BY <2>5, <2>6 DEF BlackIsAcyclic, Black
<1>8. LeftIsSeen'
  BY <1>3 DEF SearchInv, LeftIsSeen
<1> QED
  BY <1>4, <1>6, <1>7, <1>8 DEF SearchInv

-----------------------------------------------------------------------------

(* Meeting an active vertex closes a cycle: the callers from that vertex   *)
(* on each refer to the next one, and the innermost refers back to it.     *)
LEMMA GreyChildClosesCycle ==
    ASSUME TypeOK, GreyPath, stack # <<>>,
           Top.next \in DOMAIN children[Top.id],
           colour[children[Top.id][Top.next]] = Grey
    PROVE  ~ Acyclic(children)
<1> DEFINE n == Len(stack)
<1> DEFINE child == children[Top.id][Top.next]
<1>1. /\ n \in Nat \ {0} /\ DOMAIN stack = 1 .. n /\ Top = stack[n]
      /\ \A k \in 1 .. n : stack[k] \in Frames /\ stack[k].id \in Ids
  <2>1. n \in Nat /\ n # 0 /\ DOMAIN stack = 1 .. n /\ Top = stack[n]
    BY DEF TypeOK, Top
  <2>2. \A k \in 1 .. n : stack[k] \in Frames
    BY <2>1 DEF TypeOK
  <2> HIDE DEF n
  <2> QED
    BY <2>1, <2>2 DEF Frames
<1>2. child \in Ids /\ child \in Successors(children, stack[n].id)
  BY <1>1, SuccessorsAreIds DEF Successors
<1>3. DOMAIN children = Ids
  BY GraphsAssumption DEF TypeOK
<1> HIDE DEF n, child
<1>4. PICK j \in 1 .. n : stack[j].id = child
  BY <1>1, <1>2 DEF GreyPath, child
<1> DEFINE S == { stack[k].id : k \in j .. n }
<1>5. S \subseteq Ids /\ child \in S
  BY <1>1, <1>4
<1>6. ASSUME NEW k \in j .. n
      PROVE  Successors(children, stack[k].id) \cap S # {}
  <2>1. CASE k = n
    BY <1>2, <1>5, <2>1
  <2>2. CASE k # n
    <3>1. k \in 1 .. n /\ k + 1 \in 1 .. n /\ k + 1 \in j .. n
      BY <1>1, <1>4, <2>2
    <3>2. stack[k + 1].id \in Successors(children, stack[k].id)
      BY <1>1, <3>1 DEF GreyPath
    <3> QED
      BY <3>1, <3>2
  <2> QED
    BY <2>1, <2>2
<1> QED
  BY <1>3, <1>5, <1>6, ZenonT(60) DEF Acyclic, Sinkless

(* Once the outer loop is through, every vertex is black.                  *)
LEMMA AllVisitedIsAcyclic ==
    ASSUME TypeOK, SearchInv, verdict # "cycle", stack = <<>>, todo = {}
    PROVE  Acyclic(children)
<1>1. DOMAIN children = Ids
  BY GraphsAssumption DEF TypeOK
<1>2. \A id \in Ids : colour[id] = Black
  <2>1. DOMAIN stack = {}
    OBVIOUS
  <2> QED
    BY <2>1 DEF TypeOK, SearchInv, GreyPath, LeftIsSeen, White, Grey, Black
<1> QED
  BY <1>1, <1>2 DEF SearchInv, BlackIsAcyclic, Acyclic

(* IInv is inductive.                                                      *)
LEMMA InvStep == IInv /\ [Next]_vars => IInv'
<1> SUFFICES ASSUME IInv, [Next]_vars
             PROVE  IInv'
  OBVIOUS
<1>1. TypeOK /\ TypeOK'
  BY TypeStep DEF IInv
<1>2. SearchInv /\ AcceptedIsAcyclic /\ RejectedIsCyclic
  BY DEF IInv
<1>3. stack \in Seq(Frames) /\ Len(stack) \in Nat /\ DOMAIN stack = 1 .. Len(stack)
  BY <1>1 DEF TypeOK
<1>4. ASSUME NEW id \in todo, VisitRoot(id)
      PROVE  SearchInv' /\ AcceptedIsAcyclic' /\ RejectedIsCyclic'
  <2>1. /\ id \in Ids /\ verdict = "running" /\ stack = <<>>
        /\ todo' = todo \ {id} /\ children' = children
    BY <1>1, <1>4 DEF VisitRoot, TypeOK
  <2>2. CASE colour[id] = Grey
    <3>1. DOMAIN stack = {}
      BY <2>1
    <3> QED
      BY <1>2, <2>1, <2>2, <3>1 DEF SearchInv, GreyPath
  <2>3. CASE colour[id] = Black
    <3>1. stack' = <<>> /\ colour' = colour /\ verdict' = verdict
      BY <1>4, <2>3 DEF VisitRoot, Visit, White, Grey, Black
    <3>2. DOMAIN stack = 1 .. 0 /\ DOMAIN stack' = 1 .. 0
      BY <2>1, <3>1
    <3>3. SearchInv'
      BY <1>1, <1>2, <2>1, <2>3, <3>1, <3>2, BlackVisitKeepsSearchInv
    <3> QED
      BY <2>1, <3>1, <3>3 DEF AcceptedIsAcyclic, RejectedIsCyclic
  <2>4. CASE colour[id] = White
    <3>1. /\ stack' = Append(<<>>, [id |-> id, next |-> 1])
          /\ colour' = [colour EXCEPT ![id] = Grey] /\ verdict' = verdict
      BY <1>4, <2>4 DEF VisitRoot, Visit, White, Grey, Black
    <3>2. /\ DOMAIN stack = 1 .. 0 /\ DOMAIN stack' = 1 .. 0 + 1
          /\ stack'[0 + 1].id = id /\ stack'[0 + 1].next = 1
      BY <2>1, <3>1
    <3>3. \A k \in 1 .. 0 :
            /\ stack'[k].id = stack[k].id
            /\ stack'[k].next = IF k = 0 THEN stack[k].next + 1 ELSE stack[k].next
      OBVIOUS
    <3>4. todo \subseteq todo' \cup {id} /\ verdict # "cycle" /\ 0 \in Nat
      BY <2>1
    <3>5. SearchInv'
      BY ONLY <1>1, <1>2, <2>1, <2>4, <3>1, <3>2, <3>3, <3>4,
              WhiteVisitKeepsSearchInv
    <3> QED
      BY <2>1, <3>1, <3>5 DEF AcceptedIsAcyclic, RejectedIsCyclic
  <2> QED
    BY <1>1, <2>1, <2>2, <2>3, <2>4 DEF TypeOK
<1>5. CASE VisitChild
  <2> DEFINE n == Len(stack)
  <2> DEFINE child == children[Top.id][Top.next]
  <2> DEFINE advanced == [stack EXCEPT ![Len(stack)].next = @ + 1]
  <2>1. /\ verdict = "running" /\ stack # <<>>
        /\ Top.next \in DOMAIN children[Top.id]
        /\ Visit(child, advanced)
        /\ children' = children /\ todo' = todo
    BY <1>5 DEF VisitChild
  <2>2. /\ n \in Nat /\ n # 0 /\ DOMAIN stack = 1 .. n
        /\ n \in DOMAIN stack /\ Top = stack[n] /\ Top \in Frames
    BY <1>3, <2>1 DEF Top
  <2>3. child \in Ids
    BY <1>1, <2>1, <2>2, SuccessorsAreIds DEF Frames
  <2>4. /\ advanced \in Seq(Frames) /\ Len(advanced) = n /\ DOMAIN advanced = 1 .. n
        /\ \A k \in 1 .. n :
             /\ advanced[k].id = stack[k].id
             /\ advanced[k].next = IF k = n THEN stack[k].next + 1
                                   ELSE stack[k].next
    BY <1>3, <2>2 DEF Top, Frames
  <2> HIDE DEF n, advanced, child
  <2>5. n # 0 => /\ stack[n].next \in DOMAIN children[stack[n].id]
                 /\ child = children[stack[n].id][stack[n].next]
    BY <2>1, <2>2 DEF child
  <2>6. CASE colour[child] = Grey
    <3>1. verdict' = "cycle"
      BY <2>1, <2>6 DEF Visit, White, Grey, Black
    <3>2. ~ Acyclic(children)
      BY <1>1, <1>2, <2>1, <2>6, GreyChildClosesCycle DEF SearchInv, child
    <3> QED
      BY <1>1, <2>1, <3>1, <3>2 DEF IInv, SearchInv, AcceptedIsAcyclic, RejectedIsCyclic
  <2>7. CASE colour[child] = Black
    <3>1. stack' = advanced /\ colour' = colour /\ verdict' = verdict
      BY <2>1, <2>7 DEF Visit, White, Grey, Black
    <3>2. SearchInv'
      BY <1>1, <1>2, <2>1, <2>2, <2>3, <2>4, <2>5, <2>7, <3>1,
         BlackVisitKeepsSearchInv
    <3> QED
      BY <1>1, <2>1, <3>1, <3>2 DEF IInv, AcceptedIsAcyclic, RejectedIsCyclic
  <2>8. CASE colour[child] = White
    <3>1. /\ stack' = Append(advanced, [id |-> child, next |-> 1])
          /\ colour' = [colour EXCEPT ![child] = Grey] /\ verdict' = verdict
      BY <2>1, <2>8 DEF Visit, White, Grey, Black
    <3>2. [id |-> child, next |-> 1] \in Frames
      BY <2>3 DEF Frames
    <3>3. /\ DOMAIN stack' = 1 .. n + 1
          /\ \A k \in 1 .. n : stack'[k] = advanced[k]
          /\ stack'[n + 1] = [id |-> child, next |-> 1]
      BY <2>2, <2>4, <3>1, <3>2
    <3>4. /\ \A k \in 1 .. n :
               /\ stack'[k].id = stack[k].id
               /\ stack'[k].next = IF k = n THEN stack[k].next + 1
                                   ELSE stack[k].next
          /\ stack'[n + 1].id = child /\ stack'[n + 1].next = 1
      BY <2>4, <3>3
    <3>5. SearchInv'
      BY <1>1, <1>2, <2>1, <2>2, <2>3, <2>5, <2>8, <3>1, <3>3, <3>4,
         WhiteVisitKeepsSearchInv
    <3> QED
      BY <1>1, <2>1, <3>1, <3>5 DEF IInv, AcceptedIsAcyclic, RejectedIsCyclic
  <2> QED
    BY <1>1, <2>3, <2>6, <2>7, <2>8 DEF TypeOK
<1>6. CASE Finish
  <2> DEFINE n == Len(stack)
  <2>1. /\ verdict = "running" /\ verdict' = verdict /\ children' = children
        /\ todo' = todo /\ n \in Nat /\ n # 0 /\ DOMAIN stack = 1 .. n
        /\ stack[n].next \notin DOMAIN children[stack[n].id]
        /\ colour' = [colour EXCEPT ![stack[n].id] = Black]
        /\ stack' = SubSeq(stack, 1, n - 1)
    BY <1>3, <1>6 DEF Finish, Top
  <2>2. DOMAIN stack' = 1 .. n - 1 /\ \A k \in 1 .. n - 1 : stack'[k] = stack[k]
    <3>1. stack \in Seq(Frames) /\ 1 \in 1 .. n + 1 /\ n - 1 \in 0 .. n
      BY <1>3, <2>1
    <3> QED
      BY <2>1, <3>1, SubSeqProperties
  <2> HIDE DEF n
  <2>3. SearchInv'
    BY <1>1, <1>2, <2>1, <2>2, FinishKeepsSearchInv
  <2> QED
    BY <1>1, <2>1, <2>3 DEF IInv, AcceptedIsAcyclic, RejectedIsCyclic
<1>7. CASE Accept
  <2>1. /\ verdict = "running" /\ verdict' = "ok" /\ stack = <<>> /\ todo = {}
        /\ children' = children /\ colour' = colour
        /\ stack' = stack /\ todo' = todo
    BY <1>7 DEF Accept
  <2>2. Acyclic(children)
    BY <1>1, <1>2, <2>1, AllVisitedIsAcyclic
  <2>3. SearchInv'
    BY <1>2, <2>1 DEF SearchInv, GreyPath, PassedIsFinished, BlackIsAcyclic,
                      LeftIsSeen, White, Grey, Black
  <2> QED
    BY <1>1, <2>1, <2>2, <2>3 DEF IInv, AcceptedIsAcyclic, RejectedIsCyclic
<1>8. CASE UNCHANGED vars
  BY <1>1, <1>2, <1>8 DEF vars, IInv, SearchInv, GreyPath, PassedIsFinished, BlackIsAcyclic,
                    LeftIsSeen, AcceptedIsAcyclic, RejectedIsCyclic,
                    White, Grey, Black
<1> QED
  BY <1>1, <1>4, <1>5, <1>6, <1>7, <1>8 DEF Next, IInv

(* Before the search nothing is coloured and nothing is active.            *)
LEMMA InvInit == Init => IInv
<1> SUFFICES ASSUME Init PROVE IInv
  OBVIOUS
<1>1. TypeOK
  BY DEF Init, TypeOK, White
<1>2. DOMAIN stack = {} /\ \A id \in Ids : colour[id] = White /\ id \in todo
  BY DEF Init
<1>3. SearchInv
  <2>1. { id \in Ids : colour[id] = Black } = {}
    BY <1>2 DEF White, Black
  <2> QED
    BY <1>2, <2>1 DEF SearchInv, GreyPath, PassedIsFinished, BlackIsAcyclic,
                      LeftIsSeen, White, Grey, Black
<1> QED
  BY <1>1, <1>3 DEF IInv, Init, AcceptedIsAcyclic, RejectedIsCyclic

(* In every state of the search, finished or not, IInv holds.              *)
THEOREM Invariance == Spec => []IInv
  BY InvInit, InvStep, PTL DEF Spec

(* In the middle of the search, whatever the graph: the active calls form  *)
(* a path of grey vertices, and from a black vertex no cycle is reached.   *)
THEOREM SearchIsSound == Spec => []SearchInv
<1>1. IInv => SearchInv
  BY DEF IInv
<1> QED
  BY <1>1, Invariance, PTL

(* What is accepted is acyclic and what is rejected is not, whatever the   *)
(* graph and the order of the outer loop.                                  *)
THEOREM AcceptsOnlyAcyclic == Spec => []AcceptedIsAcyclic
<1>1. IInv => AcceptedIsAcyclic
  BY DEF IInv
<1> QED
  BY <1>1, Invariance, PTL

THEOREM RejectsOnlyCyclic == Spec => []RejectedIsCyclic
<1>1. IInv => RejectedIsCyclic
  BY DEF IInv
<1> QED
  BY <1>1, Invariance, PTL

(* The search implements the one-step decision: every step that gives the  *)
(* answer is Decide, and every other step leaves graph and answer alone.   *)
THEOREM DfsDecides == Spec => Decides
<1>1. Init => Check!Init
  BY DEF Init, Check!Init
<1>2. IInv /\ IInv' /\ [Next]_vars => [Check!Decide]_<<children, verdict>>
  <2> SUFFICES ASSUME IInv, IInv', [Next]_vars
               PROVE  [Check!Decide]_<<children, verdict>>
    OBVIOUS
  <2>1. Check!Acyclic(children) <=> Acyclic(children)
    BY DEF Check!Acyclic, Acyclic, Check!Sinkless, Sinkless,
           Check!Successors, Successors
  <2>2. ASSUME NEW id \in todo, VisitRoot(id)
        PROVE  /\ children' = children /\ verdict = "running"
               /\ verdict' = verdict \/ verdict' = "cycle"
    BY <2>2 DEF VisitRoot, Visit
  <2>3. CASE VisitChild
    <3>1. /\ children' = children /\ verdict = "running"
          /\ verdict' = verdict \/ verdict' = "cycle"
      BY <2>3 DEF VisitChild, Visit
    <3> QED
      BY <2>1, <3>1 DEF Check!Decide, IInv, RejectedIsCyclic
  <2>4. CASE Finish
    BY <2>4 DEF Finish
  <2>5. CASE Accept
    BY <2>1, <2>5 DEF Accept, Check!Decide, IInv, AcceptedIsAcyclic
  <2>6. CASE UNCHANGED vars
    BY <2>6 DEF vars
  <2>7. ASSUME NEW id \in todo, VisitRoot(id)
        PROVE  [Check!Decide]_<<children, verdict>>
    BY <2>1, <2>2, <2>7 DEF Check!Decide, IInv, RejectedIsCyclic
  <2> QED
    BY <2>3, <2>4, <2>5, <2>6, <2>7 DEF Next
<1> QED
  BY <1>1, <1>2, Invariance, PTL DEF Spec, Decides, Check!Spec
=============================================================================
