----------------------------- MODULE CodecProofs ----------------------------
(***************************************************************************)
(* The encoding in progress and the way of its unit through the bridge,    *)
(* for all heaps, FileSets and schemas.                                    *)
(*                                                                         *)
(* No property of Codec is inductive; four invariants together are:        *)
(*   IInv      the tables so far.  IDs, written fields and sources only    *)
(*             grow, and an object is entered once, so the rows of the     *)
(*             callers are not touched before it is their turn again;      *)
(*   MetInv    whatever has an ID can be reached from the root.  When no   *)
(*             call is active the converse follows: the objects with an ID *)
(*             are closed under the references of their fields;            *)
(*   FaultInv  an error has its reason in the arguments.  Because the IDs  *)
(*             rename the objects one to one, rows and sources are as many *)
(*             as the arguments say, and the validator finds a cycle in    *)
(*             the rows exactly when there is one in the heap;             *)
(*   SentInv   once the document is written nothing encodes any more, and  *)
(*             the decoding is one of DecoderProofs, of this document.     *)
(* That the decoded nodes are those of the heap then follows at the end,   *)
(* field by field.  That the files fit below MaxInt again is counting: the *)
(* base of a file without gaps is one more than the number of positions of *)
(* the files before it, which all lie in the FileSet that was encoded.     *)
(***************************************************************************)
EXTENDS Codec, FiniteSetTheorems, TLAPS

-----------------------------------------------------------------------------
(* The form of the encoder's tables                                        *)

Origins == UNION { { input.heap[o].origin : o \in Objects } : input \in Inputs }
Files   == UNION { DOMAIN input.fset : input \in Inputs }
Lines   == {Nil} \cup UNION { { input.fset[f].lines : f \in DOMAIN input.fset } :
                               input \in Inputs }

WireValues == {Null} \cup { Scalar(v) : v \in Registered }
              \cup [tag : {"ref", "refs"}, ids : Seq(Nat)]
              \cup { At(k, n) : k \in Nat, n \in Int }

RowSet    == [id : Nat, kind : DOMAIN KindFields, origin : Origins,
              fields : Seq(WireValues)]
SourceSet == [id : Nat, file : Files, size : Nat, lines : Lines]
FrameSet  == [object : Objects, refs : Seq(Nat)]

Arguments == \E input \in Inputs : /\ heap = input.heap
                                   /\ root = input.root
                                   /\ fset = input.fset
                                   /\ options = input.options

TypeOK == /\ Arguments
          /\ DOMAIN ids \subseteq Objects
          /\ rows \in Seq(RowSet)
          /\ sources \in Seq(SourceSet)
          /\ stack \in Seq(FrameSet)
          /\ outcome \in {"called", "encoding", "encoded", "error"}

-----------------------------------------------------------------------------
(* The inductive invariant                                                 *)

Specs(o)   == KindFields[heap[o].kind]
Written(o) == rows[ids[o]].fields

(* The field a call of encodeNode has come to.                             *)
Current(o) == heap[o].fields[Len(Written(o)) + 1]

(* Represents, of given tables.                                            *)
Stands(wire, value, I, S, F) ==
    IF HasRefs(value)
    THEN /\ SeqRange(value.ids) \subseteq DOMAIN I
         /\ wire = [value EXCEPT !.ids = [i \in DOMAIN @ |-> I[@[i]]]]
    ELSE IF value.tag = "pos" /\ value.pos # NoPos
    THEN \E k \in DOMAIN S : /\ F[S[k].file].base + wire.offset = value.pos
                             /\ wire = At(k, wire.offset)
                             /\ wire.offset \in 0 .. S[k].size
    ELSE wire = IF value.tag = "pos" THEN Null ELSE value

RowsInv ==
    \A o \in DOMAIN ids :
        /\ Len(Written(o)) <= Len(Specs(o))
        /\ \A k \in DOMAIN Written(o) :
             Stands(Written(o)[k], heap[o].fields[k], ids, sources, fset)
        /\ \/ Len(Written(o)) = Len(Specs(o))
           \/ \E k \in DOMAIN stack : stack[k].object = o

InProgress(o) == Len(Written(o)) < Len(Specs(o))

(* What a call has gathered are the IDs of the first children.             *)
Gathers(refs, value, I) ==
    /\ HasRefs(value)
    /\ Len(refs) <= Len(value.ids)
    /\ \A i \in DOMAIN refs : value.ids[i] \in DOMAIN I /\ refs[i] = I[value.ids[i]]

(* The child whose ID a call needs next.                                   *)
Awaits(refs, value, I, child) ==
    /\ Gathers(refs, value, I)
    /\ Len(refs) < Len(value.ids)
    /\ child = value.ids[Len(refs) + 1]

StackInv ==
    /\ \A k \in DOMAIN stack : stack[k].object \in DOMAIN ids
    /\ \A j, k \in DOMAIN stack : stack[j].object = stack[k].object => j = k
    /\ \A k \in DOMAIN stack :
         k < Len(stack) =>
            /\ InProgress(stack[k].object)
            /\ Awaits(stack[k].refs, Current(stack[k].object), ids,
                      stack[k + 1].object)
    /\ stack # <<>> /\ Top.refs # <<>> =>
         /\ InProgress(Top.object)
         /\ Gathers(Top.refs, Current(Top.object), ids)

SourcesInv ==
    /\ SourcesInterned
    /\ \A k \in DOMAIN sources : sources[k].size = fset[sources[k].file].size

CalledInv == outcome = "called" => ids = <<>> /\ rows = <<>> /\ stack = <<>>

IInv == /\ TypeOK
        /\ OneRowEach
        /\ RowsInv
        /\ StackInv
        /\ SourcesInv
        /\ CalledInv

-----------------------------------------------------------------------------
(* Facts about the arguments, records and sequences                        *)

(* The forms a field in memory may have, whatever its type.                *)
InMemory(value) ==
    \/ value = Null
    \/ value.tag = "scalar" /\ value = Scalar(value.value)
    \/ value.tag = "pos" /\ value = Pos(value.pos)
    \/ /\ HasRefs(value)
       /\ value = [tag |-> value.tag, ids |-> value.ids]
       /\ value.ids \in Seq(Objects \cup {Nil})

LEMMA FormOfField ==
    ASSUME NEW value, NEW spec, FieldInMemory(value, spec)
    PROVE  InMemory(value)
<1>1. ASSUME NEW object \in Objects, value = Ref(object) PROVE InMemory(value)
  BY <1>1 DEF InMemory, Ref, HasRefs
<1>2. ASSUME value = Refs(value.ids), value.ids \in Seq(Objects \cup {Nil})
      PROVE  InMemory(value)
  <2>1. PICK list : list = value.ids
    OBVIOUS
  <2>2. value = [tag |-> "refs", ids |-> list]
    BY <1>2, <2>1 DEF Refs
  <2>3. value.tag = "refs" /\ value = [tag |-> value.tag, ids |-> list]
    BY <2>2
  <2> QED
    BY <1>2, <2>1, <2>3 DEF InMemory, HasRefs
<1>3. ASSUME value = Pos(value.pos) \/ value = Scalar(value.value)
      PROVE  InMemory(value)
  BY <1>3 DEF InMemory, Pos, Scalar
<1> QED
  BY <1>1, <1>2, <1>3 DEF FieldInMemory, InMemory

LEMMA ArgumentTypes ==
    ASSUME Arguments
    PROVE  /\ ArgumentsOK(heap, root, fset)
           /\ \A o \in Objects : /\ heap[o].kind \in DOMAIN KindFields
                                 /\ heap[o].origin \in Origins
                                 /\ Specs(o) \in Seq(FieldSpecs)
                                 /\ DOMAIN heap[o].fields = 1 .. Len(Specs(o))
                                 /\ Len(Specs(o)) \in Nat
                                 /\ \A k \in DOMAIN heap[o].fields :
                                      /\ FieldInMemory(heap[o].fields[k], Specs(o)[k])
                                      /\ InMemory(heap[o].fields[k])
           /\ fset # Nil => \A f \in DOMAIN fset : f \in Files /\ fset[f].lines \in Lines
<1>1. PICK input \in Inputs : /\ heap = input.heap
                              /\ root = input.root
                              /\ fset = input.fset
  BY DEF Arguments
<1>2. ArgumentsOK(heap, root, fset)
  BY <1>1, InputsAssumption, Zenon
<1>3. ASSUME NEW o \in Objects
      PROVE  /\ heap[o].kind \in DOMAIN KindFields
             /\ heap[o].origin \in Origins
             /\ Specs(o) \in Seq(FieldSpecs)
             /\ DOMAIN heap[o].fields = DOMAIN Specs(o)
             /\ \A k \in DOMAIN heap[o].fields :
                  /\ FieldInMemory(heap[o].fields[k], Specs(o)[k])
                  /\ InMemory(heap[o].fields[k])
  <2>1. heap[o].kind \in DOMAIN KindFields /\ DOMAIN heap[o].fields = DOMAIN Specs(o)
    BY <1>2 DEF ArgumentsOK, Specs
  <2>2. heap[o].origin \in Origins
    BY <1>1 DEF Origins
  <2>3. Specs(o) \in Seq(FieldSpecs)
    BY <2>1, KindFieldsAssumption DEF Specs
  <2>4. ASSUME NEW k \in DOMAIN heap[o].fields
        PROVE  /\ FieldInMemory(heap[o].fields[k], Specs(o)[k])
               /\ InMemory(heap[o].fields[k])
    <3>1. FieldInMemory(heap[o].fields[k], Specs(o)[k])
      BY <1>2 DEF ArgumentsOK, Specs
    <3> QED
      BY <3>1, FormOfField
  <2> QED
    BY <2>1, <2>2, <2>3, <2>4
<1>4. \A s \in Seq(FieldSpecs) : DOMAIN s = 1 .. Len(s) /\ Len(s) \in Nat
  OBVIOUS
<1>5. \A f \in DOMAIN fset : f \in Files /\ fset[f].lines \in Lines
  <2> SUFFICES ASSUME NEW f \in DOMAIN fset
               PROVE  f \in Files /\ fset[f].lines \in Lines
    OBVIOUS
  <2>1. f \in DOMAIN input.fset /\ fset[f].lines = input.fset[f].lines
    BY <1>1
  <2>2. input.fset[f].lines \in { input.fset[g].lines : g \in DOMAIN input.fset }
    BY <2>1
  <2> QED
    BY <2>1, <2>2 DEF Files, Lines
<1> QED
  BY <1>2, <1>3, <1>4, <1>5

LEMMA RowWithFields ==
    ASSUME NEW row \in RowSet, NEW w \in Seq(WireValues)
    PROVE  LET new == [row EXCEPT !.fields = w]
           IN /\ new \in RowSet /\ new.id = row.id /\ new.kind = row.kind
              /\ new.origin = row.origin /\ new.fields = w
BY DEF RowSet

LEMMA FrameWithRefs ==
    ASSUME NEW frame \in FrameSet, NEW r \in Seq(Nat)
    PROVE  LET new == [frame EXCEPT !.refs = r]
           IN new \in FrameSet /\ new.object = frame.object /\ new.refs = r
BY DEF FrameSet

LEMMA Longer ==
    ASSUME NEW T, NEW s \in Seq(T), NEW x \in T
    PROVE  /\ Append(s, x) \in Seq(T) /\ Len(Append(s, x)) = Len(s) + 1
           /\ Len(s) \in Nat /\ DOMAIN s = 1 .. Len(s)
           /\ DOMAIN Append(s, x) = 1 .. Len(s) + 1
           /\ Append(s, x)[Len(s) + 1] = x
           /\ \A k \in DOMAIN s : Append(s, x)[k] = s[k]
OBVIOUS

LEMMA Replaced ==
    ASSUME NEW T, NEW s \in Seq(T), NEW k \in DOMAIN s, NEW x \in T
    PROVE  LET new == [s EXCEPT ![k] = x]
           IN /\ new \in Seq(T) /\ Len(new) = Len(s) /\ DOMAIN new = DOMAIN s
              /\ new[k] = x /\ \A j \in DOMAIN s : j # k => new[j] = s[j]
OBVIOUS

-----------------------------------------------------------------------------
(* What a wire value stands for does not change while the tables grow.     *)

LEMMA StandsGrows ==
    ASSUME NEW w, NEW v, NEW I, NEW J, NEW S, NEW T, NEW F,
           Stands(w, v, I, S, F),
           \A o \in DOMAIN I : o \in DOMAIN J /\ J[o] = I[o],
           \A k \in DOMAIN S : k \in DOMAIN T /\ T[k] = S[k]
    PROVE  Stands(w, v, J, T, F)
<1>1. CASE HasRefs(v)
  <2>1. /\ SeqRange(v.ids) \subseteq DOMAIN I
        /\ w = [v EXCEPT !.ids = [i \in DOMAIN v.ids |-> I[v.ids[i]]]]
    BY <1>1 DEF Stands
  <2>2. [i \in DOMAIN v.ids |-> I[v.ids[i]]] = [i \in DOMAIN v.ids |-> J[v.ids[i]]]
    BY <2>1 DEF SeqRange
  <2>3. w = [v EXCEPT !.ids = [i \in DOMAIN v.ids |-> J[v.ids[i]]]]
    BY <2>1, <2>2
  <2>4. SeqRange(v.ids) \subseteq DOMAIN J
    BY <2>1
  <2> QED
    BY <1>1, <2>3, <2>4, Zenon DEF Stands
<1>2. CASE ~ HasRefs(v) /\ v.tag = "pos" /\ v.pos # NoPos
  BY <1>2 DEF Stands
<1>3. CASE ~ HasRefs(v) /\ ~ (v.tag = "pos" /\ v.pos # NoPos)
  BY <1>3 DEF Stands
<1> QED
  BY <1>1, <1>2, <1>3

LEMMA RepresentsStands ==
    ASSUME NEW w, NEW v
    PROVE  Represents(w, v) <=> Stands(w, v, ids, sources, fset)
<1>1. CASE HasRefs(v)
  <2>1. v.tag # "pos"
    BY <1>1 DEF HasRefs
  <2> QED
    BY <1>1, <2>1 DEF Represents, Stands
<1>2. CASE ~ HasRefs(v) /\ v.tag = "pos" /\ v.pos # NoPos
  BY <1>2 DEF Represents, Stands
<1>3. CASE ~ HasRefs(v) /\ ~ (v.tag = "pos" /\ v.pos # NoPos)
  BY <1>3 DEF Represents, Stands
<1> QED
  BY <1>1, <1>2, <1>3

LEMMA AwaitsGrows ==
    ASSUME NEW refs, NEW v, NEW child, NEW I, NEW J,
           \A o \in DOMAIN I : o \in DOMAIN J /\ J[o] = I[o]
    PROVE  /\ Gathers(refs, v, I) => Gathers(refs, v, J)
           /\ Awaits(refs, v, I, child) => Awaits(refs, v, J, child)
BY DEF Gathers, Awaits

-----------------------------------------------------------------------------
(* The steps                                                               *)

(* The invariant in terms of what the tables have become; the arguments    *)
(* never change.                                                           *)
LEMMA EnterStep ==
    ASSUME IInv, NEW object \in Objects, object \notin DOMAIN ids,
           Enter(object), UNCHANGED <<inputs, sources>>, outcome' = "encoding",
           stack # <<>> =>
               /\ InProgress(Top.object)
               /\ Awaits(Top.refs, Current(Top.object), ids, object)
    PROVE  IInv'
<1> USE DEF IInv
<1> DEFINE n == Len(rows) + 1
           m == Len(stack) + 1
           row == [id |-> n, kind |-> heap[object].kind,
                   origin |-> heap[object].origin, fields |-> <<>>]
           frame == [object |-> object, refs |-> <<>>]
<1>1. /\ heap' = heap /\ root' = root /\ fset' = fset
      /\ options' = options /\ sources' = sources
      /\ ids' = [o \in DOMAIN ids \cup {object} |-> IF o = object THEN n ELSE ids[o]]
      /\ rows' = Append(rows, row) /\ stack' = Append(stack, frame)
  BY DEF Enter, inputs
<1>2. /\ DOMAIN ids' = DOMAIN ids \cup {object} /\ ids'[object] = n
      /\ \A o \in DOMAIN ids : ids'[o] = ids[o]
  BY <1>1
<1>3. row \in RowSet
  BY ArgumentTypes, Longer DEF RowSet, TypeOK
<1>4. frame \in FrameSet
  BY DEF FrameSet
<1>5. /\ rows' \in Seq(RowSet) /\ DOMAIN rows' = 1 .. n /\ DOMAIN rows = 1 .. n - 1
      /\ n \in Nat /\ n > 0 /\ rows'[n] = row
      /\ \A k \in DOMAIN rows : rows'[k] = rows[k]
  BY <1>1, <1>3, Longer DEF TypeOK
<1>6. /\ stack' \in Seq(FrameSet) /\ DOMAIN stack' = 1 .. m
      /\ DOMAIN stack = 1 .. m - 1 /\ m \in Nat /\ m > 0 /\ Len(stack') = m
      /\ stack'[m] = frame
      /\ \A k \in DOMAIN stack : stack'[k] = stack[k]
  BY <1>1, <1>4, Longer DEF TypeOK
<1> HIDE DEF n, m
<1>7. TypeOK'
  BY <1>1, <1>2, <1>5, <1>6 DEF TypeOK, Arguments
<1>8. /\ row.id = n /\ row.kind = heap[object].kind
      /\ row.origin = heap[object].origin /\ row.fields = <<>>
      /\ frame.object = object /\ frame.refs = <<>>
  OBVIOUS
<1> HIDE DEF row, frame
<1>9. \A o \in DOMAIN ids : ids[o] \in DOMAIN rows /\ ids[o] # n
  BY <1>5 DEF OneRowEach
<1>10. OneRowEach'
  <2>1. \A o \in DOMAIN ids' : /\ ids'[o] \in DOMAIN rows'
                               /\ rows'[ids'[o]].kind = heap[o].kind
                               /\ rows'[ids'[o]].origin = heap[o].origin
    <3> TAKE o \in DOMAIN ids'
    <3>1. CASE o = object
      BY <1>2, <1>5, <1>8, <3>1
    <3>2. CASE o # object
      <4>1. /\ o \in DOMAIN ids /\ ids'[o] = ids[o] /\ ids[o] \in DOMAIN rows
            /\ rows'[ids[o]] = rows[ids[o]]
        BY <1>2, <1>5, <1>9, <3>2
      <4>2. ids[o] \in DOMAIN rows'
        BY <1>5, <4>1
      <4> QED
        BY <4>1, <4>2 DEF OneRowEach
    <3> QED
      BY <3>1, <3>2
  <2>2. \A o, p \in DOMAIN ids' : ids'[o] = ids'[p] => o = p
    BY <1>2, <1>9 DEF OneRowEach
  <2>3. \A k \in DOMAIN rows' : /\ rows'[k].id = k
                                /\ \E o \in DOMAIN ids' : ids'[o] = k
    <3> TAKE k \in DOMAIN rows'
    <3>1. CASE k = n
      BY <1>2, <1>5, <1>8, <3>1
    <3>2. CASE k # n
      <4>1. k \in DOMAIN rows
        BY <1>5, <3>2
      <4> QED
        BY <1>2, <1>5, <4>1 DEF OneRowEach
    <3> QED
      BY <3>1, <3>2
  <2> QED
    BY <1>1, <2>1, <2>2, <2>3 DEF OneRowEach
<1>11. /\ \A o \in DOMAIN ids : rows'[ids'[o]] = rows[ids[o]]
       /\ rows'[ids'[object]].fields = <<>>
  BY <1>2, <1>5, <1>8, <1>9
<1>12. RowsInv'
  <2>0. heap' = heap /\ sources' = sources /\ fset' = fset
    BY <1>1
  <2> SUFFICES ASSUME NEW o \in DOMAIN ids'
               PROVE  /\ Len(Written(o)') <= Len(Specs(o))
                      /\ \A k \in DOMAIN Written(o)' :
                           Stands(Written(o)'[k], heap[o].fields[k],
                                  ids', sources, fset)
                      /\ \/ Len(Written(o)') = Len(Specs(o))
                         \/ \E k \in DOMAIN stack' : stack'[k].object = o
    BY <2>0, Zenon DEF RowsInv, Specs, Written
  <2>1. CASE o = object
    <3>1. Written(o)' = <<>>
      BY <1>11, <2>1 DEF Written
    <3>2. Len(Specs(o)) \in Nat
      BY <2>1, ArgumentTypes DEF TypeOK
    <3>3. m \in DOMAIN stack' /\ stack'[m].object = o
      BY <1>6, <1>8, <2>1
    <3> QED
      BY <3>1, <3>2, <3>3
  <2>2. CASE o # object
    <3>1. o \in DOMAIN ids /\ Written(o)' = Written(o)
      BY <1>2, <1>11, <2>2 DEF Written
    <3>2. ASSUME NEW k \in DOMAIN Written(o)
          PROVE  Stands(Written(o)[k], heap[o].fields[k], ids', sources, fset)
      <4>1. Stands(Written(o)[k], heap[o].fields[k], ids, sources, fset)
        BY <3>1 DEF RowsInv
      <4> QED
        BY <1>2, <4>1, StandsGrows
    <3> QED
      BY <1>6, <3>1, <3>2 DEF RowsInv
  <2> QED
    BY <2>1, <2>2
<1>13. StackInv'
  <2>1. \A k \in DOMAIN stack' : stack'[k].object \in DOMAIN ids'
    BY <1>2, <1>6, <1>8 DEF StackInv
  <2>2. \A j, k \in DOMAIN stack' : stack'[j].object = stack'[k].object => j = k
    BY <1>6, <1>8 DEF StackInv
  <2>3. ASSUME NEW k \in DOMAIN stack', k < m
        PROVE  /\ InProgress(stack[k].object)'
               /\ Awaits(stack'[k].refs, Current(stack[k].object)', ids',
                         stack'[k + 1].object)
    <3>1. k \in DOMAIN stack /\ stack'[k] = stack[k]
      BY <1>6, <2>3
    <3>2. /\ InProgress(stack[k].object)
          /\ Awaits(stack[k].refs, Current(stack[k].object), ids,
                    stack'[k + 1].object)
      <4>1. CASE k = m - 1
        <5>1. stack # <<>> /\ Top = stack[k]
          BY <1>6, <3>1, <4>1 DEF Top, TypeOK
        <5>2. stack'[k + 1].object = object
          BY <1>6, <1>8, <4>1
        <5> QED
          BY <5>1, <5>2
      <4>2. CASE k < m - 1
        <5>1. k < Len(stack) /\ stack'[k + 1] = stack[k + 1]
          BY <1>6, <3>1, <4>2 DEF TypeOK
        <5> QED
          BY <3>1, <5>1 DEF StackInv
      <4> QED
        BY <1>6, <2>3, <4>1, <4>2
    <3>3. stack[k].object \in DOMAIN ids
      BY <3>1 DEF StackInv
    <3>4. Awaits(stack[k].refs, Current(stack[k].object), ids',
                 stack'[k + 1].object)
      BY <1>2, <3>2, AwaitsGrows
    <3>5. /\ InProgress(stack[k].object)' <=> InProgress(stack[k].object)
          /\ Current(stack[k].object)' = Current(stack[k].object)
      BY <1>1, <1>11, <3>1, <3>3 DEF Written, Current, InProgress, Specs
    <3> QED
      BY <3>1, <3>2, <3>4, <3>5
  <2>4. Top'.refs = <<>>
    BY <1>6, <1>8 DEF Top
  <2> QED
    BY <1>6, <2>1, <2>2, <2>3, <2>4 DEF StackInv
<1>14. SourcesInv'
  BY <1>1 DEF SourcesInv, SourcesInterned
<1>15. CalledInv'
  BY DEF CalledInv
<1> QED
  BY <1>7, <1>10, <1>12, <1>13, <1>14, <1>15

(* The innermost call.                                                     *)
LEMMA TopTypes ==
    ASSUME IInv, stack # <<>>
    PROVE  /\ Len(stack) \in DOMAIN stack /\ Top = stack[Len(stack)]
           /\ DOMAIN stack = 1 .. Len(stack) /\ Len(stack) \in Nat
           /\ Top \in FrameSet /\ Top.object \in Objects /\ Top.refs \in Seq(Nat)
           /\ Top.object \in DOMAIN ids
           /\ ids[Top.object] \in DOMAIN rows
           /\ DOMAIN rows = 1 .. Len(rows)
           /\ rows[ids[Top.object]] \in RowSet
           /\ Written(Top.object) \in Seq(WireValues)
           /\ Row = rows[ids[Top.object]] /\ Field = Len(Written(Top.object)) + 1
           /\ FieldSpec = Specs(Top.object) /\ Value = Current(Top.object)
<1>1. /\ Len(stack) \in DOMAIN stack /\ Top = stack[Len(stack)]
      /\ DOMAIN stack = 1 .. Len(stack) /\ Len(stack) \in Nat /\ Top \in FrameSet
  BY DEF IInv, TypeOK, Top
<1>2. Top.object \in Objects /\ Top.refs \in Seq(Nat)
  BY <1>1 DEF FrameSet
<1>3. Top.object \in DOMAIN ids /\ ids[Top.object] \in DOMAIN rows
  BY <1>1 DEF IInv, StackInv, OneRowEach
<1>4. DOMAIN rows = 1 .. Len(rows) /\ rows[ids[Top.object]] \in RowSet
  BY <1>3 DEF IInv, TypeOK
<1>5. Written(Top.object) \in Seq(WireValues)
  BY <1>4 DEF RowSet, Written
<1>6. /\ Row = rows[ids[Top.object]] /\ Field = Len(Written(Top.object)) + 1
      /\ FieldSpec = Specs(Top.object) /\ Value = Current(Top.object)
  BY DEF Row, Field, FieldSpec, Value, Specs, Written, Current
<1> QED
  BY <1>1, <1>2, <1>3, <1>4, <1>5, <1>6

LEMMA WriteStep ==
    ASSUME IInv, InField, NEW value \in WireValues, Write(value),
           sources' \in Seq(SourceSet), SourcesInv',
           \A k \in DOMAIN sources : k \in DOMAIN sources' /\ sources'[k] = sources[k],
           Stands(value, Value, ids, sources', fset)
    PROVE  IInv'
<1>0. PICK o, r : o = Top.object /\ r = ids[o]
  OBVIOUS
<1> DEFINE m == Len(stack)
           fields == Append(Written(o), value)
           row == [rows[r] EXCEPT !.fields = fields]
           frame == [Top EXCEPT !.refs = <<>>]
<1>1. /\ heap' = heap /\ root' = root /\ fset' = fset
      /\ options' = options /\ ids' = ids
      /\ outcome' = outcome /\ outcome = "encoding" /\ stack # <<>>
      /\ Field <= Len(FieldSpec)
  BY DEF Write, InField, inputs
<1>2. /\ rows' = [rows EXCEPT ![r] = row]
      /\ stack' = [stack EXCEPT ![m] = frame]
  BY <1>0 DEF Write, Written, Top
<1>3. /\ m \in DOMAIN stack /\ Top = stack[m] /\ DOMAIN stack = 1 .. m /\ m \in Nat
      /\ Top \in FrameSet /\ o \in Objects /\ o \in DOMAIN ids /\ r \in DOMAIN rows
      /\ rows[r] \in RowSet /\ Written(o) \in Seq(WireValues)
      /\ Len(Written(o)) + 1 <= Len(Specs(o)) /\ Value = Current(o)
  BY <1>0, <1>1, TopTypes
<1>4. /\ fields \in Seq(WireValues) /\ Len(fields) = Len(Written(o)) + 1
      /\ DOMAIN fields = 1 .. Len(Written(o)) + 1
      /\ DOMAIN Written(o) = 1 .. Len(Written(o)) /\ Len(Written(o)) \in Nat
      /\ fields[Len(Written(o)) + 1] = value
      /\ \A k \in DOMAIN Written(o) : fields[k] = Written(o)[k]
  BY <1>3, Longer
<1> HIDE DEF fields
<1>5. /\ row \in RowSet /\ row.id = rows[r].id /\ row.kind = rows[r].kind
      /\ row.origin = rows[r].origin /\ row.fields = fields
  BY <1>3, <1>4, RowWithFields
<1>6. frame \in FrameSet /\ frame.object = o /\ frame.refs = <<>>
  <2>1. <<>> \in Seq(Nat)
    OBVIOUS
  <2>2. /\ [Top EXCEPT !.refs = <<>>] \in FrameSet
        /\ [Top EXCEPT !.refs = <<>>].object = Top.object
        /\ [Top EXCEPT !.refs = <<>>].refs = <<>>
    BY <1>3, <2>1, FrameWithRefs
  <2> QED
    BY <1>0, <2>2
<1> HIDE DEF row, frame, m
<1>7. /\ rows' \in Seq(RowSet) /\ DOMAIN rows' = DOMAIN rows /\ rows'[r] = row
      /\ \A k \in DOMAIN rows : k # r => rows'[k] = rows[k]
  BY <1>2, <1>3, <1>5, Replaced DEF IInv, TypeOK
<1>8. /\ stack' \in Seq(FrameSet) /\ DOMAIN stack' = DOMAIN stack
      /\ Len(stack') = m /\ stack'[m] = frame
      /\ \A k \in DOMAIN stack : k # m => stack'[k] = stack[k]
  BY <1>2, <1>3, <1>6, Replaced DEF IInv, TypeOK, m
<1>9. TypeOK'
  BY <1>1, <1>7, <1>8 DEF IInv, TypeOK, Arguments
<1>10. /\ \A p \in DOMAIN ids : ids[p] \in DOMAIN rows
       /\ \A p \in DOMAIN ids : p # o => ids[p] # r
  BY <1>0, <1>3 DEF IInv, OneRowEach
<1>11. \A k \in DOMAIN rows : /\ rows'[k].id = rows[k].id
                              /\ rows'[k].kind = rows[k].kind
                              /\ rows'[k].origin = rows[k].origin
  BY <1>5, <1>7
<1>12. OneRowEach'
  BY <1>1, <1>7, <1>11 DEF IInv, OneRowEach
<1>13. /\ \A p \in DOMAIN ids : p # o => Written(p)' = Written(p)
       /\ Written(o)' = fields
  <2>1. \A p \in DOMAIN ids : p # o => rows'[ids'[p]] = rows[ids[p]]
    BY <1>1, <1>7, <1>10
  <2>2. rows'[ids'[o]] = row
    BY <1>0, <1>1, <1>7
  <2> QED
    BY <1>5, <2>1, <2>2 DEF Written
<1>14. \A k \in DOMAIN stack : stack'[k].object = stack[k].object
  <2>1. stack[m].object = o
    BY <1>0, <1>3
  <2> QED
    BY <1>6, <1>8, <2>1
<1>15. RowsInv'
  <2>0. heap' = heap /\ ids' = ids /\ fset' = fset
    BY <1>1
  <2> SUFFICES ASSUME NEW p \in DOMAIN ids
               PROVE  /\ Len(Written(p)') <= Len(Specs(p))
                      /\ \A k \in DOMAIN Written(p)' :
                           Stands(Written(p)'[k], heap[p].fields[k],
                                  ids, sources', fset)
                      /\ \/ Len(Written(p)') = Len(Specs(p))
                         \/ \E k \in DOMAIN stack' : stack'[k].object = p
    BY <2>0, Zenon DEF RowsInv, Specs, Written
  <2>1. ASSUME NEW k \in DOMAIN Written(p)
        PROVE  Stands(Written(p)[k], heap[p].fields[k], ids, sources', fset)
    <3>1. Stands(Written(p)[k], heap[p].fields[k], ids, sources, fset)
      BY DEF IInv, RowsInv
    <3> QED
      BY <3>1, StandsGrows
  <2>2. CASE p = o
    <3>1. \A k \in DOMAIN fields :
            Stands(fields[k], heap[o].fields[k], ids, sources', fset)
      <4> TAKE k \in DOMAIN fields
      <4>1. CASE k = Len(Written(o)) + 1
        BY <1>3, <1>4, <4>1 DEF Current
      <4>2. CASE k # Len(Written(o)) + 1
        <5>1. k \in DOMAIN Written(o) /\ fields[k] = Written(o)[k]
          BY <1>4, <4>2
        <5> QED
          BY <2>1, <2>2, <5>1
      <4> QED
        BY <4>1, <4>2
    <3>2. m \in DOMAIN stack' /\ stack'[m].object = o
      BY <1>3, <1>6, <1>8
    <3> QED
      BY <1>3, <1>4, <1>13, <2>2, <3>1, <3>2
  <2>3. CASE p # o
    <3>1. Written(p)' = Written(p)
      BY <1>13, <2>3
    <3> QED
      BY <1>8, <1>14, <2>1, <3>1 DEF IInv, RowsInv
  <2> QED
    BY <2>2, <2>3
<1>16. StackInv'
  <2>1. \A k \in DOMAIN stack' : stack'[k].object \in DOMAIN ids'
    BY <1>1, <1>8, <1>14 DEF IInv, StackInv
  <2>2. \A j, k \in DOMAIN stack' : stack'[j].object = stack'[k].object => j = k
    BY <1>8, <1>14 DEF IInv, StackInv
  <2>3. ASSUME NEW k \in DOMAIN stack', k < m
        PROVE  /\ InProgress(stack[k].object)'
               /\ Awaits(stack'[k].refs, Current(stack[k].object)', ids',
                         stack'[k + 1].object)
    <3>0. PICK p : p = stack[k].object
      OBVIOUS
    <3>1. /\ k \in DOMAIN stack /\ k # m /\ stack'[k] = stack[k]
          /\ k + 1 \in DOMAIN stack
      BY <1>3, <1>8, <2>3
    <3>2. /\ InProgress(p)
          /\ Awaits(stack[k].refs, Current(p), ids, stack[k + 1].object)
      BY <2>3, <3>0, <3>1 DEF IInv, StackInv, m
    <3>3. p \in DOMAIN ids /\ p # o
      BY <1>0, <1>3, <3>0, <3>1 DEF IInv, StackInv
    <3>4. Written(p)' = Written(p)
      BY <1>13, <3>3
    <3>5. (InProgress(p)' <=> InProgress(p)) /\ Current(p)' = Current(p)
      BY <1>1, <3>4 DEF Current, InProgress, Specs
    <3>6. /\ InProgress(stack[k].object)' <=> InProgress(p)'
          /\ Current(stack[k].object)' = Current(p)'
      BY <3>0, <3>1 DEF Current, InProgress, Specs, Written
    <3> QED
      BY <1>1, <1>14, <3>1, <3>2, <3>5, <3>6
  <2>4. Top'.refs = <<>>
    BY <1>6, <1>8 DEF Top
  <2> QED
    BY <1>8, <2>1, <2>2, <2>3, <2>4 DEF StackInv
<1>17. CalledInv'
  BY <1>1 DEF CalledInv
<1> QED
  BY <1>9, <1>12, <1>15, <1>16, <1>17 DEF IInv

(* A call takes over the ID of a child; the calls above it are over.       *)
TakesOver(n, child) ==
    /\ stack' = [SubSeq(stack, 1, n) EXCEPT ![n].refs = Append(@, ids[child])]
    /\ UNCHANGED <<inputs, ids, rows, sources, outcome>>

LEMMA GatherStep ==
    ASSUME IInv, outcome # "called", NEW n \in DOMAIN stack,
           NEW child \in DOMAIN ids,
           InProgress(stack[n].object),
           Awaits(stack[n].refs, Current(stack[n].object), ids, child),
           \A k \in DOMAIN stack :
               k > n => Len(Written(stack[k].object)) = Len(Specs(stack[k].object)),
           TakesOver(n, child)
    PROVE  IInv'
<1> DEFINE refs == Append(stack[n].refs, ids[child])
           frame == [stack[n] EXCEPT !.refs = refs]
<1>1. /\ heap' = heap /\ root' = root /\ fset' = fset
      /\ options' = options /\ ids' = ids
      /\ rows' = rows /\ sources' = sources /\ outcome' = outcome
  BY DEF TakesOver, inputs
<1>2. /\ stack \in Seq(FrameSet) /\ Len(stack) \in Nat /\ DOMAIN stack = 1 .. Len(stack)
      /\ n \in Nat /\ n > 0 /\ n <= Len(stack) /\ stack[n] \in FrameSet
      /\ stack[n].refs \in Seq(Nat) /\ ids[child] \in Nat
  <2>1. stack[n] \in FrameSet
    BY DEF IInv, TypeOK
  <2>2. stack[n].refs \in Seq(Nat)
    BY <2>1 DEF FrameSet
  <2>3. ids[child] \in Nat
    BY DEF IInv, TypeOK, OneRowEach
  <2> QED
    BY <2>1, <2>2, <2>3 DEF IInv, TypeOK
<1>3. /\ refs \in Seq(Nat) /\ Len(refs) = Len(stack[n].refs) + 1
      /\ Len(stack[n].refs) \in Nat /\ DOMAIN refs = 1 .. Len(stack[n].refs) + 1
      /\ refs[Len(stack[n].refs) + 1] = ids[child]
      /\ \A i \in DOMAIN stack[n].refs : refs[i] = stack[n].refs[i]
      /\ DOMAIN stack[n].refs = 1 .. Len(stack[n].refs)
  BY <1>2, Longer
<1> HIDE DEF refs
<1>4. frame \in FrameSet /\ frame.object = stack[n].object /\ frame.refs = refs
  BY <1>2, <1>3, FrameWithRefs
<1>5. stack' = [SubSeq(stack, 1, n) EXCEPT ![n] = frame]
  <2>1. SubSeq(stack, 1, n)[n] = stack[n]
    BY <1>2
  <2> QED
    BY <2>1 DEF TakesOver, refs
<1> HIDE DEF frame
<1>6. /\ SubSeq(stack, 1, n) \in Seq(FrameSet) /\ Len(SubSeq(stack, 1, n)) = n
      /\ DOMAIN SubSeq(stack, 1, n) = 1 .. n
      /\ \A k \in 1 .. n : SubSeq(stack, 1, n)[k] = stack[k]
  BY <1>2
<1>7. n \in DOMAIN SubSeq(stack, 1, n)
  BY <1>2, <1>6
<1>8. /\ stack' \in Seq(FrameSet) /\ Len(stack') = n /\ DOMAIN stack' = 1 .. n
      /\ stack'[n] = frame
      /\ \A k \in 1 .. n : k # n => stack'[k] = stack[k]
  <2>1. /\ stack' \in Seq(FrameSet) /\ Len(stack') = n /\ DOMAIN stack' = 1 .. n
        /\ stack'[n] = frame
        /\ \A k \in 1 .. n : k # n => stack'[k] = SubSeq(stack, 1, n)[k]
    <3>1. PICK s : s = SubSeq(stack, 1, n)
      OBVIOUS
    <3>2. s \in Seq(FrameSet) /\ n \in DOMAIN s /\ stack' = [s EXCEPT ![n] = frame]
      BY <1>5, <1>6, <1>7, <3>1
    <3>3. /\ stack' \in Seq(FrameSet) /\ Len(stack') = Len(s)
          /\ DOMAIN stack' = DOMAIN s /\ stack'[n] = frame
          /\ \A k \in DOMAIN s : k # n => stack'[k] = s[k]
      BY <1>4, <3>2, Replaced
    <3> QED
      BY <1>6, <3>1, <3>3
  <2> QED
    BY <1>6, <2>1
<1>9. \A k \in 1 .. n : k \in DOMAIN stack /\ stack'[k].object = stack[k].object
  BY <1>2, <1>4, <1>8
<1>10. TypeOK'
  BY <1>1, <1>8 DEF IInv, TypeOK, Arguments
<1>11. OneRowEach'
  BY <1>1 DEF IInv, OneRowEach
<1>12. \A o : Written(o)' = Written(o) /\ Specs(o)' = Specs(o) /\ Current(o)' = Current(o)
  BY <1>1 DEF Written, Specs, Current
<1>13. RowsInv'
  <2>0. heap' = heap /\ ids' = ids /\ fset' = fset
    BY <1>1
  <2> SUFFICES ASSUME NEW o \in DOMAIN ids
               PROVE  /\ Len(Written(o)') <= Len(Specs(o))
                      /\ \A k \in DOMAIN Written(o)' :
                           Stands(Written(o)'[k], heap[o].fields[k],
                                  ids, sources', fset)
                      /\ \/ Len(Written(o)') = Len(Specs(o))
                         \/ \E k \in DOMAIN stack' : stack'[k].object = o
    BY <2>0, Zenon DEF RowsInv, Specs, Written
  <2>1. ASSUME NEW k \in DOMAIN stack, stack[k].object = o
        PROVE  \/ Len(Written(o)) = Len(Specs(o))
               \/ \E j \in DOMAIN stack' : stack'[j].object = o
    <3>1. CASE k > n
      BY <2>1, <3>1
    <3>2. CASE ~ (k > n)
      <4>1. k \in DOMAIN stack' /\ stack'[k].object = o
        BY <1>2, <1>8, <1>9, <2>1, <3>2
      <4> QED
        BY <4>1
    <3> QED
      BY <3>1, <3>2
  <2> QED
    BY <1>1, <1>12, <2>1 DEF IInv, RowsInv
<1>14. StackInv'
  <2>1. \A k \in DOMAIN stack' : stack'[k].object \in DOMAIN ids'
    BY <1>1, <1>8, <1>9 DEF IInv, StackInv
  <2>2. \A j, k \in DOMAIN stack' : stack'[j].object = stack'[k].object => j = k
    BY <1>8, <1>9 DEF IInv, StackInv
  <2>3. ASSUME NEW k \in DOMAIN stack', k < n
        PROVE  /\ InProgress(stack[k].object)'
               /\ Awaits(stack'[k].refs, Current(stack[k].object)', ids',
                         stack'[k + 1].object)
    <3>0. PICK p : p = stack[k].object
      OBVIOUS
    <3>1. /\ k \in DOMAIN stack /\ stack'[k] = stack[k]
          /\ stack'[k + 1].object = stack[k + 1].object /\ k < Len(stack)
      BY <1>2, <1>8, <1>9, <2>3
    <3>2. /\ InProgress(p)
          /\ Awaits(stack[k].refs, Current(p), ids, stack[k + 1].object)
      BY <3>0, <3>1 DEF IInv, StackInv
    <3>3. InProgress(p)' /\ Current(p)' = Current(p)
      BY <1>1, <3>2 DEF InProgress, Current, Written, Specs
    <3>4. /\ InProgress(stack[k].object)' <=> InProgress(p)'
          /\ Current(stack[k].object)' = Current(p)'
      BY <3>0, <3>1 DEF Current, InProgress, Specs, Written
    <3> QED
      BY <1>1, <3>1, <3>2, <3>3, <3>4
  <2>4. /\ InProgress(stack[n].object)
        /\ Gathers(refs, Current(stack[n].object), ids)
    <3>0. PICK value, old : /\ value = Current(stack[n].object)
                            /\ old = stack[n].refs
      OBVIOUS
    <3>1. /\ HasRefs(value) /\ Len(old) < Len(value.ids)
          /\ \A i \in DOMAIN old : /\ value.ids[i] \in DOMAIN ids
                                   /\ old[i] = ids[value.ids[i]]
          /\ child = value.ids[Len(old) + 1]
      BY <3>0 DEF Awaits, Gathers
    <3>2. ASSUME NEW i \in DOMAIN refs
          PROVE  value.ids[i] \in DOMAIN ids /\ refs[i] = ids[value.ids[i]]
      <4>1. CASE i = Len(old) + 1
        BY <1>3, <3>0, <3>1, <4>1
      <4>2. CASE i # Len(old) + 1
        <5>1. i \in DOMAIN old /\ refs[i] = old[i]
          BY <1>3, <3>0, <4>2
        <5> QED
          BY <3>1, <5>1
      <4> QED
        BY <4>1, <4>2
    <3>3. Len(refs) <= Len(value.ids)
      <4>1. value.ids \in Seq(Objects \cup {Nil})
        <5>1. \E o \in Objects : \E k \in DOMAIN heap[o].fields :
                value = heap[o].fields[k]
          <6>1. PICK o : o = stack[n].object
            OBVIOUS
          <6>2. o \in Objects /\ o \in DOMAIN ids
            BY <1>2, <6>1 DEF FrameSet, IInv, StackInv
          <6>3. rows[ids[o]] \in RowSet
            BY <6>2 DEF IInv, TypeOK, OneRowEach
          <6>4. Written(o) \in Seq(WireValues)
            BY <6>3 DEF RowSet, Written
          <6>5. Len(Written(o)) \in Nat
            BY <6>4
          <6>6. Len(Written(o)) + 1 \in DOMAIN heap[o].fields
            BY <6>1, <6>2, <6>5, ArgumentTypes DEF IInv, TypeOK, InProgress
          <6> QED
            BY <3>0, <6>1, <6>2, <6>6 DEF Current
        <5>2. InMemory(value)
          BY <5>1, ArgumentTypes DEF IInv, TypeOK
        <5> QED
          BY <3>1, <5>2 DEF InMemory, HasRefs, Null, Scalar, Pos
      <4> QED
        BY <1>3, <3>0, <3>1, <4>1
    <3> QED
      BY <3>0, <3>1, <3>2, <3>3 DEF Gathers
  <2>5. Top'.object = stack[n].object /\ Top'.refs = refs
    BY <1>4, <1>8 DEF Top
  <2>6. InProgress(Top.object)' /\ Gathers(Top'.refs, Current(Top.object)', ids')
    <3>1. PICK p : p = stack[n].object
      OBVIOUS
    <3>2. InProgress(p)' /\ Gathers(refs, Current(p)', ids')
      BY <1>1, <2>4, <3>1 DEF InProgress, Current, Written, Specs
    <3>3. /\ InProgress(Top.object)' <=> InProgress(p)'
          /\ Current(Top.object)' = Current(p)'
      BY <2>5, <3>1 DEF InProgress, Current, Written, Specs
    <3> QED
      BY <2>5, <3>2, <3>3
  <2> QED
    BY <1>8, <2>1, <2>2, <2>3, <2>6 DEF StackInv
<1>15. SourcesInv' /\ CalledInv'
  BY <1>1 DEF IInv, SourcesInv, SourcesInterned, CalledInv
<1> QED
  BY <1>10, <1>11, <1>13, <1>14, <1>15 DEF IInv

(* Nothing but the outcome changes.                                        *)
LEMMA QuietStep ==
    ASSUME IInv, UNCHANGED <<inputs, ids, rows, sources, stack>>,
           outcome' \in {"called", "encoding", "encoded", "error"},
           outcome' = "called" => outcome = "called"
    PROVE  IInv'
<1>0. UNCHANGED <<heap, root, fset, ids, rows, sources, stack>>
  BY DEF inputs
<1>1. TypeOK'
  BY DEF IInv, TypeOK, Arguments, inputs
<1>2. OneRowEach' /\ SourcesInv' /\ CalledInv'
  BY DEF IInv, OneRowEach, SourcesInv, SourcesInterned, CalledInv, inputs
<1>3. RowsInv'
  BY <1>0, Zenon DEF IInv, RowsInv, Written, Specs
<1>4. StackInv'
  BY <1>0, Zenon DEF IInv, StackInv, Top, Written, Specs, Current, InProgress
<1> QED
  BY <1>1, <1>2, <1>3, <1>4 DEF IInv

(* The outermost call is over.                                             *)
LEMMA EmptyStep ==
    ASSUME IInv, outcome # "called", Len(stack) = 1,
           Len(Written(Top.object)) = Len(Specs(Top.object)),
           stack' = <<>>, UNCHANGED <<inputs, ids, rows, sources, outcome>>
    PROVE  IInv'
<1>1. /\ heap' = heap /\ root' = root /\ fset' = fset
      /\ options' = options /\ ids' = ids
      /\ rows' = rows /\ sources' = sources /\ outcome' = outcome
  BY DEF inputs
<1>2. stack' \in Seq(FrameSet) /\ DOMAIN stack' = {}
  OBVIOUS
<1>3. TypeOK'
  BY <1>1, <1>2 DEF IInv, TypeOK, Arguments
<1>4. OneRowEach' /\ SourcesInv' /\ CalledInv'
  BY <1>1 DEF IInv, OneRowEach, SourcesInv, SourcesInterned, CalledInv
<1>5. \A o \in DOMAIN ids : Len(Written(o)) = Len(Specs(o))
  <2> TAKE o \in DOMAIN ids
  <2>1. CASE \E k \in DOMAIN stack : stack[k].object = o
    <3>1. PICK k \in DOMAIN stack : stack[k].object = o
      BY <2>1
    <3>2. k = Len(stack)
      BY DEF IInv, TypeOK
    <3> QED
      BY <3>1, <3>2 DEF Top
  <2> QED
    BY <2>1 DEF IInv, RowsInv
<1>6. RowsInv'
  <2>0. heap' = heap /\ ids' = ids /\ fset' = fset
    BY <1>1
  <2> SUFFICES ASSUME NEW o \in DOMAIN ids
               PROVE  /\ Len(Written(o)') <= Len(Specs(o))
                      /\ \A k \in DOMAIN Written(o)' :
                           Stands(Written(o)'[k], heap[o].fields[k],
                                  ids, sources', fset)
                      /\ Len(Written(o)') = Len(Specs(o))
    BY <2>0, Zenon DEF RowsInv, Specs, Written
  <2>1. Written(o)' = Written(o)
    BY <1>1 DEF Written
  <2> QED
    BY <1>1, <1>5, <2>1 DEF IInv, RowsInv
<1>7. StackInv'
  BY <1>2 DEF StackInv
<1> QED
  BY <1>3, <1>4, <1>6, <1>7 DEF IInv

(* What the innermost call has before it.                                  *)
LEMMA TopField ==
    ASSUME IInv, InField
    PROVE  /\ stack # <<>> /\ outcome = "encoding" /\ InProgress(Top.object)
           /\ Value = Current(Top.object) /\ InMemory(Value)
           /\ HasRefs(Value) =>
                /\ Value.ids \in Seq(Objects \cup {Nil})
                /\ Gathers(Top.refs, Value, ids)
<1>1. stack # <<>> /\ outcome = "encoding" /\ Field <= Len(FieldSpec)
  BY DEF InField
<1>2. PICK o : o = Top.object
  OBVIOUS
<1>3. /\ o \in Objects /\ Field = Len(Written(o)) + 1 /\ FieldSpec = Specs(o)
      /\ Value = Current(o) /\ Written(o) \in Seq(WireValues) /\ Top.refs \in Seq(Nat)
  BY <1>1, <1>2, TopTypes
<1>4. /\ Len(Written(o)) \in Nat /\ Len(Specs(o)) \in Nat
      /\ DOMAIN heap[o].fields = 1 .. Len(Specs(o))
      /\ \A k \in DOMAIN heap[o].fields : InMemory(heap[o].fields[k])
  BY <1>3, ArgumentTypes DEF IInv, TypeOK
<1>5. InProgress(o) /\ Len(Written(o)) + 1 \in DOMAIN heap[o].fields
  BY <1>1, <1>3, <1>4 DEF InProgress
<1>6. InMemory(Value)
  BY <1>3, <1>4, <1>5 DEF Current
<1>7. ASSUME HasRefs(Value)
      PROVE  Value.ids \in Seq(Objects \cup {Nil}) /\ Gathers(Top.refs, Value, ids)
  <2>1. Value.ids \in Seq(Objects \cup {Nil})
    BY <1>6, <1>7 DEF InMemory, HasRefs, Null
  <2>2. CASE Top.refs = <<>>
    <3>1. Len(Top.refs) = 0 /\ DOMAIN Top.refs = {} /\ Len(Value.ids) \in Nat
      BY <2>1, <2>2
    <3> QED
      BY <1>7, <2>1, <3>1 DEF Gathers
  <2>3. CASE Top.refs # <<>>
    BY <1>1, <1>2, <1>3, <2>1, <2>3 DEF IInv, StackInv
  <2> QED
    BY <2>1, <2>2, <2>3
<1> QED
  BY <1>1, <1>2, <1>3, <1>5, <1>6, <1>7

LEMMA NullStep ==
    ASSUME IInv, EncodeNull
    PROVE  IInv'
<1>1. InField /\ Value \in {Null, Pos(NoPos)} /\ Write(Null) /\ sources' = sources
  BY DEF EncodeNull
<1>2. Null \in WireValues
  BY DEF WireValues
<1>3. fset' = fset
  BY <1>1 DEF Write, inputs
<1>4. sources' \in Seq(SourceSet) /\ SourcesInv'
  BY <1>1, <1>3 DEF IInv, TypeOK, SourcesInv, SourcesInterned
<1>5. Stands(Null, Value, ids, sources', fset)
  BY <1>1 DEF Stands, HasRefs, Null, Pos
<1> QED
  BY <1>1, <1>2, <1>4, <1>5, WriteStep

LEMMA ScalarStep ==
    ASSUME IInv, EncodeScalar
    PROVE  IInv'
<1>1. InField /\ Value.tag = "scalar"
  BY DEF EncodeScalar
<1>2. CASE Value.value \in Registered /\ Write(Value) /\ sources' = sources
  <2>1. Value = Scalar(Value.value)
    BY <1>1, TopField DEF InMemory, HasRefs, Null
  <2>2. Value \in WireValues
    BY <1>2, <2>1 DEF WireValues
  <2>3. fset' = fset
    BY <1>2 DEF Write, inputs
  <2>4. sources' \in Seq(SourceSet) /\ SourcesInv'
    BY <1>2, <2>3 DEF IInv, TypeOK, SourcesInv, SourcesInterned
  <2>5. Stands(Value, Value, ids, sources', fset)
    BY <1>1 DEF Stands, HasRefs
  <2> QED
    BY <1>1, <1>2, <2>2, <2>4, <2>5, WriteStep
<1>3. CASE Fail
  BY <1>3, QuietStep DEF Fail, inputs
<1> QED
  BY <1>2, <1>3 DEF EncodeScalar

LEMMA PositionTypes ==
    ASSUME IInv, NEW f \in FileOf(Value.pos)
    PROVE  /\ f \in Files /\ fset[f].base \in Nat /\ fset[f].size \in Nat
           /\ fset[f].lines \in Lines /\ Value.pos \in Int
           /\ Value.pos - fset[f].base \in Int
           /\ fset[f].base + (Value.pos - fset[f].base) = Value.pos
           /\ Value.pos - fset[f].base \in 0 .. fset[f].size
<1>1. fset # Nil /\ f \in DOMAIN fset /\ Covers(fset[f], Value.pos)
  BY DEF FileOf, FilesAt
<1>2. /\ f \in Files /\ fset[f].base \in Nat /\ fset[f].size \in Nat
      /\ fset[f].lines \in Lines
  BY <1>1, ArgumentTypes DEF IInv, TypeOK, ArgumentsOK
<1>3. Value.pos \in fset[f].base .. fset[f].base + fset[f].size
  BY <1>1, <1>2 DEF Covers
<1> QED
  BY <1>2, <1>3

LEMMA NewSourceType ==
    ASSUME IInv, NEW f \in FileOf(Value.pos)
    PROVE  NewSource(f) \in SourceSet /\ NewSource(f).file = f
<1> PICK source, n, l : /\ n = Len(sources) + 1
                        /\ l = IF fset[f].size # 0 THEN fset[f].lines ELSE Nil
                        /\ source = NewSource(f)
  OBVIOUS
<1>1. n \in Nat /\ l \in Lines
  BY PositionTypes DEF IInv, TypeOK, Lines
<1>2. source = [id |-> n, file |-> f, size |-> fset[f].size, lines |-> l]
  BY DEF NewSource
<1>3. source \in SourceSet /\ source.file = f
  BY <1>1, <1>2, PositionTypes DEF SourceSet
<1> QED
  BY <1>3

LEMMA PositionStep ==
    ASSUME IInv, EncodePosition
    PROVE  IInv'
<1>1. InField /\ Value.tag = "pos" /\ Value.pos # NoPos
  BY DEF EncodePosition
<1>2. CASE Fail
  BY <1>2, QuietStep DEF Fail, inputs
<1>3. ASSUME NEW f \in FileOf(Value.pos)
      PROVE  /\ f \in Files /\ fset[f].base \in Nat /\ fset[f].size \in Nat
             /\ fset[f].lines \in Lines /\ Value.pos \in Int
             /\ Value.pos - fset[f].base \in Int
             /\ fset[f].base + (Value.pos - fset[f].base) = Value.pos
             /\ Value.pos - fset[f].base \in 0 .. fset[f].size
  BY PositionTypes
<1>4. ASSUME NEW f \in FileOf(Value.pos), NEW k \in DOMAIN sources',
             Write(At(k, Value.pos - fset[f].base)),
             sources'[k].file = f, sources' \in Seq(SourceSet), SourcesInv',
             \A j \in DOMAIN sources : j \in DOMAIN sources' /\ sources'[j] = sources[j]
      PROVE  IInv'
  <2> DEFINE offset == Value.pos - fset[f].base
             wire == At(k, offset)
  <2>1. offset \in Int /\ k \in Nat
    BY <1>3, <1>4
  <2>2. wire \in WireValues
    BY <2>1 DEF WireValues
  <2>3. fset' = fset
    BY <1>4 DEF Write, inputs
  <2>4. sources'[k].size = fset[f].size
    BY <1>4, <2>3 DEF SourcesInv
  <2>5. wire.offset = offset
    BY DEF At
  <2>6. fset[f].base + offset = Value.pos /\ offset \in 0 .. fset[f].size
    BY <1>3
  <2> HIDE DEF offset
  <2>7. Stands(wire, Value, ids, sources', fset)
    BY <1>1, <1>4, <2>4, <2>5, <2>6 DEF Stands, HasRefs
  <2>8. Write(wire)
    BY <1>4 DEF offset
  <2> HIDE DEF wire
  <2> QED
    BY <1>1, <1>4, <2>2, <2>7, <2>8, WriteStep
<1>5. CASE \E f \in FileOf(Value.pos), k \in DOMAIN sources :
             /\ sources[k].file = f
             /\ Write(At(k, Value.pos - fset[f].base))
             /\ UNCHANGED sources
  <2>1. PICK f \in FileOf(Value.pos), k \in DOMAIN sources :
             /\ sources[k].file = f
             /\ Write(At(k, Value.pos - fset[f].base))
             /\ sources' = sources
    BY <1>5
  <2>2. fset' = fset
    BY <2>1 DEF Write, inputs
  <2>3. sources' \in Seq(SourceSet) /\ SourcesInv'
    BY <2>1, <2>2 DEF IInv, TypeOK, SourcesInv, SourcesInterned
  <2> QED
    BY <1>4, <2>1, <2>3
<1>6. CASE \E f \in FileOf(Value.pos) :
             /\ \A k \in DOMAIN sources : sources[k].file # f
             /\ sources' = Append(sources, NewSource(f))
             /\ Write(At(Len(sources) + 1, Value.pos - fset[f].base))
  <2>1. PICK f \in FileOf(Value.pos) :
             /\ \A k \in DOMAIN sources : sources[k].file # f
             /\ sources' = Append(sources, NewSource(f))
             /\ Write(At(Len(sources) + 1, Value.pos - fset[f].base))
    BY <1>6
  <2>2. fset' = fset
    BY <2>1 DEF Write, inputs
  <2>3. PICK source, n : source = NewSource(f) /\ n = Len(sources) + 1
    OBVIOUS
  <2>4. /\ source.id = n /\ source.file = f /\ source.size = fset[f].size
        /\ source.lines \in Lines
    <3>1. Nil \in Lines
      BY DEF Lines
    <3> QED
      BY <1>3, <2>3, <3>1 DEF NewSource
  <2>5. source \in SourceSet
    <3>1. n \in Nat
      BY <2>3 DEF IInv, TypeOK
    <3> QED
      BY <1>3, <2>3, <2>4, <3>1 DEF SourceSet, NewSource
  <2>6. /\ sources' \in Seq(SourceSet) /\ DOMAIN sources' = 1 .. n
        /\ DOMAIN sources = 1 .. n - 1 /\ n \in Nat /\ n > 0
        /\ sources'[n] = source
        /\ \A k \in DOMAIN sources : sources'[k] = sources[k]
    BY <2>1, <2>3, <2>5, Longer DEF IInv, TypeOK
  <2>7. \A k \in DOMAIN sources' : k = n \/ k \in DOMAIN sources
    BY <2>6
  <2>8. SourcesInterned'
    BY <2>1, <2>4, <2>6, <2>7 DEF IInv, SourcesInv, SourcesInterned
  <2>9. \A k \in DOMAIN sources' : sources'[k].size = fset'[sources'[k].file].size
    BY <2>2, <2>4, <2>6, <2>7 DEF IInv, SourcesInv
  <2>10. n \in DOMAIN sources' /\ sources'[n].file = f
    BY <2>4, <2>6
  <2>11. \A k \in DOMAIN sources : k \in DOMAIN sources' /\ sources'[k] = sources[k]
    BY <2>6
  <2>12. Write(At(n, Value.pos - fset[f].base))
    BY <2>1, <2>3
  <2>13. SourcesInv'
    BY <2>8, <2>9 DEF SourcesInv
  <2> QED
    BY <1>4, <2>6, <2>10, <2>11, <2>12, <2>13
<1> QED
  BY <1>2, <1>5, <1>6 DEF EncodePosition

LEMMA RefsTypes ==
    ASSUME IInv, InField, HasRefs(Value)
    PROVE  [Value EXCEPT !.ids = Top.refs] \in WireValues
<1>1. PICK value, refs : value = Value /\ refs = Top.refs
  OBVIOUS
<1>2. value = [tag |-> value.tag, ids |-> value.ids] /\ value.tag \in {"ref", "refs"}
  BY <1>1, TopField DEF InMemory, HasRefs, Null
<1>3. refs \in Seq(Nat)
  BY <1>1, TopField, TopTypes
<1>4. [value EXCEPT !.ids = refs] = [tag |-> value.tag, ids |-> refs]
  BY <1>2
<1>5. [value EXCEPT !.ids = refs] \in WireValues
  BY <1>2, <1>3, <1>4 DEF WireValues
<1> QED
  BY <1>1, <1>5

LEMMA RefsStep ==
    ASSUME IInv, EncodeRefs
    PROVE  IInv'
<1> DEFINE wire == [Value EXCEPT !.ids = Top.refs]
<1>1. /\ InField /\ HasRefs(Value) /\ Len(Top.refs) = Len(Value.ids)
      /\ Write(wire) /\ sources' = sources
  BY DEF EncodeRefs
<1>2. fset' = fset
  BY <1>1 DEF Write, inputs
<1>3. sources' \in Seq(SourceSet) /\ SourcesInv'
  BY <1>1, <1>2 DEF IInv, TypeOK, SourcesInv, SourcesInterned
<1>4. PICK value, refs : value = Value /\ refs = Top.refs
  OBVIOUS
<1>5. /\ HasRefs(value) /\ InMemory(value)
      /\ value.ids \in Seq(Objects \cup {Nil}) /\ Len(refs) = Len(value.ids)
      /\ \A i \in DOMAIN refs : /\ value.ids[i] \in DOMAIN ids
                                /\ refs[i] = ids[value.ids[i]]
  BY <1>1, <1>4, TopField DEF Gathers
<1>6. refs \in Seq(Nat)
  BY <1>1, <1>4, TopField, TopTypes
<1>7. DOMAIN refs = DOMAIN value.ids
  BY <1>5, <1>6
<1>8. refs = [i \in DOMAIN value.ids |-> ids[value.ids[i]]]
  BY <1>5, <1>6, <1>7
<1>9. wire = [value EXCEPT !.ids = refs]
  BY <1>4
<1>10. SeqRange(value.ids) \subseteq DOMAIN ids
  BY <1>5, <1>7 DEF SeqRange
<1>11. wire \in WireValues
  BY <1>1, RefsTypes
<1>12. Stands(wire, Value, ids, sources', fset)
  <2>1. wire = [value EXCEPT !.ids = [i \in DOMAIN value.ids |-> ids[value.ids[i]]]]
    BY <1>8, <1>9
  <2> HIDE DEF wire
  <2>2. Stands(wire, value, ids, sources', fset)
    BY <1>5, <1>10, <2>1, Zenon DEF Stands
  <2> QED
    BY <1>4, <2>2
<1> HIDE DEF wire
<1> QED
  BY <1>1, <1>3, <1>11, <1>12, WriteStep

LEMMA ChildStep ==
    ASSUME IInv, EncodeChild
    PROVE  IInv'
<1>1. PICK child : child = Value.ids[Len(Top.refs) + 1]
  OBVIOUS
<1>2. InField /\ HasRefs(Value) /\ Len(Top.refs) < Len(Value.ids)
  BY DEF EncodeChild
<1>3. /\ stack # <<>> /\ outcome = "encoding" /\ InProgress(Top.object)
      /\ Value.ids \in Seq(Objects \cup {Nil}) /\ Top.refs \in Seq(Nat)
      /\ Awaits(Top.refs, Current(Top.object), ids, child)
  BY <1>1, <1>2, TopField, TopTypes DEF Awaits
<1>4. child \in Objects \cup {Nil}
  <2>1. Len(Top.refs) + 1 \in DOMAIN Value.ids
    BY <1>2, <1>3
  <2> QED
    BY <1>1, <1>3, <2>1
<1>5. CASE Fail
  BY <1>5, QuietStep DEF Fail, inputs
<1>6. CASE child \in DOMAIN ids /\ UNCHANGED <<inputs, ids, rows, sources, outcome>>
           /\ stack' = [stack EXCEPT ![Len(stack)].refs = Append(@, ids[child])]
  <2>1. PICK n : n = Len(stack)
    OBVIOUS
  <2>2. n \in DOMAIN stack /\ Top = stack[n] /\ DOMAIN stack = 1 .. n /\ n \in Nat
    BY <1>3, <2>1, TopTypes
  <2>3. SubSeq(stack, 1, n) = stack
    BY <2>1 DEF IInv, TypeOK
  <2>4. TakesOver(n, child)
    BY <1>6, <2>1, <2>3 DEF TakesOver
  <2>5. \A k \in DOMAIN stack : ~ (k > n)
    BY <2>2
  <2>6. InProgress(stack[n].object) /\ Awaits(stack[n].refs, Current(stack[n].object), ids, child)
    BY <1>3, <2>2
  <2> QED
    BY <1>3, <1>6, <2>2, <2>4, <2>5, <2>6, GatherStep
<1>7. CASE /\ child # Nil /\ child \notin DOMAIN ids
           /\ Enter(child) /\ UNCHANGED <<inputs, sources, outcome>>
  BY <1>3, <1>4, <1>7, EnterStep
<1> QED
  BY <1>1, <1>5, <1>6, <1>7 DEF EncodeChild

LEMMA ReturnStep ==
    ASSUME IInv, Return
    PROVE  IInv'
<1>1. PICK m : m = Len(stack)
  OBVIOUS
<1>2. PICK o : o = Top.object
  OBVIOUS
<1>3. /\ outcome = "encoding" /\ stack # <<>> /\ Field > Len(FieldSpec)
      /\ UNCHANGED <<inputs, ids, rows, sources, outcome>>
  BY DEF Return
<1>4. /\ m \in DOMAIN stack /\ Top = stack[m] /\ DOMAIN stack = 1 .. m /\ m \in Nat
      /\ o \in DOMAIN ids /\ o \in Objects /\ Written(o) \in Seq(WireValues)
      /\ Field = Len(Written(o)) + 1 /\ FieldSpec = Specs(o)
  BY <1>1, <1>2, <1>3, TopTypes
<1>5. Len(Written(o)) = Len(Specs(o))
  <2>1. Len(Written(o)) \in Nat /\ Len(Specs(o)) \in Nat
    BY <1>4, ArgumentTypes DEF IInv, TypeOK
  <2> QED
    BY <1>3, <1>4, <2>1 DEF IInv, RowsInv
<1>6. stack \in Seq(FrameSet)
  BY DEF IInv, TypeOK
<1>7. CASE m = 1
  <2>1. SubSeq(stack, 1, m - 1) = <<>>
    BY <1>6, <1>7
  <2>2. stack' = <<>>
    BY <1>1, <2>1 DEF Return
  <2> QED
    BY <1>1, <1>2, <1>3, <1>5, <1>7, <2>2, EmptyStep
<1>8. CASE m # 1
  <2>1. PICK n : n = m - 1
    OBVIOUS
  <2>2. n \in DOMAIN stack /\ n < m /\ n + 1 = m /\ n \in Nat
    BY <1>4, <1>8, <2>1
  <2>3. Len(SubSeq(stack, 1, n)) = n /\ SubSeq(stack, 1, n) # <<>>
    BY <1>4, <1>6, <2>2
  <2>4. stack' = [SubSeq(stack, 1, n) EXCEPT ![n].refs = Append(@, ids[o])]
    BY <1>1, <1>2, <2>1, <2>3 DEF Return
  <2>5. TakesOver(n, o)
    BY <1>3, <2>4 DEF TakesOver
  <2>6. /\ InProgress(stack[n].object)
        /\ Awaits(stack[n].refs, Current(stack[n].object), ids, stack[n + 1].object)
    BY <1>1, <2>2 DEF IInv, StackInv
  <2>7. stack[n + 1].object = o
    BY <1>2, <1>4, <2>2
  <2>8. \A k \in DOMAIN stack :
          k > n => Len(Written(stack[k].object)) = Len(Specs(stack[k].object))
    <3> TAKE k \in DOMAIN stack
    <3> HAVE k > n
    <3>1. k = n + 1
      BY <1>4, <2>2
    <3> QED
      BY <1>5, <2>7, <3>1
  <2>9. Awaits(stack[n].refs, Current(stack[n].object), ids, o)
    BY <2>6, <2>7
  <2> QED
    BY <1>3, <1>4, <2>2, <2>5, <2>6, <2>8, <2>9, GatherStep
<1> QED
  BY <1>7, <1>8

LEMMA StartStep ==
    ASSUME IInv, Start
    PROVE  IInv'
<1>1. CASE Fail
  BY <1>1, QuietStep DEF Fail, inputs
<1>2. CASE /\ root # Nil /\ Enter(root) /\ outcome' = "encoding"
           /\ UNCHANGED <<inputs, sources>>
  <2>1. root \in Objects
    BY <1>2, ArgumentTypes DEF IInv, TypeOK, ArgumentsOK
  <2>2. ids = <<>> /\ stack = <<>>
    BY DEF Start, IInv, CalledInv
  <2>3. root \notin DOMAIN ids
    BY <2>2
  <2> QED
    BY <1>2, <2>1, <2>2, <2>3, EnterStep
<1> QED
  BY <1>1, <1>2 DEF Start

-----------------------------------------------------------------------------
(* The invariant holds initially and is preserved.                         *)

LEMMA InitInv ==
    ASSUME Init
    PROVE  IInv
<1>1. /\ Arguments /\ ids = <<>> /\ rows = <<>> /\ sources = <<>> /\ stack = <<>>
      /\ outcome = "called"
  BY DEF Init, Arguments
<1>2. DOMAIN ids = {} /\ DOMAIN rows = {} /\ DOMAIN sources = {} /\ DOMAIN stack = {}
  BY <1>1
<1>3. TypeOK
  BY <1>1, <1>2 DEF TypeOK
<1>4. OneRowEach /\ RowsInv /\ StackInv
  BY <1>1, <1>2 DEF OneRowEach, RowsInv, StackInv
<1>5. SourcesInv /\ CalledInv
  BY <1>1, <1>2 DEF SourcesInv, SourcesInterned, CalledInv
<1> QED
  BY <1>3, <1>4, <1>5 DEF IInv

LEMMA NextInv ==
    ASSUME IInv, [Next]_vars
    PROVE  IInv'
<1>1. CASE Start
  BY <1>1, StartStep
<1>2. CASE EncodeNull
  BY <1>2, NullStep
<1>3. CASE EncodeScalar
  BY <1>3, ScalarStep
<1>4. CASE EncodePosition
  BY <1>4, PositionStep
<1>5. CASE EncodeChild
  BY <1>5, ChildStep
<1>6. CASE EncodeRefs
  BY <1>6, RefsStep
<1>7. CASE Return
  BY <1>7, ReturnStep
<1>8. CASE Deliver
  BY <1>8, QuietStep DEF Deliver, inputs
<1>9. CASE UNCHANGED vars
  <2>1. UNCHANGED <<inputs, ids, rows, sources, stack>> /\ outcome' = outcome
    BY <1>9 DEF vars, inputs
  <2>2. outcome \in {"called", "encoding", "encoded", "error"}
    BY DEF IInv, TypeOK
  <2> QED
    BY <2>1, <2>2, QuietStep
<1> QED
  BY <1>1, <1>2, <1>3, <1>4, <1>5, <1>6, <1>7, <1>8, <1>9 DEF Next

-----------------------------------------------------------------------------
(* What the invariant is for                                               *)

LEMMA InvImplies ==
    ASSUME IInv
    PROVE  EncoderInv
<1>1. RowsRepresent
  BY RepresentsStands DEF IInv, RowsInv, RowsRepresent, Written, Specs
<1>2. CallersWait
  <2> SUFFICES ASSUME NEW k \in DOMAIN stack
               PROVE  /\ stack[k].refs # <<>> => \A i \in DOMAIN stack[k].refs :
                           stack[k].refs[i] = ids[Current(stack[k].object).ids[i]]
                      /\ k < Len(stack) =>
                           stack[k + 1].object =
                             Current(stack[k].object).ids[Len(stack[k].refs) + 1]
    BY DEF CallersWait, Current, Written
  <2>1. CASE k < Len(stack)
    BY <2>1 DEF IInv, StackInv, Awaits, Gathers
  <2>2. CASE ~ (k < Len(stack))
    <3>1. k = Len(stack) /\ stack # <<>>
      BY <2>2 DEF IInv, TypeOK
    <3> QED
      BY <2>2, <3>1 DEF IInv, StackInv, Gathers, Top
  <2> QED
    BY <2>1, <2>2
<1> QED
  BY <1>1, <1>2 DEF EncoderInv, IInv, SourcesInv

LEMMA EnterStays ==
    ASSUME IInv, NEW object, object \notin DOMAIN ids, Enter(object),
           sources' = sources
    PROVE  Stays
<1>1. \A o \in DOMAIN ids : o \in DOMAIN ids' /\ ids'[o] = ids[o]
  BY DEF Enter
<1>2. \A k \in DOMAIN rows : k \in DOMAIN rows' /\ rows'[k] = rows[k]
  BY DEF Enter, IInv, TypeOK
<1> QED
  BY <1>1, <1>2 DEF Stays

LEMMA WriteStays ==
    ASSUME IInv, InField, NEW value \in WireValues, Write(value),
           \A k \in DOMAIN sources : k \in DOMAIN sources' /\ sources'[k] = sources[k]
    PROVE  Stays
<1>1. PICK o, r : o = Top.object /\ r = ids[o]
  OBVIOUS
<1>2. PICK fields : fields = Append(Written(o), value)
  OBVIOUS
<1>3. /\ r \in DOMAIN rows /\ rows[r] \in RowSet /\ Written(o) \in Seq(WireValues)
      /\ Written(o) = rows[r].fields
  BY <1>1, TopTypes DEF InField, Written
<1>4. /\ ids' = ids
      /\ rows' = [rows EXCEPT ![r] = [rows[r] EXCEPT !.fields = fields]]
  BY <1>1, <1>2 DEF Write, Written
<1>5. /\ fields \in Seq(WireValues)
      /\ \A f \in DOMAIN Written(o) : f \in DOMAIN fields /\ fields[f] = Written(o)[f]
  BY <1>2, <1>3, Longer
<1>6. [rows[r] EXCEPT !.fields = fields].fields = fields
  BY <1>3, <1>5, RowWithFields
<1>7. \A k \in DOMAIN rows : /\ k \in DOMAIN rows'
                             /\ k # r => rows'[k] = rows[k]
  BY <1>4
<1>8. rows'[r].fields = fields
  BY <1>3, <1>4, <1>6
<1>9. ASSUME NEW k \in DOMAIN rows, NEW f \in DOMAIN rows[k].fields
      PROVE  f \in DOMAIN rows'[k].fields /\ rows'[k].fields[f] = rows[k].fields[f]
  <2>1. CASE k = r
    BY <1>3, <1>5, <1>8, <2>1
  <2>2. CASE k # r
    BY <1>7, <2>2
  <2> QED
    BY <2>1, <2>2
<1> QED
  BY <1>4, <1>7, <1>9 DEF Stays

LEMMA NextStays ==
    ASSUME IInv, [Next]_vars
    PROVE  Stays
<1>1. ASSUME UNCHANGED <<ids, rows, sources>>
      PROVE  Stays
  BY <1>1 DEF Stays
<1>2. CASE Start
  <2>1. CASE Fail
    BY <1>1, <2>1 DEF Fail
  <2>2. CASE root # Nil /\ Enter(root) /\ UNCHANGED <<inputs, sources>>
    <3>1. root \notin DOMAIN ids
      BY <1>2 DEF Start, IInv, CalledInv
    <3> QED
      BY <2>2, <3>1, EnterStays
  <2> QED
    BY <1>2, <2>1, <2>2 DEF Start
<1>3. CASE EncodeNull
  <2>1. Null \in WireValues
    BY DEF WireValues
  <2> QED
    BY <1>3, <2>1, WriteStays DEF EncodeNull
<1>4. CASE EncodeScalar
  <2>1. CASE Fail
    BY <1>1, <2>1 DEF Fail
  <2>2. CASE Value.value \in Registered /\ Write(Value) /\ UNCHANGED sources
    <3>1. InField /\ Value = Scalar(Value.value)
      BY <1>4, TopField DEF EncodeScalar, InMemory, HasRefs, Null
    <3>2. Value \in WireValues
      BY <2>2, <3>1 DEF WireValues
    <3> QED
      BY <2>2, <3>1, <3>2, WriteStays
  <2> QED
    BY <1>4, <2>1, <2>2 DEF EncodeScalar
<1>5. CASE EncodePosition
  <2>0. /\ InField /\ sources \in Seq(SourceSet)
    BY <1>5 DEF EncodePosition, IInv, TypeOK
  <2>1. CASE Fail
    BY <1>1, <2>1 DEF Fail
  <2>2. CASE \E f \in FileOf(Value.pos), k \in DOMAIN sources :
                /\ Write(At(k, Value.pos - fset[f].base))
                /\ UNCHANGED sources
    <3>1. PICK f \in FileOf(Value.pos), k \in DOMAIN sources :
                /\ Write(At(k, Value.pos - fset[f].base))
                /\ UNCHANGED sources
      BY <2>2
    <3>2. k \in Nat
      BY <2>0
    <3>3. At(k, Value.pos - fset[f].base) \in WireValues
      BY <3>2, PositionTypes DEF WireValues
    <3> QED
      BY <2>0, <3>1, <3>3, WriteStays
  <2>3. CASE \E f \in FileOf(Value.pos) :
                /\ sources' = Append(sources, NewSource(f))
                /\ Write(At(Len(sources) + 1, Value.pos - fset[f].base))
    <3>1. PICK f \in FileOf(Value.pos) :
                /\ sources' = Append(sources, NewSource(f))
                /\ Write(At(Len(sources) + 1, Value.pos - fset[f].base))
      BY <2>3
    <3>2. Len(sources) + 1 \in Nat
      BY <2>0
    <3>3. At(Len(sources) + 1, Value.pos - fset[f].base) \in WireValues
      BY <3>2, PositionTypes DEF WireValues
    <3>4. \A k \in DOMAIN sources : k \in DOMAIN sources' /\ sources'[k] = sources[k]
      BY <2>0, <3>1
    <3> QED
      BY <2>0, <3>1, <3>3, <3>4, WriteStays
  <2> QED
    BY <1>5, <2>1, <2>2, <2>3 DEF EncodePosition
<1>6. CASE EncodeChild
  BY <1>1, <1>6, EnterStays DEF EncodeChild, Fail
<1>7. CASE EncodeRefs
  <2>1. InField /\ Write([Value EXCEPT !.ids = Top.refs]) /\ sources' = sources
    BY <1>7 DEF EncodeRefs
  <2>2. [Value EXCEPT !.ids = Top.refs] \in WireValues
    BY <1>7, RefsTypes DEF EncodeRefs
  <2> QED
    BY <2>1, <2>2, WriteStays
<1>8. CASE Return
  BY <1>1, <1>8 DEF Return
<1>9. CASE Deliver
  BY <1>1, <1>9 DEF Deliver
<1>10. CASE UNCHANGED vars
  BY <1>1, <1>10 DEF vars
<1> QED
  BY <1>2, <1>3, <1>4, <1>5, <1>6, <1>7, <1>8, <1>9, <1>10 DEF Next

-----------------------------------------------------------------------------
(* The FileSet of Go                                                        *)

LEMMA FileSetLayout ==
    ASSUME Arguments, fset # Nil
    PROVE  /\ \A f \in DOMAIN fset :
                /\ fset[f].base \in Nat /\ fset[f].base >= 1
                /\ fset[f].size \in Sizes /\ fset[f].size \in Nat
                /\ fset[f].base + fset[f].size + 1 <= MaxInt
           /\ \A f, g \in DOMAIN fset :
                \/ f = g
                \/ fset[f].base + fset[f].size < fset[g].base
                \/ fset[g].base + fset[g].size < fset[f].base
<1>1. PICK input \in Inputs : fset = input.fset
  BY DEF Arguments
<1>2. \A f \in DOMAIN fset : fset[f].base \in Nat /\ fset[f].size \in Nat
  BY ArgumentTypes DEF ArgumentsOK
<1> QED
  BY <1>1, <1>2, FileSetsAssumption

LEMMA FileSetLines ==
    ASSUME Arguments, fset # Nil, NEW f \in DOMAIN fset, fset[f].size # 0
    PROVE  LinesOK(fset[f])
<1>1. PICK input \in Inputs : fset = input.fset
  BY DEF Arguments
<1> QED
  BY <1>1, FileSetsAssumption

-----------------------------------------------------------------------------
(* What has been met                                                       *)

LEMMA ReachableLaws ==
    ASSUME NEW g, NEW r \in DOMAIN g
    PROVE  /\ r \in Reachable(g, r) /\ Reachable(g, r) \subseteq DOMAIN g
           /\ \A o \in Reachable(g, r) : \A c \in Successors(g, o) :
                c \in DOMAIN g => c \in Reachable(g, r)
           /\ \A S \in SUBSET DOMAIN g :
                r \in S /\ Closed(g, S) => Reachable(g, r) \subseteq S
BY DEF Reachable, Closed

LEMMA Children ==
    ASSUME NEW fields, NEW spec, NEW c
    PROVE  (\E p \in DOMAIN FieldRefs(fields, spec) : FieldRefs(fields, spec)[p] = c)
             <=> \E k \in DOMAIN spec \cap DOMAIN fields :
                    IsChildField(spec[k]) /\ c \in SeqRange(RefIds(fields[k]))
<1> PICK refs : refs = FieldRefs(fields, spec)
  OBVIOUS
<1>1. /\ \A k, i : <<k, i>> \in DOMAIN refs <=>
                     /\ k \in DOMAIN spec \cap DOMAIN fields /\ IsChildField(spec[k])
                     /\ i \in DOMAIN RefIds(fields[k])
      /\ \A p \in DOMAIN refs : p = <<p[1], p[2]>> /\ refs[p] = RefIds(fields[p[1]])[p[2]]
  BY DEF FieldRefs
<1>2. ASSUME NEW p \in DOMAIN refs, refs[p] = c
      PROVE  \E k \in DOMAIN spec \cap DOMAIN fields :
                IsChildField(spec[k]) /\ c \in SeqRange(RefIds(fields[k]))
  BY <1>1, <1>2 DEF SeqRange
<1>3. ASSUME NEW k \in DOMAIN spec \cap DOMAIN fields, IsChildField(spec[k]),
             c \in SeqRange(RefIds(fields[k]))
      PROVE  \E p \in DOMAIN refs : refs[p] = c
  <2>1. PICK i \in DOMAIN RefIds(fields[k]) : RefIds(fields[k])[i] = c
    BY <1>3 DEF SeqRange
  <2>2. <<k, i>> \in DOMAIN refs
    BY <1>1, <1>3
  <2>3. refs[<<k, i>>] = RefIds(fields[k])[i]
    BY <1>1, <2>2
  <2> QED
    BY <2>1, <2>2, <2>3
<1> QED
  BY <1>2, <1>3

(* Only child fields hold references.                                      *)
LEMMA RefsInChildFields ==
    ASSUME NEW value, NEW spec, FieldInMemory(value, spec)
    PROVE  /\ HasRefs(value) => IsChildField(spec)
           /\ RefIds(value) = IF HasRefs(value) THEN value.ids ELSE <<>>
BY DEF FieldInMemory, HasRefs, IsChildField, RefIds, Null, Ref, Refs, Pos, Scalar

LEMMA HeapEdges ==
    ASSUME Arguments, NEW o \in Objects, NEW c
    PROVE  c \in Successors(HeapGraph, o) <=>
             /\ c # Nil
             /\ \E k \in DOMAIN heap[o].fields :
                  /\ HasRefs(heap[o].fields[k])
                  /\ c \in SeqRange(heap[o].fields[k].ids)
<1> PICK fields, spec : fields = heap[o].fields /\ spec = Specs(o)
  OBVIOUS
<1> PICK refs : refs = FieldRefs(fields, spec)
  OBVIOUS
<1>1. HeapGraph[o] = [ p \in { q \in DOMAIN refs : refs[q] # Nil } |-> refs[p] ]
  BY DEF HeapGraph, Specs
<1>2. c \in Successors(HeapGraph, o) <=>
        c # Nil /\ \E p \in DOMAIN refs : refs[p] = c
  BY <1>1 DEF Successors
<1>3. /\ DOMAIN spec = DOMAIN fields
      /\ \A k \in DOMAIN fields : FieldInMemory(fields[k], spec[k])
  BY ArgumentTypes
<1>4. \A k \in DOMAIN fields :
        IsChildField(spec[k]) /\ c \in SeqRange(RefIds(fields[k])) <=>
        HasRefs(fields[k]) /\ c \in SeqRange(fields[k].ids)
  <2> SUFFICES ASSUME NEW k \in DOMAIN fields
               PROVE  IsChildField(spec[k]) /\ c \in SeqRange(RefIds(fields[k])) <=>
                      HasRefs(fields[k]) /\ c \in SeqRange(fields[k].ids)
    OBVIOUS
  <2>1. c \notin SeqRange(<<>>)
    BY DEF SeqRange
  <2> QED
    BY <1>3, <2>1, RefsInChildFields
<1> QED
  BY <1>2, <1>3, <1>4, Children

(* The sources are of files of the FileSet.                                *)
FilesKnown == \A k \in DOMAIN sources : fset # Nil /\ sources[k].file \in DOMAIN fset

(* What is met is reachable, and the Go types of fields suit their nodes.  *)
MetInv ==
    /\ WellTyped /\ FilesKnown
    /\ DOMAIN ids \subseteq Reached /\ Nil \notin DOMAIN ids
    /\ outcome \in {"encoding", "encoded"} => root \in DOMAIN ids
    /\ outcome = "encoded" => stack = <<>> /\ ValidForToolchain(Unit)

LEMMA MetInit == Init => MetInv
  BY DEF Init, MetInv, FilesKnown

LEMMA MetStep ==
    ASSUME IInv, MetInv, [Next]_vars
    PROVE  MetInv'
<1>1. UNCHANGED inputs
  BY DEF Next, Start, Fail, EncodeNull, EncodeScalar, EncodePosition, EncodeChild,
         EncodeRefs, Return, Deliver, Write, vars, inputs
<1>2. WellTyped' /\ HeapGraph' = HeapGraph /\ Reached' = Reached
  <2>1. HeapGraph' = HeapGraph
    BY <1>1 DEF inputs, HeapGraph
  <2> QED
    BY <1>1, <2>1 DEF inputs, MetInv, WellTyped, Reached
<1>0. FilesKnown'
  <2>1. CASE sources' = sources
    BY <1>1, <2>1 DEF inputs, MetInv, FilesKnown
  <2>2. CASE \E f \in FileOf(Value.pos) : sources' = Append(sources, NewSource(f))
    <3>1. PICK f \in FileOf(Value.pos) : sources' = Append(sources, NewSource(f))
      BY <2>2
    <3>2. fset # Nil /\ f \in DOMAIN fset
      BY DEF FileOf, FilesAt
    <3>3. NewSource(f) \in SourceSet /\ NewSource(f).file = f
      BY NewSourceType
    <3> QED
      BY <1>1, <3>1, <3>2, <3>3, Longer
      DEF inputs, MetInv, FilesKnown, IInv, TypeOK
  <2> QED
    BY <2>1, <2>2
    DEF Next, Start, Fail, EncodeNull, EncodeScalar, EncodePosition, EncodeChild,
        EncodeRefs, Return, Deliver, vars
<1>3. CASE UNCHANGED ids /\ outcome' = outcome /\ outcome # "encoded"
  BY <1>0, <1>1, <1>2, <1>3 DEF MetInv, inputs
<1>4. CASE Fail
  BY <1>0, <1>2, <1>4 DEF Fail, MetInv
<1>5. ASSUME NEW object \in Objects \ {Nil}, Enter(object), outcome' = "encoding",
             object \in Reached, outcome = "encoding" \/ object = root
      PROVE  MetInv'
  <2>1. DOMAIN ids' = DOMAIN ids \cup {object}
    BY <1>5 DEF Enter
  <2> QED
    BY <1>0, <1>1, <1>2, <1>5, <2>1 DEF MetInv, inputs
<1>6. CASE Start
  <2>1. CASE root # Nil /\ Enter(root) /\ outcome' = "encoding"
    <3>1. root \in Objects \ {Nil}
      BY <2>1, ArgumentTypes DEF IInv, TypeOK, ArgumentsOK
    <3>2. root \in Reached
      BY <3>1, ReachableLaws DEF Reached, HeapGraph
    <3> QED
      BY <1>5, <2>1, <3>1, <3>2
  <2> QED
    BY <1>4, <1>6, <2>1 DEF Start
<1>7. CASE EncodeChild
  <2>1. CASE \E child : /\ child = Value.ids[Len(Top.refs) + 1]
                        /\ child # Nil /\ Enter(child) /\ outcome' = outcome
    <3>1. PICK child : /\ child = Value.ids[Len(Top.refs) + 1]
                       /\ child # Nil /\ Enter(child) /\ outcome' = outcome
      BY <2>1
    <3>2. PICK o : o = Top.object
      OBVIOUS
    <3>3. /\ InField /\ HasRefs(Value) /\ Len(Top.refs) < Len(Value.ids)
      BY <1>7 DEF EncodeChild
    <3>4. /\ stack # <<>> /\ outcome = "encoding" /\ InProgress(o)
          /\ Value = Current(o) /\ Value.ids \in Seq(Objects \cup {Nil})
      BY <3>2, <3>3, TopField
    <3>5. /\ o \in Objects /\ o \in DOMAIN ids /\ Top.refs \in Seq(Nat)
          /\ Written(o) \in Seq(WireValues)
      BY <3>2, <3>4, TopTypes
    <3>6. Len(Top.refs) + 1 \in DOMAIN Value.ids
      BY <3>3, <3>4, <3>5
    <3>7. child \in SeqRange(Value.ids) /\ child \in Objects \ {Nil}
      BY <3>1, <3>4, <3>6 DEF SeqRange
    <3>8. Len(Written(o)) + 1 \in DOMAIN heap[o].fields
      BY <3>4, <3>5, ArgumentTypes DEF InProgress, IInv, TypeOK
    <3>9. child \in Successors(HeapGraph, o)
      BY <3>1, <3>3, <3>4, <3>5, <3>7, <3>8, HeapEdges DEF Current, IInv, TypeOK
    <3>10. o \in Reached /\ DOMAIN HeapGraph = Objects
      BY <3>5 DEF MetInv, HeapGraph
    <3>11. child \in Reached
      BY <3>7, <3>9, <3>10 DEF Reached, Reachable, Closed
    <3> QED
      BY <1>5, <3>1, <3>4, <3>7, <3>11
  <2>2. CASE UNCHANGED ids /\ outcome' = outcome
    BY <1>3, <1>7, <2>2 DEF EncodeChild, InField
  <2> QED
    BY <1>4, <1>7, <2>1, <2>2 DEF EncodeChild
<1>8. CASE EncodeNull \/ EncodeRefs \/ Return
  BY <1>3, <1>8 DEF EncodeNull, EncodeRefs, InField, Write, Return
<1>9. CASE EncodeScalar \/ EncodePosition
  BY <1>3, <1>4, <1>9 DEF EncodeScalar, EncodePosition, InField, Write
<1>10. CASE Deliver
  <2>1. /\ Unit' = Unit /\ ids' = ids /\ stack' = <<>> /\ outcome = "encoding"
        /\ outcome' \in {"encoded", "error"}
        /\ outcome' = "encoded" => ValidForToolchain(Unit)
    BY <1>1, <1>10 DEF Deliver, Unit, inputs
  <2> QED
    BY <1>0, <1>1, <1>2, <2>1 DEF MetInv, inputs
<1>11. CASE UNCHANGED vars
  <2>1. Unit' = Unit /\ ids' = ids /\ stack' = stack /\ outcome' = outcome
    BY <1>11 DEF vars, Unit
  <2> QED
    BY <1>0, <1>1, <1>2, <2>1 DEF MetInv, inputs
<1> QED
  BY <1>6, <1>7, <1>8, <1>9, <1>10, <1>11 DEF Next

(* When no call is active, every row says all of its object.               *)
LEMMA RowsComplete ==
    ASSUME IInv, stack = <<>>, NEW o \in DOMAIN ids
    PROVE  /\ o \in Objects /\ ids[o] \in DOMAIN rows /\ rows[ids[o]] \in RowSet
           /\ rows[ids[o]].id = ids[o] /\ rows[ids[o]].kind = heap[o].kind
           /\ rows[ids[o]].origin = heap[o].origin
           /\ Written(o) = rows[ids[o]].fields
           /\ Written(o) \in Seq(WireValues)
           /\ DOMAIN Written(o) = DOMAIN Specs(o)
           /\ DOMAIN heap[o].fields = DOMAIN Specs(o)
           /\ \A k \in DOMAIN Specs(o) :
                /\ Written(o)[k] \in WireValues
                /\ Stands(Written(o)[k], heap[o].fields[k], ids, sources, fset)
                /\ FieldInMemory(heap[o].fields[k], Specs(o)[k])
<1>1. /\ o \in Objects /\ ids[o] \in DOMAIN rows /\ rows[ids[o]] \in RowSet
      /\ rows[ids[o]].id = ids[o] /\ rows[ids[o]].kind = heap[o].kind
      /\ rows[ids[o]].origin = heap[o].origin
  BY DEF IInv, TypeOK, OneRowEach
<1>2. Written(o) = rows[ids[o]].fields /\ Written(o) \in Seq(WireValues)
  BY <1>1 DEF RowSet, Written
<1>3. Len(Written(o)) = Len(Specs(o))
  BY DEF IInv, RowsInv
<1>4. /\ DOMAIN heap[o].fields = 1 .. Len(Specs(o)) /\ Specs(o) \in Seq(FieldSpecs)
      /\ \A k \in DOMAIN heap[o].fields : FieldInMemory(heap[o].fields[k], Specs(o)[k])
  BY <1>1, ArgumentTypes DEF IInv, TypeOK
<1>5. DOMAIN Written(o) = DOMAIN Specs(o) /\ DOMAIN heap[o].fields = DOMAIN Specs(o)
  BY <1>2, <1>3, <1>4
<1>6. ASSUME NEW k \in DOMAIN Specs(o)
      PROVE  /\ Written(o)[k] \in WireValues
             /\ Stands(Written(o)[k], heap[o].fields[k], ids, sources, fset)
             /\ FieldInMemory(heap[o].fields[k], Specs(o)[k])
  BY <1>2, <1>4, <1>5 DEF IInv, RowsInv
<1> QED
  BY <1>1, <1>2, <1>5, <1>6

(* What a field of a row refers to, and the forms it may have.             *)
LEMMA WireForm ==
    ASSUME IInv, stack = <<>>,
           NEW o \in DOMAIN ids, NEW k \in DOMAIN Specs(o)
    PROVE  LET wire == Written(o)[k]
               value == heap[o].fields[k]
               spec == Specs(o)[k]
           IN /\ spec.type = "position" => wire.tag \in {"null", "position"}
              /\ spec.type = "scalar" =>
                   wire.tag = "scalar" /\ wire.value \in Registered
              /\ spec.type = "node" => wire.tag \in {"null", "ref"}
              /\ spec.type = "nodes" => wire.tag \in {"null", "refs"}
              /\ wire.tag = "null" => value = Null \/ spec.type = "position"
              /\ value = Null => wire = Null
              /\ SeqRange(RefIds(value)) \subseteq DOMAIN ids
              /\ SeqRange(RefIds(wire)) = { ids[c] : c \in SeqRange(RefIds(value)) }
<1> PICK wire, value, spec :
        wire = Written(o)[k] /\ value = heap[o].fields[k] /\ spec = Specs(o)[k]
  OBVIOUS
<1>2. /\ Stands(wire, value, ids, sources, fset)
      /\ wire \in WireValues /\ FieldInMemory(value, spec)
  BY RowsComplete
<1>3. \A x, y : /\ Null.tag = "null" /\ Ref(x).tag = "ref" /\ Refs(x).tag = "refs"
                /\ Scalar(x).tag = "scalar" /\ Pos(x).tag = "pos"
                /\ Scalar(x).value = x /\ At(x, y).tag = "position"
  BY DEF Null, Ref, Refs, Scalar, Pos, At
<1>4. CASE HasRefs(value)
  <2>1. \/ spec.type = "node" /\ value.tag = "ref"
        \/ spec.type = "nodes" /\ value.tag = "refs"
    BY <1>2, <1>3, <1>4 DEF FieldInMemory, HasRefs
  <2>2. /\ SeqRange(value.ids) \subseteq DOMAIN ids
        /\ wire = [value EXCEPT !.ids = [i \in DOMAIN value.ids |-> ids[value.ids[i]]]]
    BY <1>2, <1>4 DEF Stands
  <2>3. PICK list : list = [i \in DOMAIN value.ids |-> ids[value.ids[i]]]
    OBVIOUS
  <2>4. value = [tag |-> value.tag, ids |-> value.ids]
    <3>1. \A x : Ref(x) = [tag |-> "ref", ids |-> Ref(x).ids]
      BY DEF Ref
    <3>2. \A x : Refs(x) = [tag |-> "refs", ids |-> Refs(x).ids]
      BY DEF Refs
    <3> QED
      BY <1>2, <1>3, <1>4, <3>1, <3>2 DEF FieldInMemory, HasRefs
  <2>5. /\ wire.ids = list /\ wire.tag = value.tag
        /\ RefIds(value) = value.ids /\ RefIds(wire) = list
    <3>1. wire = [value EXCEPT !.ids = list]
      BY <2>2, <2>3
    <3>2. wire.ids = list /\ wire.tag = value.tag
      BY <2>4, <3>1
    <3> QED
      BY <1>4, <3>2 DEF RefIds, HasRefs
  <2>6. SeqRange(list) = { ids[c] : c \in SeqRange(value.ids) }
    BY <2>3 DEF SeqRange
  <2>7. value # Null /\ wire.tag # "null"
    BY <1>3, <1>4, <2>5 DEF HasRefs
  <2> QED
    BY <2>1, <2>2, <2>5, <2>6, <2>7
<1>5. CASE ~ HasRefs(value)
  <2>1. /\ value.tag = "pos" => wire = Null \/ \E j : wire = At(j, wire.offset)
        /\ value.tag # "pos" => wire = value
    BY <1>2, <1>5 DEF Stands
  <2>2. ~ HasRefs(wire)
    BY <1>3, <1>5, <2>1 DEF HasRefs
  <2>3. RefIds(wire) = <<>> /\ RefIds(value) = <<>>
    BY <1>5, <2>2 DEF RefIds
  <2>4. SeqRange(RefIds(wire)) = {} /\ SeqRange(RefIds(value)) = {}
    BY <2>3 DEF SeqRange
  <2>5. CASE spec.type = "scalar" /\ value = Scalar(value.value)
    <3>1. value.tag = "scalar"
      BY <2>5 DEF Scalar
    <3>2. wire = value
      BY <2>1, <3>1
    <3>3. \A w \in [tag : {"ref", "refs"}, ids : Seq(Nat)] : w.tag # "scalar"
      OBVIOUS
    <3>4. \E v \in Registered : wire = Scalar(v)
      BY <1>2, <1>3, <3>1, <3>2, <3>3 DEF WireValues
    <3>5. wire.value \in Registered
      BY <1>3, <3>4
    <3>6. value # Null /\ wire.tag # "null"
      BY <1>3, <3>1, <3>2
    <3> QED
      BY <2>4, <2>5, <3>1, <3>2, <3>5, <3>6
  <2>6. CASE spec.type = "position" /\ value = Pos(value.pos)
    <3>1. value.tag = "pos"
      BY <2>6 DEF Pos
    <3>2. wire.tag \in {"null", "position"} /\ value # Null
      BY <1>3, <2>1, <3>1
    <3> QED
      BY <2>4, <2>6, <3>2
  <2>7. CASE spec.type \in {"node", "nodes"} /\ value = Null
    <3>1. wire = Null
      BY <1>3, <2>1, <2>7
    <3> QED
      BY <1>3, <2>4, <2>7, <3>1
  <2>8. \/ spec.type = "scalar" /\ value = Scalar(value.value)
        \/ spec.type = "position" /\ value = Pos(value.pos)
        \/ spec.type \in {"node", "nodes"} /\ value = Null
    BY <1>2, <1>3, <1>5 DEF FieldInMemory, HasRefs
  <2> QED
    BY <2>5, <2>6, <2>7, <2>8
<1> QED
  BY <1>4, <1>5

(* No call is active.                                                      *)
Returned == outcome \in {"encoding", "encoded"} /\ stack = <<>>

(* By then all that can be reached has been met.                           *)
LEMMA AllMet ==
    ASSUME IInv, MetInv, Returned
    PROVE  DOMAIN ids = Reached /\ root \in DOMAIN ids
<1>1. root \in DOMAIN ids /\ stack = <<>> /\ DOMAIN ids \subseteq Reached
  BY DEF MetInv, Returned
<1>2. DOMAIN ids \subseteq Objects /\ Arguments /\ DOMAIN HeapGraph = Objects
  BY DEF IInv, TypeOK, HeapGraph
<1>3. ASSUME NEW o \in DOMAIN ids, NEW c \in Successors(HeapGraph, o)
      PROVE  c \in DOMAIN ids
  <2>1. PICK k \in DOMAIN heap[o].fields :
           /\ HasRefs(heap[o].fields[k]) /\ c \in SeqRange(heap[o].fields[k].ids)
    BY <1>2, HeapEdges
  <2>2. Stands(Written(o)[k], heap[o].fields[k], ids, sources, fset)
    BY <1>1, <2>1, RowsComplete
  <2> QED
    BY <2>1, <2>2 DEF Stands
<1>4. Closed(HeapGraph, DOMAIN ids)
  BY <1>3 DEF Closed
<1>5. Reached \subseteq DOMAIN ids
  BY <1>1, <1>2, <1>4, ReachableLaws DEF Reached
<1> QED
  BY <1>1, <1>5

LEMMA AllIsMet ==
    ASSUME IInv, MetInv, outcome = "encoded"
    PROVE  DOMAIN ids = Reached /\ root \in DOMAIN ids /\ stack = <<>>
BY AllMet DEF MetInv, Returned

-----------------------------------------------------------------------------
(* What is refused                                                         *)

LEMMA Counted ==
    ASSUME NEW n \in Nat, NEW S, NEW f \in [1 .. n -> S],
           \A j, k \in 1 .. n : f[j] = f[k] => j = k,
           \A x \in S : \E k \in 1 .. n : f[k] = x
    PROVE  Cardinality(S) = n
<1>1. f \in Bijection(1 .. n, S)
  BY DEF Bijection, Injection, IsInjective, Surjection
<1>2. ExistsBijection(1 .. n, S)
  BY <1>1 DEF ExistsBijection
<1> QED
  BY <1>2, FS_CountingElements

(* H is G with its vertices renamed by f.                                  *)
Renames(f, G, H) ==
    /\ DOMAIN H = { f[o] : o \in DOMAIN G }
    /\ \A o, p \in DOMAIN G : f[o] = f[p] => o = p
    /\ \A o \in DOMAIN G : \A x :
         x \in Successors(H, f[o]) <=>
           \E c \in DOMAIN G : c \in Successors(G, o) /\ x = f[c]

(* Cycles do not depend on the names of the vertices.                      *)
LEMMA AcyclicRenamed ==
    ASSUME NEW G, NEW H, NEW f, Renames(f, G, H)
    PROVE  Acyclic(G) <=> Acyclic(H)
<1> USE DEF Renames
<1>1. ASSUME Acyclic(G), NEW S \in SUBSET DOMAIN H, S # {}, Sinkless(H, S)
      PROVE  FALSE
  <2> DEFINE T == { o \in DOMAIN G : f[o] \in S }
  <2>1. T \in SUBSET DOMAIN G /\ T # {}
    BY <1>1
  <2>2. ASSUME NEW o \in T PROVE Successors(G, o) \cap T # {}
    <3>1. PICK x \in S : x \in Successors(H, f[o])
      BY <1>1 DEF Sinkless
    <3>2. PICK c \in DOMAIN G : c \in Successors(G, o) /\ x = f[c]
      BY <3>1
    <3> QED
      BY <3>1, <3>2
  <2> HIDE DEF T
  <2> QED
    BY <1>1, <2>1, <2>2 DEF Acyclic, Sinkless
<1>2. ASSUME Acyclic(H), NEW S \in SUBSET DOMAIN G, S # {}, Sinkless(G, S)
      PROVE  FALSE
  <2> DEFINE T == { f[o] : o \in S }
  <2>1. T \in SUBSET DOMAIN H /\ T # {}
    BY <1>2
  <2>2. ASSUME NEW x \in T PROVE Successors(H, x) \cap T # {}
    <3>1. PICK o \in S : x = f[o]
      OBVIOUS
    <3>2. PICK c \in S : c \in Successors(G, o)
      BY <1>2, <3>1 DEF Sinkless
    <3>3. f[c] \in Successors(H, f[o]) /\ f[c] \in T
      BY <3>1, <3>2
    <3> QED
      BY <3>1, <3>3
  <2> HIDE DEF T
  <2> QED
    BY <1>2, <2>1, <2>2 DEF Acyclic, Sinkless
<1> QED
  BY <1>1, <1>2 DEF Acyclic

LEMMA MetFiles ==
    ASSUME NEW f
    PROVE  f \in FilesMet <=>
             \E o \in Reached : \E k \in DOMAIN heap[o].fields :
                /\ heap[o].fields[k].tag = "pos"
                /\ f \in FileOf(heap[o].fields[k].pos)
<1> DEFINE Of(value) == IF value.tag = "pos" THEN FileOf(value.pos) ELSE {}
<1>1. FilesMet = UNION { UNION { Of(value) : value \in SeqRange(heap[o].fields) } :
                           o \in Reached }
  BY DEF FilesMet
<1>2. \A value : f \in Of(value) <=> value.tag = "pos" /\ f \in FileOf(value.pos)
  OBVIOUS
<1> HIDE DEF Of
<1>3. f \in FilesMet <=> \E o \in Reached : \E value \in SeqRange(heap[o].fields) :
                            f \in Of(value)
  BY <1>1
<1> QED
  BY <1>2, <1>3 DEF SeqRange

(* A source is what its file is, but for the line table of an empty file.  *)
SourceOfFile(source, F, met) ==
    /\ source.file \in met
    /\ source.lines = IF source.size # 0 THEN F[source.file].lines ELSE Nil

FaultInv ==
    /\ \A k \in DOMAIN sources : SourceOfFile(sources[k], fset, FilesMet)
    /\ outcome = "error" => ~ EncodableArguments

LEMMA FieldSources ==
    ASSUME IInv, MetInv, Returned, NEW o \in DOMAIN ids,
           NEW k \in DOMAIN heap[o].fields,
           heap[o].fields[k].tag = "pos", heap[o].fields[k].pos # NoPos
    PROVE  \E j \in DOMAIN sources :
             /\ fset # Nil /\ sources[j].file \in FileOf(heap[o].fields[k].pos)
             /\ \A f \in FileOf(heap[o].fields[k].pos) : f = sources[j].file
<1> PICK wire, value : wire = Written(o)[k] /\ value = heap[o].fields[k]
  OBVIOUS
<1>1. Stands(wire, value, ids, sources, fset)
  BY RowsComplete DEF Returned
<1>2. PICK j \in DOMAIN sources :
           /\ fset[sources[j].file].base + wire.offset = value.pos
           /\ wire.offset \in 0 .. sources[j].size
  BY <1>1 DEF Stands, HasRefs
<1>3. PICK g : g = sources[j].file
  OBVIOUS
<1>4. /\ fset # Nil /\ g \in DOMAIN fset /\ sources[j].size = fset[g].size
      /\ Arguments
  BY <1>3 DEF MetInv, FilesKnown, IInv, SourcesInv, TypeOK
<1>5. \A f \in DOMAIN fset : fset[f].base \in Nat /\ fset[f].size \in Nat
  BY <1>4, FileSetLayout
<1>6. value.pos \in fset[g].base .. fset[g].base + fset[g].size
  BY <1>2, <1>3, <1>4, <1>5
<1>7. g \in FileOf(value.pos)
  BY <1>4, <1>6 DEF FileOf, FilesAt, Covers
<1>8. ASSUME NEW f \in FileOf(value.pos) PROVE f = g
  <2>1. f \in DOMAIN fset /\ value.pos \in fset[f].base .. fset[f].base + fset[f].size
    BY <1>4 DEF FileOf, FilesAt, Covers
  <2>2. \/ f = g
        \/ fset[f].base + fset[f].size < fset[g].base
        \/ fset[g].base + fset[g].size < fset[f].base
    BY <1>4, <2>1, FileSetLayout
  <2> QED
    BY <1>4, <1>5, <1>6, <2>1, <2>2
<1> QED
  BY <1>3, <1>4, <1>7, <1>8

LEMMA RowsAreReached ==
    ASSUME IInv, MetInv, Returned
    PROVE  Cardinality(Reached) = Len(rows)
<1>1. rows \in Seq(RowSet) /\ Len(rows) \in Nat /\ DOMAIN rows = 1 .. Len(rows)
  BY DEF IInv, TypeOK
<1>2. /\ \A k \in DOMAIN rows : \E o \in DOMAIN ids : ids[o] = k
      /\ \A o \in DOMAIN ids : ids[o] \in DOMAIN rows
      /\ \A o, p \in DOMAIN ids : ids[o] = ids[p] => o = p
  BY DEF IInv, OneRowEach
<1> DEFINE of == [k \in 1 .. Len(rows) |-> CHOOSE o \in DOMAIN ids : ids[o] = k]
<1>3. \A k \in 1 .. Len(rows) : of[k] \in DOMAIN ids /\ ids[of[k]] = k
  BY <1>1, <1>2
<1>4. of \in [1 .. Len(rows) -> Reached]
  BY <1>3, AllMet
<1> HIDE DEF of
<1>5. \A j, k \in 1 .. Len(rows) : of[j] = of[k] => j = k
  BY <1>3
<1>6. \A o \in Reached : \E k \in 1 .. Len(rows) : of[k] = o
  BY <1>1, <1>2, <1>3, AllMet
<1> QED
  BY <1>1, <1>4, <1>5, <1>6, Counted

LEMMA SourcesAreMet ==
    ASSUME IInv, MetInv, FaultInv, Returned
    PROVE  Cardinality(FilesMet) = Len(sources)
<1>1. /\ sources \in Seq(SourceSet) /\ Len(sources) \in Nat
      /\ DOMAIN sources = 1 .. Len(sources)
  BY DEF IInv, TypeOK
<1> DEFINE of == [k \in 1 .. Len(sources) |-> sources[k].file]
<1>2. of \in [1 .. Len(sources) -> FilesMet]
  BY <1>1 DEF FaultInv, SourceOfFile
<1>3. \A k \in 1 .. Len(sources) : of[k] = sources[k].file
  OBVIOUS
<1> HIDE DEF of
<1>4. \A j, k \in 1 .. Len(sources) : of[j] = of[k] => j = k
  BY <1>1, <1>3 DEF IInv, SourcesInv, SourcesInterned
<1>5. ASSUME NEW f \in FilesMet PROVE \E k \in 1 .. Len(sources) : of[k] = f
  <2>0. PICK o \in Reached : \E k \in DOMAIN heap[o].fields :
           heap[o].fields[k].tag = "pos" /\ f \in FileOf(heap[o].fields[k].pos)
    BY MetFiles
  <2>1. PICK k \in DOMAIN heap[o].fields :
           heap[o].fields[k].tag = "pos" /\ f \in FileOf(heap[o].fields[k].pos)
    BY <2>0
  <2>2. fset # Nil /\ f \in DOMAIN fset /\ Covers(fset[f], heap[o].fields[k].pos)
    BY <2>1 DEF FileOf, FilesAt
  <2>3. heap[o].fields[k].pos # NoPos
    <3>1. fset[f].base \in Nat /\ fset[f].base >= 1 /\ fset[f].size \in Nat
      BY <2>2, FileSetLayout DEF IInv, TypeOK
    <3> QED
      BY <2>2, <3>1 DEF Covers, NoPos
  <2>4. PICK j \in DOMAIN sources : f = sources[j].file
    BY <2>1, <2>3, AllMet, FieldSources
  <2> QED
    BY <1>1, <1>3, <2>4
<1> QED
  BY <1>1, <1>2, <1>4, <1>5, Counted

(* The rows have the cycles of the objects.                                *)
LEMMA RowGraph ==
    ASSUME IInv, MetInv, Returned
    PROVE  Acyclic([o \in Reached |-> HeapGraph[o]])
             <=> Acyclic(ChildGraph(SeqRange(Unit.nodes)))
<1> PICK G, H : /\ G = [o \in Reached |-> HeapGraph[o]]
                /\ H = ChildGraph(SeqRange(Unit.nodes))
  OBVIOUS
<1>1. stack = <<>> /\ DOMAIN ids = Reached /\ Arguments
  BY AllMet DEF Returned, IInv, TypeOK
<1>2. /\ \A o, p \in DOMAIN ids : ids[o] = ids[p] => o = p
      /\ \A k \in DOMAIN rows : rows[k].id = k /\ \E o \in DOMAIN ids : ids[o] = k
      /\ \A o \in DOMAIN ids : ids[o] \in DOMAIN rows /\ rows[ids[o]].id = ids[o]
  BY DEF IInv, OneRowEach
<1>3. DOMAIN G = DOMAIN ids
  BY <1>1
<1>4. DOMAIN H = { ids[o] : o \in DOMAIN G }
  <2>1. DOMAIN H = { node.id : node \in SeqRange(rows) }
    BY DEF ChildGraph, Unit
  <2>2. \A x : x \in { node.id : node \in SeqRange(rows) } <=> x \in DOMAIN rows
    BY <1>2 DEF SeqRange
  <2>3. \A x : x \in { ids[o] : o \in DOMAIN ids } <=> x \in DOMAIN rows
    BY <1>2
  <2> QED
    BY <1>3, <2>1, <2>2, <2>3
<1>5. ASSUME NEW o \in DOMAIN ids
      PROVE  H[ids[o]] = FieldRefs(Written(o), Specs(o))
  <2> DEFINE row == CHOOSE node \in SeqRange(rows) : node.id = ids[o]
  <2>1. rows[ids[o]] \in SeqRange(rows) /\ rows[ids[o]].id = ids[o]
    BY <1>2 DEF SeqRange
  <2>2. row \in SeqRange(rows) /\ row.id = ids[o]
    BY <2>1
  <2>3. H[ids[o]] = FieldRefs(row.fields, KindFields[row.kind])
    BY <2>1 DEF ChildGraph, Unit
  <2> HIDE DEF row
  <2>4. row = rows[ids[o]]
    BY <1>2, <2>2 DEF SeqRange
  <2> QED
    BY <1>1, <2>3, <2>4, RowsComplete DEF Specs
<1>6. ASSUME NEW o \in DOMAIN G, NEW x
      PROVE  x \in Successors(H, ids[o]) <=>
               \E c \in DOMAIN G : c \in Successors(G, o) /\ x = ids[c]
  <2>1. /\ o \in DOMAIN ids /\ o \in Objects
        /\ DOMAIN Written(o) = DOMAIN Specs(o)
        /\ DOMAIN heap[o].fields = DOMAIN Specs(o)
        /\ \A k \in DOMAIN Specs(o) : FieldInMemory(heap[o].fields[k], Specs(o)[k])
    BY <1>1, <1>3, RowsComplete
  <2>2. x \in Successors(H, ids[o]) <=>
          \E k \in DOMAIN Specs(o) :
             IsChildField(Specs(o)[k]) /\ x \in SeqRange(RefIds(Written(o)[k]))
    <3>1. PICK refs : refs = FieldRefs(Written(o), Specs(o))
      OBVIOUS
    <3>2. x \in Successors(H, ids[o]) <=> \E p \in DOMAIN refs : refs[p] = x
      BY <1>5, <2>1, <3>1 DEF Successors
    <3> QED
      BY <2>1, <3>1, <3>2, Children
  <2>3. \A c : c \in Successors(G, o) <=> c \in Successors(HeapGraph, o)
    BY DEF Successors
  <2>4. \A k \in DOMAIN Specs(o) :
          /\ SeqRange(RefIds(heap[o].fields[k])) \subseteq DOMAIN ids
          /\ SeqRange(RefIds(Written(o)[k]))
               = { ids[c] : c \in SeqRange(RefIds(heap[o].fields[k])) }
    BY <1>1, <2>1, WireForm
  <2>5. SeqRange(<<>>) = {}
    BY DEF SeqRange
  <2>6. ASSUME x \in Successors(H, ids[o])
        PROVE  \E c \in DOMAIN G : c \in Successors(G, o) /\ x = ids[c]
    <3>1. PICK k \in DOMAIN Specs(o) :
             IsChildField(Specs(o)[k]) /\ x \in SeqRange(RefIds(Written(o)[k]))
      BY <2>2, <2>6
    <3>2. PICK c \in DOMAIN ids : c \in SeqRange(RefIds(heap[o].fields[k])) /\ x = ids[c]
      BY <2>4, <3>1
    <3>3. HasRefs(heap[o].fields[k]) /\ c \in SeqRange(heap[o].fields[k].ids)
      BY <2>5, <3>2 DEF RefIds
    <3>4. c # Nil
      BY <3>2 DEF MetInv
    <3>5. c \in Successors(HeapGraph, o)
      BY <1>1, <2>1, <3>3, <3>4, HeapEdges
    <3> QED
      BY <1>3, <2>3, <3>2, <3>5
  <2>7. ASSUME NEW c \in DOMAIN G, c \in Successors(G, o), x = ids[c]
        PROVE  x \in Successors(H, ids[o])
    <3>1. PICK k \in DOMAIN heap[o].fields :
            /\ HasRefs(heap[o].fields[k]) /\ c \in SeqRange(heap[o].fields[k].ids)
      BY <1>1, <2>1, <2>3, <2>7, HeapEdges
    <3>2. IsChildField(Specs(o)[k]) /\ c \in SeqRange(RefIds(heap[o].fields[k]))
      BY <2>1, <3>1, RefsInChildFields DEF RefIds
    <3>3. x \in SeqRange(RefIds(Written(o)[k]))
      BY <2>1, <2>4, <2>7, <3>2
    <3> QED
      BY <2>1, <2>2, <3>2, <3>3
  <2> QED
    BY <2>6, <2>7
<1>7. \A o, p \in DOMAIN G : ids[o] = ids[p] => o = p
  BY <1>2, <1>3
<1>8. Acyclic(G) <=> Acyclic(H)
  <2>1. Renames(ids, G, H)
    BY <1>4, <1>6, <1>7 DEF Renames
  <2> QED
    BY <2>1, AcyclicRenamed
<1> QED
  BY <1>8

(* What validation finds out about the records of the caller.              *)
LEMMA RecordsAreChecked ==
    ASSUME IInv, MetInv, FaultInv, Returned
    PROVE  RecordsFit <=> OriginsOK(Unit) /\ AnnotationsOK(Unit)
<1>1. /\ Unit.origins = options.origins /\ Unit.annotations = options.annotations
      /\ Unit.sources = sources /\ Unit.nodes = rows
  BY DEF Unit
<1>2. /\ OriginIds(Unit) = { r.id : r \in SeqRange(options.origins) }
      /\ OriginGraph(Unit) = OriginGraph(options)
  <2>1. OriginIds(Unit) = OriginIds(options)
    BY <1>1 DEF OriginIds
  <2> QED
    BY <1>1, <2>1 DEF OriginIds, OriginGraph, SeqRange
<1>3. ASSUME NEW span
      PROVE  SpanOK(span, Unit) <=>
               /\ span.source \in 1 .. Cardinality(FilesMet)
               /\ 0 <= span.first /\ span.first <= span.last
               /\ span.last <= fset[sources[span.source].file].size
  <2>1. /\ DOMAIN sources = 1 .. Cardinality(FilesMet)
        /\ \A k \in DOMAIN sources :
             sources[k].id = k /\ sources[k].size = fset[sources[k].file].size
    BY SourcesAreMet DEF IInv, TypeOK, SourcesInv, SourcesInterned
  <2>2. SpanOK(span, Unit) <=>
          \E k \in DOMAIN sources :
             /\ sources[k].id = span.source
             /\ 0 <= span.first /\ span.first <= span.last
             /\ span.last <= sources[k].size
    BY <1>1 DEF SpanOK, SeqRange
  <2> QED
    BY <2>1, <2>2
<1>4. NodeIds(Unit) = 1 .. Cardinality(Reached)
  <2>1. DOMAIN rows = 1 .. Cardinality(Reached)
    BY RowsAreReached DEF IInv, TypeOK
  <2>2. \A k \in DOMAIN rows : rows[k].id = k
    BY DEF IInv, OneRowEach
  <2> QED
    BY <1>1, <2>1, <2>2 DEF NodeIds
<1>5. OriginsOK(Unit) <=>
        /\ Distinct(options.origins)
        /\ \A origin \in SeqRange(options.origins) :
             /\ SeqRange(origin.inputs) \subseteq
                  { r.id : r \in SeqRange(options.origins) }
             /\ \A span \in origin.spans :
                  /\ span.source \in 1 .. Cardinality(FilesMet)
                  /\ 0 <= span.first /\ span.first <= span.last
                  /\ span.last <= fset[sources[span.source].file].size
        /\ Acyclic(OriginGraph(options))
  BY <1>1, <1>2, <1>3 DEF OriginsOK
<1>6. AnnotationsOK(Unit) <=>
        /\ \A note \in SeqRange(options.annotations) :
             note.namespace # Nil /\ note.node \in 1 .. Cardinality(Reached)
        /\ \A j, k \in DOMAIN options.annotations :
             options.annotations[j] = options.annotations[k] => j = k
  <2>1. AnnotationsOK(Unit) <=>
          \A j \in DOMAIN options.annotations :
            /\ options.annotations[j].namespace # Nil
            /\ options.annotations[j].node \in 1 .. Cardinality(Reached)
            /\ \A k \in DOMAIN options.annotations \ {j} :
                 options.annotations[j] # options.annotations[k]
    BY <1>1, <1>4 DEF AnnotationsOK
  <2> QED
    BY <2>1 DEF SeqRange
<1> QED
  BY <1>5, <1>6 DEF RecordsFit

LEMMA SourcesAreValid ==
    ASSUME IInv, MetInv, FaultInv
    PROVE  /\ Distinct(sources)
           /\ \A source \in SeqRange(sources) : source.size >= 0 /\ LinesOK(source)
<1>1. Distinct(sources)
  BY DEF IInv, SourcesInv, SourcesInterned, Distinct
<1>2. ASSUME NEW source \in SeqRange(sources)
      PROVE  source.size >= 0 /\ LinesOK(source)
  <2>1. PICK k \in DOMAIN sources : source = sources[k]
    BY DEF SeqRange
  <2>2. PICK f : f = sources[k].file
    OBVIOUS
  <2>3. /\ fset # Nil /\ f \in DOMAIN fset /\ source.size = fset[f].size
        /\ source.lines = IF source.size # 0 THEN fset[f].lines ELSE Nil
    BY <2>1, <2>2 DEF MetInv, FilesKnown, FaultInv, SourceOfFile, IInv, SourcesInv
  <2>4. source.size \in Nat /\ (fset[f].size # 0 => LinesOK(fset[f]))
    BY <2>3, FileSetLayout, FileSetLines DEF IInv, TypeOK
  <2>5. LinesOK(source)
    BY <2>3, <2>4 DEF LinesOK
  <2> QED
    BY <2>4, <2>5
<1> QED
  BY <1>1, <1>2

LEMMA WireIsValid ==
    ASSUME IInv, stack = <<>>,
           NEW o \in DOMAIN ids, NEW k \in DOMAIN Specs(o)
    PROVE  ValueOK(Written(o)[k], Unit)
<1> PICK wire, value : wire = Written(o)[k] /\ value = heap[o].fields[k]
  OBVIOUS
<1>1. /\ Stands(wire, value, ids, sources, fset)
      /\ FieldInMemory(value, Specs(o)[k])
      /\ SeqRange(RefIds(value)) \subseteq DOMAIN ids
      /\ SeqRange(RefIds(wire)) = { ids[c] : c \in SeqRange(RefIds(value)) }
  BY RowsComplete, WireForm
<1>2. SeqRange(RefIds(wire)) \subseteq NodeIds(Unit)
  <2>1. \A c \in DOMAIN ids : ids[c] \in DOMAIN rows /\ rows[ids[c]].id = ids[c]
    BY DEF IInv, OneRowEach
  <2>2. NodeIds(Unit) = { rows[n].id : n \in DOMAIN rows }
    BY DEF NodeIds, Unit
  <2> QED
    BY <1>1, <2>1, <2>2
<1>3. ASSUME wire.tag = "position"
      PROVE  \E source \in SeqRange(Unit.sources) :
               source.id = wire.source /\ wire.offset \in 0 .. source.size
  <2>1. value.tag = "pos" /\ value.pos # NoPos /\ ~ HasRefs(value)
    <3>1. \A x, y : /\ Null.tag = "null" /\ Ref(x).tag = "ref"
                    /\ Refs(x).tag = "refs" /\ Pos(x).tag = "pos"
                    /\ Scalar(x).tag = "scalar"
      BY DEF Null, Ref, Refs, Scalar, Pos
    <3>2. Specs(o)[k].type = "position"
      <4>1. Specs(o)[k].type \in {"node", "nodes", "scalar", "position"}
        BY <1>1 DEF FieldInMemory
      <4> QED
        BY <1>3, <4>1, WireForm
    <3> QED
      BY <1>1, <1>3, <3>1, <3>2 DEF FieldInMemory, Stands, HasRefs
  <2>2. PICK j \in DOMAIN sources :
           wire = At(j, wire.offset) /\ wire.offset \in 0 .. sources[j].size
    BY <1>1, <2>1 DEF Stands
  <2>3. wire.source = j /\ sources[j].id = j /\ sources[j] \in SeqRange(Unit.sources)
    BY <2>2 DEF At, IInv, SourcesInv, SourcesInterned, SeqRange, Unit
  <2> QED
    BY <2>2, <2>3
<1> QED
  BY <1>2, <1>3 DEF ValueOK

LEMMA FieldIsChecked ==
    ASSUME IInv, MetInv, Returned, NEW o \in DOMAIN ids, NEW k \in DOMAIN Specs(o)
    PROVE  Encodable(heap[o].fields[k], Specs(o)[k]) <=>
             (Written(o)[k] = Null => Nullable(Specs(o)[k]))
<1> PICK wire, value, spec :
        wire = Written(o)[k] /\ value = heap[o].fields[k] /\ spec = Specs(o)[k]
  OBVIOUS
<1>1. /\ Stands(wire, value, ids, sources, fset) /\ stack = <<>>
      /\ FieldInMemory(value, spec) /\ k \in DOMAIN heap[o].fields
      /\ SeqRange(RefIds(value)) \subseteq DOMAIN ids
      /\ wire.tag = "null" => value = Null \/ spec.type = "position"
      /\ value = Null => wire = Null
      /\ spec.type = "scalar" => wire.value \in Registered
  BY RowsComplete, WireForm DEF Returned
<1>2. \A x, y : /\ Null.tag = "null" /\ Ref(x).tag = "ref" /\ Refs(x).tag = "refs"
                /\ Scalar(x).tag = "scalar" /\ Pos(x).tag = "pos"
  BY DEF Null, Ref, Refs, Scalar, Pos
<1>3. HasRefs(value) => Nil \notin SeqRange(value.ids)
  BY <1>1 DEF RefIds, MetInv
<1>4. value.tag = "scalar" => value.value \in Registered
  <2> SUFFICES ASSUME value.tag = "scalar" PROVE value.value \in Registered
    OBVIOUS
  <2>1. spec.type = "scalar"
    BY <1>1, <1>2 DEF FieldInMemory
  <2>2. wire = value
    BY <1>1 DEF Stands, HasRefs
  <2> QED
    BY <1>1, <2>1, <2>2
<1>5. value.tag = "pos" /\ value.pos # NoPos => FileOf(value.pos) # {}
  BY <1>1, FieldSources
<1>6. Encodable(value, spec) <=> (value = Null => Nullable(spec))
  BY <1>3, <1>4, <1>5 DEF Encodable
<1>7. (value = Null => Nullable(spec)) <=> (wire = Null => Nullable(spec))
  BY <1>1, <1>2 DEF Nullable
<1> QED
  BY <1>6, <1>7

(* Validation of a complete unit finds all that can be wrong with the      *)
(* arguments and has not stopped the encoding before.                      *)
LEMMA ValidIfEncodable ==
    ASSUME IInv, MetInv, FaultInv, Returned
    PROVE  ValidForToolchain(Unit) <=> EncodableArguments
<1>1. /\ Unit.origins = options.origins /\ Unit.sources = sources
      /\ Unit.nodes = rows /\ Unit.root = ids[root]
  BY DEF Unit
<1>2. /\ DOMAIN ids = Reached /\ root \in DOMAIN ids /\ root # Nil /\ stack = <<>>
  BY AllMet DEF MetInv, Returned
<1>3. ASSUME NEW node \in SeqRange(rows)
      PROVE  \E o \in DOMAIN ids : node = rows[ids[o]]
  BY DEF SeqRange, IInv, OneRowEach
<1>4. ASSUME NEW o \in DOMAIN ids
      PROVE  /\ rows[ids[o]] \in SeqRange(rows)
             /\ rows[ids[o]].kind = heap[o].kind /\ heap[o].kind \in DOMAIN KindFields
             /\ rows[ids[o]].origin = heap[o].origin
             /\ rows[ids[o]].fields = Written(o)
             /\ DOMAIN Written(o) = DOMAIN Specs(o)
             /\ DOMAIN heap[o].fields = DOMAIN Specs(o)
  <2>1. heap[o].kind \in DOMAIN KindFields
    BY ArgumentTypes DEF IInv, TypeOK
  <2> QED
    BY <1>2, <2>1, RowsComplete DEF SeqRange
<1>5. ASSUME NEW o \in DOMAIN ids
      PROVE  FieldsOK(rows[ids[o]]) <=>
               \A k \in DOMAIN heap[o].fields :
                  Encodable(heap[o].fields[k], KindFields[heap[o].kind][k])
  <2>1. \A k \in DOMAIN Specs(o) :
          /\ Encodable(heap[o].fields[k], Specs(o)[k]) <=>
               (Written(o)[k] = Null => Nullable(Specs(o)[k]))
          /\ Specs(o)[k].type = "node" => Written(o)[k].tag \in {"null", "ref"}
          /\ Specs(o)[k].type = "nodes" => Written(o)[k].tag \in {"null", "refs"}
    BY <1>2, FieldIsChecked, WireForm
  <2> QED
    BY <1>4, <2>1 DEF FieldsOK, Specs
<1>6. /\ Distinct(rows) /\ ids[root] \in NodeIds(Unit)
  <2>1. \A k \in DOMAIN rows : rows[k].id = k
    BY DEF IInv, OneRowEach
  <2>2. ids[root] \in DOMAIN rows
    BY <1>2 DEF IInv, OneRowEach
  <2> QED
    BY <1>1, <2>1, <2>2 DEF Distinct, NodeIds
<1>7. \A node \in SeqRange(rows) : \A k \in DOMAIN node.fields :
         ValueOK(node.fields[k], Unit)
  BY <1>2, <1>3, <1>4, WireIsValid
<1>8. OriginIds(Unit) = OriginIds(options)
  BY <1>1 DEF OriginIds
<1>9. EnvelopeOK(Unit) <=>
        /\ \A node \in SeqRange(rows) : node.origin \in OriginIds(options) \cup {NoOrigin}
        /\ RecordsFit
  BY <1>1, <1>6, <1>7, <1>8, SourcesAreValid, RecordsAreChecked DEF EnvelopeOK
<1>10. (\A node \in SeqRange(rows) : node.origin \in OriginIds(options) \cup {NoOrigin})
         <=> \A o \in Reached : heap[o].origin \in OriginIds(options) \cup {NoOrigin}
  BY <1>2, <1>3, <1>4
<1>11. (\A node \in SeqRange(rows) : node.kind \in DOMAIN KindFields /\ FieldsOK(node))
         <=> \A o \in Reached : \A k \in DOMAIN heap[o].fields :
                Encodable(heap[o].fields[k], KindFields[heap[o].kind][k])
  BY <1>2, <1>3, <1>4, <1>5
<1> QED
  BY <1>1, <1>2, <1>9, <1>10, <1>11, RowGraph
  DEF ValidForToolchain, EncodableArguments

LEMMA FaultInit == Init => FaultInv
  BY DEF Init, FaultInv

(* Only the sources say more than the arguments.                           *)
LEMMA ArgumentsStay ==
    ASSUME UNCHANGED inputs
    PROVE  /\ Reached' = Reached /\ FilesMet' = FilesMet
           /\ sources' = sources => EncodableArguments' = EncodableArguments
<1>1. heap' = heap /\ root' = root /\ fset' = fset /\ options' = options
  BY DEF inputs
<1>2. HeapGraph' = HeapGraph
  BY <1>1 DEF HeapGraph
<1>3. Reached' = Reached
  BY <1>1, <1>2 DEF Reached
<1>4. \A pos : FileOf(pos)' = FileOf(pos)
  BY <1>1 DEF FileOf
<1>5. FilesMet' = FilesMet
  BY <1>1, <1>3, <1>4 DEF FilesMet
<1>6. ASSUME sources' = sources PROVE EncodableArguments' = EncodableArguments
  <2>1. RecordsFit' = RecordsFit
    BY <1>1, <1>3, <1>5, <1>6 DEF RecordsFit
  <2>2. \A value, spec : Encodable(value, spec)' = Encodable(value, spec)
    BY <1>4 DEF Encodable
  <2> QED
    BY <1>1, <1>2, <1>3, <2>1, <2>2 DEF EncodableArguments
<1> QED
  BY <1>3, <1>5, <1>6

(* A field that has no wire form.                                          *)
LEMMA FieldAtFault ==
    ASSUME IInv, MetInv, InField, ~ Encodable(Value, FieldSpec[Field])
    PROVE  ~ EncodableArguments
<1> PICK o : o = Top.object
  OBVIOUS
<1>1. /\ stack # <<>> /\ outcome = "encoding" /\ InProgress(o) /\ Value = Current(o)
  BY TopField
<1>2. /\ o \in Objects /\ o \in DOMAIN ids /\ Written(o) \in Seq(WireValues)
      /\ Field = Len(Written(o)) + 1
  BY <1>1, TopTypes
<1>3. Field \in DOMAIN heap[o].fields
  BY <1>1, <1>2, ArgumentTypes DEF InProgress, IInv, TypeOK
<1>4. o \in Reached
  BY <1>2 DEF MetInv
<1> QED
  BY <1>2, <1>3, <1>4 DEF EncodableArguments, Value, FieldSpec

LEMMA FaultStep ==
    ASSUME IInv, MetInv, FaultInv, [Next]_vars
    PROVE  FaultInv'
<1>1. UNCHANGED inputs
  BY DEF Next, Start, Fail, EncodeNull, EncodeScalar, EncodePosition, EncodeChild,
         EncodeRefs, Return, Deliver, Write, vars, inputs
<1>2. fset' = fset /\ FilesMet' = FilesMet
  BY <1>1, ArgumentsStay DEF inputs
<1>3. ASSUME sources' = sources
      PROVE  \A k \in DOMAIN sources' : SourceOfFile(sources'[k], fset', FilesMet')
  BY <1>2, <1>3 DEF FaultInv
<1>4. ASSUME Fail, ~ EncodableArguments PROVE FaultInv'
  BY <1>1, <1>3, <1>4, ArgumentsStay DEF Fail, FaultInv
<1>5. ASSUME sources' = sources, outcome' # "error" PROVE FaultInv'
  BY <1>3, <1>5 DEF FaultInv
<1>6. CASE Start
  BY <1>4, <1>5, <1>6 DEF Start, EncodableArguments
<1>7. CASE EncodeNull \/ EncodeRefs \/ Return
  BY <1>5, <1>7 DEF EncodeNull, EncodeRefs, Return, InField, Write
<1>8. CASE EncodeScalar
  BY <1>4, <1>5, <1>8, FieldAtFault DEF EncodeScalar, InField, Write, Encodable
<1>9. CASE EncodeChild
  <2>1. ASSUME Value.ids[Len(Top.refs) + 1] = Nil PROVE ~ EncodableArguments
    <3>1. InField /\ HasRefs(Value) /\ Len(Top.refs) < Len(Value.ids)
      BY <1>9 DEF EncodeChild
    <3>2. Value.ids \in Seq(Objects \cup {Nil}) /\ stack # <<>>
      BY <3>1, TopField
    <3>3. Top.refs \in Seq(Nat)
      BY <3>2, TopTypes
    <3>4. Len(Top.refs) + 1 \in DOMAIN Value.ids
      BY <3>1, <3>2, <3>3
    <3>5. Nil \in SeqRange(Value.ids)
      BY <2>1, <3>4 DEF SeqRange
    <3> QED
      BY <3>1, <3>5, FieldAtFault DEF Encodable
  <2>2. outcome # "error"
    BY <1>9 DEF EncodeChild, InField
  <2> QED
    BY <1>4, <1>5, <1>9, <2>1, <2>2 DEF EncodeChild, Enter
<1>10. CASE EncodePosition
  <2>1. /\ InField /\ Value.tag = "pos" /\ Value.pos # NoPos
        /\ outcome = "encoding"
    BY <1>10 DEF EncodePosition, InField
  <2>2. CASE FileOf(Value.pos) = {} /\ Fail
    BY <1>4, <2>1, <2>2, FieldAtFault DEF Encodable
  <2>3. CASE outcome' = outcome /\ sources' = sources
    BY <1>5, <2>1, <2>3
  <2>4. CASE \E f \in FileOf(Value.pos) :
               outcome' = outcome /\ sources' = Append(sources, NewSource(f))
    <3>1. PICK f \in FileOf(Value.pos) :
               outcome' = outcome /\ sources' = Append(sources, NewSource(f))
      BY <2>4
    <3>2. NewSource(f) \in SourceSet
      BY NewSourceType
    <3>3. f \in FilesMet
      <4> PICK o : o = Top.object
        OBVIOUS
      <4>1. /\ stack # <<>> /\ InProgress(o) /\ Value = Current(o)
        BY <2>1, TopField
      <4>2. /\ o \in Objects /\ o \in DOMAIN ids /\ Written(o) \in Seq(WireValues)
        BY <4>1, TopTypes
      <4>3. Len(Written(o)) + 1 \in DOMAIN heap[o].fields
        BY <4>1, <4>2, ArgumentTypes DEF InProgress, IInv, TypeOK
      <4>4. o \in Reached
        BY <4>2 DEF MetInv
      <4> QED
        BY <2>1, <4>1, <4>3, <4>4, MetFiles DEF Current
    <3>4. SourceOfFile(NewSource(f), fset, FilesMet)
      BY <3>3 DEF SourceOfFile, NewSource
    <3>5. \A k \in DOMAIN sources' : SourceOfFile(sources'[k], fset', FilesMet')
      BY <1>2, <3>1, <3>2, <3>4, Longer DEF FaultInv, IInv, TypeOK
    <3> QED
      BY <2>1, <3>1, <3>5 DEF FaultInv
  <2> QED
    BY <1>10, <2>2, <2>3, <2>4 DEF EncodePosition, Write
<1>11. CASE Deliver
  <2>1. Returned /\ sources' = sources
    BY <1>11 DEF Deliver, Returned
  <2>2. outcome' = "error" => ~ EncodableArguments
    BY <1>11, <2>1, ValidIfEncodable DEF Deliver
  <2> QED
    BY <1>1, <1>3, <2>1, <2>2, ArgumentsStay DEF FaultInv
<1>12. CASE UNCHANGED vars
  <2>1. sources' = sources /\ outcome' = outcome
    BY <1>12 DEF vars
  <2> QED
    BY <1>1, <1>3, <2>1, ArgumentsStay DEF FaultInv
<1> QED
  BY <1>6, <1>7, <1>8, <1>9, <1>10, <1>11, <1>12 DEF Next

LEMMA OnlyFaultsAreRefused ==
    ASSUME IInv, MetInv, FaultInv
    PROVE  ErrorIsJustified
<1>1. ASSUME outcome = "encoded" PROVE EncodableArguments
  BY <1>1, ValidIfEncodable DEF MetInv, Returned
<1> QED
  BY <1>1 DEF ErrorIsJustified, FaultInv

-----------------------------------------------------------------------------
(* The document                                                            *)

WireSource == [id : Nat, size : Sizes, lines : Lines]

WireUnits ==
    [root : Nat, nodes : Seq(RowSet), sources : Seq(WireSource),
     origins : { input.options.origins : input \in Inputs },
     annotations : { input.options.annotations : input \in Inputs }]

DecP == INSTANCE DecoderProofs WITH Units <- WireUnits

LEMMA DocumentIs ==
    /\ Document.root = ids[root] /\ Document.nodes = rows
    /\ DOMAIN Document.sources = DOMAIN sources
    /\ \A k \in DOMAIN sources :
         Document.sources[k] = [id |-> sources[k].id, size |-> sources[k].size,
                                lines |-> sources[k].lines]
    /\ \A k \in DOMAIN sources : /\ Document.sources[k].id = sources[k].id
                                 /\ Document.sources[k].size = sources[k].size
    /\ Document.origins = options.origins
    /\ Document.annotations = options.annotations
    /\ Document = [root |-> Document.root, nodes |-> Document.nodes,
                   sources |-> Document.sources, origins |-> Document.origins,
                   annotations |-> Document.annotations]
BY DEF Document, Unit

LEMMA DocumentInUnits ==
    ASSUME IInv, MetInv, root \in DOMAIN ids
    PROVE  /\ Document \in WireUnits
           /\ Document.sources \in Seq(WireSource)
<1>1. Document.root \in Nat
  BY DocumentIs DEF IInv, TypeOK, OneRowEach
<1>2. Document.nodes \in Seq(RowSet)
  BY DocumentIs DEF IInv, TypeOK
<1>3. Document.sources \in Seq(WireSource)
  <2>1. /\ sources \in Seq(SourceSet) /\ Len(sources) \in Nat
        /\ DOMAIN sources = 1 .. Len(sources)
    BY DEF IInv, TypeOK
  <2>2. ASSUME NEW k \in DOMAIN sources
        PROVE  Document.sources[k] \in WireSource
    <3>1. sources[k] \in SourceSet
      BY <2>1
    <3>2. sources[k].id \in Nat /\ sources[k].lines \in Lines
      BY <3>1 DEF SourceSet
    <3>3. sources[k].size \in Sizes
      BY FileSetLayout DEF IInv, SourcesInv, MetInv, FilesKnown, TypeOK
    <3>4. Document.sources[k] = [id |-> sources[k].id, size |-> sources[k].size,
                                 lines |-> sources[k].lines]
      BY DocumentIs
    <3> QED
      BY <3>2, <3>3, <3>4 DEF WireSource
  <2>3. Document.sources = [k \in 1 .. Len(sources) |-> Document.sources[k]]
    BY <2>1, DocumentIs DEF Document, Unit
  <2> QED
    BY <2>1, <2>2, <2>3
<1>4. PICK input \in Inputs : options = input.options
  BY DEF IInv, TypeOK, Arguments
<1> QED
  BY <1>1, <1>2, <1>3, <1>4, DocumentIs DEF WireUnits

(* It is a unit as Decode may get one.                                     *)
LEMMA DecodeAssumptions ==
    DecP!KindFieldsAssumption /\ DecP!WidthAssumption /\ DecP!UnitsAssumption
<1>1. DecP!KindFieldsAssumption
  BY KindFieldsAssumption
  DEF DecP!KindFieldsAssumption, FieldSpecs, DecP!FieldSpecs
<1>2. DecP!WidthAssumption
  BY WidthAssumption DEF DecP!WidthAssumption
<1>3. ASSUME NEW u \in WireUnits
      PROVE  /\ u.nodes \in Seq(DecP!SeqRange(u.nodes))
             /\ u.sources \in Seq(DecP!SeqRange(u.sources))
             /\ \A source \in DecP!SeqRange(u.sources) :
                  /\ source.size \in Int
                  /\ source.size >= 0 => source.size \in Sizes
             /\ \A node \in DecP!SeqRange(u.nodes) : \A k \in DOMAIN node.fields :
                  node.fields[k].tag = "null" => node.fields[k] = DecP!Null
  <2>1. u.nodes \in Seq(RowSet) /\ u.sources \in Seq(WireSource)
    BY DEF WireUnits
  <2>2. \A T : \A s \in Seq(T) : s \in Seq({ s[k] : k \in DOMAIN s })
    OBVIOUS
  <2>3. ASSUME NEW source \in DecP!SeqRange(u.sources)
        PROVE  source.size \in Int /\ source.size \in Sizes
    <3>1. source \in WireSource
      BY <2>1 DEF DecP!SeqRange
    <3>2. source.size \in Sizes
      BY <3>1 DEF WireSource
    <3>3. Sizes \subseteq Int
      BY WidthAssumption
    <3> QED
      BY <3>2, <3>3
  <2>4. ASSUME NEW node \in DecP!SeqRange(u.nodes), NEW k \in DOMAIN node.fields,
               node.fields[k].tag = "null"
        PROVE  node.fields[k] = DecP!Null
    <3>1. node \in RowSet
      BY <2>1 DEF DecP!SeqRange
    <3>2. PICK value : value = node.fields[k]
      OBVIOUS
    <3>3. value \in WireValues /\ value.tag = "null"
      BY <2>4, <3>1, <3>2 DEF RowSet
    <3> QED
      BY <3>2, <3>3 DEF WireValues, Null, Scalar, At, DecP!Null
  <2> QED
    BY <2>1, <2>2, <2>3, <2>4 DEF DecP!SeqRange
<1> QED
  BY <1>1, <1>2, <1>3 DEF DecP!UnitsAssumption

LEMMA SameChecks ==
    ASSUME NEW u
    PROVE  /\ DecP!ValidForToolchain(u) <=> ValidForToolchain(u)
           /\ Dec!ValidForToolchain(u) <=> ValidForToolchain(u)
BY DEF ValidForToolchain, EnvelopeOK, FieldsOK, Nullable, ChildGraph,
       AnnotationsOK, OriginsOK, OriginGraph, SpanOK, ValueOK, LinesOK, Distinct,
       OriginIds, NodeIds, SeqRange, FieldRefs, IsChildField, RefIds, HasRefs,
       Null, Acyclic, Sinkless, Successors,
       DecP!ValidForToolchain, DecP!EnvelopeOK, DecP!FieldsOK, DecP!Nullable,
       DecP!ChildGraph, DecP!AnnotationsOK, DecP!OriginsOK, DecP!OriginGraph,
       DecP!SpanOK, DecP!ValueOK, DecP!LinesOK, DecP!Distinct, DecP!OriginIds,
       DecP!NodeIds, DecP!SeqRange, DecP!FieldRefs, DecP!IsChildField,
       DecP!RefIds, DecP!HasRefs, DecP!Null, DecP!Acyclic, DecP!Sinkless,
       DecP!Successors,
       Dec!ValidForToolchain, Dec!EnvelopeOK, Dec!FieldsOK, Dec!Nullable,
       Dec!ChildGraph, Dec!AnnotationsOK, Dec!OriginsOK, Dec!OriginGraph,
       Dec!SpanOK, Dec!ValueOK, Dec!LinesOK, Dec!Distinct, Dec!OriginIds,
       Dec!NodeIds, Dec!SeqRange, Dec!FieldRefs, Dec!IsChildField, Dec!RefIds,
       Dec!HasRefs, Dec!Null, Dec!Acyclic, Dec!Sinkless, Dec!Successors

(* The Decoder of the composition takes the steps that DecoderProofs is    *)
(* about.                                                                  *)
LEMMA SameSteps ==
    /\ Dec!Next => DecP!Next
    /\ Dec!Idle => DecP!Idle
<1> USE DEF Dec!Fail, DecP!Fail, Dec!fileSet, DecP!fileSet, Dec!Row, DecP!Row,
            Dec!FieldSpec, DecP!FieldSpec, Dec!InField, DecP!InField,
            Dec!Set, DecP!Set, Dec!Begin, DecP!Begin, Dec!SeqRange, DecP!SeqRange,
            Dec!Pos, DecP!Pos, Dec!NoPos, DecP!NoPos, Dec!Null, DecP!Null
<1>1. Dec!Validate => DecP!Validate
  BY SameChecks DEF Dec!Validate, DecP!Validate
<1>2. Dec!AddSource => DecP!AddSource
  BY DEF Dec!AddSource, Dec!Fs!TooLarge, Dec!Fs!AddSource, Dec!Fs!AddFile,
         DecP!AddSource, DecP!Fs!TooLarge, DecP!Fs!AddSource, DecP!Fs!AddFile
<1>3. Dec!Allocate => DecP!Allocate
  BY DEF Dec!Allocate, DecP!Allocate, Dec!NodeIds, DecP!NodeIds
<1>4. Dec!SkipField => DecP!SkipField
  BY DEF Dec!SkipField, DecP!SkipField, Dec!Zero, DecP!Zero
<1>5. Dec!DecodeField => DecP!DecodeField
  BY DEF Dec!DecodeField, Dec!Decodes, Dec!Holds, Dec!RefIds, Dec!HasRefs,
         Dec!PosAt, Dec!PosOf, DecP!DecodeField, DecP!Decodes, DecP!Holds,
         DecP!RefIds, DecP!HasRefs, DecP!PosAt, DecP!PosOf
<1>6. Dec!NextNode => DecP!NextNode
  BY DEF Dec!NextNode, DecP!NextNode
<1>7. Dec!Return => DecP!Return
  BY DEF Dec!Return, DecP!Return
<1>8. Dec!Idle => DecP!Idle
  BY DEF Dec!Idle, DecP!Idle, Dec!Fs!Init, DecP!Fs!Init
<1> QED
  BY <1>1, <1>2, <1>3, <1>4, <1>5, <1>6, <1>7, <1>8 DEF Dec!Next, DecP!Next

LEMMA DecodeStarts == DecP!Init => DecP!IInv /\ DecP!Refusals
  BY DecodeAssumptions, DecP!InvInit, DecP!RefusalsInit

LEMMA DecodeStartsThen == DecP!Init' => DecP!IInv' /\ DecP!Refusals'
  BY DecodeStarts, PTL

LEMMA DecodeStep ==
    DecP!IInv /\ DecP!Refusals /\ [DecP!Next]_(DecP!vars)
        => DecP!IInv' /\ DecP!Refusals'
  BY DecodeAssumptions, DecP!InvStep, DecP!RefusalsStep

LEMMA DocumentIsValid ==
    ASSUME ValidForToolchain(Unit)
    PROVE  ValidForToolchain(Document)
<1>1. /\ Document.root = Unit.root /\ Document.nodes = Unit.nodes
      /\ Document.origins = Unit.origins
      /\ Document.annotations = Unit.annotations
      /\ DOMAIN Document.sources = DOMAIN Unit.sources
      /\ \A k \in DOMAIN Unit.sources :
           /\ Document.sources[k].id = Unit.sources[k].id
           /\ Document.sources[k].size = Unit.sources[k].size
           /\ Document.sources[k].lines = Unit.sources[k].lines
  BY DEF Document, Unit
<1>2. NodeIds(Document) = NodeIds(Unit) /\ OriginIds(Document) = OriginIds(Unit)
  BY <1>1 DEF NodeIds, OriginIds
<1>3. \A source \in SeqRange(Document.sources) :
         \E k \in DOMAIN Unit.sources :
            source = Document.sources[k] /\ Unit.sources[k] \in SeqRange(Unit.sources)
  BY <1>1 DEF SeqRange
<1>4. \A source \in SeqRange(Unit.sources) :
         \E copy \in SeqRange(Document.sources) :
            copy.id = source.id /\ copy.size = source.size
  BY <1>1 DEF SeqRange
<1>5. Distinct(Document.sources)
  BY <1>1 DEF ValidForToolchain, EnvelopeOK, Distinct
<1>6. ASSUME NEW source \in SeqRange(Document.sources)
      PROVE  source.size >= 0 /\ LinesOK(source)
  BY <1>1, <1>3 DEF ValidForToolchain, EnvelopeOK, LinesOK
<1>7. ASSUME NEW value, ValueOK(value, Unit) PROVE ValueOK(value, Document)
  BY <1>2, <1>4, <1>7 DEF ValueOK
<1>8. OriginsOK(Document)
  <2>1. ASSUME NEW span, SpanOK(span, Unit) PROVE SpanOK(span, Document)
    BY <1>4, <2>1 DEF SpanOK
  <2>2. OriginGraph(Document) = OriginGraph(Unit)
    BY <1>1, <1>2 DEF OriginGraph
  <2> QED
    BY <1>1, <1>2, <2>1, <2>2 DEF ValidForToolchain, EnvelopeOK, OriginsOK
<1>9. AnnotationsOK(Document)
  BY <1>1, <1>2 DEF ValidForToolchain, EnvelopeOK, AnnotationsOK
<1>10. EnvelopeOK(Document)
  BY <1>1, <1>2, <1>5, <1>6, <1>7, <1>8, <1>9 DEF ValidForToolchain, EnvelopeOK
<1> QED
  BY <1>1, <1>10 DEF ValidForToolchain

(* Decode starts on a unit of the encoder, and all it does is done to that *)
(* unit.                                                                   *)
SentInv ==
    /\ phase = "waiting" => Dec!Idle
    /\ phase # "waiting" => /\ outcome = "encoded" /\ unit = Document
                            /\ DecP!IInv /\ DecP!Refusals

LEMMA SentStep ==
    ASSUME IInv, MetInv, SentInv, [CodecNext]_codecVars
    PROVE  SentInv'
<1>1. CASE Encode
  <2>1. phase' = phase /\ UNCHANGED decoding /\ Next
    BY <1>1 DEF Encode, decoding
  <2>2. CASE phase = "waiting"
    BY <2>1, <2>2 DEF SentInv, decoding, Dec!Idle, Dec!Fs!Init, Dec!Begin
  <2>3. CASE phase # "waiting"
    <3>1. FALSE
      <4>1. outcome = "encoded" /\ stack = <<>>
        BY <2>3 DEF SentInv, MetInv
      <4> QED
        BY <2>1, <4>1 DEF Next, Start, InField, EncodeNull, EncodeScalar,
           EncodePosition, EncodeChild, EncodeRefs, Return, Deliver
    <3> QED
      BY <3>1
  <2> QED
    BY <2>2, <2>3
<1>2. CASE Transmit
  <2>1. /\ outcome = "encoded" /\ phase = "waiting" /\ phase' = "validate"
        /\ unit' = Document /\ outcome' = outcome /\ Dec!Idle
        /\ UNCHANGED <<vars, files, base, panicked, nodes, next>>
    BY <1>2 DEF Transmit, vars, SentInv
  <2>2. Document' = Document
    BY <2>1 DEF vars, Document, Unit
  <2>3. Document \in WireUnits
    BY <2>1, DocumentInUnits DEF MetInv
  <2>4. DecP!Init'
    BY <2>1, <2>3, SameSteps
    DEF DecP!Init, DecP!Idle, DecP!Fs!Init, DecP!Begin
  <2> QED
    BY <2>1, <2>2, <2>4, DecodeStartsThen DEF SentInv
<1>3. CASE Decode
  <2>1. Dec!Next /\ UNCHANGED vars
    BY <1>3 DEF Decode
  <2>2. phase # "waiting" /\ phase' # "waiting" /\ unit' = unit
    BY <2>1 DEF Dec!Next, Dec!Validate, Dec!AddSource, Dec!Allocate, Dec!SkipField,
       Dec!InField, Dec!Set, Dec!DecodeField, Dec!NextNode, Dec!Return, Dec!Fail
  <2>3. Document' = Document /\ outcome' = outcome
    BY <2>1 DEF vars, Document, Unit
  <2> QED
    BY <2>1, <2>2, <2>3, SameSteps, DecodeStep DEF SentInv
<1>4. CASE UNCHANGED codecVars
  <2>1. UNCHANGED <<vars, decoding>>
    BY <1>4 DEF codecVars
  <2>2. Document' = Document /\ outcome' = outcome /\ phase' = phase /\ unit' = unit
    BY <2>1 DEF vars, decoding, Document, Unit
  <2>3. Dec!Idle => Dec!Idle'
    BY <2>1 DEF decoding, Dec!Idle, Dec!Fs!Init, Dec!Begin
  <2>4. UNCHANGED DecP!vars
    BY <2>1 DEF decoding, DecP!vars
  <2> QED
    BY <2>2, <2>3, <2>4, DecodeStep DEF SentInv
<1> QED
  BY <1>1, <1>2, <1>3, <1>4 DEF CodecNext

LEMMA SentInit == CodecInit => SentInv
  BY DEF CodecInit, SentInv

-----------------------------------------------------------------------------
(* What comes out                                                          *)

(* The records of the instances.                                           *)
LEMMA SameForms ==
    /\ \A pos : DecP!Pos(pos) = Pos(pos)
    /\ DecP!Null = Null /\ DecP!NoPos = NoPos
    /\ \A list, pos : DecP!FilesAt(list, pos) = FilesAt(list, pos)
    /\ \A file, pos : DecP!OffsetOf(file, pos) = OffsetOf(file, pos)
    /\ \A list : DecP!SeqRange(list) = SeqRange(list)
    /\ \A table : DecP!NodeIds(table) = NodeIds(table)
BY DEF DecP!Pos, Pos, DecP!Null, Null, DecP!NoPos, NoPos, DecP!FilesAt, FilesAt,
       DecP!Covers, Covers, DecP!OffsetOf, OffsetOf, DecP!SeqRange, SeqRange,
       DecP!NodeIds, NodeIds

(* The files of the new FileSet are those of the sources.                  *)
LEMMA FilesOfDocument ==
    ASSUME IInv, SentInv, phase = "decoded"
    PROVE  DOMAIN files = DOMAIN sources
<1>1. DecP!FilesInv /\ unit = Document
  BY DEF SentInv, DecP!IInv
<1>2. files \in Seq(DecP!FsP!Files) /\ Len(files) = Len(unit.sources)
  BY <1>1 DEF DecP!FilesInv, DecP!FilesOf, DecP!FsP!IInv, DecP!FsP!TypeOK
<1>3. sources \in Seq(SourceSet)
  BY DEF IInv, TypeOK
<1>4. Len(unit.sources) = Len(sources)
  <2>1. unit.sources = [k \in 1 .. Len(sources) |-> Document.sources[k]]
    BY <1>1, <1>3 DEF Document, Unit
  <2> QED
    BY <1>3, <2>1
<1> QED
  BY <1>2, <1>3, <1>4

(* A position of the unit is where it was in the heap.                     *)
LEMMA PositionSent ==
    ASSUME IInv, MetInv, outcome = "encoded",
           NEW o \in DOMAIN ids, NEW k \in DOMAIN Specs(o),
           heap[o].fields[k].tag = "pos", heap[o].fields[k].pos # NoPos
    PROVE  \E j \in DOMAIN sources :
             LET wire == Written(o)[k]
                 file == fset[sources[j].file]
             IN /\ wire = At(j, wire.offset) /\ fset # Nil
                /\ sources[j].file \in DOMAIN fset
                /\ sources[j].id = j /\ sources[j].size = file.size
                /\ file.base \in Nat /\ file.size \in Nat
                /\ wire.offset \in 0 .. file.size
                /\ file.base + wire.offset = heap[o].fields[k].pos
<1> PICK wire, value : wire = Written(o)[k] /\ value = heap[o].fields[k]
  OBVIOUS
<1>1. stack = <<>> /\ ValidForToolchain(Unit)
  BY DEF MetInv
<1>2. /\ Stands(wire, value, ids, sources, fset)
      /\ ids[o] \in DOMAIN rows /\ Written(o) = rows[ids[o]].fields
      /\ k \in DOMAIN Written(o)
  BY <1>1, RowsComplete
<1>3. ~ HasRefs(value)
  BY DEF HasRefs
<1>4. PICK j \in DOMAIN sources :
           /\ fset[sources[j].file].base + wire.offset = value.pos
           /\ wire = At(j, wire.offset)
  BY <1>2, <1>3 DEF Stands
<1>5. wire.tag = "position" /\ wire.source = j
  BY <1>4 DEF At
<1>6. ValueOK(wire, Unit)
  <2>1. rows[ids[o]] \in SeqRange(Unit.nodes)
    BY <1>2 DEF Unit, SeqRange
  <2> QED
    BY <1>1, <1>2, <2>1 DEF ValidForToolchain, EnvelopeOK
<1>7. PICK source \in SeqRange(Unit.sources) :
           source.id = j /\ wire.offset \in 0 .. source.size
  BY <1>5, <1>6 DEF ValueOK
<1>8. PICK i \in DOMAIN sources : sources[i] = source
  BY <1>7 DEF SeqRange, Unit
<1>9. /\ sources[j].id = j /\ i = j
      /\ sources[j].size = fset[sources[j].file].size
  BY <1>7, <1>8 DEF IInv, SourcesInv, SourcesInterned
<1>10. fset # Nil /\ sources[j].file \in DOMAIN fset
  BY DEF MetInv, FilesKnown
<1>11. fset[sources[j].file].base \in Nat /\ fset[sources[j].file].size \in Nat
  BY <1>10, FileSetLayout DEF IInv, TypeOK
<1> QED
  BY <1>4, <1>7, <1>8, <1>9, <1>10, <1>11

LEMMA PositionArrives ==
    ASSUME IInv, MetInv, SentInv, phase = "decoded",
           NEW o \in DOMAIN ids, NEW k \in DOMAIN Specs(o), NEW copy,
           Specs(o)[k].type = "position",
           DecP!StandsFor(copy, rows[ids[o]].fields, k, Specs(o)[k])
    PROVE  SameField(heap[o].fields[k], copy)
<1> PICK wire, value : wire = Written(o)[k] /\ value = heap[o].fields[k]
  OBVIOUS
<1>1. outcome = "encoded" /\ unit = Document /\ stack = <<>>
  BY AllIsMet DEF SentInv
<1>2. /\ Stands(wire, value, ids, sources, fset)
      /\ Written(o) = rows[ids[o]].fields /\ k \in DOMAIN Written(o)
      /\ FieldInMemory(value, Specs(o)[k])
  BY <1>1, RowsComplete
<1>3. value = Pos(value.pos)
  BY <1>2 DEF FieldInMemory
<1>4. value.tag = "pos" /\ ~ HasRefs(value)
  BY <1>3 DEF Pos, HasRefs
<1>5. CASE value.pos = NoPos
  <2>1. wire = Null
    BY <1>2, <1>4, <1>5 DEF Stands
  <2>2. copy = Pos(NoPos)
    BY <1>2, <2>1, SameForms DEF DecP!StandsFor
  <2> QED
    BY <1>3, <1>4, <1>5, <2>2 DEF SameField
<1>6. CASE value.pos # NoPos
  <2>1. PICK j \in DOMAIN sources :
             LET file == fset[sources[j].file]
             IN /\ wire = At(j, wire.offset) /\ fset # Nil
                /\ sources[j].file \in DOMAIN fset
                /\ sources[j].id = j
                /\ file.base \in Nat /\ file.size \in Nat
                /\ wire.offset \in 0 .. file.size
                /\ file.base + wire.offset = value.pos
    BY <1>1, <1>4, <1>6, PositionSent
  <2>2. wire # Null /\ wire.source = j
    BY <2>1 DEF At, Null
  <2>3. /\ copy = Pos(copy.pos)
        /\ \E f \in DOMAIN files :
             /\ FilesAt(files, copy.pos) = {f}
             /\ unit.sources[f].id = j
             /\ OffsetOf(files[f], copy.pos) = wire.offset
    BY <1>2, <2>2, SameForms DEF DecP!StandsFor
  <2>4. PICK f \in DOMAIN files :
             /\ FilesAt(files, copy.pos) = {f}
             /\ unit.sources[f].id = j
             /\ OffsetOf(files[f], copy.pos) = wire.offset
    BY <2>3
  <2>5. f = j
    <3>1. f \in DOMAIN sources
      BY FilesOfDocument
    <3>2. unit.sources[f].id = sources[f].id
      BY <1>1, <3>1, DocumentIs
    <3>3. sources[f].id = f
      BY <3>1 DEF IInv, SourcesInv, SourcesInterned
    <3> QED
      BY <2>4, <3>2, <3>3
  <2>6. PICK g : g = sources[j].file
    OBVIOUS
  <2>7. g \in FilesAt(fset, value.pos) /\ OffsetOf(fset[g], value.pos) = wire.offset
    BY <2>1, <2>6 DEF FilesAt, Covers, OffsetOf
  <2>8. SamePlace(value.pos, copy.pos)
    BY <2>4, <2>5, <2>6, <2>7 DEF SamePlace
  <2>9. copy.tag = "pos"
    BY <2>3 DEF Pos
  <2> QED
    BY <1>4, <1>6, <2>8, <2>9 DEF SameField
<1> QED
  BY <1>5, <1>6

LEMMA FieldArrives ==
    ASSUME IInv, MetInv, SentInv, phase = "decoded",
           NEW o \in DOMAIN ids, NEW k \in DOMAIN Specs(o), NEW copy,
           DecP!StandsFor(copy, rows[ids[o]].fields, k, Specs(o)[k])
    PROVE  SameField(heap[o].fields[k], copy)
<1> PICK wire, value : wire = Written(o)[k] /\ value = heap[o].fields[k]
  OBVIOUS
<1>1. outcome = "encoded" /\ stack = <<>>
  BY AllIsMet DEF SentInv
<1>2. /\ Stands(wire, value, ids, sources, fset)
      /\ Written(o) = rows[ids[o]].fields /\ k \in DOMAIN Written(o)
      /\ FieldInMemory(value, Specs(o)[k])
  BY <1>1, RowsComplete
<1>3. CASE Specs(o)[k].type = "position"
  BY <1>3, PositionArrives
<1>4. CASE Specs(o)[k].type # "position"
  <2>1. copy = wire
    BY <1>2, <1>4 DEF DecP!StandsFor
  <2>2. value.tag # "pos"
    <3>1. \A x : /\ Null.tag = "null" /\ Ref(x).tag = "ref"
                 /\ Refs(x).tag = "refs" /\ Scalar(x).tag = "scalar"
      BY DEF Null, Ref, Refs, Scalar
    <3> QED
      BY <1>2, <1>4, <3>1 DEF FieldInMemory
  <2>3. CASE HasRefs(value)
    BY <1>2, <2>1, <2>3 DEF Stands, SameField
  <2>4. CASE ~ HasRefs(value)
    BY <1>2, <2>1, <2>2, <2>4 DEF Stands, SameField
  <2> QED
    BY <2>3, <2>4
<1> QED
  BY <1>3, <1>4

LEMMA RoundTripAtEnd ==
    ASSUME IInv, MetInv, SentInv
    PROVE  RoundTrip
<1> SUFFICES ASSUME phase = "decoded" PROVE RoundTrip
  BY DEF RoundTrip
<1>1. outcome = "encoded" /\ unit = Document /\ DecP!IInv
  BY DEF SentInv
<1>2. DOMAIN ids = Reached /\ root \in DOMAIN ids /\ stack = <<>>
  BY <1>1, AllIsMet
<1>3. DecP!DecodedIsCopy
  BY <1>1, DecodeAssumptions, DecP!CopyAtEnd
<1>4. /\ unit.root = ids[root] /\ unit.nodes = rows
      /\ unit.origins = options.origins /\ unit.annotations = options.annotations
  BY <1>1, DocumentIs
<1>5. DOMAIN nodes = { ids[o] : o \in DOMAIN ids }
  <2>1. DOMAIN nodes = { rows[k].id : k \in DOMAIN rows }
    BY <1>3, <1>4, SameForms DEF DecP!DecodedIsCopy, NodeIds
  <2>2. \A k \in DOMAIN rows : rows[k].id = k /\ \E o \in DOMAIN ids : ids[o] = k
    BY DEF IInv, OneRowEach
  <2>3. \A o \in DOMAIN ids : ids[o] \in DOMAIN rows /\ rows[ids[o]].id = ids[o]
    BY DEF IInv, OneRowEach
  <2> QED
    BY <2>1, <2>2, <2>3
<1>6. ASSUME NEW o \in DOMAIN ids
      PROVE  /\ nodes[ids[o]].kind = heap[o].kind
             /\ DOMAIN nodes[ids[o]].fields = DOMAIN heap[o].fields
             /\ \A k \in DOMAIN nodes[ids[o]].fields :
                  SameField(heap[o].fields[k], nodes[ids[o]].fields[k])
  <2>1. /\ ids[o] \in DOMAIN rows /\ rows[ids[o]].id = ids[o]
        /\ rows[ids[o]].kind = heap[o].kind
        /\ DOMAIN heap[o].fields = DOMAIN Specs(o)
    BY <1>2, RowsComplete
  <2>2. rows[ids[o]] \in DecP!SeqRange(unit.nodes)
    BY <1>4, <2>1 DEF DecP!SeqRange
  <2>3. /\ nodes[ids[o]].kind = heap[o].kind
        /\ DOMAIN nodes[ids[o]].fields = DOMAIN Specs(o)
        /\ \A k \in DOMAIN Specs(o) :
             DecP!StandsFor(nodes[ids[o]].fields[k], rows[ids[o]].fields, k, Specs(o)[k])
    BY <1>3, <2>1, <2>2 DEF DecP!DecodedIsCopy, Specs
  <2>4. ASSUME NEW k \in DOMAIN Specs(o)
        PROVE  SameField(heap[o].fields[k], nodes[ids[o]].fields[k])
    BY <2>3, FieldArrives
  <2> QED
    BY <2>1, <2>3, <2>4
<1>7. \A o, p \in DOMAIN ids : ids[o] = ids[p] => o = p
  BY DEF IInv, OneRowEach
<1> QED
  BY <1>2, <1>4, <1>5, <1>6, <1>7 DEF RoundTrip

-----------------------------------------------------------------------------
(* Nothing is refused on the way                                           *)

(* Files with these bases and sizes lie apart from each other below top.   *)
Apart(n, top, at, size) ==
    /\ \A k \in 1 .. n : /\ at[k] \in Nat /\ size[k] \in Nat /\ at[k] >= 1
                         /\ at[k] + size[k] + 1 <= top
    /\ \A j, k \in 1 .. n : \/ j = k
                            \/ at[j] + size[j] < at[k]
                            \/ at[k] + size[k] < at[j]

(* The bases of files without gaps, and of the one that would come next.   *)
IsTight(n, top, size, bases) ==
    /\ bases \in [1 .. n + 1 -> 1 .. top]
    /\ bases[1] = 1
    /\ \A k \in 1 .. n : bases[k + 1] = bases[k] + size[k] + 1

(* Files that lie apart also fit without gaps: the base of each is one     *)
(* more than the number of the positions of those before it.               *)
LEMMA LaidOutAnew ==
    ASSUME NEW n \in Nat, NEW top \in Nat \ {0}, NEW at, NEW size,
           Apart(n, top, at, size)
    PROVE  \E bases : IsTight(n, top, size, bases)
<1> USE DEF Apart
<1> DEFINE Places(k) == at[k] .. at[k] + size[k]
           Before(k) == { p \in 1 .. top - 1 :
                            \E j \in 1 .. n : j < k /\ p \in Places(j) }
           bases     == [k \in 1 .. n + 1 |-> 1 + Cardinality(Before(k))]
<1>1. /\ IsFiniteSet(1 .. top - 1) /\ Cardinality(1 .. top - 1) = top - 1
  <2>1. 1 \in Int /\ top - 1 \in Int
    OBVIOUS
  <2>2. 1 > top - 1 => top - 1 = 0
    OBVIOUS
  <2> QED
    BY <2>1, <2>2, FS_Interval
<1>2. ASSUME NEW k \in 1 .. n + 1
      PROVE  /\ IsFiniteSet(Before(k))
             /\ Cardinality(Before(k)) \in Nat
             /\ Cardinality(Before(k)) <= top - 1
  <2>1. Before(k) \subseteq 1 .. top - 1
    OBVIOUS
  <2> HIDE DEF Before
  <2> QED
    BY <1>1, <2>1, FS_Subset, FS_CardinalityType
<1>3. Before(1) = {}
  OBVIOUS
<1>4. ASSUME NEW k \in 1 .. n
      PROVE  /\ IsFiniteSet(Places(k)) /\ Cardinality(Places(k)) = size[k] + 1
             /\ Before(k + 1) = Before(k) \cup Places(k)
             /\ Before(k) \cap Places(k) = {}
  <2>1. IsFiniteSet(Places(k)) /\ Cardinality(Places(k)) = size[k] + 1
    <3>1. PICK a, b : a = at[k] /\ b = at[k] + size[k]
      OBVIOUS
    <3>2. a \in Int /\ b \in Int /\ ~ (a > b) /\ b - a + 1 = size[k] + 1
      BY <3>1
    <3>3. IsFiniteSet(a .. b) /\ Cardinality(a .. b) = b - a + 1
      BY <3>2, FS_Interval
    <3> QED
      BY <3>1, <3>2, <3>3
  <2>2. Places(k) \subseteq 1 .. top - 1
    OBVIOUS
  <2>3. \A j \in 1 .. n : j < k + 1 <=> j < k \/ j = k
    OBVIOUS
  <2>4. Before(k + 1) = Before(k) \cup Places(k)
    <3> HIDE DEF Places
    <3>1. \A p \in Places(k) : p \in 1 .. top - 1
      BY <2>2
    <3>2. \A p : p \in Before(k + 1) <=> p \in Before(k) \/ p \in Places(k)
      BY <2>3, <3>1
    <3> QED
      BY <3>2
  <2>5. ASSUME NEW j \in 1 .. n, j < k, NEW p \in Places(j)
        PROVE  p \notin Places(k)
    BY <2>5
  <2>6. Before(k) \cap Places(k) = {}
    <3> HIDE DEF Places
    <3> QED
      BY <2>5
  <2> QED
    BY <2>1, <2>4, <2>6
<1>5. ASSUME NEW k \in 1 .. n
      PROVE  Cardinality(Before(k + 1)) = Cardinality(Before(k)) + size[k] + 1
  <2>1. k \in 1 .. n + 1 /\ size[k] \in Nat
    OBVIOUS
  <2>2. Cardinality(Before(k) \cap Places(k)) = 0
    BY <1>4, FS_EmptySet
  <2> HIDE DEF Before, Places
  <2>3. Cardinality(Before(k) \cup Places(k))
          = Cardinality(Before(k)) + Cardinality(Places(k))
              - Cardinality(Before(k) \cap Places(k))
    BY <1>2, <1>4, <2>1, FS_Union
  <2> QED
    BY <1>2, <1>4, <2>1, <2>2, <2>3
<1> HIDE DEF Before
<1>6. bases \in [1 .. n + 1 -> 1 .. top]
  <2>1. \A k \in 1 .. n + 1 : 1 + Cardinality(Before(k)) \in 1 .. top
    BY <1>2
  <2> QED
    BY <2>1
<1>7. bases[1] = 1
  <2>1. 1 \in 1 .. n + 1
    OBVIOUS
  <2> QED
    BY <1>3, <2>1, FS_EmptySet
<1>8. ASSUME NEW k \in 1 .. n
      PROVE  bases[k + 1] = bases[k] + size[k] + 1
  <2>1. k \in 1 .. n + 1 /\ k + 1 \in 1 .. n + 1 /\ size[k] \in Nat
    OBVIOUS
  <2> QED
    BY <1>2, <1>5, <2>1
<1> HIDE DEF bases
<1> QED
  BY <1>6, <1>7, <1>8 DEF IsTight

LEMMA DocumentFits ==
    ASSUME IInv, MetInv, unit = Document
    PROVE  DecP!SourcesFit
<1> PICK n : n = Len(sources)
  OBVIOUS
<1> PICK at, size : /\ at = [k \in 1 .. n |-> fset[sources[k].file].base]
                    /\ size = [k \in 1 .. n |-> sources[k].size]
  OBVIOUS
<1>1. /\ n \in Nat /\ DOMAIN sources = 1 .. n /\ Len(unit.sources) = n
      /\ DOMAIN unit.sources = 1 .. n
  <2>1. sources \in Seq(SourceSet)
    BY DEF IInv, TypeOK
  <2>2. unit.sources = [k \in 1 .. Len(sources) |-> Document.sources[k]]
    BY <2>1 DEF Document, Unit
  <2> QED
    BY <2>1, <2>2
<1>2. MaxInt \in Nat \ {0}
  BY WidthAssumption
<1>3. ASSUME NEW k \in 1 .. n
      PROVE  /\ fset # Nil /\ sources[k].file \in DOMAIN fset
             /\ at[k] = fset[sources[k].file].base
             /\ size[k] = fset[sources[k].file].size
             /\ unit.sources[k].size = size[k]
  BY <1>1, DocumentIs DEF MetInv, FilesKnown, IInv, SourcesInv
<1>4. \A k \in 1 .. n : /\ at[k] \in Nat /\ size[k] \in Nat /\ at[k] >= 1
                        /\ at[k] + size[k] + 1 <= MaxInt
  BY <1>3, FileSetLayout DEF IInv, TypeOK
<1>5. \A j, k \in 1 .. n : \/ j = k
                           \/ at[j] + size[j] < at[k]
                           \/ at[k] + size[k] < at[j]
  <2> SUFFICES ASSUME NEW j \in 1 .. n, NEW k \in 1 .. n, j # k
               PROVE  at[j] + size[j] < at[k] \/ at[k] + size[k] < at[j]
    OBVIOUS
  <2>1. sources[j].file # sources[k].file
    BY <1>1 DEF IInv, SourcesInv, SourcesInterned
  <2>2. Arguments
    BY DEF IInv, TypeOK
  <2> QED
    BY <1>3, <2>1, <2>2, FileSetLayout
<1>6. Apart(n, MaxInt, at, size)
  BY <1>4, <1>5 DEF Apart
<1>7. PICK bases : IsTight(n, MaxInt, size, bases)
  BY <1>1, <1>2, <1>6, LaidOutAnew
<1>8. bases \in DecP!Layouts /\ DecP!IsLayout(bases)
  BY <1>1, <1>3, <1>7 DEF IsTight, DecP!Layouts, DecP!IsLayout
<1> QED
  BY <1>8 DEF DecP!SourcesFit

LEMMA SameFields ==
    /\ \A value, spec : DecP!Decodes(value, spec) <=>
         CASE spec.type = "position" -> value.tag \in {"null", "position"}
           [] spec.type = "scalar" -> value.tag = "scalar" /\ value.value \in Registered
           [] OTHER -> TRUE
    /\ \A value : DecP!RefIds(value) = RefIds(value)
BY DEF DecP!Decodes, DecP!RefIds, RefIds, DecP!HasRefs, HasRefs

LEMMA DocumentIsDecodable ==
    ASSUME IInv, MetInv, outcome = "encoded", unit = Document
    PROVE  DecP!Decodable
<1>1. stack = <<>> /\ ValidForToolchain(Unit)
  BY DEF MetInv
<1>2. DecP!ValidForToolchain(unit)
  BY <1>1, DocumentIsValid, SameChecks
<1>3. DecP!SourcesFit
  BY DocumentFits
<1>4. ASSUME NEW node \in DecP!SeqRange(unit.nodes), NEW k \in DOMAIN node.fields
      PROVE  LET spec == KindFields[node.kind][k]
             IN /\ DecP!Decodes(node.fields[k], spec)
                /\ \A child \in DecP!SeqRange(unit.nodes) :
                     child.id \in DecP!SeqRange(DecP!RefIds(node.fields[k])) =>
                         child.kind \in spec.holds
  <2>1. PICK n \in DOMAIN rows : node = rows[n]
    BY DocumentIs, SameForms DEF SeqRange
  <2>2. PICK o \in DOMAIN ids : ids[o] = n
    BY DEF IInv, OneRowEach
  <2>3. /\ o \in Objects /\ Written(o) = node.fields /\ node.kind = heap[o].kind
        /\ k \in DOMAIN Specs(o) /\ k \in DOMAIN heap[o].fields
    BY <1>1, <2>1, <2>2, RowsComplete
  <2>4. PICK spec : spec = Specs(o)[k]
    OBVIOUS
  <2>5. DecP!Decodes(node.fields[k], spec)
    BY <1>1, <2>3, <2>4, WireForm, SameFields
  <2>6. ASSUME NEW child \in DecP!SeqRange(unit.nodes),
               child.id \in DecP!SeqRange(DecP!RefIds(node.fields[k]))
        PROVE  child.kind \in spec.holds
    <3>1. PICK m \in DOMAIN rows : child = rows[m]
      BY DocumentIs, SameForms DEF SeqRange
    <3>2. child.id \in SeqRange(RefIds(node.fields[k]))
      BY <2>6, SameForms, SameFields
    <3>3. PICK c \in DOMAIN ids :
             c \in SeqRange(RefIds(heap[o].fields[k])) /\ child.id = ids[c]
      BY <1>1, <2>3, <3>2, WireForm
    <3>4. child.kind = heap[c].kind
      BY <3>1, <3>3 DEF IInv, OneRowEach
    <3>5. c # Nil
      BY <3>3 DEF MetInv
    <3>6. heap[c].kind \in KindFields[heap[o].kind][k].holds
      BY <2>3, <3>3, <3>5 DEF MetInv, WellTyped
    <3> QED
      BY <2>4, <3>4, <3>6 DEF Specs
  <2> QED
    BY <2>3, <2>4, <2>5, <2>6 DEF Specs
<1> QED
  BY <1>2, <1>3, <1>4 DEF DecP!Decodable

LEMMA NotRefused ==
    ASSUME IInv, MetInv, SentInv
    PROVE  NeverRefused
<1> SUFFICES ASSUME phase = "error" PROVE FALSE
  BY DEF NeverRefused
<1>1. outcome = "encoded" /\ unit = Document /\ ~ DecP!Decodable
  BY DEF SentInv, DecP!Refusals
<1> QED
  BY <1>1, DocumentIsDecodable

-----------------------------------------------------------------------------
(* The whole way through the bridge                                        *)

LEMMA CodecInvariance == CodecSpec => [](IInv /\ MetInv /\ FaultInv /\ SentInv)
<1>1. CodecInit => IInv /\ MetInv /\ FaultInv /\ SentInv
  BY InitInv, MetInit, FaultInit, SentInit DEF CodecInit
<1>2. [CodecNext]_codecVars => [Next]_vars
  BY DEF CodecNext, Encode, Transmit, Decode, codecVars
<1>3. IInv /\ MetInv /\ FaultInv /\ SentInv /\ [CodecNext]_codecVars
        => (IInv /\ MetInv /\ FaultInv /\ SentInv)'
  BY <1>2, NextInv, MetStep, FaultStep, SentStep
<1> QED
  BY <1>1, <1>3, PTL DEF CodecSpec

(* At every moment of an encoding (codec/encode.go, encodeNode), whatever  *)
(* the graph in memory: one row for each object met, rows that say what    *)
(* the objects are, as far as they are written, callers that will take     *)
(* over the right ID, and one source for each file; and none of it changes *)
(* while the unit is on its way.                                           *)
THEOREM EncoderSafety == CodecSpec => []EncoderInv
  BY CodecInvariance, InvImplies, PTL

(* IDs, written fields and sources are final when they are given           *)
(* (encoder.ids, encoder.nodes and encoder.sources): rows that refer to    *)
(* them stay right.                                                        *)
THEOREM WrittenIsFinal == CodecSpec => WrittenStays
<1>1. IInv /\ [CodecNext]_codecVars => [Stays]_vars
  BY NextStays DEF CodecNext, Encode, Transmit, Decode, codecVars
<1> QED
  BY <1>1, CodecInvariance, PTL DEF CodecSpec, WrittenStays

(* Encode (codec/encode.go, encodeNode and encodeField) returns an error   *)
(* for no other reason than one of the arguments, whatever part of the     *)
(* tables it has filled by then, and a unit only if there is no reason.    *)
THEOREM EncodeRefusesOnlyFaults == CodecSpec => []ErrorIsJustified
  BY CodecInvariance, OnlyFaultsAreRefused, PTL

(* From any heap, through Encode, the document and Decode, to a heap that  *)
(* is the same up to the layout of its FileSet: nodes, sharing, order,     *)
(* nil, every position and the records of the caller.                      *)
THEOREM ArrivesIntact == CodecSpec => []RoundTrip
  BY CodecInvariance, RoundTripAtEnd, PTL

(* Decode (codec/decode.go) never returns an error for a unit of Encode:   *)
(* the two sides agree on the forms of fields and on what is valid, and    *)
(* the files fit below MaxInt again.                                       *)
THEOREM NothingIsRefused == CodecSpec => []NeverRefused
  BY CodecInvariance, NotRefused, PTL
=============================================================================
