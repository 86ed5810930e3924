---------------------------- MODULE DecoderProofs ---------------------------
(***************************************************************************)
(* For every schema, every unit and an int of any width: Decode builds its *)
(* FileSet by the protocol of FileSet.                                     *)
(***************************************************************************)
EXTENDS Decoder, TLAPS

FsP == INSTANCE FileSetProofs

(* Sources are only added after the unit has been validated.               *)
Validated ==
    /\ unit \in Units
    /\ phase \in {"sources", "fields", "decoded"} => ValidForToolchain(unit)

LEMMA ValidatedInit == Init => Validated
  BY DEF Init, Validated

LEMMA ValidatedStep == Validated /\ [Next]_vars => Validated'
<1> SUFFICES ASSUME Validated, [Next]_vars PROVE Validated'
  OBVIOUS
<1> USE DEF Validated, Fail, vars, fileSet
<1>1. unit' = unit
  BY DEF Next, Validate, AddSource, Allocate, SkipField, Set, DecodeField,
         NextNode, Return
<1>2. CASE Validate
  BY <1>1, <1>2 DEF Validate
<1>3. CASE AddSource
  BY <1>1, <1>3 DEF AddSource
<1>4. CASE Allocate
  BY <1>1, <1>4 DEF Allocate
<1>5. CASE SkipField
  BY <1>1, <1>5 DEF SkipField, InField, Set
<1>6. CASE DecodeField
  BY <1>1, <1>6 DEF DecodeField, InField, Set
<1>7. CASE NextNode
  BY <1>1, <1>7 DEF NextNode
<1>8. CASE Return
  BY <1>1, <1>8 DEF Return
<1>9. CASE UNCHANGED vars
  BY <1>9
<1> QED
  BY <1>2, <1>3, <1>4, <1>5, <1>6, <1>7, <1>8, <1>9 DEF Next

LEMMA SizeFits ==
    ASSUME Validated, phase = "sources", NEW k \in DOMAIN unit.sources
    PROVE  unit.sources[k].size \in Sizes
<1>1. unit.sources[k] \in SeqRange(unit.sources)
  BY DEF SeqRange
<1>2. unit.sources[k].size >= 0
  BY <1>1 DEF Validated, ValidForToolchain, EnvelopeOK
<1> QED
  BY <1>1, <1>2, UnitsAssumption DEF Validated

LEMMA FileSetStep == Validated /\ [Next]_vars => [Fs!Next]_(Fs!vars)
<1> SUFFICES ASSUME Validated, [Next]_vars PROVE [Fs!Next]_(Fs!vars)
  OBVIOUS
<1>1. CASE AddSource
  <2>1. CASE Fail
    BY <2>1 DEF Fail, Fs!vars
  <2>2. CASE ~ Fail
    <3>1. /\ phase = "sources" /\ next.row \in DOMAIN unit.sources
          /\ Fs!AddSource(unit.sources[next.row].size)
      BY <1>1, <2>2 DEF AddSource
    <3> QED
      BY <3>1, SizeFits DEF Fs!Next
  <2> QED
    BY <2>1, <2>2
<1>2. CASE ~ AddSource
  BY <1>2 DEF Next, Validate, Allocate, SkipField, Set, DecodeField, NextNode,
              Return, Fail, fileSet, vars, Fs!vars
<1> QED
  BY <1>1, <1>2

(* Decode adds files one at a time, each behind the last and only where    *)
(* the guard allows it: it implements FileSet.                             *)
THEOREM DecodeBuildsFileSet == Spec => BuildsFileSet
<1>1. Init => Fs!Init
  BY DEF Init, Idle
<1>2. Spec => []Validated
  BY ValidatedInit, ValidatedStep, PTL DEF Spec
<1> QED
  BY <1>1, <1>2, FileSetStep, PTL DEF Spec, BuildsFileSet, Fs!Spec

-----------------------------------------------------------------------------
(* The files and the nodes built so far                                    *)

(* The first n sources have their files.                                   *)
FilesOf(n) == /\ Len(files) = n
              /\ \A f \in 1 .. n : files[f].size = unit.sources[f].size

FilesInv ==
    /\ FsP!IInv
    /\ phase \in {"validate", "sources"} =>
         /\ next.row \in 1 .. Len(unit.sources) + 1
         /\ FilesOf(next.row - 1)
    /\ phase \in {"fields", "decoded"} => FilesOf(Len(unit.sources))

Specs(j) == KindFields[unit.nodes[j].kind]

(* How many fields of row j are set.                                       *)
Filled(j) == IF j < next.row THEN Len(Specs(j))
             ELSE IF j = next.row THEN next.field - 1 ELSE 0

(* Field k of row j, if it is there, has the form its type asks for and    *)
(* refers to nodes its Go type holds.                                      *)
Fits(j, k) ==
    k \in DOMAIN unit.nodes[j].fields =>
        /\ Decodes(unit.nodes[j].fields[k], Specs(j)[k])
        /\ \A i \in DOMAIN unit.nodes :
             unit.nodes[i].id \in SeqRange(RefIds(unit.nodes[j].fields[k])) =>
                 unit.nodes[i].kind \in Specs(j)[k].holds

RowFilled(j) ==
    LET row == unit.nodes[j]
        fields == nodes[row.id].fields
    IN /\ nodes[row.id] = [kind |-> row.kind, fields |-> fields]
       /\ fields \in Seq(SeqRange(fields))
       /\ Len(fields) = Filled(j)
       /\ \A k \in 1 .. Filled(j) :
            /\ StandsFor(fields[k], row.fields, k, Specs(j)[k])
            /\ Fits(j, k)

RowsInv ==
    phase \in {"fields", "decoded"} =>
        /\ next.row \in 1 .. Len(unit.nodes) + 1
        /\ next.row \in DOMAIN unit.nodes =>
             next.field \in 1 .. Len(Specs(next.row)) + 1
        /\ phase = "decoded" => next.row \notin DOMAIN unit.nodes
        /\ DOMAIN nodes = NodeIds(unit)
        /\ \A j \in DOMAIN unit.nodes : RowFilled(j)

PlaceOK == next \in [row : Nat \ {0}, field : Nat \ {0}]

IInv == Validated /\ PlaceOK /\ FilesInv /\ RowsInv

(* A unit is a list of rows and a list of sources, and what validation     *)
(* found out about them.                                                   *)
LEMMA UnitIsTable ==
    ASSUME Validated
    PROVE  /\ Len(unit.nodes) \in Nat /\ DOMAIN unit.nodes = 1 .. Len(unit.nodes)
           /\ Len(unit.sources) \in Nat
           /\ DOMAIN unit.sources = 1 .. Len(unit.sources)
           /\ \A j \in DOMAIN unit.nodes : unit.nodes[j] \in SeqRange(unit.nodes)
           /\ \A k \in DOMAIN unit.sources : unit.sources[k] \in SeqRange(unit.sources)
<1>1. /\ unit.nodes \in Seq(SeqRange(unit.nodes))
      /\ unit.sources \in Seq(SeqRange(unit.sources))
  BY UnitsAssumption DEF Validated
<1> QED
  BY <1>1 DEF SeqRange

LEMMA ValidRows ==
    ASSUME Validated, phase \in {"sources", "fields", "decoded"}
    PROVE  /\ \A i, j \in DOMAIN unit.nodes :
                unit.nodes[i].id = unit.nodes[j].id => i = j
           /\ \A f, g \in DOMAIN unit.sources :
                unit.sources[f].id = unit.sources[g].id => f = g
           /\ unit.root \in NodeIds(unit)
           /\ \A j \in DOMAIN unit.nodes :
                /\ unit.nodes[j].kind \in DOMAIN KindFields
                /\ Specs(j) \in Seq(FieldSpecs)
                /\ Len(Specs(j)) \in Nat
                /\ DOMAIN Specs(j) = 1 .. Len(Specs(j))
                /\ DOMAIN unit.nodes[j].fields \subseteq DOMAIN Specs(j)
                /\ \A k \in DOMAIN unit.nodes[j].fields :
                     /\ ValueOK(unit.nodes[j].fields[k], unit)
                     /\ unit.nodes[j].fields[k].tag = "null" =>
                          unit.nodes[j].fields[k] = Null
<1>1. ValidForToolchain(unit) /\ EnvelopeOK(unit)
  BY DEF Validated, ValidForToolchain
<1>2. Distinct(unit.nodes) /\ Distinct(unit.sources) /\ unit.root \in NodeIds(unit)
  BY <1>1 DEF EnvelopeOK
<1>3. ASSUME NEW j \in DOMAIN unit.nodes
      PROVE  /\ unit.nodes[j].kind \in DOMAIN KindFields
             /\ Specs(j) \in Seq(FieldSpecs)
             /\ DOMAIN unit.nodes[j].fields \subseteq DOMAIN Specs(j)
             /\ \A k \in DOMAIN unit.nodes[j].fields :
                  /\ ValueOK(unit.nodes[j].fields[k], unit)
                  /\ unit.nodes[j].fields[k].tag = "null" =>
                       unit.nodes[j].fields[k] = Null
  <2>1. unit.nodes[j] \in SeqRange(unit.nodes)
    BY UnitIsTable
  <2>2. unit.nodes[j].kind \in DOMAIN KindFields /\ FieldsOK(unit.nodes[j])
    BY <1>1, <2>1 DEF ValidForToolchain
  <2>3. \A k \in DOMAIN unit.nodes[j].fields : ValueOK(unit.nodes[j].fields[k], unit)
    BY <1>1, <2>1 DEF EnvelopeOK
  <2>4. \A k \in DOMAIN unit.nodes[j].fields :
          unit.nodes[j].fields[k].tag = "null" => unit.nodes[j].fields[k] = Null
    BY <2>1, UnitsAssumption DEF Validated
  <2>5. Specs(j) \in Seq(FieldSpecs)
    BY <2>2, KindFieldsAssumption DEF Specs
  <2>6. DOMAIN unit.nodes[j].fields \subseteq DOMAIN Specs(j)
    BY <2>2 DEF FieldsOK, Specs
  <2> QED
    BY <2>2, <2>3, <2>4, <2>5, <2>6
<1> QED
  BY <1>2, <1>3 DEF Distinct

-----------------------------------------------------------------------------
(* Every step of Decode                                                    *)

LEMMA Constant == Next => unit' = unit
  BY DEF Next, Validate, AddSource, Allocate, SkipField, Set, DecodeField,
         NextNode, Return, Fail

LEMMA PlaceStep == PlaceOK /\ Next => PlaceOK'
<1> SUFFICES ASSUME PlaceOK, Next PROVE PlaceOK'
  OBVIOUS
<1> USE DEF PlaceOK
<1>1. CASE next' = next
  BY <1>1
<1>2. CASE next' = Begin
  BY <1>2 DEF Begin
<1>3. CASE next' = [next EXCEPT !.row = @ + 1]
  BY <1>3
<1>4. CASE next' = [next EXCEPT !.field = @ + 1]
  BY <1>4
<1>5. CASE next' = [row |-> next.row + 1, field |-> 1]
  BY <1>5
<1> QED
  BY <1>1, <1>2, <1>3, <1>4, <1>5
  DEF Next, Validate, AddSource, Allocate, SkipField, Set, DecodeField,
      NextNode, Return, Fail

(* The files                                                               *)

(* The file that is added gets the size of its source.                     *)
LEMMA FilesStep == IInv /\ Next => FilesInv'
<1> SUFFICES ASSUME IInv, Next PROVE FilesInv'
  OBVIOUS
<1> USE DEF IInv
<1>1. unit' = unit
  BY Constant
<1>2. CASE AddSource /\ ~ Fail
  <2>1. /\ phase = "sources" /\ phase' = phase
        /\ next.row \in DOMAIN unit.sources
        /\ next' = [next EXCEPT !.row = @ + 1]
        /\ Fs!AddSource(unit.sources[next.row].size)
    BY <1>2 DEF AddSource
  <2> DEFINE size == unit.sources[next.row].size
  <2>2. size \in Sizes
    BY <2>1, SizeFits
  <2>3. FsP!AddSource(size)
    BY <2>1 DEF Fs!AddSource, Fs!TooLarge, Fs!AddFile,
                FsP!AddSource, FsP!TooLarge, FsP!AddFile
  <2>4. FsP!IInv'
    <3>1. FsP!IInv /\ [FsP!Next]_(FsP!vars)
      BY <2>2, <2>3 DEF FilesInv, FsP!Next
    <3>2. FsP!SizesAssumption
      BY WidthAssumption DEF FsP!SizesAssumption
    <3> QED
      BY <3>1, <3>2, FsP!InvStep
  <2>5. /\ files \in Seq(FsP!Files) /\ ~ panicked /\ base \in 1 .. MaxInt
        /\ ~ panicked'
    BY <2>4 DEF FilesInv, FsP!IInv, FsP!TypeOK, FsP!NeverPanics
  <2>6. files' = Append(files, [base |-> base, size |-> size])
    BY <2>3, <2>5 DEF FsP!AddSource, FsP!AddFile
  <2>7. /\ Len(files') = Len(files) + 1
        /\ \A f \in 1 .. Len(files) : files'[f] = files[f]
        /\ files'[Len(files) + 1].size = size
    <3> DEFINE file == [base |-> base, size |-> size]
    <3>1. file \in FsP!Files /\ file.size = size
      BY <2>2, <2>5 DEF FsP!Files
    <3> HIDE DEF file, size
    <3>2. files' = Append(files, file)
      BY <2>6 DEF file
    <3> QED
      BY <2>5, <3>1, <3>2
  <2>8. /\ next.row \in 1 .. Len(unit.sources) /\ Len(unit.sources) \in Nat
        /\ FilesOf(next.row - 1)
    BY <2>1, UnitIsTable DEF FilesInv
  <2>9. next'.row = next.row + 1
    BY <2>1 DEF PlaceOK
  <2>10. /\ Len(files') = next.row
         /\ \A f \in 1 .. next.row : files'[f].size = unit.sources[f].size
    <3> HIDE DEF size
    <3>1. Len(files) = next.row - 1 /\ Len(files) + 1 = next.row /\ next.row \in Nat
      BY <2>8 DEF FilesOf
    <3>2. ASSUME NEW f \in 1 .. next.row
          PROVE  files'[f].size = unit.sources[f].size
      <4>1. CASE f = next.row
        BY <2>7, <3>1, <4>1 DEF size
      <4>2. CASE f \in 1 .. Len(files)
        BY <2>7, <2>8, <3>1, <4>2 DEF FilesOf
      <4> QED
        BY <3>1, <4>1, <4>2
    <3> QED
      BY <2>7, <3>1, <3>2
  <2>11. next'.row \in 1 .. Len(unit.sources) + 1 /\ next'.row - 1 = next.row
    BY <2>8, <2>9
  <2>12. FilesOf(next.row - 1)'
    BY <1>1, <2>10, <2>11 DEF FilesOf
  <2> QED
    BY <1>1, <2>1, <2>4, <2>11, <2>12 DEF FilesInv
<1>3. CASE UNCHANGED fileSet /\ ~ (AddSource /\ ~ Fail)
  <2>1. UNCHANGED FsP!vars /\ files' = files
    BY <1>3 DEF fileSet, FsP!vars
  <2>2. FsP!IInv'
    BY <2>1, FsP!InvStep, WidthAssumption DEF FilesInv, FsP!SizesAssumption
  <2>3. ASSUME NEW n, FilesOf(n) PROVE FilesOf(n)'
    BY <1>1, <2>1, <2>3 DEF FilesOf
  <2>4. CASE Validate /\ phase' = "sources"
    <3>1. phase = "validate" /\ next' = next
      BY <2>4 DEF Validate, Fail
    <3> QED
      BY <1>1, <2>1, <2>2, <2>4, <3>1 DEF FilesInv, FilesOf
  <2>5. CASE Allocate
    <3>1. /\ phase = "sources" /\ phase' = "fields"
          /\ next.row \notin DOMAIN unit.sources
      BY <2>5 DEF Allocate
    <3>2. next.row - 1 = Len(unit.sources)
      BY <3>1, UnitIsTable DEF FilesInv
    <3> QED
      BY <1>1, <2>1, <2>2, <3>1, <3>2 DEF FilesInv, FilesOf
  <2>6. CASE phase = "fields" /\ phase' \in {"fields", "decoded"}
    BY <1>1, <2>1, <2>2, <2>6 DEF FilesInv, FilesOf
  <2>7. CASE phase' = "error"
    BY <2>2, <2>7 DEF FilesInv
  <2>8. CASE Fail
    BY <2>7, <2>8 DEF Fail
  <2>9. CASE Validate
    BY <2>4, <2>8, <2>9 DEF Validate
  <2>10. CASE SkipField \/ DecodeField \/ NextNode \/ Return
    BY <2>6, <2>8, <2>10 DEF SkipField, DecodeField, NextNode, Return, InField, Set
  <2> QED
    BY <1>3, <2>5, <2>8, <2>9, <2>10 DEF Next
<1> QED
  BY <1>2, <1>3 DEF Next, Validate, AddSource, Allocate, SkipField, Set,
                    DecodeField, NextNode, Return, Fail, fileSet

-----------------------------------------------------------------------------
(* The nodes                                                               *)

LEMMA AppendOne ==
    ASSUME NEW s, s \in Seq(SeqRange(s)), NEW v
    PROVE  /\ Append(s, v) \in Seq(SeqRange(Append(s, v)))
           /\ Len(s) \in Nat /\ Len(Append(s, v)) = Len(s) + 1
           /\ \A k \in 1 .. Len(s) : Append(s, v)[k] = s[k]
           /\ Append(s, v)[Len(s) + 1] = v
<1> DEFINE S == SeqRange(s) \cup {v}
<1>1. s \in Seq(S)
  <2>1. \A k \in 1 .. Len(s) : s[k] \in S
    BY DEF SeqRange
  <2> QED
    BY <2>1
<1>2. v \in S
  OBVIOUS
<1> HIDE DEF S
<1>3. /\ Append(s, v) \in Seq(S)
      /\ Len(s) \in Nat /\ Len(Append(s, v)) = Len(s) + 1
      /\ \A k \in 1 .. Len(s) : Append(s, v)[k] = s[k]
      /\ Append(s, v)[Len(s) + 1] = v
  BY <1>1, <1>2
<1> DEFINE t == Append(s, v)
<1> HIDE DEF t
<1>4. t \in Seq(S) => t \in Seq(SeqRange(t))
  BY DEF SeqRange
<1> QED
  BY <1>3, <1>4 DEF t

(* The position of a row's field is that of its source, offset for offset. *)
LEMMA PosAtStands ==
    ASSUME Validated, FilesInv, phase = "fields",
           NEW j \in DOMAIN unit.nodes, NEW k \in DOMAIN unit.nodes[j].fields,
           Specs(j)[k].type = "position",
           Decodes(unit.nodes[j].fields[k], Specs(j)[k])
    PROVE  LET value == unit.nodes[j].fields[k]
           IN StandsFor(Pos(IF value = Null THEN NoPos ELSE PosAt(value)),
                        unit.nodes[j].fields, k, Specs(j)[k])
<1> DEFINE value == unit.nodes[j].fields[k]
<1>1. CASE value = Null
  BY <1>1 DEF StandsFor
<1>2. CASE value # Null
  <2>1. value.tag = "position" /\ ValueOK(value, unit)
    BY <1>2, ValidRows DEF Decodes
  <2>2. PICK source \in SeqRange(unit.sources) :
            source.id = value.source /\ value.offset \in 0 .. source.size
    BY <2>1 DEF ValueOK
  <2>3. PICK g \in DOMAIN unit.sources : unit.sources[g] = source
    BY DEF SeqRange
  <2> DEFINE f == CHOOSE h \in DOMAIN unit.sources : unit.sources[h].id = value.source
             pos == PosOf(files[f], value.offset)
  <2>4. f \in DOMAIN unit.sources /\ unit.sources[f].id = value.source
    BY <2>2, <2>3
  <2>5. f = g
    BY <2>2, <2>3, <2>4, ValidRows
  <2> HIDE DEF f
  <2>6. files \in Seq(FsP!Files) /\ FsP!PositionsRoundTrip
    BY WidthAssumption, FsP!LaidOutRoundTrips
    DEF FilesInv, FsP!IInv, FsP!TypeOK, FsP!SizesAssumption
  <2>7. f \in DOMAIN files /\ files[f].size = source.size
    BY <2>3, <2>4, <2>5, <2>6, UnitIsTable DEF FilesInv, FilesOf
  <2>8. /\ pos # NoPos
        /\ FilesAt(files, pos) = {f}
        /\ OffsetOf(files[f], pos) = value.offset
    BY <2>2, <2>6, <2>7
    DEF FsP!PositionsRoundTrip, FsP!PosOf, PosOf, FsP!FilesAt, FilesAt,
        FsP!Covers, Covers, FsP!OffsetOf, OffsetOf, FsP!NoPos, NoPos
  <2>9. PosAt(value) = pos
    BY DEF PosAt, f
  <2> HIDE DEF pos
  <2> QED
    BY <1>2, <2>4, <2>7, <2>8, <2>9 DEF StandsFor, Pos
<1> QED
  BY <1>1, <1>2

(* A field that is set right leaves the other rows as they were.           *)
LEMMA SetStep ==
    ASSUME IInv, InField, NEW v, Set(v),
           StandsFor(v, Row.fields, next.field, FieldSpec),
           Fits(next.row, next.field)
    PROVE  RowsInv'
<1> USE DEF IInv
<1>1. /\ phase = "fields" /\ next.row \in DOMAIN unit.nodes
      /\ next.field \in DOMAIN Specs(next.row)
      /\ Row = unit.nodes[next.row] /\ FieldSpec = Specs(next.row)[next.field]
  BY DEF InField, Row, FieldSpec, Specs
<1>2. /\ unit' = unit /\ files' = files /\ phase' = phase
      /\ nodes' = [nodes EXCEPT ![Row.id].fields = Append(@, v)]
      /\ next' = [next EXCEPT !.field = @ + 1]
  BY DEF Set, fileSet
<1>3. next'.row = next.row /\ next'.field = next.field + 1
  BY <1>2 DEF PlaceOK
<1>4. /\ Len(Specs(next.row)) \in Nat
      /\ next.field \in 1 .. Len(Specs(next.row))
  BY <1>1, ValidRows
<1> DEFINE id == Row.id
           old == nodes[id].fields
<1>5. /\ id \in DOMAIN nodes
      /\ nodes[id] = [kind |-> Row.kind, fields |-> old]
      /\ old \in Seq(SeqRange(old)) /\ Len(old) = next.field - 1
  BY <1>1, <1>4, SMTT(40) DEF RowsInv, RowFilled, NodeIds, Filled, PlaceOK
<1>6. /\ DOMAIN nodes' = DOMAIN nodes
      /\ nodes'[id] = [kind |-> Row.kind, fields |-> Append(old, v)]
      /\ \A i \in DOMAIN nodes : i # id => nodes'[i] = nodes[i]
  <2> DEFINE new == [nodes[id] EXCEPT !.fields = Append(@, v)]
  <2>1. nodes' = [nodes EXCEPT ![id] = new]
    BY <1>2
  <2>2. new = [kind |-> Row.kind, fields |-> Append(old, v)]
    <3>1. nodes[id] \in [kind : {Row.kind}, fields : {old}]
      <4> HIDE DEF id, old
      <4> QED
        BY <1>5
    <3>2. \A r \in [kind : {Row.kind}, fields : {old}] : \A w :
            [r EXCEPT !.fields = w] = [kind |-> Row.kind, fields |-> w]
      <4> HIDE DEF id, old
      <4> QED
        OBVIOUS
    <3> QED
      BY <3>1, <3>2
  <2> HIDE DEF new, id
  <2> QED
    BY <1>5, <2>1, <2>2
<1>7. \A j : Specs(j)' = Specs(j)
  BY <1>2 DEF Specs
<1>8. ASSUME NEW j \in DOMAIN unit.nodes
      PROVE  RowFilled(j)'
  <2> DEFINE fields == nodes[unit.nodes[j].id].fields
  <2>1. \A w, k : StandsFor(w, unit.nodes[j].fields, k, Specs(j)[k])'
                    <=> StandsFor(w, unit.nodes[j].fields, k, Specs(j)[k])
    BY <1>2, <1>7 DEF StandsFor
  <2>2. \A k : Fits(j, k)' <=> Fits(j, k)
    BY <1>2, <1>7 DEF Fits
  <2>3. RowFilled(j) /\ j \in Nat /\ next.row \in Nat
    BY <1>1, UnitIsTable DEF RowsInv, PlaceOK
  <2>4. CASE j = next.row
    <3>1. /\ nodes'[unit'.nodes[j].id] = [kind |-> Row.kind, fields |-> Append(old, v)]
          /\ unit'.nodes[j].kind = Row.kind
      BY <1>1, <1>2, <1>6, <2>4
    <3>2. Filled(j) = next.field - 1 /\ Filled(j)' = next.field
      BY <1>3, <1>4, <2>3, <2>4 DEF Filled
    <3>3. /\ Append(old, v) \in Seq(SeqRange(Append(old, v)))
          /\ Len(Append(old, v)) = next.field
          /\ \A k \in 1 .. next.field - 1 : Append(old, v)[k] = old[k]
          /\ Append(old, v)[next.field] = v
      BY <1>4, <1>5, AppendOne
    <3>4. ASSUME NEW k \in 1 .. next.field
          PROVE  /\ StandsFor(Append(old, v)[k], unit.nodes[j].fields, k, Specs(j)[k])
                 /\ Fits(j, k)
      <4>1. CASE k = next.field
        BY <1>1, <2>4, <3>3, <4>1
      <4>2. CASE k \in 1 .. next.field - 1
        BY <1>1, <2>3, <2>4, <3>2, <3>3, <4>2 DEF RowFilled
      <4>3. k = next.field \/ k \in 1 .. next.field - 1
        BY <1>4
      <4> QED
        BY <4>1, <4>2, <4>3
    <3>5. fields' = Append(old, v)
      BY <3>1
    <3> HIDE DEF old
    <3>6. /\ nodes'[unit'.nodes[j].id] = [kind |-> unit'.nodes[j].kind, fields |-> fields']
          /\ (fields \in Seq(SeqRange(fields)))' /\ Len(fields') = Filled(j)'
      BY <3>1, <3>2, <3>3, <3>5
    <3>7. ASSUME NEW k \in 1 .. Filled(j)'
          PROVE  /\ StandsFor(fields[k], unit.nodes[j].fields, k, Specs(j)[k])'
                 /\ Fits(j, k)'
      <4>1. /\ StandsFor(Append(old, v)[k], unit.nodes[j].fields, k, Specs(j)[k])
            /\ Fits(j, k)
        BY <3>2, <3>4
      <4>2. Fits(j, k)'
        BY <2>2, <4>1
      <4> QED
        BY <1>2, <1>7, <3>5, <4>1, <4>2 DEF StandsFor
    <3> QED
      BY <1>2, <3>6, <3>7 DEF RowFilled
  <2>5. CASE j # next.row
    <3>1. unit.nodes[j].id # id /\ unit.nodes[j].id \in DOMAIN nodes
      BY <1>1, <2>5, ValidRows DEF RowsInv, NodeIds
    <3>2. nodes'[unit'.nodes[j].id] = nodes[unit.nodes[j].id]
      BY <1>2, <1>6, <3>1
    <3>3. Filled(j)' = Filled(j)
      BY <1>3, <1>7, <2>3, <2>5 DEF Filled
    <3> QED
      BY <1>2, <1>7, <2>1, <2>2, <2>3, <3>2, <3>3 DEF RowFilled
  <2> QED
    BY <2>4, <2>5
<1>9. DOMAIN nodes' = NodeIds(unit') /\ next'.row \in 1 .. Len(unit'.nodes) + 1
  BY <1>1, <1>2, <1>3, <1>6 DEF RowsInv
<1>10. next'.field \in 1 .. Len(Specs(next.row)) + 1
  BY <1>3, <1>4
<1> QED
  BY <1>1, <1>2, <1>3, <1>7, <1>8, <1>9, <1>10 DEF RowsInv

(* Rows that were filled stay so while only the place in the loop moves.   *)
LEMMA RowsKept ==
    ASSUME IInv, UNCHANGED <<unit, files, nodes>>,
           NEW j \in DOMAIN unit.nodes, RowFilled(j), Filled(j)' = Filled(j)
    PROVE  RowFilled(j)'
<1>1. Specs(j)' = Specs(j)
  BY DEF Specs
<1> QED
  BY <1>1 DEF RowFilled, StandsFor, Fits

LEMMA RowsStep == IInv /\ Next => RowsInv'
<1> SUFFICES ASSUME IInv, Next PROVE RowsInv'
  OBVIOUS
<1> USE DEF IInv
<1>1. unit' = unit
  BY Constant
<1>2. CASE phase' \in {"sources", "error"}
  BY <1>2 DEF RowsInv
<1>3. CASE Allocate
  <2>1. /\ phase' = "fields" /\ next'.row = 1 /\ next'.field = 1
        /\ phase = "sources"
    BY <1>3 DEF Allocate, Begin
  <2> DEFINE rowOf(id) == CHOOSE n \in SeqRange(unit.nodes) : n.id = id
  <2>2. nodes' = [id \in NodeIds(unit) |-> [kind |-> rowOf(id).kind, fields |-> <<>>]]
    BY <1>3 DEF Allocate
  <2>3. ASSUME NEW j \in DOMAIN unit.nodes
        PROVE  rowOf(unit.nodes[j].id) = unit.nodes[j]
    <3>1. unit.nodes[j] \in SeqRange(unit.nodes)
      BY UnitIsTable
    <3>2. rowOf(unit.nodes[j].id) \in SeqRange(unit.nodes)
          /\ rowOf(unit.nodes[j].id).id = unit.nodes[j].id
      BY <3>1
    <3> HIDE DEF rowOf
    <3>3. PICK i \in DOMAIN unit.nodes : rowOf(unit.nodes[j].id) = unit.nodes[i]
      BY <3>2 DEF SeqRange
    <3> QED
      BY <2>1, <3>2, <3>3, ValidRows
  <2> HIDE DEF rowOf
  <2>4. ASSUME NEW j \in DOMAIN unit.nodes
        PROVE  RowFilled(j)'
    <3>1. nodes'[unit.nodes[j].id] = [kind |-> unit.nodes[j].kind, fields |-> <<>>]
      BY <2>2, <2>3 DEF NodeIds
    <3>2. Filled(j)' = 0
      BY <2>1, UnitIsTable DEF Filled
    <3>3. nodes'[unit.nodes[j].id].fields = <<>>
      BY <3>1
    <3>4. <<>> \in Seq(SeqRange(<<>>)) /\ Len(<<>>) = 0 /\ 1 .. 0 = {}
      OBVIOUS
    <3> QED
      BY <1>1, <3>1, <3>2, <3>3, <3>4 DEF RowFilled
  <2>5. DOMAIN nodes' = NodeIds(unit')
    BY <1>1, <2>2
  <2>6. 1 \in 1 .. Len(unit'.nodes) + 1
    BY <1>1, UnitIsTable
  <2>7. 1 \in DOMAIN unit.nodes => 1 \in 1 .. Len(Specs(1)') + 1
    BY <1>1, <2>1, ValidRows DEF Specs
  <2> QED
    BY <1>1, <2>1, <2>4, <2>5, <2>6, <2>7 DEF RowsInv
<1>4. CASE SkipField
  <2>1. /\ InField /\ next.field \notin DOMAIN Row.fields /\ Set(Zero(FieldSpec))
    BY <1>4 DEF SkipField
  <2>2. StandsFor(Zero(FieldSpec), Row.fields, next.field, FieldSpec)
    BY <2>1 DEF StandsFor
  <2>3. Fits(next.row, next.field)
    BY <2>1 DEF Fits, Row
  <2> QED
    BY <2>1, <2>2, <2>3, SetStep
<1>5. CASE DecodeField /\ ~ Fail
  <2> DEFINE value == Row.fields[next.field]
             set == IF FieldSpec.type = "position"
                    THEN Pos(IF value = Null THEN NoPos ELSE PosAt(value))
                    ELSE value
  <2>1. /\ InField /\ next.field \in DOMAIN Row.fields
        /\ Decodes(value, FieldSpec) /\ Holds(value, FieldSpec) /\ Set(set)
    BY <1>5 DEF DecodeField
  <2>2. /\ phase = "fields" /\ next.row \in DOMAIN unit.nodes
        /\ Row = unit.nodes[next.row] /\ FieldSpec = Specs(next.row)[next.field]
    BY <2>1 DEF InField, Row, FieldSpec, Specs
  <2>3. StandsFor(set, Row.fields, next.field, FieldSpec)
    <3>1. CASE FieldSpec.type = "position"
      BY <2>1, <2>2, <3>1, PosAtStands
    <3>2. CASE FieldSpec.type # "position"
      BY <2>1, <3>2 DEF StandsFor
    <3> QED
      BY <3>1, <3>2
  <2>4. Fits(next.row, next.field)
    <3> SUFFICES ASSUME NEW i \in DOMAIN unit.nodes,
                        unit.nodes[i].id \in SeqRange(RefIds(value))
                 PROVE  unit.nodes[i].kind \in FieldSpec.holds
      BY <2>1, <2>2 DEF Fits
    <3>1. nodes[unit.nodes[i].id].kind = unit.nodes[i].kind
      <4>1. RowFilled(i)
        BY <2>2 DEF RowsInv
      <4>2. nodes[unit.nodes[i].id]
              = [kind |-> unit.nodes[i].kind, fields |-> nodes[unit.nodes[i].id].fields]
        BY <4>1 DEF RowFilled
      <4> QED
        BY <4>2
    <3> HIDE DEF value
    <3>2. \A id \in SeqRange(RefIds(value)) : nodes[id].kind \in FieldSpec.holds
      BY <2>1 DEF Holds
    <3>3. nodes[unit.nodes[i].id].kind \in FieldSpec.holds
      BY <3>2
    <3> QED
      BY <3>1, <3>3
  <2> HIDE DEF set
  <2> QED
    BY <2>1, <2>3, <2>4, SetStep
<1>6. CASE NextNode
  <2>1. /\ phase = "fields" /\ phase' = "fields" /\ next.row \in DOMAIN unit.nodes
        /\ next.field \notin DOMAIN Specs(next.row)
        /\ next'.row = next.row + 1 /\ next'.field = 1
        /\ UNCHANGED <<unit, files, nodes>>
    BY <1>6 DEF NextNode, Row, Specs, fileSet
  <2>2. /\ next.row \in 1 .. Len(unit.nodes) /\ Len(unit.nodes) \in Nat
        /\ DOMAIN unit.nodes = 1 .. Len(unit.nodes)
    BY <2>1, UnitIsTable
  <2>3. next.field - 1 = Len(Specs(next.row)) /\ next.row \in Nat
    BY <2>1, <2>2, ValidRows DEF RowsInv, PlaceOK
  <2>4. \A j \in DOMAIN unit.nodes : Specs(j)' = Specs(j) /\ Len(Specs(j)) \in Nat
    BY <2>1, ValidRows DEF Specs
  <2>5. ASSUME NEW j \in DOMAIN unit.nodes PROVE RowFilled(j)'
    <3>1. Filled(j)' = Filled(j)
      BY <2>1, <2>2, <2>3, <2>4 DEF Filled
    <3> QED
      BY <2>1, <3>1, RowsKept DEF RowsInv
  <2>6. next'.row \in 1 .. Len(unit.nodes) + 1
    BY <2>1, <2>2
  <2>7. next'.row \in DOMAIN unit.nodes => 1 \in 1 .. Len(Specs(next.row)') + 1
    BY <2>1, <2>4 DEF Specs
  <2> QED
    BY <1>1, <2>1, <2>5, <2>6, <2>7 DEF RowsInv
<1>7. CASE Return
  <2>1. /\ phase = "fields" /\ phase' = "decoded" /\ next' = next
        /\ next.row \notin DOMAIN unit.nodes /\ UNCHANGED <<unit, files, nodes>>
    BY <1>7 DEF Return, fileSet
  <2>2. ASSUME NEW j \in DOMAIN unit.nodes PROVE RowFilled(j)'
    <3>1. Filled(j)' = Filled(j)
      BY <2>1 DEF Filled, Specs
    <3> QED
      BY <2>1, <3>1, RowsKept DEF RowsInv
  <2> QED
    BY <1>1, <2>1, <2>2 DEF RowsInv, Specs
<1> QED
  BY <1>2, <1>3, <1>4, <1>5, <1>6, <1>7
  DEF Next, Validate, AddSource, DecodeField, Fail

LEMMA InvInit == Init => IInv
<1> SUFFICES ASSUME Init PROVE IInv
  OBVIOUS
<1>1. /\ phase = "validate" /\ files = <<>> /\ base = 1 /\ panicked = FALSE
      /\ next.row = 1 /\ PlaceOK /\ FsP!Init
  BY DEF Init, Idle, Fs!Init, FsP!Init, Begin, PlaceOK
<1>2. Validated
  BY ValidatedInit
<1>3. FsP!IInv
  BY <1>1, FsP!InvHoldsFirst, WidthAssumption DEF FsP!SizesAssumption
<1>4. FilesOf(0) /\ 1 \in 1 .. Len(unit.sources) + 1
  BY <1>1, <1>2, UnitIsTable DEF FilesOf
<1> QED
  BY <1>1, <1>2, <1>3, <1>4 DEF IInv, FilesInv, RowsInv

LEMMA InvStep == IInv /\ [Next]_vars => IInv'
<1> SUFFICES ASSUME IInv, [Next]_vars PROVE IInv'
  OBVIOUS
<1>1. CASE Next
  BY <1>1, ValidatedStep, PlaceStep, FilesStep, RowsStep DEF IInv
<1>2. CASE UNCHANGED vars
  <2>1. UNCHANGED <<unit, files, base, panicked, nodes, next, phase>>
    BY <1>2 DEF vars
  <2>2. FsP!IInv'
    BY <2>1, FsP!InvStep, WidthAssumption
    DEF IInv, FilesInv, FsP!SizesAssumption, FsP!vars
  <2>3. FilesInv'
    BY <2>1, <2>2 DEF IInv, FilesInv, FilesOf
  <2>4. ASSUME NEW j \in DOMAIN unit.nodes, RowFilled(j) PROVE RowFilled(j)'
    BY <2>1, <2>4, RowsKept DEF Filled, Specs
  <2>5. RowsInv'
    BY <2>1, <2>4 DEF IInv, RowsInv, Specs
  <2> QED
    BY <2>1, <2>3, <2>5, ValidatedStep DEF IInv, PlaceOK, vars
<1> QED
  BY <1>1, <1>2

(* In every state of Decode the files are those of the first sources, and  *)
(* the fields that have been set are the first fields of the first rows.   *)
THEOREM Invariance == Spec => []IInv
  BY InvInit, InvStep, PTL DEF Spec

-----------------------------------------------------------------------------

(* When Decode returns, all rows are filled.                               *)
LEMMA AllFilled ==
    ASSUME IInv, phase = "decoded", NEW j \in DOMAIN unit.nodes
    PROVE  /\ RowFilled(j) /\ Filled(j) = Len(Specs(j))
           /\ DOMAIN nodes = NodeIds(unit)
           /\ nodes[unit.nodes[j].id].kind = unit.nodes[j].kind
           /\ DOMAIN nodes[unit.nodes[j].id].fields = DOMAIN Specs(j)
<1>1. RowFilled(j) /\ DOMAIN nodes = NodeIds(unit)
  BY DEF IInv, RowsInv
<1>2. j < next.row
  BY UnitIsTable DEF IInv, RowsInv
<1>3. Filled(j) = Len(Specs(j))
  BY <1>2 DEF Filled
<1> DEFINE fields == nodes[unit.nodes[j].id].fields
<1>4. /\ nodes[unit.nodes[j].id] = [kind |-> unit.nodes[j].kind, fields |-> fields]
      /\ fields \in Seq(SeqRange(fields)) /\ Len(fields) = Len(Specs(j))
  BY <1>1, <1>3 DEF RowFilled
<1>5. nodes[unit.nodes[j].id].kind = unit.nodes[j].kind
  <2> HIDE DEF fields
  <2> QED
    BY <1>4
<1>6. DOMAIN fields = 1 .. Len(fields)
  <2> HIDE DEF fields
  <2> QED
    BY <1>4
<1>7. DOMAIN fields = DOMAIN Specs(j)
  BY <1>4, <1>6, ValidRows DEF IInv
<1> QED
  BY <1>1, <1>3, <1>5, <1>7

(* When Decode returns, the nodes are those of the unit.                   *)
LEMMA CopyAtEnd == IInv => DecodedIsCopy
<1> SUFFICES ASSUME IInv, phase = "decoded" PROVE DecodedIsCopy
  BY DEF DecodedIsCopy
<1>1. DOMAIN nodes = NodeIds(unit) /\ unit.root \in DOMAIN nodes
  BY ValidRows DEF IInv, RowsInv
<1>2. ASSUME NEW node \in SeqRange(unit.nodes)
      PROVE  LET specs == KindFields[node.kind]
                 fields == nodes[node.id].fields
             IN /\ nodes[node.id].kind = node.kind
                /\ DOMAIN fields = DOMAIN specs
                /\ \A k \in DOMAIN specs :
                     StandsFor(fields[k], node.fields, k, specs[k])
  <2>1. PICK j \in DOMAIN unit.nodes : node = unit.nodes[j]
    BY DEF SeqRange
  <2>2. /\ nodes[node.id].kind = node.kind
        /\ DOMAIN nodes[node.id].fields = DOMAIN Specs(j)
        /\ Filled(j) = Len(Specs(j)) /\ RowFilled(j)
    BY <2>1, AllFilled
  <2>3. DOMAIN Specs(j) = 1 .. Filled(j)
    BY <2>2, ValidRows DEF IInv
  <2>4. \A k \in DOMAIN Specs(j) :
          StandsFor(nodes[node.id].fields[k], node.fields, k, Specs(j)[k])
    BY <2>1, <2>2, <2>3 DEF RowFilled
  <2> QED
    BY <2>1, <2>2, <2>4 DEF Specs
<1> QED
  BY <1>1, <1>2 DEF DecodedIsCopy

(* What Decode returns is the graph the unit describes, node for node and  *)
(* field for field, with every position where it was in its source.        *)
THEOREM DecodedIsFaithful == Spec => []DecodedIsCopy
  BY CopyAtEnd, Invariance, PTL

(* The child fields of a node in memory are those of its row; one that the *)
(* row leaves out has no children.                                         *)
LEMMA ChildFieldsAreKept ==
    ASSUME IInv, phase = "decoded", NEW j \in DOMAIN unit.nodes,
           NEW k \in DOMAIN Specs(j), IsChildField(Specs(j)[k])
    PROVE  RefIds(nodes[unit.nodes[j].id].fields[k])
             = IF k \in DOMAIN unit.nodes[j].fields
               THEN RefIds(unit.nodes[j].fields[k]) ELSE <<>>
<1> DEFINE value == nodes[unit.nodes[j].id].fields[k]
<1>1. StandsFor(value, unit.nodes[j].fields, k, Specs(j)[k])
  <2>1. RowFilled(j) /\ Filled(j) = Len(Specs(j))
    BY AllFilled
  <2>2. k \in 1 .. Filled(j)
    BY <2>1, ValidRows DEF IInv
  <2> QED
    BY <2>1, <2>2 DEF RowFilled
<1>2. Specs(j)[k].type # "position"
  BY DEF IsChildField
<1>3. CASE k \in DOMAIN unit.nodes[j].fields
  BY <1>1, <1>2, <1>3 DEF StandsFor
<1>4. CASE k \notin DOMAIN unit.nodes[j].fields
  <2>1. value = Null
    BY <1>1, <1>2, <1>4 DEF StandsFor, Zero
  <2>2. RefIds(Null) = <<>>
    BY DEF RefIds, HasRefs, Null
  <2> QED
    BY <1>4, <2>1, <2>2
<1> QED
  BY <1>3, <1>4

(* The children of a node in memory are the children of its row.           *)
LEMMA SameChildren ==
    ASSUME IInv, phase = "decoded", NEW j \in DOMAIN unit.nodes
    PROVE  FieldRefs(nodes[unit.nodes[j].id].fields, Specs(j))
             = FieldRefs(unit.nodes[j].fields, Specs(j))
<1> DEFINE copy == nodes[unit.nodes[j].id].fields
           fields == unit.nodes[j].fields
           refs(f, k) == IF k \in DOMAIN f /\ IsChildField(Specs(j)[k])
                         THEN RefIds(f[k]) ELSE <<>>
<1>1. \A k \in DOMAIN Specs(j) : refs(copy, k) = refs(fields, k)
  <2> SUFFICES ASSUME NEW k \in DOMAIN Specs(j)
               PROVE  refs(copy, k) = refs(fields, k)
    OBVIOUS
  <2>1. k \in DOMAIN copy
    BY AllFilled
  <2>2. CASE IsChildField(Specs(j)[k])
    <3>1. RefIds(copy[k]) = IF k \in DOMAIN fields THEN RefIds(fields[k]) ELSE <<>>
      BY <2>2, ChildFieldsAreKept
    <3> QED
      BY <2>1, <2>2, <3>1
  <2>3. CASE ~ IsChildField(Specs(j)[k])
    BY <2>3
  <2> QED
    BY <2>2, <2>3
<1> QED
  BY <1>1 DEF FieldRefs

(* The graph in memory is the graph validation found to be acyclic.        *)
LEMMA SameGraph ==
    ASSUME IInv, phase = "decoded"
    PROVE  [ id \in DOMAIN nodes |->
               FieldRefs(nodes[id].fields, KindFields[nodes[id].kind]) ]
             = ChildGraph(SeqRange(unit.nodes))
<1> DEFINE Rows == SeqRange(unit.nodes)
           rowOf(id) == CHOOSE node \in Rows : node.id = id
           refs(id) == FieldRefs(nodes[id].fields, KindFields[nodes[id].kind])
           wire(id) == FieldRefs(rowOf(id).fields, KindFields[rowOf(id).kind])
<1>1. DOMAIN nodes = { node.id : node \in Rows }
  <2>1. DOMAIN nodes = { unit.nodes[j].id : j \in DOMAIN unit.nodes }
    BY DEF IInv, RowsInv, NodeIds
  <2> QED
    BY <2>1 DEF SeqRange
<1>2. ASSUME NEW id \in DOMAIN nodes
      PROVE  refs(id) = wire(id)
  <2>1. PICK j \in DOMAIN unit.nodes : id = unit.nodes[j].id
    BY DEF IInv, RowsInv, NodeIds
  <2>2. rowOf(id) = unit.nodes[j]
    <3>1. unit.nodes[j] \in Rows
      BY UnitIsTable DEF IInv
    <3>2. rowOf(id) \in Rows /\ rowOf(id).id = id
      BY <2>1, <3>1
    <3> HIDE DEF rowOf
    <3>3. PICK i \in DOMAIN unit.nodes : rowOf(id) = unit.nodes[i]
      BY <3>2 DEF SeqRange
    <3> QED
      BY <2>1, <3>2, <3>3, ValidRows DEF IInv
  <2>3. nodes[id].kind = unit.nodes[j].kind
    BY <2>1, AllFilled
  <2>4. FieldRefs(nodes[id].fields, Specs(j)) = FieldRefs(unit.nodes[j].fields, Specs(j))
    BY <2>1, SameChildren
  <2> HIDE DEF rowOf
  <2> QED
    BY <2>2, <2>3, <2>4 DEF Specs
<1>3. ChildGraph(Rows) = [ id \in { node.id : node \in Rows } |-> wire(id) ]
  BY DEF ChildGraph
<1>4. [ id \in DOMAIN nodes |-> refs(id) ]
        = [ id \in { node.id : node \in Rows } |-> wire(id) ]
  <2> HIDE DEF refs, wire
  <2> QED
    BY <1>1, <1>2
<1> QED
  BY <1>3, <1>4

(* No cycle goes through child fields of what Decode returns, and every    *)
(* child has a kind that the Go type of its field can hold.                *)
THEOREM DecodedIsGo == Spec => []DecodedIsGoAST
<1>1. IInv => DecodedIsGoAST
  <2> SUFFICES ASSUME IInv, phase = "decoded" PROVE DecodedIsGoAST
    BY DEF DecodedIsGoAST
  <2>1. Acyclic(ChildGraph(SeqRange(unit.nodes)))
    BY DEF IInv, Validated, ValidForToolchain
  <2>2. ASSUME NEW id \in DOMAIN nodes, NEW k \in DOMAIN nodes[id].fields,
               NEW child \in SeqRange(RefIds(nodes[id].fields[k])),
               IsChildField(KindFields[nodes[id].kind][k])
        PROVE  nodes[child].kind \in KindFields[nodes[id].kind][k].holds
    <3>1. PICK j \in DOMAIN unit.nodes : id = unit.nodes[j].id
      BY DEF IInv, RowsInv, NodeIds
    <3>2. /\ nodes[id].kind = unit.nodes[j].kind /\ k \in DOMAIN Specs(j)
          /\ RowFilled(j) /\ Filled(j) = Len(Specs(j))
          /\ KindFields[nodes[id].kind] = Specs(j)
      BY <3>1, AllFilled DEF Specs
    <3>3. /\ k \in DOMAIN unit.nodes[j].fields
          /\ child \in SeqRange(RefIds(unit.nodes[j].fields[k]))
      <4>1. SeqRange(<<>>) = {}
        BY DEF SeqRange
      <4> QED
        BY <2>2, <3>1, <3>2, <4>1, ChildFieldsAreKept
    <3>4. child \in NodeIds(unit)
      BY <3>3, ValidRows DEF IInv, ValueOK
    <3>5. PICK i \in DOMAIN unit.nodes : child = unit.nodes[i].id
      BY <3>4 DEF NodeIds
    <3>6. Fits(j, k)
      BY <3>2, ValidRows DEF IInv, RowFilled
    <3>7. unit.nodes[i].kind \in Specs(j)[k].holds
      BY <3>3, <3>5, <3>6 DEF Fits
    <3> QED
      BY <3>2, <3>5, <3>7, AllFilled
  <2>3. Acyclic([ id \in DOMAIN nodes |->
                    FieldRefs(nodes[id].fields, KindFields[nodes[id].kind]) ])
    BY <2>1, SameGraph
  <2> QED
    BY <2>2, <2>3 DEF DecodedIsGoAST
<1> QED
  BY <1>1, Invariance, PTL

-----------------------------------------------------------------------------
(* What is refused                                                         *)

(* The base is where every layout of the sources has the next file; and    *)
(* what has been refused had to be.                                        *)
Refusals ==
    /\ FsP!Chained
    /\ phase \in {"validate", "sources"} =>
         \A bases \in Layouts : IsLayout(bases) => bases[next.row] = base
    /\ phase = "error" => ~ Decodable

LEMMA RefusalsInit == Init => Refusals
<1> SUFFICES ASSUME Init PROVE Refusals
  OBVIOUS
<1>1. phase = "validate" /\ next.row = 1 /\ base = 1 /\ FsP!Init
  BY DEF Init, Idle, Begin, Fs!Init, FsP!Init
<1>2. FsP!Chained
  BY <1>1, FsP!ChainedFirst, WidthAssumption DEF FsP!SizesAssumption
<1> QED
  BY <1>1, <1>2 DEF Refusals, IsLayout

(* A source that the guard turns down leaves no room for a layout.         *)
LEMMA RefusedSource ==
    ASSUME IInv, Refusals, phase = "sources", next.row \in DOMAIN unit.sources,
           Fs!TooLarge(unit.sources[next.row].size)
    PROVE  ~ SourcesFit
<1> SUFFICES ASSUME NEW bases \in Layouts, IsLayout(bases) PROVE FALSE
  BY DEF SourcesFit
<1>1. /\ next.row \in 1 .. Len(unit.sources) /\ Len(unit.sources) \in Nat
      /\ unit.sources[next.row].size \in Nat /\ MaxInt \in Nat
  <2>1. Validated
    BY DEF IInv
  <2>2. unit.sources[next.row].size \in Sizes
    BY <2>1, SizeFits
  <2>3. Sizes \subseteq Nat /\ MaxInt \in Nat
    BY WidthAssumption
  <2>4. unit.sources[next.row].size \in Nat
    BY <2>2, <2>3
  <2>5. next.row \in 1 .. Len(unit.sources) /\ Len(unit.sources) \in Nat
    BY <2>1, UnitIsTable
  <2> QED
    BY <2>3, <2>4, <2>5
<1>2. /\ bases[next.row] = base
      /\ bases[next.row + 1] = base + unit.sources[next.row].size + 1
  BY DEF Refusals, IsLayout
<1>3. bases[next.row] \in 1 .. MaxInt /\ bases[next.row + 1] \in 1 .. MaxInt
  BY <1>1 DEF Layouts
<1> QED
  BY <1>1, <1>2, <1>3 DEF Fs!TooLarge

(* A field that is turned down is of the wrong form or has a child that    *)
(* does not belong there.                                                  *)
LEMMA RefusedField ==
    ASSUME IInv, InField, next.field \in DOMAIN Row.fields,
           \/ ~ Decodes(Row.fields[next.field], FieldSpec)
           \/ ~ Holds(Row.fields[next.field], FieldSpec)
    PROVE  ~ Decodable
<1> PICK value : value = Row.fields[next.field]
  OBVIOUS
<1>1. /\ phase = "fields" /\ next.row \in DOMAIN unit.nodes
      /\ Row = unit.nodes[next.row] /\ FieldSpec = Specs(next.row)[next.field]
      /\ Row \in SeqRange(unit.nodes)
  BY UnitIsTable DEF InField, Row, FieldSpec, Specs, IInv
<1>2. CASE ~ Decodes(value, FieldSpec)
  BY <1>1, <1>2 DEF Decodable, FieldSpec
<1>3. CASE ~ Holds(value, FieldSpec)
  <2>1. PICK id \in SeqRange(RefIds(value)) : nodes[id].kind \notin FieldSpec.holds
    BY <1>3 DEF Holds
  <2>2. id \in NodeIds(unit)
    BY <1>1, <2>1, ValidRows DEF IInv, ValueOK
  <2>3. PICK i \in DOMAIN unit.nodes : id = unit.nodes[i].id
    BY <2>2 DEF NodeIds
  <2>4. nodes[id].kind = unit.nodes[i].kind
    <3>1. RowFilled(i)
      BY <1>1 DEF IInv, RowsInv
    <3>2. nodes[id] = [kind |-> unit.nodes[i].kind, fields |-> nodes[id].fields]
      BY <2>3, <3>1 DEF RowFilled
    <3> QED
      BY <3>2
  <2>5. unit.nodes[i] \in SeqRange(unit.nodes)
    BY UnitIsTable DEF IInv
  <2> QED
    BY <1>1, <2>1, <2>3, <2>4, <2>5 DEF Decodable, FieldSpec
<1> QED
  BY <1>2, <1>3

LEMMA RefusalsStep ==
    ASSUME IInv, Refusals, [Next]_vars PROVE Refusals'
<1>1. FsP!Chained'
  <2>1. [FsP!Next]_(FsP!vars)
    <3>1. [Fs!Next]_(Fs!vars)
      BY FileSetStep DEF IInv
    <3> QED
      BY <3>1 DEF Fs!Next, Fs!vars, Fs!AddSource, Fs!TooLarge, Fs!AddFile,
                  FsP!Next, FsP!vars, FsP!AddSource, FsP!TooLarge, FsP!AddFile
  <2> QED
    BY <2>1, FsP!ChainedStep, WidthAssumption
    DEF Refusals, IInv, FilesInv, FsP!SizesAssumption
<1>2. unit' = unit
  BY Constant DEF vars
<1>3. /\ Layouts' = Layouts
      /\ \A bases : IsLayout(bases)' <=> IsLayout(bases)
      /\ Decodable' <=> Decodable
  BY <1>2 DEF Layouts, IsLayout, Decodable, SourcesFit
<1>4. CASE Validate
  <2>1. CASE Fail
    BY <1>1, <1>3, <1>4, <2>1 DEF Validate, Fail, Refusals, Decodable
  <2>2. CASE ~ Fail
    BY <1>1, <1>3, <1>4, <2>2 DEF Validate, fileSet, Refusals
  <2> QED
    BY <2>1, <2>2
<1>5. CASE AddSource
  <2>1. CASE Fail
    <3>1. phase = "sources" /\ next.row \in DOMAIN unit.sources
      BY <1>5 DEF AddSource
    <3>2. phase' = phase \/ Fs!TooLarge(unit.sources[next.row].size)
      BY <1>5 DEF AddSource
    <3>3. phase' = "error" /\ Fs!TooLarge(unit.sources[next.row].size)
      BY <2>1, <3>1, <3>2 DEF Fail
    <3> QED
      BY <1>1, <1>3, <3>1, <3>3, RefusedSource DEF Refusals, Decodable
  <2>2. CASE ~ Fail
    <3> PICK size : size = unit.sources[next.row].size
      OBVIOUS
    <3>1. /\ phase = "sources" /\ phase' = phase
          /\ next.row \in DOMAIN unit.sources
          /\ next'.row = next.row + 1
          /\ ~ Fs!TooLarge(size) /\ Fs!AddFile(size)
      BY <1>5, <2>2 DEF AddSource, Fs!AddSource, IInv, PlaceOK
    <3>2. size \in Nat /\ base \in Nat /\ MaxInt \in Nat
      <4>1. size \in Sizes
        BY <3>1, SizeFits DEF IInv
      <4>2. base \in 1 .. MaxInt
        BY DEF IInv, FilesInv, FsP!IInv, FsP!TypeOK
      <4> QED
        BY <4>1, <4>2, WidthAssumption
    <3>3. base' = base + size + 1
      BY <3>1, <3>2 DEF Fs!TooLarge, Fs!AddFile
    <3>4. ASSUME NEW bases \in Layouts, IsLayout(bases)
          PROVE  bases[next'.row] = base'
      BY <3>1, <3>3, <3>4 DEF Refusals, IsLayout
    <3> QED
      BY <1>1, <1>3, <3>1, <3>4 DEF Refusals
  <2> QED
    BY <2>1, <2>2
<1>6. CASE Allocate
  BY <1>1, <1>6 DEF Allocate, Refusals
<1>7. CASE DecodeField
  <2>1. CASE Fail
    <3>1. InField /\ next.field \in DOMAIN Row.fields /\ phase = "fields"
      BY <1>7 DEF DecodeField, InField
    <3>2. \/ ~ Decodes(Row.fields[next.field], FieldSpec)
          \/ ~ Holds(Row.fields[next.field], FieldSpec)
      BY <1>7, <2>1, <3>1 DEF DecodeField, Fail, Set
    <3> QED
      BY <1>1, <1>3, <2>1, <3>1, <3>2, RefusedField DEF Refusals, Fail
  <2>2. CASE ~ Fail
    BY <1>1, <1>7, <2>2 DEF DecodeField, InField, Set, Refusals
  <2> QED
    BY <2>1, <2>2
<1>8. CASE SkipField \/ NextNode \/ Return
  BY <1>1, <1>8 DEF SkipField, InField, Set, NextNode, Return, Refusals
<1>9. CASE UNCHANGED vars
  BY <1>1, <1>3, <1>9 DEF vars, Refusals
<1> QED
  BY <1>4, <1>5, <1>6, <1>7, <1>8, <1>9 DEF Next

(* The FileSet of a decoded unit is a layout of its sources.               *)
LEMMA BuiltFits ==
    ASSUME IInv, Refusals, phase = "decoded" PROVE SourcesFit
<1> PICK bases : bases = [f \in 1 .. Len(unit.sources) + 1 |-> FsP!BaseOf(f)]
  OBVIOUS
<1>1. /\ Len(unit.sources) \in Nat /\ DOMAIN unit.sources = 1 .. Len(unit.sources)
      /\ DOMAIN files = DOMAIN unit.sources
      /\ \A f \in DOMAIN files : files[f].size = unit.sources[f].size
  <2>1. files \in Seq(FsP!Files) /\ FilesOf(Len(unit.sources))
    BY DEF IInv, FilesInv, FsP!IInv, FsP!TypeOK
  <2> QED
    BY <2>1, UnitIsTable DEF FilesOf, IInv
<1>2. \A f \in 1 .. Len(unit.sources) + 1 : FsP!BaseOf(f) \in 1 .. MaxInt
  <2>1. base \in 1 .. MaxInt /\ files \in Seq(FsP!Files)
    BY DEF IInv, FilesInv, FsP!IInv, FsP!TypeOK
  <2>2. \A f \in DOMAIN files : files[f] \in FsP!Files
    BY <2>1
  <2>3. \A file \in FsP!Files : file.base \in 1 .. MaxInt
    BY DEF FsP!Files
  <2> QED
    BY <2>1, <2>2, <2>3 DEF FsP!BaseOf
<1>3. bases \in Layouts
  BY <1>2 DEF Layouts
<1>4. IsLayout(bases)
  <2>1. bases[1] = 1
    BY <1>1 DEF Refusals, FsP!Chained
  <2>2. ASSUME NEW f \in DOMAIN unit.sources
        PROVE  bases[f + 1] = bases[f] + unit.sources[f].size + 1
    <3>1. bases[f + 1] = FsP!BaseOf(f + 1) /\ bases[f] = FsP!BaseOf(f)
      BY <1>1
    <3>2. FsP!BaseOf(f + 1) = files[f].base + files[f].size + 1
      BY <1>1 DEF Refusals, FsP!Chained
    <3>3. FsP!BaseOf(f) = files[f].base
      BY <1>1 DEF FsP!BaseOf
    <3> QED
      BY <1>1, <3>1, <3>2, <3>3
  <2> QED
    BY <2>1, <2>2 DEF IsLayout
<1> QED
  BY <1>3, <1>4 DEF SourcesFit

(* Decode turns down what is invalid, too large, of the wrong form or of   *)
(* the wrong kind, wherever it notices, and nothing else.                  *)
THEOREM RefusesOnlyUndecodable == Spec => []ErrorIsJustified
<1>1. Spec => []Refusals
  BY RefusalsInit, RefusalsStep, Invariance, PTL DEF Spec
<1>2. IInv /\ Refusals => ErrorIsJustified
  <2> SUFFICES ASSUME IInv, Refusals, phase = "decoded" PROVE Decodable
    BY DEF ErrorIsJustified, Refusals
  <2>1. ValidForToolchain(unit)
    BY DEF IInv, Validated
  <2>2. ASSUME NEW node \in SeqRange(unit.nodes), NEW k \in DOMAIN node.fields
        PROVE  LET spec == KindFields[node.kind][k]
               IN /\ Decodes(node.fields[k], spec)
                  /\ \A child \in SeqRange(unit.nodes) :
                       child.id \in SeqRange(RefIds(node.fields[k])) =>
                           child.kind \in spec.holds
    <3>1. PICK j \in DOMAIN unit.nodes : node = unit.nodes[j]
      BY DEF SeqRange
    <3>2. RowFilled(j) /\ Filled(j) = Len(Specs(j))
      BY AllFilled
    <3>3. k \in 1 .. Filled(j)
      BY <3>1, <3>2, ValidRows DEF IInv
    <3>4. Fits(j, k)
      BY <3>2, <3>3 DEF RowFilled
    <3>5. \A child \in SeqRange(unit.nodes) :
            \E i \in DOMAIN unit.nodes : child = unit.nodes[i]
      BY DEF SeqRange
    <3> QED
      BY <3>1, <3>4, <3>5 DEF Fits, Specs
  <2> QED
    BY <2>1, <2>2, BuiltFits DEF Decodable
<1> QED
  BY <1>1, <1>2, Invariance, PTL
=============================================================================
