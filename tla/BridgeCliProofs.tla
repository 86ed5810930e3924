---------------------------- MODULE BridgeCliProofs -------------------------
(***************************************************************************)
(* Proofs about BridgeCli, for any number of versions and of faults.       *)
(*                                                                         *)
(* The versions on the disk are ordered: the program's is the newest, then *)
(* come the wire document's, the map's, and that of a file written with a  *)
(* map.  A running decode has read the version that is in the document     *)
(* still, since nothing writes the document meanwhile; when it comes to    *)
(* its last output, the other one is made from that version already.       *)
(***************************************************************************)
EXTENDS BridgeCli, TLAPS

Commands == {"none", "encode", "decode"}
Todos == {<<>>, <<"wire">>, <<"go">>, <<"map", "go">>}

TypeOK ==
    /\ source \in Nat
    /\ disk \in [Names -> Contents]
    /\ run \in [name : Commands, map : BOOLEAN, of : Nat, todo : Todos]
    /\ pc \in {"idle", "read", "decode", "create", "write"}
    /\ status \in {"none", "ok", "failed", "crashed"}
    /\ faults \in Nat
    /\ lost \subseteq Names

(* The versions on the disk are ordered.                                   *)
Ordered ==
    /\ disk["wire"].of <= source
    /\ disk["map"].of <= disk["wire"].of
    /\ disk["go"].of <= disk["wire"].of
    /\ disk["go"].mapped => disk["go"].of <= disk["map"].of

(* What a running command has read is still there.                         *)
HasRead ==
    /\ pc # "idle" => run.name # "none" /\ status = "none"
    /\ run.name # "decode" => ~ run.map
    /\ pc = "decode" => run.name = "decode"
    /\ pc \in {"decode", "create", "write"} =>
         run.of = IF run.name = "encode" THEN source ELSE disk["wire"].of

(* The files it has yet to write are the last of its outputs, and those    *)
(* before them are written.                                                *)
Written(file) == /\ disk[file].of = run.of
                 /\ disk[file].part = "whole" \/ file \in lost

Remaining ==
    /\ pc # "idle" =>
         \/ run.name = "encode" /\ run.todo = <<"wire">>
         \/ run.name = "decode" /\ run.todo = <<"go">> /\ ~ run.map
         \/ run.name = "decode" /\ run.todo = <<"map", "go">> /\ run.map
         \/ /\ run.name = "decode" /\ run.todo = <<"go">> /\ run.map
            /\ pc \in {"create", "write"} /\ Written("map")
    /\ status = "ok" =>
         /\ run.name = "encode" => Written("wire")
         /\ run.name = "decode" => Written("go")
         /\ run.map => Written("map")
    /\ status = "ok" => run.name # "none"

Inv == TypeOK /\ Ordered /\ HasRead /\ Remaining

LEMMA Tuples ==
    /\ Head(<<"wire">>) = "wire" /\ Tail(<<"wire">>) = <<>>
    /\ Head(<<"go">>) = "go" /\ Tail(<<"go">>) = <<>>
    /\ Head(<<"map", "go">>) = "map" /\ Tail(<<"map", "go">>) = <<"go">>
    /\ <<"go">> # <<>> /\ <<"map", "go">> # <<>> /\ <<"go">> # <<"map", "go">>
    /\ <<"wire">> # <<"go">> /\ <<"wire">> # <<"map", "go">>
<1>1. /\ Tail(<<"wire">>) = <<>> /\ Tail(<<"go">>) = <<>>
  OBVIOUS
<1>2. Tail(<<"map", "go">>) = <<"go">>
  OBVIOUS
<1>3. /\ Head(<<"wire">>) = "wire" /\ Head(<<"go">>) = "go"
      /\ Head(<<"map", "go">>) = "map"
  OBVIOUS
<1>4. /\ <<"go">> # <<>> /\ <<"map", "go">> # <<>> /\ <<"go">> # <<"map", "go">>
      /\ <<"wire">> # <<"go">> /\ <<"wire">> # <<"map", "go">>
  OBVIOUS
<1> QED
  BY <1>1, <1>2, <1>3, <1>4

LEMMA InitInv == Init => Inv
  BY DEF Init, Inv, TypeOK, Ordered, HasRead, Remaining, Contents, Parts,
         Names, Absent, Commands, Todos

(* Reading touches no file.                                                *)
LEMMA ReadStep ==
    ASSUME Inv, ReadSource \/ ReadWire PROVE Inv'
<1>1. CASE ReadSource
  BY <1>1 DEF ReadSource, End, Inv, TypeOK, Ordered, HasRead, Remaining, Written,
              Contents, Names
<1>2. CASE ReadWire
  BY <1>2 DEF ReadWire, End, Inv, TypeOK, Ordered, HasRead, Remaining, Written,
              Contents, Names
<1> QED
  BY <1>1, <1>2

LEMMA QuietStep ==
    ASSUME Inv, Edit \/ Decode \/ Crash PROVE Inv'
<1>1. CASE Edit
  BY <1>1 DEF Edit, Inv, TypeOK, Ordered, HasRead, Remaining, Written,
              Contents, Names
<1>2. CASE Decode
  BY <1>2 DEF Decode, End, Inv, TypeOK, Ordered, HasRead, Remaining, Written
<1>3. CASE Crash
  BY <1>3 DEF Crash, End, Fault, Inv, TypeOK, Ordered, HasRead, Remaining,
              Written
<1> QED
  BY <1>1, <1>2, <1>3

LEMMA StartStep ==
    ASSUME Inv, NEW name, NEW map \in BOOLEAN, Start(name, map),
           name = "encode" => ~ map, name \in {"encode", "decode"}
    PROVE  Inv'
  BY DEF Start, Outputs, Inv, TypeOK, Ordered, HasRead, Remaining, Commands, Todos

(* What a command puts into the file it has come to.                       *)
LEMMA PutStep ==
    ASSUME Inv, pc \in {"create", "write"}, NEW part \in Parts,
           disk' = [disk EXCEPT ![Head(run.todo)] = Content(part)],
           UNCHANGED source
    PROVE  /\ Head(run.todo) \in Names
           /\ disk' \in [Names -> Contents]
           /\ Ordered'
           /\ disk'[Head(run.todo)].of = run.of
           /\ disk'[Head(run.todo)].part = part
           /\ \A file \in Names : file # Head(run.todo) => disk'[file] = disk[file]
           /\ run.name = "decode" => disk'["wire"] = disk["wire"]
<1>1. Content(part) \in Contents /\ Content(part).of = run.of
      /\ Content(part).mapped = run.map /\ Content(part).part = part
  BY DEF Content, Contents, Inv, TypeOK
<1>2. CASE run.name = "encode" /\ run.todo = <<"wire">>
  BY <1>1, <1>2, Tuples DEF Inv, TypeOK, Ordered, HasRead, Names, Contents
<1>3. CASE run.name = "decode" /\ run.todo = <<"go">> /\ ~ run.map
  BY <1>1, <1>3, Tuples DEF Inv, TypeOK, Ordered, HasRead, Names, Contents
<1>4. CASE run.name = "decode" /\ run.todo = <<"map", "go">> /\ run.map
  BY <1>1, <1>4, Tuples DEF Inv, TypeOK, Ordered, HasRead, Names, Contents
<1>5. CASE run.name = "decode" /\ run.todo = <<"go">> /\ run.map /\ Written("map")
  BY <1>1, <1>5, Tuples DEF Inv, TypeOK, Ordered, HasRead, Names, Contents, Written
<1> QED
  BY <1>2, <1>3, <1>4, <1>5 DEF Inv, Remaining

LEMMA CreateStep ==
    ASSUME Inv, Create PROVE Inv'
<1>1. CASE Fault /\ End("failed") /\ UNCHANGED disk
  BY <1>1 DEF Create, Fault, End, Inv, TypeOK, Ordered, HasRead, Remaining, Written
<1>2. CASE /\ disk' = [disk EXCEPT ![Head(run.todo)] = Content("empty")]
           /\ pc' = "write" /\ UNCHANGED <<status, faults>>
  <2>1. pc \in {"create", "write"} /\ "empty" \in Parts
        /\ UNCHANGED <<source, run, lost, before>>
    BY DEF Create, Parts
  <2>2. /\ disk' \in [Names -> Contents] /\ Ordered'
        /\ \A file \in Names : file # Head(run.todo) => disk'[file] = disk[file]
        /\ run.name = "decode" => disk'["wire"] = disk["wire"]
    BY <1>2, <2>1, PutStep
  <2>3. TypeOK'
    BY <1>2, <2>1, <2>2 DEF Inv, TypeOK
  <2>5. HasRead'
    <3>1. pc = "create" /\ pc' = "write"
      BY <1>2 DEF Create
    <3> QED
      BY <1>2, <2>1, <2>2, <3>1 DEF Inv, TypeOK, HasRead, Commands
  <2>4. Remaining'
    BY <1>2, <2>1, <2>2, Tuples DEF Inv, Remaining, HasRead, Written, Names
  <2> QED
    BY <2>2, <2>3, <2>4, <2>5 DEF Inv
<1> QED
  BY <1>1, <1>2 DEF Create

(* The end of a file: the command goes on, or it succeeds.                 *)
LEMMA ContinueStep ==
    ASSUME Inv, pc = "write", NEW part \in {"whole", "prefix"},
           disk' = [disk EXCEPT ![Head(run.todo)] = Content(part)],
           lost' = IF part = "whole" THEN lost \ {Head(run.todo)}
                   ELSE lost \cup {Head(run.todo)},
           Continue, UNCHANGED source, faults' \in Nat
    PROVE  Inv'
<1> PICK file : file = Head(run.todo)
  OBVIOUS
<1>1. part \in Parts
  BY DEF Parts
<1>2. /\ file \in Names
      /\ disk' \in [Names -> Contents] /\ Ordered'
      /\ disk'[file].of = run.of /\ disk'[file].part = part
      /\ \A f \in Names : f # file => disk'[f] = disk[f]
      /\ run.name = "decode" => disk'["wire"] = disk["wire"]
  BY <1>1, PutStep
<1>3. /\ run'.name = run.name /\ run'.map = run.map /\ run'.of = run.of
      /\ run'.todo = Tail(run.todo)
      /\ run' \in [name : Commands, map : BOOLEAN, of : Nat, todo : Todos]
  BY Tuples DEF Continue, Inv, TypeOK, Remaining, Todos
<1>4. Written(file)'
  BY <1>2, <1>3 DEF Written
<1>5. TypeOK' /\ HasRead'
  BY <1>2, <1>3 DEF Continue, End, Inv, TypeOK, HasRead
<1>6. Remaining'
  <2>1. CASE run.todo = <<"map", "go">>
    BY <1>3, <1>4, <1>5, <2>1, Tuples
       DEF Continue, End, Inv, HasRead, Remaining, Written
  <2>2. CASE run.todo = <<"wire">>
    BY <1>3, <1>4, <2>2, Tuples
       DEF Continue, End, Inv, HasRead, Remaining, Written
  <2>3. CASE run.todo = <<"go">>
    <3>1. disk'["map"] = disk["map"] /\ ("map" \in lost' <=> "map" \in lost)
      BY <1>2, <2>3, Tuples DEF Names
    <3> QED
      BY <1>3, <1>4, <2>3, <3>1, Tuples
         DEF Continue, End, Inv, HasRead, Remaining, Written
  <2> QED
    BY <2>1, <2>2, <2>3 DEF Inv, Remaining
<1> QED
  BY <1>2, <1>5, <1>6 DEF Inv

LEMMA WriteStep ==
    ASSUME Inv, Write PROVE Inv'
<1> DEFINE file == Head(run.todo)
<1>1. pc = "write" /\ UNCHANGED <<source, before>> /\ faults \in Nat
  BY DEF Write, Inv, TypeOK
<1>2. CASE /\ disk' = [disk EXCEPT ![file] = Content("whole")]
           /\ lost' = lost \ {file} /\ Continue /\ UNCHANGED faults
  BY <1>1, <1>2, ContinueStep
<1>3. CASE /\ Fault /\ disk' = [disk EXCEPT ![file] = Content("prefix")]
           /\ lost' = lost \cup {file} /\ Continue
  BY <1>1, <1>3, ContinueStep DEF Fault
<1>4. CASE /\ Fault /\ disk' = [disk EXCEPT ![file] = Content("prefix")]
           /\ lost' = lost \ {file} /\ End("failed") /\ UNCHANGED run
  <2>1. "prefix" \in Parts
    BY DEF Parts
  <2>2. disk' \in [Names -> Contents] /\ Ordered'
    BY <1>1, <1>4, <2>1, PutStep
  <2> QED
    BY <1>1, <1>4, <2>2 DEF Fault, End, Inv, TypeOK, HasRead, Remaining
<1> QED
  BY <1>2, <1>3, <1>4 DEF Write

(* The invariant holds in every reachable state.                           *)
THEOREM Invariance == Spec => []Inv
<1>1. Inv /\ [Next]_vars => Inv'
  <2> SUFFICES ASSUME Inv, [Next]_vars PROVE Inv'
    OBVIOUS
  <2>1. CASE UNCHANGED vars
    BY <2>1 DEF vars, Inv, TypeOK, Ordered, HasRead, Remaining, Written
  <2>2. CASE Edit \/ Decode \/ Crash
    BY <2>2, QuietStep
  <2>3. CASE Start("encode", FALSE)
    BY <2>3, StartStep
  <2>4. CASE \E map \in BOOLEAN : Start("decode", map)
    BY <2>4, StartStep
  <2>5. CASE ReadSource \/ ReadWire
    BY <2>5, ReadStep
  <2>6. CASE Create
    BY <2>6, CreateStep
  <2>7. CASE Write
    BY <2>7, WriteStep
  <2> QED
    BY <2>1, <2>2, <2>3, <2>4, <2>5, <2>6, <2>7 DEF Next
<1> QED
  BY <1>1, InitInv, PTL DEF Spec

(* However often commands fail or are killed, a Go file that was written   *)
(* with its map never stands beside the map of an older version.           *)
THEOREM NeverAnOlderMap == Spec => []OutputsBelongTogether
<1>1. Inv => OutputsBelongTogether
  <2> SUFFICES ASSUME Inv, disk["go"].mapped
               PROVE  /\ disk["map"].of >= disk["go"].of
                      /\ status = "ok" /\ run.map =>
                           disk["map"].of = disk["go"].of
    BY DEF OutputsBelongTogether
  <2>1. disk["map"].of \in Nat /\ disk["go"].of \in Nat
    BY DEF Inv, TypeOK, Names, Contents
  <2>2. disk["go"].of <= disk["map"].of
    BY DEF Inv, Ordered
  <2>3. status = "ok" /\ run.map => disk["map"].of = disk["go"].of
    BY DEF Inv, HasRead, Remaining, Written
  <2> QED
    BY <2>1, <2>2, <2>3
<1> QED
  BY <1>1, Invariance, PTL

(* A command that says it succeeded has written all of its outputs, apart  *)
(* from what was lost at the closing of a JSON file.                       *)
THEOREM OkIsWritten == Spec => []OkMeansWritten
<1>1. Inv => OkMeansWritten
  <2> SUFFICES ASSUME Inv, status = "ok", NEW file \in Names, Output(file)
               PROVE  Written(file)
    BY DEF OkMeansWritten, Written
  <2>1. CASE run.name = "encode"
    BY <2>1 DEF Output, Outputs, Inv, Remaining
  <2>2. CASE run.name = "decode" /\ run.map
    BY <2>2 DEF Output, Outputs, Inv, Remaining
  <2>3. CASE run.name = "decode" /\ ~ run.map
    BY <2>3 DEF Output, Outputs, Inv, Remaining
  <2> QED
    BY <2>1, <2>2, <2>3 DEF Inv, TypeOK, Remaining, Commands
<1> QED
  BY <1>1, Invariance, PTL

-----------------------------------------------------------------------------

(* What has happened since the last command started: its input is what it  *)
(* was; only its outputs are changed, and none of them before the input is *)
(* accepted.  Without a fault the outputs it is done with are whole.       *)
Accepted == IF run.name = "encode" THEN run.of \notin Unencodable
            ELSE disk["wire"].part = "whole" /\ ~ Undecodable

Since ==
    /\ before.disk \in [Names -> Contents]
    /\ before.faults \in Nat /\ before.faults <= faults
    /\ source # 0
    /\ disk["wire"].part # "absent" => disk["wire"].of # 0
    /\ pc # "idle" => before.source = source
    /\ pc \in {"read", "decode"} => disk = before.disk
    /\ pc = "decode" => disk["wire"].part = "whole"
    /\ pc \in {"create", "write"} => Accepted
    /\ pc # "idle" /\ run.name = "encode" =>
         \A file \in {"go", "map"} : disk[file] = before.disk[file]
    /\ pc # "idle" /\ run.name = "decode" =>
         /\ disk["wire"] = before.disk["wire"]
         /\ ~ run.map => disk["map"] = before.disk["map"]
    /\ /\ pc # "idle" /\ run.map /\ run.todo = <<"go">>
       /\ faults = before.faults
       => disk["map"].part = "whole"

SinceInv == Since /\ FaultlessRunDecides /\ BrokenDocumentsAreNotRead

LEMMA InitSince == Init => SinceInv
  BY DEF Init, SinceInv, Since, Accepted, FaultlessRunDecides,
         BrokenDocumentsAreNotRead, Contents, Parts, Names, Absent

LEMMA StartSince ==
    ASSUME Inv, SinceInv, NEW name \in {"encode", "decode"}, NEW map,
           Start(name, map)
    PROVE  SinceInv'
<1>1. /\ pc = "idle" /\ pc' = "read" /\ status' = "none"
      /\ before' = [source |-> source, disk |-> disk, faults |-> faults]
      /\ UNCHANGED <<source, disk, faults, lost>>
      /\ run'.todo = Outputs(name, map) /\ run'.map = map
  BY DEF Start
<1>2. disk \in [Names -> Contents] /\ faults \in Nat
  BY DEF Inv, TypeOK
<1>3. before'.disk = disk /\ before'.faults = faults /\ before'.source = source
  BY <1>1
<1>4. run'.map => run'.todo # <<"go">>
  BY <1>1, Tuples DEF Outputs
<1> QED
  BY <1>1, <1>2, <1>3, <1>4
     DEF SinceInv, Since, FaultlessRunDecides, BrokenDocumentsAreNotRead

(* Reading, decoding and editing leave the files as they are; so does a    *)
(* process that is killed.                                                 *)
LEMMA QuietSince ==
    ASSUME Inv, SinceInv, Edit \/ ReadSource \/ ReadWire \/ Decode \/ Crash
    PROVE  SinceInv'
<1>1. UNCHANGED <<disk, before>> /\ run'.name = run.name /\ run'.map = run.map
      /\ run'.todo = run.todo
  BY DEF Edit, ReadSource, ReadWire, Decode, Crash, Inv, TypeOK
<1>2. BrokenDocumentsAreNotRead'
  BY <1>1 DEF SinceInv, BrokenDocumentsAreNotRead
<1>3. CASE Edit
  BY <1>1, <1>2, <1>3 DEF Edit, Inv, TypeOK, SinceInv, Since,
     FaultlessRunDecides, Wanted, Output
<1>4. CASE ReadSource
  <2>1. Since'
    BY <1>1, <1>4 DEF ReadSource, End, Inv, TypeOK, SinceInv, Since, Accepted
  <2>2. FaultlessRunDecides'
    BY <1>1, <1>4 DEF ReadSource, End, Inv, HasRead, SinceInv, Since,
                      FaultlessRunDecides, Wanted
  <2> QED
    BY <1>2, <2>1, <2>2 DEF SinceInv
<1>5. CASE ReadWire
  <2>1. Since'
    BY <1>1, <1>5 DEF ReadWire, End, Inv, TypeOK, SinceInv, Since, Accepted
  <2>2. FaultlessRunDecides'
    BY <1>1, <1>5 DEF ReadWire, End, Inv, HasRead, SinceInv, Since,
                      FaultlessRunDecides, Wanted
  <2> QED
    BY <1>2, <2>1, <2>2 DEF SinceInv
<1>6. CASE Decode
  <2>1. pc = "decode" /\ run' = run
        /\ UNCHANGED <<source, faults, lost>>
    BY <1>6 DEF Decode
  <2>2. Since'
    BY <1>1, <1>6, <2>1 DEF Decode, End, Inv, TypeOK, HasRead, SinceInv, Since,
                            Accepted, Undecodable
  <2>3. FaultlessRunDecides'
    BY <1>1, <1>6, <2>1 DEF Decode, End, Inv, HasRead, SinceInv, Since,
                      FaultlessRunDecides, Wanted, Undecodable
  <2> QED
    BY <1>2, <2>2, <2>3 DEF SinceInv
<1>7. CASE Crash
  BY <1>1, <1>2, <1>7 DEF Crash, End, Fault, Inv, TypeOK, SinceInv, Since,
                          FaultlessRunDecides
<1> QED
  BY <1>3, <1>4, <1>5, <1>6, <1>7

(* A file is put on the disk by a command that has accepted its input.     *)
LEMMA PutSince ==
    ASSUME Inv, SinceInv, pc \in {"create", "write"}, NEW part \in Parts,
           part # "absent",
           disk' = [disk EXCEPT ![Head(run.todo)] = Content(part)],
           UNCHANGED <<source, before>>,
           run'.name = run.name, run'.map = run.map, run'.of = run.of,
           faults' \in Nat, faults <= faults'
    PROVE  /\ BrokenDocumentsAreNotRead'
           /\ before'.disk \in [Names -> Contents]
           /\ before'.faults \in Nat /\ before'.faults <= faults'
           /\ source' # 0
           /\ disk'["wire"].part # "absent" => disk'["wire"].of # 0
           /\ Accepted'
           /\ run.name = "encode" =>
                \A file \in {"go", "map"} : disk'[file] = before'.disk[file]
           /\ run.name = "decode" =>
                /\ disk'["wire"] = before'.disk["wire"]
                /\ ~ run.map => disk'["map"] = before'.disk["map"]
           /\ run.of = Wanted' /\ Wanted' # 0
<1> PICK file : file = Head(run.todo)
  OBVIOUS
<1>1. /\ file \in Names
      /\ disk' \in [Names -> Contents]
      /\ disk'[file].of = run.of /\ disk'[file].part = part
      /\ \A f \in Names : f # file => disk'[f] = disk[f]
      /\ run.name = "decode" => disk'["wire"] = disk["wire"]
  BY PutStep
<1>2. run.of # 0 /\ run.name \in {"encode", "decode"}
  BY DEF Inv, TypeOK, HasRead, Commands, SinceInv, Since, Accepted
<1>3. /\ run.name = "encode" => file = "wire"
      /\ run.name = "decode" => file \in {"map", "go"}
      /\ file = "map" => run.map
  BY Tuples DEF Inv, Remaining
<1>4. Accepted'
  <2>1. Accepted
    BY DEF SinceInv, Since
  <2>2. Undecodable' <=> Undecodable
    BY DEF Undecodable
  <2>3. CASE run.name = "encode"
    BY <2>1, <2>3 DEF Accepted
  <2>4. CASE run.name = "decode"
    BY <1>1, <2>1, <2>2, <2>4 DEF Accepted
  <2> QED
    BY <1>2, <2>3, <2>4
<1>5. before' = before /\ source' = source
  OBVIOUS
<1>6. /\ run.name = "encode" =>
           \A f \in {"go", "map"} : disk'[f] = before.disk[f]
      /\ run.name = "decode" =>
           /\ disk'["wire"] = before.disk["wire"]
           /\ ~ run.map => disk'["map"] = before.disk["map"]
  BY <1>1, <1>3 DEF SinceInv, Since, Names
<1>7. BrokenDocumentsAreNotRead'
  <2>1. CASE run.name = "encode"
    BY <1>5, <1>6, <2>1 DEF BrokenDocumentsAreNotRead
  <2>2. CASE run.name = "decode"
    <3>1. disk["wire"].part = "whole" /\ run.of = disk["wire"].of
      BY <2>2 DEF SinceInv, Since, Accepted, Inv, HasRead
    <3> QED
      BY <1>1, <1>5, <2>2, <3>1
         DEF SinceInv, BrokenDocumentsAreNotRead, Names
  <2> QED
    BY <1>2, <2>1, <2>2
<1>8. disk'["wire"].part # "absent" => disk'["wire"].of # 0
  BY <1>1, <1>2, <1>3 DEF SinceInv, Since, Names
<1>9. run.of = Wanted'
  <2>1. CASE run.name = "encode"
    BY <1>4, <1>5, <2>1 DEF Wanted, Accepted, SinceInv, Since, Inv, HasRead
  <2>2. CASE run.name = "decode"
    BY <1>4, <1>5, <1>6, <1>1, <2>2
       DEF Wanted, Accepted, Undecodable, SinceInv, Since, Inv, HasRead
  <2> QED
    BY <1>2, <2>1, <2>2
<1>10. /\ before'.disk \in [Names -> Contents] /\ before'.faults \in Nat
       /\ before'.faults <= faults' /\ source' # 0
  BY <1>5 DEF SinceInv, Since, Inv, TypeOK
<1> QED
  BY <1>2, <1>4, <1>5, <1>6, <1>7, <1>8, <1>9, <1>10

LEMMA CreateSince ==
    ASSUME Inv, SinceInv, Create PROVE SinceInv'
<1>1. /\ pc = "create" /\ run' = run /\ faults \in Nat
      /\ UNCHANGED <<source, before>> /\ status = "none"
  BY DEF Create, Inv, TypeOK, HasRead
<1>2. CASE Fault /\ End("failed") /\ UNCHANGED disk
  BY <1>1, <1>2 DEF Fault, End, SinceInv, Since, FaultlessRunDecides,
                    BrokenDocumentsAreNotRead
<1>3. CASE /\ disk' = [disk EXCEPT ![Head(run.todo)] = Content("empty")]
           /\ pc' = "write" /\ UNCHANGED <<status, faults>>
  <2>1. run.map /\ run.todo = <<"go">> => disk'["map"] = disk["map"]
    BY <1>3, Tuples DEF Inv, TypeOK, Names
  <2>2. "empty" \in Parts /\ faults' \in Nat /\ faults <= faults'
    BY <1>1, <1>3 DEF Parts
  <2>3. /\ BrokenDocumentsAreNotRead'
        /\ before'.disk \in [Names -> Contents]
        /\ before'.faults \in Nat /\ before'.faults <= faults'
        /\ source' # 0
        /\ disk'["wire"].part # "absent" => disk'["wire"].of # 0
        /\ Accepted'
        /\ run.name = "encode" =>
             \A file \in {"go", "map"} : disk'[file] = before'.disk[file]
        /\ run.name = "decode" =>
             /\ disk'["wire"] = before'.disk["wire"]
             /\ ~ run.map => disk'["map"] = before'.disk["map"]
    BY <1>1, <1>3, <2>2, PutSince
  <2>4. FaultlessRunDecides'
    BY <1>1, <1>3 DEF FaultlessRunDecides
  <2>5. Since'
    BY <1>1, <1>3, <2>1, <2>3 DEF SinceInv, Since
  <2> QED
    BY <2>3, <2>4, <2>5 DEF SinceInv
<1> QED
  BY <1>2, <1>3 DEF Create

(* A command that was spared goes on, or succeeds; one that met a fault    *)
(* has nothing to answer for.                                              *)
LEMMA ContinueSince ==
    ASSUME Inv, SinceInv, pc = "write", NEW part \in {"whole", "prefix"},
           disk' = [disk EXCEPT ![Head(run.todo)] = Content(part)],
           Continue, UNCHANGED <<source, before>>,
           faults' \in Nat, faults <= faults',
           part = "prefix" => faults' = faults + 1
    PROVE  SinceInv'
<1> PICK file : file = Head(run.todo)
  OBVIOUS
<1>1. /\ file \in Names
      /\ disk'[file].of = run.of /\ disk'[file].part = part
      /\ \A f \in Names : f # file => disk'[f] = disk[f]
  BY PutStep DEF Parts
<1>2. /\ run'.name = run.name /\ run'.map = run.map /\ run'.of = run.of
      /\ run'.todo = Tail(run.todo)
      /\ run' \in [name : Commands, map : BOOLEAN, of : Nat, todo : Todos]
  BY Tuples DEF Continue, Inv, TypeOK, Remaining, Todos
<1>3. /\ BrokenDocumentsAreNotRead'
      /\ before'.disk \in [Names -> Contents]
      /\ before'.faults \in Nat /\ before'.faults <= faults'
      /\ source' # 0
      /\ disk'["wire"].part # "absent" => disk'["wire"].of # 0
      /\ Accepted'
      /\ run.name = "encode" =>
           \A f \in {"go", "map"} : disk'[f] = before'.disk[f]
      /\ run.name = "decode" =>
           /\ disk'["wire"] = before'.disk["wire"]
           /\ ~ run.map => disk'["map"] = before'.disk["map"]
      /\ run.of = Wanted' /\ Wanted' # 0
  BY <1>2, PutSince DEF Parts
<1>4. faults' = before'.faults => part = "whole" /\ faults = before.faults
  BY DEF SinceInv, Since, Inv, TypeOK
<1>5. pc' \in {"idle", "create"} /\ (pc' # "idle" => run.todo = <<"map", "go">>)
      /\ (pc' = "idle" => run.todo \in {<<"wire">>, <<"go">>})
      /\ status' \in {"ok", "none"} /\ (status' = "ok" => pc' = "idle")
  BY Tuples DEF Continue, End, Inv, Remaining, HasRead
<1>6. Since'
  <2>1. before' = before /\ source' = source
    OBVIOUS
  <2>2. /\ pc' # "idle" /\ faults' = before'.faults
        => disk'["map"].part = "whole"
    BY <1>1, <1>4, <1>5, Tuples
  <2>3. pc' # "idle" => before'.source = source'
    BY <2>1 DEF SinceInv, Since
  <2>4. /\ pc' # "idle" /\ run'.name = "encode" =>
             \A f \in {"go", "map"} : disk'[f] = before'.disk[f]
        /\ pc' # "idle" /\ run'.name = "decode" =>
             /\ disk'["wire"] = before'.disk["wire"]
             /\ ~ run'.map => disk'["map"] = before'.disk["map"]
    BY <1>2, <1>3
  <2> QED
    BY <1>3, <1>5, <2>2, <2>3, <2>4 DEF Since
<1>7. FaultlessRunDecides'
  <2> SUFFICES ASSUME status' = "ok", faults' = before'.faults,
                      NEW f \in Names
               PROVE  IF Output(f)' THEN /\ disk'[f].of = run.of
                                         /\ disk'[f].part = "whole"
                      ELSE disk'[f] = before'.disk[f]
    BY <1>3, <1>5 DEF FaultlessRunDecides
  <2>1. part = "whole" /\ faults = before.faults /\ pc' = "idle"
    BY <1>4, <1>5
  <2>3. Output(f)' <=> \E k \in DOMAIN Outputs(run.name, run.map) :
                          Outputs(run.name, run.map)[k] = f
    BY <1>2 DEF Output
  <2>4. CASE run.name = "encode" /\ run.todo = <<"wire">>
    <3>1. Output(f)' <=> f = "wire"
      BY <2>3, <2>4 DEF Outputs
    <3> QED
      BY <1>1, <1>3, <2>1, <2>4, <3>1, Tuples DEF Names
  <2>5. CASE run.name = "decode" /\ run.todo = <<"go">> /\ ~ run.map
    <3>1. Output(f)' <=> f = "go"
      BY <2>3, <2>5 DEF Outputs
    <3> QED
      BY <1>1, <1>3, <2>1, <2>5, <3>1, Tuples DEF Names
  <2>6. CASE run.name = "decode" /\ run.todo = <<"go">> /\ run.map
             /\ Written("map")
    <3>1. Output(f)' <=> f \in {"go", "map"}
      BY <2>3, <2>6 DEF Outputs
    <3>2. disk["map"].part = "whole" /\ disk["map"].of = run.of
      BY <2>1, <2>6 DEF SinceInv, Since, Written
    <3> QED
      BY <1>1, <1>3, <2>1, <2>6, <3>1, <3>2, Tuples DEF Names
  <2> QED
    BY <1>5, <2>1, <2>4, <2>5, <2>6, Tuples DEF Inv, Remaining
<1> QED
  BY <1>3, <1>6, <1>7 DEF SinceInv

LEMMA WriteSince ==
    ASSUME Inv, SinceInv, Write PROVE SinceInv'
<1> DEFINE file == Head(run.todo)
<1>1. pc = "write" /\ UNCHANGED <<source, before>> /\ faults \in Nat
      /\ before.faults \in Nat /\ before.faults <= faults
  BY DEF Write, Inv, TypeOK, SinceInv, Since
<1>2. CASE /\ disk' = [disk EXCEPT ![file] = Content("whole")]
           /\ Continue /\ UNCHANGED faults
  BY <1>1, <1>2, ContinueSince
<1>3. CASE /\ Fault /\ disk' = [disk EXCEPT ![file] = Content("prefix")]
           /\ Continue
  BY <1>1, <1>3, ContinueSince DEF Fault
<1>4. CASE /\ Fault /\ disk' = [disk EXCEPT ![file] = Content("prefix")]
           /\ End("failed") /\ UNCHANGED run
  <2>1. "prefix" \in Parts /\ faults' \in Nat /\ faults <= faults'
        /\ faults' # before'.faults /\ run' = run
        /\ pc' = "idle" /\ status' = "failed"
    BY <1>1, <1>4 DEF Parts, Fault, End
  <2>2. /\ BrokenDocumentsAreNotRead'
        /\ before'.disk \in [Names -> Contents]
        /\ before'.faults \in Nat /\ before'.faults <= faults'
        /\ source' # 0
        /\ disk'["wire"].part # "absent" => disk'["wire"].of # 0
    BY <1>1, <1>4, <2>1, PutSince
  <2> QED
    BY <2>1, <2>2 DEF SinceInv, Since, FaultlessRunDecides
<1> QED
  BY <1>2, <1>3, <1>4 DEF Write

LEMMA SinceInvariance == Spec => []SinceInv
<1>1. Inv /\ SinceInv /\ [Next]_vars => SinceInv'
  <2> SUFFICES ASSUME Inv, SinceInv, [Next]_vars PROVE SinceInv'
    OBVIOUS
  <2>1. CASE UNCHANGED vars
    BY <2>1 DEF vars, SinceInv, Since, Accepted, Undecodable,
                FaultlessRunDecides, Wanted, Output, BrokenDocumentsAreNotRead
  <2>2. CASE Edit \/ ReadSource \/ ReadWire \/ Decode \/ Crash
    BY <2>2, QuietSince
  <2>3. CASE Start("encode", FALSE)
    BY <2>3, StartSince
  <2>4. CASE \E map \in BOOLEAN : Start("decode", map)
    BY <2>4, StartSince
  <2>5. CASE Create
    BY <2>5, CreateSince
  <2>6. CASE Write
    BY <2>6, WriteSince
  <2> QED
    BY <2>1, <2>2, <2>3, <2>4, <2>5, <2>6 DEF Next
<1> QED
  BY <1>1, InitSince, Invariance, PTL DEF Spec

(* Whatever crashes and failed writes have left on the disk, a command     *)
(* that meets no fault refuses its input and changes no file, or leaves    *)
(* each of its outputs whole and made from its input.                      *)
THEOREM OneRunRepairs == Spec => []FaultlessRunDecides
<1>1. SinceInv => FaultlessRunDecides
  BY DEF SinceInv
<1> QED
  BY <1>1, SinceInvariance, PTL

(* Nothing is ever decoded from a document that was not wholly written.    *)
THEOREM OnlyWholeDocuments == Spec => []BrokenDocumentsAreNotRead
<1>1. SinceInv => BrokenDocumentsAreNotRead
  BY DEF SinceInv
<1> QED
  BY <1>1, SinceInvariance, PTL
=============================================================================
