------------------------------- MODULE BridgeCli ----------------------------
(***************************************************************************)
(* The commands of gorack-go-bridge and the files they leave behind, one   *)
(* command after the other, with writes that fail half way and processes   *)
(* that are killed.  What the codec makes of a program is a function of    *)
(* the version of the program.                                             *)
(***************************************************************************)
EXTENDS Integers, Sequences

CONSTANTS
    Versions,    \* the versions of the program, in the order they appear
    Unencodable, \* those encode refuses
    Invalid,     \* those decode refuses
    Unmappable,  \* those for which there is no source map (see SourceMap)
    MaxFaults    \* bound: failing writes and crashes

ASSUME VersionsAssumption ==
    /\ Versions \subseteq Nat \ {0} /\ 1 \in Versions
    /\ MaxFaults \in Nat

VARIABLES
    source,  \* the version of the Go source
    disk,    \* the files "wire", "go" and "map"
    run,     \* the last command: its name, whether it got -source-map, the
             \* version it has read and the files it has yet to write
    pc,      \* where it is; "idle" when none runs
    status,  \* how it ended: "none", "ok", "failed", "crashed"
    faults,  \* faults so far
    lost,    \* the files whose end was lost when they were closed
    before   \* the program, the files and the faults when it started

vars == <<source, disk, run, pc, status, faults, lost, before>>

-----------------------------------------------------------------------------

Names == {"wire", "go", "map"}
Parts == {"absent", "empty", "prefix", "whole"}
Contents == [of : Nat, part : Parts, mapped : BOOLEAN]

Absent == [of |-> 0, part |-> "absent", mapped |-> FALSE]

(* What a command writes: part of what the version it has read becomes.    *)
Content(part) == [of |-> run.of, part |-> part, mapped |-> run.map]

Init == /\ source = 1
        /\ disk = [file \in Names |-> Absent]
        /\ run = [name |-> "none", map |-> FALSE, of |-> 0, todo |-> <<>>]
        /\ pc = "idle" /\ status = "none" /\ faults = 0
        /\ lost = {}
        /\ before = [source |-> 1, disk |-> disk, faults |-> 0]

(* The program is changed between two commands.                            *)
Edit == /\ pc = "idle"
        /\ source + 1 \in Versions
        /\ source' = source + 1
        /\ UNCHANGED <<disk, run, pc, status, faults, lost, before>>

(* A seeded defect: the map comes after the file.                          *)
OutputsFileFirst(name, map) ==
    CASE name = "encode" -> <<"wire">>
      [] name = "decode" /\ map -> <<"go", "map">>
      [] OTHER -> <<"go">>

(* The files a command writes, in their order.                             *)
Outputs(name, map) ==
    CASE name = "encode" -> <<"wire">>
      [] name = "decode" /\ map -> <<"map", "go">>
      [] OTHER -> <<"go">>

Start(name, map) ==
    /\ pc = "idle"
    /\ run' = [name |-> name, map |-> map, of |-> 0,
               todo |-> Outputs(name, map)]
    /\ pc' = "read"
    /\ status' = "none"
    /\ before' = [source |-> source, disk |-> disk, faults |-> faults]
    /\ UNCHANGED <<source, disk, faults, lost>>

End(result) == pc' = "idle" /\ status' = result

(* A seeded defect: the output is opened first.                            *)
ReadSourceLate ==
    /\ pc = "read" /\ run.name = "encode"
    /\ IF source \in Unencodable
       THEN /\ disk' = [disk EXCEPT !["wire"] = Content("empty")]
            /\ End("failed") /\ UNCHANGED run
       ELSE /\ run' = [run EXCEPT !.of = source]
            /\ pc' = "create" /\ UNCHANGED <<disk, status>>
    /\ UNCHANGED <<source, faults, lost, before>>

(* encode: os.ReadFile, parser.ParseFile and Encode.                       *)
ReadSource ==
    /\ pc = "read" /\ run.name = "encode"
    /\ \/ /\ source \in Unencodable
          /\ End("failed") /\ UNCHANGED run
       \/ /\ source \notin Unencodable
          /\ run' = [run EXCEPT !.of = source]
          /\ pc' = "create" /\ UNCHANGED status
    /\ UNCHANGED <<source, disk, faults, lost, before>>

(* A seeded defect: what can be read of a document is taken.               *)
ReadWireLeniently ==
    /\ pc = "read" /\ run.name = "decode"
    /\ IF disk["wire"].part \in {"absent", "empty"}
       THEN End("failed") /\ UNCHANGED run
       ELSE /\ run' = [run EXCEPT !.of = disk["wire"].of]
            /\ pc' = "decode" /\ UNCHANGED status
    /\ UNCHANGED <<source, disk, faults, lost, before>>

(* decode: readJSON takes nothing less than a whole document.              *)
ReadWire ==
    /\ pc = "read" /\ run.name = "decode"
    /\ \/ /\ disk["wire"].part # "whole"
          /\ End("failed") /\ UNCHANGED run
       \/ /\ disk["wire"].part = "whole"
          /\ run' = [run EXCEPT !.of = disk["wire"].of]
          /\ pc' = "decode" /\ UNCHANGED status
    /\ UNCHANGED <<source, disk, faults, lost, before>>

Undecodable == \/ run.of \in Invalid
               \/ run.map /\ run.of \in Unmappable

(* Decode, FormatFile and, if it is asked for, SourceMapForFormatted.      *)
Decode ==
    /\ pc = "decode"
    /\ \/ Undecodable /\ End("failed")
       \/ ~ Undecodable /\ pc' = "create" /\ UNCHANGED status
    /\ UNCHANGED <<source, disk, run, faults, lost, before>>

Fault == /\ faults < MaxFaults
         /\ faults' = faults + 1

(* os.MkdirAll and os.Create, also inside os.WriteFile: the file is empty, *)
(* if it can be opened at all.                                             *)
Create ==
    /\ pc = "create"
    /\ \/ /\ disk' = [disk EXCEPT ![Head(run.todo)] = Content("empty")]
          /\ pc' = "write"
          /\ UNCHANGED <<status, faults>>
       \/ /\ Fault
          /\ End("failed")
          /\ UNCHANGED disk
    /\ UNCHANGED <<source, run, lost, before>>

(* On to the next file, or to the end.                                     *)
Continue ==
    /\ run' = [run EXCEPT !.todo = Tail(@)]
    /\ IF Tail(run.todo) = <<>> THEN End("ok")
       ELSE pc' = "create" /\ UNCHANGED status

(* A seeded defect: an error of a write is not returned.                   *)
WriteUnchecked ==
    /\ pc = "write"
    /\ \/ /\ disk' = [disk EXCEPT ![Head(run.todo)] = Content("whole")]
          /\ UNCHANGED faults
       \/ /\ Fault
          /\ disk' = [disk EXCEPT ![Head(run.todo)] = Content("prefix")]
    /\ lost' = lost \ {Head(run.todo)}
    /\ Continue
    /\ UNCHANGED <<source, before>>

(* The bytes are written and the file is closed.  An error of the write is *)
(* returned.  One that shows only at the closing is returned by            *)
(* os.WriteFile, but is lost in the deferred Close of writeJSON.           *)
Write ==
    /\ pc = "write"
    /\ LET file == Head(run.todo)
       IN \/ /\ disk' = [disk EXCEPT ![file] = Content("whole")]
             /\ lost' = lost \ {file}
             /\ Continue
             /\ UNCHANGED faults
          \/ /\ Fault
             /\ disk' = [disk EXCEPT ![file] = Content("prefix")]
             /\ lost' = lost \ {file}
             /\ End("failed")
             /\ UNCHANGED run
          \/ /\ Fault
             /\ file # "go"
             /\ disk' = [disk EXCEPT ![file] = Content("prefix")]
             /\ lost' = lost \cup {file}
             /\ Continue
    /\ UNCHANGED <<source, before>>

(* The process is killed.                                                  *)
Crash == /\ pc # "idle"
         /\ Fault
         /\ End("crashed")
         /\ UNCHANGED <<source, disk, run, lost, before>>

Next == \/ Edit
        \/ Start("encode", FALSE)
        \/ \E map \in BOOLEAN : Start("decode", map)
        \/ ReadSource \/ ReadWire \/ Decode \/ Create \/ Write \/ Crash

Spec == Init /\ [][Next]_vars

-----------------------------------------------------------------------------

Output(file) == \E k \in DOMAIN Outputs(run.name, run.map) :
                  Outputs(run.name, run.map)[k] = file

(* A command that says it succeeded has left each of its outputs whole and *)
(* made from the version it read, whatever was there before; an error at   *)
(* the closing of a JSON file is the one exception.                        *)
OkMeansWritten ==
    status = "ok" =>
        \A file \in Names : Output(file) =>
            /\ disk[file].of = run.of
            /\ disk[file].part = "whole" \/ file \in lost

(* What the last command should have written its outputs from: the version *)
(* in its input, or 0 if that is to be refused.                            *)
Wanted ==
    LET wire == before.disk["wire"]
    IN IF run.name = "encode"
       THEN IF before.source \in Unencodable THEN 0 ELSE before.source
       ELSE IF \/ wire.part # "whole"
               \/ wire.of \in Invalid
               \/ run.map /\ wire.of \in Unmappable THEN 0
       ELSE wire.of

(* Whatever crashes and failed writes have left behind, one command that   *)
(* meets no fault repairs it: it refuses its input and touches nothing, or *)
(* leaves whole outputs of it.                                             *)
FaultlessRunDecides ==
    status \in {"ok", "failed"} /\ faults = before.faults =>
        IF Wanted = 0 THEN status = "failed" /\ disk = before.disk
        ELSE /\ status = "ok"
             /\ \A file \in Names :
                  IF Output(file) THEN /\ disk[file].of = Wanted
                                       /\ disk[file].part = "whole"
                  ELSE disk[file] = before.disk[file]

(* A file that was written with its map never stands beside the map of an  *)
(* older version.  The map may be newer, when a later run stopped between  *)
(* the two; after a run that says it succeeded they belong together.       *)
OutputsBelongTogether ==
    disk["go"].mapped =>
        /\ disk["map"].of >= disk["go"].of
        /\ status = "ok" /\ run.map => disk["map"].of = disk["go"].of

(* No output is made from a document that was not completely written: what *)
(* decode changes, it makes of a whole one.                                *)
BrokenDocumentsAreNotRead ==
    \A file \in {"go", "map"} :
        disk[file] # before.disk[file] =>
            /\ disk["wire"].part = "whole"
            /\ disk[file].of = disk["wire"].of
=============================================================================
