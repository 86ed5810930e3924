------------------------------ MODULE MCBridgeCli ---------------------------
(* BridgeCli with five versions of a program: one that goes through, one    *)
(* without a source map, one that decode refuses and one that encode does,  *)
(* and a last one that goes through.                                        *)
EXTENDS BridgeCli

MCVersions == 1 .. 5
=============================================================================
