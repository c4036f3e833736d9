---------------------------- MODULE MCConnection ----------------------------
(***************************************************************************)
(* Connection for TLC, with the messages and records whose bytes are       *)
(* checked on their own.                                                   *)
(***************************************************************************)
EXTENDS Codec

MCRecordSizes == {-1, 2, 127}
=============================================================================
