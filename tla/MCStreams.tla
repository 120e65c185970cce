----------------------------- MODULE MCStreams -----------------------------
(***************************************************************************)
(* Instances of Streams for TLC: an ID that is also the first number given *)
(* to an unnamed stream, so that the two may meet.                         *)
(***************************************************************************)
EXTENDS Streams

MCAutoIds == <<"0">>
=============================================================================
