----------------------------- MODULE MCStreams ------------------------------
(* Streams of up to MaxBlocks blocks, each provider through each dialect.   *)
EXTENDS Streams
=============================================================================
