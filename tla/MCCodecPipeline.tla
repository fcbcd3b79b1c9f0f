-------------------------- MODULE MCCodecPipeline --------------------------
(***************************************************************************)
(* A finite instance of CodecPipeline: every fault, sources of up to three *)
(* reads, among them an empty one, one whose only read is short, one with  *)
(* a short read in the middle, and one with an empty sample in the middle  *)
(* (only the extractor can return that).                                   *)
(***************************************************************************)
EXTENDS CodecPipeline

MCSources ==
  { << >>, <<"short">>, <<"full", "full">>, <<"full", "short", "full">>,
    <<"full", "empty", "full">> }

MCFaults == FaultKinds
=============================================================================
