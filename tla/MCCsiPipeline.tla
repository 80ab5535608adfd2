---------------------------- MODULE MCCsiPipeline ----------------------------
(* CsiPipeline for TLC: a queue of two slots, one buffer more than can be   *)
(* in use, frames with and without an HT-LTF part, and more frames than can *)
(* be in buffers at once, so that buffers are reused.                       *)
EXTENDS CsiPipeline

MCFrameKinds == {[llft |-> 1, ht |-> 0, stbc |-> 0], [llft |-> 1, ht |-> 2, stbc |-> 1]}
=============================================================================
