------------------------------ MODULE MCFanOut ------------------------------
(* bounded with more items than slots, so that slots are reused and moved. *)
EXTENDS FanOut
=============================================================================
