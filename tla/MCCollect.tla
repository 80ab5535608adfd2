------------------------------ MODULE MCCollect ------------------------------
(* Collect for TLC: two collections of one or two samples, so that one may  *)
(* begin at any point of another; numbers wrap at 4.                        *)
EXTENDS Collect
=============================================================================
