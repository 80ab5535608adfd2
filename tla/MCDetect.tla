------------------------------- MODULE MCDetect -------------------------------
(* Detect for TLC: buffers of two and three slots, levels below and above a *)
(* threshold, and a count that wraps at 8, which three does not divide.     *)
EXTENDS Detect

MCSizes == {2, 3}
MCOutliers == {1, 2}
MCLevels == {0, 1}
===============================================================================
