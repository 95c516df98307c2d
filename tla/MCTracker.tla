------------------------------ MODULE MCTracker ------------------------------
(* Tracker for TLC.                                                           *)
EXTENDS Tracker

\* Three boxes in a row, of which the middle one overlaps both others enough and the
\* outer ones do not overlap each other enough.
Square(x) == [x |-> x, y |-> 0, width |-> 4, height |-> 4]
SmallBoxes == {Square(0), Square(1), Square(3)}

\* IOUTracker's default, 0.3.
DefaultThreshold == <<3, 10>>
=============================================================================
