-------------------------- MODULE MCMotionSegments --------------------------
(* MotionSegments for TLC.                                                    *)
EXTENDS MotionSegments, TLC

TrackSymmetry == Permutations(Tracks)

SmallPlaces == {0, 1}

\* A track that changes its place from a frame to the next moves at 1/2, over two frames
\* at 1/4, over three at 1/6.
SmallLow    == <<1, 5>>
SmallActive == <<2, 5>>
=============================================================================
