--------------------------- MODULE MotionSegments ---------------------------
(***************************************************************************)
(* From poses to segments.  run_pipeline collects the poses of each frame; *)
(* BasicFeatureDeriver turns all of them into features, at a point of time *)
(* or over the time between two poses of a track; BasicSegmenter cuts the  *)
(* time they cover into windows, labels each one and merges neighbours     *)
(* with the same label.  Speeds are exact fractions: the rounding of       *)
(* floats, the confidences and the features of the joints, which are       *)
(* points like the two kept here, are left out.                            *)
(***************************************************************************)
EXTENDS Naturals, Sequences, FiniteSets, SequencesExt

CONSTANTS
    Tracks,          \* tracks of the video
    Places,          \* where the centroid of a pose's keypoints may be, on a line
    NoKeypoints,     \* the place of a pose without a keypoint above the confidence
    Interval,        \* milliseconds between two frames
    Window,          \* window_ms
    SparseThreshold, \* sparse_threshold
    LowMotion,       \* low_motion_threshold, as <<numerator, denominator>>
    ActiveMotion,    \* active_motion_threshold, likewise
    MaxFrames        \* bound: frames of the video

Less(p, q) == p[1] * q[2] < q[1] * p[2]

ASSUME SegmentsAssumption ==
    /\ IsFiniteSet(Tracks)
    /\ Places \subseteq Nat /\ NoKeypoints \notin Places
    /\ Interval \in Nat \ {0} /\ Window \in Nat \ {0} /\ MaxFrames \in Nat
    /\ SparseThreshold \in Nat
    /\ {LowMotion, ActiveMotion} \subseteq Nat \X (Nat \ {0})
    /\ Less(LowMotion, ActiveMotion)

VARIABLES
    frame,  \* index of the next frame
    poses   \* all_poses: [frame, track, place], one of a track in a frame at most

vars == <<frame, poses>>

Time(f) == f * Interval

Init ==
    /\ frame = 0
    /\ poses = {}

\* A frame is read and estimated: the tracks seen in it for which landmarks are found
\* get a pose, which may be without keypoints.  A missing frame is one nobody is found in.
AnalyseFrame(found, place) ==
    /\ frame < MaxFrames
    /\ poses' = poses \cup {[frame |-> frame, track |-> t, place |-> place[t]] : t \in found}
    /\ frame' = frame + 1

Next == \E found \in SUBSET Tracks : \E place \in [found -> Places \cup {NoKeypoints}] :
            AnalyseFrame(found, place)

Spec == Init /\ [][Next]_vars

-----------------------------------------------------------------------------
(* BasicFeatureDeriver.                                                     *)

PointNames == {"keypoint_visibility_count", "bbox_area"}

\* Every pose counts its keypoints, and has the box of its track in its frame.
PointFeatures ==
    {[track |-> p.track, name |-> n, start |-> Time(p.frame), end |-> Time(p.frame),
      value |-> <<0, 1>>] : p \in poses, n \in PointNames}

\* A track's poses are taken two by two, in the order of their frames.
Consecutive(p, q) ==
    /\ p.track = q.track /\ p.frame < q.frame
    /\ \A r \in poses : r.track = p.track => r.frame <= p.frame \/ r.frame >= q.frame

Gap(m, n) == IF m >= n THEN m - n ELSE n - m

\* Variant: the time of the later pose only, as the features at a point have.
CentroidVelocities_AtEnd ==
    {[track |-> pq[1].track, name |-> "centroid_velocity",
      start |-> Time(pq[2].frame), end |-> Time(pq[2].frame),
      value |-> <<Gap(pq[1].place, pq[2].place), Time(pq[2].frame - pq[1].frame)>>] :
        pq \in {r \in poses \X poses : /\ Consecutive(r[1], r[2])
                                       /\ NoKeypoints \notin {r[1].place, r[2].place}}}

\* Displacement per millisecond; no value when one of the two poses has no keypoints.
CentroidVelocities ==
    {[track |-> pq[1].track, name |-> "centroid_velocity",
      start |-> Time(pq[1].frame), end |-> Time(pq[2].frame),
      value |-> <<Gap(pq[1].place, pq[2].place), Time(pq[2].frame - pq[1].frame)>>] :
        pq \in {r \in poses \X poses : /\ Consecutive(r[1], r[2])
                                       /\ NoKeypoints \notin {r[1].place, r[2].place}}}

Features == PointFeatures \cup CentroidVelocities

-----------------------------------------------------------------------------
(* BasicSegmenter.                                                          *)

Earliest(features) == CHOOSE t \in {f.start : f \in features} : \A f \in features : t <= f.start
Latest(features)   == CHOOSE t \in {f.end : f \in features} : \A f \in features : t >= f.end

Boundaries(from, to) ==
    [k \in 1..((to - from + Window - 1) \div Window) |->
        [start |-> from + (k - 1) * Window,
         end   |-> IF from + k * Window <= to THEN from + k * Window ELSE to]]

\* Variants: the range ends with the last feature; the last window is not cut.
Windows_NotExtended(features) == Boundaries(Earliest(features), Latest(features))
Windows_Uncut(features) ==
    [k \in DOMAIN Boundaries(Earliest(features), Latest(features) + 1) |->
        [start |-> Earliest(features) + (k - 1) * Window, end |-> Earliest(features) + k * Window]]

\* One millisecond more than the features cover, so that there is a window at least and
\* the last feature is in one.
Windows(features) == Boundaries(Earliest(features), Latest(features) + 1)

Overlaps(f, w) == f.start < w.end /\ f.end >= w.start

Average(velocities) ==
    LET Add(f, acc) == <<acc[1] * f.value[2] + f.value[1] * acc[2], acc[2] * f.value[2]>>
        total == FoldSet(Add, <<0, 1>>, velocities)
    IN <<total[1], total[2] * Cardinality(velocities)>>

\* Variant: a speed at the active threshold is not active, and no transition is left.
Label_AtThresholds(count, velocities) ==
    IF count < SparseThreshold THEN "sparse_data"
    ELSE IF velocities = {} THEN "low_motion"
    ELSE IF Less(ActiveMotion, Average(velocities)) THEN "active_motion"
    ELSE IF Less(Average(velocities), ActiveMotion) THEN "low_motion"
    ELSE "transition_window"

Label(count, velocities) ==
    IF count < SparseThreshold THEN "sparse_data"
    ELSE IF velocities = {} THEN "low_motion"
    ELSE IF Less(Average(velocities), LowMotion) THEN "low_motion"
    ELSE IF ~Less(Average(velocities), ActiveMotion) THEN "active_motion"
    ELSE "transition_window"

ClassifyWindow(w, features) ==
    LET inside == {f \in features : Overlaps(f, w)}
    IN [start |-> w.start, end |-> w.end, count |-> Cardinality(inside),
        label |-> Label(Cardinality(inside), {f \in inside : f.name = "centroid_velocity"})]

\* Variant: a segment is merged once only.
MergeAdjacent_Once(raw) ==
    LET Merge(merged, seg) ==
          IF merged # <<>> /\ Last(merged) \in ToSet(raw) /\ Last(merged).label = seg.label
          THEN Append(Front(merged), [Last(merged) EXCEPT !.end = seg.end, !.count = @ + seg.count])
          ELSE Append(merged, seg)
    IN FoldLeft(Merge, <<>>, raw)

MergeAdjacent(raw) ==
    LET Merge(merged, seg) ==
          IF merged # <<>> /\ Last(merged).label = seg.label
          THEN Append(Front(merged), [Last(merged) EXCEPT !.end = seg.end, !.count = @ + seg.count])
          ELSE Append(merged, seg)
    IN FoldLeft(Merge, <<>>, raw)

\* What segment() returns for the features of the frames analysed so far.
Segments ==
    IF Features = {} THEN <<>>
    ELSE LET windows == Windows(Features)
         IN MergeAdjacent([k \in DOMAIN windows |-> ClassifyWindow(windows[k], Features)])

-----------------------------------------------------------------------------
(***************************************************************************)
(* Properties.                                                             *)
(***************************************************************************)

Labels == {"sparse_data", "low_motion", "active_motion", "transition_window"}

\* Poses and segments have their types, one pose of a track in a frame, and no segment
\* reaches further than a millisecond behind the last frame.
TypeOK ==
    /\ frame \in 0..MaxFrames
    /\ poses \subseteq [frame : 0..(frame - 1), track : Tracks, place : Places \cup {NoKeypoints}]
    /\ \A p, q \in poses : p.frame = q.frame /\ p.track = q.track => p = q
    /\ \A i \in DOMAIN Segments :
          /\ Segments[i].start \in 0..Time(frame)
          /\ Segments[i].end \in 1..(Time(frame - 1) + 1)
          /\ Segments[i].count \in Nat /\ Segments[i].label \in Labels

\* The segments cut the time from the first pose to the last, and a millisecond more,
\* without gap or overlap, and neighbours differ in their label: one clip is made of each.
SegmentsTile ==
    LET segs == Segments IN
    /\ segs = <<>> <=> poses = {}
    /\ \A i \in DOMAIN segs : segs[i].start < segs[i].end
    /\ \A i \in 1..(Len(segs) - 1) :
          segs[i].end = segs[i + 1].start /\ segs[i].label # segs[i + 1].label
    /\ segs # <<>> =>
          /\ \E p \in poses : segs[1].start = Time(p.frame)
          /\ \E p \in poses : Last(segs).end = Time(p.frame) + 1
          /\ \A p \in poses : segs[1].start <= Time(p.frame) /\ Time(p.frame) < Last(segs).end

\* With the threshold of two, "sparse_data" is said of no moment at which somebody was
\* posed: each pose has two features, and the window it falls into counts both.
SparseIsUnseen ==
    LET segs == Segments IN
    SparseThreshold <= 2 =>
      \A p \in poses : \E i \in DOMAIN segs :
          /\ segs[i].start <= Time(p.frame) /\ Time(p.frame) < segs[i].end
          /\ segs[i].label # "sparse_data"

\* A label of motion is earned by somebody: in a segment of active motion a track moves at
\* the active threshold or faster between two poses, in one of low motion a track moves
\* slower than the low threshold or nobody's motion is known, and in a transition some
\* track is below the active threshold and some at the low one or above.
MotionIsSomebodys ==
    LET segs == Segments
        known(s) == {f \in CentroidVelocities : f.start < s.end /\ f.end >= s.start}
        OneBelow(s, threshold) == \E f \in known(s) : Less(f.value, threshold)
        OneAt(s, threshold) == \E f \in known(s) : ~Less(f.value, threshold)
    IN \A i \in DOMAIN segs :
          /\ segs[i].label = "active_motion" => OneAt(segs[i], ActiveMotion)
          /\ segs[i].label = "low_motion" => known(segs[i]) = {} \/ OneBelow(segs[i], LowMotion)
          /\ segs[i].label = "transition_window" =>
                OneBelow(segs[i], ActiveMotion) /\ OneAt(segs[i], LowMotion)

\* A motion counts in every segment that holds one of the two poses it was seen between,
\* and the feature_count of a segment counts each feature that touches it, as often as
\* the windows it was merged from at most.
CountsCoverFeatures ==
    LET segs == Segments IN
    \A i \in DOMAIN segs :
        LET s == segs[i]
            seen == Cardinality({p \in poses : s.start <= Time(p.frame) /\ Time(p.frame) < s.end})
            moves == Cardinality({pq \in poses \X poses :
                        /\ Consecutive(pq[1], pq[2])
                        /\ NoKeypoints \notin {pq[1].place, pq[2].place}
                        /\ Time(pq[1].frame) < s.end /\ Time(pq[2].frame) >= s.start})
            windows == (s.end - s.start + Window - 1) \div Window
        IN /\ s.count >= 2 * seen + moves
           /\ s.count <= 2 * seen + windows * moves
=============================================================================
