------------------------------- MODULE Tracker -------------------------------
(***************************************************************************)
(* IOUTracker fed by run_pipeline, one frame at a time.  Each frame's      *)
(* detections are matched greedily with the active tracks by intersection  *)
(* over union; what is left starts new tracks; a track that stays          *)
(* unmatched too long leaves the active set.  A frame whose file is        *)
(* missing is skipped and the tracker never hears of it.                   *)
(***************************************************************************)
EXTENDS Naturals, Sequences, FiniteSets, SequencesExt, Lists

CONSTANTS
    Boxes,         \* bounding boxes the detector may report: [x, y, width, height]
    Threshold,     \* iou_threshold, as <<numerator, denominator>>
    MaxAge,        \* max_age
    MaxDetections, \* bound: detections in a frame
    MaxFrames      \* bound: frames of the video

ASSUME TrackerAssumption ==
    /\ \A b \in Boxes : b.x \in Nat /\ b.y \in Nat /\ b.width \in Nat /\ b.height \in Nat
    /\ Threshold[1] \in Nat /\ Threshold[2] \in Nat \ {0}
    /\ MaxAge \in Nat /\ MaxDetections \in Nat /\ MaxFrames \in Nat

VARIABLES
    frame,    \* index of the next frame
    updates,  \* frames the tracker was given
    active,   \* _active, in its insertion order: [id, box, age]
    nextId,   \* _next_id
    tracks,   \* _track_detections: the detections of every track ever created
    passed    \* history: every detection the tracker was given

vars == <<frame, updates, active, nextId, tracks, passed>>

Detections == [update : 1..MaxFrames, at : 1..MaxDetections, box : Boxes]

TypeOK ==
    /\ frame \in 0..MaxFrames
    /\ updates \in 0..frame
    /\ nextId \in Nat \ {0}
    /\ active \in Seq([id : 1..(nextId - 1), box : Boxes, age : 0..MaxAge])
    /\ tracks \in Seq(Seq(Detections)) /\ Len(tracks) = nextId - 1
    /\ passed \subseteq Detections

Init ==
    /\ frame = 0
    /\ updates = 0
    /\ active = <<>>
    /\ nextId = 1
    /\ tracks = <<>>
    /\ passed = {}

-----------------------------------------------------------------------------
(* _iou and _greedy_match.                                                  *)

Smaller(m, n) == IF m <= n THEN m ELSE n
Larger(m, n)  == IF m >= n THEN m ELSE n

\* Length of the common part of the intervals [a, a + la) and [b, b + lb), or 0.
Common(a, la, b, lb) ==
    LET from == Larger(a, b)
        to   == Smaller(a + la, b + lb)
    IN IF to <= from THEN 0 ELSE to - from

\* Intersection over union as a fraction; 0 when nothing is shared or the union is empty.
Iou(a, b) ==
    LET inter == Common(a.x, a.width, b.x, b.width) * Common(a.y, a.height, b.y, b.height)
        covered == a.width * a.height + b.width * b.height - inter
    IN IF inter = 0 \/ covered <= 0 THEN <<0, 1>> ELSE <<inter, covered>>

AtLeast(p, q) == p[1] * q[2] >= q[1] * p[2]

\* The candidates: places of a track and of a detection that overlap enough.
Candidates(tboxes, dboxes) ==
    {c \in {[score |-> Iou(tboxes[i], dboxes[d]), track |-> i, det |-> d] :
               i \in DOMAIN tboxes, d \in DOMAIN dboxes} : AtLeast(c.score, Threshold)}

\* Descending score; the sort is stable, so ties stay in the order of the two loops.
Precedes(b, c) ==
    LET Earlier == b.track < c.track \/ (b.track = c.track /\ b.det < c.det)
    IN AtLeast(b.score, c.score) /\ (AtLeast(c.score, b.score) => Earlier)

\* Variant: ascending score.
Ranked_Ascending(S) ==
    [k \in 1..Cardinality(S) |-> CHOOSE c \in S : Cardinality({b \in S : Precedes(c, b)}) = k - 1]

\* S in that order: in place k is the candidate that k - 1 others precede.
Ranked(S) ==
    [k \in 1..Cardinality(S) |-> CHOOSE c \in S : Cardinality({b \in S : Precedes(b, c)}) = k - 1]

\* Variant: a detection may be used by several tracks.
Unused_Track(c, pairs) == \A p \in pairs : p[1] # c.track

Unused(c, pairs) == \A p \in pairs : p[1] # c.track /\ p[2] # c.det

\* Pairs <<place of a track, place of a detection>>, each place in one pair at most.
GreedyMatch(tboxes, dboxes) ==
    LET l == Ranked(Candidates(tboxes, dboxes))
        pairs[n \in 0..Len(l)] ==
          IF n = 0 THEN {}
          ELSE LET used == pairs[n - 1]
                   c    == l[n]
               IN IF Unused(c, used) THEN used \cup {<<c.track, c.det>>} ELSE used
    IN pairs[Len(l)]

-----------------------------------------------------------------------------
(* update.                                                                  *)

\* Variants: a track is dropped one update later; one update earlier.
Survives_OneLater(a)   == a.age <= MaxAge + 1
Survives_OneEarlier(a) == a.age < MaxAge

Survives(a) == a.age <= MaxAge

\* match[i]: the detection of the track at place i of the active set, if it has one.
MatchOf(pairs) == [i \in {p[1] : p \in pairs} |-> (CHOOSE p \in pairs : p[1] = i)[2]]

\* The places of the detections that no track has, in their order.
Unmatched(dboxes, pairs) ==
    Selected([d \in DOMAIN dboxes |-> d], {d \in DOMAIN dboxes : \A p \in pairs : p[2] # d})

\* The detection at place d of the frame.
Detection(dboxes, d) == [update |-> updates + 1, at |-> d, box |-> dboxes[d]]

\* The track at place i of the active set, one frame later.
Aged(i, dboxes, match) ==
    IF i \in DOMAIN match THEN [active[i] EXCEPT !.age = 0, !.box = dboxes[match[i]]]
    ELSE [active[i] EXCEPT !.age = @ + 1]

\* The detections of track t, one frame later.
Extended(t, dboxes, match) ==
    LET mine == {i \in DOMAIN match : active[i].id = t} IN
    IF mine = {} THEN tracks[t]
    ELSE Append(tracks[t], Detection(dboxes, match[CHOOSE i \in mine : TRUE]))

\* Matched tracks go on, the others age, each fresh detection starts a track with the next
\* id, and who is too old leaves.
Assign(dboxes, match, fresh) ==
    LET all == [i \in DOMAIN active |-> Aged(i, dboxes, match)]
               \o [k \in DOMAIN fresh |-> [id |-> nextId + k - 1, box |-> dboxes[fresh[k]], age |-> 0]]
    IN /\ active' = Selected(all, {a \in ToSet(all) : Survives(a)})
       /\ nextId' = nextId + Len(fresh)
       /\ tracks' = [t \in DOMAIN tracks |-> Extended(t, dboxes, match)]
                       \o [k \in DOMAIN fresh |-> <<Detection(dboxes, fresh[k])>>]
       /\ passed' = passed \cup {Detection(dboxes, d) : d \in DOMAIN dboxes}
       /\ updates' = updates + 1

\* The three branches of the code (tracks and detections; no tracks; no detections)
\* are this one with an empty set of pairs in the last two.
Update(dboxes) ==
    LET pairs == GreedyMatch([i \in DOMAIN active |-> active[i].box], dboxes)
    IN Assign(dboxes, MatchOf(pairs), Unmatched(dboxes, pairs))

\* A frame is read, detected and handed to the tracker.
TrackFrame(dboxes) ==
    /\ frame < MaxFrames
    /\ frame' = frame + 1
    /\ Update(dboxes)

\* The frame's file is missing: a warning, and the loop continues without the tracker.
SkipFrame ==
    /\ frame < MaxFrames
    /\ frame' = frame + 1
    /\ UNCHANGED <<updates, active, nextId, tracks, passed>>

Next ==
    \/ \E dboxes \in SeqOf(Boxes, MaxDetections) : TrackFrame(dboxes)
    \/ SkipFrame

Spec == Init /\ [][Next]_vars

-----------------------------------------------------------------------------
(***************************************************************************)
(* Properties.                                                             *)
(***************************************************************************)

\* Every detection handed to the tracker is in exactly one track, once, and a track has
\* at most one detection of a frame, in the order of the frames: pose estimation takes
\* the first detection of a frame it finds in a track, and the features look boxes up by
\* track and frame.
TracksPartitionDetections ==
    /\ passed = UNION {ToSet(tracks[t]) : t \in DOMAIN tracks}
    /\ \A s, t \in DOMAIN tracks : s # t => ToSet(tracks[s]) \cap ToSet(tracks[t]) = {}
    /\ \A t \in DOMAIN tracks : \A i, j \in DOMAIN tracks[t] :
          i < j => tracks[t][i].update < tracks[t][j].update

\* The active set is what the history says: the tracks undetected for at most max_age of
\* the frames the tracker saw, each at its last box with the age of it; a track that has
\* left never gets another detection, and no two have one id.
ActiveIsRecent ==
    LET Missed(t) == updates - Last(tracks[t]).update IN
    /\ {active[i].id : i \in DOMAIN active} = {t \in DOMAIN tracks : Missed(t) <= MaxAge}
    /\ \A i, j \in DOMAIN active : active[i].id = active[j].id => i = j
    /\ \A i \in DOMAIN active :
          /\ active[i].age = Missed(active[i].id)
          /\ active[i].box = Last(tracks[active[i].id]).box
    /\ \A t \in DOMAIN tracks : \A k \in 1..(Len(tracks[t]) - 1) :
          tracks[t][k + 1].update - tracks[t][k].update <= MaxAge + 1

\* What a step gave to the track at place i of the active set before it.
Got(i) == LET now == tracks'[active[i].id] IN
          IF Len(now) = Len(tracks[active[i].id]) THEN {} ELSE {Last(now)}

\* No match that beats the chosen ones is refused: when an active track and a detection
\* overlap enough and are not put together, one of the two went to a partner that
\* overlaps it at least as much.  In particular no needless second id for an object.
NoBetterMatchRefused ==
    [][\A i \in DOMAIN active, d \in passed' \ passed :
          LET score == Iou(active[i].box, d.box) IN
          AtLeast(score, Threshold) =>
             \/ \E e \in Got(i) : AtLeast(Iou(active[i].box, e.box), score)
             \/ \E j \in DOMAIN active : d \in Got(j) /\ AtLeast(Iou(active[j].box, d.box), score)
      ]_vars
=============================================================================
