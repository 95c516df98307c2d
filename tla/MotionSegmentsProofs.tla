------------------------ MODULE MotionSegmentsProofs ------------------------
(***************************************************************************)
(* MotionSegments for every finite set of tracks, every set of places, any *)
(* frame interval, window, thresholds and number of frames.  Only poses    *)
(* change from state to state; the segments are computed from them, so the *)
(* invariant is about poses (IInv) and the rest about the algorithm:       *)
(*   - the fold over the speeds is a recursion over subsets, and the       *)
(*     average lies between the least and the greatest (AverageBetween);   *)
(*   - the fold over the windows is a recursion over their places, and     *)
(*     each segment it leaves stands for a run of windows (SegmentsStand); *)
(*   - the windows tile the time (BoundariesTile), and what they count is  *)
(*     two features of each pose in them and one of each motion that       *)
(*     touches them (InsideCounts).                                        *)
(***************************************************************************)
EXTENDS MotionSegments, ListProofs, FiniteSetTheorems

-----------------------------------------------------------------------------
(* Recursion over the subsets of a finite set, as the folds do it.         *)

\* f takes one element after the other out of a set, and steps with it.
Recurses(f, D, base, pick, step) ==
    \A s \in D : f[s] = IF s = {} THEN base ELSE step[<<pick[s], f[s \ {pick[s]}]>>]

\* Such a function exists on all subsets of a finite set.
LEMMA SubsetRecursion ==
    ASSUME NEW S, IsFiniteSet(S), NEW V, NEW base \in V,
           NEW pick, \A s \in SUBSET S : s # {} => pick[s] \in s,
           NEW step, \A x \in S, v \in V : step[<<x, v>>] \in V
    PROVE  \E f \in [SUBSET S -> V] : Recurses(f, SUBSET S, base, pick, step)
  <1> DEFINE Small(n) == {s \in SUBSET S : Cardinality(s) <= n}
             Solves(n, f) == f \in [Small(n) -> V] /\ Recurses(f, Small(n), base, pick, step)
             G == {n \in Nat : \E f : Solves(n, f)}
  <1>1. \A s \in SUBSET S : IsFiniteSet(s) /\ Cardinality(s) \in Nat
      BY FS_Subset, FS_CardinalityType
  <1>2. 0 \in G
    <2>1. \A s \in Small(0) : s = {}
        BY <1>1, FS_EmptySet
    <2>2. PICK f : f = [s \in Small(0) |-> base]
        OBVIOUS
    <2>3. Solves(0, f)
        BY <2>1, <2>2 DEF Recurses
    <2>4. QED BY <2>3
  <1>3. ASSUME NEW n \in Nat, n \in G PROVE n + 1 \in G
    <2>1. PICK f : Solves(n, f)
        BY <1>3
    <2>2. PICK g : g = [s \in Small(n + 1) |->
                            IF s = {} THEN base ELSE step[<<pick[s], f[s \ {pick[s]}]>>]]
        OBVIOUS
    <2>3. ASSUME NEW s \in Small(n + 1), s # {} PROVE s \ {pick[s]} \in Small(n) /\ pick[s] \in S
      <3>1. pick[s] \in s
          BY <2>3
      <3>2. Cardinality(s \ {pick[s]}) = Cardinality(s) - 1
          BY <1>1, <3>1, FS_RemoveElement
      <3>3. QED BY <1>1, <3>1, <3>2
    <2>4. \A s \in Small(n) : s \in Small(n + 1)
        BY <1>1
    <2>5. \A s \in Small(n) : g[s] = f[s]
        BY <2>1, <2>2, <2>4 DEF Recurses
    <2>6. g \in [Small(n + 1) -> V]
      <3>1. ASSUME NEW s \in Small(n + 1) PROVE g[s] \in V
        <4>1. CASE s = {}
            BY <2>2, <4>1
        <4>2. CASE s # {}
          <5>1. f[s \ {pick[s]}] \in V
              BY <2>1, <2>3, <4>2
          <5>2. step[<<pick[s], f[s \ {pick[s]}]>>] \in V
              BY <2>3, <4>2, <5>1
          <5>3. QED BY <2>2, <4>2, <5>2
        <4>3. QED BY <4>1, <4>2
      <3>2. QED BY <2>2, <3>1
    <2>7. Recurses(g, Small(n + 1), base, pick, step)
        BY <2>2, <2>3, <2>5 DEF Recurses
    <2>8. Solves(n + 1, g)
        BY <2>6, <2>7
    <2> HIDE DEF Solves
    <2>9. QED BY <2>8
  <1>4. PICK N \in Nat : N = Cardinality(S)
      BY FS_CardinalityType
  <1>5. Small(N) = SUBSET S
      BY <1>4, FS_Subset
  <1>6. N \in G
    <2> HIDE DEF G
    <2>1. QED BY <1>2, <1>3, <1>4, Induction
  <1>7. PICK f : f \in [Small(N) -> V] /\ Recurses(f, Small(N), base, pick, step)
      BY <1>6
  <1> HIDE DEF Small
  <1>8. QED BY <1>5, <1>7

-----------------------------------------------------------------------------
(* The average of fractions.                                               *)

Fractions == Nat \X (Nat \ {0})

\* total sums up the fractions of the features in a set.
SumsUp(total, velocities) ==
    /\ total[{}] = <<0, 1>>
    /\ \A s \in SUBSET velocities : s # {} =>
          \E f \in s : LET rest == total[s \ {f}]
                       IN  total[s] = <<rest[1] * f.value[2] + f.value[1] * rest[2], rest[2] * f.value[2]>>

\* The average is the sum over the number.
LEMMA AverageSums ==
    ASSUME NEW velocities, IsFiniteSet(velocities), \A f \in velocities : f.value \in Fractions
    PROVE  \E total : /\ SumsUp(total, velocities)
                      /\ Average(velocities) =
                            <<total[velocities][1], total[velocities][2] * Cardinality(velocities)>>
  <1> DEFINE Add(f, acc) == <<acc[1] * f.value[2] + f.value[1] * acc[2], acc[2] * f.value[2]>>
             Solves(t) == t = [s \in SUBSET velocities |->
                                  IF s = {} THEN <<0, 1>>
                                  ELSE Add(CHOOSE x \in s : TRUE, t[s \ {CHOOSE x \in s : TRUE}])]
             K == CHOOSE t : Solves(t)
  <1>1. Average(velocities) = <<K[velocities][1], K[velocities][2] * Cardinality(velocities)>>
      BY Zenon DEF Average, FoldSet, MapThenFoldSet
  <1>2. PICK pick : pick = [s \in SUBSET velocities |-> CHOOSE x \in s : TRUE]
      OBVIOUS
  <1>3. \A s \in SUBSET velocities : pick[s] = (CHOOSE x \in s : TRUE) /\ (s # {} => pick[s] \in s)
      BY <1>2
  <1>4. PICK step : step = [fv \in velocities \X Fractions |-> Add(fv[1], fv[2])]
      OBVIOUS
  <1>5. \A f \in velocities, v \in Fractions : step[<<f, v>>] = Add(f, v)
      BY <1>4
  <1>6. \A f \in velocities, v \in Fractions : Add(f, v) \in Fractions
    <2>1. ASSUME NEW a \in Nat, NEW b \in Nat \ {0}, NEW c \in Nat, NEW d \in Nat \ {0}
          PROVE  a * d + c * b \in Nat /\ b * d \in Nat \ {0}
        OBVIOUS
    <2>2. TAKE f \in velocities, v \in Fractions
    <2>3. /\ v[1] \in Nat /\ v[2] \in Nat \ {0}
          /\ f.value[1] \in Nat /\ f.value[2] \in Nat \ {0}
        BY DEF Fractions
    <2>4. QED BY <2>1, <2>3 DEF Fractions
  <1> HIDE DEF Add
  <1>7. PICK t \in [SUBSET velocities -> Fractions] :
            Recurses(t, SUBSET velocities, <<0, 1>>, pick, step)
    <2>1. <<0, 1>> \in Fractions
        BY DEF Fractions
    <2>2. \A f \in velocities, v \in Fractions : step[<<f, v>>] \in Fractions
        BY <1>5, <1>6
    <2>3. QED BY <1>3, <2>1, <2>2, SubsetRecursion
  <1>8. Solves(t)
    <2>1. \A s \in SUBSET velocities :
              t[s] = IF s = {} THEN <<0, 1>>
                     ELSE Add(CHOOSE x \in s : TRUE, t[s \ {CHOOSE x \in s : TRUE}])
      <3>1. TAKE s \in SUBSET velocities
      <3>2. CASE s = {}
          BY <1>7, <3>2 DEF Recurses
      <3>3. CASE s # {}
        <4>1. pick[s] \in velocities /\ t[s \ {pick[s]}] \in Fractions
            BY <1>3, <1>7, <3>3
        <4>2. t[s] = Add(pick[s], t[s \ {pick[s]}])
            BY <1>5, <1>7, <3>3, <4>1 DEF Recurses
        <4>3. QED BY <1>3, <3>3, <4>2
      <3>4. QED BY <3>2, <3>3
    <2>2. t = [s \in SUBSET velocities |-> t[s]]
        BY <1>7
    <2>3. QED BY <2>1, <2>2
  <1>9. Solves(K)
      BY <1>8
  <1>10. SumsUp(K, velocities)
    <2> HIDE DEF K
    <2>1. \A s \in SUBSET velocities :
              K[s] = IF s = {} THEN <<0, 1>>
                     ELSE Add(CHOOSE x \in s : TRUE, K[s \ {CHOOSE x \in s : TRUE}])
        BY <1>9
    <2>2. K[{}] = <<0, 1>>
        BY <2>1
    <2>3. ASSUME NEW s \in SUBSET velocities, s # {}
          PROVE  \E f \in s : K[s] = Add(f, K[s \ {f}])
        BY <2>1, <2>3
    <2>4. QED BY <2>2, <2>3 DEF SumsUp, Add
  <1>11. QED BY <1>1, <1>10

\* A sum of n fractions below q is below n times q, and likewise for those that are not.
LEMMA AddingBelow ==
    ASSUME NEW a \in Nat, NEW b \in Nat \ {0}, NEW c \in Nat, NEW d \in Nat \ {0},
           NEW x \in Nat, NEW y \in Nat \ {0}, NEW n \in Nat
    PROVE  /\ a * y <= n * x * b /\ c * y < x * d => (a * d + c * b) * y < (n + 1) * x * (b * d)
           /\ n * x * b <= a * y /\ x * d <= c * y => (n + 1) * x * (b * d) <= (a * d + c * b) * y
  <1>1. PICK A \in Nat, B \in Nat, C \in Nat, D \in Nat :
            A = a * y /\ B = n * x * b /\ C = c * y /\ D = x * d
      OBVIOUS
  <1>2. /\ (a * d + c * b) * y = A * d + C * b
        /\ (n + 1) * x * (b * d) = B * d + D * b
      BY <1>1
  <1>3. /\ A * d \in Nat /\ B * d \in Nat /\ C * b \in Nat /\ D * b \in Nat
      OBVIOUS
  <1>4. A <= B => A * d <= B * d
      BY TimesKeeps
  <1>5. B <= A => B * d <= A * d
      BY TimesKeeps
  <1>6. D <= C => D * b <= C * b
      BY TimesKeeps
  <1>7. ASSUME C < D PROVE C * b < D * b
    <2>1. (C + 1) * b <= D * b
        BY <1>7, TimesKeeps
    <2>2. (C + 1) * b = C * b + b
        OBVIOUS
    <2>3. QED BY <1>3, <2>1, <2>2
  <1>8. QED BY <1>1, <1>2, <1>3, <1>4, <1>5, <1>6, <1>7

\* When all fractions are below a threshold so is their average, and when none is it is not.
LEMMA AverageBetween ==
    ASSUME NEW velocities, IsFiniteSet(velocities), velocities # {},
           \A f \in velocities : f.value \in Fractions,
           NEW q \in Fractions
    PROVE  /\ (\A f \in velocities : Less(f.value, q)) => Less(Average(velocities), q)
           /\ (\A f \in velocities : ~Less(f.value, q)) => ~Less(Average(velocities), q)
  <1>1. PICK total : /\ SumsUp(total, velocities)
                     /\ Average(velocities) =
                           <<total[velocities][1], total[velocities][2] * Cardinality(velocities)>>
      BY AverageSums
  <1>2. PICK x \in Nat, y \in Nat \ {0} : q = <<x, y>>
      BY DEF Fractions
  <1> DEFINE Between(t, n) ==
                 /\ t \in Fractions
                 /\ (\A f \in velocities : Less(f.value, q)) =>
                        (n = 0 /\ t = <<0, 1>>) \/ t[1] * y < n * x * t[2]
                 /\ (\A f \in velocities : ~Less(f.value, q)) => n * x * t[2] <= t[1] * y
  <1>3. PICK G : G = {n \in Nat : \A s \in SUBSET velocities : Cardinality(s) = n => Between(total[s], n)}
      OBVIOUS
  <1>4. \A s \in SUBSET velocities : IsFiniteSet(s) /\ Cardinality(s) \in Nat
      BY FS_Subset, FS_CardinalityType
  <1>5. 0 \in G
    <2>1. \A s \in SUBSET velocities : Cardinality(s) = 0 => s = {}
        BY <1>4, FS_EmptySet
    <2>2. Between(<<0, 1>>, 0)
        BY DEF Fractions
    <2>3. total[{}] = <<0, 1>>
        BY <1>1 DEF SumsUp
    <2> HIDE DEF Between
    <2>4. QED BY <1>3, <2>1, <2>2, <2>3
  <1>6. ASSUME NEW n \in Nat, n \in G PROVE n + 1 \in G
    <2>1. SUFFICES ASSUME NEW s \in SUBSET velocities, Cardinality(s) = n + 1
                   PROVE  Between(total[s], n + 1)
      <3> HIDE DEF Between
      <3>1. QED BY <1>3
    <2>2. s # {}
        BY <2>1, FS_EmptySet
    <2>3. PICK f \in s : total[s] = <<total[s \ {f}][1] * f.value[2] + f.value[1] * total[s \ {f}][2],
                                      total[s \ {f}][2] * f.value[2]>>
        BY <1>1, <2>2 DEF SumsUp
    <2>4. Cardinality(s \ {f}) = n /\ s \ {f} \in SUBSET velocities
      <3> HIDE DEF Between
      <3>1. IsFiniteSet(s)
          BY <1>4
      <3>2. Cardinality(s \ {f}) = Cardinality(s) - 1
          BY ONLY <3>1, f \in s, FS_RemoveElement
      <3>3. QED BY <2>1, <3>2
    <2>5. Between(total[s \ {f}], n)
      <3> HIDE DEF Between
      <3>1. QED BY <1>3, <1>6, <2>4
    <2>6. PICK a \in Nat, b \in Nat \ {0} : total[s \ {f}] = <<a, b>>
      <3>1. total[s \ {f}] \in Fractions
          BY <2>5
      <3>2. \A t \in Fractions : \E u \in Nat, v \in Nat \ {0} : t = <<u, v>>
          BY DEF Fractions
      <3> HIDE DEF Between
      <3>3. QED BY <3>1, <3>2
    <2>7. PICK c \in Nat, d \in Nat \ {0} : f.value = <<c, d>>
        BY DEF Fractions
    <2>8. total[s] = <<a * d + c * b, b * d>>
        BY <2>3, <2>6, <2>7
    <2>9. a * d + c * b \in Nat /\ b * d \in Nat \ {0}
        OBVIOUS
    <2>10. Less(f.value, q) <=> c * y < x * d
        BY <1>2, <2>7 DEF Less
    <2>11. /\ a * y <= n * x * b /\ c * y < x * d => (a * d + c * b) * y < (n + 1) * x * (b * d)
           /\ n * x * b <= a * y /\ x * d <= c * y => (n + 1) * x * (b * d) <= (a * d + c * b) * y
        BY AddingBelow
    <2>12. ASSUME \A g \in velocities : Less(g.value, q)
           PROVE  (a * d + c * b) * y < (n + 1) * x * (b * d)
      <3>1. (n = 0 /\ a = 0) \/ a * y < n * x * b
          BY <2>5, <2>6, <2>12
      <3>2. a * y \in Nat /\ n * x * b \in Nat
          OBVIOUS
      <3>3. n = 0 /\ a = 0 => a * y <= n * x * b
          OBVIOUS
      <3>4. a * y <= n * x * b
          BY <3>1, <3>2, <3>3
      <3>5. c * y < x * d
          BY <2>10, <2>12
      <3>6. QED BY <2>11, <3>4, <3>5
    <2>13. ASSUME \A g \in velocities : ~Less(g.value, q)
           PROVE  (n + 1) * x * (b * d) <= (a * d + c * b) * y
      <3>1. n * x * b <= a * y
          BY <2>5, <2>6, <2>13
      <3>2. c * y \in Nat /\ x * d \in Nat
          OBVIOUS
      <3>3. x * d <= c * y
          BY <2>10, <2>13, <3>2
      <3>4. QED BY <2>11, <3>1, <3>3
    <2>14. QED BY <2>8, <2>9, <2>12, <2>13 DEF Fractions
  <1>7. PICK N \in Nat \ {0} : N = Cardinality(velocities)
      BY FS_CardinalityType, FS_EmptySet
  <1>8. N \in G
      BY <1>5, <1>6, Induction
  <1>9. Between(total[velocities], N)
    <2> HIDE DEF Between
    <2>1. QED BY <1>3, <1>7, <1>8
  <1>10. PICK a \in Nat, b \in Nat \ {0} : total[velocities] = <<a, b>>
      BY <1>9 DEF Fractions
  <1>11. Average(velocities) = <<a, b * N>>
      BY <1>1, <1>7, <1>10
  <1>12. Less(Average(velocities), q) <=> a * y < x * (b * N)
      BY <1>2, <1>11 DEF Less
  <1>13. x * (b * N) = N * x * b /\ a * y \in Nat /\ N * x * b \in Nat
      OBVIOUS
  <1>14. ASSUME \A f \in velocities : Less(f.value, q) PROVE a * y < N * x * b
      BY <1>9, <1>10, <1>14
  <1>15. ASSUME \A f \in velocities : ~Less(f.value, q) PROVE N * x * b <= a * y
      BY <1>9, <1>10, <1>15
  <1>16. QED BY <1>12, <1>13, <1>14, <1>15

-----------------------------------------------------------------------------
(* Merging.                                                                *)

SegmentRecords == [start : Nat, end : Nat, count : Nat, label : Labels]

\* A segment that takes in the next one.
Extended(prev, seg) == [prev EXCEPT !.end = seg.end, !.count = @ + seg.count]

\* The segments merged so far, when the next one comes.
Merge(merged, seg) ==
    IF merged # <<>> /\ Last(merged).label = seg.label
    THEN Append(Front(merged), Extended(Last(merged), seg))
    ELSE Append(merged, seg)

\* A set of indices that is not empty has a greatest one.
LEMMA GreatestIndex ==
    ASSUME NEW n \in Nat, NEW s \in SUBSET (1..n), s # {}
    PROVE  Max(s) \in s /\ \A k \in s : k <= Max(s)
  <1>1. PICK T : T = {n - k : k \in s}
      OBVIOUS
  <1>2. T \in SUBSET Nat /\ T # {}
    <2>1. \A k \in s : n - k \in Nat
      <3>1. \A k \in 1..n : n - k \in Nat
          OBVIOUS
      <3>2. QED BY <3>1
    <2>2. QED BY <1>1, <2>1
  <1>3. PICK d \in T : \A e \in T : d <= e
      BY <1>2, LeastNatural
  <1>4. PICK x \in s : d = n - x
      BY <1>1, <1>3
  <1>5. \A k \in s : x >= k
    <2>1. TAKE k \in s
    <2>2. d <= n - k
        BY <1>1, <1>3
    <2>3. QED BY <1>4, <2>2
  <1>6. Max(s) \in s /\ \A k \in s : Max(s) >= k
      BY <1>5, Zenon DEF Max
  <1>7. QED BY <1>6

\* merged[k] is what the first k windows became.
MergesUp(merged, raw) ==
    /\ merged[0] = <<>>
    /\ \A k \in 1..Len(raw) : merged[k] = Merge(merged[k - 1], raw[k])
    /\ MergeAdjacent(raw) = merged[Len(raw)]

\* One segment more is a list of segments again.
LEMMA MergeTyped ==
    ASSUME NEW m \in Seq(SegmentRecords), NEW seg \in SegmentRecords
    PROVE  /\ Merge(m, seg) \in Seq(SegmentRecords)
           /\ m = <<>> => Merge(m, seg) = <<seg>>
           /\ m # <<>> /\ m[Len(m)].label = seg.label =>
                 /\ Len(Merge(m, seg)) = Len(m)
                 /\ \A i \in 1..(Len(m) - 1) : Merge(m, seg)[i] = m[i]
                 /\ Merge(m, seg)[Len(m)] = Extended(m[Len(m)], seg)
           /\ m # <<>> /\ m[Len(m)].label # seg.label =>
                 /\ Len(Merge(m, seg)) = Len(m) + 1
                 /\ \A i \in 1..Len(m) : Merge(m, seg)[i] = m[i]
                 /\ Merge(m, seg)[Len(m) + 1] = seg
  <1>1. CASE m = <<>>
      BY <1>1 DEF Merge
  <1>2. CASE m # <<>>
    <2>1. PICK N \in Nat \ {0} : N = Len(m)
        BY <1>2
    <2>2. Last(m) = m[N] /\ m[N] \in SegmentRecords
        BY <2>1 DEF Last
    <2>3. Extended(m[N], seg) \in SegmentRecords
      <3>1. PICK p \in SegmentRecords : p = m[N]
          BY <2>2
      <3>2. PICK c \in Nat : c = p.count + seg.count
          BY DEF SegmentRecords
      <3>3. Extended(p, seg) = [p EXCEPT !.end = seg.end, !.count = c]
          BY <3>2 DEF Extended
      <3>4. seg.end \in Nat
          BY DEF SegmentRecords
      <3>5. Extended(p, seg) \in SegmentRecords
          BY <3>3, <3>4 DEF SegmentRecords
      <3>6. QED BY <3>1, <3>5
    <2>4. PICK front : front = Front(m)
        OBVIOUS
    <2>5. front \in Seq(SegmentRecords) /\ Len(front) = N - 1 /\ \A i \in 1..(N - 1) : front[i] = m[i]
        BY <2>1, <2>4 DEF Front
    <2>6. CASE m[N].label = seg.label
      <3>1. Merge(m, seg) = Append(front, Extended(m[N], seg))
          BY <1>2, <2>2, <2>4, <2>6 DEF Merge
      <3>2. PICK e \in SegmentRecords : e = Extended(m[N], seg)
          BY <2>3
      <3>3. /\ Append(front, e) \in Seq(SegmentRecords)
            /\ Len(Append(front, e)) = N
            /\ \A i \in 1..(N - 1) : Append(front, e)[i] = m[i]
            /\ Append(front, e)[N] = e
          BY <2>5
      <3>4. QED BY <1>2, <2>1, <2>6, <3>1, <3>2, <3>3
    <2>7. CASE m[N].label # seg.label
      <3>1. Merge(m, seg) = Append(m, seg)
          BY <2>2, <2>7 DEF Merge
      <3>2. QED BY <1>2, <2>1, <2>7, <3>1
    <2>8. QED BY <2>6, <2>7
  <1>3. QED BY <1>1, <1>2

\* The merge is built up over the windows.
LEMMA MergePrefixes ==
    ASSUME NEW raw \in Seq(SegmentRecords)
    PROVE  \E merged : MergesUp(merged, raw)
  <1> DEFINE Solves(t) == t = [s \in SUBSET DOMAIN raw |->
                                  IF s = {} THEN <<>> ELSE Merge(t[s \ {Max(s)}], raw[Max(s)])]
             K == CHOOSE t : Solves(t)
  <1>1. MergeAdjacent(raw) = K[DOMAIN raw]
      BY Zenon DEF MergeAdjacent, FoldLeft, MapThenFoldSet, Merge, Extended
  <1>2. PICK N \in Nat : N = Len(raw)
      OBVIOUS
  <1>3. DOMAIN raw = 1..N /\ \A k \in 1..N : raw[k] \in SegmentRecords
      BY <1>2
  <1>4. PICK pick : pick = [s \in SUBSET (1..N) |-> Max(s)]
      OBVIOUS
  <1>5. \A s \in SUBSET (1..N) : pick[s] = Max(s) /\ (s # {} => pick[s] \in s)
      BY <1>4, GreatestIndex
  <1>6. PICK step : step = [kv \in (1..N) \X Seq(SegmentRecords) |-> Merge(kv[2], raw[kv[1]])]
      OBVIOUS
  <1>7. \A k \in 1..N, v \in Seq(SegmentRecords) : step[<<k, v>>] = Merge(v, raw[k])
      BY <1>6
  <1>8. \A k \in 1..N, v \in Seq(SegmentRecords) : Merge(v, raw[k]) \in Seq(SegmentRecords)
      BY <1>3, MergeTyped
  <1>9. PICK t \in [SUBSET (1..N) -> Seq(SegmentRecords)] :
            Recurses(t, SUBSET (1..N), <<>>, pick, step)
    <2>1. <<>> \in Seq(SegmentRecords)
        OBVIOUS
    <2>2. \A k \in 1..N, v \in Seq(SegmentRecords) : step[<<k, v>>] \in Seq(SegmentRecords)
        BY <1>7, <1>8
    <2>3. IsFiniteSet(1..N)
        BY FS_Interval
    <2>4. QED BY <1>5, <2>1, <2>2, <2>3, SubsetRecursion
  <1>10. Solves(t)
    <2>1. \A s \in SUBSET (1..N) :
              t[s] = IF s = {} THEN <<>> ELSE Merge(t[s \ {Max(s)}], raw[Max(s)])
      <3>1. TAKE s \in SUBSET (1..N)
      <3>2. CASE s = {}
          BY <1>9, <3>2 DEF Recurses
      <3>3. CASE s # {}
        <4>1. pick[s] \in 1..N /\ t[s \ {pick[s]}] \in Seq(SegmentRecords)
            BY <1>5, <1>9, <3>3
        <4>2. t[s] = Merge(t[s \ {pick[s]}], raw[pick[s]])
            BY <1>7, <1>9, <3>3, <4>1 DEF Recurses
        <4>3. QED BY <1>5, <3>3, <4>2
      <3>4. QED BY <3>2, <3>3
    <2>2. t = [s \in SUBSET (1..N) |-> t[s]]
        BY <1>9
    <2>3. QED BY <1>3, <2>1, <2>2
  <1>11. Solves(K)
      BY <1>10
  <1> HIDE DEF K
  <1>12. \A s \in SUBSET (1..N) :
             K[s] = IF s = {} THEN <<>> ELSE Merge(K[s \ {Max(s)}], raw[Max(s)])
      BY <1>3, <1>11
  <1>13. PICK merged : merged = [k \in 0..N |-> K[1..k]]
      OBVIOUS
  <1>14. merged[0] = <<>>
    <2>1. 1..0 = {} /\ 0 \in 0..N
        OBVIOUS
    <2>2. QED BY <1>12, <1>13, <2>1
  <1>15. ASSUME NEW k \in 1..N PROVE merged[k] = Merge(merged[k - 1], raw[k])
    <2>1. 1..k \in SUBSET (1..N) /\ 1..k # {} /\ k \in 1..k
      <3>1. k \in 1..k /\ \A i \in 1..k : i \in 1..N
          OBVIOUS
      <3>2. QED BY <3>1
    <2>2. Max(1..k) = k
      <3>1. Max(1..k) \in 1..k /\ \A i \in 1..k : i <= Max(1..k)
          BY <2>1, GreatestIndex
      <3>2. QED BY <2>1, <3>1
    <2>3. (1..k) \ {k} = 1..(k - 1)
        OBVIOUS
    <2>4. k - 1 \in 0..N /\ k \in 0..N
        OBVIOUS
    <2>5. K[1..k] = Merge(K[(1..k) \ {Max(1..k)}], raw[Max(1..k)])
        BY <1>12, <2>1
    <2>6. QED BY <1>13, <2>2, <2>3, <2>4, <2>5
  <1>16. MergeAdjacent(raw) = merged[N]
      BY <1>1, <1>3, <1>13
  <1>17. QED BY <1>2, <1>14, <1>15, <1>16 DEF MergesUp

\* stands says which segment stands for the windows from a to u: a window for itself, and a
\* segment that takes in the next one for one more.
Accumulates(stands, raw) ==
    /\ \A k \in 1..Len(raw) : <<raw[k], k, k>> \in stands
    /\ \A s \in SegmentRecords, a \in 1..Len(raw), u \in 1..(Len(raw) - 1) :
          <<s, a, u>> \in stands /\ s.label = raw[u + 1].label
              => <<Extended(s, raw[u + 1]), a, u + 1>> \in stands

\* The i-th segment stands for the windows behind cut[i - 1] up to cut[i].
Cuts(cut, segs, n, stands) ==
    /\ cut \in [0..Len(segs) -> 0..n]
    /\ cut[0] = 0 /\ cut[Len(segs)] = n
    /\ \A i \in 1..Len(segs) : cut[i - 1] < cut[i] /\ <<segs[i], cut[i - 1] + 1, cut[i]>> \in stands
    /\ \A i \in 1..(Len(segs) - 1) : segs[i].label # segs[i + 1].label

\* One window more is taken in, or stands for itself.
LEMMA MergeCuts ==
    ASSUME NEW raw \in Seq(SegmentRecords), NEW stands, Accumulates(stands, raw),
           NEW m \in Seq(SegmentRecords), NEW k \in 0..(Len(raw) - 1), NEW cut, Cuts(cut, m, k, stands)
    PROVE  \E new : Cuts(new, Merge(m, raw[k + 1]), k + 1, stands)
  <1>1. PICK N \in Nat : N = Len(raw)
      OBVIOUS
  <1>2. PICK M \in Nat : M = Len(m)
      OBVIOUS
  <1>3. k \in Nat /\ k + 1 \in 1..N
      BY <1>1
  <1>4. PICK seg \in SegmentRecords : seg = raw[k + 1]
      BY <1>1, <1>3
  <1>5. PICK out \in Seq(SegmentRecords) : out = Merge(m, seg)
      BY MergeTyped
  <1>6. /\ cut \in [0..M -> 0..k]
        /\ cut[0] = 0 /\ cut[M] = k
        /\ \A i \in 1..M : cut[i - 1] < cut[i] /\ <<m[i], cut[i - 1] + 1, cut[i]>> \in stands
        /\ \A i \in 1..(M - 1) : m[i].label # m[i + 1].label
      BY <1>2 DEF Cuts
  <1>7. CASE m # <<>> /\ m[M].label = seg.label
    <2>1. M \in 1..M /\ M - 1 \in 0..M
        BY <1>2, <1>7
    <2>2. /\ Len(out) = M
          /\ \A i \in 1..(M - 1) : out[i] = m[i]
          /\ out[M] = Extended(m[M], seg)
        BY <1>2, <1>5, <1>7, MergeTyped
    <2>3. PICK new : new = [i \in 0..M |-> IF i = M THEN k + 1 ELSE cut[i]]
        OBVIOUS
    <2>4. new[M] = k + 1 /\ \A i \in 0..(M - 1) : new[i] = cut[i]
        BY <2>1, <2>3
    <2>5. new \in [0..M -> 0..(k + 1)]
      <3>1. ASSUME NEW i \in 0..M PROVE new[i] \in 0..(k + 1)
        <4>1. cut[i] \in 0..k
            BY <1>6
        <4>2. QED BY <1>3, <2>3, <4>1
      <3>2. QED BY <2>3, <3>1
    <2>6. new[0] = 0
        BY <1>6, <2>1, <2>4
    <2>7. <<out[M], cut[M - 1] + 1, k + 1>> \in stands
      <3>1. cut[M - 1] < k /\ <<m[M], cut[M - 1] + 1, k>> \in stands /\ cut[M - 1] \in 0..k
          BY <1>6, <2>1
      <3>2. cut[M - 1] + 1 \in 1..N /\ k \in 1..(N - 1)
          BY <1>3, <3>1
      <3>3. m[M] \in SegmentRecords
          BY <1>2, <2>1
      <3>4. PICK a \in 1..N : a = cut[M - 1] + 1
          BY <3>2
      <3>5. <<Extended(m[M], raw[k + 1]), a, k + 1>> \in stands
          BY <1>1, <1>4, <1>7, <3>1, <3>2, <3>3, <3>4 DEF Accumulates
      <3>6. QED BY <1>4, <2>2, <3>4, <3>5
    <2>8. ASSUME NEW i \in 1..M PROVE new[i - 1] < new[i] /\ <<out[i], new[i - 1] + 1, new[i]>> \in stands
      <3>1. i - 1 \in 0..(M - 1) /\ new[i - 1] = cut[i - 1]
          BY <2>4
      <3>2. CASE i = M
        <4>1. cut[M - 1] \in 0..k
            BY <1>6, <2>1
        <4>2. new[i - 1] = cut[M - 1] /\ new[i] = k + 1 /\ out[i] = out[M]
            BY <2>4, <3>1, <3>2
        <4>3. cut[M - 1] < k + 1
            BY <1>3, <4>1
        <4>4. QED BY <2>7, <4>2, <4>3
      <3>3. CASE i # M
        <4>1. i \in 1..(M - 1) /\ i \in 0..(M - 1)
            BY <3>3
        <4>2. new[i] = cut[i] /\ out[i] = m[i]
            BY <2>2, <2>4, <4>1
        <4>3. QED BY <1>6, <3>1, <4>2
      <3>4. QED BY <3>2, <3>3
    <2>9. \A i \in 1..M : out[i].label = m[i].label
      <3>1. m[M] \in SegmentRecords
          BY <1>2, <2>1
      <3>2. out[M].label = m[M].label
          BY <2>2, <3>1 DEF Extended, SegmentRecords
      <3>3. \A i \in 1..M : i = M \/ i \in 1..(M - 1)
          OBVIOUS
      <3>4. QED BY <2>2, <3>2, <3>3
    <2>10. \A i \in 1..(M - 1) : out[i].label # out[i + 1].label
      <3>1. \A i \in 1..(M - 1) : i \in 1..M /\ i + 1 \in 1..M
          OBVIOUS
      <3>2. QED BY <1>6, <2>9, <3>1
    <2>11. Cuts(new, out, k + 1, stands)
        BY <2>2, <2>4, <2>5, <2>6, <2>8, <2>10 DEF Cuts
    <2>12. QED BY <1>4, <1>5, <2>11
  <1>8. CASE m = <<>> \/ m[M].label # seg.label
    <2>1. /\ Len(out) = M + 1
          /\ \A i \in 1..M : out[i] = m[i]
          /\ out[M + 1] = seg
      <3>1. CASE m = <<>>
        <4>1. out = <<seg>> /\ M = 0
            BY <1>2, <1>5, <3>1, MergeTyped
        <4>2. QED BY <4>1
      <3>2. CASE m # <<>>
        <4>1. m[Len(m)].label # seg.label
            BY <1>2, <1>8, <3>2
        <4>2. /\ Len(Merge(m, seg)) = Len(m) + 1
              /\ \A i \in 1..Len(m) : Merge(m, seg)[i] = m[i]
              /\ Merge(m, seg)[Len(m) + 1] = seg
            BY <3>2, <4>1, MergeTyped
        <4>3. QED BY <1>2, <1>5, <4>2
      <3>3. QED BY <3>1, <3>2
    <2>2. PICK new : new = [i \in 0..(M + 1) |-> IF i = M + 1 THEN k + 1 ELSE cut[i]]
        OBVIOUS
    <2>3. new[M + 1] = k + 1 /\ \A i \in 0..M : new[i] = cut[i]
        BY <2>2
    <2>4. new \in [0..(M + 1) -> 0..(k + 1)]
      <3>1. ASSUME NEW i \in 0..(M + 1) PROVE new[i] \in 0..(k + 1)
        <4>1. i = M + 1 \/ (i \in 0..M /\ cut[i] \in 0..k)
          <5>1. i = M + 1 \/ i \in 0..M
              OBVIOUS
          <5>2. QED BY <1>6, <5>1
        <4>2. QED BY <1>3, <2>3, <4>1
      <3>2. QED BY <2>2, <3>1
    <2>5. <<seg, k + 1, k + 1>> \in stands
        BY <1>1, <1>3, <1>4 DEF Accumulates
    <2>6. ASSUME NEW i \in 1..(M + 1)
          PROVE  new[i - 1] < new[i] /\ <<out[i], new[i - 1] + 1, new[i]>> \in stands
      <3>1. i - 1 \in 0..M /\ new[i - 1] = cut[i - 1]
          BY <2>3
      <3>2. CASE i = M + 1
        <4>1. i - 1 = M /\ new[i - 1] = k
            BY <1>6, <3>1, <3>2
        <4>2. QED BY <1>3, <2>1, <2>3, <2>5, <3>2, <4>1
      <3>3. CASE i # M + 1
        <4>1. i \in 1..M /\ i \in 0..M
            BY <3>3
        <4>2. new[i] = cut[i] /\ out[i] = m[i]
            BY <2>1, <2>3, <4>1
        <4>3. QED BY <1>6, <3>1, <4>1, <4>2
      <3>4. QED BY <3>2, <3>3
    <2>7. ASSUME NEW i \in 1..((M + 1) - 1) PROVE out[i].label # out[i + 1].label
      <3>1. i \in 1..M
          OBVIOUS
      <3>2. CASE i = M
        <4>1. m # <<>>
            BY <1>2, <3>1, <3>2
        <4>2. QED BY <1>8, <2>1, <3>1, <3>2, <4>1
      <3>3. CASE i # M
        <4>1. i \in 1..(M - 1) /\ i + 1 \in 1..M
            BY <3>1, <3>3
        <4>2. QED BY <1>6, <2>1, <3>1, <4>1
      <3>4. QED BY <3>2, <3>3
    <2>8. new[0] = 0
        BY <1>6, <2>3
    <2>9. Cuts(new, out, k + 1, stands)
        BY <2>1, <2>3, <2>4, <2>6, <2>7, <2>8 DEF Cuts
    <2>10. QED BY <1>4, <1>5, <2>9
  <1>9. QED BY <1>7, <1>8

\* So the merged segments stand for the windows, each for at least one of them, in their order,
\* and neighbours differ in their label.
LEMMA MergeAdjacentFacts ==
    ASSUME NEW raw \in Seq(SegmentRecords), NEW stands, Accumulates(stands, raw)
    PROVE  /\ MergeAdjacent(raw) \in Seq(SegmentRecords)
           /\ \E cut : Cuts(cut, MergeAdjacent(raw), Len(raw), stands)
  <1>1. PICK merged : MergesUp(merged, raw)
      BY MergePrefixes
  <1>2. PICK N \in Nat : N = Len(raw)
      OBVIOUS
  <1>3. PICK G : G = {k \in Nat : k <= N => /\ merged[k] \in Seq(SegmentRecords)
                                           /\ \E cut : Cuts(cut, merged[k], k, stands)}
      OBVIOUS
  <1>4. 0 \in G
    <2>1. PICK cut : cut = [i \in 0..0 |-> 0]
        OBVIOUS
    <2>2. Cuts(cut, <<>>, 0, stands)
        BY <2>1 DEF Cuts
    <2>3. merged[0] = <<>>
        BY <1>1 DEF MergesUp
    <2>4. <<>> \in Seq(SegmentRecords)
        OBVIOUS
    <2>5. QED BY <1>3, <2>2, <2>3, <2>4
  <1>5. ASSUME NEW k \in Nat, k \in G PROVE k + 1 \in G
    <2>1. SUFFICES ASSUME k + 1 <= N
                   PROVE  /\ merged[k + 1] \in Seq(SegmentRecords)
                          /\ \E cut : Cuts(cut, merged[k + 1], k + 1, stands)
        BY <1>3
    <2>2. PICK m \in Seq(SegmentRecords) : m = merged[k]
        BY <1>3, <1>5, <2>1
    <2>3. PICK cut : Cuts(cut, m, k, stands)
        BY <1>3, <1>5, <2>1, <2>2
    <2>4. k + 1 \in 1..N /\ (k + 1) - 1 = k
        BY <2>1
    <2>5. merged[k + 1] = Merge(m, raw[k + 1])
        BY <1>1, <1>2, <2>2, <2>4 DEF MergesUp
    <2>6. raw[k + 1] \in SegmentRecords
        BY <1>2, <2>4
    <2>7. Merge(m, raw[k + 1]) \in Seq(SegmentRecords)
        BY <2>6, MergeTyped
    <2>8. k \in 0..(Len(raw) - 1)
        BY <1>2, <2>1
    <2>9. \E new : Cuts(new, Merge(m, raw[k + 1]), k + 1, stands)
        BY <2>3, <2>8, MergeCuts
    <2>10. QED BY <2>5, <2>7, <2>9
  <1>6. N \in G
      BY <1>4, <1>5, Induction
  <1>7. QED BY <1>1, <1>2, <1>3, <1>6 DEF MergesUp

-----------------------------------------------------------------------------
(* The poses.                                                              *)

PosesTyped ==
    poses \subseteq [frame : 0..(frame - 1), track : Tracks, place : Places \cup {NoKeypoints}]

OnePerFrame == \A p, q \in poses : p.frame = q.frame /\ p.track = q.track => p = q

\* The inductive invariant.
IInv ==
    /\ frame \in 0..MaxFrames
    /\ IsFiniteSet(poses)
    /\ PosesTyped
    /\ OnePerFrame

\* Nobody was posed before the first frame.
LEMMA InitIInv == Init => IInv
  <1>1. IsFiniteSet({})
      BY FS_EmptySet
  <1>2. QED BY <1>1, SegmentsAssumption DEF Init, IInv, PosesTyped, OnePerFrame, SegmentsAssumption

\* A frame adds a pose at most of each track, at its own index.
LEMMA FrameIInv ==
    ASSUME IInv, NEW found \in SUBSET Tracks, NEW place \in [found -> Places \cup {NoKeypoints}],
           AnalyseFrame(found, place)
    PROVE  IInv'
  <1> DEFINE Pose(t) == [frame |-> frame, track |-> t, place |-> place[t]]
  <1>1. PICK new : new = {Pose(t) : t \in found}
      OBVIOUS
  <1>2. frame' = frame + 1 /\ frame' \in 0..MaxFrames /\ frame \in Nat /\ poses' = poses \cup new
      BY <1>1, SegmentsAssumption DEF AnalyseFrame, IInv, SegmentsAssumption
  <1>3. IsFiniteSet(poses')
    <2>1. IsFiniteSet(found)
        BY SegmentsAssumption, FS_Subset DEF SegmentsAssumption
    <2>2. PICK f : f = [t \in found |-> Pose(t)]
        OBVIOUS
    <2>3. f \in Surjection(found, new)
        BY <1>1, <2>2 DEF Surjection
    <2>4. IsFiniteSet(new)
        BY <2>1, <2>3, FS_Surjection
    <2>5. QED BY <1>2, <2>4, FS_Union DEF IInv
  <1>4. PosesTyped'
    <2>1. ASSUME NEW p \in poses'
          PROVE  p \in [frame : 0..frame, track : Tracks, place : Places \cup {NoKeypoints}]
      <3>1. CASE p \in poses
        <4>1. p \in [frame : 0..(frame - 1), track : Tracks, place : Places \cup {NoKeypoints}]
            BY <3>1 DEF IInv, PosesTyped
        <4>2. p.frame \in 0..frame
            BY <1>2, <4>1
        <4>3. QED BY <4>1, <4>2
      <3>2. CASE p \in new
        <4>1. PICK t \in found : p = Pose(t)
            BY <1>1, <3>2
        <4>2. t \in Tracks /\ frame \in 0..frame
            BY <1>2
        <4>3. QED BY <4>1, <4>2
      <3>3. QED BY <1>2, <2>1, <3>1, <3>2
    <2>2. frame' - 1 = frame
        BY <1>2
    <2>3. QED BY <2>1, <2>2 DEF PosesTyped
  <1>5. OnePerFrame'
    <2>1. \A p \in poses : p.frame # frame
      <3>1. TAKE p \in poses
      <3>2. p.frame \in 0..(frame - 1)
          BY DEF IInv, PosesTyped
      <3>3. QED BY <1>2, <3>2
    <2>2. \A p \in new : p.frame = frame
        BY <1>1
    <2>3. \A p, q \in new : p.track = q.track => p = q
        BY <1>1
    <2>4. QED BY <1>2, <2>1, <2>2, <2>3 DEF IInv, OnePerFrame
  <1>6. QED BY <1>2, <1>3, <1>4, <1>5 DEF IInv

\* The poses are typed, and one of a track in a frame at most, in every state.
THEOREM PosesInvariant == Spec => []IInv
  <1>1. IInv /\ [Next]_vars => IInv'
    <2>1. ASSUME IInv, Next PROVE IInv'
        BY <2>1, FrameIInv DEF Next
    <2>2. ASSUME IInv, UNCHANGED vars PROVE IInv'
        BY <2>2 DEF vars, IInv, PosesTyped, OnePerFrame
    <2>3. QED BY <2>1, <2>2
  <1>2. QED BY InitIInv, <1>1, PTL DEF Spec

\* What is known of a pose.
LEMMA PoseFacts ==
    ASSUME IInv, NEW p \in poses
    PROVE  /\ p.frame \in Nat /\ p.frame <= frame - 1
           /\ p.track \in Tracks
           /\ p.place # NoKeypoints => p.place \in Nat
  BY SegmentsAssumption DEF IInv, PosesTyped, SegmentsAssumption

-----------------------------------------------------------------------------
(* Time.                                                                   *)

\* A later frame is a millisecond later at least.
LEMMA Times ==
    ASSUME NEW f \in Nat, NEW g \in Nat
    PROVE  /\ Time(f) \in Nat
           /\ f < g => Time(f) + 1 <= Time(g)
           /\ f <= g => Time(f) <= Time(g)
           /\ Time(f) = Time(g) => f = g
  <1>1. PICK I \in Nat \ {0} : I = Interval
      BY SegmentsAssumption DEF SegmentsAssumption
  <1>2. \A m, n \in Nat : m < n => m * I + 1 <= n * I
    <2>1. TAKE m, n \in Nat
    <2>2. HAVE m < n
    <2>3. (m + 1) * I <= n * I
        BY <2>2, TimesKeeps
    <2>4. (m + 1) * I = m * I + I /\ m * I \in Nat /\ n * I \in Nat
        OBVIOUS
    <2>5. QED BY <2>3, <2>4
  <1>3. Time(f) = f * I /\ Time(g) = g * I /\ f * I \in Nat /\ g * I \in Nat
      BY <1>1 DEF Time
  <1>4. /\ f < g => f * I + 1 <= g * I
        /\ g < f => g * I + 1 <= f * I
      BY <1>2
  <1>5. f = g => f * I = g * I
      OBVIOUS
  <1>6. QED BY <1>3, <1>4, <1>5

-----------------------------------------------------------------------------
(* The features.                                                           *)

\* The features of a pose, and of a pair of poses.
PointOf(p, n) ==
    [track |-> p.track, name |-> n, start |-> Time(p.frame), end |-> Time(p.frame),
     value |-> <<0, 1>>]

VelocityOf(pq) ==
    [track |-> pq[1].track, name |-> "centroid_velocity",
     start |-> Time(pq[1].frame), end |-> Time(pq[2].frame),
     value |-> <<Gap(pq[1].place, pq[2].place), Time(pq[2].frame - pq[1].frame)>>]

\* The pairs a motion is known of.
Moves == {r \in poses \X poses : /\ Consecutive(r[1], r[2])
                                 /\ NoKeypoints \notin {r[1].place, r[2].place}}

\* Each pose has its two features at a point, and they are of nothing else.
LEMMA PointsOfPoses ==
    /\ \A f \in PointFeatures : \E p \in poses, n \in PointNames : f = PointOf(p, n)
    /\ \A p \in poses, n \in PointNames : PointOf(p, n) \in PointFeatures
  BY DEF PointFeatures, PointOf

\* The velocities are those of the pairs.
LEMMA VelocitiesOfPairs == CentroidVelocities = {VelocityOf(pq) : pq \in Moves}
  BY Zenon DEF CentroidVelocities, VelocityOf, Moves

\* Two poses of a pair follow each other, and their speed is a fraction.
LEMMA MoveFacts ==
    ASSUME IInv, NEW pq \in Moves
    PROVE  /\ pq[1] \in poses /\ pq[2] \in poses /\ pq = <<pq[1], pq[2]>>
           /\ pq[1].track = pq[2].track /\ pq[1].frame < pq[2].frame
           /\ Time(pq[1].frame) < Time(pq[2].frame)
           /\ VelocityOf(pq).value \in Fractions
  <1>1. pq[1] \in poses /\ pq[2] \in poses /\ pq = <<pq[1], pq[2]>> /\ Consecutive(pq[1], pq[2])
        /\ NoKeypoints \notin {pq[1].place, pq[2].place}
      BY DEF Moves
  <1>2. pq[1].track = pq[2].track /\ pq[1].frame < pq[2].frame
      BY <1>1 DEF Consecutive
  <1>3. /\ pq[1].frame \in Nat /\ pq[2].frame \in Nat
        /\ pq[1].place \in Nat /\ pq[2].place \in Nat
      BY <1>1, PoseFacts
  <1>4. Time(pq[1].frame) < Time(pq[2].frame)
    <2>1. PICK m \in Nat, n \in Nat : m = pq[1].frame /\ n = pq[2].frame
        BY <1>3
    <2>2. Time(m) \in Nat /\ Time(n) \in Nat /\ Time(m) + 1 <= Time(n)
        BY <1>2, <2>1, Times
    <2>3. QED BY <2>1, <2>2
  <1>5. Time(pq[2].frame - pq[1].frame) \in Nat \ {0}
    <2>1. PICK d \in Nat \ {0} : d = pq[2].frame - pq[1].frame
        BY <1>2, <1>3
    <2>2. Time(0) \in Nat /\ Time(d) \in Nat /\ Time(0) + 1 <= Time(d)
        BY Times
    <2>3. QED BY <2>1, <2>2
  <1>6. Gap(pq[1].place, pq[2].place) \in Nat
      BY <1>3 DEF Gap
  <1>7. QED BY <1>1, <1>2, <1>4, <1>5, <1>6 DEF VelocityOf, Fractions

\* A feature lasts from a pose to a pose, and is there for each.
LEMMA FeatureFacts ==
    ASSUME IInv
    PROVE  /\ \A f \in Features : /\ f.start \in Nat /\ f.end \in Nat /\ f.start <= f.end
                                  /\ \E p \in poses : f.start = Time(p.frame)
                                  /\ \E p \in poses : f.end = Time(p.frame)
           /\ \A p \in poses : \E f \in Features : f.start = Time(p.frame) /\ f.end = Time(p.frame)
           /\ Features = {} <=> poses = {}
  <1>1. \A p \in poses : Time(p.frame) \in Nat
      BY PoseFacts, Times
  <1>2. ASSUME NEW f \in Features
        PROVE  \E p, q \in poses : /\ f.start = Time(p.frame) /\ f.end = Time(q.frame)
                                   /\ Time(p.frame) <= Time(q.frame)
    <2>1. CASE f \in PointFeatures
      <3>1. PICK p \in poses, n \in PointNames : f = PointOf(p, n)
          BY <2>1, PointsOfPoses
      <3>2. f.start = Time(p.frame) /\ f.end = Time(p.frame)
          BY <3>1 DEF PointOf
      <3>3. QED BY <1>1, <3>2
    <2>2. CASE f \in CentroidVelocities
      <3>1. PICK pq \in Moves : f = VelocityOf(pq)
          BY <2>2, VelocitiesOfPairs
      <3>2. f.start = Time(pq[1].frame) /\ f.end = Time(pq[2].frame)
          BY <3>1 DEF VelocityOf
      <3>3. pq[1] \in poses /\ pq[2] \in poses /\ Time(pq[1].frame) < Time(pq[2].frame)
          BY MoveFacts
      <3>4. Time(pq[1].frame) <= Time(pq[2].frame)
          BY <1>1, <3>3
      <3>5. QED BY <3>2, <3>3, <3>4
    <2>3. QED BY <2>1, <2>2 DEF Features
  <1>3. ASSUME NEW p \in poses
        PROVE  \E f \in Features : f.start = Time(p.frame) /\ f.end = Time(p.frame)
    <2>1. PointOf(p, "bbox_area") \in Features
        BY PointsOfPoses DEF PointNames, Features
    <2>2. QED BY <2>1 DEF PointOf
  <1>4. QED BY <1>1, <1>2, <1>3

-----------------------------------------------------------------------------
(* The windows.                                                            *)

\* The features begin with a pose and end with one.
LEMMA Extremes ==
    ASSUME IInv, poses # {}
    PROVE  /\ \E p \in poses : Earliest(Features) = Time(p.frame)
           /\ \E p \in poses : Latest(Features) = Time(p.frame)
           /\ \A f \in Features : Earliest(Features) <= f.start /\ f.end <= Latest(Features)
           /\ \A p \in poses : Earliest(Features) <= Time(p.frame) /\ Time(p.frame) <= Latest(Features)
  <1>1. PICK S : S = {f.start : f \in Features}
      OBVIOUS
  <1>2. PICK E : E = {f.end : f \in Features}
      OBVIOUS
  <1>3. S \in SUBSET Nat /\ S # {} /\ E \in SUBSET Nat /\ E # {}
      BY <1>1, <1>2, FeatureFacts
  <1>4. PICK s \in S : \A t \in S : s <= t
      BY <1>3, LeastNatural
  <1>5. Earliest(Features) \in S /\ \A f \in Features : Earliest(Features) <= f.start
    <2>1. \E t \in S : \A f \in Features : t <= f.start
        BY <1>1, <1>4
    <2>2. Earliest(Features) = CHOOSE t \in S : \A f \in Features : t <= f.start
        BY <1>1, Zenon DEF Earliest
    <2>3. QED BY <2>1, <2>2, Zenon
  <1>6. PICK last \in Nat : \A p \in poses : Time(p.frame) <= last
    <2>1. PICK p \in poses : TRUE
        OBVIOUS
    <2>2. frame - 1 \in Nat
        BY <2>1, PoseFacts, SegmentsAssumption DEF IInv, SegmentsAssumption
    <2>3. \A q \in poses : Time(q.frame) <= Time(frame - 1)
        BY <2>2, PoseFacts, Times
    <2>4. Time(frame - 1) \in Nat
        BY <2>2, Times
    <2>5. QED BY <2>3, <2>4
  <1>7. \A e \in E : e <= last
      BY <1>2, <1>6, FeatureFacts
  <1>8. PICK e \in E : \A t \in E : t <= e
    <2>1. PICK T : T = {last - t : t \in E}
        OBVIOUS
    <2>2. \A t \in E : t \in Nat /\ last - t \in Nat
        BY <1>3, <1>7
    <2>3. T \in SUBSET Nat /\ T # {}
        BY <1>3, <2>1, <2>2
    <2>4. PICK d \in T : \A c \in T : d <= c
        BY <2>3, LeastNatural
    <2>5. PICK x \in E : d = last - x
        BY <2>1, <2>4
    <2>6. \A t \in E : t <= x
      <3>1. TAKE t \in E
      <3>2. d <= last - t
          BY <2>1, <2>4
      <3>3. QED BY <2>2, <2>5, <3>2
    <2>7. QED BY <2>6
  <1>9. Latest(Features) \in E /\ \A f \in Features : Latest(Features) >= f.end
    <2>1. \E t \in E : \A f \in Features : t >= f.end
      <3>1. \A f \in Features : e >= f.end
        <4>1. TAKE f \in Features
        <4>2. f.end \in E /\ f.end \in Nat /\ e \in Nat
            BY <1>2, <1>3
        <4>3. QED BY <1>8, <4>2
      <3>2. QED BY <3>1
    <2>2. Latest(Features) = CHOOSE t \in E : \A f \in Features : t >= f.end
        BY <1>2, Zenon DEF Latest
    <2>3. QED BY <2>1, <2>2, Zenon
  <1>10. \E p \in poses : Earliest(Features) = Time(p.frame)
      BY <1>1, <1>5, FeatureFacts
  <1>11. \E p \in poses : Latest(Features) = Time(p.frame)
      BY <1>2, <1>9, FeatureFacts
  <1>12. Earliest(Features) \in Nat /\ Latest(Features) \in Nat
      BY <1>3, <1>5, <1>9
  <1>13. \A f \in Features : f.end <= Latest(Features)
      BY <1>9, <1>12, FeatureFacts
  <1>14. QED BY <1>5, <1>10, <1>11, <1>12, <1>13, FeatureFacts

\* n windows cut the time between two moments without gap; only the last may be shorter.
Tiles(w, n, from, to) ==
    /\ \A k \in 1..n : /\ w[k].start = from + (k - 1) * Window /\ w[k].start \in Nat
                       /\ w[k].end \in Nat /\ w[k].start < w[k].end
                       /\ w[k].end <= w[k].start + Window
    /\ \A k \in 1..(n - 1) : w[k].end = w[k + 1].start
    /\ w[1].start = from /\ w[n].end = to

\* The number of windows is the length over the length of one, rounded up.
LEMMA RoundedUp ==
    ASSUME NEW x \in Nat, NEW W \in Nat \ {0}
    PROVE  /\ (x + W - 1) \div W \in Nat
           /\ x <= ((x + W - 1) \div W) * W
           /\ ((x + W - 1) \div W) * W < x + W
           /\ \A k \in Nat : k * W < x /\ x <= (k + 1) * W => (x + W - 1) \div W = k + 1
  OBVIOUS

\* The windows follow each other without gap or overlap, from the start to the end, and
\* none is longer than the Window.
LEMMA BoundariesTile ==
    ASSUME NEW from \in Nat, NEW to \in Nat, from < to
    PROVE  \E n \in Nat \ {0} : /\ DOMAIN Boundaries(from, to) = 1..n
                                /\ Tiles(Boundaries(from, to), n, from, to)
  <1>1. PICK W \in Nat \ {0} : W = Window
      BY SegmentsAssumption DEF SegmentsAssumption
  <1>2. PICK x \in Nat \ {0} : x = to - from
      OBVIOUS
  <1>3. PICK n \in Nat : n = (x + W - 1) \div W
      BY RoundedUp
  <1>4. x <= n * W /\ n * W < x + W
      BY <1>3, RoundedUp
  <1>5. n # 0
    <2>1. n = 0 => n * W = 0
        OBVIOUS
    <2>2. QED BY <1>4, <2>1
  <1>6. PICK w : w = Boundaries(from, to)
      OBVIOUS
  <1>7. /\ DOMAIN w = 1..n
        /\ \A k \in 1..n : /\ w[k].start = from + (k - 1) * W
                           /\ w[k].end = IF from + k * W <= to THEN from + k * W ELSE to
      BY <1>1, <1>2, <1>3, <1>6 DEF Boundaries
  <1>8. \A k \in Nat : k * W \in Nat /\ (k + 1) * W = k * W + W
      OBVIOUS
  <1>9. \A k \in 1..n : (k - 1) \in Nat /\ (k - 1) * W \in Nat /\ k * W = (k - 1) * W + W
    <2>1. TAKE k \in 1..n
    <2>2. k - 1 \in Nat /\ (k - 1) + 1 = k
        OBVIOUS
    <2>3. QED BY <1>8, <2>2
  <1>10. \A k \in 1..n : (k - 1) * W < x
    <2>1. TAKE k \in 1..n
    <2>2. k * W <= n * W
        BY TimesKeeps
    <2>3. k * W = (k - 1) * W + W /\ (k - 1) * W \in Nat /\ n * W \in Nat
        BY <1>8, <1>9
    <2>4. QED BY <1>4, <2>2, <2>3
  <1>11. \A k \in 1..(n - 1) : from + k * W <= to
    <2>1. TAKE k \in 1..(n - 1)
    <2>2. k + 1 \in 1..n /\ (k + 1) - 1 = k
        OBVIOUS
    <2>3. k * W < x /\ k * W \in Nat
        BY <1>8, <1>10, <2>2
    <2>4. QED BY <1>2, <2>3
  <1>12. \A k \in 1..n : /\ w[k].start \in Nat /\ w[k].end \in Nat /\ w[k].start < w[k].end
                         /\ w[k].end <= w[k].start + W
    <2>1. TAKE k \in 1..n
    <2>2. PICK b \in Nat, c \in Nat : b = (k - 1) * W /\ c = k * W /\ c = b + W /\ b < x
        BY <1>8, <1>9, <1>10
    <2>3. w[k].start = from + b /\ w[k].end = IF from + c <= to THEN from + c ELSE to
        BY <1>7, <2>2
    <2>4. QED BY <1>2, <2>2, <2>3
  <1>13. \A k \in 1..(n - 1) : w[k].end = w[k + 1].start
    <2>1. TAKE k \in 1..(n - 1)
    <2>2. k \in 1..n /\ k + 1 \in 1..n /\ (k + 1) - 1 = k
        OBVIOUS
    <2>3. w[k + 1].start = from + k * W
        BY <1>7, <2>2
    <2>4. w[k].end = from + k * W
        BY <1>7, <1>11, <2>2
    <2>5. QED BY <2>3, <2>4
  <1>14. w[1].start = from
    <2>1. 1 \in 1..n /\ (1 - 1) * W = 0
        BY <1>5
    <2>2. QED BY <1>7, <2>1
  <1>15. w[n].end = to
    <2>1. n \in 1..n /\ n * W \in Nat
        BY <1>5
    <2>2. from + n * W >= to
        BY <1>2, <1>4, <2>1
    <2>3. w[n].end = IF from + n * W <= to THEN from + n * W ELSE to
        BY <1>7, <2>1
    <2>4. QED BY <2>1, <2>2, <2>3
  <1>16. \A k \in 1..n : w[k].start = from + (k - 1) * Window
      BY <1>1, <1>7
  <1>17. \A k \in 1..n : w[k].end <= w[k].start + Window
      BY <1>1, <1>12
  <1>18. Tiles(w, n, from, to)
      BY <1>12, <1>13, <1>14, <1>15, <1>16, <1>17 DEF Tiles
  <1>19. QED BY <1>5, <1>6, <1>7, <1>18

\* A window ends before any later one begins.
LEMMA TilesOrdered ==
    ASSUME NEW w, NEW n \in Nat \ {0}, NEW from \in Nat, NEW to \in Nat, Tiles(w, n, from, to),
           NEW a \in 1..n, NEW u \in 1..n
    PROVE  /\ a < u => w[a].end <= w[u].start
           /\ a <= u => w[a].start <= w[u].start /\ w[a].end <= w[u].end /\ w[a].start < w[u].end
           /\ a <= u => (w[u].end - w[a].start + Window - 1) \div Window = u - a + 1
  <1>1. PICK W \in Nat \ {0} : W = Window
      BY SegmentsAssumption DEF SegmentsAssumption
  <1>2. \A k \in 1..n : /\ w[k].start = from + (k - 1) * W /\ w[k].start \in Nat
                        /\ w[k].end \in Nat /\ w[k].start < w[k].end /\ w[k].end <= w[k].start + W
      BY <1>1 DEF Tiles
  <1>3. ASSUME a < u PROVE w[a].end <= w[u].start
    <2>1. a \in Nat /\ u - 1 \in Nat /\ a <= u - 1
        BY <1>3
    <2>2. a * W <= (u - 1) * W
        BY <2>1, TimesKeeps
    <2>3. a - 1 \in Nat /\ a * W = (a - 1) * W + W /\ (a - 1) * W \in Nat /\ (u - 1) * W \in Nat
        BY <2>1
    <2>4. PICK b \in Nat, c \in Nat : b = (a - 1) * W /\ c = (u - 1) * W /\ b + W <= c
        BY <2>2, <2>3
    <2>5. w[a].start = from + b /\ w[u].start = from + c /\ w[a].end <= w[a].start + W /\ w[a].end \in Nat
        BY <1>2, <2>4
    <2>6. QED BY <2>4, <2>5
  <1>4. ASSUME a <= u
        PROVE  w[a].start <= w[u].start /\ w[a].end <= w[u].end /\ w[a].start < w[u].end
    <2>1. CASE a = u
        BY <1>2, <2>1
    <2>2. CASE a < u
        BY <1>2, <1>3, <2>2
    <2>3. QED BY <1>4, <2>1, <2>2
  <1>5. ASSUME a <= u PROVE (w[u].end - w[a].start + Window - 1) \div Window = u - a + 1
    <2>1. PICK d \in Nat : d = u - a
        BY <1>5
    <2>2. PICK x \in Nat : x = w[u].end - w[a].start
        BY <1>2, <1>4, <1>5
    <2>3. (u - 1) * W = (a - 1) * W + d * W /\ d * W \in Nat /\ (a - 1) * W \in Nat /\ (u - 1) * W \in Nat
      <3>1. a - 1 \in Nat /\ u - 1 = (a - 1) + d
          BY <2>1
      <3>2. \A b, c \in Nat : (b + c) * W = b * W + c * W /\ b * W \in Nat /\ c * W \in Nat /\ (b + c) * W \in Nat
          OBVIOUS
      <3>3. QED BY <3>1, <3>2
    <2>4. d * W < x /\ x <= d * W + W
        BY <1>2, <2>2, <2>3
    <2>5. (d + 1) * W = d * W + W
        OBVIOUS
    <2>6. (x + W - 1) \div W = d + 1
      <3>1. x <= (d + 1) * W
          BY <2>4, <2>5
      <3>2. \A k \in Nat : k * W < x /\ x <= (k + 1) * W => (x + W - 1) \div W = k + 1
          BY RoundedUp
      <3>3. QED BY <2>4, <3>1, <3>2, Zenon
    <2>7. QED BY <1>1, <2>1, <2>2, <2>6
  <1>6. QED BY <1>3, <1>4, <1>5

\* Every moment falls into a window.
LEMMA WindowOf ==
    ASSUME NEW w, NEW n \in Nat \ {0}, NEW from \in Nat, NEW to \in Nat, Tiles(w, n, from, to),
           NEW a \in 1..n, NEW u \in 1..n, a <= u,
           NEW t \in Nat, w[a].start <= t, t < w[u].end
    PROVE  \E k \in a..u : w[k].start <= t /\ t < w[k].end
  <1>1. PICK S : S = {k \in a..u : t < w[k].end}
      OBVIOUS
  <1>2. u \in S /\ S \in SUBSET Nat
      BY <1>1
  <1>3. PICK k \in S : \A j \in S : k <= j
      BY <1>2, LeastNatural
  <1>4. k \in a..u /\ t < w[k].end
      BY <1>1
  <1>5. CASE k = a
      BY <1>4, <1>5
  <1>6. CASE k # a
    <2>1. k - 1 \in a..u /\ k - 1 \in 1..(n - 1) /\ k - 1 \notin S /\ (k - 1) + 1 = k
        BY <1>2, <1>3, <1>4, <1>6
    <2>2. ~(t < w[k - 1].end) /\ w[k - 1].end = w[k].start
        BY <1>1, <2>1 DEF Tiles
    <2>3. w[k].start \in Nat
        BY <1>4 DEF Tiles
    <2>4. QED BY <1>4, <2>2, <2>3
  <1>7. QED BY <1>5, <1>6

-----------------------------------------------------------------------------
(* What falls into a window.                                               *)

\* The poses of the time from x to y, and the motions and the features that touch it.
Seen(x, y) == {p \in poses : x <= Time(p.frame) /\ Time(p.frame) < y}

Moved(x, y) == {pq \in Moves : Time(pq[1].frame) < y /\ Time(pq[2].frame) >= x}

Speeds(x, y) == {f \in CentroidVelocities : f.start < y /\ f.end >= x}

Inside(x, y) == {f \in Features : f.start < y /\ f.end >= x}

\* There are finitely many.
LEMMA SeenAndMovedFinite ==
    ASSUME IInv, NEW x, NEW y
    PROVE  IsFiniteSet(Seen(x, y)) /\ IsFiniteSet(Moved(x, y))
  <1>1. IsFiniteSet(poses \X poses)
      BY FS_Product DEF IInv
  <1>2. Seen(x, y) \in SUBSET poses /\ Moved(x, y) \in SUBSET (poses \X poses)
      BY DEF Seen, Moved, Moves
  <1>3. QED BY <1>1, <1>2, FS_Subset DEF IInv

\* Each motion has its feature.
LEMMA SpeedsOfMoves ==
    ASSUME IInv, NEW x \in Nat, NEW y \in Nat
    PROVE  /\ IsFiniteSet(Speeds(x, y))
           /\ Cardinality(Speeds(x, y)) = Cardinality(Moved(x, y))
           /\ \A f \in Speeds(x, y) : f.value \in Fractions
  <1>1. PICK A : A = Moved(x, y)
      OBVIOUS
  <1>2. PICK B : B = Speeds(x, y)
      OBVIOUS
  <1>3. PICK g : g = [pq \in A |-> VelocityOf(pq)]
      OBVIOUS
  <1>4. \A pq \in A : pq \in Moves
      BY <1>1 DEF Moved
  <1>5. \A pq \in Moves : VelocityOf(pq) \in B <=> pq \in A
    <2>1. TAKE pq \in Moves
    <2>2. VelocityOf(pq) \in CentroidVelocities
        BY VelocitiesOfPairs
    <2>3. VelocityOf(pq).start = Time(pq[1].frame) /\ VelocityOf(pq).end = Time(pq[2].frame)
        BY DEF VelocityOf
    <2>4. QED BY <1>1, <1>2, <2>2, <2>3 DEF Moved, Speeds
  <1>6. \A f \in B : \E pq \in A : f = VelocityOf(pq)
    <2>1. TAKE f \in B
    <2>2. PICK pq \in Moves : f = VelocityOf(pq)
        BY <1>2, VelocitiesOfPairs DEF Speeds
    <2>3. QED BY <1>5, <2>2
  <1>7. g \in Surjection(A, B)
    <2>1. g \in [A -> B] /\ \A pq \in A : g[pq] = VelocityOf(pq)
        BY <1>3, <1>4, <1>5
    <2>2. \A f \in B : \E pq \in A : g[pq] = f
        BY <1>6, <2>1
    <2>3. QED BY <2>1, <2>2 DEF Surjection
  <1>8. \A pq, rs \in A : VelocityOf(pq) = VelocityOf(rs) => pq = rs
    <2>1. TAKE pq, rs \in A
    <2>2. HAVE VelocityOf(pq) = VelocityOf(rs)
    <2>3. /\ pq[1].track = rs[1].track
          /\ Time(pq[1].frame) = Time(rs[1].frame) /\ Time(pq[2].frame) = Time(rs[2].frame)
        BY <2>2 DEF VelocityOf
    <2>4. /\ pq[1] \in poses /\ pq[2] \in poses /\ pq = <<pq[1], pq[2]>> /\ pq[1].track = pq[2].track
          /\ rs[1] \in poses /\ rs[2] \in poses /\ rs = <<rs[1], rs[2]>> /\ rs[1].track = rs[2].track
        BY <1>4, MoveFacts
    <2>5. /\ pq[1].frame \in Nat /\ pq[2].frame \in Nat /\ rs[1].frame \in Nat /\ rs[2].frame \in Nat
        BY <2>4, PoseFacts
    <2>6. pq[1].frame = rs[1].frame /\ pq[2].frame = rs[2].frame
        BY <2>3, <2>5, Times
    <2>7. pq[1] = rs[1] /\ pq[2] = rs[2]
      <3>1. \A p, q \in poses : p.frame = q.frame /\ p.track = q.track => p = q
          BY DEF IInv, OnePerFrame
      <3>2. pq[2].track = rs[2].track
          BY <2>3, <2>4
      <3>3. QED BY <2>3, <2>4, <2>6, <3>1, <3>2
    <2>8. QED BY <2>4, <2>7
  <1>9. g \in Injection(A, B)
    <2>1. g \in [A -> B] /\ \A pq \in A : g[pq] = VelocityOf(pq)
        BY <1>3, <1>4, <1>5
    <2>2. QED BY <1>8, <2>1 DEF Injection, IsInjective
  <1>10. IsFiniteSet(A)
      BY <1>1, SeenAndMovedFinite
  <1>11. IsFiniteSet(B) /\ Cardinality(B) = Cardinality(A)
      BY <1>7, <1>9, <1>10, FS_Surjection
  <1>12. \A f \in B : f.value \in Fractions
    <2>1. TAKE f \in B
    <2>2. PICK pq \in A : f = VelocityOf(pq)
        BY <1>6
    <2>3. QED BY <1>4, <2>2, MoveFacts
  <1>13. QED BY <1>1, <1>2, <1>11, <1>12

\* Each pose has its two features.
LEMMA PointsOfSeen ==
    ASSUME IInv, NEW x \in Nat, NEW y \in Nat, x < y
    PROVE  /\ IsFiniteSet(Inside(x, y) \cap PointFeatures)
           /\ Cardinality(Inside(x, y) \cap PointFeatures) = 2 * Cardinality(Seen(x, y))
  <1>1. PICK A : A = Seen(x, y) \X PointNames
      OBVIOUS
  <1>2. PICK B : B = Inside(x, y) \cap PointFeatures
      OBVIOUS
  <1>3. PICK g : g = [pn \in A |-> PointOf(pn[1], pn[2])]
      OBVIOUS
  <1>4. \A p \in poses : Time(p.frame) \in Nat
      BY PoseFacts, Times
  <1>5. \A p \in poses, n \in PointNames : PointOf(p, n) \in B <=> p \in Seen(x, y)
    <2>1. TAKE p \in poses, n \in PointNames
    <2>2. PointOf(p, n) \in PointFeatures /\ PointOf(p, n) \in Features
        BY PointsOfPoses DEF Features
    <2>3. PointOf(p, n).start = Time(p.frame) /\ PointOf(p, n).end = Time(p.frame)
        BY DEF PointOf
    <2>4. QED BY <1>2, <1>4, <2>2, <2>3 DEF Seen, Inside
  <1>6. \A pn \in A : /\ pn[1] \in Seen(x, y) /\ pn[1] \in poses /\ pn[2] \in PointNames
                      /\ pn = <<pn[1], pn[2]>> /\ g[pn] = PointOf(pn[1], pn[2])
      BY <1>1, <1>3 DEF Seen
  <1>7. g \in [A -> B]
      BY <1>3, <1>5, <1>6
  <1>8. g \in Surjection(A, B)
    <2>1. ASSUME NEW f \in B PROVE \E pn \in A : g[pn] = f
      <3>1. PICK p \in poses, n \in PointNames : f = PointOf(p, n)
          BY <1>2, PointsOfPoses
      <3>2. p \in Seen(x, y)
          BY <1>5, <3>1
      <3>3. <<p, n>> \in A /\ g[<<p, n>>] = PointOf(p, n)
          BY <1>1, <1>3, <3>2
      <3>4. QED BY <3>1, <3>3
    <2>2. QED BY <1>7, <2>1 DEF Surjection
  <1>9. \A pn, qm \in A : g[pn] = g[qm] => pn = qm
    <2>1. TAKE pn, qm \in A
    <2>2. HAVE g[pn] = g[qm]
    <2>3. PointOf(pn[1], pn[2]) = PointOf(qm[1], qm[2])
        BY <1>6, <2>2
    <2>4. pn[1].track = qm[1].track /\ pn[2] = qm[2] /\ Time(pn[1].frame) = Time(qm[1].frame)
        BY <2>3 DEF PointOf
    <2>5. pn[1].frame \in Nat /\ qm[1].frame \in Nat
        BY <1>6, PoseFacts
    <2>6. pn[1].frame = qm[1].frame
        BY <2>4, <2>5, Times
    <2>7. pn[1] = qm[1]
        BY <1>6, <2>4, <2>6 DEF IInv, OnePerFrame
    <2>8. QED BY <1>6, <2>4, <2>7
  <1>10. g \in Injection(A, B)
      BY <1>7, <1>9 DEF Injection, IsInjective
  <1>11. IsFiniteSet(PointNames) /\ Cardinality(PointNames) = 2
    <2>1. IsFiniteSet({"bbox_area"}) /\ Cardinality({"bbox_area"}) = 1
        BY FS_Singleton
    <2>2. "keypoint_visibility_count" \notin {"bbox_area"}
        OBVIOUS
    <2>3. PointNames = {"bbox_area"} \cup {"keypoint_visibility_count"}
        BY DEF PointNames
    <2>4. QED BY <2>1, <2>2, <2>3, FS_AddElement
  <1>12. IsFiniteSet(A) /\ Cardinality(A) = Cardinality(Seen(x, y)) * 2
      BY <1>1, <1>11, SeenAndMovedFinite, FS_Product
  <1>13. IsFiniteSet(B) /\ Cardinality(B) = Cardinality(A)
      BY <1>8, <1>10, <1>12, FS_Surjection
  <1>14. Cardinality(Seen(x, y)) \in Nat
      BY SeenAndMovedFinite, FS_CardinalityType
  <1>15. QED BY <1>2, <1>12, <1>13, <1>14

\* A window counts two features for each pose in it and one for each motion that touches it.
LEMMA InsideCounts ==
    ASSUME IInv, NEW x \in Nat, NEW y \in Nat, x < y
    PROVE  /\ IsFiniteSet(Inside(x, y))
           /\ {f \in Inside(x, y) : f.name = "centroid_velocity"} = Speeds(x, y)
           /\ Cardinality(Inside(x, y)) = 2 * Cardinality(Seen(x, y)) + Cardinality(Moved(x, y))
  <1>1. PICK A : A = Inside(x, y) \cap PointFeatures
      OBVIOUS
  <1>2. PICK B : B = Speeds(x, y)
      OBVIOUS
  <1>3. \A f \in PointFeatures : f.name # "centroid_velocity"
    <2>1. TAKE f \in PointFeatures
    <2>2. PICK p \in poses, n \in PointNames : f = PointOf(p, n)
        BY PointsOfPoses
    <2>3. f.name = n
        BY <2>2 DEF PointOf
    <2>4. QED BY <2>3 DEF PointNames
  <1>4. \A f \in CentroidVelocities : f.name = "centroid_velocity"
      BY VelocitiesOfPairs DEF VelocityOf
  <1>5. Inside(x, y) = A \cup B /\ A \cap B = {}
      BY <1>1, <1>2, <1>3, <1>4 DEF Inside, Speeds, Features
  <1>6. {f \in Inside(x, y) : f.name = "centroid_velocity"} = B
      BY <1>1, <1>2, <1>3, <1>4, <1>5 DEF Speeds
  <1>7. /\ IsFiniteSet(A) /\ Cardinality(A) = 2 * Cardinality(Seen(x, y))
        /\ IsFiniteSet(B) /\ Cardinality(B) = Cardinality(Moved(x, y))
      BY <1>1, <1>2, PointsOfSeen, SpeedsOfMoves
  <1>8. /\ IsFiniteSet(A \cup B)
        /\ Cardinality(A \cup B) = Cardinality(A) + Cardinality(B) - Cardinality(A \cap B)
      BY <1>7, FS_Union
  <1>9. Cardinality(A \cap B) = 0
      BY <1>5, FS_EmptySet
  <1>10. Cardinality(A) \in Nat /\ Cardinality(B) \in Nat
      BY <1>7, FS_CardinalityType
  <1>11. Cardinality(Inside(x, y)) = Cardinality(A) + Cardinality(B)
      BY <1>5, <1>8, <1>9, <1>10
  <1>12. QED BY <1>2, <1>5, <1>6, <1>7, <1>8, <1>11

\* The time from x to z holds the poses of both its parts, and is touched by the motions of both.
LEMMA Parts ==
    ASSUME IInv, NEW x \in Nat, NEW y \in Nat, NEW z \in Nat, x < y, y < z
    PROVE  /\ Cardinality(Seen(x, z)) = Cardinality(Seen(x, y)) + Cardinality(Seen(y, z))
           /\ Cardinality(Moved(x, y)) <= Cardinality(Moved(x, z))
           /\ Cardinality(Moved(y, z)) <= Cardinality(Moved(x, z))
           /\ Cardinality(Moved(x, z)) <= Cardinality(Moved(x, y)) + Cardinality(Moved(y, z))
  <1>1. \A p \in poses : Time(p.frame) \in Nat
      BY PoseFacts, Times
  <1>2. Seen(x, z) = Seen(x, y) \cup Seen(y, z) /\ Seen(x, y) \cap Seen(y, z) = {}
      BY <1>1 DEF Seen
  <1>3. \A pq \in Moves : /\ Time(pq[1].frame) \in Nat /\ Time(pq[2].frame) \in Nat
                          /\ Time(pq[1].frame) < Time(pq[2].frame)
      BY <1>1, MoveFacts
  <1>4. Moved(x, z) = Moved(x, y) \cup Moved(y, z)
    <2>1. ASSUME NEW pq \in Moves
          PROVE  pq \in Moved(x, z) <=> pq \in Moved(x, y) \/ pq \in Moved(y, z)
      <3>1. PICK s \in Nat, e \in Nat : s = Time(pq[1].frame) /\ e = Time(pq[2].frame) /\ s < e
          BY <1>3
      <3>2. s < z /\ e >= x <=> (s < y /\ e >= x) \/ (s < z /\ e >= y)
          BY <3>1
      <3>3. QED BY <3>1, <3>2 DEF Moved
    <2>2. \A a, b : \A pq \in Moved(a, b) : pq \in Moves
        BY DEF Moved
    <2>3. QED BY <2>1, <2>2
  <1>5. \A a, b : IsFiniteSet(Seen(a, b)) /\ IsFiniteSet(Moved(a, b))
      BY SeenAndMovedFinite
  <1>6. \A a, b : Cardinality(Seen(a, b)) \in Nat /\ Cardinality(Moved(a, b)) \in Nat
      BY <1>5, FS_CardinalityType
  <1>7. Cardinality(Seen(x, z)) = Cardinality(Seen(x, y)) + Cardinality(Seen(y, z))
    <2>1. Cardinality(Seen(x, y) \cap Seen(y, z)) = 0
        BY <1>2, FS_EmptySet
    <2>2. Cardinality(Seen(x, z)) =
             Cardinality(Seen(x, y)) + Cardinality(Seen(y, z)) - Cardinality(Seen(x, y) \cap Seen(y, z))
        BY <1>2, <1>5, FS_Union
    <2>3. QED BY <1>6, <2>1, <2>2
  <1>8. Cardinality(Moved(x, z)) <= Cardinality(Moved(x, y)) + Cardinality(Moved(y, z))
    <2>1. PICK C : C = Moved(x, y) \cap Moved(y, z)
        OBVIOUS
    <2>2. Cardinality(C) \in Nat
        BY <1>5, <2>1, FS_Intersection, FS_CardinalityType
    <2>3. Cardinality(Moved(x, z)) = Cardinality(Moved(x, y)) + Cardinality(Moved(y, z)) - Cardinality(C)
        BY <1>4, <1>5, <2>1, FS_Union
    <2>4. QED BY <1>6, <2>2, <2>3
  <1>9. /\ Cardinality(Moved(x, y)) <= Cardinality(Moved(x, z))
        /\ Cardinality(Moved(y, z)) <= Cardinality(Moved(x, z))
    <2>1. Moved(x, y) \in SUBSET Moved(x, z) /\ Moved(y, z) \in SUBSET Moved(x, z)
        BY <1>4
    <2>2. QED BY <1>5, <2>1, FS_Subset
  <1>10. QED BY <1>7, <1>8, <1>9

-----------------------------------------------------------------------------
(* The segments.                                                           *)

RawSegments == [k \in DOMAIN Windows(Features) |-> ClassifyWindow(Windows(Features)[k], Features)]

\* What BasicSegmenter has before it merges: a segment for each of n windows.
Classified(raw, n) ==
    /\ raw \in Seq(SegmentRecords) /\ Len(raw) = n
    /\ Tiles(raw, n, Earliest(Features), Latest(Features) + 1)
    /\ \A k \in 1..n :
          /\ raw[k].count = 2 * Cardinality(Seen(raw[k].start, raw[k].end))
                            + Cardinality(Moved(raw[k].start, raw[k].end))
          /\ raw[k].label = Label(raw[k].count, Speeds(raw[k].start, raw[k].end))

\* _label gives one of the four labels.
LEMMA LabelTyped == \A count, velocities : Label(count, velocities) \in Labels
  BY DEF Label, Labels

\* The earliest and the latest moment are natural numbers.
LEMMA ExtremesTyped ==
    ASSUME IInv, poses # {}
    PROVE  Earliest(Features) \in Nat /\ Latest(Features) \in Nat /\ Earliest(Features) <= Latest(Features)
  <1>1. \A p \in poses : Time(p.frame) \in Nat
      BY PoseFacts, Times
  <1>2. QED BY <1>1, Extremes

\* Before they are merged, the segments are the windows, counted and labelled.
LEMMA RawClassified ==
    ASSUME IInv, poses # {}
    PROVE  \E n \in Nat \ {0} : Classified(RawSegments, n)
  <1>1. PICK from \in Nat : from = Earliest(Features)
      BY ExtremesTyped
  <1>2. PICK to \in Nat : to = Latest(Features) + 1 /\ from < to
      BY <1>1, ExtremesTyped
  <1>3. PICK w : w = Windows(Features)
      OBVIOUS
  <1>4. PICK n \in Nat \ {0} : DOMAIN w = 1..n /\ Tiles(w, n, from, to)
      BY <1>1, <1>2, <1>3, BoundariesTile DEF Windows
  <1>5. PICK raw : raw = RawSegments
      OBVIOUS
  <1>6. raw = [k \in 1..n |-> ClassifyWindow(w[k], Features)]
      BY <1>3, <1>4, <1>5 DEF RawSegments
  <1>7. ASSUME NEW k \in 1..n
        PROVE  /\ raw[k].start = w[k].start /\ raw[k].end = w[k].end
               /\ raw[k].count = 2 * Cardinality(Seen(w[k].start, w[k].end))
                                 + Cardinality(Moved(w[k].start, w[k].end))
               /\ raw[k].label = Label(raw[k].count, Speeds(w[k].start, w[k].end))
               /\ raw[k] \in SegmentRecords
    <2>1. PICK x \in Nat, y \in Nat : x = w[k].start /\ y = w[k].end /\ x < y
        BY <1>4 DEF Tiles
    <2>2. {f \in Features : Overlaps(f, w[k])} = Inside(x, y)
        BY <2>1 DEF Overlaps, Inside
    <2>3. ClassifyWindow(w[k], Features) =
            [start |-> x, end |-> y, count |-> Cardinality(Inside(x, y)),
             label |-> Label(Cardinality(Inside(x, y)), {f \in Inside(x, y) : f.name = "centroid_velocity"})]
        BY <2>1, <2>2 DEF ClassifyWindow
    <2>4. {f \in Inside(x, y) : f.name = "centroid_velocity"} = Speeds(x, y)
        BY <2>1, InsideCounts
    <2>5. PICK c : c = Cardinality(Inside(x, y))
        OBVIOUS
    <2>6. c \in Nat /\ c = 2 * Cardinality(Seen(x, y)) + Cardinality(Moved(x, y))
        BY <2>1, <2>5, InsideCounts, FS_CardinalityType
    <2>7. raw[k] = [start |-> x, end |-> y, count |-> c, label |-> Label(c, Speeds(x, y))]
        BY <1>6, <2>3, <2>4, <2>5
    <2>8. Label(c, Speeds(x, y)) \in Labels
        BY LabelTyped
    <2>9. raw[k] \in SegmentRecords
        BY <2>6, <2>7, <2>8 DEF SegmentRecords
    <2>10. QED BY <2>1, <2>6, <2>7, <2>9
  <1>8. raw \in Seq(SegmentRecords) /\ Len(raw) = n
    <2>1. raw \in [1..n -> SegmentRecords]
        BY <1>6, <1>7
    <2>2. QED BY <2>1
  <1>9. Tiles(raw, n, from, to)
    <2>1. \A k \in 1..(n - 1) : k \in 1..n /\ k + 1 \in 1..n
        OBVIOUS
    <2>2. 1 \in 1..n /\ n \in 1..n
        OBVIOUS
    <2>3. \A k \in 1..n : raw[k].start = w[k].start /\ raw[k].end = w[k].end
        BY <1>7
    <2>4. \A k \in 1..(n - 1) : raw[k].end = raw[k + 1].start
        BY <1>4, <2>1, <2>3 DEF Tiles
    <2>5. raw[1].start = from /\ raw[n].end = to
        BY <1>4, <2>2, <2>3 DEF Tiles
    <2>6. \A k \in 1..n : /\ raw[k].start = from + (k - 1) * Window /\ raw[k].start \in Nat
                          /\ raw[k].end \in Nat /\ raw[k].start < raw[k].end
                          /\ raw[k].end <= raw[k].start + Window
        BY <1>4, <2>3 DEF Tiles
    <2>7. QED BY <2>4, <2>5, <2>6 DEF Tiles
  <1>10. \A k \in 1..n :
            /\ raw[k].count = 2 * Cardinality(Seen(raw[k].start, raw[k].end))
                              + Cardinality(Moved(raw[k].start, raw[k].end))
            /\ raw[k].label = Label(raw[k].count, Speeds(raw[k].start, raw[k].end))
      BY <1>7
  <1>11. QED BY <1>1, <1>2, <1>5, <1>8, <1>9, <1>10 DEF Classified

\* A segment that stands for the windows from a to u: it lasts as they do and has their label,
\* and what it counts is between what they hold and what each of them may.
StandsFor(raw, s, a, u) ==
    /\ a <= u
    /\ s.start = raw[a].start /\ s.end = raw[u].end
    /\ \A k \in a..u : raw[k].label = s.label
    /\ s.count >= 2 * Cardinality(Seen(s.start, s.end)) + Cardinality(Moved(s.start, s.end))
    /\ s.count <= 2 * Cardinality(Seen(s.start, s.end)) + (u - a + 1) * Cardinality(Moved(s.start, s.end))

Standing(raw, n) ==
    {t \in SegmentRecords \X (1..n) \X (1..n) : StandsFor(raw, t[1], t[2], t[3])}

\* A window stands for itself, and taking in the next keeps what a segment stands for.
LEMMA WindowsAccumulate ==
    ASSUME IInv, poses # {}, NEW raw, NEW n \in Nat \ {0}, Classified(raw, n)
    PROVE  Accumulates(Standing(raw, n), raw)
  <1>1. /\ raw \in Seq(SegmentRecords) /\ Len(raw) = n
        /\ \A k \in 1..n : raw[k] \in SegmentRecords
      BY DEF Classified
  <1>2. PICK from \in Nat, to \in Nat : from = Earliest(Features) /\ to = Latest(Features) + 1
      BY ExtremesTyped
  <1>3. Tiles(raw, n, from, to)
      BY <1>2 DEF Classified
  <1>4. \A k \in 1..n : raw[k].count = 2 * Cardinality(Seen(raw[k].start, raw[k].end))
                                       + Cardinality(Moved(raw[k].start, raw[k].end))
      BY DEF Classified
  <1>5. \A x, y : Cardinality(Seen(x, y)) \in Nat /\ Cardinality(Moved(x, y)) \in Nat
      BY SeenAndMovedFinite, FS_CardinalityType
  <1>6. ASSUME NEW k \in 1..n PROVE <<raw[k], k, k>> \in Standing(raw, n)
    <2>1. PICK A \in Nat, B \in Nat : /\ A = Cardinality(Seen(raw[k].start, raw[k].end))
                                      /\ B = Cardinality(Moved(raw[k].start, raw[k].end))
        BY <1>5
    <2>2. raw[k].count = 2 * A + B /\ (k - k + 1) * B = B
        BY <1>4, <2>1
    <2>3. raw[k].count >= 2 * A + B /\ raw[k].count <= 2 * A + (k - k + 1) * B
        BY <2>2
    <2>4. \A j \in k..k : j = k
        OBVIOUS
    <2>5. StandsFor(raw, raw[k], k, k)
        BY <2>1, <2>3, <2>4 DEF StandsFor
    <2>6. QED BY <1>1, <2>5 DEF Standing
  <1>7. ASSUME NEW s \in SegmentRecords, NEW a \in 1..n, NEW u \in 1..(n - 1),
               StandsFor(raw, s, a, u), s.label = raw[u + 1].label
        PROVE  /\ Extended(s, raw[u + 1]) \in SegmentRecords
               /\ StandsFor(raw, Extended(s, raw[u + 1]), a, u + 1)
    <2>1. u \in 1..n /\ u + 1 \in 1..n
        OBVIOUS
    <2>2. a <= u /\ s.start = raw[a].start /\ s.end = raw[u].end
        BY <1>7 DEF StandsFor
    <2>3. PICK x \in Nat, y \in Nat, z \in Nat : x = s.start /\ y = s.end /\ z = raw[u + 1].end
        BY <1>1, <2>1 DEF SegmentRecords
    <2>4. raw[u + 1].start = y /\ x < y /\ y < z
      <3>1. raw[u + 1].start = y
          BY <1>3, <2>2, <2>3 DEF Tiles
      <3>2. x < y
          BY <1>2, <1>3, <2>1, <2>2, <2>3, TilesOrdered
      <3>3. raw[u + 1].start < raw[u + 1].end
          BY <1>3, <2>1 DEF Tiles
      <3>4. QED BY <2>3, <3>1, <3>2, <3>3
    <2>5. PICK A \in Nat, B \in Nat, C \in Nat :
              A = Cardinality(Seen(x, y)) /\ B = Cardinality(Seen(y, z)) /\ C = Cardinality(Seen(x, z))
        BY <1>5
    <2>6. PICK K \in Nat, L \in Nat, M \in Nat :
              K = Cardinality(Moved(x, y)) /\ L = Cardinality(Moved(y, z)) /\ M = Cardinality(Moved(x, z))
        BY <1>5
    <2>7. C = A + B /\ K <= M /\ L <= M /\ M <= K + L
        BY <2>4, <2>5, <2>6, Parts
    <2>8. PICK d \in Nat : d = u - a + 1
        BY <2>2
    <2>9. PICK b \in Nat, c \in Nat : b = s.count /\ c = raw[u + 1].count
        BY <1>1, <2>1 DEF SegmentRecords
    <2>10. b >= 2 * A + K /\ b <= 2 * A + d * K
        BY <1>7, <2>3, <2>5, <2>6, <2>8, <2>9 DEF StandsFor
    <2>11. c = 2 * B + L
        BY <1>4, <2>1, <2>3, <2>4, <2>5, <2>6, <2>9
    <2>12. d * K <= d * M /\ d * M \in Nat /\ d * K \in Nat /\ (d + 1) * M = d * M + M
      <3>1. K * d <= M * d
          BY <2>7, TimesKeeps
      <3>2. QED BY <3>1
    <2>13. b + c >= 2 * C + M /\ b + c <= 2 * C + (d + 1) * M
        BY <2>7, <2>10, <2>11, <2>12
    <2>14. PICK e : e = Extended(s, raw[u + 1])
        OBVIOUS
    <2>15. e = [s EXCEPT !.end = z, !.count = b + c]
        BY <2>3, <2>9, <2>14 DEF Extended
    <2>16. e \in SegmentRecords
      <3>1. PICK f \in Nat : f = b + c
          OBVIOUS
      <3>2. e = [s EXCEPT !.end = z, !.count = f]
          BY <2>15, <3>1
      <3>3. QED BY <3>2 DEF SegmentRecords
    <2>17. e.start = x /\ e.end = z /\ e.count = b + c /\ e.label = s.label
        BY <2>3, <2>15 DEF SegmentRecords
    <2>18. \A k \in a..(u + 1) : raw[k].label = e.label
      <3>1. \A k \in a..(u + 1) : k \in a..u \/ k = u + 1
          OBVIOUS
      <3>2. QED BY <1>7, <2>17, <3>1 DEF StandsFor
    <2>19. (u + 1) - a + 1 = d + 1 /\ a <= u + 1
        BY <2>2, <2>8
    <2>20. StandsFor(raw, e, a, u + 1)
        BY <2>2, <2>3, <2>5, <2>6, <2>13, <2>17, <2>18, <2>19 DEF StandsFor
    <2>21. QED BY <2>14, <2>16, <2>20
  <1>8. \A s \in SegmentRecords, a \in 1..n, u \in 1..(n - 1) :
            <<s, a, u>> \in Standing(raw, n) /\ s.label = raw[u + 1].label
                => <<Extended(s, raw[u + 1]), a, u + 1>> \in Standing(raw, n)
    <2>1. TAKE s \in SegmentRecords, a \in 1..n, u \in 1..(n - 1)
    <2>2. HAVE <<s, a, u>> \in Standing(raw, n) /\ s.label = raw[u + 1].label
    <2>3. StandsFor(raw, s, a, u)
        BY <2>2 DEF Standing
    <2>4. /\ Extended(s, raw[u + 1]) \in SegmentRecords
          /\ StandsFor(raw, Extended(s, raw[u + 1]), a, u + 1)
        BY <1>7, <2>2, <2>3
    <2>5. u + 1 \in 1..n
        OBVIOUS
    <2>6. QED BY <2>4, <2>5 DEF Standing
  <1>9. QED BY <1>1, <1>6, <1>8 DEF Accumulates

\* So each segment stands for a run of windows, and together they stand for all.
LEMMA SegmentsStand ==
    ASSUME IInv, poses # {}
    PROVE  \E n \in Nat \ {0} : /\ Classified(RawSegments, n)
                                /\ Segments \in Seq(SegmentRecords)
                                /\ \E cut : Cuts(cut, Segments, n, Standing(RawSegments, n))
  <1>1. Features # {}
      BY FeatureFacts
  <1>2. Segments = MergeAdjacent(RawSegments)
      BY <1>1, Zenon DEF Segments, RawSegments
  <1>3. PICK n \in Nat \ {0} : Classified(RawSegments, n)
      BY RawClassified
  <1>4. RawSegments \in Seq(SegmentRecords) /\ Len(RawSegments) = n
      BY <1>3 DEF Classified
  <1>5. Accumulates(Standing(RawSegments, n), RawSegments)
      BY <1>3, WindowsAccumulate
  <1>6. /\ MergeAdjacent(RawSegments) \in Seq(SegmentRecords)
        /\ \E cut : Cuts(cut, MergeAdjacent(RawSegments), Len(RawSegments), Standing(RawSegments, n))
      BY <1>4, <1>5, MergeAdjacentFacts
  <1>7. QED BY <1>2, <1>3, <1>4, <1>6

\* What is known of the segments: their windows, and where they are cut.
Segmented(raw, n, cut) ==
    /\ n \in Nat \ {0}
    /\ Classified(raw, n)
    /\ Segments \in Seq(SegmentRecords)
    /\ Cuts(cut, Segments, n, Standing(raw, n))

\* The segments cut the windows into runs: some places of the windows are their borders.
LEMMA SegmentsCut ==
    ASSUME IInv, poses # {}
    PROVE  \E raw, n, cut : Segmented(raw, n, cut)
  <1>1. PICK n \in Nat \ {0} : /\ Classified(RawSegments, n)
                               /\ Segments \in Seq(SegmentRecords)
                               /\ \E cut : Cuts(cut, Segments, n, Standing(RawSegments, n))
      BY SegmentsStand
  <1>2. PICK cut : Cuts(cut, Segments, n, Standing(RawSegments, n))
      BY <1>1
  <1>3. Segmented(RawSegments, n, cut)
      BY <1>1, <1>2 DEF Segmented
  <1>4. QED BY <1>3

\* No segments without poses.
LEMMA NothingToSegment == ASSUME IInv, poses = {} PROVE Segments = <<>>
  BY FeatureFacts DEF Segments

\* A segment and its windows.
LEMMA SegmentFacts ==
    ASSUME IInv, poses # {}, NEW raw, NEW n, NEW cut, Segmented(raw, n, cut),
           NEW i \in 1..Len(Segments)
    PROVE  /\ cut[i - 1] + 1 \in 1..n /\ cut[i] \in 1..n /\ cut[i - 1] < cut[i]
           /\ StandsFor(raw, Segments[i], cut[i - 1] + 1, cut[i])
           /\ Segments[i] \in SegmentRecords
           /\ Segments[i].start < Segments[i].end
           /\ Earliest(Features) <= Segments[i].start /\ Segments[i].end <= Latest(Features) + 1
  <1>1. PICK N \in Nat : N = Len(Segments)
      BY DEF Segmented
  <1>2. i - 1 \in 0..N /\ i \in 0..N /\ n \in Nat \ {0}
      BY <1>1 DEF Segmented
  <1>3. /\ cut[i - 1] \in 0..n /\ cut[i] \in 0..n /\ cut[i - 1] < cut[i]
        /\ <<Segments[i], cut[i - 1] + 1, cut[i]>> \in Standing(raw, n)
      BY <1>1, <1>2 DEF Segmented, Cuts
  <1>4. PICK a \in 1..n, u \in 1..n : a = cut[i - 1] + 1 /\ u = cut[i] /\ a <= u
      BY <1>2, <1>3
  <1>5. StandsFor(raw, Segments[i], a, u) /\ Segments[i] \in SegmentRecords
      BY <1>3, <1>4 DEF Standing
  <1>6. PICK from \in Nat, to \in Nat : from = Earliest(Features) /\ to = Latest(Features) + 1
      BY ExtremesTyped
  <1>7. Tiles(raw, n, from, to)
      BY <1>6 DEF Segmented, Classified
  <1>8. raw[a].start < raw[u].end
      BY <1>2, <1>4, <1>6, <1>7, TilesOrdered
  <1>9. 1 \in 1..n /\ n \in 1..n /\ 1 <= a /\ u <= n
      BY <1>2, <1>4
  <1>10. raw[1].start <= raw[a].start /\ raw[u].end <= raw[n].end
      BY <1>2, <1>6, <1>7, <1>9, TilesOrdered
  <1>11. raw[1].start = from /\ raw[n].end = to
      BY <1>7 DEF Tiles
  <1>12. Segments[i].start = raw[a].start /\ Segments[i].end = raw[u].end
      BY <1>5 DEF StandsFor
  <1>13. QED BY <1>3, <1>4, <1>5, <1>6, <1>8, <1>10, <1>11, <1>12

\* There is a segment, the first begins with the features, and the last ends behind them.
LEMMA FirstAndLast ==
    ASSUME IInv, poses # {}, NEW raw, NEW n, NEW cut, Segmented(raw, n, cut)
    PROVE  /\ Len(Segments) \in Nat \ {0}
           /\ Segments[1].start = Earliest(Features)
           /\ Segments[Len(Segments)].end = Latest(Features) + 1
  <1>1. PICK N \in Nat : N = Len(Segments)
      BY DEF Segmented
  <1>2. cut[0] = 0 /\ cut[N] = n /\ n \in Nat \ {0}
      BY <1>1 DEF Segmented, Cuts
  <1>3. N # 0
      BY <1>2
  <1>4. 1 \in 1..N /\ N \in 1..N /\ 1 - 1 = 0
      BY <1>3
  <1>5. StandsFor(raw, Segments[1], cut[1 - 1] + 1, cut[1])
      BY <1>1, <1>4, SegmentFacts
  <1>6. StandsFor(raw, Segments[N], cut[N - 1] + 1, cut[N])
      BY <1>1, <1>4, SegmentFacts
  <1>7. Segments[1].start = raw[1].start
    <2>1. cut[1 - 1] + 1 = 1
        BY <1>2, <1>4
    <2>2. QED BY <1>5, <2>1 DEF StandsFor
  <1>8. Segments[N].end = raw[n].end
      BY <1>2, <1>6 DEF StandsFor
  <1>9. raw[1].start = Earliest(Features) /\ raw[n].end = Latest(Features) + 1
      BY DEF Segmented, Classified, Tiles
  <1>10. QED BY <1>1, <1>3, <1>7, <1>8, <1>9

\* Every window is in a segment.
LEMMA SegmentOf ==
    ASSUME IInv, poses # {}, NEW raw, NEW n, NEW cut, Segmented(raw, n, cut), NEW k \in 1..n
    PROVE  \E i \in 1..Len(Segments) : /\ Segments[i].label = raw[k].label
                                       /\ Segments[i].start <= raw[k].start
                                       /\ raw[k].end <= Segments[i].end
  <1>1. PICK N \in Nat : N = Len(Segments)
      BY DEF Segmented
  <1>2. cut[0] = 0 /\ cut[N] = n /\ n \in Nat \ {0} /\ cut \in [0..N -> 0..n]
      BY <1>1 DEF Segmented, Cuts
  <1>3. PICK S : S = {i \in 0..N : k <= cut[i]}
      OBVIOUS
  <1>4. N \in S /\ S \in SUBSET Nat
      BY <1>2, <1>3
  <1>5. PICK i \in S : \A j \in S : i <= j
      BY <1>4, LeastNatural
  <1>6. i \in 1..N /\ k <= cut[i]
      BY <1>2, <1>3, <1>5
  <1>7. i - 1 \in 0..N /\ i - 1 \notin S
      BY <1>5, <1>6
  <1>8. cut[i - 1] < k
    <2>1. cut[i - 1] \in 0..n /\ ~(k <= cut[i - 1])
        BY <1>2, <1>3, <1>7
    <2>2. QED BY <2>1
  <1>9. /\ cut[i - 1] + 1 \in 1..n /\ cut[i] \in 1..n
        /\ StandsFor(raw, Segments[i], cut[i - 1] + 1, cut[i])
      BY <1>1, <1>6, SegmentFacts
  <1>10. PICK a \in 1..n, u \in 1..n : a = cut[i - 1] + 1 /\ u = cut[i]
      BY <1>9
  <1>11. k \in a..u /\ a <= k /\ k <= u
    <2>1. cut[i - 1] \in 0..n
        BY <1>2, <1>7
    <2>2. QED BY <1>6, <1>8, <1>10, <2>1
  <1>12. /\ Segments[i].label = raw[k].label
         /\ Segments[i].start = raw[a].start /\ Segments[i].end = raw[u].end
      BY <1>9, <1>10, <1>11 DEF StandsFor
  <1>13. PICK from \in Nat, to \in Nat : from = Earliest(Features) /\ to = Latest(Features) + 1
      BY ExtremesTyped
  <1>14. Tiles(raw, n, from, to)
      BY <1>13 DEF Segmented, Classified
  <1>15. raw[a].start <= raw[k].start /\ raw[k].end <= raw[u].end
      BY <1>2, <1>11, <1>13, <1>14, TilesOrdered
  <1>16. QED BY <1>1, <1>6, <1>12, <1>15

-----------------------------------------------------------------------------
(* The properties.                                                         *)

\* Types of the segments: their borders are those of windows.
LEMMA TypesFollow == ASSUME IInv PROVE TypeOK
  <1>1. ASSUME NEW i \in DOMAIN Segments
        PROVE  /\ Segments[i].start \in 0..Time(frame)
               /\ Segments[i].end \in 1..(Time(frame - 1) + 1)
               /\ Segments[i].count \in Nat /\ Segments[i].label \in Labels
    <2>1. poses # {}
        BY <1>1, NothingToSegment
    <2>2. PICK raw, n, cut : Segmented(raw, n, cut)
        BY <2>1, SegmentsCut
    <2>3. i \in 1..Len(Segments)
        BY <2>2 DEF Segmented
    <2>4. /\ Segments[i] \in SegmentRecords /\ Segments[i].start < Segments[i].end
          /\ Segments[i].end <= Latest(Features) + 1
        BY <2>1, <2>2, <2>3, SegmentFacts
    <2>5. PICK p \in poses : Latest(Features) = Time(p.frame)
        BY <2>1, Extremes
    <2>6. p.frame \in Nat /\ frame \in Nat /\ p.frame <= frame - 1
        BY PoseFacts, SegmentsAssumption DEF IInv, SegmentsAssumption
    <2>7. frame - 1 \in Nat
        BY <2>6
    <2>8. /\ Time(p.frame) \in Nat /\ Time(frame - 1) \in Nat /\ Time(frame) \in Nat
          /\ Time(p.frame) <= Time(frame - 1) /\ Time(frame - 1) <= Time(frame)
        BY <2>6, <2>7, Times
    <2>9. /\ Segments[i].start \in Nat /\ Segments[i].end \in Nat
          /\ Segments[i].count \in Nat /\ Segments[i].label \in Labels
        BY <2>4 DEF SegmentRecords
    <2>10. QED BY <2>4, <2>5, <2>8, <2>9
  <1>2. QED BY <1>1 DEF TypeOK, IInv, PosesTyped, OnePerFrame

\* The windows tile the time, and so do the segments that stand for runs of them.
LEMMA TilingFollows == ASSUME IInv PROVE SegmentsTile
  <1>1. CASE poses = {}
      BY <1>1, NothingToSegment DEF SegmentsTile
  <1>2. CASE poses # {}
    <2>1. PICK raw, n, cut : Segmented(raw, n, cut)
        BY <1>2, SegmentsCut
    <2>2. PICK segs \in Seq(SegmentRecords) : segs = Segments
        BY <2>1 DEF Segmented
    <2>3. PICK N \in Nat \ {0} : N = Len(segs)
        BY <1>2, <2>1, <2>2, FirstAndLast
    <2>4. DOMAIN segs = 1..N /\ segs # <<>> /\ Last(segs) = segs[N]
        BY <2>3 DEF Last
    <2>5. \A i \in 1..N : segs[i].start < segs[i].end
        BY <1>2, <2>1, <2>2, <2>3, SegmentFacts
    <2>6. ASSUME NEW i \in 1..(N - 1)
          PROVE  segs[i].end = segs[i + 1].start /\ segs[i].label # segs[i + 1].label
      <3>1. i \in 1..N /\ i + 1 \in 1..N /\ (i + 1) - 1 = i
          BY <2>3
      <3>2. segs[i].label # segs[i + 1].label
          BY <2>1, <2>2, <2>3 DEF Segmented, Cuts
      <3>3. segs[i].end = raw[cut[i]].end
          BY <1>2, <2>1, <2>2, <2>3, <3>1, SegmentFacts DEF StandsFor
      <3>4. /\ StandsFor(raw, Segments[i + 1], cut[(i + 1) - 1] + 1, cut[i + 1])
            /\ cut[(i + 1) - 1] + 1 \in 1..n
          BY <1>2, <2>1, <2>2, <2>3, <3>1, SegmentFacts
      <3>5. segs[i + 1].start = raw[cut[i] + 1].start /\ cut[i] + 1 \in 1..n
          BY <2>2, <3>1, <3>4 DEF StandsFor
      <3>6. cut[i] \in 1..n
          BY <1>2, <2>1, <2>2, <2>3, <3>1, SegmentFacts
      <3>7. cut[i] \in 1..(n - 1) /\ n \in Nat
          BY <2>1, <3>5, <3>6 DEF Segmented
      <3>8. raw[cut[i]].end = raw[cut[i] + 1].start
          BY <2>1, <3>7 DEF Segmented, Classified, Tiles
      <3>9. QED BY <3>2, <3>3, <3>5, <3>8
    <2>7. segs[1].start = Earliest(Features) /\ segs[N].end = Latest(Features) + 1
        BY <1>2, <2>1, <2>2, <2>3, FirstAndLast
    <2>8. PICK p \in poses : Earliest(Features) = Time(p.frame)
        BY <1>2, Extremes
    <2>9. PICK q \in poses : Latest(Features) = Time(q.frame)
        BY <1>2, Extremes
    <2>10. \A r \in poses : /\ Time(r.frame) \in Nat
                            /\ Earliest(Features) <= Time(r.frame) /\ Time(r.frame) <= Latest(Features)
        BY <1>2, Extremes, PoseFacts, Times
    <2>11. \A r \in poses : segs[1].start <= Time(r.frame) /\ Time(r.frame) < segs[N].end
      <3>1. TAKE r \in poses
      <3>2. Time(r.frame) \in Nat /\ Time(q.frame) \in Nat /\ Time(r.frame) <= Time(q.frame)
          BY <2>9, <2>10
      <3>3. QED BY <2>7, <2>9, <2>10, <3>2
    <2>12. /\ \E r \in poses : segs[1].start = Time(r.frame)
           /\ \E r \in poses : segs[N].end = Time(r.frame) + 1
        BY <2>7, <2>8, <2>9
    <2>13. QED BY <1>2, <2>2, <2>3, <2>4, <2>5, <2>6, <2>11, <2>12 DEF SegmentsTile
  <1>3. QED BY <1>1, <1>2

\* The window of a pose counts both its features, and a segment the counts of its windows.
LEMMA SparseFollows == ASSUME IInv PROVE SparseIsUnseen
  <1>1. SUFFICES ASSUME SparseThreshold <= 2, NEW p \in poses
                 PROVE  \E i \in DOMAIN Segments :
                            /\ Segments[i].start <= Time(p.frame) /\ Time(p.frame) < Segments[i].end
                            /\ Segments[i].label # "sparse_data"
      BY DEF SparseIsUnseen
  <1>2. PICK raw, n, cut : Segmented(raw, n, cut)
      BY <1>1, SegmentsCut
  <1>3. PICK t \in Nat : t = Time(p.frame)
      BY PoseFacts, Times
  <1>4. PICK from \in Nat, to \in Nat : from = Earliest(Features) /\ to = Latest(Features) + 1
      BY <1>1, ExtremesTyped
  <1>5. Tiles(raw, n, from, to) /\ n \in Nat \ {0}
      BY <1>2, <1>4 DEF Segmented, Classified
  <1>6. from <= t /\ t < to
    <2>1. Earliest(Features) <= t /\ t <= Latest(Features) /\ Latest(Features) \in Nat
        BY <1>1, <1>3, Extremes, ExtremesTyped
    <2>2. QED BY <1>4, <2>1
  <1>7. raw[1].start = from /\ raw[n].end = to /\ 1 \in 1..n /\ n \in 1..n /\ 1 <= n
      BY <1>5 DEF Tiles
  <1>8. PICK k \in 1..n : raw[k].start <= t /\ t < raw[k].end
      BY <1>4, <1>5, <1>6, <1>7, WindowOf
  <1>9. raw[k].label # "sparse_data"
    <2>1. PICK S : S = Seen(raw[k].start, raw[k].end)
        OBVIOUS
    <2>2. p \in S /\ IsFiniteSet(S)
        BY <1>3, <1>8, <2>1, SeenAndMovedFinite DEF Seen
    <2>3. Cardinality(S) \in Nat /\ Cardinality(S) # 0
        BY <2>2, FS_CardinalityType, FS_EmptySet
    <2>4. Cardinality(Moved(raw[k].start, raw[k].end)) \in Nat
        BY SeenAndMovedFinite, FS_CardinalityType
    <2>5. /\ raw[k].count = 2 * Cardinality(S) + Cardinality(Moved(raw[k].start, raw[k].end))
          /\ raw[k].label = Label(raw[k].count, Speeds(raw[k].start, raw[k].end))
        BY <1>2, <2>1 DEF Segmented, Classified
    <2>6. SparseThreshold \in Nat
        BY SegmentsAssumption DEF SegmentsAssumption
    <2>7. ~(raw[k].count < SparseThreshold)
        BY <1>1, <2>3, <2>4, <2>5, <2>6
    <2>8. QED BY <2>5, <2>7 DEF Label
  <1>10. PICK i \in 1..Len(Segments) : /\ Segments[i].label = raw[k].label
                                       /\ Segments[i].start <= raw[k].start
                                       /\ raw[k].end <= Segments[i].end
      BY <1>1, <1>2, SegmentOf
  <1>11. /\ Segments[i] \in SegmentRecords /\ raw[k] \in SegmentRecords
         /\ i \in DOMAIN Segments
      BY <1>2 DEF Segmented, Classified
  <1>12. Segments[i].start <= t /\ t < Segments[i].end
    <2>1. /\ Segments[i].start \in Nat /\ Segments[i].end \in Nat
          /\ raw[k].start \in Nat /\ raw[k].end \in Nat
        BY <1>11 DEF SegmentRecords
    <2>2. QED BY <1>8, <1>10, <2>1
  <1>13. QED BY <1>3, <1>9, <1>10, <1>11, <1>12

\* What a label says of the speeds it is given to.
LEMMA LabelMeans ==
    ASSUME NEW count, NEW velocities, IsFiniteSet(velocities),
           \A f \in velocities : f.value \in Fractions
    PROVE  /\ Label(count, velocities) = "active_motion" =>
                \E f \in velocities : ~Less(f.value, ActiveMotion)
           /\ Label(count, velocities) = "low_motion" =>
                velocities = {} \/ \E f \in velocities : Less(f.value, LowMotion)
           /\ Label(count, velocities) = "transition_window" =>
                /\ \E f \in velocities : Less(f.value, ActiveMotion)
                /\ \E f \in velocities : ~Less(f.value, LowMotion)
  <1>1. PICK l : l = Label(count, velocities)
      OBVIOUS
  <1>2. CASE velocities = {}
    <2>1. l \in {"sparse_data", "low_motion"}
        BY <1>1, <1>2 DEF Label
    <2>2. QED BY <1>1, <1>2, <2>1
  <1>3. CASE velocities # {}
    <2>1. LowMotion \in Fractions /\ ActiveMotion \in Fractions
        BY SegmentsAssumption DEF SegmentsAssumption, Fractions
    <2>2. \A q \in Fractions :
              /\ (\A f \in velocities : Less(f.value, q)) => Less(Average(velocities), q)
              /\ (\A f \in velocities : ~Less(f.value, q)) => ~Less(Average(velocities), q)
        BY <1>3, AverageBetween
    <2>3. l = "active_motion" => ~Less(Average(velocities), ActiveMotion)
        BY <1>1, <1>3 DEF Label
    <2>4. l = "low_motion" => Less(Average(velocities), LowMotion)
        BY <1>1, <1>3 DEF Label
    <2>5. l = "transition_window" => /\ Less(Average(velocities), ActiveMotion)
                                     /\ ~Less(Average(velocities), LowMotion)
        BY <1>1, <1>3 DEF Label
    <2>6. QED BY <1>1, <2>1, <2>2, <2>3, <2>4, <2>5
  <1>4. QED BY <1>2, <1>3

\* Each of the motions touches one of the windows from a to u.
EachInOne(velocities, raw, a, u) ==
    \A f \in velocities : \E k \in a..u : f \in Speeds(raw[k].start, raw[k].end)

\* A motion that touches some time touches more time too, and one that touches a run of
\* windows touches one of them.
LEMMA SpeedsOfWindows ==
    ASSUME IInv, poses # {}, NEW raw, NEW n \in Nat \ {0}, Classified(raw, n),
           NEW a \in 1..n, NEW u \in 1..n, a <= u
    PROVE  /\ \A k \in a..u : Speeds(raw[k].start, raw[k].end) \subseteq Speeds(raw[a].start, raw[u].end)
           /\ EachInOne(Speeds(raw[a].start, raw[u].end), raw, a, u)
  <1>1. PICK from \in Nat, to \in Nat : from = Earliest(Features) /\ to = Latest(Features) + 1
      BY ExtremesTyped
  <1>2. Tiles(raw, n, from, to)
      BY <1>1 DEF Classified
  <1>3. \A k \in 1..n : raw[k].start \in Nat /\ raw[k].end \in Nat
      BY <1>2 DEF Tiles
  <1>4. \A f \in CentroidVelocities : f.start \in Nat /\ f.end \in Nat /\ f.start <= f.end
      BY FeatureFacts DEF Features
  <1>5. ASSUME NEW k \in a..u
        PROVE  Speeds(raw[k].start, raw[k].end) \subseteq Speeds(raw[a].start, raw[u].end)
    <2>1. k \in 1..n /\ a <= k /\ k <= u
        OBVIOUS
    <2>2. raw[a].start <= raw[k].start /\ raw[k].end <= raw[u].end
        BY <1>1, <1>2, <2>1, TilesOrdered
    <2>3. SUFFICES ASSUME NEW f \in Speeds(raw[k].start, raw[k].end)
                   PROVE  f \in Speeds(raw[a].start, raw[u].end)
        OBVIOUS
    <2>4. f \in CentroidVelocities /\ f.start < raw[k].end /\ f.end >= raw[k].start
        BY <2>3 DEF Speeds
    <2>5. f.start < raw[u].end /\ f.end >= raw[a].start
        BY <1>3, <1>4, <2>1, <2>2, <2>4
    <2>6. QED BY <2>4, <2>5 DEF Speeds
  <1>6. ASSUME NEW f \in Speeds(raw[a].start, raw[u].end)
        PROVE  \E k \in a..u : f \in Speeds(raw[k].start, raw[k].end)
    <2>1. f \in CentroidVelocities /\ f.start < raw[u].end /\ f.end >= raw[a].start
        BY DEF Speeds
    <2>2. raw[a].start < raw[u].end
        BY <1>1, <1>2, TilesOrdered
    <2>3. PICK t \in Nat : /\ f.start <= t /\ raw[a].start <= t
                           /\ t < raw[u].end /\ t <= f.end
      <3>1. CASE f.start <= raw[a].start
          BY <1>3, <1>4, <2>1, <2>2, <3>1
      <3>2. CASE ~(f.start <= raw[a].start)
          BY <1>3, <1>4, <2>1, <2>2, <3>2
      <3>3. QED BY <3>1, <3>2
    <2>4. PICK k \in a..u : raw[k].start <= t /\ t < raw[k].end
        BY <1>1, <1>2, <2>3, WindowOf
    <2>5. k \in 1..n
        OBVIOUS
    <2>6. f.start < raw[k].end /\ f.end >= raw[k].start
        BY <1>3, <1>4, <2>1, <2>3, <2>4, <2>5
    <2>7. QED BY <2>1, <2>6 DEF Speeds
  <1>7. QED BY <1>5, <1>6 DEF EachInOne

\* A segment has the label of its windows, and an average has speeds on both sides of it.
LEMMA LabelsFollow == ASSUME IInv PROVE MotionIsSomebodys
  <1> DEFINE known(s) == {f \in CentroidVelocities : f.start < s.end /\ f.end >= s.start}
  <1>1. SUFFICES ASSUME NEW i \in DOMAIN Segments
                 PROVE  /\ Segments[i].label = "active_motion" =>
                              \E f \in known(Segments[i]) : ~Less(f.value, ActiveMotion)
                        /\ Segments[i].label = "low_motion" =>
                              \/ known(Segments[i]) = {}
                              \/ \E f \in known(Segments[i]) : Less(f.value, LowMotion)
                        /\ Segments[i].label = "transition_window" =>
                              /\ \E f \in known(Segments[i]) : Less(f.value, ActiveMotion)
                              /\ \E f \in known(Segments[i]) : ~Less(f.value, LowMotion)
      BY DEF MotionIsSomebodys
  <1>2. poses # {}
      BY <1>1, NothingToSegment
  <1>3. PICK raw, n, cut : Segmented(raw, n, cut)
      BY <1>2, SegmentsCut
  <1>4. i \in 1..Len(Segments) /\ n \in Nat \ {0} /\ Classified(raw, n)
      BY <1>3 DEF Segmented
  <1>5. PICK s \in SegmentRecords : s = Segments[i]
      BY <1>2, <1>3, <1>4, SegmentFacts
  <1>6. PICK a \in 1..n, u \in 1..n : a <= u /\ StandsFor(raw, s, a, u)
    <2>1. /\ cut[i - 1] + 1 \in 1..n /\ cut[i] \in 1..n
          /\ StandsFor(raw, s, cut[i - 1] + 1, cut[i])
        BY <1>2, <1>3, <1>4, <1>5, SegmentFacts
    <2>2. QED BY <2>1 DEF StandsFor
  <1>7. /\ s.start = raw[a].start /\ s.end = raw[u].end
        /\ \A k \in a..u : raw[k].label = s.label
      BY <1>6 DEF StandsFor
  <1>8. PICK V : V = Speeds(raw[a].start, raw[u].end)
      OBVIOUS
  <1>9. known(Segments[i]) = V
      BY <1>5, <1>7, <1>8 DEF Speeds
  <1>10. \A k \in a..u : /\ Speeds(raw[k].start, raw[k].end) \subseteq V
                         /\ raw[k].label = Label(raw[k].count, Speeds(raw[k].start, raw[k].end))
                         /\ IsFiniteSet(Speeds(raw[k].start, raw[k].end))
                         /\ \A f \in Speeds(raw[k].start, raw[k].end) : f.value \in Fractions
    <2>1. TAKE k \in a..u
    <2>2. k \in 1..n
        BY <1>4
    <2>3. raw[k] \in SegmentRecords
        BY <1>4, <2>2 DEF Classified
    <2>4. raw[k].start \in Nat /\ raw[k].end \in Nat
        BY <2>3 DEF SegmentRecords
    <2>5. Speeds(raw[k].start, raw[k].end) \subseteq V
        BY <1>2, <1>4, <1>6, <1>8, SpeedsOfWindows
    <2>6. raw[k].label = Label(raw[k].count, Speeds(raw[k].start, raw[k].end))
        BY <1>4, <2>2 DEF Classified
    <2>7. QED BY <2>4, <2>5, <2>6, SpeedsOfMoves
  <1>11. EachInOne(V, raw, a, u)
      BY <1>2, <1>4, <1>6, <1>8, SpeedsOfWindows
  <1>12. a \in a..u
      BY <1>6
  <1>13. CASE s.label = "active_motion"
    <2>1. PICK f \in Speeds(raw[a].start, raw[a].end) : ~Less(f.value, ActiveMotion)
        BY <1>7, <1>10, <1>12, <1>13, LabelMeans
    <2>2. f \in V
        BY <1>10, <1>12
    <2>3. QED BY <1>5, <1>9, <1>13, <2>1, <2>2
  <1>14. CASE s.label = "low_motion"
    <2>1. CASE V = {}
        BY <1>5, <1>9, <1>14, <2>1
    <2>2. CASE V # {}
      <3>1. PICK g \in V : TRUE
          BY <2>2
      <3>2. PICK k \in a..u : g \in Speeds(raw[k].start, raw[k].end)
          BY <1>11 DEF EachInOne
      <3>3. raw[k].label = "low_motion"
          BY <1>7, <1>14
      <3>4. PICK f \in Speeds(raw[k].start, raw[k].end) : Less(f.value, LowMotion)
          BY <1>10, <3>2, <3>3, LabelMeans
      <3>5. f \in V
          BY <1>10
      <3>6. QED BY <1>5, <1>9, <1>14, <3>4, <3>5
    <2>3. QED BY <2>1, <2>2
  <1>15. CASE s.label = "transition_window"
    <2>1. /\ \E f \in Speeds(raw[a].start, raw[a].end) : Less(f.value, ActiveMotion)
          /\ \E f \in Speeds(raw[a].start, raw[a].end) : ~Less(f.value, LowMotion)
        BY <1>7, <1>10, <1>12, <1>15, LabelMeans
    <2>2. Speeds(raw[a].start, raw[a].end) \subseteq V
        BY <1>10, <1>12
    <2>3. QED BY <1>5, <1>9, <1>15, <2>1, <2>2
  <1>16. QED BY <1>5, <1>13, <1>14, <1>15

\* What the windows of a segment count, and how many they are.
LEMMA CountsFollow == ASSUME IInv PROVE CountsCoverFeatures
  <1>1. ASSUME NEW i \in DOMAIN Segments
        PROVE  LET s == Segments[i] IN
                  /\ s.count >= 2 * Cardinality(Seen(s.start, s.end)) + Cardinality(Moved(s.start, s.end))
                  /\ s.count <= 2 * Cardinality(Seen(s.start, s.end))
                                + ((s.end - s.start + Window - 1) \div Window)
                                  * Cardinality(Moved(s.start, s.end))
    <2>1. poses # {}
        BY <1>1, NothingToSegment
    <2>2. PICK raw, n, cut : Segmented(raw, n, cut)
        BY <2>1, SegmentsCut
    <2>3. i \in 1..Len(Segments) /\ n \in Nat \ {0} /\ Classified(raw, n)
        BY <2>2 DEF Segmented
    <2>4. PICK s : s = Segments[i]
        OBVIOUS
    <2>5. PICK a \in 1..n, u \in 1..n : StandsFor(raw, s, a, u)
        BY <2>1, <2>2, <2>3, <2>4, SegmentFacts
    <2>6. PICK from \in Nat, to \in Nat : from = Earliest(Features) /\ to = Latest(Features) + 1
        BY <2>1, ExtremesTyped
    <2>7. Tiles(raw, n, from, to)
        BY <2>3, <2>6 DEF Classified
    <2>8. a <= u /\ s.start = raw[a].start /\ s.end = raw[u].end
        BY <2>5 DEF StandsFor
    <2>9. (s.end - s.start + Window - 1) \div Window = u - a + 1
        BY <2>3, <2>6, <2>7, <2>8, TilesOrdered
    <2>10. QED BY <2>4, <2>5, <2>9 DEF StandsFor
  <1>2. \A x, y : Seen(x, y) = {p \in poses : x <= Time(p.frame) /\ Time(p.frame) < y}
      BY DEF Seen
  <1>3. \A x, y : Moved(x, y) = {pq \in poses \X poses :
                                    /\ Consecutive(pq[1], pq[2])
                                    /\ NoKeypoints \notin {pq[1].place, pq[2].place}
                                    /\ Time(pq[1].frame) < y /\ Time(pq[2].frame) >= x}
      BY DEF Moved, Moves
  <1>4. QED BY <1>1, <1>2, <1>3, Zenon DEF CountsCoverFeatures

\* The poses, and the segments made of them, have their types (run_pipeline, segment).
THEOREM SegmentTypes == Spec => []TypeOK
  BY PosesInvariant, TypesFollow, PTL

\* Whatever the poses, the windows and the labels, the segments cut the time that was posed
\* without gap or overlap, and neighbours differ in their label (segment, _merge_adjacent).
THEOREM SegmentsAlwaysTile == Spec => []SegmentsTile
  BY PosesInvariant, TilingFollows, PTL

\* With a sparse_threshold of two at most, no moment somebody was posed at is called sparse.
THEOREM NoPoseIsSparse == Spec => []SparseIsUnseen
  BY PosesInvariant, SparseFollows, PTL

\* A label of motion is earned by a track's motion that touches the segment (_label).
THEOREM MotionEarned == Spec => []MotionIsSomebodys
  BY PosesInvariant, LabelsFollow, PTL

\* feature_count counts what touches the segment, as often as its windows at most.
THEOREM CountsBounded == Spec => []CountsCoverFeatures
  BY PosesInvariant, CountsFollow, PTL
=============================================================================
