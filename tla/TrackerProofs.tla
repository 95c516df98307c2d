---------------------------- MODULE TrackerProofs ----------------------------
(***************************************************************************)
(* Theorems about Tracker: what _greedy_match returns for any boxes, what  *)
(* one update does to the tracks and to the active set, and from these the *)
(* inductive invariant IInv.                                               *)
(***************************************************************************)
EXTENDS Tracker, ListProofs, FiniteSetTheorems

-----------------------------------------------------------------------------
(* Scores are fractions.                                                    *)

Scores == Nat \X (Nat \ {0})

\* The common part of two intervals is a length.
LEMMA CommonType ==
    ASSUME NEW a \in Nat, NEW la \in Nat, NEW b \in Nat, NEW lb \in Nat
    PROVE  Common(a, la, b, lb) \in Nat
  BY DEF Common, Larger, Smaller

\* Intersection over union has a denominator.
LEMMA IouType ==
    ASSUME NEW a \in Boxes, NEW b \in Boxes
    PROVE  Iou(a, b) \in Scores
  <1>1. /\ a.x \in Nat /\ a.y \in Nat /\ a.width \in Nat /\ a.height \in Nat
        /\ b.x \in Nat /\ b.y \in Nat /\ b.width \in Nat /\ b.height \in Nat
      BY TrackerAssumption
  <1>2. \A m, n \in Nat : m * n \in Nat
      OBVIOUS
  <1>3. PICK inter \in Nat :
          inter = Common(a.x, a.width, b.x, b.width) * Common(a.y, a.height, b.y, b.height)
    <2>1. /\ Common(a.x, a.width, b.x, b.width) \in Nat
          /\ Common(a.y, a.height, b.y, b.height) \in Nat
        BY <1>1, CommonType
    <2>2. Common(a.x, a.width, b.x, b.width) * Common(a.y, a.height, b.y, b.height) \in Nat
        BY <1>2, <2>1
    <2>3. QED BY <2>2
  <1>4. PICK covered : covered = a.width * a.height + b.width * b.height - inter
      OBVIOUS
  <1>5. covered \in Int
    <2>1. a.width * a.height \in Nat /\ b.width * b.height \in Nat
        BY <1>1, <1>2
    <2>2. QED BY <1>4, <2>1
  <1>6. Iou(a, b) = IF inter = 0 \/ covered <= 0 THEN <<0, 1>> ELSE <<inter, covered>>
      BY <1>3, <1>4, Zenon DEF Iou
  <1>7. QED BY <1>5, <1>6 DEF Scores

\* What is not less after both sides are multiplied was not less before.
LEMMA TimesCancels ==
    ASSUME NEW m \in Nat, NEW n \in Nat, NEW k \in Nat \ {0}, m * k <= n * k
    PROVE  m <= n
  <1>1. SUFFICES ASSUME n + 1 <= m PROVE FALSE
      OBVIOUS
  <1>2. (n + 1) * k <= m * k
      BY <1>1, TimesKeeps
  <1>3. (n + 1) * k = n * k + k /\ n * k \in Nat /\ m * k \in Nat
      OBVIOUS
  <1>4. QED BY <1>2, <1>3

\* Fractions are totally ordered.
LEMMA AtLeastTotal ==
    ASSUME NEW p \in Scores, NEW q \in Scores
    PROVE  AtLeast(p, q) \/ AtLeast(q, p)
  <1>1. PICK m \in Nat, n \in Nat : m = p[1] * q[2] /\ n = q[1] * p[2]
      BY DEF Scores
  <1>2. m >= n \/ n >= m
      OBVIOUS
  <1>3. QED BY <1>1, <1>2 DEF AtLeast

\* The order of the scores is transitive: a denominator cancels.
LEMMA AtLeastTransitive ==
    ASSUME NEW p \in Scores, NEW q \in Scores, NEW r \in Scores, AtLeast(p, q), AtLeast(q, r)
    PROVE  AtLeast(p, r)
  <1>1. PICK p1 \in Nat, p2 \in Nat \ {0} : p1 = p[1] /\ p2 = p[2]
      BY DEF Scores
  <1>2. PICK q1 \in Nat, q2 \in Nat \ {0} : q1 = q[1] /\ q2 = q[2]
      BY DEF Scores
  <1>3. PICK r1 \in Nat, r2 \in Nat \ {0} : r1 = r[1] /\ r2 = r[2]
      BY DEF Scores
  <1>4. \A x, y \in Nat : x * y \in Nat
      OBVIOUS
  <1>5. q1 * p2 <= p1 * q2 /\ r1 * q2 <= q1 * r2
      BY <1>1, <1>2, <1>3, <1>4 DEF AtLeast
  <1>6. (q1 * p2) * r2 <= (p1 * q2) * r2 /\ (r1 * q2) * p2 <= (q1 * r2) * p2
      BY <1>4, <1>5, TimesKeeps
  <1>7. /\ (q1 * p2) * r2 = (q1 * r2) * p2
        /\ (p1 * q2) * r2 = (p1 * r2) * q2
        /\ (r1 * q2) * p2 = (r1 * p2) * q2
      OBVIOUS
  <1>8. (r1 * p2) * q2 <= (p1 * r2) * q2
    <2>1. PICK x \in Nat, y \in Nat, z \in Nat :
            x = (r1 * p2) * q2 /\ y = (q1 * r2) * p2 /\ z = (p1 * r2) * q2
        BY <1>4
    <2>2. x <= y /\ y <= z
        BY <1>6, <1>7, <2>1
    <2>3. QED BY <2>1, <2>2
  <1>9. r1 * p2 <= p1 * r2
      BY <1>4, <1>8, TimesCancels
  <1>10. QED BY <1>1, <1>3, <1>4, <1>9 DEF AtLeast

-----------------------------------------------------------------------------
(* The order of the candidates.                                             *)

AllCandidates == [score : Scores, track : Nat, det : Nat]

\* Two candidates are not for the same track and the same detection.
Distinct(S) == \A b, c \in S : b.track = c.track /\ b.det = c.det => b = c

\* The candidates are totally ordered.
LEMMA PrecedesTransitive ==
    ASSUME NEW a \in AllCandidates, NEW b \in AllCandidates, NEW c \in AllCandidates,
           Precedes(a, b), Precedes(b, c)
    PROVE  Precedes(a, c)
  <1>1. a.score \in Scores /\ b.score \in Scores /\ c.score \in Scores
      BY DEF AllCandidates
  <1>2. AtLeast(a.score, c.score)
      BY <1>1, AtLeastTransitive DEF Precedes
  <1>3. ASSUME AtLeast(c.score, a.score)
        PROVE  a.track < c.track \/ (a.track = c.track /\ a.det < c.det)
    <2>1. AtLeast(b.score, a.score) /\ AtLeast(c.score, b.score)
        BY <1>1, <1>3, AtLeastTransitive DEF Precedes
    <2>2. /\ a.track < b.track \/ (a.track = b.track /\ a.det < b.det)
          /\ b.track < c.track \/ (b.track = c.track /\ b.det < c.det)
        BY <2>1 DEF Precedes
    <2>3. /\ a.track \in Nat /\ b.track \in Nat /\ c.track \in Nat
          /\ a.det \in Nat /\ b.det \in Nat /\ c.det \in Nat
        BY DEF AllCandidates
    <2>4. QED BY <2>2, <2>3
  <1>4. QED BY <1>2, <1>3 DEF Precedes

\* No candidate precedes itself, and of two that differ in a place one precedes the other.
LEMMA PrecedesTotal ==
    ASSUME NEW b \in AllCandidates, NEW c \in AllCandidates
    PROVE  /\ ~Precedes(b, b)
           /\ b.track # c.track \/ b.det # c.det => Precedes(b, c) \/ Precedes(c, b)
  <1>1. b.score \in Scores /\ c.score \in Scores
      BY DEF AllCandidates
  <1>2. b.track \in Nat /\ b.det \in Nat /\ c.track \in Nat /\ c.det \in Nat
      BY DEF AllCandidates
  <1>3. AtLeast(b.score, b.score)
      BY <1>1, AtLeastTotal
  <1>4. AtLeast(b.score, c.score) \/ AtLeast(c.score, b.score)
      BY <1>1, AtLeastTotal
  <1>5. QED BY <1>2, <1>3, <1>4 DEF Precedes

\* Sorted: every candidate has one place, and none stands behind a worse one.
Sorted(l, S) ==
    /\ l \in [1..Cardinality(S) -> S]
    /\ \A c \in S : \E k \in 1..Cardinality(S) : l[k] = c
    /\ \A j, k \in 1..Cardinality(S) : j < k => Precedes(l[j], l[k])

\* The place of a candidate is the number of those before it, and no place is left empty.
LEMMA RankedSorts ==
    ASSUME NEW S \in SUBSET AllCandidates, IsFiniteSet(S), Distinct(S)
    PROVE  Sorted(Ranked(S), S)
  <1> DEFINE Ahead(c) == {b \in S : Precedes(b, c)}
  <1>1. PICK N \in Nat : N = Cardinality(S)
      BY FS_CardinalityType
  <1>2. \A c \in S : IsFiniteSet(Ahead(c)) /\ Cardinality(Ahead(c)) \in Nat
      BY FS_Subset, FS_CardinalityType
  <1>3. ASSUME NEW b \in S, NEW c \in S, Precedes(b, c)
        PROVE  Cardinality(Ahead(b)) < Cardinality(Ahead(c))
    <2>1. Ahead(b) \subseteq Ahead(c)
        BY <1>3, PrecedesTransitive
    <2>2. b \in Ahead(c) /\ b \notin Ahead(b)
        BY <1>3, PrecedesTotal
    <2>3. /\ Cardinality(Ahead(b)) <= Cardinality(Ahead(c))
          /\ Cardinality(Ahead(b)) # Cardinality(Ahead(c))
        BY <1>2, <2>1, <2>2, FS_Subset
    <2>4. QED BY <1>2, <2>3
  <1>4. ASSUME NEW c \in S PROVE Cardinality(Ahead(c)) < N
    <2>1. Ahead(c) \subseteq S /\ c \notin Ahead(c)
        BY PrecedesTotal
    <2>2. Cardinality(Ahead(c)) <= N /\ Cardinality(Ahead(c)) # N
        BY <1>1, <2>1, FS_Subset
    <2>3. PICK k \in Nat : k = Cardinality(Ahead(c))
        BY <1>2
    <2>4. QED BY <2>2, <2>3
  <1>5. PICK rank : rank = [c \in S |-> Cardinality(Ahead(c)) + 1]
      OBVIOUS
  <1>6. rank \in [S -> 1..N]
    <2>1. \A c \in S : Cardinality(Ahead(c)) + 1 \in 1..N
        BY <1>2, <1>4
    <2>2. QED BY <1>5, <2>1
  <1>7. \A b, c \in S : Precedes(b, c) => rank[b] < rank[c]
    <2>1. TAKE b, c \in S
    <2>2. HAVE Precedes(b, c)
    <2>3. Cardinality(Ahead(b)) < Cardinality(Ahead(c))
        BY <1>3, <2>2
    <2>4. PICK j \in Nat, k \in Nat : j = Cardinality(Ahead(b)) /\ k = Cardinality(Ahead(c))
        BY <1>2
    <2>5. rank[b] = j + 1 /\ rank[c] = k + 1
        BY <1>5, <2>4
    <2>6. QED BY <2>3, <2>4, <2>5
  <1>8. \A b, c \in S : b # c => Precedes(b, c) \/ Precedes(c, b)
      BY PrecedesTotal DEF Distinct
  <1>9. rank \in Injection(S, 1..N)
    <2>1. \A b, c \in S : rank[b] = rank[c] => b = c
      <3>1. TAKE b, c \in S
      <3>2. HAVE rank[b] = rank[c]
      <3>3. rank[b] \in 1..N /\ rank[c] \in 1..N
          BY <1>6
      <3>4. QED BY <1>7, <1>8, <3>2, <3>3
    <2>2. QED BY <1>6, <2>1 DEF Injection, IsInjective
  <1>10. rank \in Surjection(S, 1..N)
    <2>1. IsFiniteSet(1..N) /\ Cardinality(1..N) = N
        BY FS_Interval
    <2>2. QED BY <1>1, <1>9, <2>1, FS_Injection
  <1>11. PICK l : l = Ranked(S)
      OBVIOUS
  <1>12. l = [k \in 1..N |-> CHOOSE c \in S : Cardinality(Ahead(c)) = k - 1]
      BY <1>1, <1>11 DEF Ranked
  <1>13. ASSUME NEW k \in 1..N PROVE l[k] \in S /\ rank[l[k]] = k
    <2>1. PICK c \in S : rank[c] = k
        BY <1>10 DEF Surjection
    <2>2. Cardinality(Ahead(c)) = k - 1
        BY <1>2, <1>5, <2>1
    <2>3. PICK e : e = CHOOSE x \in S : Cardinality(Ahead(x)) = k - 1
        OBVIOUS
    <2>4. e \in S /\ Cardinality(Ahead(e)) = k - 1
        BY <2>2, <2>3
    <2>5. l[k] = e
        BY <1>12, <2>3
    <2>6. QED BY <1>5, <2>4, <2>5
  <1>14. ASSUME NEW c \in S PROVE rank[c] \in 1..N /\ l[rank[c]] = c
    <2>1. rank[c] \in 1..N
        BY <1>6
    <2>2. l[rank[c]] \in S /\ rank[l[rank[c]]] = rank[c]
        BY <1>13, <2>1
    <2>3. QED BY <1>9, <2>1, <2>2 DEF Injection, IsInjective
  <1>15. ASSUME NEW j \in 1..N, NEW k \in 1..N, j < k PROVE Precedes(l[j], l[k])
    <2>1. l[j] \in S /\ l[k] \in S /\ rank[l[j]] = j /\ rank[l[k]] = k
        BY <1>13
    <2>2. ~Precedes(l[k], l[j]) /\ l[j] # l[k]
        BY <1>7, <1>15, <2>1
    <2>3. QED BY <1>8, <2>1, <2>2
  <1>16. l \in [1..N -> S]
      BY <1>12, <1>13
  <1>17. QED BY <1>1, <1>11, <1>14, <1>15, <1>16 DEF Sorted

-----------------------------------------------------------------------------
(* The matching.                                                            *)

\* The candidates of a frame are finitely many, one for a track and a detection.
LEMMA CandidatesFacts ==
    ASSUME NEW tboxes \in Seq(Boxes), NEW dboxes \in Seq(Boxes),
           NEW S, S = Candidates(tboxes, dboxes)
    PROVE  /\ S \in SUBSET AllCandidates /\ IsFiniteSet(S) /\ Distinct(S)
           /\ \A c \in S : /\ c.track \in DOMAIN tboxes /\ c.det \in DOMAIN dboxes
                           /\ c.score = Iou(tboxes[c.track], dboxes[c.det])
           /\ \A i \in DOMAIN tboxes, d \in DOMAIN dboxes :
                 AtLeast(Iou(tboxes[i], dboxes[d]), Threshold)
                     => \E c \in S : c.track = i /\ c.det = d
  <1>1. PICK I \in SUBSET Nat, D \in SUBSET Nat :
            I = DOMAIN tboxes /\ D = DOMAIN dboxes /\ IsFiniteSet(I) /\ IsFiniteSet(D)
    <2>1. /\ DOMAIN tboxes = 1..Len(tboxes) /\ Len(tboxes) \in Nat
          /\ DOMAIN dboxes = 1..Len(dboxes) /\ Len(dboxes) \in Nat
        OBVIOUS
    <2>2. IsFiniteSet(1..Len(tboxes)) /\ IsFiniteSet(1..Len(dboxes))
        BY <2>1, FS_Interval
    <2>3. 1..Len(tboxes) \in SUBSET Nat /\ 1..Len(dboxes) \in SUBSET Nat
        BY <2>1
    <2>4. QED BY <2>1, <2>2, <2>3
  <1>2. \A i \in I, d \in D : Iou(tboxes[i], dboxes[d]) \in Scores
    <2>1. \A i \in I, d \in D : tboxes[i] \in Boxes /\ dboxes[d] \in Boxes
        BY <1>1
    <2>2. QED BY <2>1, IouType
  <1>3. PICK f : f = [p \in I \X D |->
                        [score |-> Iou(tboxes[p[1]], dboxes[p[2]]), track |-> p[1], det |-> p[2]]]
      OBVIOUS
  <1> DEFINE T == {[score |-> Iou(tboxes[i], dboxes[d]), track |-> i, det |-> d] :
                     i \in DOMAIN tboxes, d \in DOMAIN dboxes}
  <1>4. S = {c \in T : AtLeast(c.score, Threshold)}
      BY DEF Candidates
  <1>5. \A i \in I, d \in D : /\ f[<<i, d>>] \in T
                             /\ f[<<i, d>>].track = i /\ f[<<i, d>>].det = d
                             /\ f[<<i, d>>].score = Iou(tboxes[i], dboxes[d])
      BY <1>1, <1>3
  <1>6. \A c \in T : \E i \in I, d \in D : c = f[<<i, d>>]
      BY <1>1, <1>3
  <1>7. \A c \in T : c \in AllCandidates
      BY <1>1, <1>2 DEF AllCandidates
  <1> HIDE DEF T
  <1>8. IsFiniteSet(T)
    <2>1. f \in Surjection(I \X D, T)
      <3>1. \A p \in I \X D : p = <<p[1], p[2]>> /\ p[1] \in I /\ p[2] \in D
          OBVIOUS
      <3>2. f \in [I \X D -> T]
        <4>1. ASSUME NEW p \in I \X D PROVE f[p] \in T
          <5>1. p = <<p[1], p[2]>> /\ p[1] \in I /\ p[2] \in D
              BY <3>1
          <5>2. f[<<p[1], p[2]>>] \in T
              BY <1>5, <5>1
          <5>3. QED BY <5>1, <5>2
        <4>2. QED BY <1>3, <4>1
      <3>3. \A c \in T : \E p \in I \X D : f[p] = c
        <4>1. TAKE c \in T
        <4>2. PICK i \in I, d \in D : c = f[<<i, d>>]
            BY <1>6
        <4>3. <<i, d>> \in I \X D
            OBVIOUS
        <4>4. QED BY <4>2, <4>3
      <3>4. QED BY <3>2, <3>3, Zenon DEF Surjection
    <2>2. IsFiniteSet(I \X D)
        BY <1>1, FS_Product
    <2>3. QED BY <2>1, <2>2, FS_Surjection
  <1>9. IsFiniteSet(S)
      BY <1>4, <1>8, FS_Subset
  <1>10. T \in SUBSET AllCandidates
      BY <1>2, <1>7
  <1>11. Distinct(T)
    <2>1. ASSUME NEW b \in T, NEW c \in T, b.track = c.track, b.det = c.det PROVE b = c
      <3>1. PICK i \in I, d \in D : b = f[<<i, d>>]
          BY <1>6
      <3>2. PICK j \in I, e \in D : c = f[<<j, e>>]
          BY <1>6
      <3>3. i = j /\ d = e
        <4>1. b.track = i /\ b.det = d
            BY <1>5, <3>1
        <4>2. c.track = j /\ c.det = e
            BY <1>5, <3>2
        <4>3. QED BY <2>1, <4>1, <4>2
      <3>4. QED BY <3>1, <3>2, <3>3
    <2>2. QED BY <2>1 DEF Distinct
  <1>12. S \in SUBSET AllCandidates /\ Distinct(S)
      BY <1>4, <1>10, <1>11 DEF Distinct
  <1>13. ASSUME NEW c \in S
         PROVE  /\ c.track \in DOMAIN tboxes /\ c.det \in DOMAIN dboxes
                /\ c.score = Iou(tboxes[c.track], dboxes[c.det])
    <2>1. PICK i \in I, d \in D : c = f[<<i, d>>]
        BY <1>4, <1>6
    <2>2. QED BY <1>1, <1>5, <2>1
  <1>14. ASSUME NEW i \in DOMAIN tboxes, NEW d \in DOMAIN dboxes,
                AtLeast(Iou(tboxes[i], dboxes[d]), Threshold)
         PROVE  \E c \in S : c.track = i /\ c.det = d
    <2>1. f[<<i, d>>] \in S
        BY <1>1, <1>4, <1>5, <1>14
    <2>2. QED BY <1>1, <1>5, <2>1
  <1>15. QED BY <1>9, <1>12, <1>13, <1>14

\* The places of a candidate.
PairOf(c) == <<c.track, c.det>>

\* pairs[n] is what the first n candidates contribute, matching what all do.
Matches(pairs, matching, l, N) ==
    /\ pairs[N] = matching
    /\ pairs[0] = {}
    /\ \A n \in 1..N :
          pairs[n] = IF Unused(l[n], pairs[n - 1]) THEN pairs[n - 1] \cup {PairOf(l[n])}
                     ELSE pairs[n - 1]

\* The matching is built up over the sorted candidates.
LEMMA GreedyPrefixes ==
    ASSUME NEW tboxes \in Seq(Boxes), NEW dboxes \in Seq(Boxes),
           NEW N \in Nat, NEW l, l = Ranked(Candidates(tboxes, dboxes)),
           l \in [1..N -> AllCandidates]
    PROVE  \E pairs \in [0..N -> SUBSET (Nat \X Nat)] :
              Matches(pairs, GreedyMatch(tboxes, dboxes), l, N)
  <1> DEFINE Next1(v, n) == IF Unused(l[n], v) THEN v \cup {PairOf(l[n])} ELSE v
             Solves(f) == f = [n \in 0..N |-> IF n = 0 THEN {} ELSE Next1(f[n - 1], n)]
             K == CHOOSE f : Solves(f)
  <1>1. Len(l) = N
      OBVIOUS
  <1>2. PICK V : V = SUBSET (Nat \X Nat)
      OBVIOUS
  <1>3. PICK step : step = [p \in V \X (1..N) |-> Next1(p[1], p[2])]
      OBVIOUS
  <1>4. \A v \in V, n \in 1..N : step[<<v, n>>] = Next1(v, n)
      BY <1>3
  <1>5. \A v \in V, n \in 1..N : Next1(v, n) \in V
      BY <1>2 DEF AllCandidates, PairOf
  <1> HIDE DEF Next1
  <1>6. PICK f \in [0..N -> V] : Iterates(f, {}, step, N)
    <2>1. \A v \in V, n \in 1..N : step[<<v, n>>] \in V
        BY <1>4, <1>5
    <2>2. {} \in V
        BY <1>2
    <2>3. QED BY <2>1, <2>2, Iteration
  <1>7. f[0] = {}
      BY <1>6 DEF Iterates
  <1>8. ASSUME NEW n \in 1..N PROVE f[n] = Next1(f[n - 1], n)
    <2>1. n - 1 \in 0..N
        OBVIOUS
    <2>2. f[n] = step[<<f[n - 1], n>>] /\ f[n - 1] \in V
        BY <1>6, <2>1 DEF Iterates
    <2>3. QED BY <1>4, <2>2
  <1>9. Solves(f)
    <2>1. f = [n \in 0..N |-> f[n]]
        BY <1>6
    <2>2. \A n \in 0..N : f[n] = IF n = 0 THEN {} ELSE Next1(f[n - 1], n)
      <3>1. TAKE n \in 0..N
      <3>2. n # 0 => n \in 1..N
          OBVIOUS
      <3>3. QED BY <1>7, <1>8, <3>2
    <2>3. QED BY <2>1, <2>2
  <1>10. Solves(K)
      BY <1>9
  <1>11. K[0] = {} /\ \A n \in 1..N : K[n] = Next1(K[n - 1], n)
    <2> HIDE DEF K
    <2>1. K = [n \in 0..N |-> IF n = 0 THEN {} ELSE Next1(K[n - 1], n)]
        BY <1>10
    <2>2. \A n \in 0..N : K[n] = IF n = 0 THEN {} ELSE Next1(K[n - 1], n)
        BY <2>1
    <2>3. \A n \in 1..N : n \in 0..N /\ n # 0
        OBVIOUS
    <2>4. QED BY <2>2, <2>3
  <1>12. \A n \in 0..N : K[n] = f[n]
    <2> HIDE DEF K
    <2>1. PICK E : E = {n \in Nat : n <= N => K[n] = f[n]}
        OBVIOUS
    <2>2. 0 \in E
        BY <1>7, <1>11, <2>1
    <2>3. ASSUME NEW n \in Nat, n \in E PROVE n + 1 \in E
      <3>1. CASE n + 1 <= N
        <4>1. n + 1 \in 1..N /\ (n + 1) - 1 = n
            BY <3>1
        <4>2. K[n + 1] = Next1(K[n], n + 1) /\ f[n + 1] = Next1(f[n], n + 1)
            BY <1>8, <1>11, <4>1
        <4>3. K[n] = f[n]
            BY <2>1, <2>3, <3>1
        <4>4. QED BY <2>1, <4>2, <4>3
      <3>2. CASE ~(n + 1 <= N)
          BY <2>1, <3>2
      <3>3. QED BY <3>1, <3>2
    <2>4. Nat \subseteq E
        BY <2>2, <2>3, Induction
    <2>5. QED BY <2>1, <2>4
  <1>13. GreedyMatch(tboxes, dboxes) = K[N]
      BY <1>1, Zenon DEF GreedyMatch, Next1, PairOf
  <1>14. GreedyMatch(tboxes, dboxes) = f[N]
    <2> HIDE DEF K
    <2>1. N \in 0..N
        OBVIOUS
    <2>2. QED BY <1>12, <1>13, <2>1
  <1>15. Matches(f, GreedyMatch(tboxes, dboxes), l, N)
      BY <1>7, <1>8, <1>14 DEF Matches, Next1
  <1>16. f \in [0..N -> SUBSET (Nat \X Nat)]
      BY <1>6, <1>2
  <1>17. QED BY <1>15, <1>16

\* After n candidates: the pairs are of these, no two share a place, and each candidate
\* shares a place with one that was taken no later.
Taken(pairs, l, n) ==
    /\ \A p \in pairs : \E k \in 1..n : p = PairOf(l[k])
    /\ \A p, q \in pairs : p[1] = q[1] \/ p[2] = q[2] => p = q
    /\ \A k \in 1..n : \E j \in 1..k :
          PairOf(l[j]) \in pairs /\ (l[j].track = l[k].track \/ l[j].det = l[k].det)

\* The loop over the candidates leaves none that is free.
LEMMA GreedyTakes ==
    ASSUME NEW N \in Nat, NEW l, l \in [1..N -> AllCandidates],
           NEW pairs \in [0..N -> SUBSET (Nat \X Nat)], NEW matching,
           Matches(pairs, matching, l, N)
    PROVE  Taken(matching, l, N)
  <1>1. PICK E : E = {n \in Nat : n <= N => Taken(pairs[n], l, n)}
      OBVIOUS
  <1>2. 0 \in E
      BY <1>1 DEF Matches, Taken
  <1>3. ASSUME NEW n \in Nat, n \in E PROVE n + 1 \in E
    <2>1. SUFFICES ASSUME n + 1 <= N PROVE Taken(pairs[n + 1], l, n + 1)
        BY <1>1
    <2>2. PICK old, new, c : old = pairs[n] /\ new = pairs[n + 1] /\ c = l[n + 1]
        OBVIOUS
    <2>3. new = IF Unused(c, old) THEN old \cup {PairOf(c)} ELSE old
      <3>1. n + 1 \in 1..N /\ (n + 1) - 1 = n
          BY <2>1
      <3>2. QED BY <2>2, <3>1 DEF Matches
    <2>4. Taken(old, l, n)
        BY <1>1, <1>3, <2>1, <2>2
    <2>5. PairOf(c)[1] = c.track /\ PairOf(c)[2] = c.det
        BY DEF PairOf
    <2>6. \A p \in new : \E k \in 1..(n + 1) : p = PairOf(l[k])
      <3>1. \A k \in 1..n : k \in 1..(n + 1)
          OBVIOUS
      <3>2. n + 1 \in 1..(n + 1)
          OBVIOUS
      <3>3. QED BY <2>2, <2>3, <2>4, <3>1, <3>2 DEF Taken
    <2>7. \A p, q \in new : p[1] = q[1] \/ p[2] = q[2] => p = q
        BY <2>3, <2>4, <2>5 DEF Taken, Unused
    <2>8. \A k \in 1..(n + 1) : \E j \in 1..k :
              PairOf(l[j]) \in new /\ (l[j].track = l[k].track \/ l[j].det = l[k].det)
      <3>1. TAKE k \in 1..(n + 1)
      <3>2. CASE k \in 1..n
          BY <2>3, <2>4, <3>2 DEF Taken
      <3>3. CASE k = n + 1 /\ Unused(c, old)
        <4>1. k \in 1..k /\ PairOf(l[k]) \in new
            BY <2>2, <2>3, <3>3
        <4>2. QED BY <4>1
      <3>4. CASE k = n + 1 /\ ~Unused(c, old)
        <4>1. PICK p \in old : p[1] = c.track \/ p[2] = c.det
            BY <3>4 DEF Unused
        <4>2. PICK j \in 1..n : p = PairOf(l[j])
            BY <2>4 DEF Taken
        <4>3. PairOf(l[j]) \in new /\ (l[j].track = c.track \/ l[j].det = c.det)
            BY <2>3, <4>1, <4>2 DEF PairOf
        <4>4. j \in 1..k
            BY <3>4
        <4>5. QED BY <2>2, <3>4, <4>3, <4>4
      <3>5. QED BY <3>2, <3>3, <3>4
    <2>9. QED BY <2>2, <2>6, <2>7, <2>8 DEF Taken
  <1>4. N \in E
      BY <1>2, <1>3, Induction
  <1>5. QED BY <1>1, <1>4 DEF Matches

\* No two pairs share a place.
OneToOne(pairs, I, D) ==
    /\ pairs \in SUBSET (I \X D)
    /\ \A p, q \in pairs : p[1] = q[1] \/ p[2] = q[2] => p = q

\* Who overlaps enough and goes without the other has a partner who overlaps at least as much.
NoneBetter(pairs, tboxes, dboxes) ==
    \A i \in DOMAIN tboxes, d \in DOMAIN dboxes :
        AtLeast(Iou(tboxes[i], dboxes[d]), Threshold) =>
            \E p \in pairs : /\ p[1] = i \/ p[2] = d
                            /\ AtLeast(Iou(tboxes[p[1]], dboxes[p[2]]), Iou(tboxes[i], dboxes[d]))

\* What _greedy_match promises, for any boxes.
LEMMA GreedyMatchFacts ==
    ASSUME NEW tboxes \in Seq(Boxes), NEW dboxes \in Seq(Boxes)
    PROVE  /\ OneToOne(GreedyMatch(tboxes, dboxes), DOMAIN tboxes, DOMAIN dboxes)
           /\ NoneBetter(GreedyMatch(tboxes, dboxes), tboxes, dboxes)
  <1>1. PICK S : S = Candidates(tboxes, dboxes)
      OBVIOUS
  <1>2. /\ S \in SUBSET AllCandidates /\ IsFiniteSet(S) /\ Distinct(S)
        /\ \A c \in S : /\ c.track \in DOMAIN tboxes /\ c.det \in DOMAIN dboxes
                        /\ c.score = Iou(tboxes[c.track], dboxes[c.det])
        /\ \A i \in DOMAIN tboxes, d \in DOMAIN dboxes :
              AtLeast(Iou(tboxes[i], dboxes[d]), Threshold)
                  => \E c \in S : c.track = i /\ c.det = d
      BY <1>1, CandidatesFacts
  <1>3. PICK N \in Nat : N = Cardinality(S)
      BY <1>2, FS_CardinalityType
  <1>4. PICK l : l = Ranked(S)
      OBVIOUS
  <1>5. Sorted(l, S)
      BY <1>2, <1>4, RankedSorts
  <1>6. /\ l \in [1..N -> S]
        /\ \A c \in S : \E k \in 1..N : l[k] = c
        /\ \A j, k \in 1..N : j < k => Precedes(l[j], l[k])
      BY <1>3, <1>5 DEF Sorted
  <1>7. l \in [1..N -> AllCandidates]
      BY <1>2, <1>6
  <1>8. PICK pairs \in [0..N -> SUBSET (Nat \X Nat)] :
            Matches(pairs, GreedyMatch(tboxes, dboxes), l, N)
    <2>1. l = Ranked(Candidates(tboxes, dboxes))
        BY <1>1, <1>4
    <2>2. QED BY <2>1, <1>7, GreedyPrefixes
  <1>9. PICK M : M = GreedyMatch(tboxes, dboxes)
      OBVIOUS
  <1>10. Taken(M, l, N)
      BY <1>7, <1>8, <1>9, GreedyTakes
  <1>11. OneToOne(M, DOMAIN tboxes, DOMAIN dboxes)
    <2>1. ASSUME NEW p \in M PROVE p \in (DOMAIN tboxes) \X (DOMAIN dboxes)
      <3>1. PICK k \in 1..N : p = PairOf(l[k])
          BY <1>10 DEF Taken
      <3>2. l[k] \in S
          BY <1>6
      <3>3. QED BY <1>2, <3>1, <3>2 DEF PairOf
    <2>2. QED BY <1>10, <2>1 DEF OneToOne, Taken
  <1>12. NoneBetter(M, tboxes, dboxes)
    <2>1. SUFFICES ASSUME NEW i \in DOMAIN tboxes, NEW d \in DOMAIN dboxes,
                          AtLeast(Iou(tboxes[i], dboxes[d]), Threshold)
                   PROVE  \E p \in M :
                            /\ p[1] = i \/ p[2] = d
                            /\ AtLeast(Iou(tboxes[p[1]], dboxes[p[2]]), Iou(tboxes[i], dboxes[d]))
        BY DEF NoneBetter
    <2>2. PICK c \in S : c.track = i /\ c.det = d
        BY <1>2, <2>1
    <2>3. PICK k \in 1..N : l[k] = c
        BY <1>6
    <2>4. PICK j \in 1..k : /\ PairOf(l[j]) \in M
                            /\ l[j].track = l[k].track \/ l[j].det = l[k].det
        BY <1>10 DEF Taken
    <2>5. j \in 1..N /\ (j = k \/ j < k)
        OBVIOUS
    <2>6. PICK b \in S : b = l[j]
        BY <1>6, <2>5
    <2>7. AtLeast(b.score, c.score)
      <3>1. CASE j = k
        <4>1. b = c /\ c.score \in Scores
            BY <1>2, <2>3, <2>6, <3>1 DEF AllCandidates
        <4>2. QED BY <4>1, AtLeastTotal
      <3>2. CASE j < k
        <4>1. Precedes(b, c)
            BY <1>6, <2>3, <2>5, <2>6, <3>2
        <4>2. QED BY <4>1 DEF Precedes
      <3>3. QED BY <2>5, <3>1, <3>2
    <2>8. PICK p \in M : p = <<b.track, b.det>>
        BY <2>4, <2>6 DEF PairOf
    <2>9. p[1] = b.track /\ p[2] = b.det
        BY <2>8
    <2>10. p[1] = i \/ p[2] = d
        BY <2>2, <2>3, <2>4, <2>6, <2>9
    <2>11. /\ b.score = Iou(tboxes[p[1]], dboxes[p[2]])
           /\ c.score = Iou(tboxes[i], dboxes[d])
        BY <1>2, <2>2, <2>9
    <2>12. AtLeast(Iou(tboxes[p[1]], dboxes[p[2]]), Iou(tboxes[i], dboxes[d]))
        BY <2>7, <2>11
    <2>13. QED BY <2>10, <2>12
  <1>13. QED BY <1>9, <1>11, <1>12

-----------------------------------------------------------------------------
(* A frame's detections are shared out: to a track each, or to a new one.   *)

\* match is pairs as a function, from places of tracks to places of detections.
PairsAsMatch(match, pairs, I, D) ==
    /\ DOMAIN match \subseteq I
    /\ match \in [DOMAIN match -> D]
    /\ \A i, j \in DOMAIN match : match[i] = match[j] => i = j
    /\ \A i \in DOMAIN match : <<i, match[i]>> \in pairs
    /\ \A p \in pairs : p[1] \in DOMAIN match /\ match[p[1]] = p[2]

\* As each place is in one pair at most, the pairs are such a match.
LEMMA MatchFacts ==
    ASSUME NEW I, NEW D, NEW pairs, OneToOne(pairs, I, D), NEW match, match = MatchOf(pairs)
    PROVE  PairsAsMatch(match, pairs, I, D)
  <1>1. DOMAIN match = {p[1] : p \in pairs}
      BY DEF MatchOf
  <1>2. \A p \in pairs : p = <<p[1], p[2]>> /\ p[1] \in I /\ p[2] \in D
      BY DEF OneToOne
  <1>3. ASSUME NEW p \in pairs PROVE p[1] \in DOMAIN match /\ match[p[1]] = p[2]
    <2>1. PICK q : q = CHOOSE r \in pairs : r[1] = p[1]
        OBVIOUS
    <2>2. q \in pairs /\ q[1] = p[1]
        BY <2>1
    <2>3. q = p
        BY <2>2 DEF OneToOne
    <2>4. match[p[1]] = q[2]
        BY <2>1 DEF MatchOf
    <2>5. QED BY <1>1, <2>3, <2>4
  <1>4. ASSUME NEW i \in DOMAIN match
        PROVE  <<i, match[i]>> \in pairs /\ i \in I /\ match[i] \in D
    <2>1. PICK p \in pairs : i = p[1]
        BY <1>1
    <2>2. match[i] = p[2]
        BY <1>3, <2>1
    <2>3. QED BY <1>2, <2>1, <2>2
  <1>5. match \in [DOMAIN match -> D]
    <2>1. match = [i \in DOMAIN match |-> match[i]]
        BY <1>1 DEF MatchOf
    <2>2. QED BY <1>4, <2>1
  <1>6. ASSUME NEW i \in DOMAIN match, NEW j \in DOMAIN match, match[i] = match[j] PROVE i = j
    <2>1. PICK p \in pairs, q \in pairs : p = <<i, match[i]>> /\ q = <<j, match[j]>>
        BY <1>4
    <2>2. p[1] = i /\ q[1] = j /\ p[2] = q[2]
        BY <1>6, <2>1
    <2>3. p = q
        BY <2>2 DEF OneToOne
    <2>4. QED BY <2>2, <2>3
  <1>7. QED BY <1>3, <1>4, <1>5, <1>6 DEF PairsAsMatch

\* The detections without a pair, each once and in their order.
LeftOver(fresh, pairs, D) ==
    /\ fresh \in Seq(D)
    /\ \A j, k \in 1..Len(fresh) : j < k => fresh[j] < fresh[k]
    /\ \A d \in D : (\E k \in 1..Len(fresh) : fresh[k] = d) <=> (\A p \in pairs : p[2] # d)

\* They are what the comprehension over the unmatched detections returns.
LEMMA UnmatchedFacts ==
    ASSUME NEW dboxes \in Seq(Boxes), NEW pairs, NEW fresh, fresh = Unmatched(dboxes, pairs)
    PROVE  LeftOver(fresh, pairs, DOMAIN dboxes)
  <1>1. PICK m, D : m \in Nat /\ m = Len(dboxes) /\ D = 1..m /\ D = DOMAIN dboxes
      OBVIOUS
  <1>2. PICK l : l = [d \in D |-> d]
      OBVIOUS
  <1>3. l \in Seq(D) /\ Len(l) = m /\ \A d \in D : l[d] = d
      BY <1>1, <1>2
  <1>4. PICK S : S = {d \in D : \A p \in pairs : p[2] # d}
      OBVIOUS
  <1>5. fresh = Selected(l, S)
      BY <1>1, <1>2, <1>4 DEF Unmatched
  <1>6. fresh \in Seq(D)
      BY <1>3, <1>5, SelectedPlaces
  <1>7. PICK at : Positions(at, fresh, l, S, m)
      BY <1>3, <1>5, SelectedPlaces
  <1>8. /\ at \in [1..Len(fresh) -> D]
        /\ \A j, k \in 1..Len(fresh) : j < k => at[j] < at[k]
        /\ \A k \in 1..Len(fresh) : fresh[k] = l[at[k]] /\ l[at[k]] \in S
        /\ \A d \in D : l[d] \in S => \E k \in 1..Len(fresh) : at[k] = d
      BY <1>1, <1>7 DEF Positions
  <1>9. \A k \in 1..Len(fresh) : fresh[k] = at[k] /\ fresh[k] \in S
      BY <1>3, <1>8
  <1>10. \A j, k \in 1..Len(fresh) : j < k => fresh[j] < fresh[k]
      BY <1>8, <1>9
  <1>11. \A d \in D : (\E k \in 1..Len(fresh) : fresh[k] = d) <=> d \in S
      BY <1>3, <1>8, <1>9
  <1>12. QED BY <1>1, <1>4, <1>6, <1>10, <1>11 DEF LeftOver

\* Every detection goes to one active track or becomes a new one, and a track gets one at most.
Shared(match, fresh, D) ==
    /\ DOMAIN match \subseteq DOMAIN active
    /\ match \in [DOMAIN match -> D]
    /\ \A i, j \in DOMAIN match : match[i] = match[j] => i = j
    /\ fresh \in Seq(D)
    /\ \A j, k \in 1..Len(fresh) : fresh[j] = fresh[k] => j = k
    /\ \A i \in DOMAIN match, k \in 1..Len(fresh) : match[i] # fresh[k]
    /\ \A d \in D : (\E i \in DOMAIN match : match[i] = d) \/ (\E k \in 1..Len(fresh) : fresh[k] = d)

\* NoneBetter, said of match.
BestMatch(dboxes, match) ==
    \A i \in DOMAIN active, d \in DOMAIN dboxes :
        AtLeast(Iou(active[i].box, dboxes[d]), Threshold) =>
            \E j \in DOMAIN match :
                /\ j = i \/ match[j] = d
                /\ AtLeast(Iou(active[j].box, dboxes[match[j]]), Iou(active[i].box, dboxes[d]))

\* So the matching shares out the detections of a frame, as well as can be.
LEMMA MatchingShares ==
    ASSUME TypeOK, NEW dboxes \in Seq(Boxes),
           NEW pairs, pairs = GreedyMatch([i \in DOMAIN active |-> active[i].box], dboxes),
           NEW match, match = MatchOf(pairs),
           NEW fresh, fresh = Unmatched(dboxes, pairs)
    PROVE  Shared(match, fresh, DOMAIN dboxes) /\ BestMatch(dboxes, match)
  <1>1. PICK tboxes : tboxes = [i \in DOMAIN active |-> active[i].box]
      OBVIOUS
  <1>2. tboxes \in Seq(Boxes) /\ DOMAIN tboxes = DOMAIN active
    <2>1. PICK R : R = [id : 1..(nextId - 1), box : Boxes, age : 0..MaxAge]
        OBVIOUS
    <2>2. active \in Seq(R) /\ \A x \in R : x.box \in Boxes
        BY <2>1 DEF TypeOK
    <2>3. /\ DOMAIN active = 1..Len(active) /\ Len(active) \in Nat
          /\ \A i \in DOMAIN active : active[i].box \in Boxes
        BY <2>2
    <2>4. PICK n \in Nat : n = Len(active) /\ DOMAIN active = 1..n
        BY <2>3
    <2>5. tboxes \in [1..n -> Boxes]
        BY <1>1, <2>3, <2>4
    <2>6. QED BY <2>4, <2>5
  <1>3. OneToOne(pairs, DOMAIN active, DOMAIN dboxes) /\ NoneBetter(pairs, tboxes, dboxes)
      BY <1>1, <1>2, GreedyMatchFacts
  <1>4. /\ DOMAIN match \subseteq DOMAIN active
        /\ match \in [DOMAIN match -> DOMAIN dboxes]
        /\ \A i, j \in DOMAIN match : match[i] = match[j] => i = j
        /\ \A i \in DOMAIN match : <<i, match[i]>> \in pairs
        /\ \A p \in pairs : p[1] \in DOMAIN match /\ match[p[1]] = p[2]
    <2>1. PairsAsMatch(match, pairs, DOMAIN active, DOMAIN dboxes)
        BY <1>3, MatchFacts
    <2>2. QED BY <2>1 DEF PairsAsMatch
  <1>5. /\ fresh \in Seq(DOMAIN dboxes)
        /\ \A j, k \in 1..Len(fresh) : j < k => fresh[j] < fresh[k]
        /\ \A d \in DOMAIN dboxes :
              (\E k \in 1..Len(fresh) : fresh[k] = d) <=> (\A p \in pairs : p[2] # d)
    <2>1. LeftOver(fresh, pairs, DOMAIN dboxes)
        BY UnmatchedFacts
    <2>2. QED BY <2>1 DEF LeftOver
  <1>6. \A j, k \in 1..Len(fresh) : fresh[j] = fresh[k] => j = k
    <2>1. \A k \in 1..Len(fresh) : fresh[k] \in Nat
        BY <1>5
    <2>2. QED BY <1>5, <2>1
  <1>7. \A i \in DOMAIN match, k \in 1..Len(fresh) : match[i] # fresh[k]
    <2>1. TAKE i \in DOMAIN match, k \in 1..Len(fresh)
    <2>2. fresh[k] \in DOMAIN dboxes
        BY <1>5
    <2>3. PICK p \in pairs : p = <<i, match[i]>>
        BY <1>4
    <2>4. p[2] # fresh[k]
        BY <1>5, <2>2
    <2>5. QED BY <2>3, <2>4
  <1>8. \A d \in DOMAIN dboxes :
            (\E i \in DOMAIN match : match[i] = d) \/ (\E k \in 1..Len(fresh) : fresh[k] = d)
    <2>1. TAKE d \in DOMAIN dboxes
    <2>2. CASE \A p \in pairs : p[2] # d
        BY <1>5, <2>2
    <2>3. ASSUME NEW p \in pairs, p[2] = d PROVE \E i \in DOMAIN match : match[i] = d
        BY <1>4, <2>3
    <2>4. QED BY <2>2, <2>3
  <1>9. Shared(match, fresh, DOMAIN dboxes)
      BY <1>4, <1>5, <1>6, <1>7, <1>8 DEF Shared
  <1>10. BestMatch(dboxes, match)
    <2>1. SUFFICES ASSUME NEW i \in DOMAIN active, NEW d \in DOMAIN dboxes,
                          AtLeast(Iou(active[i].box, dboxes[d]), Threshold)
                   PROVE  \E j \in DOMAIN match :
                            /\ j = i \/ match[j] = d
                            /\ AtLeast(Iou(active[j].box, dboxes[match[j]]), Iou(active[i].box, dboxes[d]))
        BY DEF BestMatch
    <2>2. tboxes[i] = active[i].box
        BY <1>1
    <2>3. PICK p \in pairs : /\ p[1] = i \/ p[2] = d
                             /\ AtLeast(Iou(tboxes[p[1]], dboxes[p[2]]), Iou(tboxes[i], dboxes[d]))
        BY <1>2, <1>3, <2>1, <2>2 DEF NoneBetter
    <2>4. p[1] \in DOMAIN match /\ match[p[1]] = p[2] /\ p[1] \in DOMAIN active
        BY <1>4
    <2>5. tboxes[p[1]] = active[p[1]].box
        BY <1>1, <2>4
    <2>6. QED BY <2>2, <2>3, <2>4, <2>5
  <1>11. QED BY <1>9, <1>10

-----------------------------------------------------------------------------
(* One frame.                                                               *)

\* No track is empty, and no detection is of a frame to come.
History ==
    /\ \A t \in DOMAIN tracks : tracks[t] # <<>>
    /\ \A e \in passed : e.update <= updates

IInv == TypeOK /\ TracksPartitionDetections /\ ActiveIsRecent /\ History

IdsDistinct == \A i, j \in DOMAIN active : active[i].id = active[j].id => i = j

FrameBoxes(dboxes) ==
    /\ dboxes \in Seq(Boxes) /\ Len(dboxes) <= MaxDetections
    /\ updates + 1 \in 1..MaxFrames

\* What is in the active set.
LEMMA ActiveTyped ==
    ASSUME TypeOK
    PROVE  /\ DOMAIN active = 1..Len(active) /\ Len(active) \in Nat
           /\ \A i \in DOMAIN active : /\ active[i] \in [id : 1..(nextId - 1), box : Boxes, age : 0..MaxAge]
                                       /\ active[i].id \in 1..(nextId - 1)
                                       /\ active[i].box \in Boxes
                                       /\ active[i].age \in 0..MaxAge
  <1>1. PICK R : R = [id : 1..(nextId - 1), box : Boxes, age : 0..MaxAge]
      OBVIOUS
  <1>2. active \in Seq(R)
      BY <1>1 DEF TypeOK
  <1>3. /\ DOMAIN active = 1..Len(active) /\ Len(active) \in Nat
        /\ \A i \in DOMAIN active : active[i] \in R
      BY <1>2
  <1>4. \A x \in R : x.id \in 1..(nextId - 1) /\ x.box \in Boxes /\ x.age \in 0..MaxAge
      BY <1>1
  <1>5. QED BY <1>1, <1>3, <1>4

\* A detection of the frame has its type, and is of the update that is under way.
LEMMA DetectionTyped ==
    ASSUME NEW dboxes, FrameBoxes(dboxes), NEW d \in DOMAIN dboxes
    PROVE  /\ Detection(dboxes, d) \in Detections
           /\ Detection(dboxes, d).update = updates + 1
           /\ Detection(dboxes, d).at = d
           /\ Detection(dboxes, d).box = dboxes[d]
  <1>1. d \in 1..MaxDetections /\ dboxes[d] \in Boxes
      BY TrackerAssumption DEF FrameBoxes
  <1>2. QED BY <1>1 DEF FrameBoxes, Detection, Detections

\* c is the elements of a, then those of b.
Joins(c, a, b, V) ==
    /\ c \in Seq(V) /\ Len(c) = Len(a) + Len(b)
    /\ \A k \in 1..Len(a) : c[k] = a[k]
    /\ \A k \in 1..Len(b) : c[Len(a) + k] = b[k]

\* Which is what the concatenation of two lists is.
LEMMA Joining ==
    ASSUME NEW V, NEW a \in Seq(V), NEW b \in Seq(V), NEW c, c = a \o b
    PROVE  Joins(c, a, b, V)
  BY DEF Joins

\* Tracks that got a detection have it at their end, new ones have their first, the others
\* are as they were.
TracksGrow(dboxes, match, fresh) ==
    /\ tracks' \in Seq(Seq(Detections))
    /\ Len(tracks') = Len(tracks) + Len(fresh)
    /\ \A t \in 1..Len(tracks) :
          (\A i \in DOMAIN match : active[i].id # t) => tracks'[t] = tracks[t]
    /\ \A i \in DOMAIN match :
          /\ active[i].id \in 1..Len(tracks)
          /\ tracks'[active[i].id] = Append(tracks[active[i].id], Detection(dboxes, match[i]))
    /\ \A k \in 1..Len(fresh) : tracks'[Len(tracks) + k] = <<Detection(dboxes, fresh[k])>>

\* Assign lets the tracks grow so: no two active tracks have one id.
LEMMA TracksAfter ==
    ASSUME TypeOK, IdsDistinct, NEW dboxes, FrameBoxes(dboxes),
           NEW match, NEW fresh, Shared(match, fresh, DOMAIN dboxes), Assign(dboxes, match, fresh)
    PROVE  TracksGrow(dboxes, match, fresh)
  <1>1. PICK N, T : /\ N \in Nat /\ N = Len(tracks) /\ N = nextId - 1 /\ T = Seq(Detections)
                     /\ tracks \in Seq(T) /\ DOMAIN tracks = 1..N
    <2>1. tracks \in Seq(Seq(Detections)) /\ Len(tracks) = nextId - 1
        BY DEF TypeOK
    <2>2. Len(tracks) \in Nat /\ DOMAIN tracks = 1..Len(tracks)
        BY <2>1
    <2>3. QED BY <2>1, <2>2
  <1>2. \A t \in 1..N : tracks[t] \in T
      BY <1>1
  <1>3. \A d \in DOMAIN dboxes : Detection(dboxes, d) \in Detections
      BY DetectionTyped
  <1>4. PICK K \in Nat : K = Len(fresh) /\ DOMAIN fresh = 1..K /\ \A k \in 1..K : fresh[k] \in DOMAIN dboxes
      BY DEF Shared
  <1>5. \A i \in DOMAIN match : /\ i \in DOMAIN active /\ match[i] \in DOMAIN dboxes
                               /\ active[i].id \in 1..N
      BY <1>1, ActiveTyped DEF Shared
  <1>6. ASSUME NEW i \in DOMAIN match
        PROVE  Extended(active[i].id, dboxes, match)
                  = Append(tracks[active[i].id], Detection(dboxes, match[i]))
    <2>1. PICK mine : mine = {j \in DOMAIN match : active[j].id = active[i].id}
        OBVIOUS
    <2>2. mine = {i}
        BY <1>5, <2>1 DEF IdsDistinct
    <2>3. (CHOOSE j \in mine : TRUE) = i /\ mine # {}
        BY <2>2
    <2>4. QED BY <2>1, <2>3 DEF Extended
  <1>7. ASSUME NEW t \in 1..N, \A i \in DOMAIN match : active[i].id # t
        PROVE  Extended(t, dboxes, match) = tracks[t]
    <2>1. {j \in DOMAIN match : active[j].id = t} = {}
        BY <1>7
    <2>2. QED BY <2>1 DEF Extended
  <1>8. \A e \in Detections : <<e>> \in T /\ \A s \in T : Append(s, e) \in T
      BY <1>1
  <1>9. \A t \in 1..N : Extended(t, dboxes, match) \in T
    <2>1. TAKE t \in 1..N
    <2>2. CASE \A i \in DOMAIN match : active[i].id # t
        BY <1>2, <1>7, <2>2
    <2>3. ASSUME NEW i \in DOMAIN match, active[i].id = t PROVE Extended(t, dboxes, match) \in T
      <3>1. Extended(t, dboxes, match) = Append(tracks[t], Detection(dboxes, match[i]))
          BY <1>6, <2>3
      <3>2. tracks[t] \in T /\ Detection(dboxes, match[i]) \in Detections
          BY <1>2, <1>3, <1>5
      <3>3. QED BY <1>8, <3>1, <3>2
    <2>4. QED BY <2>2, <2>3
  <1>10. PICK ext : ext = [t \in DOMAIN tracks |-> Extended(t, dboxes, match)]
      OBVIOUS
  <1>11. PICK new : new = [k \in DOMAIN fresh |-> <<Detection(dboxes, fresh[k])>>]
      OBVIOUS
  <1>12. ext \in Seq(T) /\ Len(ext) = N
    <2>1. ext \in [1..N -> T]
        BY <1>1, <1>9, <1>10
    <2>2. N \in Nat
        BY <1>1
    <2>3. QED BY <2>1, <2>2
  <1>13. new \in Seq(T) /\ Len(new) = K
    <2>1. \A k \in 1..K : <<Detection(dboxes, fresh[k])>> \in T
        BY <1>3, <1>4, <1>8
    <2>2. new \in [1..K -> T]
        BY <1>4, <1>11, <2>1
    <2>3. QED BY <2>2
  <1>14. tracks' = ext \o new
      BY <1>10, <1>11 DEF Assign
  <1>15. /\ tracks' \in Seq(T) /\ Len(tracks') = N + K
         /\ \A t \in 1..N : tracks'[t] = ext[t]
         /\ \A k \in 1..K : tracks'[N + k] = new[k]
    <2>1. PICK c : c = ext \o new
        OBVIOUS
    <2>2. /\ c \in Seq(T) /\ Len(c) = N + K
          /\ \A t \in 1..N : c[t] = ext[t]
          /\ \A k \in 1..K : c[N + k] = new[k]
      <3>1. ext \in Seq(T) /\ new \in Seq(T)
          BY <1>12, <1>13
      <3>2. Joins(c, ext, new, T)
          BY <2>1, <3>1, Joining
      <3>3. QED BY <1>12, <1>13, <3>2 DEF Joins
    <2>3. QED BY <1>14, <2>1, <2>2
  <1>16. \A t \in 1..N : tracks'[t] = Extended(t, dboxes, match)
      BY <1>1, <1>10, <1>15
  <1>17. \A k \in 1..K : tracks'[N + k] = <<Detection(dboxes, fresh[k])>>
      BY <1>4, <1>11, <1>15
  <1>18. QED
      BY <1>1, <1>4, <1>5, <1>6, <1>7, <1>15, <1>16, <1>17 DEF TracksGrow

\* The tracks that were active and the new ones, before any is dropped.
AllAfter(all, dboxes, match, fresh) ==
    /\ all \in Seq([id : 1..(nextId - 1 + Len(fresh)), box : Boxes, age : 0..(MaxAge + 1)])
    /\ Len(all) = Len(active) + Len(fresh)
    /\ \A i \in 1..Len(active) :
          /\ all[i].id = active[i].id
          /\ i \in DOMAIN match => all[i].age = 0 /\ all[i].box = dboxes[match[i]]
          /\ i \notin DOMAIN match => all[i].age = active[i].age + 1 /\ all[i].box = active[i].box
    /\ \A k \in 1..Len(fresh) :
          /\ all[Len(active) + k].id = nextId + k - 1
          /\ all[Len(active) + k].age = 0
          /\ all[Len(active) + k].box = dboxes[fresh[k]]

\* Who is not too old stays, in its place.
Stays(at, all) == Positions(at, active', all, {a \in ToSet(all) : Survives(a)}, Len(all))

\* Assign ages the active set, adds the new tracks and drops who is too old.
LEMMA ActiveAfter ==
    ASSUME TypeOK, NEW dboxes, FrameBoxes(dboxes),
           NEW match, NEW fresh, Shared(match, fresh, DOMAIN dboxes), Assign(dboxes, match, fresh)
    PROVE  \E all, at : AllAfter(all, dboxes, match, fresh) /\ Stays(at, all) /\ active' \in Seq(ToSet(all))
  <1>1. PICK n \in Nat : n = Len(active) /\ DOMAIN active = 1..n
      BY ActiveTyped
  <1>2. PICK K \in Nat : K = Len(fresh) /\ DOMAIN fresh = 1..K /\ \A k \in 1..K : fresh[k] \in DOMAIN dboxes
      BY DEF Shared
  <1>3. \A d \in DOMAIN dboxes : dboxes[d] \in Boxes
      BY DEF FrameBoxes
  <1>4. \A i \in DOMAIN match : i \in 1..n /\ match[i] \in DOMAIN dboxes
      BY <1>1 DEF Shared
  <1>5. PICK R : R = [id : 1..(nextId - 1 + K), box : Boxes, age : 0..(MaxAge + 1)]
      OBVIOUS
  <1>6. nextId \in Nat \ {0} /\ MaxAge \in Nat
      BY TrackerAssumption DEF TypeOK
  <1>7. ASSUME NEW i \in 1..n
        PROVE  LET a == Aged(i, dboxes, match) IN
               /\ a \in R
               /\ a.id = active[i].id
               /\ i \in DOMAIN match => a.age = 0 /\ a.box = dboxes[match[i]]
               /\ i \notin DOMAIN match => a.age = active[i].age + 1 /\ a.box = active[i].box
    <2>1. PICK x : x = active[i]
        OBVIOUS
    <2>2. /\ x \in [id : 1..(nextId - 1), box : Boxes, age : 0..MaxAge]
          /\ x.id \in 1..(nextId - 1) /\ x.box \in Boxes /\ x.age \in 0..MaxAge
        BY <1>1, <2>1, ActiveTyped
    <2>3. x.id \in 1..(nextId - 1 + K) /\ x.age + 1 \in 0..(MaxAge + 1) /\ 0 \in 0..(MaxAge + 1)
        BY <1>6, <2>2
    <2>4. CASE i \in DOMAIN match
      <3>1. PICK y \in Boxes : y = dboxes[match[i]]
          BY <1>3, <1>4, <2>4
      <3>2. Aged(i, dboxes, match) = [x EXCEPT !.age = 0, !.box = y]
          BY <2>1, <2>4, <3>1 DEF Aged
      <3>3. [x EXCEPT !.age = 0, !.box = y] \in R
          BY <1>5, <2>2, <2>3
      <3>4. /\ [x EXCEPT !.age = 0, !.box = y].id = x.id
            /\ [x EXCEPT !.age = 0, !.box = y].age = 0
            /\ [x EXCEPT !.age = 0, !.box = y].box = y
          BY <2>2
      <3>5. QED BY <2>1, <2>4, <3>1, <3>2, <3>3, <3>4
    <2>5. CASE i \notin DOMAIN match
      <3>1. Aged(i, dboxes, match) = [x EXCEPT !.age = @ + 1]
          BY <2>1, <2>5 DEF Aged
      <3>2. [x EXCEPT !.age = @ + 1] \in R
          BY <1>5, <2>2, <2>3
      <3>3. /\ [x EXCEPT !.age = @ + 1].id = x.id
            /\ [x EXCEPT !.age = @ + 1].age = x.age + 1
            /\ [x EXCEPT !.age = @ + 1].box = x.box
          BY <2>2
      <3>4. QED BY <2>1, <2>5, <3>1, <3>2, <3>3
    <2>6. QED BY <2>4, <2>5
  <1>8. PICK old : old = [i \in DOMAIN active |-> Aged(i, dboxes, match)]
      OBVIOUS
  <1>9. PICK new : new = [k \in DOMAIN fresh |->
                            [id |-> nextId + k - 1, box |-> dboxes[fresh[k]], age |-> 0]]
      OBVIOUS
  <1>10. old \in Seq(R) /\ Len(old) = n
    <2>1. old \in [1..n -> R]
        BY <1>1, <1>7, <1>8
    <2>2. QED BY <2>1
  <1>11. \A k \in 1..K : /\ new[k] \in R
                        /\ new[k].id = nextId + k - 1
                        /\ new[k].age = 0
                        /\ new[k].box = dboxes[fresh[k]]
    <2>1. TAKE k \in 1..K
    <2>2. nextId + k - 1 \in 1..(nextId - 1 + K) /\ dboxes[fresh[k]] \in Boxes /\ 0 \in 0..(MaxAge + 1)
        BY <1>2, <1>3, <1>6
    <2>3. QED BY <1>2, <1>5, <1>9, <2>2
  <1>12. new \in Seq(R) /\ Len(new) = K
    <2>1. new \in [1..K -> R]
        BY <1>2, <1>9, <1>11
    <2>2. QED BY <2>1
  <1>13. PICK all : all = old \o new
      OBVIOUS
  <1>14. /\ all \in Seq(R) /\ Len(all) = n + K
         /\ \A i \in 1..n : all[i] = old[i]
         /\ \A k \in 1..K : all[n + k] = new[k]
    <2>1. old \in Seq(R) /\ new \in Seq(R)
        BY <1>10, <1>12
    <2>2. Joins(all, old, new, R)
        BY <1>13, <2>1, Joining
    <2>3. QED BY <1>10, <1>12, <2>2 DEF Joins
  <1>15. AllAfter(all, dboxes, match, fresh)
    <2>1. \A i \in 1..n :
            /\ all[i].id = active[i].id
            /\ i \in DOMAIN match => all[i].age = 0 /\ all[i].box = dboxes[match[i]]
            /\ i \notin DOMAIN match => all[i].age = active[i].age + 1 /\ all[i].box = active[i].box
        BY <1>1, <1>7, <1>8, <1>14
    <2>2. \A k \in 1..K :
            /\ all[n + k].id = nextId + k - 1
            /\ all[n + k].age = 0
            /\ all[n + k].box = dboxes[fresh[k]]
        BY <1>11, <1>14
    <2>3. QED BY <1>1, <1>2, <1>5, <1>14, <2>1, <2>2 DEF AllAfter
  <1>16. active' = Selected(all, {a \in ToSet(all) : Survives(a)})
      BY <1>8, <1>9, <1>13 DEF Assign
  <1>17. all \in Seq(ToSet(all))
      BY <1>14 DEF ToSet
  <1>18. PICK S : S = {a \in ToSet(all) : Survives(a)}
      OBVIOUS
  <1>19. active' \in Seq(ToSet(all)) /\ \E at : Positions(at, active', all, S, Len(all))
    <2>1. PICK l : l = Selected(all, S)
        OBVIOUS
    <2>2. l \in Seq(ToSet(all)) /\ \E at : Positions(at, l, all, S, Len(all))
        BY <1>17, <2>1, SelectedPlaces
    <2>3. QED BY <1>16, <1>18, <2>1, <2>2
  <1>20. QED BY <1>15, <1>18, <1>19 DEF Stays

-----------------------------------------------------------------------------
(* What a frame does, in the terms the invariant is about.                 *)

\* A frame with these detections, matched so.
FrameDone(dboxes, match, fresh) ==
    /\ FrameBoxes(dboxes) /\ frame < MaxFrames /\ frame' = frame + 1
    /\ Shared(match, fresh, DOMAIN dboxes)
    /\ BestMatch(dboxes, match)
    /\ TracksGrow(dboxes, match, fresh)
    /\ \E all, at : AllAfter(all, dboxes, match, fresh) /\ Stays(at, all) /\ active' \in Seq(ToSet(all))
    /\ nextId' = nextId + Len(fresh)
    /\ passed' = passed \cup {Detection(dboxes, d) : d \in DOMAIN dboxes}
    /\ updates' = updates + 1

\* A frame that is read does all that.
LEMMA FrameFacts ==
    ASSUME IInv, NEW dboxes \in SeqOf(Boxes, MaxDetections), TrackFrame(dboxes)
    PROVE  \E match, fresh : FrameDone(dboxes, match, fresh)
  <1>1. FrameBoxes(dboxes)
    <2>1. PICK m \in 0..MaxDetections : dboxes \in [1..m -> Boxes]
        BY DEF SeqOf
    <2>2. dboxes \in Seq(Boxes) /\ Len(dboxes) <= MaxDetections
        BY <2>1, TrackerAssumption
    <2>3. updates + 1 \in 1..MaxFrames
        BY TrackerAssumption DEF IInv, TypeOK, TrackFrame
    <2>4. QED BY <2>2, <2>3 DEF FrameBoxes
  <1>2. PICK pairs, match, fresh :
            /\ pairs = GreedyMatch([i \in DOMAIN active |-> active[i].box], dboxes)
            /\ match = MatchOf(pairs) /\ fresh = Unmatched(dboxes, pairs)
      OBVIOUS
  <1>3. Shared(match, fresh, DOMAIN dboxes) /\ BestMatch(dboxes, match)
      BY <1>1, <1>2, MatchingShares DEF IInv, FrameBoxes
  <1>4. Assign(dboxes, match, fresh)
      BY <1>2 DEF TrackFrame, Update
  <1>5. TracksGrow(dboxes, match, fresh)
      BY <1>1, <1>3, <1>4, TracksAfter DEF IInv, ActiveIsRecent, IdsDistinct
  <1>6. \E all, at : AllAfter(all, dboxes, match, fresh) /\ Stays(at, all) /\ active' \in Seq(ToSet(all))
      BY <1>1, <1>3, <1>4, ActiveAfter DEF IInv
  <1>7. QED BY <1>1, <1>3, <1>4, <1>5, <1>6 DEF FrameDone, TrackFrame, Assign

\* c is s with x at its end.
Extends(c, s, x) ==
    /\ Len(c) = Len(s) + 1
    /\ \A k \in 1..Len(s) : c[k] = s[k]
    /\ c[Len(s) + 1] = x /\ Last(c) = x
    /\ ToSet(c) = ToSet(s) \cup {x}
    /\ c # <<>>

\* Append does so.
LEMMA AppendExtends ==
    ASSUME NEW V, NEW s \in Seq(V), NEW x \in V, NEW c, c = Append(s, x)
    PROVE  Extends(c, s, x)
  <1>1. PICK n \in Nat : n = Len(s) /\ DOMAIN s = 1..n
      OBVIOUS
  <1>2. /\ c \in Seq(V) /\ Len(c) = n + 1 /\ DOMAIN c = 1..(n + 1)
        /\ \A k \in 1..n : c[k] = s[k]
        /\ c[n + 1] = x
      BY <1>1
  <1>3. ToSet(c) = ToSet(s) \cup {x}
      BY <1>1, <1>2 DEF ToSet
  <1>4. Last(c) = x
      BY <1>2 DEF Last
  <1>5. QED BY <1>1, <1>2, <1>3, <1>4 DEF Extends

\* The detection at place d goes to track t.
Takes(t, d, match, fresh) ==
    \/ \E i \in DOMAIN match : active[i].id = t /\ match[i] = d
    \/ \E k \in 1..Len(fresh) : t = Len(tracks) + k /\ fresh[k] = d

\* The detections of t before the frame.
Before(t) == IF t \in DOMAIN tracks THEN tracks[t] ELSE <<>>

\* Track t has none of them; it has the one at place d.
Misses(t, match, fresh) ==
    /\ t \in DOMAIN tracks /\ tracks'[t] = tracks[t]
    /\ \A d : ~Takes(t, d, match, fresh)

Gets(t, d, dboxes, match, fresh) ==
    /\ Takes(t, d, match, fresh)
    /\ \A e : Takes(t, e, match, fresh) => e = d
    /\ t \in DOMAIN tracks => \E i \in DOMAIN active : active[i].id = t
    /\ Extends(tracks'[t], Before(t), Detection(dboxes, d))

\* Every detection goes to one track, and every track gets one at most.
TakesWell(dboxes, match, fresh) ==
    /\ \A d \in DOMAIN dboxes : \E t \in DOMAIN tracks' : Takes(t, d, match, fresh)
    /\ \A s, t, d : Takes(s, d, match, fresh) /\ Takes(t, d, match, fresh) => s = t
    /\ \A t \in DOMAIN tracks' :
          Misses(t, match, fresh) \/ \E d \in DOMAIN dboxes : Gets(t, d, dboxes, match, fresh)

\* A match and the fresh detections share the frame out among the tracks, old and new.
LEMMA Taking ==
    ASSUME IInv, NEW dboxes, NEW match, NEW fresh, FrameDone(dboxes, match, fresh)
    PROVE  TakesWell(dboxes, match, fresh)
  <1>1. PICK N \in Nat, K \in Nat :
            /\ N = Len(tracks) /\ DOMAIN tracks = 1..N /\ N = nextId - 1
            /\ K = Len(fresh) /\ DOMAIN tracks' = 1..(N + K)
    <2>1. Len(tracks) \in Nat /\ DOMAIN tracks = 1..Len(tracks) /\ Len(tracks) = nextId - 1
      <3>1. tracks \in Seq(Seq(Detections)) /\ Len(tracks) = nextId - 1
          BY DEF IInv, TypeOK
      <3>2. QED BY <3>1
    <2>2. Len(fresh) \in Nat
        BY DEF FrameDone, Shared
    <2>3. tracks' \in Seq(Seq(Detections)) /\ Len(tracks') = Len(tracks) + Len(fresh)
        BY DEF FrameDone, TracksGrow
    <2>4. DOMAIN tracks' = 1..Len(tracks')
        BY <2>3
    <2>5. QED BY <2>1, <2>2, <2>3, <2>4
  <1>2. /\ DOMAIN match \subseteq DOMAIN active
        /\ \A i \in DOMAIN match : match[i] \in DOMAIN dboxes
        /\ \A i, j \in DOMAIN match : match[i] = match[j] => i = j
        /\ \A k \in 1..K : fresh[k] \in DOMAIN dboxes
        /\ \A j, k \in 1..K : fresh[j] = fresh[k] => j = k
        /\ \A i \in DOMAIN match, k \in 1..K : match[i] # fresh[k]
        /\ \A d \in DOMAIN dboxes : (\E i \in DOMAIN match : match[i] = d) \/ (\E k \in 1..K : fresh[k] = d)
    <2>1. Shared(match, fresh, DOMAIN dboxes)
        BY DEF FrameDone
    <2>2. \A k \in 1..K : fresh[k] \in DOMAIN dboxes
        BY <1>1, <2>1 DEF Shared
    <2>3. QED BY <1>1, <2>1, <2>2 DEF Shared
  <1>3. /\ \A t \in 1..N : (\A i \in DOMAIN match : active[i].id # t) => tracks'[t] = tracks[t]
        /\ \A i \in DOMAIN match :
              /\ active[i].id \in 1..N
              /\ tracks'[active[i].id] = Append(tracks[active[i].id], Detection(dboxes, match[i]))
        /\ \A k \in 1..K : tracks'[N + k] = <<Detection(dboxes, fresh[k])>>
      BY <1>1 DEF FrameDone, TracksGrow
  <1>4. \A i, j \in DOMAIN active : active[i].id = active[j].id => i = j
      BY DEF IInv, ActiveIsRecent
  <1>5. \A d \in DOMAIN dboxes : Detection(dboxes, d) \in Detections
      BY DetectionTyped DEF FrameDone
  <1>6. \A t, d : Takes(t, d, match, fresh) <=>
            \/ \E i \in DOMAIN match : active[i].id = t /\ match[i] = d
            \/ \E k \in 1..K : t = N + k /\ fresh[k] = d
      BY <1>1 DEF Takes
  <1>7. \A d \in DOMAIN dboxes : \E t \in DOMAIN tracks' : Takes(t, d, match, fresh)
    <2>1. TAKE d \in DOMAIN dboxes
    <2>2. ASSUME NEW i \in DOMAIN match, match[i] = d
          PROVE  active[i].id \in DOMAIN tracks' /\ Takes(active[i].id, d, match, fresh)
        BY <1>1, <1>3, <1>6, <2>2
    <2>3. ASSUME NEW k \in 1..K, fresh[k] = d
          PROVE  N + k \in DOMAIN tracks' /\ Takes(N + k, d, match, fresh)
        BY <1>1, <1>6, <2>3
    <2>4. QED BY <1>2, <2>2, <2>3
  <1>8. \A s, t, d : Takes(s, d, match, fresh) /\ Takes(t, d, match, fresh) => s = t
      BY <1>2, <1>6
  <1>9. ASSUME NEW k \in 1..K PROVE Gets(N + k, fresh[k], dboxes, match, fresh)
    <2>1. N + k \notin DOMAIN tracks
        BY <1>1
    <2>2. Before(N + k) = <<>>
        BY <2>1 DEF Before
    <2>3. PICK x \in Detections : x = Detection(dboxes, fresh[k])
        BY <1>2, <1>5
    <2>4. tracks'[N + k] = Append(<<>>, x)
        BY <1>3, <2>3
    <2>5. Extends(tracks'[N + k], Before(N + k), x)
      <3>1. <<>> \in Seq(Detections)
          OBVIOUS
      <3>2. Extends(tracks'[N + k], <<>>, x)
          BY <2>4, <3>1, AppendExtends
      <3>3. QED BY <2>2, <3>2
    <2>6. Takes(N + k, fresh[k], match, fresh)
        BY <1>6
    <2>7. ASSUME NEW e, Takes(N + k, e, match, fresh) PROVE e = fresh[k]
      <3>1. \A i \in DOMAIN match : active[i].id # N + k
          BY <1>3
      <3>2. PICK j \in 1..K : N + k = N + j /\ fresh[j] = e
          BY <1>6, <2>7, <3>1
      <3>3. j = k
          BY <3>2
      <3>4. QED BY <3>2, <3>3
    <2>8. QED BY <2>1, <2>3, <2>5, <2>6, <2>7 DEF Gets
  <1>10. ASSUME NEW i \in DOMAIN match PROVE Gets(active[i].id, match[i], dboxes, match, fresh)
    <2>1. PICK t \in 1..N : t = active[i].id
        BY <1>3
    <2>2. PICK x \in Detections : x = Detection(dboxes, match[i])
        BY <1>2, <1>5
    <2>3. PICK s \in Seq(Detections) : s = tracks[t] /\ s = Before(t)
      <3>1. tracks \in Seq(Seq(Detections))
          BY DEF IInv, TypeOK
      <3>2. tracks[t] \in Seq(Detections)
          BY <1>1, <3>1
      <3>3. QED BY <1>1, <3>2 DEF Before
    <2>4. tracks'[t] = Append(s, x)
        BY <1>3, <2>1, <2>2, <2>3
    <2>5. Extends(tracks'[t], Before(t), x)
      <3>1. Extends(tracks'[t], s, x)
          BY <2>4, AppendExtends
      <3>2. QED BY <2>3, <3>1
    <2>6. Takes(t, match[i], match, fresh)
        BY <1>6, <2>1
    <2>7. ASSUME NEW e, Takes(t, e, match, fresh) PROVE e = match[i]
      <3>1. \A k \in 1..K : t # N + k
          OBVIOUS
      <3>2. PICK j \in DOMAIN match : active[j].id = t /\ match[j] = e
          BY <1>6, <2>7, <3>1
      <3>3. j = i
          BY <1>2, <1>4, <2>1, <3>2
      <3>4. QED BY <3>2, <3>3
    <2>8. \E j \in DOMAIN active : active[j].id = t
        BY <1>2, <2>1
    <2>9. QED BY <2>1, <2>2, <2>5, <2>6, <2>7, <2>8 DEF Gets
  <1>11. ASSUME NEW t \in DOMAIN tracks'
         PROVE  Misses(t, match, fresh) \/ \E d \in DOMAIN dboxes : Gets(t, d, dboxes, match, fresh)
    <2>1. CASE \E i \in DOMAIN match : active[i].id = t
        BY <1>2, <1>10, <2>1
    <2>2. CASE t \notin 1..N
      <3>1. PICK k \in 1..K : t = N + k
        <4>1. t - N \in 1..K /\ t = N + (t - N)
            BY <1>1, <2>2
        <4>2. QED BY <4>1
      <3>2. QED BY <1>2, <1>9, <3>1
    <2>3. CASE t \in 1..N /\ \A i \in DOMAIN match : active[i].id # t
      <3>1. \A k \in 1..K : t # N + k
          BY <2>3
      <3>2. \A d : ~Takes(t, d, match, fresh)
          BY <1>6, <2>3, <3>1
      <3>3. tracks'[t] = tracks[t]
          BY <1>3, <2>3
      <3>4. QED BY <1>1, <2>3, <3>2, <3>3 DEF Misses
    <2>4. QED BY <2>1, <2>2, <2>3
  <1>12. QED BY <1>7, <1>8, <1>11 DEF TakesWell

-----------------------------------------------------------------------------
(* A frame preserves each part of the invariant.                           *)

\* A frame keeps the types.
LEMMA FrameTypes ==
    ASSUME IInv, NEW dboxes, NEW match, NEW fresh, FrameDone(dboxes, match, fresh)
    PROVE  TypeOK'
  <1>1. /\ frame \in 0..MaxFrames /\ updates \in 0..frame
        /\ nextId \in Nat \ {0} /\ Len(tracks) = nextId - 1 /\ passed \subseteq Detections
        /\ MaxAge \in Nat /\ MaxFrames \in Nat
      BY TrackerAssumption DEF IInv, TypeOK
  <1>2. PICK K \in Nat : K = Len(fresh)
      BY DEF FrameDone, Shared
  <1>3. frame' \in 0..MaxFrames /\ updates' \in 0..frame' /\ nextId' = nextId + K /\ nextId' \in Nat \ {0}
      BY <1>1, <1>2 DEF FrameDone
  <1>4. tracks' \in Seq(Seq(Detections)) /\ Len(tracks') = nextId' - 1
      BY <1>1, <1>2, <1>3 DEF FrameDone, TracksGrow
  <1>5. passed' \subseteq Detections
      BY <1>1, DetectionTyped DEF FrameDone
  <1>6. active' \in Seq([id : 1..(nextId' - 1), box : Boxes, age : 0..MaxAge])
    <2>1. PICK all, at : /\ AllAfter(all, dboxes, match, fresh) /\ Stays(at, all)
                         /\ active' \in Seq(ToSet(all))
        BY DEF FrameDone
    <2>2. PICK R : R = [id : 1..(nextId - 1 + K), box : Boxes, age : 0..(MaxAge + 1)]
        OBVIOUS
    <2>3. PICK Q : Q = [id : 1..(nextId' - 1), box : Boxes, age : 0..MaxAge]
        OBVIOUS
    <2>4. all \in Seq(R)
        BY <1>2, <2>1, <2>2 DEF AllAfter
    <2>5. ToSet(all) \subseteq R
        BY <2>4 DEF ToSet
    <2>6. \A a \in R : a.age <= MaxAge => a \in Q
      <3>1. nextId - 1 + K = nextId' - 1
          BY <1>1, <1>3
      <3>2. \A n \in 0..(MaxAge + 1) : n <= MaxAge => n \in 0..MaxAge
          BY <1>1
      <3>3. QED BY <2>2, <2>3, <3>1, <3>2
    <2>7. \A k \in 1..Len(active') : active'[k] \in {a \in ToSet(all) : Survives(a)}
        BY <2>1 DEF Stays, Positions
    <2>8. \A k \in 1..Len(active') : active'[k] \in Q
        BY <2>5, <2>6, <2>7 DEF Survives
    <2>9. Len(active') \in Nat /\ active' \in [1..Len(active') -> ToSet(all)]
        BY <2>1
    <2>10. active' \in [1..Len(active') -> Q]
        BY <2>8, <2>9
    <2>11. active' \in Seq(Q)
        BY <2>9, <2>10
    <2>12. QED BY <2>3, <2>11
  <1>7. QED BY <1>3, <1>4, <1>5, <1>6 DEF TypeOK

\* What is known of the tracks before a frame.
TracksBefore ==
    /\ Len(tracks) \in Nat /\ DOMAIN tracks = 1..Len(tracks) /\ updates \in Nat
    /\ \A t \in DOMAIN tracks :
          /\ Len(tracks[t]) \in Nat \ {0} /\ DOMAIN tracks[t] = 1..Len(tracks[t])
          /\ Last(tracks[t]) = tracks[t][Len(tracks[t])]
          /\ \A k \in DOMAIN tracks[t] : /\ tracks[t][k] \in ToSet(tracks[t])
                                         /\ tracks[t][k].update \in 1..updates
    /\ \A t \in DOMAIN tracks : \A e \in ToSet(tracks[t]) : e.update \in 1..updates

\* These follow from the invariant.
LEMMA TracksKnown ==
    ASSUME IInv
    PROVE  TracksBefore
  <1>1. PICK T : T = Seq(Detections)
      OBVIOUS
  <1>2. tracks \in Seq(T) /\ updates \in Nat /\ \A e \in Detections : e.update \in Nat \ {0}
      BY <1>1 DEF IInv, TypeOK, Detections
  <1>3. Len(tracks) \in Nat /\ DOMAIN tracks = 1..Len(tracks)
      BY <1>2
  <1>4. ASSUME NEW t \in DOMAIN tracks
        PROVE  /\ Len(tracks[t]) \in Nat \ {0} /\ DOMAIN tracks[t] = 1..Len(tracks[t])
               /\ Last(tracks[t]) = tracks[t][Len(tracks[t])]
               /\ \A k \in DOMAIN tracks[t] : /\ tracks[t][k] \in ToSet(tracks[t])
                                              /\ tracks[t][k].update \in 1..updates
               /\ \A e \in ToSet(tracks[t]) : e.update \in 1..updates
    <2>1. PICK s \in Seq(Detections) : s = tracks[t]
        BY <1>1, <1>2
    <2>2. Len(s) \in Nat /\ DOMAIN s = 1..Len(s) /\ s # <<>>
        BY <2>1 DEF IInv, History
    <2>3. Len(s) # 0
        BY <2>2
    <2>4. \A k \in DOMAIN s : s[k] \in ToSet(s) /\ s[k] \in Detections
        BY DEF ToSet
    <2>5. \A e \in ToSet(s) : e \in Detections /\ e \in passed
      <3>1. \A e \in ToSet(s) : e \in Detections
          BY DEF ToSet
      <3>2. passed = UNION {ToSet(tracks[u]) : u \in DOMAIN tracks}
          BY DEF IInv, TracksPartitionDetections
      <3>3. QED BY <2>1, <3>1, <3>2
    <2>6. \A e \in ToSet(s) : e.update \in 1..updates
        BY <1>2, <2>5 DEF IInv, History
    <2>7. QED BY <2>1, <2>2, <2>3, <2>4, <2>6 DEF Last
  <1>5. QED BY <1>2, <1>3, <1>4 DEF TracksBefore

\* And of the detections of a frame: they are later than all the others, and not one twice.
LEMMA FrameIsNew ==
    ASSUME NEW dboxes, FrameBoxes(dboxes)
    PROVE  /\ \A d \in DOMAIN dboxes : Detection(dboxes, d).update = updates + 1
           /\ \A d, e \in DOMAIN dboxes : Detection(dboxes, d) = Detection(dboxes, e) => d = e
  <1>1. \A d \in DOMAIN dboxes : Detection(dboxes, d).update = updates + 1 /\ Detection(dboxes, d).at = d
      BY DetectionTyped
  <1>2. QED BY <1>1

\* A frame keeps the partition.
LEMMA FramePartitions ==
    ASSUME IInv, NEW dboxes, NEW match, NEW fresh, FrameDone(dboxes, match, fresh)
    PROVE  TracksPartitionDetections'
  <1> DEFINE D == DOMAIN dboxes
             Det(d) == Detection(dboxes, d)
             To(t, d) == Takes(t, d, match, fresh)
  <1>1. TracksBefore
      BY TracksKnown
  <1>2. TakesWell(dboxes, match, fresh)
      BY Taking
  <1>3. /\ \A d \in D : \E t \in DOMAIN tracks' : To(t, d)
        /\ \A s, t, d : To(s, d) /\ To(t, d) => s = t
        /\ \A t \in DOMAIN tracks' :
              Misses(t, match, fresh) \/ \E d \in D : Gets(t, d, dboxes, match, fresh)
      BY <1>2 DEF TakesWell
  <1>4. DOMAIN tracks \subseteq DOMAIN tracks'
    <2>1. /\ Len(tracks) \in Nat /\ DOMAIN tracks = 1..Len(tracks)
          /\ Len(fresh) \in Nat /\ Len(tracks') = Len(tracks) + Len(fresh)
          /\ DOMAIN tracks' = 1..Len(tracks')
      <3>1. tracks' \in Seq(Seq(Detections)) /\ Len(tracks') = Len(tracks) + Len(fresh)
          BY DEF FrameDone, TracksGrow
      <3>2. Len(fresh) \in Nat
          BY DEF FrameDone, Shared
      <3>3. DOMAIN tracks' = 1..Len(tracks')
          BY <3>1
      <3>4. QED BY <1>1, <3>1, <3>2, <3>3 DEF TracksBefore
    <2>2. QED BY <2>1
  <1>5. passed = UNION {ToSet(tracks[t]) : t \in DOMAIN tracks}
      BY DEF IInv, TracksPartitionDetections
  <1>6. passed' = passed \cup {Det(d) : d \in D}
      BY DEF FrameDone
  <1>7. \A d \in D : Det(d).update = updates + 1
      BY FrameIsNew DEF FrameDone
  <1>8. \A d, e \in D : Det(d) = Det(e) => d = e
      BY FrameIsNew DEF FrameDone
  <1> HIDE DEF Det, To
  <1>9. ASSUME NEW t \in DOMAIN tracks'
        PROVE  ToSet(tracks'[t]) = ToSet(Before(t)) \cup {Det(d) : d \in {e \in D : To(t, e)}}
    <2>1. CASE Misses(t, match, fresh)
        BY <2>1 DEF Misses, Before, To
    <2>2. ASSUME NEW d \in D, Gets(t, d, dboxes, match, fresh)
          PROVE  ToSet(tracks'[t]) = ToSet(Before(t)) \cup {Det(e) : e \in {e \in D : To(t, e)}}
      <3>1. {e \in D : To(t, e)} = {d}
          BY <2>2 DEF Gets, To
      <3>2. ToSet(tracks'[t]) = ToSet(Before(t)) \cup {Det(d)}
          BY <2>2 DEF Gets, Extends, Det
      <3>3. QED BY <3>1, <3>2
    <2>3. QED BY <1>3, <2>1, <2>2
  <1>10. \A t : t \in DOMAIN tracks => Before(t) = tracks[t]
      BY DEF Before
  <1>11. \A t : t \notin DOMAIN tracks => ToSet(Before(t)) = {}
      BY DEF Before, ToSet
  <1>12. passed' = UNION {ToSet(tracks'[t]) : t \in DOMAIN tracks'}
    <2>1. ASSUME NEW e \in passed' PROVE \E t \in DOMAIN tracks' : e \in ToSet(tracks'[t])
      <3>1. CASE e \in passed
        <4>1. PICK t \in DOMAIN tracks : e \in ToSet(tracks[t])
            BY <1>5, <3>1
        <4>2. QED BY <1>4, <1>9, <1>10, <4>1
      <3>2. ASSUME NEW d \in D, e = Det(d) PROVE \E t \in DOMAIN tracks' : e \in ToSet(tracks'[t])
        <4>1. PICK t \in DOMAIN tracks' : To(t, d)
            BY <1>3
        <4>2. QED BY <1>9, <3>2, <4>1
      <3>3. QED BY <1>6, <3>1, <3>2
    <2>2. ASSUME NEW t \in DOMAIN tracks', NEW e \in ToSet(tracks'[t]) PROVE e \in passed'
      <3>1. CASE e \in ToSet(Before(t))
        <4>1. t \in DOMAIN tracks /\ e \in ToSet(tracks[t])
            BY <1>10, <1>11, <3>1
        <4>2. QED BY <1>5, <1>6, <4>1
      <3>2. QED BY <1>6, <1>9, <3>1
    <2>3. QED BY <2>1, <2>2
  <1>13. ASSUME NEW s \in DOMAIN tracks', NEW t \in DOMAIN tracks', NEW e,
                e \in ToSet(tracks'[s]), e \in ToSet(tracks'[t])
         PROVE  s = t
    <2>1. \A u \in DOMAIN tracks' : e \in ToSet(tracks'[u]) =>
              \/ u \in DOMAIN tracks /\ e \in ToSet(tracks[u]) /\ e.update \in 1..updates
              \/ \E d \in D : e = Det(d) /\ To(u, d)
      <3>1. TAKE u \in DOMAIN tracks'
      <3>2. e \in ToSet(Before(u)) => u \in DOMAIN tracks /\ e \in ToSet(tracks[u])
          BY <1>10, <1>11
      <3>3. u \in DOMAIN tracks /\ e \in ToSet(tracks[u]) => e.update \in 1..updates
          BY <1>1 DEF TracksBefore
      <3>4. QED BY <1>9, <3>2, <3>3
    <2>2. updates + 1 \notin 1..updates
        BY <1>1 DEF TracksBefore
    <2>3. CASE e.update = updates + 1
      <3>1. PICK d \in D : e = Det(d) /\ To(s, d)
          BY <1>13, <2>1, <2>2, <2>3
      <3>2. PICK f \in D : e = Det(f) /\ To(t, f)
          BY <1>13, <2>1, <2>2, <2>3
      <3>3. d = f
          BY <1>8, <3>1, <3>2
      <3>4. QED BY <1>3, <3>1, <3>2, <3>3
    <2>4. CASE e.update # updates + 1
      <3>1. s \in DOMAIN tracks /\ t \in DOMAIN tracks /\ e \in ToSet(tracks[s]) /\ e \in ToSet(tracks[t])
          BY <1>7, <1>13, <2>1, <2>4
      <3>2. \A u, v \in DOMAIN tracks : u # v => ToSet(tracks[u]) \cap ToSet(tracks[v]) = {}
          BY DEF IInv, TracksPartitionDetections
      <3>3. QED BY <3>1, <3>2
    <2>5. QED BY <2>3, <2>4
  <1>14. ASSUME NEW t \in DOMAIN tracks', NEW i \in DOMAIN tracks'[t], NEW j \in DOMAIN tracks'[t], i < j
         PROVE  tracks'[t][i].update < tracks'[t][j].update
    <2>1. \A u \in DOMAIN tracks : \A k, m \in DOMAIN tracks[u] :
              k < m => tracks[u][k].update < tracks[u][m].update
        BY DEF IInv, TracksPartitionDetections
    <2>2. CASE Misses(t, match, fresh)
        BY <1>14, <2>1, <2>2 DEF Misses
    <2>3. ASSUME NEW d \in D, Gets(t, d, dboxes, match, fresh)
          PROVE  tracks'[t][i].update < tracks'[t][j].update
      <3>1. PICK n \in Nat : /\ n = Len(Before(t)) /\ DOMAIN Before(t) = 1..n
                             /\ \A k \in 1..n : /\ t \in DOMAIN tracks /\ k \in DOMAIN tracks[t]
                                                /\ Before(t)[k] = tracks[t][k]
        <4>1. CASE t \in DOMAIN tracks
            BY <1>1, <4>1 DEF TracksBefore, Before
        <4>2. CASE t \notin DOMAIN tracks
          <5>1. Before(t) = <<>>
              BY <4>2 DEF Before
          <5>2. Len(<<>>) = 0 /\ DOMAIN <<>> = 1..0
              OBVIOUS
          <5>3. QED BY <5>1, <5>2
        <4>3. QED BY <4>1, <4>2
      <3>2. /\ Len(tracks'[t]) = n + 1
            /\ \A k \in 1..n : tracks'[t][k] = Before(t)[k]
            /\ tracks'[t][n + 1] = Det(d)
          BY <2>3, <3>1 DEF Gets, Extends, Det
      <3>3. DOMAIN tracks'[t] = 1..(n + 1)
        <4>1. tracks' \in Seq(Seq(Detections))
            BY DEF FrameDone, TracksGrow
        <4>2. tracks'[t] \in Seq(Detections)
            BY <4>1
        <4>3. QED BY <3>2, <4>2
      <3>4. i \in 1..n /\ tracks'[t][i] = tracks[t][i] /\ t \in DOMAIN tracks /\ i \in DOMAIN tracks[t]
          BY <1>14, <3>1, <3>2, <3>3
      <3>5. CASE j = n + 1
        <4>1. tracks[t][i].update \in 1..updates /\ updates \in Nat
            BY <1>1, <3>4 DEF TracksBefore
        <4>2. QED BY <1>7, <3>2, <3>4, <3>5, <4>1
      <3>6. CASE j # n + 1
        <4>1. j \in 1..n /\ tracks'[t][j] = tracks[t][j] /\ j \in DOMAIN tracks[t]
            BY <3>1, <3>2, <3>3, <3>6
        <4>2. QED BY <1>14, <2>1, <3>4, <4>1
      <3>7. QED BY <3>5, <3>6
    <2>4. QED BY <1>3, <2>2, <2>3
  <1>15. \A s, t \in DOMAIN tracks' : s # t => ToSet(tracks'[s]) \cap ToSet(tracks'[t]) = {}
      BY <1>13
  <1>16. \A t \in DOMAIN tracks' : \A i, j \in DOMAIN tracks'[t] :
             i < j => tracks'[t][i].update < tracks'[t][j].update
      BY <1>14
  <1>17. QED BY <1>12, <1>15, <1>16 DEF TracksPartitionDetections

\* The frames since the last detection of t, before and after a frame.
Since(t) == updates - Last(tracks[t]).update
Late(t)  == updates' - Last(tracks'[t]).update

\* Every entry of the list says where and when its track was last seen, once, and every
\* track seen lately has one.
AllRecent(all) ==
    /\ \A j \in 1..Len(all) :
          /\ all[j].id \in DOMAIN tracks'
          /\ all[j].age = Late(all[j].id)
          /\ all[j].box = Last(tracks'[all[j].id]).box
    /\ \A i, j \in 1..Len(all) : all[i].id = all[j].id => i = j
    /\ \A t \in DOMAIN tracks' : Late(t) <= MaxAge => \E j \in 1..Len(all) : all[j].id = t

\* A track that got a detection was last seen now; one that got none, one update longer ago.
LEMMA FrameAges ==
    ASSUME IInv, NEW dboxes, NEW match, NEW fresh, FrameDone(dboxes, match, fresh)
    PROVE  /\ \A t, d : t \in DOMAIN tracks' /\ d \in DOMAIN dboxes /\ Gets(t, d, dboxes, match, fresh) =>
                  /\ Late(t) = 0
                  /\ Last(tracks'[t]) = Detection(dboxes, d)
                  /\ Last(tracks'[t]).box = dboxes[d]
           /\ \A t : Misses(t, match, fresh) =>
                  /\ t \in DOMAIN tracks
                  /\ Since(t) \in Nat
                  /\ Late(t) = Since(t) + 1
                  /\ Last(tracks'[t]).box = Last(tracks[t]).box
  <1>1. TracksBefore /\ updates' = updates + 1 /\ FrameBoxes(dboxes)
      BY TracksKnown DEF FrameDone
  <1>2. ASSUME NEW t, NEW d \in DOMAIN dboxes, Gets(t, d, dboxes, match, fresh)
        PROVE  /\ Late(t) = 0
               /\ Last(tracks'[t]) = Detection(dboxes, d)
               /\ Last(tracks'[t]).box = dboxes[d]
    <2>1. Last(tracks'[t]) = Detection(dboxes, d)
        BY <1>2 DEF Gets, Extends
    <2>2. Detection(dboxes, d).update = updates + 1 /\ Detection(dboxes, d).box = dboxes[d]
        BY <1>1, DetectionTyped
    <2>3. updates \in Nat
        BY <1>1 DEF TracksBefore
    <2>4. QED BY <1>1, <2>1, <2>2, <2>3 DEF Late
  <1>3. ASSUME NEW t, Misses(t, match, fresh)
        PROVE  /\ t \in DOMAIN tracks
               /\ Since(t) \in Nat
               /\ Late(t) = Since(t) + 1
               /\ Last(tracks'[t]).box = Last(tracks[t]).box
    <2>1. t \in DOMAIN tracks /\ tracks'[t] = tracks[t]
        BY <1>3 DEF Misses
    <2>2. PICK u \in 1..updates : u = Last(tracks[t]).update
        BY <1>1, <2>1 DEF TracksBefore
    <2>3. updates \in Nat
        BY <1>1 DEF TracksBefore
    <2>4. QED BY <1>1, <2>1, <2>2, <2>3 DEF Since, Late
  <1>4. QED BY <1>2, <1>3

\* The list before the drop is so: an entry is a matched track, an aged one or a new one.
LEMMA FrameEntries ==
    ASSUME IInv, NEW dboxes, NEW match, NEW fresh, FrameDone(dboxes, match, fresh),
           NEW all, AllAfter(all, dboxes, match, fresh)
    PROVE  AllRecent(all)
  <1>1. PICK N \in Nat, n \in Nat, K \in Nat :
            /\ N = Len(tracks) /\ N = nextId - 1 /\ DOMAIN tracks = 1..N
            /\ n = Len(active) /\ DOMAIN active = 1..n
            /\ K = Len(fresh) /\ DOMAIN tracks' = 1..(N + K) /\ Len(all) = n + K
    <2>1. Len(tracks) \in Nat /\ DOMAIN tracks = 1..Len(tracks)
        BY TracksKnown DEF TracksBefore
    <2>2. Len(tracks) = nextId - 1 /\ DOMAIN active = 1..Len(active) /\ Len(active) \in Nat
        BY ActiveTyped DEF IInv, TypeOK
    <2>3. Len(fresh) \in Nat
        BY DEF FrameDone, Shared
    <2>4. DOMAIN tracks' = 1..(Len(tracks) + Len(fresh))
      <3>1. tracks' \in Seq(Seq(Detections)) /\ Len(tracks') = Len(tracks) + Len(fresh)
          BY DEF FrameDone, TracksGrow
      <3>2. DOMAIN tracks' = 1..Len(tracks')
          BY <3>1
      <3>3. QED BY <3>1, <3>2
    <2>5. Len(all) = Len(active) + Len(fresh)
        BY DEF AllAfter
    <2>6. QED BY <2>1, <2>2, <2>3, <2>4, <2>5
  <1>2. /\ \A i \in 1..n : /\ active[i].id \in 1..N
                           /\ active[i].age = Since(active[i].id)
                           /\ active[i].box = Last(tracks[active[i].id]).box
        /\ \A i, j \in 1..n : active[i].id = active[j].id => i = j
        /\ \A t \in 1..N : Since(t) <= MaxAge => \E i \in 1..n : active[i].id = t
    <2>1. \A i \in 1..n : active[i].id \in 1..N
        BY <1>1, ActiveTyped DEF IInv
    <2>2. /\ {active[i].id : i \in 1..n} = {t \in 1..N : Since(t) <= MaxAge}
          /\ \A i, j \in 1..n : active[i].id = active[j].id => i = j
          /\ \A i \in 1..n : /\ active[i].age = Since(active[i].id)
                             /\ active[i].box = Last(tracks[active[i].id]).box
        BY <1>1 DEF IInv, ActiveIsRecent, Since
    <2>3. \A t \in 1..N : Since(t) <= MaxAge => t \in {active[i].id : i \in 1..n}
        BY <2>2
    <2>4. QED BY <2>1, <2>2, <2>3
  <1>3. /\ \A i \in 1..n :
              /\ all[i].id = active[i].id
              /\ i \in DOMAIN match => all[i].age = 0 /\ all[i].box = dboxes[match[i]]
              /\ i \notin DOMAIN match => all[i].age = active[i].age + 1 /\ all[i].box = active[i].box
        /\ \A k \in 1..K : /\ all[n + k].id = N + k
                           /\ all[n + k].age = 0
                           /\ all[n + k].box = dboxes[fresh[k]]
    <2>1. nextId \in Nat
        BY DEF IInv, TypeOK
    <2>2. \A k \in 1..K : nextId + k - 1 = N + k
        BY <1>1, <2>1
    <2>3. QED BY <1>1, <2>2 DEF AllAfter
  <1>4. /\ \A s, t, d : Takes(s, d, match, fresh) /\ Takes(t, d, match, fresh) => s = t
        /\ \A t \in DOMAIN tracks' :
              Misses(t, match, fresh) \/ \E d \in DOMAIN dboxes : Gets(t, d, dboxes, match, fresh)
    <2>1. TakesWell(dboxes, match, fresh)
        BY Taking
    <2>2. QED BY <2>1 DEF TakesWell
  <1>5. /\ DOMAIN match \subseteq 1..n
        /\ \A t, d : Takes(t, d, match, fresh) <=>
              \/ \E i \in DOMAIN match : active[i].id = t /\ match[i] = d
              \/ \E k \in 1..K : t = N + k /\ fresh[k] = d
      BY <1>1 DEF Takes, FrameDone, Shared
  <1>6. ASSUME NEW t \in DOMAIN tracks', NEW e, Takes(t, e, match, fresh)
        PROVE  Late(t) = 0 /\ Last(tracks'[t]).box = dboxes[e]
    <2>1. PICK d \in DOMAIN dboxes : Gets(t, d, dboxes, match, fresh)
        BY <1>4, <1>6 DEF Misses
    <2>2. d = e
        BY <1>6, <2>1 DEF Gets
    <2>3. QED BY <2>1, <2>2, FrameAges
  <1>7. ASSUME NEW i \in 1..n
        PROVE  /\ all[i].id \in DOMAIN tracks'
               /\ all[i].age = Late(all[i].id)
               /\ all[i].box = Last(tracks'[all[i].id]).box
    <2>1. PICK t \in 1..N : t = active[i].id /\ t = all[i].id
        BY <1>2, <1>3
    <2>2. t \in DOMAIN tracks'
        BY <1>1
    <2>3. CASE i \in DOMAIN match
      <3>1. Takes(t, match[i], match, fresh)
          BY <1>5, <2>1, <2>3
      <3>2. QED BY <1>3, <1>6, <2>1, <2>2, <2>3, <3>1
    <2>4. CASE i \notin DOMAIN match
      <3>1. ASSUME NEW d PROVE ~Takes(t, d, match, fresh)
        <4>1. \A k \in 1..K : t # N + k
            OBVIOUS
        <4>2. \A j \in DOMAIN match : active[j].id # t
            BY <1>2, <1>5, <2>1, <2>4
        <4>3. QED BY <1>5, <4>1, <4>2
      <3>2. Misses(t, match, fresh)
          BY <1>4, <2>2, <3>1 DEF Gets
      <3>3. Late(t) = Since(t) + 1 /\ Last(tracks'[t]).box = Last(tracks[t]).box
          BY <3>2, FrameAges
      <3>4. QED BY <1>2, <1>3, <2>1, <2>2, <2>4, <3>3
    <2>5. QED BY <2>3, <2>4
  <1>8. ASSUME NEW k \in 1..K
        PROVE  /\ all[n + k].id = N + k
               /\ all[n + k].id \in DOMAIN tracks'
               /\ all[n + k].age = Late(all[n + k].id)
               /\ all[n + k].box = Last(tracks'[all[n + k].id]).box
    <2>1. N + k \in DOMAIN tracks' /\ Takes(N + k, fresh[k], match, fresh)
        BY <1>1, <1>5
    <2>2. QED BY <1>3, <1>6, <2>1
  <1>9. \A j \in 1..Len(all) : j \in 1..n \/ \E k \in 1..K : j = n + k
    <2>1. TAKE j \in 1..Len(all)
    <2>2. j \notin 1..n => j - n \in 1..K /\ j = n + (j - n)
        BY <1>1
    <2>3. QED BY <2>2
  <1>10. ASSUME NEW i \in 1..Len(all), NEW j \in 1..Len(all), all[i].id = all[j].id PROVE i = j
    <2>1. \A k \in 1..n : all[k].id \in 1..N /\ all[k].id = active[k].id
        BY <1>2, <1>3
    <2>2. CASE i \in 1..n /\ j \in 1..n
        BY <1>2, <1>10, <2>1, <2>2
    <2>3. ASSUME NEW k \in 1..K, NEW m \in 1..K, i = n + k, j = n + m PROVE i = j
      <3>1. all[i].id = N + k /\ all[j].id = N + m
          BY <1>8, <2>3
      <3>2. N + k = N + m
          BY <1>10, <3>1
      <3>3. k = m
          BY <3>2
      <3>4. QED BY <2>3, <3>3
    <2>4. \A k \in 1..n, m \in 1..K : all[k].id # all[n + m].id
        BY <1>8, <2>1
    <2>5. QED BY <1>9, <1>10, <2>2, <2>3, <2>4
  <1>11. ASSUME NEW t \in DOMAIN tracks', Late(t) <= MaxAge
         PROVE  \E j \in 1..Len(all) : all[j].id = t
    <2>1. CASE t \in 1..N
      <3>1. Misses(t, match, fresh) \/ \E d : Takes(t, d, match, fresh)
          BY <1>4 DEF Gets
      <3>2. CASE Misses(t, match, fresh)
        <4>1. Since(t) \in Nat /\ Late(t) = Since(t) + 1
            BY <3>2, FrameAges
        <4>2. Since(t) <= MaxAge
            BY <1>11, <4>1, TrackerAssumption
        <4>3. PICK i \in 1..n : active[i].id = t
            BY <1>2, <2>1, <4>2
        <4>4. QED BY <1>1, <1>3, <4>3
      <3>3. ASSUME NEW d, Takes(t, d, match, fresh) PROVE \E j \in 1..Len(all) : all[j].id = t
        <4>1. \A k \in 1..K : t # N + k
            BY <2>1
        <4>2. PICK i \in DOMAIN match : active[i].id = t
            BY <1>5, <3>3, <4>1
        <4>3. i \in 1..n
            BY <1>5, <4>2
        <4>4. i \in 1..Len(all)
            BY <1>1, <4>3
        <4>5. all[i].id = t
            BY <1>3, <4>2, <4>3
        <4>6. QED BY <4>4, <4>5
      <3>4. QED BY <3>1, <3>2, <3>3
    <2>2. CASE t \notin 1..N
      <3>1. t - N \in 1..K /\ t = N + (t - N)
          BY <1>1, <2>2
      <3>2. PICK k \in 1..K : t = N + k
          BY <3>1
      <3>3. n + k \in 1..Len(all)
          BY <1>1
      <3>4. QED BY <1>8, <3>2, <3>3
    <2>3. QED BY <2>1, <2>2
  <1>12. \A j \in 1..Len(all) : /\ all[j].id \in DOMAIN tracks'
                               /\ all[j].age = Late(all[j].id)
                               /\ all[j].box = Last(tracks'[all[j].id]).box
      BY <1>7, <1>8, <1>9
  <1>13. QED BY <1>10, <1>11, <1>12 DEF AllRecent

\* A frame keeps the active set what the history says.
LEMMA FrameRecent ==
    ASSUME IInv, NEW dboxes, NEW match, NEW fresh, FrameDone(dboxes, match, fresh)
    PROVE  /\ {active'[k].id : k \in DOMAIN active'} = {t \in DOMAIN tracks' : Late(t) <= MaxAge}
           /\ \A j, k \in DOMAIN active' : active'[j].id = active'[k].id => j = k
           /\ \A k \in DOMAIN active' : /\ active'[k].age = Late(active'[k].id)
                                        /\ active'[k].box = Last(tracks'[active'[k].id]).box
  <1>1. PICK all, at : /\ AllAfter(all, dboxes, match, fresh) /\ Stays(at, all)
                       /\ active' \in Seq(ToSet(all))
      BY DEF FrameDone
  <1>2. AllRecent(all)
      BY <1>1, FrameEntries
  <1>3. PICK m \in Nat, n \in Nat :
            m = Len(active') /\ DOMAIN active' = 1..m /\ n = Len(all) /\ DOMAIN all = 1..n
    <2>1. Len(active') \in Nat /\ DOMAIN active' = 1..Len(active')
        BY <1>1
    <2>2. Len(all) \in Nat /\ DOMAIN all = 1..Len(all)
        BY <1>1 DEF AllAfter
    <2>3. QED BY <2>1, <2>2
  <1>4. /\ at \in [1..m -> 1..n]
        /\ \A j, k \in 1..m : j < k => at[j] < at[k]
        /\ \A k \in 1..m : active'[k] = all[at[k]] /\ all[at[k]].age <= MaxAge
        /\ \A i \in 1..n : all[i].age <= MaxAge => \E k \in 1..m : at[k] = i
    <2>1. \A i \in 1..n : all[i] \in {a \in ToSet(all) : Survives(a)} <=> all[i].age <= MaxAge
        BY <1>3 DEF ToSet, Survives
    <2>2. /\ at \in [1..m -> 1..n]
          /\ \A j, k \in 1..m : j < k => at[j] < at[k]
          /\ \A k \in 1..m : /\ active'[k] = all[at[k]]
                             /\ all[at[k]] \in {a \in ToSet(all) : Survives(a)}
          /\ \A i \in 1..n : all[i] \in {a \in ToSet(all) : Survives(a)} => \E k \in 1..m : at[k] = i
        BY <1>1, <1>3 DEF Stays, Positions
    <2>3. QED BY <2>1, <2>2
  <1>5. /\ \A i \in 1..n : /\ all[i].id \in DOMAIN tracks'
                           /\ all[i].age = Late(all[i].id)
                           /\ all[i].box = Last(tracks'[all[i].id]).box
        /\ \A i, j \in 1..n : all[i].id = all[j].id => i = j
        /\ \A t \in DOMAIN tracks' : Late(t) <= MaxAge => \E j \in 1..n : all[j].id = t
      BY <1>2, <1>3 DEF AllRecent
  <1>6. \A k \in 1..m : /\ active'[k].id \in DOMAIN tracks'
                       /\ active'[k].age = Late(active'[k].id)
                       /\ Late(active'[k].id) <= MaxAge
                       /\ active'[k].box = Last(tracks'[active'[k].id]).box
    <2>1. TAKE k \in 1..m
    <2>2. PICK i \in 1..n : i = at[k]
        BY <1>4
    <2>3. active'[k] = all[i] /\ all[i].age <= MaxAge
        BY <1>4, <2>2
    <2>4. QED BY <1>5, <2>3
  <1>7. ASSUME NEW t \in DOMAIN tracks', Late(t) <= MaxAge PROVE \E k \in 1..m : active'[k].id = t
    <2>1. PICK i \in 1..n : all[i].id = t
        BY <1>5, <1>7
    <2>2. all[i].age <= MaxAge
        BY <1>5, <1>7, <2>1
    <2>3. PICK k \in 1..m : at[k] = i
        BY <1>4, <2>2
    <2>4. QED BY <1>4, <2>1, <2>3
  <1>8. ASSUME NEW j \in 1..m, NEW k \in 1..m, active'[j].id = active'[k].id PROVE j = k
    <2>1. at[j] \in 1..n /\ at[k] \in 1..n
        BY <1>4
    <2>2. all[at[j]].id = all[at[k]].id
        BY <1>4, <1>8
    <2>3. at[j] = at[k]
        BY <1>5, <2>1, <2>2
    <2>4. ~(j < k) /\ ~(k < j)
        BY <1>4, <2>1, <2>3
    <2>5. QED BY <2>4
  <1>9. {active'[k].id : k \in 1..m} = {t \in DOMAIN tracks' : Late(t) <= MaxAge}
    <2>1. \A k \in 1..m : active'[k].id \in {t \in DOMAIN tracks' : Late(t) <= MaxAge}
        BY <1>6
    <2>2. \A t \in DOMAIN tracks' : Late(t) <= MaxAge => t \in {active'[k].id : k \in 1..m}
        BY <1>7
    <2>3. QED BY <2>1, <2>2
  <1>10. \A k \in 1..m : /\ active'[k].age = Late(active'[k].id)
                        /\ active'[k].box = Last(tracks'[active'[k].id]).box
      BY <1>6
  <1>11. \A j, k \in 1..m : active'[j].id = active'[k].id => j = k
      BY <1>8
  <1>12. QED BY <1>3, <1>9, <1>10, <1>11

\* A frame keeps the gaps within a track short.
LEMMA FrameGaps ==
    ASSUME IInv, NEW dboxes, NEW match, NEW fresh, FrameDone(dboxes, match, fresh)
    PROVE  \A t \in DOMAIN tracks' : \A k \in 1..(Len(tracks'[t]) - 1) :
               tracks'[t][k + 1].update - tracks'[t][k].update <= MaxAge + 1
  <1>1. TAKE t \in DOMAIN tracks'
  <1>2. TAKE k \in 1..(Len(tracks'[t]) - 1)
  <1>3. TracksBefore /\ MaxAge \in Nat
      BY TracksKnown, TrackerAssumption
  <1>4. \A u \in DOMAIN tracks : \A j \in 1..(Len(tracks[u]) - 1) :
            tracks[u][j + 1].update - tracks[u][j].update <= MaxAge + 1
      BY DEF IInv, ActiveIsRecent
  <1>5. Misses(t, match, fresh) \/ \E d \in DOMAIN dboxes : Gets(t, d, dboxes, match, fresh)
      BY Taking DEF TakesWell
  <1>6. CASE Misses(t, match, fresh)
      BY <1>4, <1>6 DEF Misses
  <1>7. ASSUME NEW d \in DOMAIN dboxes, Gets(t, d, dboxes, match, fresh)
        PROVE  tracks'[t][k + 1].update - tracks'[t][k].update <= MaxAge + 1
    <2>1. Extends(tracks'[t], Before(t), Detection(dboxes, d))
        BY <1>7 DEF Gets
    <2>2. Detection(dboxes, d).update = updates + 1
        BY FrameIsNew DEF FrameDone
    <2>3. CASE t \notin DOMAIN tracks
      <3>1. Before(t) = <<>>
          BY <2>3 DEF Before
      <3>2. Len(tracks'[t]) = 1
          BY <2>1, <3>1 DEF Extends
      <3>3. QED BY <3>2
    <2>4. CASE t \in DOMAIN tracks
      <3>1. PICK n \in Nat \ {0} : n = Len(tracks[t]) /\ DOMAIN tracks[t] = 1..n
          BY <1>3, <2>4 DEF TracksBefore
      <3>2. /\ Len(tracks'[t]) = n + 1
            /\ \A j \in 1..n : tracks'[t][j] = tracks[t][j]
            /\ tracks'[t][n + 1].update = updates + 1
          BY <2>1, <2>2, <2>4, <3>1 DEF Extends, Before
      <3>3. k \in 1..n
          BY <3>1, <3>2
      <3>4. CASE k # n
        <4>1. k \in 1..(n - 1) /\ k + 1 \in 1..n
            BY <3>1, <3>3, <3>4
        <4>2. QED BY <1>4, <2>4, <3>1, <3>2, <3>3, <4>1
      <3>5. CASE k = n
        <4>1. PICK i \in DOMAIN active : active[i].id = t
            BY <1>7, <2>4 DEF Gets
        <4>2. /\ active[i].age = updates - Last(tracks[t]).update
              /\ active[i].age \in 0..MaxAge
            BY <4>1, ActiveTyped DEF IInv, ActiveIsRecent
        <4>3. PICK u \in Nat : u = tracks[t][n].update /\ u = Last(tracks[t]).update
          <5>1. tracks[t][n].update \in 1..updates /\ Last(tracks[t]) = tracks[t][n]
              BY <1>3, <2>4, <3>1 DEF TracksBefore
          <5>2. QED BY <5>1
        <4>4. updates \in Nat
            BY <1>3 DEF TracksBefore
        <4>5. updates - u <= MaxAge
            BY <1>3, <4>2, <4>3
        <4>6. tracks'[t][k + 1].update = updates + 1 /\ tracks'[t][k].update = u
            BY <3>2, <3>3, <3>5, <4>3
        <4>7. QED BY <1>3, <4>3, <4>4, <4>5, <4>6
      <3>6. QED BY <3>4, <3>5
    <2>5. QED BY <2>3, <2>4
  <1>8. QED BY <1>5, <1>6, <1>7

\* So a frame keeps the whole invariant.
LEMMA FrameKeeps ==
    ASSUME IInv, NEW dboxes \in SeqOf(Boxes, MaxDetections), TrackFrame(dboxes)
    PROVE  IInv'
  <1>1. PICK match, fresh : FrameDone(dboxes, match, fresh)
      BY FrameFacts
  <1>2. TypeOK'
      BY <1>1, FrameTypes
  <1>3. TracksPartitionDetections'
      BY <1>1, FramePartitions
  <1>4. ActiveIsRecent'
    <2>1. /\ {active'[k].id : k \in DOMAIN active'} = {t \in DOMAIN tracks' : Late(t) <= MaxAge}
          /\ \A j, k \in DOMAIN active' : active'[j].id = active'[k].id => j = k
          /\ \A k \in DOMAIN active' : /\ active'[k].age = Late(active'[k].id)
                                       /\ active'[k].box = Last(tracks'[active'[k].id]).box
        BY <1>1, FrameRecent
    <2>2. \A t \in DOMAIN tracks' : \A k \in 1..(Len(tracks'[t]) - 1) :
               tracks'[t][k + 1].update - tracks'[t][k].update <= MaxAge + 1
        BY <1>1, FrameGaps
    <2>3. QED BY <2>1, <2>2 DEF ActiveIsRecent, Late
  <1>5. History'
    <2>1. ASSUME NEW t \in DOMAIN tracks' PROVE tracks'[t] # <<>>
      <3>1. Misses(t, match, fresh) \/ \E d \in DOMAIN dboxes : Gets(t, d, dboxes, match, fresh)
          BY <1>1, Taking DEF TakesWell
      <3>2. QED BY <3>1 DEF Misses, Gets, Extends, IInv, History
    <2>2. ASSUME NEW e \in passed' PROVE e.update <= updates'
      <3>1. updates \in Nat /\ passed \subseteq Detections
          BY DEF IInv, TypeOK
      <3>2. CASE e \in passed
        <4>1. e.update \in Nat /\ e.update <= updates
            BY <3>1, <3>2 DEF Detections, IInv, History
        <4>2. QED BY <1>1, <3>1, <4>1 DEF FrameDone
      <3>3. ASSUME NEW d \in DOMAIN dboxes, e = Detection(dboxes, d) PROVE e.update <= updates'
        <4>1. e.update = updates + 1
            BY <1>1, <3>3, FrameIsNew DEF FrameDone
        <4>2. QED BY <1>1, <3>1, <4>1 DEF FrameDone
      <3>4. QED BY <1>1, <3>2, <3>3 DEF FrameDone
    <2>3. QED BY <2>1, <2>2 DEF History
  <1>6. QED BY <1>2, <1>3, <1>4, <1>5 DEF IInv

\* What a matched track got is its detection.
LEMMA GotMatch ==
    ASSUME IInv, NEW dboxes, NEW match, NEW fresh, FrameDone(dboxes, match, fresh),
           NEW i \in DOMAIN match
    PROVE  Got(i) = {Detection(dboxes, match[i])}
  <1>1. PICK t : t = active[i].id
      OBVIOUS
  <1>2. /\ t \in 1..Len(tracks)
        /\ tracks'[t] = Append(tracks[t], Detection(dboxes, match[i]))
      BY <1>1 DEF FrameDone, TracksGrow
  <1>3. tracks[t] \in Seq(Detections)
    <2>1. tracks \in Seq(Seq(Detections))
        BY DEF IInv, TypeOK
    <2>2. QED BY <1>2, <2>1
  <1>4. Detection(dboxes, match[i]) \in Detections
    <2>1. match[i] \in DOMAIN dboxes
        BY DEF FrameDone, Shared
    <2>2. QED BY <2>1, DetectionTyped DEF FrameDone
  <1>5. Extends(tracks'[t], tracks[t], Detection(dboxes, match[i]))
      BY <1>2, <1>3, <1>4, AppendExtends
  <1>6. Len(tracks[t]) \in Nat
      BY <1>3
  <1>7. Len(tracks'[t]) # Len(tracks[t]) /\ Last(tracks'[t]) = Detection(dboxes, match[i])
      BY <1>5, <1>6 DEF Extends
  <1>8. QED BY <1>1, <1>7 DEF Got

\* In a frame no better match is refused.
LEMMA FrameMatchesBest ==
    ASSUME IInv, NEW dboxes, NEW match, NEW fresh, FrameDone(dboxes, match, fresh),
           NEW i \in DOMAIN active, NEW d \in passed' \ passed,
           AtLeast(Iou(active[i].box, d.box), Threshold)
    PROVE  \/ \E e \in Got(i) : AtLeast(Iou(active[i].box, e.box), Iou(active[i].box, d.box))
           \/ \E j \in DOMAIN active : /\ d \in Got(j)
                                       /\ AtLeast(Iou(active[j].box, d.box), Iou(active[i].box, d.box))
  <1>1. PICK p \in DOMAIN dboxes : d = Detection(dboxes, p) /\ d.box = dboxes[p]
      BY DetectionTyped DEF FrameDone
  <1>2. PICK j \in DOMAIN match :
            /\ j = i \/ match[j] = p
            /\ AtLeast(Iou(active[j].box, dboxes[match[j]]), Iou(active[i].box, dboxes[p]))
      BY <1>1 DEF FrameDone, BestMatch
  <1>3. j \in DOMAIN active /\ match[j] \in DOMAIN dboxes
      BY DEF FrameDone, Shared
  <1>4. PICK e : /\ e = Detection(dboxes, match[j]) /\ e.box = dboxes[match[j]]
                 /\ Got(j) = {e}
      BY <1>3, DetectionTyped, GotMatch DEF FrameDone
  <1>5. CASE j = i
    <2>1. e \in Got(i) /\ AtLeast(Iou(active[i].box, e.box), Iou(active[i].box, d.box))
        BY <1>1, <1>2, <1>4, <1>5
    <2>2. QED BY <2>1
  <1>6. CASE match[j] = p
    <2>1. d \in Got(j) /\ AtLeast(Iou(active[j].box, d.box), Iou(active[i].box, d.box))
        BY <1>1, <1>2, <1>4, <1>6
    <2>2. QED BY <1>3, <2>1
  <1>7. QED BY <1>2, <1>5, <1>6

-----------------------------------------------------------------------------
(* The theorems.                                                           *)

\* IInv is inductive: it holds of the tracker before the first frame, and a frame that is
\* read (update), one that is skipped (the missing file of run_pipeline) and a stutter keep it.
THEOREM TrackerInvariant == Spec => []IInv
  <1>1. Init => IInv
    <2>1. SUFFICES ASSUME Init PROVE IInv
        OBVIOUS
    <2>2. tracks = <<>> /\ active = <<>> /\ passed = {} /\ nextId = 1 /\ frame = 0 /\ updates = 0
        BY <2>1 DEF Init
    <2>3. DOMAIN tracks = {} /\ DOMAIN active = {}
        BY <2>2
    <2>4. TypeOK
      <3>1. PICK R : R = [id : 1..(nextId - 1), box : Boxes, age : 0..MaxAge]
          OBVIOUS
      <3>2. active \in Seq(R)
          BY <2>2
      <3>3. tracks \in Seq(Seq(Detections)) /\ Len(tracks) = nextId - 1
          BY <2>2
      <3>4. frame \in 0..MaxFrames /\ updates \in 0..frame /\ nextId \in Nat \ {0} /\ passed \subseteq Detections
          BY <2>2, TrackerAssumption
      <3>5. QED BY <3>1, <3>2, <3>3, <3>4 DEF TypeOK
    <2>5. TracksPartitionDetections
        BY <2>2, <2>3 DEF TracksPartitionDetections
    <2>6. ActiveIsRecent
        BY <2>3 DEF ActiveIsRecent
    <2>7. History
        BY <2>2, <2>3 DEF History
    <2>8. QED BY <2>4, <2>5, <2>6, <2>7 DEF IInv
  <1>2. IInv /\ [Next]_vars => IInv'
    <2>1. SUFFICES ASSUME IInv, [Next]_vars PROVE IInv'
        OBVIOUS
    <2>2. ASSUME NEW dboxes \in SeqOf(Boxes, MaxDetections), TrackFrame(dboxes) PROVE IInv'
        BY <2>1, <2>2, FrameKeeps
    <2>3. ASSUME updates' = updates, active' = active, nextId' = nextId, tracks' = tracks, passed' = passed,
                 frame' = frame \/ (frame < MaxFrames /\ frame' = frame + 1)
          PROVE  IInv'
      <3>1. frame' \in 0..MaxFrames /\ updates' \in 0..frame'
          BY <2>1, <2>3, TrackerAssumption DEF IInv, TypeOK
      <3>2. TypeOK'
          BY <2>1, <2>3, <3>1 DEF IInv, TypeOK
      <3>3. TracksPartitionDetections'
          BY <2>1, <2>3 DEF IInv, TracksPartitionDetections
      <3>4. ActiveIsRecent'
          BY <2>1, <2>3 DEF IInv, ActiveIsRecent
      <3>5. History'
          BY <2>1, <2>3 DEF IInv, History
      <3>6. QED BY <3>2, <3>3, <3>4, <3>5 DEF IInv
    <2>4. CASE SkipFrame
        BY <2>3, <2>4 DEF SkipFrame
    <2>5. CASE UNCHANGED vars
        BY <2>3, <2>5 DEF vars
    <2>6. QED BY <2>1, <2>2, <2>4, <2>5 DEF Next
  <1>3. QED BY <1>1, <1>2, PTL DEF Spec

\* Every variable of the tracker keeps its type.
THEOREM TrackerTypes == Spec => []TypeOK
  <1>1. IInv => TypeOK
      BY DEF IInv
  <1>2. QED BY <1>1, TrackerInvariant, PTL

\* Every detection given to update is in one track, once, in the order of the frames.
THEOREM DetectionsPartitioned == Spec => []TracksPartitionDetections
  <1>1. IInv => TracksPartitionDetections
      BY DEF IInv
  <1>2. QED BY <1>1, TrackerInvariant, PTL

\* The active set is the tracks seen within max_age of the frames given to update, with
\* their last boxes and ages.
THEOREM ActiveAsSeen == Spec => []ActiveIsRecent
  <1>1. IInv => ActiveIsRecent
      BY DEF IInv
  <1>2. QED BY <1>1, TrackerInvariant, PTL

\* The greedy assignment refuses no match that beats the chosen ones.
THEOREM BestMatchesTaken == Spec => NoBetterMatchRefused
  <1> DEFINE Refuses ==
        \A i \in DOMAIN active, d \in passed' \ passed :
          LET score == Iou(active[i].box, d.box) IN
          AtLeast(score, Threshold) =>
             \/ \E e \in Got(i) : AtLeast(Iou(active[i].box, e.box), score)
             \/ \E j \in DOMAIN active : d \in Got(j) /\ AtLeast(Iou(active[j].box, d.box), score)
  <1>1. IInv /\ [Next]_vars => Refuses
    <2>1. SUFFICES ASSUME IInv, [Next]_vars PROVE Refuses
        OBVIOUS
    <2>2. CASE passed' = passed
        BY <2>2
    <2>3. ASSUME NEW dboxes \in SeqOf(Boxes, MaxDetections), TrackFrame(dboxes) PROVE Refuses
      <3>1. PICK match, fresh : FrameDone(dboxes, match, fresh)
          BY <2>1, <2>3, FrameFacts
      <3>2. QED BY <2>1, <3>1, FrameMatchesBest
    <2>4. SkipFrame \/ UNCHANGED vars => passed' = passed
        BY DEF SkipFrame, vars
    <2>5. QED BY <2>1, <2>2, <2>3, <2>4 DEF Next
  <1>2. QED BY <1>1, TrackerInvariant, PTL DEF Spec, NoBetterMatchRefused
=============================================================================
