----------------------------- MODULE ListProofs ------------------------------
(***************************************************************************)
(* What the list comprehension of Lists returns for every list, and the    *)
(* induction and the recursion over the natural numbers that this and the  *)
(* other proofs rest on.                                                   *)
(***************************************************************************)
EXTENDS Lists, Integers, TLAPS, WellFoundedInduction

-----------------------------------------------------------------------------
(* Induction and recursion over the natural numbers.                       *)

\* A set of natural numbers that is not empty has a least element.
LEMMA LeastNatural ==
    ASSUME NEW T \in SUBSET Nat, T # {}
    PROVE  \E x \in T : \A y \in T : x <= y
  <1>1. IsWellFoundedOn(OpToRel(<, Nat), Nat)
      BY NatLessThanWellFounded
  <1>2. \E x \in T : \A y \in T : ~ (<<y, x>> \in OpToRel(<, Nat))
      BY <1>1, WFMin
  <1>3. OpToRel(<, Nat) = {p \in Nat \X Nat : p[1] < p[2]}
      BY Zenon DEF OpToRel
  <1>4. PICK x \in T : \A y \in T : ~ (<<y, x>> \in {p \in Nat \X Nat : p[1] < p[2]})
      BY <1>2, <1>3, Zenon
  <1>5. \A y \in T : x <= y
    <2>1. TAKE y \in T
    <2>2. <<y, x>> \in Nat \X Nat /\ ~(<<y, x>> \in {p \in Nat \X Nat : p[1] < p[2]})
        BY <1>4
    <2>3. ~(y < x)
        BY <2>2
    <2>4. QED BY <2>3
  <1>6. QED BY <1>5

\* So a set that holds 0, and the successor of what it holds, holds every natural number.
LEMMA Induction ==
    ASSUME NEW S, 0 \in S, \A n \in Nat : n \in S => n + 1 \in S
    PROVE  Nat \subseteq S
  <1>1. SUFFICES ASSUME Nat \ S # {} PROVE FALSE
      OBVIOUS
  <1>2. PICK x \in Nat \ S : \A y \in Nat \ S : x <= y
      BY <1>1, LeastNatural
  <1>3. x # 0 /\ x - 1 \in Nat /\ x - 1 \in S
      BY <1>2
  <1>4. QED BY <1>3, <1>2

\* f is the recursion over 0..n from base by step.
Iterates(f, base, step, n) ==
    f[0] = base /\ \A k \in 1..n : f[k] = step[<<f[k - 1], k>>]

\* A recursion over 0..n whose step stays in V has a solution.
LEMMA Iteration ==
    ASSUME NEW V, NEW base \in V, NEW n \in Nat,
           NEW step, \A v \in V, k \in 1..n : step[<<v, k>>] \in V
    PROVE  \E f \in [0..n -> V] : Iterates(f, base, step, n)
  <1> USE DEF Iterates
  <1> DEFINE P(m, f) == Iterates(f, base, step, m)
             G == {m \in Nat : m <= n => \E f \in [0..m -> V] : P(m, f)}
  <1>1. 0 \in G
    <2>1. PICK f : f = [k \in 0..0 |-> base]
        OBVIOUS
    <2>2. f \in [0..0 -> V] /\ P(0, f)
        BY <2>1
    <2>3. QED BY <2>2
  <1>2. ASSUME NEW m \in Nat, m \in G PROVE m + 1 \in G
    <2>1. SUFFICES ASSUME m + 1 <= n PROVE \E f \in [0..(m + 1) -> V] : P(m + 1, f)
        OBVIOUS
    <2>2. PICK f \in [0..m -> V] : P(m, f)
        BY <1>2, <2>1
    <2>3. PICK g : g = [k \in 0..(m + 1) |-> IF k = m + 1 THEN step[<<f[m], m + 1>>] ELSE f[k]]
        OBVIOUS
    <2>4. g \in [0..(m + 1) -> V] /\ g[0] = base
        BY <2>1, <2>2, <2>3
    <2>5. ASSUME NEW k \in 1..(m + 1) PROVE g[k] = step[<<g[k - 1], k>>]
      <3>1. g[k - 1] = f[k - 1]
          BY <2>3
      <3>2. CASE k = m + 1
          BY <2>3, <3>1, <3>2
      <3>3. CASE k # m + 1
        <4>1. k \in 1..m /\ g[k] = f[k]
            BY <2>3, <3>3
        <4>2. f[k] = step[<<f[k - 1], k>>]
            BY <2>2, <4>1
        <4>3. QED BY <3>1, <4>1, <4>2
      <3>4. QED BY <3>2, <3>3
    <2>6. QED BY <2>4, <2>5
  <1>3. n \in G
      BY <1>1, <1>2, Induction
  <1>4. QED BY <1>3

\* What is not less stays so when both sides are multiplied.
LEMMA TimesKeeps ==
    ASSUME NEW m \in Nat, NEW n \in Nat, NEW k \in Nat, m <= n
    PROVE  m * k <= n * k
  <1>1. PICK d \in Nat : n = m + d
    <2>1. n - m \in Nat /\ n = m + (n - m)
        OBVIOUS
    <2>2. QED BY <2>1
  <1>2. n * k = m * k + d * k /\ d * k \in Nat /\ m * k \in Nat
      BY <1>1
  <1>3. QED BY <1>2

-----------------------------------------------------------------------------
(* The comprehension.                                                     *)

\* kept[n] is what the first n elements of l contribute.
Keeps(kept, l, S) ==
    /\ kept[0] = <<>>
    /\ \A n \in 1..Len(l) :
          kept[n] = IF l[n] \in S THEN Append(kept[n - 1], l[n]) ELSE kept[n - 1]
    /\ Selected(l, S) = kept[Len(l)]

\* The comprehension is built up over the prefixes of its list.
LEMMA SelectedPrefixes ==
    ASSUME NEW T, NEW l \in Seq(T), NEW S
    PROVE  \E kept \in [0..Len(l) -> Seq(T)] : Keeps(kept, l, S)
  <1> DEFINE Next(v, n) == IF l[n] \in S THEN Append(v, l[n]) ELSE v
             Solves(f) == f = [n \in 0..Len(l) |-> IF n = 0 THEN <<>> ELSE Next(f[n - 1], n)]
             K == CHOOSE f : Solves(f)
  <1>1. PICK N \in Nat : N = Len(l)
      OBVIOUS
  <1>2. PICK step : step = [p \in Seq(T) \X (1..N) |-> Next(p[1], p[2])]
      OBVIOUS
  <1>3. \A v \in Seq(T), n \in 1..N : step[<<v, n>>] = Next(v, n)
      BY <1>1, <1>2
  <1>4. \A v \in Seq(T), n \in 1..N : Next(v, n) \in Seq(T)
      BY <1>1
  <1> HIDE DEF Next
  <1>5. PICK f \in [0..N -> Seq(T)] :
            Iterates(f, <<>>, step, N)
    <2>1. \A v \in Seq(T), n \in 1..N : step[<<v, n>>] \in Seq(T)
        BY <1>3, <1>4
    <2>2. <<>> \in Seq(T)
        OBVIOUS
    <2>3. QED BY <2>1, <2>2, Iteration
  <1>6. f[0] = <<>>
      BY <1>5 DEF Iterates
  <1>7. ASSUME NEW n \in 1..N PROVE f[n] = Next(f[n - 1], n)
    <2>1. n - 1 \in 0..N
        OBVIOUS
    <2>2. f[n] = step[<<f[n - 1], n>>] /\ f[n - 1] \in Seq(T)
        BY <1>5, <2>1 DEF Iterates
    <2>3. QED BY <1>3, <2>2
  <1>8. Solves(f)
    <2>1. f = [n \in 0..N |-> f[n]]
        BY <1>5
    <2>2. \A n \in 0..N : f[n] = IF n = 0 THEN <<>> ELSE Next(f[n - 1], n)
      <3>1. TAKE n \in 0..N
      <3>2. n # 0 => n \in 1..N
          OBVIOUS
      <3>3. QED BY <1>6, <1>7, <3>2
    <2>3. QED BY <1>1, <2>1, <2>2
  <1>9. Solves(K)
      BY <1>8
  <1>10. /\ K[0] = <<>>
         /\ \A n \in 1..N : K[n] = Next(K[n - 1], n)
    <2> HIDE DEF K
    <2>1. K = [n \in 0..N |-> IF n = 0 THEN <<>> ELSE Next(K[n - 1], n)]
        BY <1>1, <1>9
    <2>2. QED BY <2>1
  <1>11. \A n \in 0..N : K[n] = f[n]
    <2> HIDE DEF K
    <2>1. PICK E : E = {n \in Nat : n <= N => K[n] = f[n]}
        OBVIOUS
    <2>2. 0 \in E
        BY <1>6, <1>10, <2>1
    <2>3. ASSUME NEW n \in Nat, n \in E PROVE n + 1 \in E
      <3>1. CASE n + 1 <= N
        <4>1. n + 1 \in 1..N /\ (n + 1) - 1 = n
            BY <3>1
        <4>2. K[n + 1] = Next(K[n], n + 1) /\ f[n + 1] = Next(f[n], n + 1)
            BY <1>7, <1>10, <4>1
        <4>3. K[n] = f[n]
            BY <2>1, <2>3, <3>1
        <4>4. QED BY <2>1, <4>2, <4>3
      <3>2. CASE ~(n + 1 <= N)
          BY <2>1, <3>2
      <3>3. QED BY <3>1, <3>2
    <2>4. Nat \subseteq E
        BY <2>2, <2>3, Induction
    <2>5. QED BY <2>1, <2>4
  <1>12. Selected(l, S) = K[N]
      BY <1>1, Zenon DEF Selected, Next
  <1>13. Selected(l, S) = f[N]
      BY <1>11, <1>12
  <1>14. QED
    <2>1. f \in [0..Len(l) -> Seq(T)]
        BY <1>1
    <2>2. \A n \in 1..Len(l) : f[n] = IF l[n] \in S THEN Append(f[n - 1], l[n]) ELSE f[n - 1]
        BY <1>1, <1>7 DEF Next
    <2>3. QED BY <1>1, <1>6, <1>13, <2>1, <2>2 DEF Keeps

\* at tells for each place of s its place in l: it skips what is not in S, and nothing else.
Positions(at, s, l, S, n) ==
    /\ at \in [1..Len(s) -> 1..n]
    /\ \A j, k \in 1..Len(s) : j < k => at[j] < at[k]
    /\ \A k \in 1..Len(s) : s[k] = l[at[k]] /\ l[at[k]] \in S
    /\ \A i \in 1..n : l[i] \in S => \E k \in 1..Len(s) : at[k] = i

\* A comprehension keeps what passes, in its order, and only that.
LEMMA SelectedPlaces ==
    ASSUME NEW T, NEW l \in Seq(T), NEW S
    PROVE  /\ Selected(l, S) \in Seq(T)
           /\ \E at : Positions(at, Selected(l, S), l, S, Len(l))
  <1>1. PICK N \in Nat : N = Len(l)
      OBVIOUS
  <1>2. PICK kept \in [0..N -> Seq(T)] : Keeps(kept, l, S)
      BY <1>1, SelectedPrefixes
  <1>3. PICK E : E = {n \in Nat : n <= N => \E at : Positions(at, kept[n], l, S, n)}
      OBVIOUS
  <1>4. 0 \in E
    <2>1. PICK at : at = [k \in {} |-> 0]
        OBVIOUS
    <2>2. Positions(at, <<>>, l, S, 0)
        BY <2>1 DEF Positions
    <2>3. QED BY <1>2, <1>3, <2>2 DEF Keeps
  <1>5. ASSUME NEW n \in Nat, n \in E PROVE n + 1 \in E
    <2>1. SUFFICES ASSUME n + 1 <= N PROVE \E at : Positions(at, kept[n + 1], l, S, n + 1)
        BY <1>3
    <2>2. PICK at : Positions(at, kept[n], l, S, n)
        BY <1>3, <1>5, <2>1
    <2>3. PICK s \in Seq(T) : s = kept[n]
        BY <1>2, <2>1
    <2>4. PICK M \in Nat : M = Len(s)
        OBVIOUS
    <2>5. kept[n + 1] = IF l[n + 1] \in S THEN Append(s, l[n + 1]) ELSE s
        BY <1>1, <1>2, <2>1, <2>3 DEF Keeps
    <2>6. /\ at \in [1..M -> 1..n]
          /\ \A j, k \in 1..M : j < k => at[j] < at[k]
          /\ \A k \in 1..M : s[k] = l[at[k]] /\ l[at[k]] \in S
          /\ \A i \in 1..n : l[i] \in S => \E k \in 1..M : at[k] = i
        BY <2>2, <2>3, <2>4 DEF Positions
    <2>7. CASE l[n + 1] \notin S
      <3>1. \A i \in 1..(n + 1) : l[i] \in S => i \in 1..n
        <4>1. \A i \in 1..(n + 1) : i = n + 1 \/ i \in 1..n
            OBVIOUS
        <4>2. QED BY <2>7, <4>1
      <3>2. Positions(at, s, l, S, n + 1)
        <4>1. at \in [1..M -> 1..(n + 1)]
            BY <2>6
        <4>2. QED BY <2>4, <2>6, <3>1, <4>1 DEF Positions
      <3>3. QED BY <2>5, <2>7, <3>2
    <2>8. CASE l[n + 1] \in S
      <3>1. l[n + 1] \in T
          BY <1>1, <2>1
      <3>2. PICK t : t = Append(s, l[n + 1])
          OBVIOUS
      <3>3. Len(t) = M + 1 /\ t[M + 1] = l[n + 1] /\ \A k \in 1..M : t[k] = s[k]
          BY <2>4, <3>1, <3>2
      <3>4. PICK bt : bt = [k \in 1..(M + 1) |-> IF k = M + 1 THEN n + 1 ELSE at[k]]
          OBVIOUS
      <3>5. bt[M + 1] = n + 1 /\ \A k \in 1..M : bt[k] = at[k] /\ bt[k] \in 1..n
          BY <2>6, <3>4
      <3>6. bt \in [1..(M + 1) -> 1..(n + 1)]
        <4>1. ASSUME NEW k \in 1..(M + 1) PROVE bt[k] \in 1..(n + 1)
          <5>1. k = M + 1 \/ k \in 1..M
              OBVIOUS
          <5>2. QED BY <3>5, <5>1
        <4>2. QED BY <3>4, <4>1
      <3>7. \A j, k \in 1..(M + 1) : j < k => bt[j] < bt[k]
        <4>1. TAKE j, k \in 1..(M + 1)
        <4>2. HAVE j < k
        <4>3. j \in 1..M
            BY <4>2
        <4>4. CASE k = M + 1
            BY <3>5, <4>3, <4>4
        <4>5. CASE k \in 1..M
            BY <2>6, <3>5, <4>2, <4>3, <4>5
        <4>6. QED BY <4>4, <4>5
      <3>8. \A k \in 1..(M + 1) : t[k] = l[bt[k]] /\ l[bt[k]] \in S
        <4>1. TAKE k \in 1..(M + 1)
        <4>2. CASE k = M + 1
            BY <2>8, <3>3, <3>5, <4>2
        <4>3. CASE k \in 1..M
            BY <2>6, <3>3, <3>5, <4>3
        <4>4. QED BY <4>2, <4>3
      <3>9. \A i \in 1..(n + 1) : l[i] \in S => \E k \in 1..(M + 1) : bt[k] = i
        <4>1. TAKE i \in 1..(n + 1)
        <4>2. HAVE l[i] \in S
        <4>3. CASE i = n + 1
            BY <3>5, <4>3
        <4>4. CASE i \in 1..n
          <5>1. PICK k \in 1..M : at[k] = i
              BY <2>6, <4>2, <4>4
          <5>2. k \in 1..(M + 1) /\ bt[k] = i
              BY <3>5, <5>1
          <5>3. QED BY <5>2
        <4>5. QED BY <4>3, <4>4
      <3>10. Positions(bt, t, l, S, n + 1)
          BY <3>3, <3>6, <3>7, <3>8, <3>9 DEF Positions
      <3>11. QED BY <2>5, <2>8, <3>2, <3>10
    <2>9. QED BY <2>7, <2>8
  <1>6. N \in E
      BY <1>4, <1>5, Induction
  <1>7. QED
      BY <1>1, <1>2, <1>3, <1>6 DEF Keeps

-----------------------------------------------------------------------------
\* Concatenation puts one sequence after the other.
LEMMA ConcatFacts ==
    ASSUME NEW T, NEW s \in Seq(T), NEW t \in Seq(T)
    PROVE  /\ s \o t \in Seq(T)
           /\ Len(s \o t) = Len(s) + Len(t)
           /\ \A i \in 1..Len(s) : (s \o t)[i] = s[i]
           /\ \A i \in 1..Len(t) : (s \o t)[Len(s) + i] = t[i]
           /\ s \o <<>> = s
  OBVIOUS

\* What is appended to the second of two sequences is appended to both.
LEMMA AppendConcat ==
    ASSUME NEW T, NEW s \in Seq(T), NEW t \in Seq(T), NEW x \in T
    PROVE  s \o Append(t, x) = Append(s \o t, x)
  OBVIOUS

\* What two lists contribute one after the other is what each contributes.
LEMMA SelectedConcat ==
    ASSUME NEW T, NEW l \in Seq(T), NEW m \in Seq(T), NEW S
    PROVE  Selected(l \o m, S) = Selected(l, S) \o Selected(m, S)
  <1>a. \A a, b \in Seq(T), y \in T : a \o Append(b, y) = Append(a \o b, y)
      BY AppendConcat
  <1>1. PICK N \in Nat, M \in Nat : N = Len(l) /\ M = Len(m)
      OBVIOUS
  <1>2. PICK c \in Seq(T) : c = l \o m
      BY ConcatFacts
  <1>3. /\ Len(c) = N + M
        /\ \A i \in 1..N : c[i] = l[i]
        /\ \A i \in 1..M : c[N + i] = m[i]
      BY <1>1, <1>2, ConcatFacts
  <1>4. PICK kl \in [0..N -> Seq(T)] : Keeps(kl, l, S)
      BY <1>1, SelectedPrefixes
  <1>5. PICK km \in [0..M -> Seq(T)] : Keeps(km, m, S)
      BY <1>1, SelectedPrefixes
  <1>6. PICK kc \in [0..(N + M) -> Seq(T)] : Keeps(kc, c, S)
      BY <1>3, SelectedPrefixes
  <1>7. \A n \in 0..N : kc[n] = kl[n]
    <2>1. PICK E : E = {n \in Nat : n <= N => kc[n] = kl[n]}
        OBVIOUS
    <2>2. 0 \in E
        BY <1>4, <1>6, <2>1 DEF Keeps
    <2>3. ASSUME NEW n \in Nat, n \in E PROVE n + 1 \in E
      <3>1. SUFFICES ASSUME n + 1 <= N PROVE kc[n + 1] = kl[n + 1]
          BY <2>1
      <3>2. n + 1 \in 1..N /\ n + 1 \in 1..(N + M)
          BY <3>1
      <3>3. kc[n] = kl[n] /\ c[n + 1] = l[n + 1]
          BY <1>3, <2>1, <2>3, <3>1
      <3>4. kc[n + 1] = IF c[n + 1] \in S THEN Append(kc[n], c[n + 1]) ELSE kc[n]
          BY <1>3, <1>6, <3>2 DEF Keeps
      <3>5. kl[n + 1] = IF l[n + 1] \in S THEN Append(kl[n], l[n + 1]) ELSE kl[n]
          BY <1>1, <1>4, <3>2 DEF Keeps
      <3>6. QED BY <3>3, <3>4, <3>5
    <2>4. Nat \subseteq E
        BY <2>2, <2>3, Induction
    <2>5. QED BY <2>1, <2>4
  <1>8. PICK g, h : g = [n \in 0..M |-> kl[N] \o km[n]] /\ h = [n \in 0..M |-> kc[N + n]]
      OBVIOUS
  <1>9. h[M] = g[M]
    <2>1. PICK E : E = {n \in Nat : n <= M => h[n] = g[n]}
        OBVIOUS
    <2>2. 0 \in E
      <3>1. kc[N] = kl[N] /\ kl[N] \in Seq(T) /\ km[0] = <<>>
          BY <1>4, <1>5, <1>7 DEF Keeps
      <3>2. kl[N] \o <<>> = kl[N]
          BY <3>1
      <3>3. g[0] = kl[N] \o km[0] /\ h[0] = kc[N]
          BY <1>8
      <3>4. QED BY <2>1, <3>1, <3>2, <3>3
    <2>3. ASSUME NEW n \in Nat, n \in E PROVE n + 1 \in E
      <3>1. SUFFICES ASSUME n + 1 <= M PROVE h[n + 1] = g[n + 1]
          BY <2>1
      <3>2. n + 1 \in 1..M /\ N + n + 1 \in 1..(N + M) /\ n \in 0..M /\ n + 1 \in 0..M
          BY <3>1
      <3>3. kl[N] \in Seq(T) /\ km[n] \in Seq(T)
          BY <3>2
      <3>4. h[n] = kc[N + n] /\ h[n + 1] = kc[N + n + 1]
          BY <1>8, <3>2
      <3>5. g[n] = kl[N] \o km[n] /\ g[n + 1] = kl[N] \o km[n + 1]
          BY <1>8, <3>2
      <3>6. h[n] = g[n] /\ c[N + n + 1] = m[n + 1]
          BY <1>3, <2>1, <2>3, <3>1, <3>2
      <3>7. kc[N + n + 1] = IF c[N + n + 1] \in S THEN Append(kc[N + n], c[N + n + 1]) ELSE kc[N + n]
        <4>1. (N + n + 1) - 1 = N + n
            OBVIOUS
        <4>2. QED BY <1>3, <1>6, <3>2, <4>1 DEF Keeps
      <3>8. km[n + 1] = IF m[n + 1] \in S THEN Append(km[n], m[n + 1]) ELSE km[n]
          BY <1>1, <1>5, <3>2 DEF Keeps
      <3>9. kl[N] \o Append(km[n], m[n + 1]) = Append(kl[N] \o km[n], m[n + 1])
        <4>1. km[n] \in Seq(T) /\ m[n + 1] \in T
            BY <1>1, <3>2, <3>3
        <4>2. QED BY <1>a, <3>3, <4>1
      <3>10. QED BY <3>4, <3>5, <3>6, <3>7, <3>8, <3>9
    <2>4. Nat \subseteq E
        BY <2>2, <2>3, Induction
    <2>5. QED BY <2>1, <2>4
  <1>10. kc[N + M] = kl[N] \o km[M]
      BY <1>8, <1>9
  <1>11. QED
      BY <1>1, <1>2, <1>3, <1>4, <1>5, <1>6, <1>10 DEF Keeps

\* A single element passes or does not.
LEMMA SelectedOne ==
    ASSUME NEW T, NEW x \in T, NEW S
    PROVE  Selected(<<x>>, S) = IF x \in S THEN <<x>> ELSE <<>>
  <1>1. PICK l : l = <<x>>
      OBVIOUS
  <1>2. l \in Seq(T) /\ Len(l) = 1 /\ l[1] = x
      BY <1>1
  <1>3. PICK kept \in [0..Len(l) -> Seq(T)] : Keeps(kept, l, S)
      BY <1>2, SelectedPrefixes
  <1>4. kept[0] = <<>> /\ Selected(l, S) = kept[1]
      BY <1>2, <1>3 DEF Keeps
  <1>5. kept[1] = IF x \in S THEN Append(kept[0], x) ELSE kept[0]
    <2>1. 1 \in 1..Len(l) /\ 1 - 1 = 0
        BY <1>2
    <2>2. QED BY <1>2, <1>3, <2>1 DEF Keeps
  <1>6. Append(<<>>, x) = <<x>>
      OBVIOUS
  <1>7. QED BY <1>1, <1>4, <1>5, <1>6

\* An element at the tail is seen if it passes.
LEMMA SelectedAppend ==
    ASSUME NEW T, NEW l \in Seq(T), NEW x \in T, NEW S
    PROVE  Selected(Append(l, x), S) =
              IF x \in S THEN Append(Selected(l, S), x) ELSE Selected(l, S)
  <1>1. PICK m : m = <<x>>
      OBVIOUS
  <1>2. m \in Seq(T) /\ Append(l, x) = l \o m
      BY <1>1
  <1>3. Selected(l \o m, S) = Selected(l, S) \o Selected(m, S)
      BY <1>2, SelectedConcat
  <1>4. Selected(m, S) = IF x \in S THEN <<x>> ELSE <<>>
      BY <1>1, SelectedOne
  <1>5. Selected(l, S) \in Seq(T)
      BY SelectedPlaces
  <1>6. \A s \in Seq(T) : s \o <<>> = s /\ s \o <<x>> = Append(s, x)
      OBVIOUS
  <1>7. QED BY <1>2, <1>3, <1>4, <1>5, <1>6

\* So is the one that leaves at the head.
LEMMA SelectedTail ==
    ASSUME NEW T, NEW l \in Seq(T), l # <<>>, NEW S
    PROVE  /\ Head(l) \in S => /\ Selected(l, S) # <<>>
                               /\ Head(Selected(l, S)) = Head(l)
                               /\ Selected(Tail(l), S) = Tail(Selected(l, S))
           /\ Head(l) \notin S => Selected(Tail(l), S) = Selected(l, S)
  <1>1. PICK x, m, o : x = Head(l) /\ m = Tail(l) /\ o = <<x>>
      OBVIOUS
  <1>2. x \in T /\ m \in Seq(T)
      BY <1>1
  <1>3. o \in Seq(T) /\ l = o \o m
      BY <1>1, <1>2
  <1>4. Selected(l, S) = Selected(o, S) \o Selected(m, S)
      BY <1>2, <1>3, SelectedConcat
  <1>5. Selected(o, S) = IF x \in S THEN <<x>> ELSE <<>>
      BY <1>1, <1>2, SelectedOne
  <1>6. PICK s : s = Selected(m, S)
      OBVIOUS
  <1>7. s \in Seq(T)
      BY <1>2, <1>6, SelectedPlaces
  <1>8. /\ <<>> \o s = s
        /\ <<x>> \o s # <<>> /\ Head(<<x>> \o s) = x /\ Tail(<<x>> \o s) = s
      BY <1>2, <1>7
  <1>9. QED BY <1>1, <1>4, <1>5, <1>6, <1>8
====
