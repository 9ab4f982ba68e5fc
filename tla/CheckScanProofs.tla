--------------------------- MODULE CheckScanProofs ---------------------------
(***************************************************************************)
(* The scan of any tree, by any number of goroutines, whatever             *)
(* packages.Load returns and whichever files vanish: the map of covered    *)
(* files under its mutex (addCovered, ast_scanner.go:337-342), the slots   *)
(* of the modules and what is reported from them.                          *)
(***************************************************************************)
EXTENDS CheckScan, TLAPS, WellFoundedInduction, FiniteSetTheorems

-----------------------------------------------------------------------------
(* Sequences built from left to right *)

LEMMA LeastExists ==
    ASSUME NEW T, T \subseteq Nat, T # {}
    PROVE  \E m \in T : \A k \in T : ~ (k < m)
<1>1. PICK m \in T : \A k \in T : ~ (<<k, m>> \in OpToRel(<, Nat))
  BY NatLessThanWellFounded, WFMin
<1> QED BY <1>1 DEF OpToRel

LEMMA Induction ==
    ASSUME NEW N \in Nat, NEW Q, 0 \in Q, \A n \in 1 .. N : n - 1 \in Q => n \in Q
    PROVE  \A n \in 0 .. N : n \in Q
<1> DEFINE T == (0 .. N) \ Q
<1>1. T = {}
  <2>1. SUFFICES ASSUME T # {} PROVE FALSE
    OBVIOUS
  <2>2. PICK m \in T : \A k \in T : ~ (k < m)
    <3>1. T \subseteq Nat
      OBVIOUS
    <3> HIDE DEF T
    <3> QED BY <2>1, <3>1, LeastExists
  <2>3. m \in 1 .. N /\ m - 1 \in 0 .. N /\ m - 1 < m
    BY <2>2
  <2>4. m - 1 \in Q
    BY <2>2, <2>3
  <2> QED BY <2>2, <2>3, <2>4
<1> QED BY <1>1

\* The values of a function on 0 .. N defined by recursion on its argument.
Iterates(g, N, A, a, step) ==
    /\ g \in [0 .. N -> A]
    /\ g[0] = a
    /\ \A n \in 1 .. N : g[n] = step[n][g[n - 1]]

\* There is such a function.
LEMMA Recursion ==
    ASSUME NEW N \in Nat, NEW A, NEW a \in A, NEW step \in [1 .. N -> [A -> A]]
    PROVE  \E g : Iterates(g, N, A, a, step)
<1> DEFINE Upto(m) == \E g \in [0 .. m -> A] :
                         g[0] = a /\ \A n \in 1 .. m : g[n] = step[n][g[n - 1]]
           Q == {m \in 0 .. N : Upto(m)}
<1>1. Upto(0)
  <2>1. [n \in 0 .. 0 |-> a] \in [0 .. 0 -> A] /\ [n \in 0 .. 0 |-> a][0] = a
    OBVIOUS
  <2>2. 1 .. 0 = {}
    OBVIOUS
  <2> QED BY <2>1, <2>2
<1>2. ASSUME NEW m \in 1 .. N, Upto(m - 1) PROVE Upto(m)
  <2>1. PICK h \in [0 .. m - 1 -> A] :
           h[0] = a /\ \A n \in 1 .. m - 1 : h[n] = step[n][h[n - 1]]
    BY <1>2
  <2>2. m - 1 \in 0 .. m - 1 /\ m \in Nat /\ 0 \in 0 .. m - 1
    OBVIOUS
  <2> DEFINE g == [n \in 0 .. m |-> IF n = m THEN step[m][h[m - 1]] ELSE h[n]]
  <2>3. step[m][h[m - 1]] \in A
    BY <2>1, <2>2
  <2>4. g \in [0 .. m -> A]
    <3>1. \A n \in 0 .. m : n # m => n \in 0 .. m - 1
      BY <2>2
    <3> QED BY <2>1, <2>3, <3>1
  <2>5. g[0] = a
    BY <2>1, <2>2
  <2>6. ASSUME NEW n \in 1 .. m PROVE g[n] = step[n][g[n - 1]]
    <3>1. n - 1 \in 0 .. m /\ n - 1 # m /\ n \in 0 .. m
      OBVIOUS
    <3>2. g[n - 1] = h[n - 1]
      BY <3>1
    <3>3. CASE n = m
      BY <3>1, <3>2, <3>3
    <3>4. CASE n # m
      <4>1. n \in 1 .. m - 1
        BY <3>4
      <4> QED BY <2>1, <3>1, <3>2, <3>4, <4>1
    <3> QED BY <3>3, <3>4
  <2> HIDE DEF g
  <2> QED BY <2>4, <2>5, <2>6
<1>3. \A n \in 0 .. N : n \in Q
  <2>1. 0 \in Q
    BY <1>1
  <2>2. \A n \in 1 .. N : n - 1 \in Q => n \in Q
    <3> HIDE DEF Upto
    <3> QED BY <1>2
  <2> HIDE DEF Q
  <2> QED BY <2>1, <2>2, Induction
<1>4. Upto(N)
  BY <1>3
<1> QED BY <1>4 DEF Iterates

\* Among, one element at a time.
Gathers(g, s, K, S) ==
    /\ g \in [0 .. Len(s) -> Seq(S)]
    /\ Among(s, K) = g[Len(s)]
    /\ g[0] = <<>>
    /\ \A n \in 1 .. Len(s) :
          g[n] = IF s[n] \in K THEN Append(g[n - 1], s[n]) ELSE g[n - 1]

LEMMA AmongSteps ==
    ASSUME NEW S, NEW s \in Seq(S), NEW K
    PROVE  \E g : Gathers(g, s, K, S)
<1> DEFINE N == Len(s)
           A == Seq(S)
           none == <<>>
           step == [n \in 1 .. N |-> [t \in A |-> IF s[n] \in K THEN Append(t, s[n]) ELSE t]]
           Def(g) == [n \in 0 .. N |-> IF n = 0 THEN <<>>
                                       ELSE IF s[n] \in K THEN Append(g[n - 1], s[n]) ELSE g[n - 1]]
           among == CHOOSE g : g = Def(g)
<1>1. N \in Nat /\ none \in A
  OBVIOUS
<1>2. step \in [1 .. N -> [A -> A]]
  <2>1. \A n \in 1 .. N : s[n] \in S
    OBVIOUS
  <2>2. \A n \in 1 .. N : [t \in A |-> IF s[n] \in K THEN Append(t, s[n]) ELSE t] \in [A -> A]
    BY <2>1
  <2> QED BY <2>2
<1>3. PICK g : Iterates(g, N, A, none, step)
  <2> HIDE DEF step, N, A, none, Def, among
  <2> QED BY <1>1, <1>2, Recursion
<1>4. g \in [0 .. N -> A] /\ g[0] = <<>>
  BY <1>3 DEF Iterates
<1>5. \A n \in 1 .. N : g[n] = IF s[n] \in K THEN Append(g[n - 1], s[n]) ELSE g[n - 1]
  <2> SUFFICES ASSUME NEW n \in 1 .. N
               PROVE  g[n] = IF s[n] \in K THEN Append(g[n - 1], s[n]) ELSE g[n - 1]
    OBVIOUS
  <2>1. n - 1 \in 0 .. N
    BY <1>1
  <2>2. g[n - 1] \in A
    <3> HIDE DEF A, N
    <3> QED BY <1>4, <2>1
  <2>3. step[n] = [t \in A |-> IF s[n] \in K THEN Append(t, s[n]) ELSE t]
    <3> HIDE DEF A, N
    <3> QED OBVIOUS
  <2>4. step[n][g[n - 1]] = IF s[n] \in K THEN Append(g[n - 1], s[n]) ELSE g[n - 1]
    <3> HIDE DEF A, N, step
    <3> QED BY <2>2, <2>3
  <2>5. g[n] = step[n][g[n - 1]]
    <3> HIDE DEF A, N, step, none
    <3> QED BY <1>3 DEF Iterates
  <2> QED BY ONLY <2>4, <2>5
<1>6. g = Def(g)
  <2>1. \A n \in 0 .. N : n = 0 \/ n \in 1 .. N
    BY <1>1
  <2>2. \A n \in 0 .. N : g[n] = IF n = 0 THEN <<>>
                                 ELSE IF s[n] \in K THEN Append(g[n - 1], s[n]) ELSE g[n - 1]
    <3> HIDE DEF N
    <3> QED BY <1>4, <1>5, <2>1
  <2>3. Def(g) = [n \in 0 .. N |-> g[n]]
    <3> HIDE DEF N
    <3> QED BY <2>2
  <2>4. g = [n \in 0 .. N |-> g[n]]
    BY <1>4
  <2> QED BY <2>3, <2>4
<1>7. among = Def(among)
  <2> HIDE DEF Def
  <2> QED BY <1>6
<1>8. Among(s, K) = among[N]
  BY DEF Among
<1>9. among[0] = <<>> /\ \A n \in 1 .. N :
          among[n] = IF s[n] \in K THEN Append(among[n - 1], s[n]) ELSE among[n - 1]
  <2> HIDE DEF among
  <2>1. \A n \in 0 .. N : among[n] = Def(among)[n]
    BY <1>7
  <2>2. 0 \in 0 .. N /\ \A n \in 1 .. N : n \in 0 .. N /\ n # 0
    BY <1>1
  <2> HIDE DEF N
  <2> QED BY <2>1, <2>2
<1> DEFINE Same == {k \in 0 .. N : among[k] = g[k]}
<1>10. \A n \in 0 .. N : n \in Same
  <2> HIDE DEF among, N
  <2>1. 0 \in Same
    BY <1>1, <1>4, <1>9
  <2>2. \A n \in 1 .. N : n - 1 \in Same => n \in Same
    BY <1>1, <1>5, <1>9
  <2> HIDE DEF Same
  <2> QED BY ONLY <1>1, <2>1, <2>2, Induction
<1>11. Among(s, K) = g[N]
  <2> HIDE DEF among, N
  <2> QED BY <1>1, <1>8, <1>10
<1> QED BY <1>4, <1>5, <1>11 DEF Gathers

\* What is left is what is in K, and in the order it has in s.
Selects(r, s, K, S) ==
    /\ r \in Seq(S \cap K)
    /\ ToSet(r) = ToSet(s) \cap K
    /\ \A i, j \in DOMAIN r : i < j => \E k, l \in DOMAIN s : k < l /\ s[k] = r[i] /\ s[l] = r[j]

LEMMA AmongIs ==
    ASSUME NEW S, NEW s \in Seq(S), NEW K
    PROVE  Selects(Among(s, K), s, K, S)
<1> DEFINE N == Len(s)
<1>0. N \in Nat /\ DOMAIN s = 1 .. N
  OBVIOUS
<1>1. PICK g : Gathers(g, s, K, S)
  BY AmongSteps
<1>2. /\ g \in [0 .. N -> Seq(S)]
      /\ Among(s, K) = g[N]
      /\ g[0] = <<>>
      /\ \A n \in 1 .. N : g[n] = IF s[n] \in K THEN Append(g[n - 1], s[n]) ELSE g[n - 1]
  BY <1>1 DEF Gathers
<1> DEFINE Held(n) ==
             /\ g[n] \in Seq(S \cap K)
             /\ \A x : (\E i \in DOMAIN g[n] : g[n][i] = x) <=> x \in K /\ \E i \in 1 .. n : s[i] = x
             /\ \A i, j \in DOMAIN g[n] : i < j =>
                   \E k, l \in 1 .. n : k < l /\ s[k] = g[n][i] /\ s[l] = g[n][j]
           Q == {n \in 0 .. N : Held(n)}
<1> HIDE DEF N
<1>3. Held(0)
  <2>1. g[0] = <<>> /\ DOMAIN g[0] = {}
    BY <1>2
  <2>2. 1 .. 0 = {}
    OBVIOUS
  <2> QED BY <2>1, <2>2
<1>4. ASSUME NEW n \in 1 .. N, Held(n - 1) PROVE Held(n)
  <2>0. n \in Nat /\ n - 1 \in Nat /\ 1 .. n = (1 .. n - 1) \cup {n}
    BY <1>0
  <2>1. CASE s[n] \notin K
    <3>1. g[n] = g[n - 1]
      BY <1>2, <2>1
    <3> QED BY <1>4, <2>0, <2>1, <3>1
  <2>2. CASE s[n] \in K
    <3> DEFINE t == g[n - 1]
               m == Len(t)
    <3>1. g[n] = Append(t, s[n])
      BY <1>2, <2>2
    <3>2. /\ t \in Seq(S \cap K)
          /\ \A x : (\E i \in DOMAIN t : t[i] = x) <=> x \in K /\ \E i \in 1 .. n - 1 : s[i] = x
          /\ \A i, j \in DOMAIN t : i < j =>
                \E k, l \in 1 .. n - 1 : k < l /\ s[k] = t[i] /\ s[l] = t[j]
      BY <1>4
    <3>3. s[n] \in S \cap K
      BY <1>0, <2>2
    <3> HIDE DEF t
    <3>4. /\ m \in Nat /\ DOMAIN t = 1 .. m
          /\ Append(t, s[n]) \in Seq(S \cap K)
          /\ DOMAIN Append(t, s[n]) = 1 .. m + 1
          /\ \A i \in 1 .. m : Append(t, s[n])[i] = t[i]
          /\ Append(t, s[n])[m + 1] = s[n]
      BY <3>2, <3>3
    <3> HIDE DEF m
    <3>5. 1 .. m + 1 = (1 .. m) \cup {m + 1}
      BY <3>4
    <3> DEFINE u == g[n]
    <3>6. /\ u \in Seq(S \cap K) /\ DOMAIN u = (1 .. m) \cup {m + 1}
          /\ \A i \in 1 .. m : u[i] = t[i]
          /\ u[m + 1] = s[n]
      BY <3>1, <3>4, <3>5
    <3> HIDE DEF u
    <3>7. ASSUME NEW x
          PROVE  (\E i \in DOMAIN u : u[i] = x) <=> x \in K /\ \E i \in 1 .. n : s[i] = x
      <4>1. (\E i \in DOMAIN u : u[i] = x) <=> (\E i \in DOMAIN t : t[i] = x) \/ s[n] = x
        BY <3>4, <3>6
      <4>2. (\E i \in 1 .. n : s[i] = x) <=> (\E i \in 1 .. n - 1 : s[i] = x) \/ s[n] = x
        BY <2>0
      <4> QED BY <2>2, <3>2, <4>1, <4>2
    <3>8. ASSUME NEW i \in DOMAIN u, NEW j \in DOMAIN u, i < j
          PROVE  \E k, l \in 1 .. n : k < l /\ s[k] = u[i] /\ s[l] = u[j]
      <4>1. i \in 1 .. m
        BY <3>4, <3>6, <3>8
      <4>2. CASE j \in 1 .. m
        <5>1. PICK k \in 1 .. n - 1, l \in 1 .. n - 1 : k < l /\ s[k] = t[i] /\ s[l] = t[j]
          BY <3>2, <3>4, <3>8, <4>1, <4>2
        <5>2. k \in 1 .. n /\ l \in 1 .. n
          BY <2>0
        <5> QED BY <3>6, <4>1, <4>2, <5>1, <5>2
      <4>3. CASE j = m + 1
        <5>1. PICK k \in 1 .. n - 1 : s[k] = t[i]
          BY <3>2, <3>4, <4>1
        <5>2. k \in 1 .. n /\ n \in 1 .. n /\ k < n
          BY <2>0
        <5> QED BY <3>6, <4>1, <4>3, <5>1, <5>2
      <4> QED BY <3>6, <4>2, <4>3
    <3> QED BY <3>6, <3>7, <3>8 DEF u
  <2> QED BY <2>1, <2>2
<1>5. \A n \in 0 .. N : n \in Q
  <2>1. 0 \in Q /\ \A n \in 1 .. N : n - 1 \in Q => n \in Q
    <3> HIDE DEF Held
    <3>1. \A n \in 1 .. N : n \in 0 .. N
      BY <1>0
    <3> QED BY <1>0, <1>3, <1>4, <3>1
  <2> HIDE DEF Q
  <2> QED BY <1>0, <2>1, Induction
<1>6. Held(N)
  <2> HIDE DEF Held
  <2> QED BY <1>0, <1>5
<1> DEFINE r == Among(s, K)
<1>7. r = g[N]
  BY <1>2
<1> HIDE DEF r
<1>8. r \in Seq(S \cap K)
  BY <1>6, <1>7
<1>9. ToSet(r) = ToSet(s) \cap K
  <2>1. \A x : x \in ToSet(r) <=> \E i \in DOMAIN r : r[i] = x
    BY DEF ToSet
  <2>2. \A x : x \in ToSet(s) <=> \E i \in 1 .. N : s[i] = x
    BY <1>0 DEF ToSet
  <2>3. \A x : (\E i \in DOMAIN r : r[i] = x) <=> x \in K /\ \E i \in 1 .. N : s[i] = x
    BY <1>6, <1>7
  <2> QED BY <2>1, <2>2, <2>3
<1>10. \A i, j \in DOMAIN r : i < j => \E k, l \in DOMAIN s : k < l /\ s[k] = r[i] /\ s[l] = r[j]
  <2>1. \A i, j \in DOMAIN r : i < j => \E k, l \in 1 .. N : k < l /\ s[k] = r[i] /\ s[l] = r[j]
    BY <1>6, <1>7
  <2> HIDE DEF Held
  <2> QED BY <1>0, <2>1
<1>11. Selects(r, s, K, S)
  BY <1>8, <1>9, <1>10 DEF Selects
<1> QED BY <1>11 DEF r

\* FlattenSeq, one sequence at a time.
Joins(g, ss, S) ==
    /\ g \in [0 .. Len(ss) -> Seq(S)]
    /\ FlattenSeq(ss) = g[Len(ss)]
    /\ g[0] = <<>>
    /\ \A n \in 1 .. Len(ss) : g[n] = g[n - 1] \o ss[n]

LEMMA FlattenSteps ==
    ASSUME NEW S, NEW ss \in Seq(Seq(S))
    PROVE  \E g : Joins(g, ss, S)
<1> DEFINE N == Len(ss)
           A == Seq(S)
           none == <<>>
           step == [n \in 1 .. N |-> [t \in A |-> t \o ss[n]]]
           Def(g) == [i \in 1 .. N |-> IF i = 1 THEN ss[i] ELSE g[i - 1] \o ss[i]]
           flatten == CHOOSE g : g = Def(g)
<1>1. N \in Nat /\ none \in A /\ \A n \in 1 .. N : ss[n] \in A
  OBVIOUS
<1>2. step \in [1 .. N -> [A -> A]]
  <2>1. \A n \in 1 .. N : [t \in A |-> t \o ss[n]] \in [A -> A]
    BY <1>1
  <2> QED BY <2>1
<1>3. PICK g : Iterates(g, N, A, none, step)
  <2> HIDE DEF step, N, A, none, Def, flatten
  <2> QED BY <1>1, <1>2, Recursion
<1>4. g \in [0 .. N -> A] /\ g[0] = <<>>
  BY <1>3 DEF Iterates
<1>5. \A n \in 1 .. N : g[n] = g[n - 1] \o ss[n]
  <2> SUFFICES ASSUME NEW n \in 1 .. N PROVE g[n] = g[n - 1] \o ss[n]
    OBVIOUS
  <2>1. n - 1 \in 0 .. N
    BY <1>1
  <2>2. g[n - 1] \in A
    <3> HIDE DEF A, N
    <3> QED BY <1>4, <2>1
  <2>3. step[n] = [t \in A |-> t \o ss[n]]
    <3> HIDE DEF A, N
    <3> QED OBVIOUS
  <2>4. step[n][g[n - 1]] = g[n - 1] \o ss[n]
    <3> HIDE DEF A, N, step
    <3> QED BY <2>2, <2>3
  <2>5. g[n] = step[n][g[n - 1]]
    <3> HIDE DEF A, N, step, none
    <3> QED BY <1>3 DEF Iterates
  <2> QED BY ONLY <2>4, <2>5
<1>6. 1 \in 1 .. N => g[1] = ss[1]
  <2> SUFFICES ASSUME 1 \in 1 .. N PROVE g[1] = ss[1]
    OBVIOUS
  <2>1. g[1] = g[1 - 1] \o ss[1] /\ 1 - 1 = 0
    <3>1. \A n \in 1 .. N : \A k : k = n - 1 => g[n] = g[k] \o ss[n]
      <4> HIDE DEF N
      <4> QED BY ONLY <1>5
    <3>2. 1 - 1 = 0
      OBVIOUS
    <3> HIDE DEF N
    <3> QED BY ONLY <3>1, <3>2, 1 \in 1 .. N
  <2>2. g[1] = <<>> \o ss[1]
    BY <1>4, <2>1
  <2>3. ss[1] \in Seq(S)
    BY <1>1
  <2> QED BY <2>2, <2>3
<1> DEFINE h == [i \in 1 .. N |-> g[i]]
<1>7. h = Def(h)
  <2>1. ASSUME NEW i \in 1 .. N PROVE h[i] = IF i = 1 THEN ss[i] ELSE h[i - 1] \o ss[i]
    <3>1. CASE i = 1
      BY <1>6, <3>1
    <3>2. CASE i # 1
      <4>1. i - 1 \in 1 .. N
        BY <1>1, <3>2
      <4>2. h[i] = g[i] /\ h[i - 1] = g[i - 1]
        BY <4>1
      <4> HIDE DEF h
      <4> QED BY <1>5, <3>2, <4>2
    <3> QED BY <3>1, <3>2
  <2>2. Def(h) = [i \in 1 .. N |-> h[i]]
    <3> HIDE DEF N, h
    <3> QED BY <2>1
  <2>3. h = [i \in 1 .. N |-> h[i]]
    OBVIOUS
  <2> QED BY <2>2, <2>3
<1>8. flatten = Def(flatten)
  <2> HIDE DEF Def, h
  <2> QED BY <1>7
<1>9. FlattenSeq(ss) = IF N = 0 THEN ss ELSE flatten[N]
  BY DEF FlattenSeq
<1>10. \A i \in 1 .. N : flatten[i] = IF i = 1 THEN ss[i] ELSE flatten[i - 1] \o ss[i]
  <2> HIDE DEF flatten
  <2>1. \A i \in 1 .. N : flatten[i] = Def(flatten)[i]
    BY <1>8
  <2> HIDE DEF N
  <2> QED BY <2>1
<1> DEFINE Same == {k \in 0 .. N : k = 0 \/ flatten[k] = g[k]}
<1>11. \A n \in 0 .. N : n \in Same
  <2> HIDE DEF flatten, h, Def, A, step
  <2>1. 0 \in Same
    BY <1>1
  <2>2. ASSUME NEW n \in 1 .. N, n - 1 \in Same PROVE n \in Same
    <3>1. CASE n = 1
      <4>1. flatten[1] = ss[1] /\ g[1] = ss[1] /\ n \in 0 .. N
        BY <1>1, <1>10, <1>6, <3>1
      <4> QED BY <3>1, <4>1
    <3>2. CASE n # 1
      <4>1. flatten[n] = flatten[n - 1] \o ss[n] /\ g[n] = g[n - 1] \o ss[n]
        BY <1>5, <1>10, <3>2
      <4>2. flatten[n - 1] = g[n - 1]
        BY <2>2, <3>2, <1>1
      <4>3. n \in 0 .. N
        BY <1>1
      <4> QED BY <4>1, <4>2, <4>3
    <3> QED BY <3>1, <3>2
  <2> HIDE DEF Same, N
  <2> QED BY ONLY <1>1, <2>1, <2>2, Induction
<1>12. FlattenSeq(ss) = g[N]
  <2> HIDE DEF flatten, h, Def, A, step
  <2>1. CASE N = 0
    BY <1>4, <1>9, <2>1
  <2>2. CASE N # 0
    <3>1. N \in Same /\ N # 0
      BY <1>1, <1>11, <2>2
    <3> QED BY <1>9, <3>1
  <2> QED BY <2>1, <2>2
<1> QED BY <1>4, <1>5, <1>12 DEF Joins

\* Its elements are those of the sequences, in their order.
Concatenates(r, ss, S) ==
    /\ r \in Seq(S)
    /\ \A x : x \in ToSet(r) <=> \E n \in DOMAIN ss : x \in ToSet(ss[n])
    /\ \A i, j \in DOMAIN r : i < j =>
          \/ \E n \in DOMAIN ss : \E k, l \in DOMAIN ss[n] : k < l /\ ss[n][k] = r[i] /\ ss[n][l] = r[j]
          \/ \E m, n \in DOMAIN ss : m < n /\ r[i] \in ToSet(ss[m]) /\ r[j] \in ToSet(ss[n])

LEMMA FlattenIs ==
    ASSUME NEW S, NEW ss \in Seq(Seq(S))
    PROVE  Concatenates(FlattenSeq(ss), ss, S)
<1> DEFINE N == Len(ss)
<1>0. N \in Nat /\ DOMAIN ss = 1 .. N /\ \A n \in 1 .. N : ss[n] \in Seq(S)
  OBVIOUS
<1>1. PICK g : Joins(g, ss, S)
  BY FlattenSteps
<1>2. /\ g \in [0 .. N -> Seq(S)]
      /\ FlattenSeq(ss) = g[N]
      /\ g[0] = <<>>
      /\ \A n \in 1 .. N : g[n] = g[n - 1] \o ss[n]
  BY <1>1 DEF Joins
<1> DEFINE Apart(n, x, y) ==
             \/ \E m \in 1 .. n : \E k, l \in DOMAIN ss[m] : k < l /\ ss[m][k] = x /\ ss[m][l] = y
             \/ \E p, q \in 1 .. n : p < q /\ x \in ToSet(ss[p]) /\ y \in ToSet(ss[q])
           Held(n) ==
             /\ \A x : x \in ToSet(g[n]) <=> \E m \in 1 .. n : x \in ToSet(ss[m])
             /\ \A i, j \in DOMAIN g[n] : i < j => Apart(n, g[n][i], g[n][j])
           Q == {n \in 0 .. N : Held(n)}
<1> HIDE DEF N, Apart
<1>3. Held(0)
  <2>1. g[0] = <<>> /\ DOMAIN g[0] = {} /\ ToSet(g[0]) = {}
    BY <1>2 DEF ToSet
  <2>2. 1 .. 0 = {}
    OBVIOUS
  <2> QED BY <2>1, <2>2
<1>4. ASSUME NEW n \in 1 .. N, Held(n - 1) PROVE Held(n)
  <2>0. n \in Nat /\ n - 1 \in Nat /\ 1 .. n = (1 .. n - 1) \cup {n} /\ n - 1 \in 0 .. N
    BY <1>0
  <2> DEFINE t == g[n - 1]
             r == ss[n]
             u == g[n]
             m == Len(t)
             e == Len(r)
  <2>1. t \in Seq(S) /\ r \in Seq(S) /\ u = t \o r
    BY <1>0, <1>2, <2>0
  <2>2. /\ \A x : x \in ToSet(t) <=> \E p \in 1 .. n - 1 : x \in ToSet(ss[p])
        /\ \A i, j \in DOMAIN t : i < j => Apart(n - 1, t[i], t[j])
    BY <1>4
  <2> HIDE DEF t, r, u
  <2>3. /\ m \in Nat /\ e \in Nat /\ DOMAIN t = 1 .. m /\ DOMAIN r = 1 .. e
        /\ DOMAIN u = 1 .. m + e
        /\ \A i \in 1 .. m + e : u[i] = IF i <= m THEN t[i] ELSE r[i - m]
    BY <2>1
  <2> HIDE DEF m, e
  <2>4. \A x, y : Apart(n - 1, x, y) => Apart(n, x, y)
    BY <2>0 DEF Apart
  <2>5. ASSUME NEW x PROVE x \in ToSet(u) <=> \E p \in 1 .. n : x \in ToSet(ss[p])
    <3>1. x \in ToSet(u) <=> x \in ToSet(t) \/ x \in ToSet(r)
      <4>1. ASSUME NEW i \in 1 .. m PROVE i \in 1 .. m + e /\ u[i] = t[i]
        BY <2>3
      <4>2. ASSUME NEW i \in 1 .. e PROVE i + m \in 1 .. m + e /\ u[i + m] = r[i]
        BY <2>3
      <4>3. ASSUME NEW i \in 1 .. m + e
            PROVE  (i \in 1 .. m /\ u[i] = t[i]) \/ (i - m \in 1 .. e /\ u[i] = r[i - m])
        BY <2>3
      <4>4. ASSUME x \in ToSet(u) PROVE x \in ToSet(t) \/ x \in ToSet(r)
        <5>1. PICK i \in 1 .. m + e : u[i] = x
          BY <2>3, <4>4 DEF ToSet
        <5> QED BY <2>3, <4>3, <5>1 DEF ToSet
      <4>5. ASSUME x \in ToSet(t) PROVE x \in ToSet(u)
        <5>1. PICK i \in 1 .. m : t[i] = x
          BY <2>3, <4>5 DEF ToSet
        <5> QED BY <2>3, <4>1, <5>1 DEF ToSet
      <4>6. ASSUME x \in ToSet(r) PROVE x \in ToSet(u)
        <5>1. PICK i \in 1 .. e : r[i] = x
          BY <2>3, <4>6 DEF ToSet
        <5> QED BY <2>3, <4>2, <5>1 DEF ToSet
      <4> QED BY <4>4, <4>5, <4>6
    <3>2. (\E p \in 1 .. n : x \in ToSet(ss[p])) <=> (\E p \in 1 .. n - 1 : x \in ToSet(ss[p])) \/ x \in ToSet(r)
      BY <2>0 DEF r
    <3> QED BY <2>2, <3>1, <3>2
  <2>6. ASSUME NEW i \in DOMAIN u, NEW j \in DOMAIN u, i < j PROVE Apart(n, u[i], u[j])
    <3>0. i \in 1 .. m + e /\ j \in 1 .. m + e
      BY <2>3, <2>6
    <3>1. CASE j <= m
      <4>1. i \in DOMAIN t /\ j \in DOMAIN t /\ u[i] = t[i] /\ u[j] = t[j]
        BY <2>3, <2>6, <3>0, <3>1
      <4>2. Apart(n - 1, t[i], t[j])
        BY <2>2, <2>6, <4>1
      <4> QED BY <2>4, <4>1, <4>2
    <3>2. CASE i <= m /\ ~ (j <= m)
      <4>1. i \in DOMAIN t /\ u[i] = t[i] /\ j - m \in DOMAIN r /\ u[j] = r[j - m]
        BY <2>3, <3>0, <3>2
      <4>2. u[i] \in ToSet(t) /\ u[j] \in ToSet(r)
        BY <4>1 DEF ToSet
      <4>3. PICK p \in 1 .. n - 1 : u[i] \in ToSet(ss[p])
        BY <2>2, <4>2
      <4>4. p \in 1 .. n /\ n \in 1 .. n /\ p < n
        BY <2>0
      <4> QED BY <4>2, <4>3, <4>4 DEF Apart, r
    <3>3. CASE ~ (i <= m)
      <4>0. /\ m \in Nat /\ e \in Nat
            /\ i \in 1 .. m + e /\ j \in 1 .. m + e /\ i < j /\ ~ (i <= m)
        BY <2>3, <2>6, <3>0, <3>3
      <4>1. /\ i - m \in 1 .. e /\ j - m \in 1 .. e
            /\ i - m < j - m /\ ~ (j <= m)
        BY ONLY <4>0
      <4>3. /\ i - m \in DOMAIN r /\ u[i] = r[i - m]
            /\ j - m \in DOMAIN r /\ u[j] = r[j - m]
        BY <2>3, <4>0, <4>1
      <4>2. n \in 1 .. n
        BY <2>0
      <4> QED BY <4>1, <4>2, <4>3 DEF Apart, r
    <3> QED BY <3>1, <3>2, <3>3
  <2> QED BY <2>5, <2>6 DEF u
<1>5. \A n \in 0 .. N : n \in Q
  <2>1. 0 \in Q /\ \A n \in 1 .. N : n - 1 \in Q => n \in Q
    <3> HIDE DEF Held
    <3>1. \A n \in 1 .. N : n \in 0 .. N
      BY <1>0
    <3> QED BY <1>0, <1>3, <1>4, <3>1
  <2> HIDE DEF Q
  <2> QED BY <1>0, <2>1, Induction
<1>6. Held(N)
  <2> HIDE DEF Held
  <2> QED BY <1>0, <1>5
<1> DEFINE r == FlattenSeq(ss)
<1>7. r = g[N] /\ r \in Seq(S)
  BY <1>0, <1>2
<1> HIDE DEF r
<1>8. /\ \A x : x \in ToSet(r) <=> \E n \in DOMAIN ss : x \in ToSet(ss[n])
      /\ \A i, j \in DOMAIN r : i < j => Apart(N, r[i], r[j])
  BY <1>0, <1>6, <1>7
<1>9. \A i, j \in DOMAIN r : i < j =>
         \/ \E n \in DOMAIN ss : \E k, l \in DOMAIN ss[n] : k < l /\ ss[n][k] = r[i] /\ ss[n][l] = r[j]
         \/ \E m, n \in DOMAIN ss : m < n /\ r[i] \in ToSet(ss[m]) /\ r[j] \in ToSet(ss[n])
  <2> HIDE DEF Held
  <2> SUFFICES ASSUME NEW i \in DOMAIN r, NEW j \in DOMAIN r, i < j
               PROVE  \/ \E n \in DOMAIN ss : \E k, l \in DOMAIN ss[n] : k < l /\ ss[n][k] = r[i] /\ ss[n][l] = r[j]
                      \/ \E m, n \in DOMAIN ss : m < n /\ r[i] \in ToSet(ss[m]) /\ r[j] \in ToSet(ss[n])
    OBVIOUS
  <2>1. Apart(N, r[i], r[j])
    BY <1>8
  <2> QED BY <1>0, <2>1 DEF Apart
<1>10. Concatenates(r, ss, S)
  BY <1>7, <1>8, <1>9 DEF Concatenates
<1> QED BY <1>10 DEF r


\* What a lemma that says "distinct" needs of the two operators.
LEMMA AmongDistinct ==
    ASSUME NEW S, NEW s \in Seq(S), NEW K, IsInjective(s)
    PROVE  IsInjective(Among(s, K))
<1> DEFINE r == Among(s, K)
<1>1. /\ r \in Seq(S \cap K)
      /\ \A i, j \in DOMAIN r : i < j => \E k, l \in DOMAIN s : k < l /\ s[k] = r[i] /\ s[l] = r[j]
  <2>1. Selects(r, s, K, S)
    BY AmongIs
  <2> HIDE DEF r
  <2> QED BY ONLY <2>1 DEF Selects
<1> HIDE DEF r
<1>2. \A i, j \in DOMAIN r : i < j => r[i] # r[j]
  <2> SUFFICES ASSUME NEW i \in DOMAIN r, NEW j \in DOMAIN r, i < j PROVE r[i] # r[j]
    OBVIOUS
  <2>1. PICK k \in DOMAIN s, l \in DOMAIN s : k < l /\ s[k] = r[i] /\ s[l] = r[j]
    BY <1>1
  <2>2. k # l
    BY <2>1
  <2> QED BY <2>1, <2>2 DEF IsInjective
<1>3. \A i, j \in DOMAIN r : i < j \/ j < i \/ i = j
  BY <1>1
<1>4. IsInjective(r)
  BY <1>2, <1>3 DEF IsInjective
<1> QED BY <1>4 DEF r

LEMMA FlattenDistinct ==
    ASSUME NEW S, NEW ss \in Seq(Seq(S)),
           \A n \in DOMAIN ss : IsInjective(ss[n]),
           \A m, n \in DOMAIN ss : m # n => ToSet(ss[m]) \cap ToSet(ss[n]) = {}
    PROVE  IsInjective(FlattenSeq(ss))
<1> DEFINE r == FlattenSeq(ss)
<1>0. DOMAIN ss \subseteq Nat /\ \A n \in DOMAIN ss : DOMAIN ss[n] \subseteq Nat
  OBVIOUS
<1>1. /\ r \in Seq(S)
      /\ \A i, j \in DOMAIN r : i < j =>
            \/ \E n \in DOMAIN ss : \E k, l \in DOMAIN ss[n] : k < l /\ ss[n][k] = r[i] /\ ss[n][l] = r[j]
            \/ \E m, n \in DOMAIN ss : m < n /\ r[i] \in ToSet(ss[m]) /\ r[j] \in ToSet(ss[n])
  BY FlattenIs DEF Concatenates
<1> HIDE DEF r
<1>2. \A i, j \in DOMAIN r : i < j => r[i] # r[j]
  <2> SUFFICES ASSUME NEW i \in DOMAIN r, NEW j \in DOMAIN r, i < j PROVE r[i] # r[j]
    OBVIOUS
  <2>0. \/ \E n \in DOMAIN ss : \E k, l \in DOMAIN ss[n] : k < l /\ ss[n][k] = r[i] /\ ss[n][l] = r[j]
        \/ \E m, n \in DOMAIN ss : m < n /\ r[i] \in ToSet(ss[m]) /\ r[j] \in ToSet(ss[n])
    BY <1>1
  <2>1. CASE \E n \in DOMAIN ss : \E k, l \in DOMAIN ss[n] : k < l /\ ss[n][k] = r[i] /\ ss[n][l] = r[j]
    <3>1. PICK n \in DOMAIN ss : \E k, l \in DOMAIN ss[n] : k < l /\ ss[n][k] = r[i] /\ ss[n][l] = r[j]
      BY <2>1
    <3>2. PICK k \in DOMAIN ss[n], l \in DOMAIN ss[n] : k < l /\ ss[n][k] = r[i] /\ ss[n][l] = r[j]
      BY <3>1
    <3>3. k # l /\ IsInjective(ss[n])
      BY <1>0, <3>2
    <3> QED BY <3>2, <3>3 DEF IsInjective
  <2>2. CASE \E m, n \in DOMAIN ss : m < n /\ r[i] \in ToSet(ss[m]) /\ r[j] \in ToSet(ss[n])
    <3>1. PICK m \in DOMAIN ss, n \in DOMAIN ss : m < n /\ r[i] \in ToSet(ss[m]) /\ r[j] \in ToSet(ss[n])
      BY <2>2
    <3>2. m # n
      BY <1>0, <3>1
    <3> QED BY <3>1, <3>2
  <2> QED BY ONLY <2>0, <2>1, <2>2
<1>3. \A i, j \in DOMAIN r : i < j \/ j < i \/ i = j
  BY <1>1
<1>4. IsInjective(r)
  BY <1>2, <1>3 DEF IsInjective
<1> QED BY <1>4 DEF r

-----------------------------------------------------------------------------
(* The tree *)

DirSet == ToSet(Dir)

LEMMA DirSetIs == DirSet \subseteq Seq(STRING) /\ NoModule \notin DirSet
  BY TreeAssumption DEF DirSet, ToSet, NoModule

LEMMA PrefixElements ==
    ASSUME NEW s \in Seq(STRING), NEW t \in Seq(STRING)
    PROVE  IsPrefix(s, t) <=> /\ Len(s) <= Len(t)
                              /\ \A i \in 1 .. Len(s) : s[i] = t[i]
<1>1. Len(s) \in Nat /\ Len(t) \in Nat
  OBVIOUS
<1>2. ASSUME Len(s) <= Len(t)
      PROVE  SubSeq(s, 1, Len(s)) = SubSeq(t, 1, Len(s)) <=> \A i \in 1 .. Len(s) : s[i] = t[i]
  <2>1. /\ SubSeq(s, 1, Len(s)) = [i \in 1 .. Len(s) |-> s[i]]
        /\ SubSeq(t, 1, Len(s)) = [i \in 1 .. Len(s) |-> t[i]]
    BY <1>1
  <2> QED BY <2>1
<1> QED BY <1>1, <1>2 DEF IsPrefix

\* Being above is a partial order, in which what is above one directory is a
\* chain.
LEMMA PrefixOrder ==
    ASSUME NEW a \in Seq(STRING), NEW b \in Seq(STRING), NEW c \in Seq(STRING)
    PROVE  /\ IsPrefix(a, a)
           /\ IsPrefix(a, b) /\ IsPrefix(b, c) => IsPrefix(a, c)
           /\ IsPrefix(a, b) /\ IsPrefix(b, a) => a = b
           /\ IsPrefix(a, c) /\ IsPrefix(b, c) => IsPrefix(a, b) \/ IsPrefix(b, a)
<1>1. Len(a) \in Nat /\ Len(b) \in Nat /\ Len(c) \in Nat
  OBVIOUS
<1>2. IsPrefix(a, a)
  BY <1>1, PrefixElements
<1>3. ASSUME IsPrefix(a, b), IsPrefix(b, c) PROVE IsPrefix(a, c)
  <2>1. Len(a) <= Len(b) /\ Len(b) <= Len(c)
    BY <1>3, PrefixElements
  <2>2. \A i \in 1 .. Len(a) : i \in 1 .. Len(b) /\ a[i] = b[i]
    BY <1>1, <1>3, <2>1, PrefixElements
  <2>3. \A i \in 1 .. Len(b) : b[i] = c[i]
    BY <1>3, PrefixElements
  <2>4. \A i \in 1 .. Len(a) : a[i] = c[i]
    BY <2>2, <2>3
  <2> QED BY <1>1, <2>1, <2>4, PrefixElements
<1>4. ASSUME IsPrefix(a, b), IsPrefix(b, a) PROVE a = b
  <2>1. Len(a) = Len(b) /\ \A i \in 1 .. Len(a) : a[i] = b[i]
    BY <1>1, <1>4, PrefixElements
  <2>2. a = [i \in 1 .. Len(a) |-> a[i]] /\ b = [i \in 1 .. Len(b) |-> b[i]]
    OBVIOUS
  <2> QED BY <2>1, <2>2
<1>5. ASSUME IsPrefix(a, c), IsPrefix(b, c) PROVE IsPrefix(a, b) \/ IsPrefix(b, a)
  <2>1. /\ \A i \in 1 .. Len(a) : a[i] = c[i]
        /\ \A i \in 1 .. Len(b) : b[i] = c[i]
    BY <1>5, PrefixElements
  <2>2. CASE Len(a) <= Len(b)
    <3>1. \A i \in 1 .. Len(a) : a[i] = b[i]
      BY <1>1, <2>1, <2>2
    <3> QED BY <2>2, <3>1, PrefixElements
  <2>3. CASE Len(b) <= Len(a)
    <3>1. \A i \in 1 .. Len(b) : b[i] = a[i]
      BY <1>1, <2>1, <2>3
    <3> QED BY <2>3, <3>1, PrefixElements
  <2> QED BY <1>1, <2>2, <2>3
<1> QED BY <1>2, <1>3, <1>4, <1>5

\* A walk that stops at every go.mod finds the files of its own module.
LEMMA WalkOfOwner ==
    ASSUME NEW d \in DirSet, NEW gomods \in SUBSET DirSet, NEW r \in gomods, Entered(r, d, gomods)
    PROVE  ModuleOf(d, gomods) = r
<1> DEFINE E == Enclosing(d, gomods)
<1>1. DirSet \subseteq Seq(STRING)
  BY DirSetIs
<1>2. r \in E
  BY DEF Entered, Enclosing
<1>3. \A o \in E : IsPrefix(o, r)
  <2> TAKE o \in E
  <2>1. o \in gomods /\ IsPrefix(o, d) /\ IsPrefix(r, d)
    BY DEF Enclosing, Entered
  <2>2. IsPrefix(o, r) \/ IsPrefix(r, o)
    BY <1>1, <2>1, PrefixOrder
  <2>3. CASE IsPrefix(r, o) /\ o # r
    <3>1. o \in Below(r, d)
      BY <2>1, <2>3 DEF Below, DirSet
    <3> QED BY <2>1, <3>1 DEF Entered
  <2>4. IsPrefix(r, r)
    BY <1>1, PrefixOrder
  <2> QED BY <2>2, <2>3, <2>4
<1>4. \A e \in E : (\A o \in E : IsPrefix(o, e)) => e = r
  <2> TAKE e \in E
  <2>1. e \in gomods
    BY DEF Enclosing
  <2>2. IsPrefix(e, r) /\ ((\A o \in E : IsPrefix(o, e)) => IsPrefix(r, e))
    BY <1>2, <1>3
  <2> HIDE DEF E
  <2> QED BY <1>1, <2>1, <2>2, PrefixOrder
<1>5. ModuleOf(d, gomods) = CHOOSE e \in E : \A o \in E : IsPrefix(o, e)
  BY <1>2 DEF ModuleOf
<1> HIDE DEF E
<1> QED BY <1>2, <1>3, <1>4, <1>5

-----------------------------------------------------------------------------
(* The order of a walk *)

Place(f) == CHOOSE i \in DOMAIN File : File[i] = f

Ascending(s) == \A i, j \in DOMAIN s : i < j => Place(s[i]) < Place(s[j])

LEMMA PlaceIs ==
    /\ File \in Seq(FileSet)
    /\ \A k \in DOMAIN File : k \in Nat /\ Place(File[k]) = k
    /\ \A f \in FileSet : Place(f) \in Nat
<1>1. File \in Seq(FileSet)
  BY TreeAssumption DEF FileSet, ToSet
<1>2. ASSUME NEW k \in DOMAIN File PROVE k \in Nat /\ Place(File[k]) = k
  <2>1. \A i \in DOMAIN File : File[i] = File[k] => i = k
    BY TreeAssumption DEF IsInjective
  <2> QED BY <1>1, <2>1 DEF Place
<1>3. \A f \in FileSet : \E k \in DOMAIN File : f = File[k]
  BY DEF FileSet, ToSet
<1> QED BY <1>1, <1>2, <1>3

LEMMA AmongAscending ==
    ASSUME NEW s \in Seq(FileSet), NEW K, Ascending(s)
    PROVE  /\ Among(s, K) \in Seq(FileSet)
           /\ ToSet(Among(s, K)) = ToSet(s) \cap K
           /\ Ascending(Among(s, K))
<1> DEFINE r == Among(s, K)
<1>1. Selects(r, s, K, FileSet)
  BY AmongIs
<1> HIDE DEF r
<1>2. r \in Seq(FileSet) /\ ToSet(r) = ToSet(s) \cap K
  BY <1>1 DEF Selects
<1>3. \A i, j \in DOMAIN r : i < j => \E k, l \in DOMAIN s : k < l /\ s[k] = r[i] /\ s[l] = r[j]
  BY <1>1 DEF Selects
<1>4. Ascending(r)
  BY <1>3 DEF Ascending
<1> QED BY <1>2, <1>4 DEF r

LEMMA OfFile ==
    ASSUME NEW K
    PROVE  /\ Among(File, K) \in Seq(FileSet)
           /\ ToSet(Among(File, K)) = FileSet \cap K
           /\ Ascending(Among(File, K))
<1>1. File \in Seq(FileSet) /\ Ascending(File)
  BY PlaceIs DEF Ascending
<1> QED BY <1>1, AmongAscending DEF FileSet

LEMMA AscendingDistinct ==
    ASSUME NEW s \in Seq(FileSet), Ascending(s)
    PROVE  IsInjective(s)
<1>1. \A i, j \in DOMAIN s : i \in Nat /\ j \in Nat /\ Place(s[i]) \in Nat
  BY PlaceIs
<1>2. \A i, j \in DOMAIN s : i < j => s[i] # s[j]
  BY <1>1 DEF Ascending
<1> QED BY <1>1, <1>2 DEF IsInjective

-----------------------------------------------------------------------------
(* What is fixed when the scan starts *)

TreeInv ==
    /\ tree \in Trees
    /\ moduleRoots = Among(Dir, findModuleRoots(tree.gomods))

LEMMA RootsAre ==
    ASSUME TreeInv
    PROVE  /\ tree.gomods \in SUBSET DirSet
           /\ moduleRoots \in Seq(DirSet)
           /\ ToSet(moduleRoots) = findModuleRoots(tree.gomods)
           /\ IsInjective(moduleRoots)
           /\ Slot = 1 .. Len(moduleRoots) /\ Len(moduleRoots) \in Nat
           /\ \A i \in Slot : moduleRoots[i] \in tree.gomods
<1> DEFINE K == findModuleRoots(tree.gomods)
<1>1. tree.gomods \in SUBSET DirSet
  BY TreesAssumption DEF TreeInv, DirSet
<1>2. K \subseteq tree.gomods
  BY DEF findModuleRoots
<1>3. Dir \in Seq(DirSet) /\ IsInjective(Dir)
  BY TreeAssumption DEF DirSet, ToSet
<1> HIDE DEF K
<1>4. Selects(Among(Dir, K), Dir, K, DirSet) /\ IsInjective(Among(Dir, K))
  BY <1>3, AmongIs, AmongDistinct
<1>5. moduleRoots = Among(Dir, K)
  BY DEF TreeInv, K
<1>6. moduleRoots \in Seq(DirSet) /\ ToSet(moduleRoots) = DirSet \cap K /\ IsInjective(moduleRoots)
  BY <1>4, <1>5 DEF Selects, DirSet
<1>7. ToSet(moduleRoots) = K
  BY <1>1, <1>2, <1>6
<1>8. Slot = 1 .. Len(moduleRoots) /\ Len(moduleRoots) \in Nat
  BY <1>6 DEF Slot
<1>9. \A i \in Slot : moduleRoots[i] \in tree.gomods
  BY <1>2, <1>7 DEF Slot, ToSet
<1> QED BY <1>1, <1>6, <1>7, <1>8, <1>9 DEF K

\* The walk of the i-th module finds the file.
Owns(i, f) == f \in FileSet /\ Entered(moduleRoots[i], DirOf[f], tree.gomods)

LEMMA OwnerIs ==
    ASSUME TreeInv, NEW i \in Slot, NEW f, Owns(i, f)
    PROVE  /\ ModuleOf(DirOf[f], tree.gomods) = moduleRoots[i]
           /\ \A j \in Slot : Owns(j, f) => j = i
<1>1. DirOf[f] \in DirSet
  BY TreeAssumption DEF Owns, FileSet, DirSet
<1>2. \A j \in Slot : Owns(j, f) => ModuleOf(DirOf[f], tree.gomods) = moduleRoots[j]
  BY <1>1, RootsAre, WalkOfOwner DEF Owns
<1>3. \A j \in Slot : moduleRoots[j] = moduleRoots[i] => j = i
  BY RootsAre DEF IsInjective, Slot
<1> QED BY <1>2, <1>3

LEMMA JobsAre ==
    ASSUME TreeInv
    PROVE  /\ Len(BuildJobs) \in Nat /\ DOMAIN BuildJobs = 1 .. Len(BuildJobs)
           /\ \A i \in DOMAIN BuildJobs : BuildJobs[i].name \in BuildNames
           /\ \A i, j \in DOMAIN BuildJobs :
                 /\ BuildJobs[i].name = BuildJobs[j].name => i = j
                 /\ i < j => Rank(BuildJobs[i].name) < Rank(BuildJobs[j].name)
           /\ BuildNames \cap FileSet = {}
<1> DEFINE B == ToSet(tree.build)
           K == {b \in B : /\ b.matches /\ IsPrefix(TopDir, b.dir)
                           /\ \A d \in Below(TopDir, b.dir) : Last(d) \notin PrunedName}
<1>1. tree.build \in Seq(B) /\ DOMAIN tree.build \subseteq Nat
  <2> DEFINE R == [name : STRING, dir : ToSet(Dir), matches : BOOLEAN]
             s == tree.build
  <2>1. s \in Seq(R)
    BY TreesAssumption DEF TreeInv
  <2> HIDE DEF R, s
  <2>2. s \in Seq(ToSet(s)) /\ DOMAIN s \subseteq Nat
    BY <2>1 DEF ToSet
  <2> QED BY <2>2 DEF s
<1>2. \A k, l \in DOMAIN tree.build : tree.build[k].name = tree.build[l].name => k = l
  BY TreesAssumption DEF TreeInv
<1>3. BuildNames \cap FileSet = {}
  BY TreesAssumption DEF TreeInv, BuildNames
<1>4. \A k \in DOMAIN tree.build : tree.build[k].name \in BuildNames /\ Rank(tree.build[k].name) = k
  <2> TAKE k \in DOMAIN tree.build
  <2>1. tree.build[k].name \in BuildNames
    BY DEF BuildNames, ToSet
  <2> QED BY <1>2, <1>3, <2>1 DEF Rank
<1> HIDE DEF B, K
<1>5. Selects(Among(tree.build, K), tree.build, K, B)
  BY <1>1, AmongIs
<1>6. BuildJobs = Among(tree.build, K)
  BY DEF BuildJobs, K, B
<1>7. BuildJobs \in Seq(B)
  BY <1>5, <1>6 DEF Selects
<1>8. \A i, j \in DOMAIN BuildJobs : i < j =>
         \E k, l \in DOMAIN tree.build : k < l /\ tree.build[k] = BuildJobs[i] /\ tree.build[l] = BuildJobs[j]
  BY <1>5, <1>6 DEF Selects
<1>9. \A i, j \in DOMAIN BuildJobs : i < j =>
         /\ BuildJobs[i].name # BuildJobs[j].name
         /\ Rank(BuildJobs[i].name) < Rank(BuildJobs[j].name)
  <2> SUFFICES ASSUME NEW i \in DOMAIN BuildJobs, NEW j \in DOMAIN BuildJobs, i < j
               PROVE  /\ BuildJobs[i].name # BuildJobs[j].name
                      /\ Rank(BuildJobs[i].name) < Rank(BuildJobs[j].name)
    OBVIOUS
  <2>1. PICK k \in DOMAIN tree.build, l \in DOMAIN tree.build :
           k < l /\ tree.build[k] = BuildJobs[i] /\ tree.build[l] = BuildJobs[j]
    BY <1>8
  <2>2. k \in Nat /\ l \in Nat /\ k # l
    BY <1>1, <2>1
  <2> QED BY <1>2, <1>4, <2>1, <2>2
<1>10. \A i \in DOMAIN BuildJobs : BuildJobs[i].name \in BuildNames
  BY <1>7 DEF BuildNames, B
<1>11. Len(BuildJobs) \in Nat /\ DOMAIN BuildJobs = 1 .. Len(BuildJobs)
  BY <1>7
<1>12. \A i, j \in DOMAIN BuildJobs : BuildJobs[i].name = BuildJobs[j].name => i = j
  <2> SUFFICES ASSUME NEW i \in DOMAIN BuildJobs, NEW j \in DOMAIN BuildJobs, i # j
               PROVE  BuildJobs[i].name # BuildJobs[j].name
    OBVIOUS
  <2>1. i < j \/ j < i
    BY <1>11
  <2> QED BY <1>9, <2>1
<1> QED BY <1>3, <1>9, <1>10, <1>11, <1>12

LEMMA StaysFixed ==
    ASSUME UNCHANGED fixed
    PROVE  /\ TreeInv => TreeInv'
           /\ Slot' = Slot /\ BuildJobs' = BuildJobs /\ BuildNames' = BuildNames
           /\ moduleRoots' = moduleRoots /\ tree' = tree
           /\ \A i, f : Owns(i, f)' <=> Owns(i, f)
  BY DEF fixed, TreeInv, Slot, BuildJobs, BuildNames, Owns

LEMMA NextFixed == [Next]_vars => UNCHANGED fixed
  BY DEF Next, WorkerStep, Take, prescanModule, Load, ScanLoaded, Acquire, Release, TakeBuild,
         scanFile, MainStep, Merge, ScanUncovered, StartOrphans, ScanOrphan, EndOrphans,
         MergeBuild, Vanish, Finished, vars, fixed

-----------------------------------------------------------------------------
(* What one step of a goroutine does *)

\* A goroutine changes its own state only.
Moves(w) ==
    /\ worker' \in [Worker -> Goroutine]
    /\ \A v \in Worker \ {w} : worker'[v] = worker[v]

LEMMA Moved ==
    ASSUME worker \in [Worker -> Goroutine], NEW w \in Worker, NEW r \in Goroutine,
           worker' = [worker EXCEPT ![w] = r]
    PROVE  Moves(w) /\ worker'[w] = r
<1> HIDE DEF Goroutine
<1> QED BY DEF Moves

LEMMA IdleIs == Idle \in Goroutine
<1>1. <<>> \in Seq(FileSet)
  OBVIOUS
<1> QED BY <1>1 DEF Idle, Goroutine

LEMMA TakeDoes ==
    ASSUME worker \in [Worker -> Goroutine], next \in Nat, NEW w \in Worker, Take(w)
    PROVE  /\ Moves(w)
           /\ pc = "feed" /\ worker[w].at = "idle" /\ next <= Len(moduleRoots) /\ next' = next + 1
           /\ worker'[w].at = "prescan" /\ worker'[w].job = next
           /\ UNCHANGED <<fixed, readable, mu, coveredFiles, slots, main>>
<1> DEFINE r == [Idle EXCEPT !.at = "prescan", !.job = next]
<1>1. r \in Goroutine /\ r.at = "prescan" /\ r.job = next
  BY IdleIs DEF Goroutine
<1>2. worker' = [worker EXCEPT ![w] = r]
  BY DEF Take
<1>3. /\ pc = "feed" /\ worker[w].at = "idle" /\ next <= Len(moduleRoots) /\ next' = next + 1
      /\ UNCHANGED <<fixed, readable, mu, coveredFiles, slots, main>>
  BY DEF Take
<1> HIDE DEF r
<1> QED BY <1>1, <1>2, <1>3, Moved

LEMMA prescanModuleDoes ==
    ASSUME worker \in [Worker -> Goroutine], NEW w \in Worker, prescanModule(w)
    PROVE  /\ Moves(w)
           /\ worker[w].at = "prescan" /\ worker'[w].at \in {"idle", "load"}
           /\ worker'[w].job = worker[w].job
           /\ prescans' = [prescans EXCEPT ![worker[w].job] = V3Files(worker[w].job)]
           /\ UNCHANGED <<fixed, readable, next, mu, coveredFiles, perModule, perJob, main>>
<1> DEFINE at == IF prescans'[worker[w].job] = <<>> THEN "idle" ELSE "load"
           r == [worker[w] EXCEPT !.at = at]
<1>0. worker[w] \in Goroutine
  OBVIOUS
<1>1. r \in Goroutine /\ r.at \in {"idle", "load"} /\ r.job = worker[w].job
  <2>1. at \in {"idle", "load"}
    OBVIOUS
  <2> HIDE DEF at
  <2> QED BY <1>0, <2>1 DEF Goroutine
<1>2. worker' = [worker EXCEPT ![w] = r]
  BY DEF prescanModule
<1>3. /\ worker[w].at = "prescan"
      /\ prescans' = [prescans EXCEPT ![worker[w].job] = V3Files(worker[w].job)]
      /\ UNCHANGED <<fixed, readable, next, mu, coveredFiles, perModule, perJob, main>>
  BY DEF prescanModule
<1> HIDE DEF r
<1> QED BY <1>1, <1>2, <1>3, Moved

\* What packages.Load returns: files of the directories asked for.
LEMMA LoadDoes ==
    ASSUME worker \in [Worker -> Goroutine], NEW w \in Worker, Load(w)
    PROVE  /\ Moves(w)
           /\ worker[w].at = "load" /\ worker'[w].at \in {"idle", "scan"}
           /\ worker'[w].job = worker[w].job
           /\ Ascending(worker'[w].loaded)
           /\ \A f \in ToSet(worker'[w].loaded) :
                 f \in FileSet /\ DirOf[f] \in Patterns(worker[w].job)
           /\ UNCHANGED <<fixed, readable, next, mu, coveredFiles, slots, main>>
<1>1. PICK typed \in SUBSET Loadable(worker[w].job) :
         worker' = [worker EXCEPT ![w].at = IF GoFiles(typed) = <<>> THEN "idle" ELSE "scan",
                                  ![w].loaded = GoFiles(typed)]
  BY DEF Load
<1> DEFINE files == GoFiles(typed)
           at == IF files = <<>> THEN "idle" ELSE "scan"
           r == [worker[w] EXCEPT !.at = at, !.loaded = files]
<1>2. files \in Seq(FileSet) /\ Ascending(files)
      /\ \A f \in ToSet(files) : f \in FileSet /\ DirOf[f] \in typed
  BY OfFile DEF GoFiles
<1>3. at \in {"idle", "scan"} /\ worker[w] \in Goroutine
  OBVIOUS
<1>4. worker' = [worker EXCEPT ![w] = r]
  BY <1>1
<1> HIDE DEF files, at
<1>5. r \in Goroutine /\ r.at \in {"idle", "scan"} /\ r.job = worker[w].job /\ r.loaded = files
  BY <1>2, <1>3 DEF Goroutine
<1> HIDE DEF r
<1>6. Moves(w) /\ worker'[w] = r
  BY <1>4, <1>5, Moved
<1>7. typed \subseteq Patterns(worker[w].job)
  BY DEF Loadable
<1>8. worker[w].at = "load" /\ UNCHANGED <<fixed, readable, next, mu, coveredFiles, slots, main>>
  BY DEF Load
<1> QED BY <1>2, <1>5, <1>6, <1>7, <1>8

LEMMA ScanLoadedDoes ==
    ASSUME worker \in [Worker -> Goroutine], NEW w \in Worker, ScanLoaded(w)
    PROVE  /\ Moves(w)
           /\ worker[w].at = "scan" /\ worker'[w].at = "lock"
           /\ worker'[w].job = worker[w].job
           /\ worker'[w].loaded = worker[w].loaded
           /\ worker'[w].found = Among(worker[w].loaded,
                 {f \in readable \cap FileSet : tree.kind[f] \in {"jwx", "body"}})
           /\ UNCHANGED <<fixed, readable, next, mu, coveredFiles, slots, main>>
<1> DEFINE K == {f \in readable \cap FileSet : tree.kind[f] \in {"jwx", "body"}}
           found == Among(worker[w].loaded, K)
           r == [worker[w] EXCEPT !.at = "lock", !.found = found]
<1>1. worker[w] \in Goroutine /\ worker[w].loaded \in Seq(FileSet)
  BY DEF Goroutine
<1>2. found \in Seq(FileSet)
  <2> HIDE DEF K
  <2>1. Selects(found, worker[w].loaded, K, FileSet)
    BY <1>1, AmongIs
  <2>2. K \cap FileSet \subseteq FileSet
    OBVIOUS
  <2> HIDE DEF found
  <2> QED BY <2>1 DEF Selects
<1>3. worker' = [worker EXCEPT ![w] = r]
  BY DEF ScanLoaded
<1>4. worker[w].at = "scan" /\ UNCHANGED <<fixed, readable, next, mu, coveredFiles, slots, main>>
  BY DEF ScanLoaded
<1> HIDE DEF found
<1>5. /\ r \in Goroutine /\ r.at = "lock" /\ r.job = worker[w].job /\ r.found = found
      /\ r.loaded = worker[w].loaded
  BY <1>1, <1>2 DEF Goroutine
<1> HIDE DEF r
<1>6. Moves(w) /\ worker'[w] = r
  BY <1>3, <1>5, Moved
<1> QED BY <1>4, <1>5, <1>6 DEF found

LEMMA AcquireDoes ==
    ASSUME worker \in [Worker -> Goroutine], coveredFiles \subseteq FileSet,
           NEW w \in Worker, Acquire(w)
    PROVE  /\ Moves(w)
           /\ worker[w].at = "lock" /\ worker'[w].at = "unlock"
           /\ worker'[w].job = worker[w].job
           /\ worker'[w].loaded = worker[w].loaded /\ worker'[w].found = worker[w].found
           /\ worker'[w].view = coveredFiles
           /\ mu = Nobody /\ mu' = w
           /\ UNCHANGED <<fixed, readable, next, coveredFiles, slots, main>>
<1> DEFINE r == [worker[w] EXCEPT !.at = "unlock", !.view = coveredFiles]
<1>1. worker[w] \in Goroutine
  OBVIOUS
<1>2. /\ r \in Goroutine /\ r.at = "unlock" /\ r.job = worker[w].job /\ r.view = coveredFiles
      /\ r.loaded = worker[w].loaded /\ r.found = worker[w].found
  BY <1>1 DEF Goroutine
<1>3. worker' = [worker EXCEPT ![w] = r]
  BY DEF Acquire
<1>4. /\ worker[w].at = "lock" /\ mu = Nobody /\ mu' = w
      /\ UNCHANGED <<fixed, readable, next, coveredFiles, slots, main>>
  BY DEF Acquire
<1> HIDE DEF r
<1>5. Moves(w) /\ worker'[w] = r
  BY <1>2, <1>3, Moved
<1> QED BY <1>2, <1>4, <1>5

LEMMA ReleaseDoes ==
    ASSUME worker \in [Worker -> Goroutine], NEW w \in Worker, Release(w)
    PROVE  /\ Moves(w)
           /\ worker[w].at = "unlock" /\ worker'[w].at = "idle"
           /\ coveredFiles' = worker[w].view \cup ToSet(worker[w].loaded)
           /\ mu' = Nobody
           /\ perModule' = [perModule EXCEPT ![worker[w].job] = worker[w].found]
           /\ UNCHANGED <<fixed, readable, next, prescans, perJob, main>>
<1>1. Idle \in Goroutine /\ Idle.at = "idle"
  BY IdleIs DEF Idle
<1> QED BY <1>1, Moved DEF Release

LEMMA TakeBuildDoes ==
    ASSUME worker \in [Worker -> Goroutine], next \in Nat, NEW w \in Worker, TakeBuild(w)
    PROVE  /\ Moves(w)
           /\ pc = "build" /\ worker[w].at = "idle" /\ next <= Len(BuildJobs) /\ next' = next + 1
           /\ worker'[w].at = "scanFile" /\ worker'[w].job = next
           /\ UNCHANGED <<fixed, readable, mu, coveredFiles, slots, main>>
<1> DEFINE r == [Idle EXCEPT !.at = "scanFile", !.job = next]
<1>1. r \in Goroutine /\ r.at = "scanFile" /\ r.job = next
  BY IdleIs DEF Goroutine
<1>2. worker' = [worker EXCEPT ![w] = r]
  BY DEF TakeBuild
<1>3. /\ pc = "build" /\ worker[w].at = "idle" /\ next <= Len(BuildJobs) /\ next' = next + 1
      /\ UNCHANGED <<fixed, readable, mu, coveredFiles, slots, main>>
  BY DEF TakeBuild
<1> HIDE DEF r
<1> QED BY <1>1, <1>2, <1>3, Moved

LEMMA scanFileDoes ==
    ASSUME worker \in [Worker -> Goroutine], NEW w \in Worker, scanFile(w)
    PROVE  /\ Moves(w)
           /\ worker[w].at = "scanFile" /\ worker'[w].at = "idle"
           /\ perJob' = IF BuildJobs[worker[w].job].name \in readable
                          THEN [perJob EXCEPT ![worker[w].job] = <<BuildJobs[worker[w].job].name>>]
                          ELSE perJob
           /\ UNCHANGED <<fixed, readable, next, mu, coveredFiles, prescans, perModule, main>>
<1>1. Idle \in Goroutine /\ Idle.at = "idle"
  BY IdleIs DEF Idle
<1> QED BY <1>1, Moved DEF scanFile

-----------------------------------------------------------------------------
(* Types, jobs and the mutex *)

ScanTypes ==
    /\ readable \subseteq FileSet \cup BuildNames
    /\ pc \in {"feed", "untyped", "orphans", "build", "done"}
    /\ worker \in [Worker -> Goroutine]
    /\ coveredFiles \subseteq FileSet
    /\ prescans \in [Slot -> Seq(FileSet)]
    /\ perModule \in [Slot -> Seq(FileSet)]
    /\ todo \in Seq(FileSet)
    /\ failed \in BOOLEAN

Scanning == {"prescan", "load", "scan", "lock", "unlock"}

\* A job is handed to one goroutine, of the pool that runs now, and only the
\* one that updates the map holds the mutex.
JobInv ==
    /\ next \in Nat /\ next >= 1
    /\ IF pc \in {"feed", "untyped", "orphans"}
         THEN next <= Len(moduleRoots) + 1
         ELSE pc = "build" => next <= Len(BuildJobs) + 1
    /\ next <= 1 + Len(moduleRoots) + Len(BuildJobs)
    /\ \A w \in Worker :
          /\ worker[w].at \in Scanning =>
                pc = "feed" /\ worker[w].job \in Slot /\ worker[w].job < next
          /\ worker[w].at = "scanFile" =>
                pc = "build" /\ worker[w].job \in DOMAIN BuildJobs /\ worker[w].job < next
          /\ worker[w].at = "unlock" <=> mu = w
    /\ \A v, w \in Worker :
          v # w /\ worker[v].at # "idle" /\ worker[w].at # "idle" => worker[v].job # worker[w].job

\* A slot of the second pool is empty or has its own file.
BuildInv ==
    /\ perJob \in Seq(Seq(BuildNames))
    /\ pc = "build" => DOMAIN perJob = DOMAIN BuildJobs
    /\ \A i \in DOMAIN perJob :
          i \in DOMAIN BuildJobs /\ (perJob[i] = <<>> \/ perJob[i] = <<BuildJobs[i].name>>)

ScanInv == TreeInv /\ ScanTypes /\ JobInv /\ BuildInv

LEMMA InitScan == Init => ScanInv
<1> SUFFICES ASSUME Init PROVE ScanInv
  OBVIOUS
<1>1. TreeInv
  BY DEF Init, TreeInv
<1>2. Len(moduleRoots) \in Nat /\ Len(BuildJobs) \in Nat
  BY <1>1, RootsAre, JobsAre
<1>3. ScanTypes
  <2>1. <<>> \in Seq(FileSet)
    OBVIOUS
  <2>2. Idle \in Goroutine
    BY IdleIs
  <2> QED BY <2>1, <2>2 DEF Init, ScanTypes
<1>4. JobInv
  BY <1>2, ScanAssumption DEF Init, JobInv, Scanning, Idle
<1>5. BuildInv
  BY DEF Init, BuildInv
<1> QED BY <1>1, <1>3, <1>4, <1>5 DEF ScanInv

LEMMA V3FilesAre ==
    ASSUME NEW i \in Slot
    PROVE  /\ V3Files(i) \in Seq(FileSet) /\ Ascending(V3Files(i))
           /\ \A f : f \in ToSet(V3Files(i)) <=>
                 Owns(i, f) /\ f \in readable /\ tree.kind[f] \in {"jwx", "body"}
  BY OfFile DEF V3Files, Owns, ModuleFiles, FileSet

LEMMA FixedCounts ==
    ASSUME TreeInv
    PROVE  /\ Len(moduleRoots) \in Nat /\ Slot = 1 .. Len(moduleRoots)
           /\ Len(BuildJobs) \in Nat /\ DOMAIN BuildJobs = 1 .. Len(BuildJobs)
  BY RootsAre, JobsAre

LEMMA MovedJob ==
    ASSUME ScanInv, NEW w \in Worker, Moves(w), UNCHANGED <<fixed, pc, next>>,
           worker[w].at # "idle",
           \/ worker'[w].at = "idle"
           \/ /\ worker[w].at \in Scanning /\ worker'[w].at \in Scanning
              /\ worker'[w].job = worker[w].job,
           \A v \in Worker : worker'[v].at = "unlock" <=> mu' = v
    PROVE  JobInv'
<1>1. UNCHANGED <<Slot, BuildJobs, moduleRoots, pc, next>>
  BY StaysFixed
<1>2. \A v \in Worker :
         \/ worker'[v].at = "idle"
         \/ /\ worker[v].at # "idle" /\ worker'[v].job = worker[v].job
            /\ worker'[v].at \in Scanning => worker[v].at \in Scanning
            /\ worker'[v].at = "scanFile" => worker[v].at = "scanFile"
  BY DEF Moves, Scanning
<1>3. \A v \in Worker :
          /\ worker'[v].at \in Scanning =>
                pc = "feed" /\ worker'[v].job \in Slot /\ worker'[v].job < next
          /\ worker'[v].at = "scanFile" =>
                pc = "build" /\ worker'[v].job \in DOMAIN BuildJobs /\ worker'[v].job < next
  BY <1>2 DEF ScanInv, JobInv, Scanning
<1>4. \A u, v \in Worker :
          u # v /\ worker'[u].at # "idle" /\ worker'[v].at # "idle" => worker'[u].job # worker'[v].job
  BY <1>2 DEF ScanInv, JobInv
<1> QED BY <1>1, <1>3, <1>4 DEF ScanInv, JobInv

LEMMA TakenJob ==
    ASSUME ScanInv, NEW w \in Worker, Moves(w), UNCHANGED <<fixed, pc, mu>>,
           worker[w].at = "idle", worker'[w].job = next, next' = next + 1,
           \/ worker'[w].at = "prescan" /\ pc = "feed" /\ next <= Len(moduleRoots)
           \/ worker'[w].at = "scanFile" /\ pc = "build" /\ next <= Len(BuildJobs)
    PROVE  JobInv'
<1>0. next \in Nat /\ next >= 1
  BY DEF ScanInv, JobInv
<1>1. UNCHANGED <<Slot, BuildJobs, moduleRoots, pc, mu>>
  BY StaysFixed
<1>2. Len(moduleRoots) \in Nat /\ Slot = 1 .. Len(moduleRoots)
      /\ Len(BuildJobs) \in Nat /\ DOMAIN BuildJobs = 1 .. Len(BuildJobs)
  BY FixedCounts DEF ScanInv
<1>3. \A v \in Worker : v # w => worker'[v] = worker[v]
  BY DEF Moves
<1>4. \A v \in Worker : worker[v].at # "idle" => worker[v].job \in Nat /\ worker[v].job < next
  <2> TAKE v \in Worker
  <2>1. worker[v] \in Goroutine
    BY DEF ScanInv, ScanTypes
  <2>2. worker[v].at \in Scanning \cup {"idle", "scanFile"} /\ worker[v].job \in Nat
    BY <2>1 DEF Goroutine, Scanning
  <2> QED BY <2>2 DEF ScanInv, JobInv
<1>5. ASSUME NEW v \in Worker
      PROVE  /\ worker'[v].at \in Scanning =>
                   pc = "feed" /\ worker'[v].job \in Slot /\ worker'[v].job < next'
             /\ worker'[v].at = "scanFile" =>
                   pc = "build" /\ worker'[v].job \in DOMAIN BuildJobs /\ worker'[v].job < next'
             /\ worker'[v].at = "unlock" <=> mu = v
  <2>1. CASE v = w
    <3>1. mu # w
      BY DEF ScanInv, JobInv
    <3> QED BY <1>0, <1>2, <2>1, <3>1 DEF Scanning
  <2>2. CASE v # w
    <3>1. /\ worker[v].at \in Scanning => pc = "feed" /\ worker[v].job \in Slot
          /\ worker[v].at = "scanFile" => pc = "build" /\ worker[v].job \in DOMAIN BuildJobs
          /\ worker[v].at = "unlock" <=> mu = v
      BY DEF ScanInv, JobInv
    <3>2. worker[v].at # "idle" => worker[v].job < next'
      BY <1>0, <1>4
    <3> QED BY <1>3, <2>2, <3>1, <3>2 DEF Scanning
  <2> QED BY <2>1, <2>2
<1>6. ASSUME NEW u \in Worker, NEW v \in Worker,
             u # v, worker'[u].at # "idle", worker'[v].at # "idle"
      PROVE  worker'[u].job # worker'[v].job
  <2>1. CASE u # w /\ v # w
    BY <1>3, <1>6, <2>1 DEF ScanInv, JobInv
  <2>2. CASE u = w
    BY <1>0, <1>3, <1>4, <1>6, <2>2
  <2>3. CASE v = w
    BY <1>0, <1>3, <1>4, <1>6, <2>3
  <2> QED BY <2>1, <2>2, <2>3
<1>7. /\ next' \in Nat /\ next' >= 1
      /\ IF pc \in {"feed", "untyped", "orphans"}
           THEN next' <= Len(moduleRoots) + 1
           ELSE pc = "build" => next' <= Len(BuildJobs) + 1
      /\ next' <= 1 + Len(moduleRoots) + Len(BuildJobs)
  BY <1>0, <1>2
<1> QED BY <1>1, <1>5, <1>6, <1>7 DEF JobInv

LEMMA WorkerKeepsJobs ==
    ASSUME ScanInv, NEW w \in Worker, WorkerStep(w)
    PROVE  JobInv'
<1>0. worker \in [Worker -> Goroutine] /\ next \in Nat /\ coveredFiles \subseteq FileSet
  BY DEF ScanInv, ScanTypes, JobInv
<1>1. \A v \in Worker : worker[v].at = "unlock" <=> mu = v
  BY DEF ScanInv, JobInv
<1>2. CASE Take(w)
  <2>1. /\ Moves(w) /\ UNCHANGED <<fixed, pc, mu>>
        /\ worker[w].at = "idle" /\ worker'[w].job = next /\ next' = next + 1
        /\ worker'[w].at = "prescan" /\ pc = "feed" /\ next <= Len(moduleRoots)
    BY <1>0, <1>2, TakeDoes DEF main
  <2> QED BY ONLY <2>1, TakenJob, ScanInv, w \in Worker
<1>3. CASE prescanModule(w)
  <2>1. /\ Moves(w) /\ UNCHANGED <<fixed, pc, next, mu>>
        /\ worker[w].at = "prescan" /\ worker'[w].at \in {"idle", "load"}
        /\ worker'[w].job = worker[w].job
    BY <1>0, <1>3, prescanModuleDoes DEF main
  <2>2. \A v \in Worker : worker'[v].at = "unlock" <=> mu' = v
    BY <1>1, <2>1 DEF Moves
  <2> QED BY <2>1, <2>2, MovedJob DEF Scanning
<1>4. CASE Load(w)
  <2>1. /\ Moves(w) /\ UNCHANGED <<fixed, pc, next, mu>>
        /\ worker[w].at = "load" /\ worker'[w].at \in {"idle", "scan"}
        /\ worker'[w].job = worker[w].job
    BY <1>0, <1>4, LoadDoes DEF main
  <2>2. \A v \in Worker : worker'[v].at = "unlock" <=> mu' = v
    BY <1>1, <2>1 DEF Moves
  <2> QED BY <2>1, <2>2, MovedJob DEF Scanning
<1>5. CASE ScanLoaded(w)
  <2>1. /\ Moves(w) /\ UNCHANGED <<fixed, pc, next, mu>>
        /\ worker[w].at = "scan" /\ worker'[w].at = "lock"
        /\ worker'[w].job = worker[w].job
    BY <1>0, <1>5, ScanLoadedDoes DEF main
  <2>2. \A v \in Worker : worker'[v].at = "unlock" <=> mu' = v
    BY <1>1, <2>1 DEF Moves
  <2> QED BY <2>1, <2>2, MovedJob DEF Scanning
<1>6. CASE Acquire(w)
  <2>1. /\ Moves(w) /\ UNCHANGED <<fixed, pc, next>> /\ mu = Nobody /\ mu' = w
        /\ worker[w].at = "lock" /\ worker'[w].at = "unlock"
        /\ worker'[w].job = worker[w].job
    BY <1>0, <1>6, AcquireDoes DEF main
  <2>2. \A v \in Worker : worker'[v].at = "unlock" <=> mu' = v
    BY <1>1, <2>1, ScanAssumption DEF Moves
  <2> QED BY <2>1, <2>2, MovedJob DEF Scanning
<1>7. CASE Release(w)
  <2>1. /\ Moves(w) /\ UNCHANGED <<fixed, pc, next>> /\ mu' = Nobody
        /\ worker[w].at = "unlock" /\ worker'[w].at = "idle"
    BY <1>0, <1>7, ReleaseDoes DEF main
  <2>2. \A v \in Worker : worker'[v].at = "unlock" <=> mu' = v
    BY <1>1, <2>1, ScanAssumption DEF Moves
  <2> QED BY <2>1, <2>2, MovedJob
<1>8. CASE TakeBuild(w)
  <2>1. /\ Moves(w) /\ UNCHANGED <<fixed, pc, mu>>
        /\ worker[w].at = "idle" /\ worker'[w].job = next /\ next' = next + 1
        /\ worker'[w].at = "scanFile" /\ pc = "build" /\ next <= Len(BuildJobs)
    BY <1>0, <1>8, TakeBuildDoes DEF main
  <2> QED BY ONLY <2>1, TakenJob, ScanInv, w \in Worker
<1>9. CASE scanFile(w)
  <2>1. /\ Moves(w) /\ UNCHANGED <<fixed, pc, next, mu>>
        /\ worker[w].at = "scanFile" /\ worker'[w].at = "idle"
    BY <1>0, <1>9, scanFileDoes DEF main
  <2>2. \A v \in Worker : worker'[v].at = "unlock" <=> mu' = v
    BY <1>1, <2>1 DEF Moves
  <2> QED BY <2>1, <2>2, MovedJob
<1> QED BY <1>2, <1>3, <1>4, <1>5, <1>6, <1>7, <1>8, <1>9 DEF WorkerStep

LEMMA WorkerKeepsTypes ==
    ASSUME ScanInv, NEW w \in Worker, WorkerStep(w)
    PROVE  ScanTypes' /\ BuildInv'
<1>0. ScanTypes /\ BuildInv /\ worker \in [Worker -> Goroutine] /\ next \in Nat /\ worker[w] \in Goroutine
  BY DEF ScanInv, ScanTypes, JobInv
<1>1. /\ coveredFiles \subseteq FileSet
      /\ worker[w].loaded \in Seq(FileSet) /\ worker[w].found \in Seq(FileSet)
      /\ worker[w].view \subseteq FileSet
  BY <1>0 DEF ScanTypes, Goroutine
<1>2. worker[w].at \in Scanning => worker[w].job \in Slot
  BY DEF ScanInv, JobInv
<1>3. worker[w].at = "scanFile" => pc = "build" /\ worker[w].job \in DOMAIN BuildJobs
  BY DEF ScanInv, JobInv
<1>4. UNCHANGED <<fixed, readable, main>>
  BY DEF WorkerStep, Take, prescanModule, Load, ScanLoaded, Acquire, Release, TakeBuild, scanFile, fixed
<1>5. UNCHANGED <<Slot, BuildJobs, BuildNames, readable, pc, todo, failed>>
  BY <1>4, StaysFixed DEF main
<1>6. CASE Take(w) \/ TakeBuild(w) \/ Load(w) \/ ScanLoaded(w) \/ Acquire(w)
  <2>1. Moves(w) /\ UNCHANGED <<coveredFiles, slots>>
    BY <1>0, <1>1, <1>6, TakeDoes, TakeBuildDoes, LoadDoes, ScanLoadedDoes, AcquireDoes
  <2>2. worker' \in [Worker -> Goroutine] /\ UNCHANGED <<prescans, perModule, perJob>>
    BY <2>1 DEF Moves, slots
  <2> QED BY <1>0, <1>5, <2>1, <2>2 DEF ScanTypes, BuildInv
<1>7. CASE prescanModule(w)
  <2>1. /\ Moves(w) /\ worker[w].at = "prescan"
        /\ prescans' = [prescans EXCEPT ![worker[w].job] = V3Files(worker[w].job)]
        /\ UNCHANGED <<coveredFiles, perModule, perJob>>
    BY <1>0, <1>7, prescanModuleDoes
  <2>2. worker' \in [Worker -> Goroutine]
    BY <2>1 DEF Moves
  <2>3. V3Files(worker[w].job) \in Seq(FileSet)
    BY <1>2, <2>1, V3FilesAre DEF Scanning
  <2>4. prescans' \in [Slot -> Seq(FileSet)]
    BY <1>0, <2>1, <2>3 DEF ScanTypes
  <2> QED BY <1>0, <1>5, <2>1, <2>2, <2>4 DEF ScanTypes, BuildInv
<1>8. CASE Release(w)
  <2>1. /\ Moves(w)
        /\ coveredFiles' = worker[w].view \cup ToSet(worker[w].loaded)
        /\ perModule' = [perModule EXCEPT ![worker[w].job] = worker[w].found]
        /\ UNCHANGED <<prescans, perJob>>
    BY <1>0, <1>8, ReleaseDoes
  <2>2. worker' \in [Worker -> Goroutine]
    BY <2>1 DEF Moves
  <2>3. coveredFiles' \subseteq FileSet
    <3>1. ToSet(worker[w].loaded) \subseteq FileSet
      BY <1>1 DEF ToSet
    <3> QED BY <1>1, <2>1, <3>1
  <2>4. perModule' \in [Slot -> Seq(FileSet)]
    BY <1>0, <1>1, <2>1 DEF ScanTypes
  <2> QED BY <1>0, <1>5, <2>1, <2>2, <2>3, <2>4 DEF ScanTypes, BuildInv
<1>9. CASE scanFile(w)
  <2> DEFINE i == worker[w].job
             name == BuildJobs[i].name
  <2>1. /\ Moves(w) /\ worker[w].at = "scanFile"
        /\ perJob' = IF name \in readable THEN [perJob EXCEPT ![i] = <<name>>] ELSE perJob
        /\ UNCHANGED <<coveredFiles, prescans, perModule>>
    BY <1>0, <1>9, scanFileDoes
  <2>2. worker' \in [Worker -> Goroutine]
    BY <2>1 DEF Moves
  <2>3. DOMAIN perJob' = DOMAIN perJob
    BY <2>1
  <2>4. \A j \in DOMAIN perJob : perJob'[j] = perJob[j] \/ perJob'[j] = <<BuildJobs[j].name>>
    BY <2>1
  <2>5. perJob' \in Seq(Seq(BuildNames))
    <3>1. <<name>> \in Seq(BuildNames)
      BY <1>3, <2>1, JobsAre DEF ScanInv
    <3> DEFINE n == Len(perJob)
               A == Seq(BuildNames)
    <3>2. perJob \in [1 .. n -> A] /\ n \in Nat
      BY <1>0 DEF BuildInv
    <3> HIDE DEF name, i, n, A
    <3>3. perJob' \in [1 .. n -> A]
      BY <2>1, <3>1, <3>2 DEF A
    <3>4. perJob' \in Seq(A)
      BY <3>2, <3>3
    <3> QED BY <3>4 DEF A
  <2>6. BuildInv'
    BY <1>0, <1>5, <2>3, <2>4, <2>5 DEF BuildInv
  <2> QED BY <1>0, <1>5, <2>1, <2>2, <2>6 DEF ScanTypes
<1> QED BY <1>6, <1>7, <1>8, <1>9 DEF WorkerStep

\* The main goroutine goes on when the pool has drained.
LEMMA MainWaits ==
    ASSUME ScanInv, MainStep
    PROVE  /\ \A w \in Worker : worker[w].at = "idle"
           /\ UNCHANGED <<fixed, readable, worker, mu, coveredFiles, prescans, perModule>>
<1>1. UNCHANGED <<fixed, readable, worker, mu, coveredFiles, prescans, perModule>>
  BY DEF MainStep, Merge, ScanUncovered, StartOrphans, ScanOrphan, EndOrphans, MergeBuild, slots
<1>2. \/ pc \in {"untyped", "orphans"}
      \/ \A w \in Worker : worker[w].at = "idle"
  BY DEF MainStep, Merge, ScanUncovered, StartOrphans, ScanOrphan, EndOrphans, MergeBuild
<1>3. \A w \in Worker : worker[w].at \in Scanning \cup {"idle", "scanFile"}
  BY DEF ScanInv, ScanTypes, Goroutine, Scanning
<1>4. \A w \in Worker : worker[w].at # "idle" => pc \in {"feed", "build"}
  BY <1>3 DEF ScanInv, JobInv
<1> QED BY <1>1, <1>2, <1>4

LEMMA SlotSeq ==
    ASSUME TreeInv, NEW S, NEW f \in [Slot -> S]
    PROVE  f \in Seq(S) /\ DOMAIN f = Slot /\ Len(f) = Len(moduleRoots)
<1>1. Slot = 1 .. Len(moduleRoots) /\ Len(moduleRoots) \in Nat
  BY FixedCounts
<1> QED BY <1>1

\* The pass over one file, in both passes.
LEMMA ParseDoes ==
    ASSUME NEW f, parseGoFile(f), failed \in BOOLEAN
    PROVE  /\ pc' \in {pc, "done"} /\ failed' \in BOOLEAN
           /\ ~ failed' => f \in readable /\ UNCHANGED <<pc, failed>>
           /\ findings' = IF f \in readable /\ tree.kind[f] = "jwx"
                             THEN Append(findings, [file |-> f, typed |-> FALSE])
                             ELSE findings
  BY DEF parseGoFile

LEMMA StartBuildDoes ==
    ASSUME StartBuild
    PROVE  /\ pc' = "build" /\ next' = 1
           /\ DOMAIN perJob' = DOMAIN BuildJobs
           /\ \A i \in DOMAIN BuildJobs : perJob'[i] = <<>>
           /\ TreeInv => perJob' \in Seq(Seq(BuildNames))
<1>1. ASSUME TreeInv PROVE perJob' \in Seq(Seq(BuildNames))
  <2>1. <<>> \in Seq(BuildNames)
    OBVIOUS
  <2>2. DOMAIN BuildJobs = 1 .. Len(BuildJobs) /\ Len(BuildJobs) \in Nat
    BY <1>1, FixedCounts
  <2>3. perJob' = [i \in 1 .. Len(BuildJobs) |-> <<>>]
    BY <2>2 DEF StartBuild
  <2> QED BY <2>1, <2>2, <2>3
<1> QED BY <1>1 DEF StartBuild

LEMMA OrphansAre ==
    /\ OrphanFiles(tree.gomods) \in Seq(FileSet) /\ Ascending(OrphanFiles(tree.gomods))
    /\ \A f : f \in ToSet(OrphanFiles(tree.gomods)) <=>
          /\ f \in FileSet /\ ~ shouldSkipWalkDir(TopDir)
          /\ Entered(TopDir, DirOf[f], findModuleRoots(tree.gomods) \ {TopDir})
<1>1. CASE shouldSkipWalkDir(TopDir)
  <2>1. OrphanFiles(tree.gomods) = <<>>
    BY <1>1 DEF OrphanFiles
  <2>2. DOMAIN <<>> = {}
    OBVIOUS
  <2>3. <<>> \in Seq(FileSet)
    OBVIOUS
  <2> QED BY <1>1, <2>1, <2>2, <2>3 DEF Ascending, ToSet
<1>2. CASE ~ shouldSkipWalkDir(TopDir)
  <2> DEFINE K == {f \in FileSet : Entered(TopDir, DirOf[f], findModuleRoots(tree.gomods) \ {TopDir})}
  <2>1. OrphanFiles(tree.gomods) = Among(File, K)
    BY <1>2 DEF OrphanFiles, FileSet
  <2>2. Among(File, K) \in Seq(FileSet) /\ ToSet(Among(File, K)) = FileSet \cap K /\ Ascending(Among(File, K))
    <3> HIDE DEF K
    <3> QED BY OfFile
  <2> QED BY <1>2, <2>1, <2>2
<1> QED BY <1>1, <1>2

LEMMA MainKeepsScan ==
    ASSUME ScanInv, MainStep
    PROVE  ScanInv'
<1>0. TreeInv /\ ScanTypes /\ JobInv /\ BuildInv
  BY DEF ScanInv
<1>1. /\ \A w \in Worker : worker[w].at = "idle"
      /\ UNCHANGED <<fixed, readable, worker, mu, coveredFiles, prescans, perModule>>
  BY MainWaits
<1>2. TreeInv' /\ UNCHANGED <<Slot, BuildJobs, BuildNames, moduleRoots>>
  BY <1>0, <1>1, StaysFixed
<1>3. /\ Len(moduleRoots) \in Nat /\ Slot = 1 .. Len(moduleRoots)
      /\ Len(BuildJobs) \in Nat /\ DOMAIN BuildJobs = 1 .. Len(BuildJobs)
  BY <1>0, FixedCounts
<1>4. /\ pc' \in {"untyped", "orphans", "build", "done"}
      /\ failed' \in BOOLEAN /\ todo' \in Seq(FileSet)
      /\ \/ /\ UNCHANGED <<next, perJob>> /\ pc' # "build"
            /\ pc' \in {"untyped", "orphans"} => pc \in {"feed", "untyped", "orphans"}
         \/ StartBuild
  <2>1. CASE Merge
    <3>1. todo' = FlattenSeq(prescans) /\ pc = "feed" /\ pc' = "untyped"
          /\ UNCHANGED <<next, perJob, failed>>
      BY <2>1 DEF Merge, slots
    <3>2. prescans \in Seq(Seq(FileSet))
      BY <1>0, SlotSeq DEF ScanTypes
    <3>3. FlattenSeq(prescans) \in Seq(FileSet)
      BY <3>2, FlattenIs DEF Concatenates
    <3> QED BY <1>0, <3>1, <3>3 DEF ScanTypes
  <2>2. CASE ScanUncovered
    <3>1. /\ pc = "untyped" /\ todo' = Tail(todo) /\ todo # <<>> /\ UNCHANGED <<next, perJob>>
          /\ UNCHANGED <<pc, findings, failed>> \/ parseGoFile(Head(todo))
      BY <2>2 DEF ScanUncovered, slots
    <3>2. pc' \in {"untyped", "done"} /\ failed' \in BOOLEAN
      BY <1>0, <3>1, ParseDoes DEF ScanTypes
    <3> QED BY <1>0, <3>1, <3>2 DEF ScanTypes
  <2>3. CASE StartOrphans
    <3>1. /\ pc = "untyped" /\ failed' = failed
          /\ \/ StartBuild /\ todo' = todo
             \/ pc' = "orphans" /\ todo' = OrphanFiles(tree.gomods) /\ UNCHANGED <<next, perJob>>
      BY <2>3 DEF StartOrphans
    <3>2. StartBuild => pc' = "build"
      BY DEF StartBuild
    <3> QED BY <1>0, <3>1, <3>2, OrphansAre DEF ScanTypes
  <2>4. CASE ScanOrphan
    <3>1. /\ pc = "orphans" /\ todo' = Tail(todo) /\ todo # <<>> /\ UNCHANGED <<next, perJob>>
          /\ parseGoFile(Head(todo))
      BY <2>4 DEF ScanOrphan, slots
    <3>2. pc' \in {"orphans", "done"} /\ failed' \in BOOLEAN
      BY <1>0, <3>1, ParseDoes DEF ScanTypes
    <3> QED BY <1>0, <3>1, <3>2 DEF ScanTypes
  <2>5. CASE EndOrphans
    <3>1. StartBuild /\ UNCHANGED <<todo, failed>>
      BY <2>5 DEF EndOrphans
    <3> QED BY <1>0, <3>1, StartBuildDoes DEF ScanTypes
  <2>6. CASE MergeBuild
    BY <1>0, <2>6 DEF MergeBuild, ScanTypes, slots
  <2> QED BY <2>1, <2>2, <2>3, <2>4, <2>5, <2>6 DEF MainStep
<1>5. ScanTypes'
  BY <1>0, <1>1, <1>2, <1>4 DEF ScanTypes
<1>6. JobInv'
  <2>1. \A w \in Worker : worker'[w].at = "idle" /\ mu' # w
    BY <1>0, <1>1 DEF JobInv
  <2>2. /\ next' \in Nat /\ next' >= 1
        /\ IF pc' \in {"feed", "untyped", "orphans"}
             THEN next' <= Len(moduleRoots) + 1
             ELSE pc' = "build" => next' <= Len(BuildJobs) + 1
        /\ next' <= 1 + Len(moduleRoots) + Len(BuildJobs)
    <3>1. CASE StartBuild
      BY <1>3, <3>1, StartBuildDoes
    <3>2. CASE /\ UNCHANGED <<next, perJob>> /\ pc' # "build"
               /\ pc' \in {"untyped", "orphans"} => pc \in {"feed", "untyped", "orphans"}
      BY <1>0, <1>4, <3>2 DEF JobInv
    <3> QED BY <1>4, <3>1, <3>2
  <2> QED BY <1>2, <2>1, <2>2 DEF JobInv, Scanning
<1>7. BuildInv'
  <2>1. CASE StartBuild
    BY <1>0, <1>2, <2>1, StartBuildDoes DEF BuildInv
  <2>2. CASE perJob' = perJob /\ pc' # "build"
    BY <1>0, <1>2, <2>2 DEF BuildInv
  <2> QED BY <1>4, <2>1, <2>2
<1> QED BY <1>2, <1>5, <1>6, <1>7 DEF ScanInv

LEMMA NextScan == ScanInv /\ [Next]_vars => ScanInv'
<1> SUFFICES ASSUME ScanInv, [Next]_vars PROVE ScanInv'
  OBVIOUS
<1>1. ASSUME NEW w \in Worker, WorkerStep(w) PROVE ScanInv'
  <2>1. TreeInv'
    BY NextFixed, StaysFixed DEF ScanInv
  <2> QED BY <1>1, <2>1, WorkerKeepsTypes, WorkerKeepsJobs DEF ScanInv
<1>2. CASE MainStep
  BY <1>2, MainKeepsScan
<1>3. CASE Vanish \/ UNCHANGED vars
  <2>1. /\ UNCHANGED <<fixed, pc, next, worker, mu, coveredFiles, prescans, perModule, perJob, todo, failed>>
        /\ readable' \subseteq readable
    BY <1>3 DEF Vanish, vars, fixed, slots, main
  <2>2. TreeInv' /\ UNCHANGED <<Slot, BuildJobs, BuildNames, moduleRoots>>
    BY <2>1, StaysFixed DEF ScanInv
  <2>3. ScanTypes' /\ BuildInv'
    BY <2>1, <2>2 DEF ScanInv, ScanTypes, BuildInv
  <2>4. JobInv'
    BY <2>1, <2>2 DEF ScanInv, JobInv
  <2> QED BY <2>2, <2>3, <2>4 DEF ScanInv
<1> QED BY <1>1, <1>2, <1>3 DEF Next, Finished

-----------------------------------------------------------------------------
(* The files of a module, and the map of the covered ones *)

\* Files of the i-th module, in the order of the walk.
Filed(i, s) == s \in Seq(FileSet) /\ Ascending(s) /\ \A f \in ToSet(s) : Owns(i, f)

\* Nobody has changed the map since the goroutine that holds the mutex read it.
ViewInv == \A w \in Worker : worker[w].at = "unlock" => worker[w].view = coveredFiles

OwnerInv ==
    /\ \A i \in Slot : Filed(i, prescans[i]) /\ Filed(i, perModule[i])
    /\ \A i \in Slot : ToSet(perModule[i]) \subseteq coveredFiles
    /\ \A w \in Worker :
          /\ worker[w].at \in {"scan", "lock", "unlock"} => Filed(worker[w].job, worker[w].loaded)
          /\ worker[w].at \in {"lock", "unlock"} =>
                /\ Filed(worker[w].job, worker[w].found)
                /\ ToSet(worker[w].found) \subseteq ToSet(worker[w].loaded)

FiledInv == ScanInv /\ ViewInv /\ OwnerInv

LEMMA InitFiled == Init => FiledInv
<1> SUFFICES ASSUME Init PROVE FiledInv
  OBVIOUS
<1>1. \A i : Filed(i, <<>>)
  <2>1. DOMAIN <<>> = {} /\ <<>> \in Seq(FileSet)
    OBVIOUS
  <2> QED BY <2>1 DEF Filed, Ascending, ToSet
<1>2. ToSet(<<>>) = {}
  BY DEF ToSet
<1>3. \A i \in Slot : prescans[i] = <<>> /\ perModule[i] = <<>>
  BY DEF Init
<1>4. \A w \in Worker : worker[w].at = "idle"
  BY DEF Init, Idle
<1> QED BY <1>1, <1>2, <1>3, <1>4, InitScan DEF FiledInv, ViewInv, OwnerInv

LEMMA StaysFiled ==
    ASSUME UNCHANGED fixed
    PROVE  \A i, s : Filed(i, s)' <=> Filed(i, s)
  BY StaysFixed DEF Filed

LEMMA WorkerFiles ==
    ASSUME FiledInv, NEW w \in Worker, WorkerStep(w)
    PROVE  ViewInv' /\ OwnerInv' /\ coveredFiles \subseteq coveredFiles'
<1> DEFINE j == worker[w].job
<1>0. /\ worker \in [Worker -> Goroutine] /\ next \in Nat /\ coveredFiles \subseteq FileSet
      /\ prescans \in [Slot -> Seq(FileSet)] /\ perModule \in [Slot -> Seq(FileSet)]
  BY DEF FiledInv, ScanInv, ScanTypes, JobInv
<1>1. \A v \in Worker : worker[v].at = "unlock" <=> mu = v
  BY DEF FiledInv, ScanInv, JobInv
<1>2. worker[w].at \in Scanning => j \in Slot
  BY DEF FiledInv, ScanInv, JobInv
<1>3. OwnerInv /\ ViewInv
  BY DEF FiledInv
<1>4. UNCHANGED fixed
  BY NextFixed DEF Next
<1>5. Slot' = Slot /\ \A i, s : Filed(i, s)' <=> Filed(i, s)
  BY <1>4, StaysFixed, StaysFiled
<1>6. CASE Take(w) \/ TakeBuild(w)
  <2>1. /\ Moves(w) /\ worker'[w].at \in {"prescan", "scanFile"}
        /\ UNCHANGED <<coveredFiles, prescans, perModule>>
    BY <1>0, <1>6, TakeDoes, TakeBuildDoes DEF slots
  <2> QED BY <1>3, <1>5, <2>1 DEF OwnerInv, ViewInv, Moves
<1>7. CASE prescanModule(w)
  <2>1. /\ Moves(w) /\ worker[w].at = "prescan" /\ worker'[w].at \in {"idle", "load"}
        /\ prescans' = [prescans EXCEPT ![j] = V3Files(j)]
        /\ UNCHANGED <<coveredFiles, perModule>>
    BY <1>0, <1>7, prescanModuleDoes
  <2>2. j \in Slot /\ Filed(j, V3Files(j))
    BY <1>2, <2>1, V3FilesAre DEF Scanning, Filed
  <2> HIDE DEF j
  <2>3. \A i \in Slot : Filed(i, prescans'[i])
    BY <1>0, <1>3, <2>1, <2>2 DEF OwnerInv
  <2> QED BY <1>3, <1>5, <2>1, <2>3 DEF OwnerInv, ViewInv, Moves
<1>8. CASE Load(w)
  <2> DEFINE files == worker'[w].loaded
  <2>1. /\ Moves(w) /\ worker[w].at = "load" /\ worker'[w].at \in {"idle", "scan"}
        /\ worker'[w].job = j /\ Ascending(files)
        /\ \A f \in ToSet(files) : f \in FileSet /\ DirOf[f] \in Patterns(j)
        /\ UNCHANGED <<coveredFiles, prescans, perModule>>
    BY <1>0, <1>8, LoadDoes DEF slots
  <2>2. j \in Slot /\ files \in Seq(FileSet)
    BY <1>2, <2>1 DEF Scanning, Moves, Goroutine
  <2> HIDE DEF j, files
  <2>3. \A f \in ToSet(files) : Owns(j, f)
    <3> TAKE f \in ToSet(files)
    <3>1. PICK g \in ToSet(prescans[j]) : DirOf[f] = DirOf[g]
      BY <2>1 DEF Patterns
    <3>2. Owns(j, g)
      BY <1>3, <2>2 DEF OwnerInv, Filed
    <3> QED BY <2>1, <3>1, <3>2 DEF Owns
  <2>4. Filed(j, files)
    BY <2>1, <2>2, <2>3 DEF Filed
  <2> QED BY <1>3, <1>5, <2>1, <2>4 DEF OwnerInv, ViewInv, Moves, files
<1>9. CASE ScanLoaded(w)
  <2> DEFINE K == {f \in readable \cap FileSet : tree.kind[f] \in {"jwx", "body"}}
             found == worker'[w].found
             files == worker[w].loaded
  <2>1. /\ Moves(w) /\ worker[w].at = "scan" /\ worker'[w].at = "lock"
        /\ worker'[w].job = j /\ worker'[w].loaded = files /\ found = Among(files, K)
        /\ UNCHANGED <<coveredFiles, prescans, perModule>>
    BY <1>0, <1>9, ScanLoadedDoes DEF slots
  <2>2. Filed(j, files)
    BY <1>3, <2>1 DEF OwnerInv
  <2> HIDE DEF j, K, found, files
  <2>3. found \in Seq(FileSet) /\ ToSet(found) = ToSet(files) \cap K /\ Ascending(found)
    BY <2>1, <2>2, AmongAscending DEF Filed
  <2>4. Filed(j, found) /\ ToSet(found) \subseteq ToSet(files)
    BY <2>2, <2>3 DEF Filed
  <2> QED BY <1>3, <1>5, <2>1, <2>2, <2>4 DEF OwnerInv, ViewInv, Moves, found
<1>10. CASE Acquire(w)
  <2>1. /\ Moves(w) /\ worker[w].at = "lock" /\ worker'[w].at = "unlock"
        /\ worker'[w].job = j /\ worker'[w].loaded = worker[w].loaded
        /\ worker'[w].found = worker[w].found /\ worker'[w].view = coveredFiles
        /\ UNCHANGED <<coveredFiles, prescans, perModule>>
    BY <1>0, <1>10, AcquireDoes DEF slots
  <2> QED BY <1>3, <1>5, <2>1 DEF OwnerInv, ViewInv, Moves
<1>11. CASE Release(w)
  <2>1. /\ Moves(w) /\ worker[w].at = "unlock" /\ worker'[w].at = "idle"
        /\ coveredFiles' = worker[w].view \cup ToSet(worker[w].loaded)
        /\ perModule' = [perModule EXCEPT ![j] = worker[w].found]
        /\ UNCHANGED prescans
    BY <1>0, <1>11, ReleaseDoes
  <2>2. coveredFiles' = coveredFiles \cup ToSet(worker[w].loaded)
    BY <1>3, <2>1 DEF ViewInv
  <2>3. \A v \in Worker \ {w} : worker[v].at # "unlock"
    BY <1>1, <2>1
  <2>4. ViewInv'
    BY <2>1, <2>3 DEF ViewInv, Moves
  <2>5. /\ Filed(j, worker[w].found) /\ ToSet(worker[w].found) \subseteq ToSet(worker[w].loaded)
        /\ j \in Slot
    BY <1>2, <1>3, <2>1 DEF OwnerInv, Scanning
  <2> HIDE DEF j
  <2>6. \A i \in Slot : Filed(i, perModule'[i]) /\ ToSet(perModule'[i]) \subseteq coveredFiles'
    BY <1>0, <1>3, <2>1, <2>2, <2>5 DEF OwnerInv
  <2>7. OwnerInv'
    BY <1>3, <1>5, <2>1, <2>6 DEF OwnerInv, Moves
  <2> QED BY <2>2, <2>4, <2>7
<1>12. CASE scanFile(w)
  <2>1. /\ Moves(w) /\ worker'[w].at = "idle"
        /\ UNCHANGED <<coveredFiles, prescans, perModule>>
    BY <1>0, <1>12, scanFileDoes
  <2> QED BY <1>3, <1>5, <2>1 DEF OwnerInv, ViewInv, Moves
<1> QED BY <1>6, <1>7, <1>8, <1>9, <1>10, <1>11, <1>12 DEF WorkerStep

LEMMA NextFiled == FiledInv /\ [Next]_vars => FiledInv' /\ coveredFiles \subseteq coveredFiles'
<1> SUFFICES ASSUME FiledInv, [Next]_vars
             PROVE  FiledInv' /\ coveredFiles \subseteq coveredFiles'
  OBVIOUS
<1>1. ScanInv'
  BY NextScan DEF FiledInv
<1>2. ASSUME NEW w \in Worker, WorkerStep(w)
      PROVE  FiledInv' /\ coveredFiles \subseteq coveredFiles'
  BY <1>1, <1>2, WorkerFiles DEF FiledInv
<1>3. CASE MainStep \/ Vanish \/ UNCHANGED vars
  <2>1. UNCHANGED <<fixed, worker, coveredFiles, prescans, perModule>>
    BY <1>3, MainWaits DEF FiledInv, Vanish, vars, fixed, slots
  <2>2. Slot' = Slot /\ \A i, s : Filed(i, s)' <=> Filed(i, s)
    BY <2>1, StaysFixed, StaysFiled
  <2>3. ViewInv' /\ OwnerInv'
    BY <2>1, <2>2 DEF FiledInv, ViewInv, OwnerInv
  <2> QED BY <1>1, <2>1, <2>3 DEF FiledInv
<1> QED BY <1>2, <1>3 DEF Next, Finished

LEMMA SpecFiled == Spec => []FiledInv
<1>1. FiledInv /\ [Next]_vars => FiledInv'
  BY NextFiled
<1> QED BY InitFiled, <1>1, PTL DEF Spec

\* No goroutine undoes what another recorded as covered (addCovered): the
\* mutex is enough, whatever the goroutines do between taking and giving it.
THEOREM CoverageGrows == Spec => CoverageOnlyGrows
<1>1. FiledInv /\ [Next]_vars => [coveredFiles \subseteq coveredFiles']_vars
  BY NextFiled
<1> QED BY SpecFiled, <1>1, PTL DEF Spec, CoverageOnlyGrows

\* The module that scans a file is the one whose go.mod moduleStateFor finds
\* for it (prescanModule, gomod_state.go): a walk that stops at every go.mod
\* stays among the files its root is the nearest go.mod of, and packages.Load
\* is asked for no other directory.
THEOREM OwnerScans == Spec => []ScannedByOwner
<1>1. ASSUME FiledInv PROVE ScannedByOwner
  <2>1. \A i \in Slot : \A f \in ToSet(prescans[i]) \cup ToSet(perModule[i]) : Owns(i, f)
    BY <1>1 DEF FiledInv, OwnerInv, Filed
  <2> QED BY <1>1, <2>1, OwnerIs DEF FiledInv, ScanInv, ScannedByOwner
<1>2. FiledInv => ScannedByOwner
  BY <1>1
<1> QED BY SpecFiled, <1>2, PTL

-----------------------------------------------------------------------------
(* What is reported, and in which order *)

LEMMA TailIs ==
    ASSUME NEW S, NEW s \in Seq(S), s # <<>>, IsInjective(s)
    PROVE  /\ Head(s) \in ToSet(s) /\ Head(s) \in S
           /\ Tail(s) \in Seq(S) /\ IsInjective(Tail(s))
           /\ ToSet(Tail(s)) = ToSet(s) \ {Head(s)}
<1> DEFINE t == Tail(s)
           n == Len(s)
<1>1. /\ n \in Nat /\ n >= 1 /\ DOMAIN s = 1 .. n /\ Head(s) = s[1] /\ s[1] \in S
      /\ t \in Seq(S) /\ DOMAIN t = 1 .. n - 1
      /\ \A i \in 1 .. n - 1 : t[i] = s[i + 1]
  OBVIOUS
<1> HIDE DEF t, n
<1>2. \A i, j \in 1 .. n : s[i] = s[j] => i = j
  BY <1>1 DEF IsInjective
<1>3. IsInjective(t)
  <2> SUFFICES ASSUME NEW i \in 1 .. n - 1, NEW j \in 1 .. n - 1, t[i] = t[j] PROVE i = j
    BY <1>1 DEF IsInjective
  <2>1. i + 1 \in 1 .. n /\ j + 1 \in 1 .. n /\ s[i + 1] = s[j + 1]
    BY <1>1
  <2>2. i + 1 = j + 1
    BY <1>2, <2>1
  <2> QED BY <2>2
<1>4. ToSet(t) = ToSet(s) \ {s[1]}
  <2>1. ASSUME NEW x \in ToSet(t) PROVE x \in ToSet(s) \ {s[1]}
    <3>1. PICK i \in 1 .. n - 1 : x = t[i]
      BY <1>1 DEF ToSet
    <3>2. i + 1 \in 1 .. n /\ 1 \in 1 .. n /\ x = s[i + 1] /\ i + 1 # 1
      BY <1>1, <3>1
    <3>3. s[i + 1] # s[1]
      BY <1>2, <3>2
    <3> QED BY <1>1, <3>2, <3>3 DEF ToSet
  <2>2. ASSUME NEW x \in ToSet(s), x # s[1] PROVE x \in ToSet(t)
    <3>1. PICK i \in 1 .. n : x = s[i]
      BY <1>1 DEF ToSet
    <3>2. i - 1 \in 1 .. n - 1 /\ (i - 1) + 1 = i
      BY <1>1, <2>2, <3>1
    <3>3. x = t[i - 1]
      BY <1>1, <3>1, <3>2
    <3> QED BY <1>1, <3>2, <3>3 DEF ToSet
  <2> QED BY <2>1, <2>2
<1>5. Head(s) \in ToSet(s)
  BY <1>1 DEF ToSet
<1> QED BY <1>1, <1>3, <1>4, <1>5 DEF t

\* The first of two files comes first in the walk of modules and of files.
Before(f, g) ==
    \E m, n \in Slot : Owns(m, f) /\ Owns(n, g) /\ (m < n \/ (m = n /\ Place(f) < Place(g)))

\* One finding comes after another, of another file.
Follows(y, x) ==
    /\ x.file # y.file
    /\ y.typed => x.typed /\ Before(x.file, y.file)
    /\ x.file \in BuildNames =>
          y.file \in BuildNames /\ Rank(x.file) < Rank(y.file)

Sorted(s) == \A k, l \in DOMAIN s : k < l => Follows(s[l], s[k])

LEMMA BeforeDiffers ==
    ASSUME TreeInv, NEW f, NEW g, Before(f, g)
    PROVE  f # g
<1>1. PICK m \in Slot, n \in Slot :
         Owns(m, f) /\ Owns(n, g) /\ (m < n \/ (m = n /\ Place(f) < Place(g)))
  BY DEF Before
<1>2. m \in Nat /\ n \in Nat
  BY FixedCounts
<1>3. Place(f) \in Nat /\ Place(g) \in Nat
  BY <1>1, PlaceIs DEF Owns
<1>4. f = g => m = n
  BY <1>1, OwnerIs
<1> QED BY <1>1, <1>2, <1>3, <1>4

\* What is reported of the files that were type-checked.
TypedFindings == FlattenSeq([i \in Slot |-> Typed(perModule[i])])

LEMMA TypedFindingsAre ==
    ASSUME FiledInv
    PROVE  /\ TypedFindings \in Seq(Finding) /\ Sorted(TypedFindings)
           /\ \A f : (\E k \in DOMAIN TypedFindings : TypedFindings[k].file = f)
                        <=> \E i \in Slot : f \in ToSet(perModule[i])
<1> DEFINE ss == [i \in Slot |-> Typed(perModule[i])]
           r == TypedFindings
           T == {x \in Finding : x.typed /\ x.file \in FileSet}
<1>0. /\ TreeInv /\ Slot \subseteq Nat /\ FileSet \cap BuildNames = {}
      /\ \A i \in Slot : Filed(i, perModule[i])
  BY FixedCounts, JobsAre DEF FiledInv, ScanInv, OwnerInv
<1>1. ASSUME NEW i \in Slot
      PROVE  /\ Typed(perModule[i]) \in Seq(T)
             /\ DOMAIN Typed(perModule[i]) = DOMAIN perModule[i]
             /\ \A k \in DOMAIN perModule[i] :
                   Typed(perModule[i])[k] = [file |-> perModule[i][k], typed |-> TRUE]
  <2>1. perModule[i] \in Seq(FileSet)
    BY <1>0 DEF Filed
  <2>2. \A f \in FileSet : [file |-> f, typed |-> TRUE] \in T
    BY DEF Finding
  <2> HIDE DEF T
  <2> QED BY <2>1, <2>2 DEF Typed
<1>2. ss \in Seq(Seq(T)) /\ DOMAIN ss = Slot
  <2>1. ss \in [Slot -> Seq(T)]
    BY <1>1
  <2> HIDE DEF ss, T
  <2> QED BY <1>0, <2>1, SlotSeq
<1>3. r = FlattenSeq(ss)
  BY DEF TypedFindings
<1>4. \A i \in Slot : ss[i] = Typed(perModule[i])
  OBVIOUS
<1> HIDE DEF ss, r, T
<1>5. Concatenates(r, ss, T)
  BY <1>2, <1>3, FlattenIs
<1>6. r \in Seq(T)
  BY <1>5 DEF Concatenates
<1>7. \A x : x \in ToSet(r) <=> \E i \in Slot : x \in ToSet(Typed(perModule[i]))
  BY <1>2, <1>4, <1>5 DEF Concatenates
<1>8. ASSUME NEW i \in Slot, NEW x
      PROVE  x \in ToSet(Typed(perModule[i])) <=>
                \E f \in ToSet(perModule[i]) : x = [file |-> f, typed |-> TRUE]
  BY <1>1 DEF ToSet
<1>9. ASSUME NEW f
      PROVE  (\E k \in DOMAIN r : r[k].file = f) <=> \E i \in Slot : f \in ToSet(perModule[i])
  <2>1. ASSUME NEW k \in DOMAIN r PROVE \E i \in Slot : r[k].file \in ToSet(perModule[i])
    <3>1. r[k] \in ToSet(r)
      BY DEF ToSet
    <3>2. PICK i \in Slot : r[k] \in ToSet(Typed(perModule[i]))
      BY <1>7, <3>1
    <3>3. PICK g \in ToSet(perModule[i]) : r[k] = [file |-> g, typed |-> TRUE]
      BY <1>8, <3>2
    <3>4. r[k].file = g
      BY <3>3
    <3> QED BY <3>3, <3>4
  <2>2. ASSUME NEW i \in Slot, f \in ToSet(perModule[i]) PROVE \E k \in DOMAIN r : r[k].file = f
    <3>1. [file |-> f, typed |-> TRUE] \in ToSet(r)
      BY <1>7, <1>8, <2>2
    <3>2. PICK k \in DOMAIN r : r[k] = [file |-> f, typed |-> TRUE]
      BY <3>1 DEF ToSet
    <3> QED BY <3>2
  <2> QED BY <2>1, <2>2
<1>10. ASSUME NEW k \in DOMAIN r, NEW l \in DOMAIN r, k < l PROVE Before(r[k].file, r[l].file)
  <2>0. \/ \E n \in Slot : \E p, q \in DOMAIN ss[n] : p < q /\ ss[n][p] = r[k] /\ ss[n][q] = r[l]
        \/ \E m, n \in Slot : m < n /\ r[k] \in ToSet(ss[m]) /\ r[l] \in ToSet(ss[n])
    BY <1>2, <1>5, <1>10 DEF Concatenates
  <2>1. CASE \E n \in Slot : \E p, q \in DOMAIN ss[n] : p < q /\ ss[n][p] = r[k] /\ ss[n][q] = r[l]
    <3>1. PICK n \in Slot : \E p, q \in DOMAIN ss[n] : p < q /\ ss[n][p] = r[k] /\ ss[n][q] = r[l]
      BY <2>1
    <3>2. PICK p \in DOMAIN ss[n], q \in DOMAIN ss[n] : p < q /\ ss[n][p] = r[k] /\ ss[n][q] = r[l]
      BY <3>1
    <3> DEFINE files == perModule[n]
    <3>3. p \in DOMAIN files /\ q \in DOMAIN files /\ p < q
          /\ r[k].file = files[p] /\ r[l].file = files[q]
      <4>1. DOMAIN ss[n] = DOMAIN files
        BY <1>1, <1>4
      <4>2. p \in DOMAIN files /\ q \in DOMAIN files
        BY <3>2, <4>1
      <4>3. /\ ss[n][p] = [file |-> files[p], typed |-> TRUE]
            /\ ss[n][q] = [file |-> files[q], typed |-> TRUE]
        BY <1>1, <1>4, <4>2
      <4>4. r[k] = [file |-> files[p], typed |-> TRUE] /\ r[l] = [file |-> files[q], typed |-> TRUE]
        BY <3>2, <4>3
      <4> QED BY <3>2, <4>2, <4>4
    <3>4. Filed(n, files)
      BY <1>0
    <3> HIDE DEF files
    <3>5. Place(files[p]) < Place(files[q])
      BY <3>3, <3>4 DEF Filed, Ascending
    <3>6. Owns(n, files[p]) /\ Owns(n, files[q])
      BY <3>3, <3>4 DEF Filed, ToSet
    <3> QED BY <3>3, <3>5, <3>6 DEF Before
  <2>2. CASE \E m, n \in Slot : m < n /\ r[k] \in ToSet(ss[m]) /\ r[l] \in ToSet(ss[n])
    <3>1. PICK m \in Slot, n \in Slot : m < n /\ r[k] \in ToSet(ss[m]) /\ r[l] \in ToSet(ss[n])
      BY <2>2
    <3>2. PICK f \in ToSet(perModule[m]) : r[k] = [file |-> f, typed |-> TRUE]
      BY <1>4, <1>8, <3>1
    <3>3. PICK g \in ToSet(perModule[n]) : r[l] = [file |-> g, typed |-> TRUE]
      BY <1>4, <1>8, <3>1
    <3>4. Owns(m, r[k].file) /\ Owns(n, r[l].file)
      BY <1>0, <3>2, <3>3 DEF Filed
    <3> QED BY <3>1, <3>4 DEF Before
  <2> QED BY <2>0, <2>1, <2>2
<1>11. \A k \in DOMAIN r : r[k].typed /\ r[k].file \in FileSet
  BY <1>6 DEF T
<1>12. Sorted(r)
  BY <1>0, <1>10, <1>11, BeforeDiffers DEF Sorted, Follows
<1>13. r \in Seq(Finding)
  <2>1. T \subseteq Finding
    BY DEF T
  <2> QED BY <1>6, <2>1
<1> QED BY <1>9, <1>12, <1>13 DEF r

\* A file scanned without type information comes after what was found before.
LEMMA UntypedFollows ==
    ASSUME NEW s \in Seq(Finding), Sorted(s), FileSet \cap BuildNames = {},
           NEW f \in FileSet, \A k \in DOMAIN s : s[k].file \in FileSet \ {f}
    PROVE  /\ Append(s, [file |-> f, typed |-> FALSE]) \in Seq(Finding)
           /\ Sorted(Append(s, [file |-> f, typed |-> FALSE]))
           /\ \A g : (\E k \in DOMAIN Append(s, [file |-> f, typed |-> FALSE]) :
                         Append(s, [file |-> f, typed |-> FALSE])[k].file = g)
                        <=> g = f \/ \E k \in DOMAIN s : s[k].file = g
<1> DEFINE x == [file |-> f, typed |-> FALSE]
           r == Append(s, x)
           n == Len(s)
<1>1. x \in Finding /\ x.file = f /\ x.typed = FALSE
  BY DEF Finding
<1> HIDE DEF x
<1>2. /\ n \in Nat /\ DOMAIN s = 1 .. n /\ r \in Seq(Finding) /\ DOMAIN r = 1 .. n + 1
      /\ r[n + 1] = x /\ \A k \in 1 .. n : r[k] = s[k]
  BY <1>1
<1> HIDE DEF r, n
<1>3. ASSUME NEW k \in 1 .. n + 1, NEW l \in 1 .. n + 1, k < l PROVE Follows(r[l], r[k])
  <2>1. CASE l = n + 1
    <3>1. k \in 1 .. n /\ r[l] = x /\ r[k] = s[k]
      BY <1>2, <1>3, <2>1
    <3>2. s[k].file \in FileSet \ {f}
      BY <1>2, <3>1
    <3> QED BY <1>1, <3>1, <3>2 DEF Follows
  <2>2. CASE l # n + 1
    <3>1. k \in 1 .. n /\ l \in 1 .. n /\ r[l] = s[l] /\ r[k] = s[k]
      BY <1>2, <1>3, <2>2
    <3> QED BY <1>2, <1>3, <3>1 DEF Sorted
  <2> QED BY <2>1, <2>2
<1>4. Sorted(r)
  BY <1>2, <1>3 DEF Sorted
<1>5. ASSUME NEW g
      PROVE  (\E k \in 1 .. n + 1 : r[k].file = g) <=> g = f \/ \E k \in 1 .. n : s[k].file = g
  <2>1. \A k \in 1 .. n + 1 : k = n + 1 \/ k \in 1 .. n
    BY <1>2
  <2>2. n + 1 \in 1 .. n + 1 /\ \A k \in 1 .. n : k \in 1 .. n + 1
    BY <1>2
  <2> QED BY <1>1, <1>2, <2>1, <2>2
<1>6. r \in Seq(Finding) /\ \A g : (\E k \in DOMAIN r : r[k].file = g) <=> g = f \/ \E k \in DOMAIN s : s[k].file = g
  BY <1>2, <1>5
<1> QED BY <1>4, <1>6 DEF r, x

\* The findings of the build files.
BuildFindings ==
    [i \in DOMAIN FlattenSeq(perJob) |-> [file |-> FlattenSeq(perJob)[i], typed |-> FALSE]]

LEMMA BuildFindingsAre ==
    ASSUME ScanInv
    PROVE  /\ BuildFindings \in Seq(Finding) /\ Sorted(BuildFindings)
           /\ \A k \in DOMAIN BuildFindings :
                 BuildFindings[k].file \in BuildNames /\ BuildFindings[k].typed = FALSE
           /\ \A g : (\E k \in DOMAIN BuildFindings : BuildFindings[k].file = g)
                        <=> \E i \in DOMAIN perJob : perJob[i] = <<g>>
<1> DEFINE names == FlattenSeq(perJob)
           r == BuildFindings
<1>0. /\ perJob \in Seq(Seq(BuildNames)) /\ TreeInv
      /\ \A i \in DOMAIN perJob :
            i \in DOMAIN BuildJobs /\ (perJob[i] = <<>> \/ perJob[i] = <<BuildJobs[i].name>>)
  BY DEF ScanInv, BuildInv
<1>1. Concatenates(names, perJob, BuildNames)
  BY <1>0, FlattenIs
<1>2. r = [i \in DOMAIN names |-> [file |-> names[i], typed |-> FALSE]]
  BY DEF BuildFindings
<1> HIDE DEF names, r
<1>3. names \in Seq(BuildNames)
  BY <1>1 DEF Concatenates
<1>4. r \in Seq(Finding) /\ DOMAIN r = DOMAIN names
      /\ \A k \in DOMAIN r : r[k].file = names[k] /\ r[k].typed = FALSE /\ names[k] \in BuildNames
  <2>1. \A k \in DOMAIN names : names[k] \in BuildNames /\ [file |-> names[k], typed |-> FALSE] \in Finding
    BY <1>3 DEF Finding
  <2>2. \A k \in DOMAIN r : r[k] = [file |-> names[k], typed |-> FALSE] /\ k \in DOMAIN names
    BY <1>2
  <2>3. DOMAIN r = DOMAIN names
    BY <1>2
  <2>4. r \in Seq(Finding)
    <3> HIDE DEF Finding
    <3> QED BY <1>2, <1>3, <2>1
  <2> QED BY <2>1, <2>2, <2>3, <2>4
<1>5. ASSUME NEW i \in DOMAIN perJob, NEW g
      PROVE  g \in ToSet(perJob[i]) <=> perJob[i] = <<g>>
  <2>1. CASE perJob[i] = <<>>
    BY <2>1 DEF ToSet
  <2>2. CASE perJob[i] = <<BuildJobs[i].name>>
    <3> DEFINE h == BuildJobs[i].name
    <3>1. DOMAIN <<h>> = {1} /\ <<h>>[1] = h
      OBVIOUS
    <3>2. g \in ToSet(<<h>>) <=> g = h
      BY <3>1 DEF ToSet
    <3>3. <<g>> = <<h>> <=> g = h
      OBVIOUS
    <3> QED BY <2>2, <3>2, <3>3
  <2> QED BY <1>0, <2>1, <2>2
<1>6. ASSUME NEW g
      PROVE  (\E k \in DOMAIN r : r[k].file = g) <=> \E i \in DOMAIN perJob : perJob[i] = <<g>>
  <2>1. g \in ToSet(names) <=> \E i \in DOMAIN perJob : g \in ToSet(perJob[i])
    BY <1>1 DEF Concatenates
  <2>2. g \in ToSet(names) <=> \E k \in DOMAIN r : r[k].file = g
    BY <1>4 DEF ToSet
  <2> QED BY <1>5, <2>1, <2>2
<1>7. ASSUME NEW k \in DOMAIN r, NEW l \in DOMAIN r, k < l
      PROVE  names[k] # names[l] /\ Rank(names[k]) < Rank(names[l])
  <2>1. \/ \E n \in DOMAIN perJob : \E p, q \in DOMAIN perJob[n] :
              p < q /\ perJob[n][p] = names[k] /\ perJob[n][q] = names[l]
        \/ \E m, n \in DOMAIN perJob : m < n /\ names[k] \in ToSet(perJob[m]) /\ names[l] \in ToSet(perJob[n])
    BY <1>1, <1>4, <1>7 DEF Concatenates
  <2>2. ASSUME NEW n \in DOMAIN perJob, NEW p \in DOMAIN perJob[n], NEW q \in DOMAIN perJob[n]
        PROVE  ~ (p < q)
    <3>1. \A h : DOMAIN <<h>> = {1}
      OBVIOUS
    <3>2. DOMAIN <<>> = {}
      OBVIOUS
    <3>3. p = 1 /\ q = 1
      BY <1>0, <3>1, <3>2
    <3> QED BY <3>3
  <2>3. PICK m \in DOMAIN perJob, n \in DOMAIN perJob :
           m < n /\ names[k] \in ToSet(perJob[m]) /\ names[l] \in ToSet(perJob[n])
    BY <2>1, <2>2
  <2>4. perJob[m] = <<names[k]>> /\ perJob[n] = <<names[l]>>
    BY <1>5, <2>3
  <2>5. /\ m \in DOMAIN BuildJobs /\ n \in DOMAIN BuildJobs
        /\ names[k] = BuildJobs[m].name /\ names[l] = BuildJobs[n].name
    <3>1. \A g, h : <<g>> = <<h>> => g = h
      OBVIOUS
    <3>2. \A g : <<g>> # <<>>
      OBVIOUS
    <3> QED BY <1>0, <2>4, <3>1, <3>2
  <2>6. m \in Nat /\ n \in Nat /\ m # n
    BY <1>0, <2>3, <2>5, FixedCounts
  <2> QED BY <1>0, <2>3, <2>5, <2>6, JobsAre
<1>8. Sorted(r)
  BY <1>4, <1>7 DEF Sorted, Follows
<1> QED BY <1>4, <1>6, <1>8 DEF r

\* r holds the findings of s and those of b, still in order.
Joined(r, s, b) ==
    /\ r \in Seq(Finding) /\ Sorted(r)
    /\ \A g : (\E k \in DOMAIN r : r[k].file = g)
                <=> (\E k \in DOMAIN s : s[k].file = g) \/ (\E k \in DOMAIN b : b[k].file = g)

LEMMA BuildFollows ==
    ASSUME NEW s \in Seq(Finding), Sorted(s), \A k \in DOMAIN s : s[k].file \in FileSet,
           FileSet \cap BuildNames = {},
           NEW b \in Seq(Finding), Sorted(b),
           \A k \in DOMAIN b : b[k].file \in BuildNames /\ b[k].typed = FALSE
    PROVE  Joined(s \o b, s, b)
<1> DEFINE r == s \o b
           m == Len(s)
           n == Len(b)
<1>1. /\ m \in Nat /\ n \in Nat /\ DOMAIN s = 1 .. m /\ DOMAIN b = 1 .. n
      /\ r \in Seq(Finding) /\ DOMAIN r = 1 .. m + n
      /\ \A k \in 1 .. m + n : r[k] = IF k <= m THEN s[k] ELSE b[k - m]
  OBVIOUS
<1> HIDE DEF r, m, n
<1>2. ASSUME NEW k \in 1 .. m + n, NEW l \in 1 .. m + n, k < l PROVE Follows(r[l], r[k])
  <2>1. CASE l <= m
    <3>0. k \in 1 .. m /\ l \in 1 .. m
      BY <1>1, <1>2, <2>1
    <3>1. k \in 1 .. m /\ l \in 1 .. m /\ r[k] = s[k] /\ r[l] = s[l]
      BY <1>1, <3>0
    <3> QED BY <1>1, <1>2, <3>1 DEF Sorted
  <2>2. CASE k <= m /\ ~ (l <= m)
    <3>1. k \in DOMAIN s /\ l - m \in DOMAIN b /\ r[k] = s[k] /\ r[l] = b[l - m]
      BY <1>1, <2>2
    <3>2. s[k].file \in FileSet /\ b[l - m].file \in BuildNames /\ b[l - m].typed = FALSE
      BY <3>1
    <3> QED BY <3>1, <3>2 DEF Follows
  <2>3. CASE ~ (k <= m)
    <3>1. k - m \in DOMAIN b /\ l - m \in DOMAIN b /\ k - m < l - m /\ r[k] = b[k - m] /\ r[l] = b[l - m]
      BY <1>1, <1>2, <2>3
    <3> QED BY <3>1 DEF Sorted
  <2> QED BY <2>1, <2>2, <2>3
<1>3. Sorted(r)
  BY <1>1, <1>2 DEF Sorted
<1>4. ASSUME NEW g
      PROVE  (\E k \in 1 .. m + n : r[k].file = g)
                <=> (\E k \in 1 .. m : s[k].file = g) \/ (\E k \in 1 .. n : b[k].file = g)
  <2>1. ASSUME NEW k \in 1 .. m + n
        PROVE  (k \in 1 .. m /\ r[k] = s[k]) \/ (k - m \in 1 .. n /\ r[k] = b[k - m])
    BY <1>1
  <2>2. ASSUME NEW k \in 1 .. m PROVE k \in 1 .. m + n /\ r[k] = s[k]
    BY <1>1
  <2>3. ASSUME NEW k \in 1 .. n PROVE k + m \in 1 .. m + n /\ r[k + m] = b[k]
    BY <1>1
  <2>4. ASSUME NEW k \in 1 .. m + n, r[k].file = g
        PROVE  (\E i \in 1 .. m : s[i].file = g) \/ (\E i \in 1 .. n : b[i].file = g)
    BY <2>1, <2>4
  <2>5. ASSUME NEW k \in 1 .. m, s[k].file = g PROVE \E i \in 1 .. m + n : r[i].file = g
    BY <2>2, <2>5
  <2>6. ASSUME NEW k \in 1 .. n, b[k].file = g PROVE \E i \in 1 .. m + n : r[i].file = g
    BY <2>3, <2>6
  <2> QED BY <2>4, <2>5, <2>6
<1>5. r \in Seq(Finding) /\ \A g : (\E k \in DOMAIN r : r[k].file = g)
                 <=> (\E k \in DOMAIN s : s[k].file = g) \/ (\E k \in DOMAIN b : b[k].file = g)
  BY <1>1, <1>4
<1> QED BY <1>3, <1>5 DEF r, Joined

Reported(f) == \E k \in DOMAIN findings : findings[k].file = f

Found == {f \in FileSet : \E i \in Slot : Owns(i, f)}

\* The findings are in order; a file left to the current pass has been
\* reported only if it is covered, when the pass will leave it alone.
FoundInv ==
    /\ findings \in Seq(Finding) /\ Sorted(findings)
    /\ pc # "done" => \A f : Reported(f) => f \in FileSet
    /\ pc = "feed" => findings = <<>>
    /\ pc \in {"untyped", "orphans"} => IsInjective(todo)
    /\ pc = "untyped" =>
          /\ ToSet(todo) \subseteq Found
          /\ \A f : Reported(f) => f \in Found /\ (f \in ToSet(todo) => f \in coveredFiles)
    /\ pc = "orphans" => \A f \in ToSet(todo) : ~ Reported(f)

LEMMA StaysSorted ==
    ASSUME UNCHANGED fixed
    PROVE  Found' = Found /\ Finding' = Finding /\ \A s : Sorted(s)' <=> Sorted(s)
<1>1. /\ Slot' = Slot /\ BuildNames' = BuildNames /\ tree' = tree
      /\ \A i, f : Owns(i, f)' <=> Owns(i, f)
  BY StaysFixed
<1>2. \A f, g : Before(f, g)' <=> Before(f, g)
  BY <1>1 DEF Before
<1>3. \A f : Rank(f)' = Rank(f)
  BY <1>1 DEF Rank
<1>4. \A x, y : Follows(y, x)' <=> Follows(y, x)
  BY <1>1, <1>2, <1>3 DEF Follows
<1> QED BY <1>1, <1>4 DEF Sorted, Found, Finding

\* The walk for orphans stays out of the modules.
LEMMA OrphansAreNotFound ==
    ASSUME TreeInv, NEW f \in ToSet(OrphanFiles(tree.gomods)), f \in Found
    PROVE  TopDir \in ToSet(moduleRoots)
<1>1. PICK i \in Slot : Owns(i, f)
  BY DEF Found
<1> DEFINE r == moduleRoots[i]
           d == DirOf[f]
<1>2. /\ Entered(TopDir, d, findModuleRoots(tree.gomods) \ {TopDir})
      /\ f \in FileSet
  BY OrphansAre
<1>3. r \in findModuleRoots(tree.gomods) /\ r \in DirSet /\ r \in ToSet(moduleRoots)
  BY RootsAre DEF Slot, ToSet
<1>4. IsPrefix(TopDir, r)
  BY <1>3 DEF findModuleRoots, Entered
<1>5. IsPrefix(r, d)
  BY <1>1 DEF Owns, Entered
<1>6. r # TopDir => r \in Below(TopDir, d)
  BY <1>3, <1>4, <1>5 DEF Below, DirSet
<1>7. r = TopDir
  BY <1>2, <1>3, <1>6 DEF Entered
<1> QED BY <1>3, <1>7

\* The files left to the first untyped pass: each once, of some module.
LEMMA TodoIs ==
    ASSUME FiledInv
    PROVE  /\ FlattenSeq(prescans) \in Seq(FileSet) /\ IsInjective(FlattenSeq(prescans))
           /\ \A f : f \in ToSet(FlattenSeq(prescans)) <=> \E i \in Slot : f \in ToSet(prescans[i])
           /\ ToSet(FlattenSeq(prescans)) \subseteq Found
<1>0. /\ TreeInv /\ prescans \in [Slot -> Seq(FileSet)]
      /\ \A i \in Slot : Filed(i, prescans[i])
  BY DEF FiledInv, ScanInv, ScanTypes, OwnerInv
<1>1. prescans \in Seq(Seq(FileSet)) /\ DOMAIN prescans = Slot
  BY <1>0, SlotSeq
<1>2. Concatenates(FlattenSeq(prescans), prescans, FileSet)
  BY <1>1, FlattenIs
<1>3. \A i \in Slot : IsInjective(prescans[i])
  BY <1>0, AscendingDistinct DEF Filed
<1>4. \A i, j \in Slot : i # j => ToSet(prescans[i]) \cap ToSet(prescans[j]) = {}
  BY <1>0, OwnerIs DEF Filed
<1>5. IsInjective(FlattenSeq(prescans))
  BY <1>1, <1>3, <1>4, FlattenDistinct
<1>6. FlattenSeq(prescans) \in Seq(FileSet)
      /\ \A f : f \in ToSet(FlattenSeq(prescans)) <=> \E i \in Slot : f \in ToSet(prescans[i])
  BY <1>1, <1>2 DEF Concatenates
<1>7. \A i \in Slot : \A f : f \in ToSet(prescans[i]) => f \in Found
  BY <1>0 DEF Filed, Found, Owns
<1> QED BY <1>5, <1>6, <1>7

LEMMA MergeFinds ==
    ASSUME FiledInv, FoundInv, Merge
    PROVE  FoundInv'
<1>1. /\ findings' = TypedFindings /\ todo' = FlattenSeq(prescans) /\ pc' = "untyped"
      /\ UNCHANGED <<fixed, coveredFiles>>
  BY DEF Merge, TypedFindings
<1>2. /\ Found' = Found /\ Finding' = Finding /\ \A s : Sorted(s)' <=> Sorted(s)
  BY <1>1, StaysSorted
<1>3. findings' \in Seq(Finding) /\ Sorted(findings')
  BY <1>1, TypedFindingsAre
<1>4. \A f : Reported(f)' => \E i \in Slot : f \in ToSet(perModule[i])
  BY <1>1, TypedFindingsAre DEF Reported
<1>5. \A i \in Slot : \A f : f \in ToSet(perModule[i]) => f \in Found /\ f \in coveredFiles /\ f \in FileSet
  BY DEF FiledInv, OwnerInv, Filed, Found, Owns
<1>6. \A f : Reported(f)' => f \in Found /\ f \in coveredFiles /\ f \in FileSet
  BY <1>4, <1>5
<1>7. IsInjective(todo') /\ ToSet(todo') \subseteq Found
  BY <1>1, TodoIs
<1> QED BY <1>1, <1>2, <1>3, <1>6, <1>7 DEF FoundInv

\* One file of an untyped pass, when it was not reported yet.
LEMMA ParseFinds ==
    ASSUME ScanInv, FoundInv, pc # "done", NEW f \in FileSet, ~ Reported(f), parseGoFile(f)
    PROVE  /\ findings' \in Seq(Finding) /\ Sorted(findings')
           /\ \A g : Reported(g)' => Reported(g) \/ g = f
           /\ \A g : Reported(g) => Reported(g)'
           /\ f \in readable /\ tree.kind[f] = "jwx" => Reported(f)'
<1> DEFINE r == Append(findings, [file |-> f, typed |-> FALSE])
<1>1. findings' = IF f \in readable /\ tree.kind[f] = "jwx" THEN r ELSE findings
  BY ParseDoes DEF ScanInv, ScanTypes
<1>2. /\ findings \in Seq(Finding) /\ Sorted(findings) /\ FileSet \cap BuildNames = {}
      /\ \A k \in DOMAIN findings : findings[k].file \in FileSet \ {f}
  BY JobsAre DEF ScanInv, FoundInv, Reported
<1>3. /\ r \in Seq(Finding) /\ Sorted(r)
      /\ \A g : (\E k \in DOMAIN r : r[k].file = g) <=> g = f \/ \E k \in DOMAIN findings : findings[k].file = g
  BY <1>2, UntypedFollows
<1> HIDE DEF r
<1>4. CASE findings' = r
  BY <1>3, <1>4 DEF Reported
<1>5. CASE findings' = findings /\ ~ (f \in readable /\ tree.kind[f] = "jwx")
  BY <1>2, <1>5 DEF Reported
<1> QED BY <1>1, <1>4, <1>5

LEMMA ScanFinds ==
    ASSUME ScanInv, FoundInv, ScanUncovered \/ ScanOrphan
    PROVE  FoundInv'
<1> DEFINE f == Head(todo)
<1>1. /\ todo # <<>> /\ todo' = Tail(todo) /\ pc \in {"untyped", "orphans"}
      /\ UNCHANGED <<fixed, coveredFiles>>
      /\ \/ pc = "untyped" /\ f \in coveredFiles /\ UNCHANGED <<pc, findings>>
         \/ parseGoFile(f) /\ (pc = "untyped" => f \notin coveredFiles)
  BY DEF ScanUncovered, ScanOrphan
<1>2. todo \in Seq(FileSet) /\ IsInjective(todo)
  BY <1>1 DEF ScanInv, ScanTypes, FoundInv
<1>3. /\ f \in ToSet(todo) /\ f \in FileSet
      /\ IsInjective(todo') /\ ToSet(todo') = ToSet(todo) \ {f}
  BY <1>1, <1>2, TailIs
<1>4. Found' = Found /\ Finding' = Finding /\ \A s : Sorted(s)' <=> Sorted(s)
  BY <1>1, StaysSorted
<1> HIDE DEF f
<1>5. CASE UNCHANGED <<pc, findings>>
  BY <1>1, <1>3, <1>4, <1>5 DEF FoundInv, Reported
<1>6. CASE parseGoFile(f) /\ (pc = "untyped" => f \notin coveredFiles)
  <2>1. ~ Reported(f)
    BY <1>1, <1>3, <1>6 DEF FoundInv
  <2>2. /\ findings' \in Seq(Finding) /\ Sorted(findings')
        /\ \A g : Reported(g)' => Reported(g) \/ g = f
    BY <1>1, <1>3, <1>6, <2>1, ParseFinds
  <2>3. pc' = pc \/ pc' = "done"
    BY <1>6, ParseDoes DEF ScanInv, ScanTypes
  <2>4. pc = "untyped" => f \in Found
    BY <1>3 DEF FoundInv
  <2>5. Sorted(findings)' /\ (findings \in Seq(Finding))'
    BY <1>4, <2>2
  <2>6. pc' # "done" => \A g : Reported(g)' => g \in FileSet
    BY <1>1, <1>3, <2>2, <2>3 DEF FoundInv
  <2>7. pc' = "untyped" =>
          /\ ToSet(todo') \subseteq Found'
          /\ \A g : Reported(g)' => g \in Found' /\ (g \in ToSet(todo') => g \in coveredFiles')
    BY <1>1, <1>3, <1>4, <2>2, <2>3, <2>4 DEF FoundInv
  <2>8. pc' = "orphans" => \A g \in ToSet(todo') : ~ Reported(g)'
    BY <1>1, <1>3, <2>2, <2>3 DEF FoundInv
  <2> QED BY <1>1, <1>3, <2>3, <2>5, <2>6, <2>7, <2>8 DEF FoundInv
<1> QED BY <1>1, <1>5, <1>6

LEMMA StartFinds ==
    ASSUME ScanInv, FoundInv, StartOrphans \/ EndOrphans
    PROVE  FoundInv'
<1>1. /\ pc \in {"untyped", "orphans"} /\ UNCHANGED <<fixed, findings>>
      /\ \/ pc' = "build"
         \/ /\ pc = "untyped" /\ pc' = "orphans" /\ todo' = OrphanFiles(tree.gomods)
            /\ TopDir \notin ToSet(moduleRoots)
  BY DEF StartOrphans, EndOrphans, StartBuild
<1>2. Found' = Found /\ Finding' = Finding /\ \A s : Sorted(s)' <=> Sorted(s)
  BY <1>1, StaysSorted
<1>3. CASE pc' = "build"
  BY <1>1, <1>2, <1>3 DEF FoundInv, Reported
<1>4. CASE /\ pc = "untyped" /\ pc' = "orphans" /\ todo' = OrphanFiles(tree.gomods)
           /\ TopDir \notin ToSet(moduleRoots)
  <2>1. IsInjective(todo')
    BY <1>4, OrphansAre, AscendingDistinct
  <2>2. \A f \in ToSet(todo') : f \notin Found
    BY <1>4, OrphansAreNotFound DEF ScanInv
  <2>3. \A f : Reported(f)' <=> Reported(f)
    BY <1>1 DEF Reported
  <2> QED BY <1>1, <1>2, <1>4, <2>1, <2>2, <2>3 DEF FoundInv
<1> QED BY <1>1, <1>3, <1>4

LEMMA MergeBuildFinds ==
    ASSUME ScanInv, FoundInv, MergeBuild
    PROVE  /\ FoundInv'
           /\ \A f : Reported(f)' <=> Reported(f) \/ \E i \in DOMAIN perJob : perJob[i] = <<f>>
<1>1. /\ pc = "build" /\ pc' = "done" /\ UNCHANGED fixed
      /\ findings' = findings \o BuildFindings
  BY DEF MergeBuild, BuildFindings
<1>2. Found' = Found /\ Finding' = Finding /\ \A s : Sorted(s)' <=> Sorted(s)
  BY <1>1, StaysSorted
<1>3. FileSet \cap BuildNames = {}
  BY JobsAre DEF ScanInv
<1>4. /\ findings \in Seq(Finding) /\ Sorted(findings)
      /\ \A k \in DOMAIN findings : findings[k].file \in FileSet
  BY <1>1 DEF FoundInv, Reported
<1> DEFINE r == findings \o BuildFindings
<1>5. Joined(r, findings, BuildFindings)
  <2>1. /\ BuildFindings \in Seq(Finding) /\ Sorted(BuildFindings)
        /\ \A k \in DOMAIN BuildFindings :
              BuildFindings[k].file \in BuildNames /\ BuildFindings[k].typed = FALSE
    BY BuildFindingsAre
  <2> QED BY <1>3, <1>4, <2>1, BuildFollows
<1> HIDE DEF r
<1>6. /\ r \in Seq(Finding) /\ Sorted(r)
      /\ \A g : (\E k \in DOMAIN r : r[k].file = g)
            <=> Reported(g) \/ \E i \in DOMAIN perJob : perJob[i] = <<g>>
  BY <1>5, BuildFindingsAre DEF Joined, Reported
<1>7. findings' = r
  BY <1>1 DEF r
<1> QED BY <1>1, <1>2, <1>6, <1>7 DEF FoundInv, Reported

LEMMA NextFound == FiledInv /\ FoundInv /\ [Next]_vars => FoundInv'
<1> SUFFICES ASSUME FiledInv, FoundInv, [Next]_vars PROVE FoundInv'
  OBVIOUS
<1>0. ScanInv
  BY DEF FiledInv
<1>1. CASE Merge
  BY <1>1, MergeFinds
<1>2. CASE ScanUncovered \/ ScanOrphan
  BY <1>0, <1>2, ScanFinds
<1>3. CASE StartOrphans \/ EndOrphans
  BY <1>0, <1>3, StartFinds
<1>4. CASE MergeBuild
  BY <1>0, <1>4, MergeBuildFinds
<1>5. ASSUME (\E w \in Worker : WorkerStep(w)) \/ Vanish \/ UNCHANGED vars
      PROVE  FoundInv'
  <2>1. UNCHANGED <<fixed, main>>
    BY <1>5 DEF WorkerStep, Take, prescanModule, Load, ScanLoaded, Acquire, Release, TakeBuild,
                scanFile, Vanish, vars, fixed, main
  <2>2. coveredFiles \subseteq coveredFiles'
    BY NextFiled
  <2>3. Found' = Found /\ Finding' = Finding /\ \A s : Sorted(s)' <=> Sorted(s)
    BY <2>1, StaysSorted
  <2>4. UNCHANGED <<pc, todo, findings>>
    BY <2>1 DEF main
  <2> QED BY <2>2, <2>3, <2>4 DEF FoundInv, Reported
<1> QED BY <1>1, <1>2, <1>3, <1>4, <1>5 DEF Next, MainStep, Finished

LEMMA SpecFound == Spec => [](FiledInv /\ FoundInv)
<1>1. Init => FoundInv
  <2> SUFFICES ASSUME Init PROVE FoundInv
    OBVIOUS
  <2>1. findings = <<>> /\ pc = "feed"
    BY DEF Init
  <2>2. <<>> \in Seq(Finding) /\ DOMAIN <<>> = {}
    OBVIOUS
  <2> QED BY <2>1, <2>2 DEF FoundInv, Sorted, Reported
<1>2. FoundInv /\ FiledInv /\ [Next]_vars => FoundInv'
  BY NextFound
<1> QED BY SpecFiled, <1>1, <1>2, PTL DEF Spec

\* Types, exclusive jobs, the mutex, and slots that hold their own files.
THEOREM TypeCorrect == Spec => []TypeOK
<1>1. ASSUME FiledInv, FoundInv PROVE TypeOK
  <2>0. ScanInv
    BY <1>1 DEF FiledInv
  <2>1. \A w \in Worker : worker[w].at \in Scanning \cup {"idle", "scanFile"}
    BY <2>0 DEF ScanInv, ScanTypes, Goroutine, Scanning
  <2>2. pc \notin {"feed", "build"} => \A w \in Worker : worker[w].at = "idle"
    BY <2>0, <2>1 DEF ScanInv, JobInv
  <2>3. next \in 1 .. 1 + Len(moduleRoots) + Len(BuildJobs)
    BY <2>0, FixedCounts DEF ScanInv, JobInv
  <2>4. \A i \in DOMAIN perJob : ToSet(perJob[i]) \subseteq {BuildJobs[i].name}
    <3> TAKE i \in DOMAIN perJob
    <3>1. perJob[i] = <<>> \/ perJob[i] = <<BuildJobs[i].name>>
      BY <2>0 DEF ScanInv, BuildInv
    <3> DEFINE name == BuildJobs[i].name
    <3>2. DOMAIN <<>> = {} /\ DOMAIN <<name>> = {1} /\ <<name>>[1] = name
      OBVIOUS
    <3> QED BY <3>1, <3>2 DEF ToSet
  <2>5. findings \in Seq(Finding)
    BY <1>1 DEF FoundInv
  <2>6. \A v, w \in Worker :
           v # w /\ "idle" \notin {worker[v].at, worker[w].at} => worker[v].job # worker[w].job
    BY <2>0 DEF ScanInv, JobInv
  <2>7. \A w \in Worker : worker[w].at = "unlock" <=> mu = w
    BY <2>0 DEF ScanInv, JobInv
  <2> QED BY <2>0, <2>2, <2>3, <2>4, <2>5, <2>6, <2>7 DEF ScanInv, ScanTypes, TypeOK
<1>2. FiledInv /\ FoundInv => TypeOK
  BY <1>1
<1> QED BY SpecFound, <1>2, PTL

\* "output order stays deterministic" (ast_scanner.go:332): the slots make the
\* order of the findings that of the walk, whichever goroutine finishes first.
THEOREM OrderIsOfWalk == Spec => []OutputOrder
<1>1. ASSUME FiledInv, FoundInv PROVE OutputOrder
  <2>0. TreeInv /\ Sorted(findings)
    BY <1>1 DEF FiledInv, ScanInv, FoundInv
  <2>1. ASSUME NEW f, NEW g, Before(f, g)
        PROVE  \E m, n \in Slot :
                  /\ ModuleOf(DirOf[f], tree.gomods) = moduleRoots[m]
                  /\ ModuleOf(DirOf[g], tree.gomods) = moduleRoots[n]
                  /\ m < n \/ (m = n /\ Rank(f) < Rank(g))
    <3>1. PICK m \in Slot, n \in Slot :
             Owns(m, f) /\ Owns(n, g) /\ (m < n \/ (m = n /\ Place(f) < Place(g)))
      BY <2>1 DEF Before
    <3>2. Rank(f) = Place(f) /\ Rank(g) = Place(g)
      BY <3>1 DEF Owns, Rank, Place
    <3>3. ModuleOf(DirOf[f], tree.gomods) = moduleRoots[m] /\ ModuleOf(DirOf[g], tree.gomods) = moduleRoots[n]
      BY <2>0, <3>1, OwnerIs
    <3> QED BY <3>1, <3>2, <3>3
  <2>2. ASSUME NEW i \in DOMAIN findings, NEW j \in DOMAIN findings, i < j
        PROVE  /\ findings[j].typed => findings[i].typed /\ Before(findings[i].file, findings[j].file)
               /\ findings[i].file \in BuildNames =>
                     /\ findings[j].file \in BuildNames
                     /\ Rank(findings[i].file) < Rank(findings[j].file)
    BY <2>0, <2>2 DEF Sorted, Follows
  <2> QED BY <2>1, <2>2 DEF OutputOrder
<1>2. FiledInv /\ FoundInv => OutputOrder
  BY <1>1
<1> QED BY SpecFound, <1>2, PTL

-----------------------------------------------------------------------------
(* Nothing in scope is left out *)

\* A file below some module found belongs to one that was found.
LEMMA InScopeFound ==
    ASSUME TreeInv, NEW f \in FileSet, InScope(f),
           NEW r \in findModuleRoots(tree.gomods), IsPrefix(r, DirOf[f])
    PROVE  f \in Found
<1> DEFINE d == DirOf[f]
           gomods == tree.gomods
           E == Enclosing(d, gomods)
<1>1. /\ DirSet \subseteq Seq(STRING) /\ d \in DirSet /\ TopDir \in DirSet /\ gomods \subseteq DirSet
      /\ r \in gomods
  BY DirSetIs, RootsAre, TreeAssumption DEF FileSet, DirSet, findModuleRoots
<1>2. r \in E /\ E \subseteq gomods /\ \A e \in E : IsPrefix(e, d)
  BY <1>1 DEF Enclosing
<1>3. /\ ~ shouldSkipWalkDir(TopDir) /\ IsPrefix(TopDir, r)
      /\ IsPrefix(TopDir, d)
      /\ \A e \in Below(TopDir, d) : ~ shouldSkipWalkDir(e)
  BY DEF InScope, findModuleRoots, Entered
<1> HIDE DEF d, gomods, E
<1>4. PICK m \in E : \A o \in E : IsPrefix(o, m)
  <2> DEFINE L == {Len(d) - Len(e) : e \in E}
  <2>1. \A e \in E : Len(e) \in Nat /\ Len(d) \in Nat /\ Len(e) <= Len(d)
    BY <1>1, <1>2, PrefixElements
  <2>2. L \subseteq Nat /\ L # {}
    BY <1>2, <2>1
  <2>3. PICK l \in L : \A k \in L : ~ (k < l)
    <3> HIDE DEF L
    <3> QED BY <2>2, LeastExists
  <2>4. PICK m \in E : l = Len(d) - Len(m)
    BY <2>3
  <2>5. \A o \in E : Len(o) <= Len(m)
    <3> TAKE o \in E
    <3>1. ~ (Len(d) - Len(o) < Len(d) - Len(m))
      BY <2>3, <2>4
    <3> QED BY <2>1, <3>1
  <2>6. \A o \in E : IsPrefix(o, m)
    <3> TAKE o \in E
    <3>1. o \in Seq(STRING) /\ m \in Seq(STRING) /\ d \in Seq(STRING) /\ IsPrefix(o, d) /\ IsPrefix(m, d)
      BY <1>1, <1>2
    <3>2. IsPrefix(o, m) \/ IsPrefix(m, o)
      BY <3>1, PrefixOrder
    <3>3. CASE IsPrefix(m, o)
      <4>1. Len(m) <= Len(o) /\ \A i \in 1 .. Len(m) : m[i] = o[i]
        BY <3>1, <3>3, PrefixElements
      <4>2. Len(o) <= Len(m) /\ \A i \in 1 .. Len(o) : o[i] = m[i]
        BY <2>1, <2>5, <4>1
      <4> QED BY <3>1, <4>2, PrefixElements
    <3> QED BY <3>2, <3>3
  <2> QED BY <2>6
<1>5. /\ m \in gomods /\ m \in Seq(STRING) /\ d \in Seq(STRING) /\ TopDir \in Seq(STRING)
      /\ r \in Seq(STRING) /\ IsPrefix(m, d) /\ IsPrefix(r, m)
  BY <1>1, <1>2, <1>4
<1>6. IsPrefix(TopDir, m)
  BY <1>3, <1>5, PrefixOrder
<1>7. m \in findModuleRoots(gomods)
  <2>1. ASSUME NEW e \in Below(TopDir, m) PROVE ~ shouldSkipWalkDir(e)
    <3>1. e \in DirSet /\ IsPrefix(TopDir, e) /\ e # TopDir /\ IsPrefix(e, m)
      BY DEF Below, DirSet
    <3>2. IsPrefix(e, d)
      BY <1>1, <1>5, <3>1, PrefixOrder
    <3> QED BY <1>3, <3>1, <3>2 DEF Below, DirSet
  <2> QED BY <1>3, <1>5, <1>6, <2>1 DEF findModuleRoots, Entered
<1>8. ASSUME NEW e \in Below(m, d) PROVE ~ shouldSkipWalkDir(e) /\ e \notin gomods
  <2>1. e \in DirSet /\ e \in Seq(STRING) /\ IsPrefix(m, e) /\ e # m /\ IsPrefix(e, d)
    BY <1>1 DEF Below, DirSet
  <2>2. IsPrefix(TopDir, e) /\ e # TopDir
    BY <1>5, <1>6, <2>1, PrefixOrder
  <2>3. ~ shouldSkipWalkDir(e)
    BY <1>3, <2>1, <2>2 DEF Below, DirSet
  <2>4. CASE e \in gomods
    <3>1. e \in E
      BY <2>1, <2>4 DEF E, Enclosing
    <3>2. IsPrefix(e, m)
      BY <1>4, <3>1
    <3> QED BY <1>5, <2>1, <3>2, PrefixOrder
  <2> QED BY <2>3, <2>4
<1>9. Entered(m, d, gomods)
  BY <1>5, <1>8 DEF Entered
<1>10. PICK i \in Slot : moduleRoots[i] = m
  BY <1>7, RootsAre DEF Slot, ToSet, gomods
<1>11. Owns(i, f)
  BY <1>9, <1>10 DEF Owns, d, gomods
<1> QED BY <1>11 DEF Found

\* What the two passes scan is all that is in scope, when the directory the
\* tool is run on is not itself one the filter leaves out.
LEMMA InScopeIs ==
    ASSUME TreeInv, ~ shouldSkipWalkDir(TopDir), NEW f \in FileSet, InScope(f)
    PROVE  /\ f \in Found \/ f \in ToSet(OrphanFiles(tree.gomods))
           /\ TopDir \in ToSet(moduleRoots) => f \in Found
<1> DEFINE roots == findModuleRoots(tree.gomods)
<1>1. ToSet(moduleRoots) = roots
  BY RootsAre
<1>2. CASE \E r \in roots : IsPrefix(r, DirOf[f])
  BY <1>2, InScopeFound
<1>3. CASE ~ \E r \in roots : IsPrefix(r, DirOf[f])
  <2>1. IsPrefix(TopDir, DirOf[f]) /\ \A e \in Below(TopDir, DirOf[f]) : ~ shouldSkipWalkDir(e)
    BY DEF InScope
  <2>2. \A e \in Below(TopDir, DirOf[f]) : e \notin roots
    BY <1>3 DEF Below
  <2>3. Entered(TopDir, DirOf[f], roots \ {TopDir})
    <3> HIDE DEF roots
    <3> QED BY <2>1, <2>2 DEF Entered
  <2>4. f \in ToSet(OrphanFiles(tree.gomods))
    BY <2>3, OrphansAre
  <2>5. TopDir \notin roots
    BY <1>3, <2>1
  <2> QED BY <1>1, <2>4, <2>5
<1> QED BY <1>2, <1>3

\* Every build file in scope that a rule is for is a job of the second pool.
LEMMA BuildJobsCover ==
    ASSUME TreeInv, NEW b \in ToSet(tree.build), b.matches, InBuildScope(b)
    PROVE  \E i \in DOMAIN BuildJobs : BuildJobs[i] = b
<1> DEFINE B == ToSet(tree.build)
           K == {c \in B : /\ c.matches /\ IsPrefix(TopDir, c.dir)
                           /\ \A d \in Below(TopDir, c.dir) : Last(d) \notin PrunedName}
<1>1. tree.build \in Seq(B) /\ b.dir \in ToSet(Dir)
  <2> DEFINE R == [name : STRING, dir : ToSet(Dir), matches : BOOLEAN]
             s == tree.build
  <2>1. s \in Seq(R)
    BY TreesAssumption DEF TreeInv
  <2> HIDE DEF R, s
  <2>2. s \in Seq(ToSet(s)) /\ \A c \in ToSet(s) : c \in R
    BY <2>1 DEF ToSet
  <2>3. b \in R
    BY <2>2 DEF s
  <2>4. b.dir \in ToSet(Dir)
    BY <2>3 DEF R
  <2> QED BY <2>2, <2>4 DEF s
<1>2. b.dir \in DirSet /\ DirSet \subseteq Seq(STRING) /\ TopDir \in Seq(STRING)
  <2>1. b.dir \in DirSet
    BY <1>1 DEF DirSet
  <2> QED BY <2>1, DirSetIs, TreeAssumption DEF DirSet
<1>3. IsPrefix(TopDir, b.dir) /\ \A i \in DOMAIN b.dir : i > Len(TopDir) => b.dir[i] \notin PrunedName
  BY DEF InBuildScope
<1>4. ASSUME NEW d \in Below(TopDir, b.dir) PROVE Last(d) \notin PrunedName
  <2>1. d \in Seq(STRING) /\ b.dir \in Seq(STRING) /\ IsPrefix(TopDir, d) /\ d # TopDir /\ IsPrefix(d, b.dir)
    BY <1>2 DEF Below, DirSet
  <2>2. /\ Len(TopDir) <= Len(d) /\ \A i \in 1 .. Len(TopDir) : TopDir[i] = d[i]
        /\ Len(d) <= Len(b.dir) /\ \A i \in 1 .. Len(d) : d[i] = b.dir[i]
    BY <1>2, <2>1, PrefixElements
  <2>3. Len(TopDir) \in Nat /\ Len(d) \in Nat /\ Len(b.dir) \in Nat /\ DOMAIN b.dir = 1 .. Len(b.dir)
    BY <1>2, <2>1
  <2>4. Len(TopDir) # Len(d)
    <3>1. /\ TopDir = [i \in 1 .. Len(TopDir) |-> TopDir[i]]
          /\ d = [i \in 1 .. Len(d) |-> d[i]]
      BY <1>2, <2>1
    <3> QED BY <2>1, <2>2, <3>1
  <2>5. Len(d) \in 1 .. Len(d) /\ Len(d) \in DOMAIN b.dir /\ Len(d) > Len(TopDir)
    BY <2>2, <2>3, <2>4
  <2> QED BY <1>3, <2>2, <2>5 DEF Last
<1>5. b \in K
  BY <1>3, <1>4
<1> HIDE DEF B, K
<1>6. Selects(Among(tree.build, K), tree.build, K, B)
  BY <1>1, AmongIs
<1>7. BuildJobs = Among(tree.build, K)
  BY DEF BuildJobs, K, B
<1>8. b \in ToSet(BuildJobs)
  BY <1>5, <1>6, <1>7 DEF Selects
<1> QED BY <1>8 DEF ToSet

Wanted(f) == f \in readable /\ f \in FileSet /\ tree.kind[f] = "jwx"

\* A module that was prescanned has all its files, a covered file is in some
\* slot, and an active goroutine has not filled its slot yet.
SlotsInv ==
    pc = "feed" =>
    /\ \A i \in Slot :
          i < next /\ (\A w \in Worker : ~ (worker[w].at = "prescan" /\ worker[w].job = i)) =>
             \A f : Owns(i, f) /\ Wanted(f) => f \in ToSet(prescans[i])
    /\ \A i \in Slot : i >= next => perModule[i] = <<>>
    /\ \A w \in Worker : worker[w].at \in Scanning => perModule[worker[w].job] = <<>>
    /\ \A f \in coveredFiles : Wanted(f) => \E i \in Slot : f \in ToSet(perModule[i])
    /\ \A w \in Worker : worker[w].at \in {"lock", "unlock"} =>
          \A f \in ToSet(worker[w].loaded) : Wanted(f) => f \in ToSet(worker[w].found)

\* The passes leave nothing out.
PassInv ==
    /\ failed => pc = "done"
    /\ pc = "untyped" => \A f \in Found :
          Wanted(f) => Reported(f) \/ (f \in ToSet(todo) /\ f \notin coveredFiles)
    /\ pc = "orphans" =>
          /\ \A f \in Found : Wanted(f) => Reported(f)
          /\ \A f \in ToSet(OrphanFiles(tree.gomods)) : Wanted(f) => Reported(f) \/ f \in ToSet(todo)
    /\ pc \in {"build", "done"} /\ ~ failed => \A f \in FileSet : InScope(f) /\ Wanted(f) => Reported(f)

\* Nor does the second pool.
PoolInv ==
    /\ pc = "build" => \A i \in DOMAIN BuildJobs :
          /\ i < next
          /\ \A w \in Worker : ~ (worker[w].at = "scanFile" /\ worker[w].job = i)
          /\ BuildJobs[i].name \in readable
          => perJob[i] = <<BuildJobs[i].name>>
    /\ pc = "done" /\ ~ failed => \A i \in DOMAIN BuildJobs :
          BuildJobs[i].name \in readable => Reported(BuildJobs[i].name)

SeenInv == SlotsInv /\ PassInv /\ PoolInv

LEMMA StaysWanted ==
    ASSUME UNCHANGED fixed, readable' \subseteq readable
    PROVE  \A f : Wanted(f)' => Wanted(f)
  BY StaysFixed DEF Wanted

LEMMA WorkerSees ==
    ASSUME FiledInv, SlotsInv, NEW w \in Worker, WorkerStep(w)
    PROVE  SlotsInv'
<1> SUFFICES ASSUME pc' = "feed" PROVE SlotsInv'
  BY DEF SlotsInv
<1> DEFINE j == worker[w].job
<1>0. /\ worker \in [Worker -> Goroutine] /\ next \in Nat /\ coveredFiles \subseteq FileSet
      /\ prescans \in [Slot -> Seq(FileSet)] /\ perModule \in [Slot -> Seq(FileSet)]
  BY DEF FiledInv, ScanInv, ScanTypes, JobInv
<1>1. UNCHANGED <<fixed, readable, main>>
  BY DEF WorkerStep, Take, prescanModule, Load, ScanLoaded, Acquire, Release, TakeBuild, scanFile, fixed
<1>2. /\ UNCHANGED <<Slot, readable, pc, tree>> /\ pc = "feed"
      /\ \A i, f : Owns(i, f)' <=> Owns(i, f)
  BY <1>1, StaysFixed DEF main
<1>3. \A f : Wanted(f)' <=> Wanted(f)
  BY <1>2 DEF Wanted
<1>4. Slot \subseteq Nat
  BY FixedCounts DEF FiledInv, ScanInv
<1>5. worker[w].at \in Scanning => j \in Slot /\ j < next
  BY DEF FiledInv, ScanInv, JobInv
<1>6. \A v \in Worker :
         v # w /\ worker[v].at \in Scanning /\ worker[w].at \in Scanning => worker[v].job # j
  BY DEF FiledInv, ScanInv, JobInv, Scanning
<1>13. \A i \in Slot :
           i < next /\ (\A v \in Worker : ~ (worker[v].at = "prescan" /\ worker[v].job = i)) =>
              \A f : Owns(i, f) /\ Wanted(f) => f \in ToSet(prescans[i])
  BY <1>2 DEF SlotsInv
<1>14. \A i \in Slot : i >= next => perModule[i] = <<>>
  BY <1>2 DEF SlotsInv
<1>15. \A v \in Worker : worker[v].at \in Scanning => perModule[worker[v].job] = <<>>
  BY <1>2 DEF SlotsInv
<1>16. \A f \in coveredFiles : Wanted(f) => \E i \in Slot : f \in ToSet(perModule[i])
  BY <1>2 DEF SlotsInv
<1>17. \A v \in Worker : worker[v].at \in {"lock", "unlock"} =>
          \A f \in ToSet(worker[v].loaded) : Wanted(f) => f \in ToSet(worker[v].found)
  BY <1>2 DEF SlotsInv
<1>7. CASE Take(w)
  <2>1. /\ Moves(w) /\ next' = next + 1 /\ next <= Len(moduleRoots)
        /\ worker'[w].at = "prescan" /\ worker'[w].job = next /\ worker[w].at = "idle"
        /\ UNCHANGED <<coveredFiles, prescans, perModule>>
    BY <1>0, <1>7, TakeDoes DEF slots
  <2>2. \A i \in Slot : (i < next' => i < next \/ i = next) /\ (i >= next' => i >= next)
    BY <1>0, <1>4, <2>1
  <2>3. next \in Slot /\ next >= next
    BY <1>0, <2>1, FixedCounts DEF FiledInv, ScanInv, JobInv
  <2>4. \A i \in Slot :
           i < next' /\ (\A v \in Worker : ~ (worker'[v].at = "prescan" /\ worker'[v].job = i)) =>
              i < next /\ (\A v \in Worker : ~ (worker[v].at = "prescan" /\ worker[v].job = i))
    BY <2>1, <2>2 DEF Moves
  <2>5. \A v \in Worker : worker'[v].at \in Scanning => perModule[worker'[v].job] = <<>>
    BY <1>14, <1>15, <2>1, <2>3 DEF Moves
  <2>6. \A v \in Worker : worker'[v].at \in {"lock", "unlock"} => worker'[v] = worker[v]
    BY <2>1 DEF Moves
  <2> QED BY <1>2, <1>3, <1>13, <1>14, <1>15, <1>16, <1>17, <2>1, <2>2, <2>4, <2>5, <2>6 DEF SlotsInv
<1>8. CASE prescanModule(w)
  <2>1. /\ Moves(w) /\ worker[w].at = "prescan" /\ worker'[w].at \in {"idle", "load"}
        /\ worker'[w].job = j /\ prescans' = [prescans EXCEPT ![j] = V3Files(j)]
        /\ UNCHANGED <<next, coveredFiles, perModule>>
    BY <1>0, <1>8, prescanModuleDoes
  <2>2. j \in Slot
    BY <1>5, <2>1 DEF Scanning
  <2>3. prescans'[j] = V3Files(j) /\ \A i \in Slot : i # j => prescans'[i] = prescans[i]
    BY <1>0, <2>1, <2>2
  <2>4. \A f : Owns(j, f) /\ Wanted(f) => f \in ToSet(V3Files(j))
    BY <2>2, V3FilesAre DEF Wanted
  <2> HIDE DEF j
  <2>5. \A i \in Slot :
           i < next /\ (\A v \in Worker : ~ (worker'[v].at = "prescan" /\ worker'[v].job = i)) =>
              \A f : Owns(i, f) /\ Wanted(f) => f \in ToSet(prescans'[i])
    <3> SUFFICES ASSUME NEW i \in Slot, i < next,
                        \A v \in Worker : ~ (worker'[v].at = "prescan" /\ worker'[v].job = i)
                 PROVE  \A f : Owns(i, f) /\ Wanted(f) => f \in ToSet(prescans'[i])
      OBVIOUS
    <3>1. CASE i = j
      BY <2>3, <2>4, <3>1
    <3>2. CASE i # j
      <4>1. \A v \in Worker : ~ (worker[v].at = "prescan" /\ worker[v].job = i)
        BY <2>1, <3>2 DEF Moves, j
      <4> QED BY <1>13, <2>3, <3>2, <4>1
    <3> QED BY <3>1, <3>2
  <2>6. \A v \in Worker :
           /\ worker'[v].at \in Scanning => worker[v].at \in Scanning /\ worker'[v].job = worker[v].job
           /\ worker'[v].at \in {"lock", "unlock"} => worker'[v] = worker[v]
    BY <2>1 DEF Moves, Scanning, j
  <2> QED BY <1>2, <1>3, <1>14, <1>15, <1>16, <1>17, <2>1, <2>5, <2>6 DEF SlotsInv
<1>9. CASE Load(w) \/ Acquire(w)
  <2>1. /\ Moves(w) /\ worker[w].at \in {"load", "lock"} /\ worker'[w].at \in {"idle", "scan", "unlock"}
        /\ worker'[w].job = j
        /\ worker'[w].at = "unlock" =>
              worker[w].at = "lock" /\ worker'[w].loaded = worker[w].loaded /\ worker'[w].found = worker[w].found
        /\ UNCHANGED <<next, coveredFiles, prescans, perModule>>
    BY <1>0, <1>9, LoadDoes, AcquireDoes DEF slots
  <2>2. \A v \in Worker :
           /\ worker'[v].at = "prescan" <=> worker[v].at = "prescan"
           /\ worker'[v].job = worker[v].job
           /\ worker'[v].at \in Scanning => worker[v].at \in Scanning
           /\ worker'[v].at \in {"lock", "unlock"} =>
                 /\ worker[v].at \in {"lock", "unlock"}
                 /\ worker'[v].loaded = worker[v].loaded /\ worker'[v].found = worker[v].found
    BY <2>1 DEF Moves, Scanning
  <2> QED BY <1>2, <1>3, <1>13, <1>14, <1>15, <1>16, <1>17, <2>1, <2>2 DEF SlotsInv
<1>10. CASE ScanLoaded(w)
  <2> DEFINE K == {f \in readable \cap FileSet : tree.kind[f] \in {"jwx", "body"}}
             files == worker[w].loaded
             found == worker'[w].found
  <2>1. /\ Moves(w) /\ worker[w].at = "scan" /\ worker'[w].at = "lock" /\ worker'[w].job = j
        /\ worker'[w].loaded = files /\ found = Among(files, K)
        /\ UNCHANGED <<next, coveredFiles, prescans, perModule>>
    BY <1>0, <1>10, ScanLoadedDoes DEF slots
  <2>2. files \in Seq(FileSet) /\ Ascending(files)
    BY <2>1 DEF FiledInv, OwnerInv, Filed
  <2>3. \A f : Wanted(f) => f \in K
    BY DEF Wanted
  <2> HIDE DEF K, files, found
  <2>4. \A f \in ToSet(files) : Wanted(f) => f \in ToSet(found)
    BY <2>1, <2>2, <2>3, AmongAscending
  <2>5. \A v \in Worker :
           /\ worker'[v].at = "prescan" <=> worker[v].at = "prescan"
           /\ worker'[v].job = worker[v].job
           /\ worker'[v].at \in Scanning => worker[v].at \in Scanning
    BY <2>1 DEF Moves, Scanning
  <2>6. \A v \in Worker : worker'[v].at \in {"lock", "unlock"} =>
           \A f \in ToSet(worker'[v].loaded) : Wanted(f) => f \in ToSet(worker'[v].found)
    BY <1>17, <2>1, <2>4 DEF Moves, found
  <2> QED BY <1>2, <1>3, <1>13, <1>14, <1>15, <1>16, <2>1, <2>5, <2>6 DEF SlotsInv
<1>11. CASE Release(w)
  <2> DEFINE files == worker[w].loaded
             found == worker[w].found
  <2>1. /\ Moves(w) /\ worker[w].at = "unlock" /\ worker'[w].at = "idle"
        /\ coveredFiles' = worker[w].view \cup ToSet(files)
        /\ perModule' = [perModule EXCEPT ![j] = found]
        /\ UNCHANGED <<next, prescans>>
    BY <1>0, <1>11, ReleaseDoes
  <2>2. coveredFiles' = coveredFiles \cup ToSet(files)
    BY <2>1 DEF FiledInv, ViewInv
  <2>3. j \in Slot /\ j < next /\ perModule[j] = <<>>
        /\ \A f \in ToSet(files) : Wanted(f) => f \in ToSet(found)
    BY <1>5, <1>15, <1>17, <2>1 DEF Scanning
  <2>4. \A v \in Worker :
           /\ worker'[v].at = "prescan" <=> worker[v].at = "prescan"
           /\ worker'[v].at # "idle" => worker'[v] = worker[v]
           /\ worker'[v].at \in Scanning => worker[v].at \in Scanning /\ worker[v].job # j
    BY <1>6, <2>1 DEF Moves, Scanning
  <2> HIDE DEF j, files, found
  <2>5. perModule'[j] = found /\ \A i \in Slot : i # j => perModule'[i] = perModule[i]
    BY <1>0, <2>1, <2>3
  <2>6. \A f \in coveredFiles' : Wanted(f) => \E i \in Slot : f \in ToSet(perModule'[i])
    <3> SUFFICES ASSUME NEW f \in coveredFiles', Wanted(f)
                 PROVE  \E i \in Slot : f \in ToSet(perModule'[i])
      OBVIOUS
    <3>1. CASE f \in ToSet(files)
      BY <2>3, <2>5, <3>1
    <3>2. CASE f \in coveredFiles
      <4>1. PICK i \in Slot : f \in ToSet(perModule[i])
        BY <1>16, <3>2
      <4>2. i # j
        <5>1. ToSet(<<>>) = {}
          BY DEF ToSet
        <5> QED BY <2>3, <4>1, <5>1
      <4> QED BY <2>5, <4>1, <4>2
    <3> QED BY <2>2, <3>1, <3>2
  <2>7. \A i \in Slot : i >= next => perModule'[i] = <<>>
    <3>1. \A i \in Slot : i >= next => i # j
      BY <1>0, <1>4, <2>3
    <3> QED BY <1>14, <2>5, <3>1
  <2>8. \A v \in Worker : worker'[v].at \in Scanning => perModule'[worker'[v].job] = <<>>
    <3> TAKE v \in Worker
    <3> HAVE worker'[v].at \in Scanning
    <3>1. worker'[v] = worker[v] /\ worker[v].at \in Scanning /\ worker[v].job # j
      BY <2>4 DEF Scanning
    <3>2. worker[v].job \in Slot
      BY <3>1 DEF FiledInv, ScanInv, JobInv
    <3> QED BY <1>15, <2>5, <3>1, <3>2
  <2>9. \A i : (\A v \in Worker : ~ (worker'[v].at = "prescan" /\ worker'[v].job = i)) =>
                \A v \in Worker : ~ (worker[v].at = "prescan" /\ worker[v].job = i)
    BY <2>4
  <2>10. \A v \in Worker : worker'[v].at \in {"lock", "unlock"} => worker'[v] = worker[v]
    BY <2>4
  <2> QED BY <1>2, <1>3, <1>13, <1>17, <2>1, <2>6, <2>7, <2>8, <2>9, <2>10 DEF SlotsInv
<1>12. CASE TakeBuild(w) \/ scanFile(w)
  <2>1. pc = "build"
    BY <1>12 DEF TakeBuild, scanFile, FiledInv, ScanInv, JobInv
  <2> QED BY <1>2, <2>1
<1> QED BY <1>7, <1>8, <1>9, <1>10, <1>11, <1>12 DEF WorkerStep

LEMMA MainSlots ==
    ASSUME FiledInv, SlotsInv, MainStep \/ Vanish \/ UNCHANGED vars
    PROVE  SlotsInv'
<1>1. CASE MainStep
  BY <1>1, MainKeepsScan DEF SlotsInv, MainStep, Merge, ScanUncovered, StartOrphans, ScanOrphan,
     EndOrphans, MergeBuild, parseGoFile, StartBuild
<1>2. CASE Vanish \/ UNCHANGED vars
  <2>1. /\ UNCHANGED <<fixed, pc, next, worker, coveredFiles, prescans, perModule>>
        /\ readable' \subseteq readable
    BY <1>2 DEF Vanish, vars, fixed, slots, main
  <2>2. /\ Slot' = Slot /\ \A i, f : Owns(i, f)' <=> Owns(i, f)
        /\ \A f : Wanted(f)' => Wanted(f)
    BY <2>1, StaysFixed, StaysWanted
  <2> QED BY <2>1, <2>2 DEF SlotsInv
<1> QED BY <1>1, <1>2

LEMMA MergePasses ==
    ASSUME FiledInv, SlotsInv, PassInv, Merge
    PROVE  PassInv'
<1>1. /\ findings' = TypedFindings /\ todo' = FlattenSeq(prescans) /\ pc = "feed" /\ pc' = "untyped"
      /\ next > Len(moduleRoots) /\ \A w \in Worker : worker[w].at = "idle"
      /\ UNCHANGED <<fixed, coveredFiles, readable, failed>>
  BY DEF Merge, TypedFindings
<1>2. Found' = Found /\ \A f : Wanted(f)' => Wanted(f)
  BY <1>1, StaysSorted, StaysWanted
<1>3. \A i \in Slot : i < next
  BY <1>1, FixedCounts DEF FiledInv, ScanInv, JobInv
<1>4. \A f \in Found : Wanted(f) => f \in ToSet(todo')
  <2> SUFFICES ASSUME NEW f \in Found, Wanted(f) PROVE f \in ToSet(todo')
    OBVIOUS
  <2>1. PICK i \in Slot : Owns(i, f)
    BY DEF Found
  <2>2. f \in ToSet(prescans[i])
    BY <1>1, <1>3, <2>1 DEF SlotsInv
  <2> QED BY <1>1, <2>2, TodoIs
<1>5. \A f \in coveredFiles : Wanted(f) => Reported(f)'
  <2> SUFFICES ASSUME NEW f \in coveredFiles, Wanted(f) PROVE Reported(f)'
    OBVIOUS
  <2>1. \E i \in Slot : f \in ToSet(perModule[i])
    BY <1>1 DEF SlotsInv
  <2> QED BY <1>1, <2>1, TypedFindingsAre DEF Reported
<1>6. ~ failed'
  BY <1>1 DEF PassInv
<1> QED BY <1>1, <1>2, <1>4, <1>5, <1>6 DEF PassInv

LEMMA ParsePasses ==
    ASSUME ScanInv, FoundInv, PassInv, pc \in {"untyped", "orphans"},
           NEW f \in FileSet, ~ Reported(f), parseGoFile(f),
           UNCHANGED <<fixed, coveredFiles, readable>>, ToSet(todo') = ToSet(todo) \ {f}
    PROVE  PassInv'
<1>1. pc # "done"
  OBVIOUS
<1>2. /\ \A g : Reported(g) => Reported(g)'
      /\ f \in readable /\ tree.kind[f] = "jwx" => Reported(f)'
  BY <1>1, ParseFinds
<1>3. Wanted(f) => Reported(f)'
  BY <1>2 DEF Wanted
<1>4. \A g : Wanted(g)' => Wanted(g)
  BY StaysWanted
<1>5. ~ failed
  BY <1>1 DEF PassInv
<1>6. /\ failed' <=> pc' = "done"
      /\ pc' = pc \/ pc' = "done"
  BY <1>1, <1>5 DEF parseGoFile
<1>7. pc' = "untyped" => \A g \in Found' :
         Wanted(g)' => Reported(g)' \/ (g \in ToSet(todo') /\ g \notin coveredFiles')
  <2>1. Found' = Found
    BY StaysSorted
  <2>2. pc = "untyped" => \A g \in Found :
           Wanted(g) => Reported(g) \/ (g \in ToSet(todo) /\ g \notin coveredFiles)
    BY DEF PassInv
  <2> QED BY ONLY <1>2, <1>3, <1>4, <1>6, <2>1, <2>2, ToSet(todo') = ToSet(todo) \ {f},
                  coveredFiles' = coveredFiles, pc \in {"untyped", "orphans"}
<1>8. pc' = "orphans" =>
         /\ \A g \in Found' : Wanted(g)' => Reported(g)'
         /\ \A g \in ToSet(OrphanFiles(tree.gomods))' :
               Wanted(g)' => Reported(g)' \/ g \in ToSet(todo')
  <2>1. Found' = Found /\ ToSet(OrphanFiles(tree.gomods))' = ToSet(OrphanFiles(tree.gomods))
    BY StaysSorted, StaysFixed
  <2>2. pc = "orphans" =>
           /\ \A g \in Found : Wanted(g) => Reported(g)
           /\ \A g \in ToSet(OrphanFiles(tree.gomods)) : Wanted(g) => Reported(g) \/ g \in ToSet(todo)
    BY DEF PassInv
  <2> QED BY ONLY <1>2, <1>3, <1>4, <1>6, <2>1, <2>2, ToSet(todo') = ToSet(todo) \ {f},
                  pc \in {"untyped", "orphans"}
<1> QED BY <1>1, <1>6, <1>7, <1>8 DEF PassInv

LEMMA ScanPasses ==
    ASSUME ScanInv, FoundInv, PassInv, ScanUncovered \/ ScanOrphan
    PROVE  PassInv'
<1> DEFINE f == Head(todo)
<1>1. /\ todo # <<>> /\ todo' = Tail(todo) /\ pc \in {"untyped", "orphans"}
      /\ UNCHANGED <<fixed, coveredFiles, readable>>
      /\ \/ pc = "untyped" /\ f \in coveredFiles /\ UNCHANGED <<pc, findings, failed>>
         \/ parseGoFile(f) /\ (pc = "untyped" => f \notin coveredFiles)
  BY DEF ScanUncovered, ScanOrphan
<1>2. todo \in Seq(FileSet) /\ IsInjective(todo)
  BY <1>1 DEF ScanInv, ScanTypes, FoundInv
<1>3. f \in ToSet(todo) /\ f \in FileSet /\ ToSet(todo') = ToSet(todo) \ {f}
  BY <1>1, <1>2, TailIs
<1> HIDE DEF f
<1>4. CASE pc = "untyped" /\ f \in coveredFiles /\ UNCHANGED <<pc, findings, failed>>
  <2>1. \A g : Reported(g)' <=> Reported(g)
    BY <1>4 DEF Reported
  <2>2. Found' = Found /\ \A g : Wanted(g)' => Wanted(g)
    BY <1>1, StaysSorted, StaysWanted
  <2> QED BY <1>1, <1>3, <1>4, <2>1, <2>2 DEF PassInv
<1>5. CASE parseGoFile(f) /\ (pc = "untyped" => f \notin coveredFiles)
  <2>1. ~ Reported(f)
    BY <1>1, <1>3, <1>5 DEF FoundInv
  <2> QED BY <1>1, <1>3, <1>5, <2>1, ParsePasses
<1> QED BY <1>1, <1>4, <1>5

LEMMA StartPasses ==
    ASSUME ~ shouldSkipWalkDir(TopDir), ScanInv, PassInv, StartOrphans \/ EndOrphans
    PROVE  PassInv'
<1>1. /\ todo = <<>> /\ pc \in {"untyped", "orphans"}
      /\ UNCHANGED <<fixed, findings, readable, failed>>
      /\ \/ pc' = "build" /\ (pc = "untyped" => TopDir \in ToSet(moduleRoots))
         \/ /\ pc = "untyped" /\ pc' = "orphans" /\ todo' = OrphanFiles(tree.gomods)
  BY DEF StartOrphans, EndOrphans, StartBuild
<1>2. /\ Found' = Found /\ tree' = tree /\ \A g : Wanted(g)' => Wanted(g)
  BY <1>1, StaysSorted, StaysWanted, StaysFixed
<1>3. ToSet(todo) = {}
  BY <1>1 DEF ToSet
<1>4. \A f : Reported(f)' <=> Reported(f)
  BY <1>1 DEF Reported
<1>5. ~ failed
  BY <1>1 DEF PassInv
<1>6. \A f \in Found : Wanted(f) => Reported(f)
  BY <1>1, <1>3 DEF PassInv
<1>7. CASE pc' = "build" /\ (pc = "untyped" => TopDir \in ToSet(moduleRoots))
  <2>1. ASSUME NEW f \in FileSet, InScope(f), Wanted(f) PROVE Reported(f)
    <3>1. /\ f \in Found \/ f \in ToSet(OrphanFiles(tree.gomods))
          /\ TopDir \in ToSet(moduleRoots) => f \in Found
      BY <2>1, InScopeIs DEF ScanInv
    <3>2. pc = "orphans" /\ f \in ToSet(OrphanFiles(tree.gomods)) => Reported(f)
      BY <1>3, <2>1 DEF PassInv
    <3> QED BY <1>1, <1>6, <1>7, <2>1, <3>1, <3>2
  <2>2. \A f : InScope(f)' <=> InScope(f)
    BY DEF InScope
  <2> QED BY <1>1, <1>2, <1>4, <1>5, <1>7, <2>1, <2>2 DEF PassInv
<1>8. CASE pc = "untyped" /\ pc' = "orphans" /\ todo' = OrphanFiles(tree.gomods)
  <2>1. OrphanFiles(tree.gomods)' = OrphanFiles(tree.gomods)
    BY <1>2
  <2> QED BY <1>1, <1>2, <1>4, <1>5, <1>6, <1>8, <2>1 DEF PassInv
<1> QED BY <1>1, <1>7, <1>8

LEMMA NextPasses ==
    ASSUME ~ shouldSkipWalkDir(TopDir), FiledInv, FoundInv, SlotsInv, PassInv, [Next]_vars
    PROVE  PassInv'
<1>0. ScanInv
  BY DEF FiledInv
<1>1. CASE Merge
  BY <1>1, MergePasses
<1>2. CASE ScanUncovered \/ ScanOrphan
  BY <1>0, <1>2, ScanPasses
<1>3. CASE StartOrphans \/ EndOrphans
  BY <1>0, <1>3, StartPasses
<1>4. CASE MergeBuild
  <2>1. /\ pc = "build" /\ pc' = "done" /\ UNCHANGED <<fixed, readable, failed>>
    BY <1>4 DEF MergeBuild
  <2>2. \A f : (Reported(f) => Reported(f)') /\ (Wanted(f)' => Wanted(f))
    BY <1>0, <1>4, <2>1, MergeBuildFinds, StaysWanted
  <2> QED BY <2>1, <2>2 DEF PassInv
<1>5. ASSUME (\E w \in Worker : WorkerStep(w)) \/ Vanish \/ UNCHANGED vars
      PROVE  PassInv'
  <2>1. UNCHANGED <<fixed, main>> /\ readable' \subseteq readable
    BY <1>5 DEF WorkerStep, Take, prescanModule, Load, ScanLoaded, Acquire, Release, TakeBuild,
                scanFile, Vanish, vars, fixed, main
  <2>2. pc = "untyped" => coveredFiles' = coveredFiles
    <3>1. \A w \in Worker : WorkerStep(w) => pc \in {"feed", "build"}
      <4>1. \A w \in Worker : worker[w].at \in Scanning \cup {"idle", "scanFile"}
        BY <1>0 DEF ScanInv, ScanTypes, Goroutine, Scanning
      <4>2. \A w \in Worker : worker[w].at # "idle" => pc \in {"feed", "build"}
        BY <1>0, <4>1 DEF ScanInv, JobInv
      <4> QED BY <4>2 DEF WorkerStep, Take, prescanModule, Load, ScanLoaded, Acquire, Release,
                          TakeBuild, scanFile
    <3> QED BY <1>5, <3>1 DEF Vanish, vars
  <2>3. /\ Found' = Found /\ tree' = tree /\ \A f : Wanted(f)' => Wanted(f)
    BY <2>1, StaysSorted, StaysWanted, StaysFixed
  <2>4. UNCHANGED <<pc, todo, findings, failed>>
    BY <2>1 DEF main
  <2>5. \A f : Reported(f)' <=> Reported(f)
    BY <2>4 DEF Reported
  <2> QED BY <2>2, <2>3, <2>4, <2>5 DEF PassInv
<1> QED BY <1>1, <1>2, <1>3, <1>4, <1>5 DEF Next, MainStep, Finished

LEMMA NextPool ==
    ASSUME FiledInv, FoundInv, PassInv, PoolInv, [Next]_vars
    PROVE  PoolInv'
<1>0. /\ ScanInv /\ worker \in [Worker -> Goroutine] /\ next \in Nat
      /\ DOMAIN BuildJobs \subseteq Nat
      /\ UNCHANGED <<fixed, BuildJobs>>
  BY NextFixed, StaysFixed, FixedCounts DEF FiledInv, ScanInv, ScanTypes, JobInv
<1>1. ASSUME NEW w \in Worker, TakeBuild(w) PROVE PoolInv'
  <2>1. /\ Moves(w) /\ pc = "build" /\ next' = next + 1 /\ worker[w].at = "idle"
        /\ worker'[w].at = "scanFile" /\ worker'[w].job = next
        /\ UNCHANGED <<pc, perJob, readable>>
    BY <1>0, <1>1, TakeBuildDoes DEF slots, main
  <2>2. ASSUME NEW i \in DOMAIN BuildJobs, i < next',
               \A v \in Worker : ~ (worker'[v].at = "scanFile" /\ worker'[v].job = i)
        PROVE  i < next /\ \A v \in Worker : ~ (worker[v].at = "scanFile" /\ worker[v].job = i)
    BY <1>0, <2>1, <2>2 DEF Moves
  <2> QED BY <1>0, <2>1, <2>2 DEF PoolInv
<1>2. ASSUME NEW w \in Worker, scanFile(w) PROVE PoolInv'
  <2> DEFINE j == worker[w].job
             name == BuildJobs[j].name
  <2>1. /\ Moves(w) /\ worker[w].at = "scanFile" /\ worker'[w].at = "idle"
        /\ perJob' = IF name \in readable THEN [perJob EXCEPT ![j] = <<name>>] ELSE perJob
        /\ UNCHANGED <<pc, next, readable>>
    BY <1>0, <1>2, scanFileDoes DEF main
  <2>2. pc = "build" /\ j \in DOMAIN BuildJobs /\ DOMAIN perJob = DOMAIN BuildJobs
    BY <1>0, <2>1 DEF ScanInv, JobInv, BuildInv
  <2>3. /\ name \in readable => perJob'[j] = <<name>>
        /\ \A i \in DOMAIN BuildJobs : i # j => perJob'[i] = perJob[i]
    BY <2>1, <2>2
  <2>4. ASSUME NEW i \in DOMAIN BuildJobs, i < next', i # j,
               \A v \in Worker : ~ (worker'[v].at = "scanFile" /\ worker'[v].job = i)
        PROVE  i < next /\ \A v \in Worker : ~ (worker[v].at = "scanFile" /\ worker[v].job = i)
    BY <2>1, <2>4 DEF Moves
  <2>5. \A i \in DOMAIN BuildJobs :
           /\ i < next'
           /\ \A v \in Worker : ~ (worker'[v].at = "scanFile" /\ worker'[v].job = i)
           /\ BuildJobs[i].name \in readable
           => perJob'[i] = <<BuildJobs[i].name>>
    <3> TAKE i \in DOMAIN BuildJobs
    <3>1. CASE i = j
      BY <2>3, <3>1
    <3>2. CASE i # j
      BY <2>2, <2>3, <2>4, <3>2 DEF PoolInv
    <3> QED BY <3>1, <3>2
  <2> QED BY <1>0, <2>1, <2>2, <2>5 DEF PoolInv
<1>3. CASE StartOrphans \/ EndOrphans
  <2>1. pc' = "orphans" \/ StartBuild
    BY <1>3 DEF StartOrphans, EndOrphans
  <2>2. CASE StartBuild
    <3>1. pc' = "build" /\ next' = 1
      BY <2>2, StartBuildDoes
    <3>2. \A i \in DOMAIN BuildJobs : ~ (i < 1)
      BY <1>0, FixedCounts DEF ScanInv
    <3> QED BY <1>0, <3>1, <3>2 DEF PoolInv
  <2> QED BY <2>1, <2>2 DEF PoolInv
<1>4. CASE MergeBuild
  <2>1. /\ pc = "build" /\ pc' = "done" /\ readable' = readable /\ next > Len(BuildJobs)
        /\ \A w \in Worker : worker[w].at = "idle"
    BY <1>4 DEF MergeBuild
  <2>2. ASSUME NEW i \in DOMAIN BuildJobs, BuildJobs[i].name \in readable
        PROVE  Reported(BuildJobs[i].name)'
    <3>1. i < next
      BY <1>0, <2>1, FixedCounts DEF ScanInv
    <3>2. perJob[i] = <<BuildJobs[i].name>> /\ i \in DOMAIN perJob
      BY <1>0, <2>1, <2>2, <3>1 DEF PoolInv, ScanInv, BuildInv
    <3> QED BY <1>0, <1>4, <3>2, MergeBuildFinds
  <2> QED BY <1>0, <2>1, <2>2 DEF PoolInv
<1>5. CASE Merge
  BY <1>5 DEF Merge, PoolInv
<1>6. CASE ScanUncovered \/ ScanOrphan
  <2>1. /\ pc \in {"untyped", "orphans"}
        /\ UNCHANGED <<pc, findings, failed>> \/ parseGoFile(Head(todo))
    BY <1>6 DEF ScanUncovered, ScanOrphan
  <2>2. pc' \in {pc, "done"} /\ (~ failed' => pc' = pc)
    BY <1>0, <2>1, ParseDoes DEF ScanInv, ScanTypes
  <2> QED BY <2>1, <2>2 DEF PoolInv
<1>7. CASE Vanish \/ UNCHANGED vars
  <2>1. /\ UNCHANGED <<pc, next, worker, perJob, findings, failed>> /\ readable' \subseteq readable
    BY <1>7 DEF Vanish, vars, slots, main
  <2>2. \A f : Reported(f)' <=> Reported(f)
    BY <2>1 DEF Reported
  <2> QED BY <1>0, <2>1, <2>2 DEF PoolInv
<1>8. ASSUME NEW w \in Worker,
             Take(w) \/ prescanModule(w) \/ Load(w) \/ ScanLoaded(w) \/ Acquire(w) \/ Release(w)
      PROVE  PoolInv'
  <2>1. pc = "feed" /\ pc' = pc
    BY <1>0, <1>8 DEF Take, prescanModule, Load, ScanLoaded, Acquire, Release, main, ScanInv, JobInv, Scanning
  <2> QED BY <2>1 DEF PoolInv
<1> QED BY <1>1, <1>2, <1>3, <1>4, <1>5, <1>6, <1>7, <1>8 DEF Next, WorkerStep, MainStep, Finished

LEMMA InitSeen == Init => SeenInv
<1> SUFFICES ASSUME Init PROVE SeenInv
  OBVIOUS
<1>1. /\ pc = "feed" /\ next = 1 /\ failed = FALSE /\ coveredFiles = {}
      /\ \A i \in Slot : perModule[i] = <<>>
      /\ \A w \in Worker : worker[w].at = "idle"
  BY DEF Init, Idle
<1>2. \A i \in Slot : ~ (i < 1)
  BY FixedCounts, InitScan DEF ScanInv
<1> QED BY <1>1, <1>2 DEF SeenInv, SlotsInv, PassInv, PoolInv, Scanning

LEMMA NextSeen ==
    ASSUME ~ shouldSkipWalkDir(TopDir)
    PROVE  FiledInv /\ FoundInv /\ SeenInv /\ [Next]_vars => SeenInv'
<1> SUFFICES ASSUME FiledInv, FoundInv, SlotsInv, PassInv, PoolInv, [Next]_vars
             PROVE  SeenInv'
  BY DEF SeenInv
<1>1. SlotsInv'
  <2>1. ASSUME NEW w \in Worker, WorkerStep(w) PROVE SlotsInv'
    BY <2>1, WorkerSees
  <2>2. CASE MainStep \/ Vanish \/ UNCHANGED vars
    BY <2>2, MainSlots
  <2> QED BY <2>1, <2>2 DEF Next, Finished
<1>2. PassInv'
  BY NextPasses
<1>3. PoolInv'
  BY NextPool
<1> QED BY <1>1, <1>2, <1>3 DEF SeenInv

LEMMA ReportsAre ==
    ASSUME ScanInv, FoundInv, NEW f
    PROVE  /\ Cardinality(Reports(f)) <= 1
           /\ Reported(f) => Cardinality(Reports(f)) = 1 /\ Reports(f) # {}
<1>1. \A i, j \in DOMAIN findings : i # j => findings[i].file # findings[j].file
  <2> SUFFICES ASSUME NEW i \in DOMAIN findings, NEW j \in DOMAIN findings, i # j
               PROVE  findings[i].file # findings[j].file
    OBVIOUS
  <2>1. i < j \/ j < i
    BY DEF FoundInv
  <2> QED BY <2>1 DEF FoundInv, Sorted, Follows
<1>2. CASE Reported(f)
  <2>1. PICK k \in DOMAIN findings : findings[k].file = f
    BY <1>2 DEF Reported
  <2>2. Reports(f) = {k}
    BY <1>1, <2>1 DEF Reports
  <2> QED BY <2>2, FS_Singleton
<1>3. CASE ~ Reported(f)
  <2>1. Reports(f) = {}
    BY <1>3 DEF Reported, Reports
  <2> QED BY <1>3, <2>1, FS_EmptySet
<1> QED BY <1>2, <1>3

\* The passes together scan every Go file that imports jwx once, and every
\* build file a rule is for once (checkGoFiles, checkBuildFiles), provided the
\* directory the tool is run on is not one shouldSkipWalkDir leaves out.
THEOREM EachReportedOnce == ~ shouldSkipWalkDir(TopDir) => (Spec => []ReportedOnce)
<1> SUFFICES ASSUME ~ shouldSkipWalkDir(TopDir) PROVE Spec => []ReportedOnce
  OBVIOUS
<1>1. ASSUME FiledInv, FoundInv, SeenInv PROVE ReportedOnce
  <2>0. ScanInv /\ TreeInv /\ PassInv /\ PoolInv
    BY <1>1 DEF FiledInv, ScanInv, SeenInv
  <2>1. \A f \in FileSet \cup BuildNames : Cardinality(Reports(f)) <= 1
    BY <1>1, <2>0, ReportsAre
  <2>2. ASSUME pc = "done", ~ failed, NEW f \in readable \cap FileSet, tree.kind[f] = "jwx", InScope(f)
        PROVE  Cardinality(Reports(f)) = 1
    <3>1. Reported(f)
      BY <2>0, <2>2 DEF PassInv, Wanted
    <3> QED BY <1>1, <2>0, <3>1, ReportsAre
  <2>3. ASSUME pc = "done", ~ failed, NEW b \in ToSet(tree.build),
               b.name \in readable, b.matches, InBuildScope(b)
        PROVE  Reports(b.name) # {}
    <3>1. PICK i \in DOMAIN BuildJobs : BuildJobs[i] = b
      BY <2>0, <2>3, BuildJobsCover
    <3>2. Reported(b.name)
      BY <2>0, <2>3, <3>1 DEF PoolInv
    <3> QED BY <1>1, <2>0, <3>2, ReportsAre
  <2> QED BY <2>1, <2>2, <2>3 DEF ReportedOnce
<1>2. FiledInv /\ FoundInv /\ SeenInv => ReportedOnce
  BY <1>1
<1>3. FiledInv /\ FoundInv /\ SeenInv /\ [Next]_vars => SeenInv'
  BY NextSeen
<1> QED BY SpecFound, InitSeen, <1>2, <1>3, PTL DEF Spec

=============================================================================
