------------------------------- MODULE Lemmas -------------------------------
(* Facts that the proofs of several components need.                       *)
EXTENDS Integers, Sequences, FiniteSetsExt, NaturalsInduction, WellFoundedInduction, TLAPS

(* A nonempty set of naturals has a least member. *)
LEMMA LeastExists ==
  ASSUME NEW S \in SUBSET Nat, S # {}
  PROVE  \E i \in S : \A j \in S : i <= j
<1>1. PICK i \in S : \A j \in S : ~(<<j, i>> \in OpToRel(<, Nat))
  BY NatLessThanWellFounded, WFMin
<1>2. ASSUME NEW j \in S, j < i PROVE FALSE
  <2>1. <<j, i>> \in OpToRel(<, Nat)
    BY <1>2, Zenon DEF OpToRel
  <2> QED
    BY <1>1, <2>1
<1> QED
  BY <1>2

(* Where a search of the code stops. *)
LEMMA MinIsIn ==
  ASSUME NEW S \in SUBSET Nat, S # {}
  PROVE  Min(S) \in S /\ \A j \in S : Min(S) <= j
  BY LeastExists DEF Min

(* A finite set of numbers has a largest member. *)
LEMMA MaxIsIn ==
  ASSUME NEW n \in Nat, NEW S \in SUBSET (1 .. n), S # {}
  PROVE  Max(S) \in S /\ \A j \in S : Max(S) >= j
<1> DEFINE D == {n - i : i \in S}
<1>1. D \in SUBSET Nat /\ D # {}
  <2>1. PICK i \in S : TRUE
    OBVIOUS
  <2>2. n - i \in D
    OBVIOUS
  <2>3. \A j \in S : n - j \in Nat
    OBVIOUS
  <2>. QED
    BY <2>2, <2>3
<1>2. PICK d \in D : \A j \in D : d <= j
  BY <1>1, LeastExists
<1>3. PICK i \in S : d = n - i
  BY <1>2
<1>4. \A j \in S : i >= j
  <2> SUFFICES ASSUME NEW j \in S PROVE i >= j
    OBVIOUS
  <2>1. n - j \in D
    OBVIOUS
  <2>2. n - i <= n - j
    BY <1>2, <1>3, <2>1
  <2>. QED
    BY <2>2
<1>. QED
  BY <1>4 DEF Max

(* What holds of 0 and is passed on holds of all numbers up to n. *)
LEMMA UpTo ==
  ASSUME NEW n \in Nat, NEW S, 0 \in S, \A i \in 1 .. n : i - 1 \in S => i \in S
  PROVE  \A i \in 0 .. n : i \in S
<1> DEFINE Bad == {i \in 0 .. n : i \notin S}
<1>1. ASSUME Bad # {} PROVE FALSE
  <2>1. Bad \in SUBSET Nat
    OBVIOUS
  <2>2. PICK i \in Bad : \A j \in Bad : i <= j
    BY <1>1, <2>1, LeastExists
  <2>3. i \in 0 .. n /\ i \notin S /\ i # 0
    BY <2>2
  <2>4. i \in 1 .. n /\ i - 1 \in 0 .. n /\ ~(i <= i - 1)
    BY <2>3
  <2>5. i - 1 \notin Bad
    <3> HIDE DEF Bad
    <3>. QED
      BY <2>2, <2>4
  <2>. QED
    BY <2>3, <2>4, <2>5
<1>. QED
  BY <1>1

LEMMA MaxOfFirst ==
  ASSUME NEW i \in Nat, i # 0
  PROVE  Max(1 .. i) = i /\ (1 .. i) \ {i} = 1 .. (i - 1)
<1>1. 1 .. i \in SUBSET (1 .. i) /\ 1 .. i # {} /\ i \in 1 .. i
  OBVIOUS
<1>2. Max(1 .. i) \in 1 .. i /\ Max(1 .. i) >= i
  BY <1>1, MaxIsIn
<1>. QED
  BY <1>2

FoldOn(f, base, step, T, m) ==
  /\ f \in [SUBSET (1 .. m) -> T]
  /\ \A s \in SUBSET (1 .. m) :
        f[s] = IF s = {} THEN base ELSE step[Max(s)][f[s \ {Max(s)}]]

(* A fold takes the members of a set from the largest down: there is a     *)
(* function that says what it makes of every subset.                       *)
LEMMA FoldExists ==
  ASSUME NEW n \in Nat, NEW T, NEW base \in T,
         NEW step \in [1 .. n -> [T -> T]]
  PROVE  \E f : FoldOn(f, base, step, T, n)
<1> DEFINE S == {m \in 0 .. n : \E f : FoldOn(f, base, step, T, m)}
<1>1. 0 \in S
  <2>1. \A s \in SUBSET (1 .. 0) : s = {}
    OBVIOUS
  <2>2. FoldOn([s \in SUBSET (1 .. 0) |-> base], base, step, T, 0)
    BY <2>1 DEF FoldOn
  <2>. QED
    BY <2>2
<1>2. ASSUME NEW m \in 1 .. n, m - 1 \in S PROVE m \in S
  <2>1. m \in Nat /\ m \in 0 .. n
    OBVIOUS
  <2>2. PICK g : FoldOn(g, base, step, T, m - 1)
    BY <1>2
  <2> DEFINE h == [s \in SUBSET (1 .. m) |->
                      IF m \in s THEN step[m][g[s \ {m}]] ELSE g[s]]
  <2>3. ASSUME NEW s \in SUBSET (1 .. m)
        PROVE  /\ h[s] \in T
               /\ h[s] = IF s = {} THEN base ELSE step[Max(s)][h[s \ {Max(s)}]]
    <3>1. CASE m \in s
      <4>1. Max(s) \in s /\ Max(s) >= m
        BY <2>1, <3>1, MaxIsIn
      <4>2. Max(s) = m
        <5>1. Max(s) \in 1 .. m
          BY <4>1
        <5>. QED
          BY <2>1, <4>1, <5>1
      <4>3. s \ {m} \in SUBSET (1 .. m - 1) /\ s \ {m} \in SUBSET (1 .. m) /\ m \notin s \ {m}
        BY <2>1
      <4>4. h[s \ {m}] = g[s \ {m}] /\ g[s \ {m}] \in T
        BY <2>2, <4>3 DEF FoldOn
      <4>5. h[s] = step[m][g[s \ {m}]] /\ step[m] \in [T -> T] /\ s # {}
        BY <2>1, <3>1
      <4> HIDE DEF h
      <4>. QED
        BY <4>2, <4>4, <4>5
    <3>2. CASE m \notin s
      <4>1. s \in SUBSET (1 .. m - 1)
        BY <2>1, <3>2
      <4>2. h[s] = g[s] /\ g[s] \in T
        BY <2>2, <3>2, <4>1 DEF FoldOn
      <4>3. CASE s = {}
        <5>. QED
          BY <2>2, <4>1, <4>2, <4>3 DEF FoldOn
      <4>4. CASE s # {}
        <5>1. s \ {Max(s)} \in SUBSET (1 .. m) /\ m \notin s \ {Max(s)}
          BY <3>2
        <5>2. h[s \ {Max(s)}] = g[s \ {Max(s)}]
          BY <5>1
        <5>3. g[s] = step[Max(s)][g[s \ {Max(s)}]]
          BY <2>2, <4>1, <4>4 DEF FoldOn
        <5> HIDE DEF h
        <5>. QED
          BY <4>2, <4>4, <5>2, <5>3
      <4>. QED
        BY <4>3, <4>4
    <3>. QED
      BY <3>1, <3>2
  <2>4. h \in [SUBSET (1 .. m) -> T]
    <3>1. h = [s \in SUBSET (1 .. m) |-> h[s]]
      OBVIOUS
    <3> HIDE DEF h
    <3>. QED
      BY <2>3, <3>1
  <2>5. FoldOn(h, base, step, T, m)
    <3> HIDE DEF h
    <3>. QED
      BY <2>3, <2>4 DEF FoldOn
  <2>. QED
    BY <2>1, <2>5
<1> HIDE DEF S
<1>3. n \in S
  <2>1. \A i \in 0 .. n : i \in S
    BY <1>1, <1>2, UpTo
  <2>. QED
    BY <2>1
<1>. QED
  BY <1>3 DEF S

(* A recursive function on the first numbers exists... *)
LEMMA Flattens ==
  ASSUME NEW s, NEW n \in Nat
  PROVE  \E f : f = [i \in 1 .. n |-> IF i = 1 THEN s[i] ELSE f[i - 1] \o s[i]]
<1> DEFINE Is(f, m) == f = [i \in 1 .. m |-> IF i = 1 THEN s[i] ELSE f[i - 1] \o s[i]]
           Bad == {m \in Nat : ~ \E f : Is(f, m)}
<1> SUFFICES ASSUME Bad # {} PROVE FALSE
  OBVIOUS
<1>1. Bad \in SUBSET Nat
  OBVIOUS
<1>2. PICK m \in Bad : \A j \in Bad : m <= j
  BY <1>1, LeastExists
<1>3. \A f : ~Is(f, m)
  BY <1>2
<1>4. CASE m = 0
  <2>1. Is([i \in 1 .. 0 |-> 0], 0)
    OBVIOUS
  <2> QED
    BY <1>3, <1>4, <2>1
<1>5. CASE m # 0
  <2>1. m \in Nat /\ m - 1 \in Nat /\ m - 1 \notin Bad
    <3> HIDE DEF Bad
    <3> QED
      BY <1>1, <1>2, <1>5
  <2>2. PICK g : Is(g, m - 1)
    BY <2>1
  <2> DEFINE last == IF m = 1 THEN s[1] ELSE g[m - 1] \o s[m]
             h == [i \in 1 .. m |-> IF i < m THEN g[i] ELSE last]
  <2>3. ASSUME NEW i \in 1 .. m
        PROVE  h[i] = IF i = 1 THEN s[i] ELSE h[i - 1] \o s[i]
    <3>1. CASE i < m
      <4>1. /\ i \in 1 .. m - 1 /\ h[i] = g[i]
            /\ i # 1 => i - 1 \in 1 .. m /\ h[i - 1] = g[i - 1]
        BY <2>1, <3>1
      <4>2. g[i] = IF i = 1 THEN s[i] ELSE g[i - 1] \o s[i]
        BY <2>2, <4>1
      <4> QED
        BY <4>1, <4>2
    <3>2. CASE ~(i < m)
      <4>1. i = m /\ h[i] = last /\ (m # 1 => m - 1 \in 1 .. m /\ h[m - 1] = g[m - 1])
        BY <2>1, <3>2
      <4> QED
        BY <4>1
    <3> QED
      BY <3>1, <3>2
  <2>4. h = [i \in 1 .. m |-> h[i]]
    OBVIOUS
  <2> HIDE DEF h
  <2> DEFINE k == [i \in 1 .. m |-> IF i = 1 THEN s[i] ELSE h[i - 1] \o s[i]]
  <2>5. DOMAIN k = 1 .. m /\ \A i \in 1 .. m : h[i] = k[i]
    BY <2>3
  <2>6. k = [i \in 1 .. m |-> k[i]]
    OBVIOUS
  <2>7. h = k
    <3> HIDE DEF k
    <3> QED
      BY <2>4, <2>5, <2>6
  <2>8. Is(h, m)
    BY <2>7
  <2> QED
    BY <1>3, <2>8
<1> QED
  BY <1>4, <1>5

(* ...and makes lists of the lists it goes through. *)
LEMMA FlatRuns ==
  ASSUME NEW S, NEW s \in Seq(Seq(S)), NEW F,
         F = [i \in 1 .. Len(s) |-> IF i = 1 THEN s[i] ELSE F[i - 1] \o s[i]]
  PROVE  \A i \in 1 .. Len(s) : /\ F[i] = IF i = 1 THEN s[i] ELSE F[i - 1] \o s[i]
                                /\ F[i] \in Seq(S)
<1> DEFINE n == Len(s)
           In == {i \in 0 .. n : i # 0 => F[i] \in Seq(S)}
<1>1. n \in Nat /\ \A i \in 1 .. n : s[i] \in Seq(S)
  OBVIOUS
<1>2. \A i \in 1 .. n : F[i] = IF i = 1 THEN s[i] ELSE F[i - 1] \o s[i]
  OBVIOUS
<1> HIDE DEF n
<1>3. ASSUME NEW i \in 1 .. n, i - 1 \in In PROVE i \in In
  <2>1. i \in 0 .. n /\ s[i] \in Seq(S)
    BY <1>1
  <2>2. CASE i = 1
    BY <1>2, <2>1, <2>2
  <2>3. CASE i # 1
    <3>1. F[i - 1] \in Seq(S)
      <4>1. i - 1 # 0
        BY <2>3
      <4>. QED
        BY <1>3, <4>1
    <3>2. F[i] \in Seq(S)
      <4>1. F[i] = F[i - 1] \o s[i]
        BY <1>2, <2>3
      <4>2. F[i - 1] \o s[i] \in Seq(S)
        BY <2>1, <3>1
      <4>. QED
        BY <4>1, <4>2
    <3>. QED
      BY <2>1, <3>2
  <2>. QED
    BY <2>2, <2>3
<1>4. 0 \in In
  BY <1>1
<1> HIDE DEF In
<1>5. \A i \in 0 .. n : i \in In
  BY <1>1, <1>3, <1>4, UpTo
<1>6. ASSUME NEW i \in 1 .. n PROVE F[i] \in Seq(S)
  <2>1. i \in 0 .. n /\ i # 0
    BY <1>1
  <2>2. i \in In
    BY <1>5, <2>1
  <2>. QED
    BY <2>1, <2>2 DEF In
<1>. QED
  BY <1>2, <1>6 DEF n

=============================================================================
