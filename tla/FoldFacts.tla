------------------------------- MODULE FoldFacts -------------------------------
(***************************************************************************)
(* What the proofs about sequences rest on: induction over a set of        *)
(* numbers, and that a fold, which is defined by a CHOOSE, is the last of  *)
(* a run of intermediate values.  The folds are those of one operator Op,  *)
(* whose first argument the fold does not change; a module that folds      *)
(* another operator takes an instance.                                     *)
(***************************************************************************)
EXTENDS Integers, SequencesExt, WellFoundedInduction, TLAPS

CONSTANT Op(_, _, _)

\* A set of numbers that is not empty has a least element.
LEMMA Least ==
    ASSUME NEW T, T \subseteq Nat, T # {}
    PROVE  \E m \in T : \A k \in T : m <= k
<1> DEFINE R == OpToRel(<, Nat)
<1>1. IsWellFoundedOn(R, Nat)
  BY NatLessThanWellFounded
<1>2. \E m \in T : \A k \in T : <<k, m>> \notin R
  <2> HIDE DEF R
  <2> QED
    BY <1>1, WFMin
<1>3. \A k, m \in Nat : k < m => <<k, m>> \in R
  BY DEF OpToRel
<1> HIDE DEF R
<1>4. \A k, m \in T : ~(k < m) => m <= k
  OBVIOUS
<1> QED
  BY <1>2, <1>3, <1>4

\* Induction: a set that holds 0, and with a number the next one, holds them
\* all.
LEMMA SetInduction ==
    ASSUME NEW S, 0 \in S, \A n \in Nat : n \in S => n + 1 \in S
    PROVE  Nat \subseteq S
<1> SUFFICES ASSUME Nat \ S # {} PROVE FALSE
  OBVIOUS
<1>1. PICK m \in Nat \ S : \A k \in Nat \ S : m <= k
  BY Least
<1>2. m - 1 \in Nat /\ (m - 1) + 1 = m /\ ~(m <= m - 1)
  OBVIOUS
<1>3. m - 1 \in S
  BY <1>1, <1>2
<1> QED
  BY <1>2, <1>3

-----------------------------------------------------------------------------

Fold(p, base, s) == FoldLeft(LAMBDA a, x : Op(p, a, x), base, s)

LEMMA MaxOfInterval ==
    ASSUME NEW n \in Nat, NEW u \in SUBSET (1..(n + 1)), n + 1 \in u
    PROVE  Max(u) = n + 1
<1>1. \A y \in u : y <= n + 1 /\ y \in Int
  OBVIOUS
<1>2. \A x \in u : (\A y \in u : x >= y) => x = n + 1
  BY <1>1
<1>3. n + 1 \in u /\ \A y \in u : n + 1 >= y
  BY <1>1
<1> QED
  BY <1>2, <1>3 DEF Max

\* the function on sets of positions by which the fold is computed
Computes(it, p, base, s, n) ==
    it = [u \in SUBSET (1..n) |->
             IF u = {} THEN base ELSE Op(p, it[u \ {Max(u)}], s[Max(u)])]

\* It exists, whatever Op is: from the sets of the first k positions it is
\* carried on to those of the first k + 1.
LEMMA FoldExists ==
    ASSUME NEW p, NEW base, NEW s, NEW n \in Nat
    PROVE  \E it : Computes(it, p, base, s, n)
<1> DEFINE S == {k \in Nat : \E it : Computes(it, p, base, s, k)}
<1>1. 0 \in S
  <2>1. Computes([u \in SUBSET (1..0) |-> base], p, base, s, 0)
    BY DEF Computes
  <2> QED
    BY <2>1
<1>2. ASSUME NEW k \in Nat, k \in S PROVE k + 1 \in S
  <2>1. PICK it : Computes(it, p, base, s, k)
    BY <1>2
  <2> DEFINE next == [u \in SUBSET (1..(k + 1)) |->
                        IF k + 1 \in u THEN Op(p, it[u \ {k + 1}], s[k + 1])
                        ELSE it[u]]
  <2>2. ASSUME NEW u \in SUBSET (1..(k + 1))
        PROVE  next[u] = IF u = {} THEN base
                         ELSE Op(p, next[u \ {Max(u)}], s[Max(u)])
    <3>1. CASE k + 1 \in u
      <4>1. Max(u) = k + 1
        BY <3>1, MaxOfInterval
      <4>2. u \ {k + 1} \in SUBSET (1..(k + 1)) /\ k + 1 \notin u \ {k + 1}
        OBVIOUS
      <4>3. u \ {k + 1} \in SUBSET (1..k)
        OBVIOUS
      <4> QED
        BY <3>1, <4>1, <4>2
    <3>2. CASE k + 1 \notin u
      <4>1. u \in SUBSET (1..k)
        BY <3>2
      <4>2. u \ {Max(u)} \in SUBSET (1..k) /\ k + 1 \notin u \ {Max(u)}
        BY <3>2, <4>1, Zenon
      <4>3. it[u] = IF u = {} THEN base ELSE Op(p, it[u \ {Max(u)}], s[Max(u)])
        BY <2>1, <4>1 DEF Computes
      <4>4. u \ {Max(u)} \in SUBSET (1..(k + 1))
        BY <4>2
      <4> QED
        BY <3>2, <4>2, <4>3, <4>4
    <3> QED
      BY <3>1, <3>2
  <2>3. Computes(next, p, base, s, k + 1)
    BY <2>2 DEF Computes
  <2> QED
    BY <2>3
<1>3. Nat \subseteq S
  <2> HIDE DEF S
  <2> QED
    BY <1>1, <1>2, SetInduction
<1> QED
  BY <1>3

\* A fold over n elements is the last of n + 1 values: the first is the base,
\* and each other comes from the one before and an element.
LEMMA FoldSteps ==
    ASSUME NEW p, NEW base, NEW s, NEW n \in Nat, DOMAIN s = 1..n
    PROVE  \E at : /\ at[0] = base
                   /\ \A i \in 1..n : at[i] = Op(p, at[i - 1], s[i])
                   /\ Fold(p, base, s) = at[n]
<1> DEFINE it == CHOOSE f : Computes(f, p, base, s, n)
<1> DEFINE at == [k \in 0..n |-> it[1..k]]
<1>1. Computes(it, p, base, s, n)
  BY FoldExists
<1>2. Fold(p, base, s) = it[1..n]
  BY DEF Fold, FoldLeft, MapThenFoldSet, Computes
<1> HIDE DEF it
<1>3. at[0] = base
  <2>1. 1..0 = {} /\ {} \in SUBSET (1..n)
    OBVIOUS
  <2>2. it[{}] = base
    BY <1>1, <2>1 DEF Computes
  <2>3. at[0] = it[1..0]
    OBVIOUS
  <2> QED
    BY <2>1, <2>2, <2>3
<1>4. ASSUME NEW i \in 1..n PROVE at[i] = Op(p, at[i - 1], s[i])
  <2>1. Max(1..i) = i
    <3>1. i - 1 \in Nat /\ (i - 1) + 1 = i /\ i \in 1..i
      OBVIOUS
    <3>2. 1..i \in SUBSET (1..((i - 1) + 1)) /\ (i - 1) + 1 \in 1..i
      BY <3>1
    <3>3. Max(1..i) = (i - 1) + 1
      BY <3>1, <3>2, MaxOfInterval
    <3> QED
      BY <3>1, <3>3
  <2>2. (1..i) \ {i} = 1..(i - 1)
    OBVIOUS
  <2>3. 1..i \in SUBSET (1..n) /\ 1..i # {}
    OBVIOUS
  <2>4. it[1..i] = Op(p, it[1..(i - 1)], s[i])
    BY <1>1, <2>1, <2>2, <2>3 DEF Computes
  <2> QED
    BY <2>4
<1>5. Fold(p, base, s) = at[n]
  BY <1>2
<1> HIDE DEF at
<1> QED
  BY <1>3, <1>4, <1>5

-----------------------------------------------------------------------------

\* Concatenating the members of a sequence of n > 0 sequences likewise.
Flattens(f, ss, n) == f = [i \in 1..n |-> IF i = 1 THEN ss[i] ELSE f[i - 1] \o ss[i]]

LEMMA FlattenExists ==
    ASSUME NEW ss, NEW n \in Nat PROVE \E f : Flattens(f, ss, n)
<1> DEFINE S == {k \in Nat : \E f : Flattens(f, ss, k)}
<1>1. 0 \in S
  <2>1. Flattens([i \in 1..0 |-> << >>], ss, 0)
    BY DEF Flattens
  <2> QED
    BY <2>1
<1>2. ASSUME NEW k \in Nat, k \in S PROVE k + 1 \in S
  <2>1. PICK f : Flattens(f, ss, k)
    BY <1>2
  <2> DEFINE next == [i \in 1..(k + 1) |->
                        IF i <= k THEN f[i]
                        ELSE IF i = 1 THEN ss[i] ELSE f[i - 1] \o ss[i]]
  <2>2. \A i \in 1..k : f[i] = IF i = 1 THEN ss[i] ELSE f[i - 1] \o ss[i]
    BY <2>1 DEF Flattens
  <2>3. ASSUME NEW i \in 1..(k + 1)
        PROVE  next[i] = IF i = 1 THEN ss[i] ELSE next[i - 1] \o ss[i]
    <3>1. i # 1 => i - 1 \in 1..k /\ next[i - 1] = f[i - 1]
      OBVIOUS
    <3>2. i <= k => next[i] = f[i] /\ i \in 1..k
      OBVIOUS
    <3>3. ~(i <= k) => next[i] = IF i = 1 THEN ss[i] ELSE f[i - 1] \o ss[i]
      OBVIOUS
    <3> HIDE DEF next
    <3> QED
      BY <2>2, <3>1, <3>2, <3>3
  <2>4. Flattens(next, ss, k + 1)
    BY <2>3 DEF Flattens
  <2> QED
    BY <2>4
<1>3. Nat \subseteq S
  <2> HIDE DEF S
  <2> QED
    BY <1>1, <1>2, SetInduction
<1> QED
  BY <1>3

LEMMA FlattenSteps ==
    ASSUME NEW ss, NEW n \in Nat \ {0}, Len(ss) = n
    PROVE  \E at : /\ at[1] = ss[1]
                   /\ \A i \in 2..n : at[i] = at[i - 1] \o ss[i]
                   /\ FlattenSeq(ss) = at[n]
<1> DEFINE f == CHOOSE g : Flattens(g, ss, n)
<1>1. Flattens(f, ss, n)
  BY FlattenExists
<1>2. FlattenSeq(ss) = f[n]
  BY DEF FlattenSeq, Flattens
<1> HIDE DEF f
<1>3. f[1] = ss[1] /\ \A i \in 2..n : f[i] = f[i - 1] \o ss[i]
  <2>1. \A i \in 1..n : f[i] = IF i = 1 THEN ss[i] ELSE f[i - 1] \o ss[i]
    BY <1>1 DEF Flattens
  <2>2. 1 \in 1..n /\ \A i \in 2..n : i \in 1..n /\ i # 1
    OBVIOUS
  <2> QED
    BY <2>1, <2>2
<1> QED
  BY <1>2, <1>3

\* at holds the concatenation of the first i of n sequences over T
Concatenates(at, ss, n, T) ==
    /\ at[0] = << >>
    /\ \A i \in 0..n : at[i] \in Seq(T)
    /\ \A i \in 1..n : at[i] = at[i - 1] \o ss[i]
    /\ FlattenSeq(ss) = at[n]

LEMMA FlattenConcatenates ==
    ASSUME NEW T, NEW ss \in Seq(Seq(T)) PROVE \E at : Concatenates(at, ss, Len(ss), T)
<1> DEFINE n == Len(ss)
<1>1. n \in Nat /\ \A i \in 1..n : ss[i] \in Seq(T)
  OBVIOUS
<1>2. CASE n = 0
  <2>1. ss = << >>
    BY <1>2
  <2>2. FlattenSeq(ss) = << >>
    BY <2>1 DEF FlattenSeq
  <2>3. Concatenates([i \in 0..0 |-> << >>], ss, 0, T)
    BY <2>2 DEF Concatenates
  <2> QED
    BY <1>2, <2>3
<1>3. CASE n # 0
  <2>1. PICK f : /\ f[1] = ss[1]
                 /\ \A i \in 2..n : f[i] = f[i - 1] \o ss[i]
                 /\ FlattenSeq(ss) = f[n]
    <3> HIDE DEF n
    <3>1. n \in Nat \ {0} /\ Len(ss) = n
      BY <1>1, <1>3 DEF n
    <3> QED
      BY <3>1, FlattenSteps
  <2> DEFINE at == [i \in 0..n |-> IF i = 0 THEN << >> ELSE f[i]]
             S == {i \in Nat : i \in 0..n => at[i] \in Seq(T)}
  <2>2. at[0] = << >> /\ at[n] = f[n] /\ \A i \in 1..n : at[i] = f[i]
    BY <1>1, <1>3
  <2> HIDE DEF at
  <2>3. 0 \in S
    <3>1. << >> \in Seq(T)
      OBVIOUS
    <3>2. at[0] \in Seq(T)
      BY <2>2, <3>1
    <3> QED
      BY <3>2
  <2>4. ASSUME NEW i \in 1..n, at[i - 1] \in Seq(T) PROVE at[i] = at[i - 1] \o ss[i]
    <3>1. CASE i = 1
      <4>1. at[i - 1] = << >> /\ at[i] = ss[i] /\ ss[i] \in Seq(T)
        BY <1>1, <2>1, <2>2, <3>1
      <4> QED
        BY <4>1
    <3>2. CASE i # 1
      <4>1. i \in 2..n /\ i - 1 \in 1..n
        BY <1>1, <3>2
      <4> QED
        BY <2>1, <2>2, <4>1
    <3> QED
      BY <3>1, <3>2
  <2>5. ASSUME NEW i \in Nat, i \in S PROVE i + 1 \in S
    <3> SUFFICES ASSUME i + 1 \in 0..n PROVE at[i + 1] \in Seq(T)
      OBVIOUS
    <3>1. i + 1 \in 1..n /\ (i + 1) - 1 = i /\ at[i] \in Seq(T) /\ ss[i + 1] \in Seq(T)
      BY <1>1, <2>5
    <3> HIDE DEF S
    <3>2. at[i + 1] = at[i] \o ss[i + 1]
      BY <2>4, <3>1
    <3> QED
      BY <3>1, <3>2
  <2>6. Nat \subseteq S
    <3> HIDE DEF S
    <3> QED
      BY <2>3, <2>5, SetInduction
  <2>7. \A i \in 0..n : at[i] \in Seq(T)
    BY <2>6
  <2>8. \A i \in 1..n : at[i] = at[i - 1] \o ss[i]
    <3>1. \A i \in 1..n : i - 1 \in 0..n
      BY <1>1
    <3> QED
      BY <2>4, <2>7, <3>1
  <2>9. Concatenates(at, ss, n, T)
    BY <2>1, <2>2, <2>7, <2>8 DEF Concatenates
  <2> QED
    BY <2>9
<1> QED
  BY <1>2, <1>3

\* The concatenation of sequences over T is one.
LEMMA FlattenType ==
    ASSUME NEW T, NEW ss \in Seq(Seq(T)) PROVE FlattenSeq(ss) \in Seq(T)
<1>1. PICK at : Concatenates(at, ss, Len(ss), T)
  BY FlattenConcatenates
<1>2. Len(ss) \in 0..Len(ss)
  OBVIOUS
<1> QED
  BY <1>1, <1>2 DEF Concatenates
================================================================================
