----------------------------- MODULE ListsProofs -----------------------------
(***************************************************************************)
(* What a fold from the left computes, step by step, and what a filter     *)
(* keeps.                                                                  *)
(*                                                                         *)
(* The induction theorems of the library take a predicate; these proofs    *)
(* take a set of numbers in its place, and its least element from the      *)
(* well-foundedness of the order of Nat.                                   *)
(***************************************************************************)
EXTENDS Lists, FiniteSetTheorems, SequenceTheorems, TLAPS

LEMMA LeastOfASet ==
    ASSUME NEW S \in SUBSET Nat, S # {}
    PROVE  \E n \in S : \A m \in S : n <= m
<1>1. PICK n \in S : \A m \in S : <<m, n>> \notin OpToRel(<, Nat)
  BY WFMin, NatLessThanWellFounded
<1>2. \A m \in S : ~(m < n)
  BY <1>1 DEF OpToRel
<1>3. QED
  BY <1>2

\* Induction up to n, over the set of the numbers a fact holds of.
LEMMA InductionUpTo ==
    ASSUME NEW n \in Nat, NEW S, 0 \in S, \A i \in 1 .. n : i - 1 \in S => i \in S
    PROVE  0 .. n \subseteq S
<1> SUFFICES ASSUME (0 .. n) \ S # {} PROVE FALSE
  OBVIOUS
<1> DEFINE rest == (0 .. n) \ S
<1>0. rest \in SUBSET Nat /\ rest # {}
  OBVIOUS
<1>1. PICK i \in rest : \A j \in rest : i <= j
  <2> HIDE DEF rest
  <2> QED BY <1>0, LeastOfASet
<1>2. i # 0 /\ i \in 1 .. n /\ i - 1 \in 0 .. n
  BY <1>1
<1>3. i - 1 \in S
  BY <1>1, <1>2
<1>4. QED
  BY <1>1, <1>2, <1>3

LEMMA MaxOfInterval ==
    ASSUME NEW i \in Nat \ {0}
    PROVE  Max(1 .. i) = i /\ (1 .. i) \ {i} = 1 .. i - 1
BY DEF Max

LEMMA MaxOfPart ==
    ASSUME NEW n \in Nat, NEW S \in SUBSET (1 .. n), S # {}
    PROVE  Max(S) \in S /\ \A x \in S : x <= Max(S)
<1> DEFINE above == {n - x : x \in S}
<1>1. above \in SUBSET Nat /\ above # {}
  <2>1. \A x \in S : n - x \in Nat
    OBVIOUS
  <2>2. above \subseteq Nat
    BY ONLY <2>1
  <2>3. PICK x \in S : TRUE
    OBVIOUS
  <2>4. n - x \in above
    OBVIOUS
  <2>5. QED
    BY <2>2, <2>4
<1>2. PICK m \in above : \A k \in above : m <= k
  <2> HIDE DEF above
  <2> QED BY <1>1, LeastOfASet
<1>3. PICK x \in S : m = n - x
  BY <1>2
<1>4. ASSUME NEW y \in S PROVE x >= y
  <2>1. m <= n - y
    BY <1>2
  <2>2. x \in 1 .. n /\ y \in 1 .. n
    OBVIOUS
  <2>3. QED
    BY <1>3, <2>1, <2>2
<1>5. \E z \in S : \A y \in S : z >= y
  BY <1>4
<1>6. QED
  BY <1>5 DEF Max

\* A fold is a function of the part of the domain that it has gone through.
Folds(g, D, base, n, step) ==
    /\ g \in [SUBSET (1 .. n) -> D]
    /\ \A S \in SUBSET (1 .. n) :
          g[S] = IF S = {} THEN base ELSE step[Max(S)][g[S \ {Max(S)}]]

LEMMA FoldExists ==
    ASSUME NEW D, NEW base \in D, NEW n \in Nat, NEW step \in [1 .. n -> [D -> D]]
    PROVE  \E g : Folds(g, D, base, n, step)
<1> DEFINE Good == {m \in 0 .. n : \E g : Folds(g, D, base, m, step)}
<1>1. 0 \in Good
  <2> DEFINE g == [S \in SUBSET (1 .. 0) |-> base]
  <2>1. SUBSET (1 .. 0) = {{}}
    OBVIOUS
  <2>2. Folds(g, D, base, 0, step)
    BY <2>1 DEF Folds
  <2>3. QED
    BY <2>2
<1>2. ASSUME NEW m \in 1 .. n, m - 1 \in Good PROVE m \in Good
  <2>1. PICK g : Folds(g, D, base, m - 1, step)
    BY <1>2
  <2> DEFINE h == [S \in SUBSET (1 .. m) |-> IF m \in S THEN step[m][g[S \ {m}]] ELSE g[S]]
  <2>2. ASSUME NEW S \in SUBSET (1 .. m), m \in S
        PROVE  Max(S) = m /\ S \ {m} \in SUBSET (1 .. m - 1)
    <3>1. S # {} /\ m \in Nat
      BY <2>2
    <3>2. Max(S) \in S /\ \A x \in S : x <= Max(S)
      BY <3>1, MaxOfPart
    <3>3. Max(S) \in 1 .. m /\ m <= Max(S)
      BY <2>2, <3>2
    <3>4. QED
      BY <3>3
  <2>3. ASSUME NEW S \in SUBSET (1 .. m), m \notin S
        PROVE  S \in SUBSET (1 .. m - 1)
    BY <2>3
  <2>4. h \in [SUBSET (1 .. m) -> D]
    <3> SUFFICES ASSUME NEW S \in SUBSET (1 .. m) PROVE h[S] \in D
      OBVIOUS
    <3>1. CASE m \in S
      BY <2>1, <2>2, <3>1 DEF Folds
    <3>2. CASE m \notin S
      BY <2>1, <2>3, <3>2 DEF Folds
    <3>3. QED
      BY <3>1, <3>2
  <2>5. ASSUME NEW S \in SUBSET (1 .. m)
        PROVE  h[S] = IF S = {} THEN base ELSE step[Max(S)][h[S \ {Max(S)}]]
    <3>1. CASE m \in S
      <4>1. h[S] = step[m][g[S \ {m}]]
        BY <3>1
      <4>2. h[S \ {m}] = g[S \ {m}]
        BY <2>2, <3>1
      <4>3. QED
        BY <2>2, <3>1, <4>1, <4>2
    <3>2. CASE m \notin S
      <4>1. h[S] = g[S] /\ S \in SUBSET (1 .. m - 1)
        BY <2>3, <3>2
      <4>2. CASE S = {}
        BY <2>1, <4>1, <4>2 DEF Folds
      <4>3. CASE S # {}
        <5>1. Max(S) \in S
          <6>1. m \in Nat
            OBVIOUS
          <6>2. QED
            BY <4>3, <6>1, MaxOfPart
        <5>2. h[S \ {Max(S)}] = g[S \ {Max(S)}]
          BY <3>2, <4>1
        <5>3. QED
          BY <2>1, <4>1, <4>3, <5>2 DEF Folds
      <4>4. QED
        BY <4>2, <4>3
    <3>3. QED
      BY <3>1, <3>2
  <2>6. Folds(h, D, base, m, step)
    BY <2>4, <2>5 DEF Folds
  <2>7. QED
    BY <2>6
<1>3. n \in Good
  <2> HIDE DEF Good
  <2>1. 0 .. n \subseteq Good
    BY <1>1, <1>2, InductionUpTo
  <2>2. QED
    BY <2>1
<1>4. QED
  BY <1>3

LEMMA MaxPart ==
    ASSUME NEW n \in Nat, NEW S \in SUBSET (1 .. n), S # {}
    PROVE  Max(S) \in 1 .. n /\ S \ {Max(S)} \in SUBSET (1 .. n)
BY MaxOfPart

\* The parts a fold goes through are the prefixes of the domain.
LEMMA MaxPrefix ==
    ASSUME NEW n \in Nat, NEW i \in 1 .. n
    PROVE  /\ 1 .. i \in SUBSET (1 .. n) /\ 1 .. i # {}
           /\ Max(1 .. i) = i /\ (1 .. i) \ {i} = 1 .. i - 1
<1>1. i \in Nat \ {0} /\ 1 \in 1 .. i /\ 1 .. i \subseteq 1 .. n
  OBVIOUS
<1>2. QED
  BY <1>1, MaxOfInterval

LEMMA StaysIn ==
    ASSUME NEW n \in Nat, NEW h, NEW D, h[0] \in D,
           \A i \in 1 .. n : h[i - 1] \in D => h[i] \in D
    PROVE  \A i \in 0 .. n : h[i] \in D
<1> DEFINE good == {i \in 0 .. n : h[i] \in D}
<1>1. 0 \in good /\ \A i \in 1 .. n : i - 1 \in good => i \in good
  OBVIOUS
<1>2. 0 .. n \subseteq good
  <2> HIDE DEF good
  <2> QED BY <1>1, InductionUpTo
<1>3. QED
  BY <1>2

\* What a fold's function says of the parts it goes through is said of the
\* prefixes alone.
Unfolds(iter, D, base, n, step) ==
    /\ iter[{}] = base
    /\ \A S \in SUBSET (1 .. n) :
          S # {} /\ iter[S \ {Max(S)}] \in D => iter[S] = step[Max(S)][iter[S \ {Max(S)}]]

\* h is the value of the fold after each of its n steps.
Stepwise(h, D, base, n, step) ==
    /\ h \in [0 .. n -> D]
    /\ h[0] = base
    /\ \A i \in 1 .. n : h[i] = step[i][h[i - 1]]

LEMMA FoldStepwise ==
    ASSUME NEW D, NEW base \in D, NEW n \in Nat, NEW step \in [1 .. n -> [D -> D]],
           NEW iter, Unfolds(iter, D, base, n, step)
    PROVE  \E h : Stepwise(h, D, base, n, step) /\ h[n] = iter[1 .. n]
<1> DEFINE h == [i \in 0 .. n |-> iter[1 .. i]]
<1>1. h[0] = base
  <2>1. 1 .. 0 = {}
    OBVIOUS
  <2>2. QED
    BY <2>1 DEF Unfolds
<1>2. ASSUME NEW i \in 1 .. n, h[i - 1] \in D PROVE h[i] = step[i][h[i - 1]]
  <2>1. 1 .. i \in SUBSET (1 .. n) /\ 1 .. i # {}
          /\ Max(1 .. i) = i /\ (1 .. i) \ {i} = 1 .. i - 1
    BY MaxPrefix
  <2>2. h[i - 1] = iter[1 .. i - 1] /\ h[i] = iter[1 .. i]
    OBVIOUS
  <2> HIDE DEF h
  <2>3. iter[1 .. i] = step[i][iter[1 .. i - 1]]
    BY <1>2, <2>1, <2>2 DEF Unfolds
  <2>4. QED
    BY <2>2, <2>3
<1>3. \A i \in 0 .. n : h[i] \in D
  <2>1. ASSUME NEW i \in 1 .. n, h[i - 1] \in D PROVE h[i] \in D
    BY <1>2, <2>1
  <2> HIDE DEF h
  <2>2. QED
    BY <1>1, <2>1, StaysIn
<1>4. \A i \in 1 .. n : i - 1 \in 0 .. n
  OBVIOUS
<1>5. h \in [0 .. n -> D] /\ h[n] = iter[1 .. n]
  BY <1>3
<1> HIDE DEF h
<1>6. QED
  BY <1>1, <1>2, <1>3, <1>4, <1>5 DEF Stepwise

-----------------------------------------------------------------------------
(* What a filter keeps.                                                      *)

\* h is the fold of Kept after each element of s.
KeptBy(h, s, yes, D) ==
    /\ h \in [0 .. Len(s) -> Seq(D)]
    /\ h[0] = <<>>
    /\ \A i \in 1 .. Len(s) :
          h[i] = IF s[i] \in yes THEN Append(h[i - 1], s[i]) ELSE h[i - 1]
    /\ Kept(s, yes) = h[Len(s)]

LEMMA KeptStepwise ==
    ASSUME NEW D, NEW s \in Seq(D), NEW yes
    PROVE  \E h : KeptBy(h, s, yes, D)
<1> DEFINE op(d, x) == IF x \in yes THEN Append(d, x) ELSE d
           step == [i \in 1 .. Len(s) |-> [d \in Seq(D) |-> op(d, s[i])]]
           Is(g) == g = [S \in SUBSET (DOMAIN s) |->
                           IF S = {} THEN <<>> ELSE op(g[S \ {Max(S)}], s[Max(S)])]
           iter == CHOOSE g : Is(g)
<1>1. PICK n \in Nat : n = Len(s) /\ DOMAIN s = 1 .. n /\ \A i \in 1 .. n : s[i] \in D
  OBVIOUS
<1>2. step \in [1 .. n -> [Seq(D) -> Seq(D)]] /\ <<>> \in Seq(D)
  BY <1>1
<1>3. \A i \in 1 .. n, d \in Seq(D) : step[i][d] = op(d, s[i])
  BY <1>1
<1> HIDE DEF step
<1>4. PICK g : Folds(g, Seq(D), <<>>, n, step)
  BY <1>2, FoldExists
<1>5. Is(g)
  <2>1. ASSUME NEW S \in SUBSET (1 .. n), S # {}
        PROVE  g[S] = op(g[S \ {Max(S)}], s[Max(S)])
    <3>1. Max(S) \in 1 .. n /\ S \ {Max(S)} \in SUBSET (1 .. n)
      BY <2>1, MaxPart
    <3>2. g[S \ {Max(S)}] \in Seq(D) /\ g[S] = step[Max(S)][g[S \ {Max(S)}]]
      BY <1>4, <2>1, <3>1 DEF Folds
    <3>3. QED
      BY <1>3, <3>1, <3>2
  <2>2. g[{}] = <<>> /\ g = [S \in SUBSET (1 .. n) |-> g[S]]
    BY <1>4 DEF Folds
  <2>3. QED
    BY <1>1, <2>1, <2>2
<1>6. Is(iter)
  <2> HIDE DEF Is
  <2> QED BY <1>5
<1>7. Kept(s, yes) = iter[1 .. n]
  BY <1>1 DEF Kept, FoldLeft, MapThenFoldSet
<1> HIDE DEF iter
<1>8. Unfolds(iter, Seq(D), <<>>, n, step)
  <2>1. ASSUME NEW S \in SUBSET (1 .. n), S # {}, iter[S \ {Max(S)}] \in Seq(D)
        PROVE  iter[S] = step[Max(S)][iter[S \ {Max(S)}]]
    <3>1. iter[S] = op(iter[S \ {Max(S)}], s[Max(S)])
      <4> HIDE DEF op
      <4> QED BY <1>1, <1>6, <2>1
    <3>2. QED
      BY <1>3, <2>1, <3>1, MaxPart
  <2>2. iter[{}] = <<>>
    BY <1>1, <1>6
  <2>3. QED
    BY <2>1, <2>2 DEF Unfolds
<1>9. PICK h : Stepwise(h, Seq(D), <<>>, n, step) /\ h[n] = iter[1 .. n]
  <2> DEFINE T == Seq(D)
  <2>1. <<>> \in T /\ step \in [1 .. n -> [T -> T]] /\ Unfolds(iter, T, <<>>, n, step)
    BY <1>2, <1>8
  <2> HIDE DEF T
  <2>2. \E h : Stepwise(h, T, <<>>, n, step) /\ h[n] = iter[1 .. n]
    BY <2>1, FoldStepwise
  <2>3. QED
    BY <2>2 DEF T
<1>10. ASSUME NEW i \in 1 .. n PROVE h[i] = op(h[i - 1], s[i])
  <2>1. i - 1 \in 0 .. n
    OBVIOUS
  <2>2. h[i - 1] \in Seq(D) /\ h[i] = step[i][h[i - 1]]
    BY <1>9, <2>1 DEF Stepwise
  <2>3. QED
    BY <1>3, <2>2
<1>11. KeptBy(h, s, yes, D)
  BY <1>1, <1>7, <1>9, <1>10 DEF Stepwise, KeptBy
<1>12. QED
  BY <1>11

\* A sequence is parted by a filter and its opposite.
LEMMA KeptParts ==
    ASSUME NEW D, NEW s \in Seq(D), NEW yes, NEW no,
           \A i \in 1 .. Len(s) : s[i] \in no <=> s[i] \notin yes
    PROVE  Len(Kept(s, yes)) + Len(Kept(s, no)) = Len(s)
<1>1. PICK n \in Nat : n = Len(s)
  OBVIOUS
<1>2. PICK h : KeptBy(h, s, yes, D)
  BY KeptStepwise
<1>3. PICK k : KeptBy(k, s, no, D)
  BY KeptStepwise
<1> DEFINE good == {m \in 0 .. n : Len(h[m]) + Len(k[m]) = m}
<1>4. 0 \in good
  BY <1>2, <1>3 DEF KeptBy
<1>5. ASSUME NEW m \in 1 .. n, m - 1 \in good PROVE m \in good
  <2>0. m - 1 \in 0 .. n /\ s[m] \in D
    BY <1>1
  <2>1. PICK u \in Seq(D), v \in Seq(D) : u = h[m - 1] /\ v = k[m - 1]
    BY <1>1, <1>2, <1>3, <2>0 DEF KeptBy
  <2>2. Len(u) + Len(v) = m - 1
    BY <1>5, <2>1
  <2> SUFFICES Len(h[m]) + Len(k[m]) = m
    <3>1. m \in 0 .. n
      BY <2>0
    <3>2. QED
      BY <3>1
  <2> HIDE DEF good
  <2>3. CASE s[m] \in yes
    <3>1. h[m] = Append(u, s[m]) /\ k[m] = v
      BY <1>1, <1>2, <1>3, <2>1, <2>3 DEF KeptBy
    <3>2. Len(Append(u, s[m])) + Len(v) = m
      BY <2>0, <2>2
    <3>3. QED
      BY <3>1, <3>2
  <2>4. CASE s[m] \notin yes
    <3>1. k[m] = Append(v, s[m]) /\ h[m] = u
      BY <1>1, <1>2, <1>3, <2>1, <2>4 DEF KeptBy
    <3>2. Len(u) + Len(Append(v, s[m])) = m
      BY <2>0, <2>2
    <3>3. QED
      BY <3>1, <3>2
  <2>5. QED
    BY <2>3, <2>4
<1>6. n \in good
  <2> HIDE DEF good
  <2>1. 0 .. n \subseteq good
    BY <1>4, <1>5, InductionUpTo
  <2>2. QED
    BY <2>1
<1>7. QED
  BY <1>1, <1>2, <1>3, <1>6 DEF KeptBy

\* at says where in the first m elements of s each element of k comes from.
Picks(at, k, s, m, yes) ==
    /\ at \in [1 .. Len(k) -> 1 .. m]
    /\ \A i \in 1 .. Len(k) : k[i] = s[at[i]] /\ s[at[i]] \in yes
    /\ \A i, j \in 1 .. Len(k) : i < j => at[i] < at[j]
    /\ \A i \in 1 .. m : s[i] \in yes => \E j \in 1 .. Len(k) : at[j] = i

LEMMA PicksOneMore ==
    ASSUME NEW D, NEW s \in Seq(D), NEW yes, NEW m \in 1 .. Len(s), NEW k \in Seq(D),
           NEW at, Picks(at, k, s, m - 1, yes), s[m] \in yes
    PROVE  \E more : Picks(more, Append(k, s[m]), s, m, yes)
<1> DEFINE l == Len(k)
           more == [i \in 1 .. l + 1 |-> IF i = l + 1 THEN m ELSE at[i]]
           ks == Append(k, s[m])
<1>1. s[m] \in D /\ l \in Nat /\ m \in Nat \ {0}
  OBVIOUS
<1>2. Len(ks) = l + 1 /\ ks[l + 1] = s[m] /\ \A i \in 1 .. l : ks[i] = k[i]
  BY <1>1
<1>3. at \in [1 .. l -> 1 .. m - 1]
  BY DEF Picks
<1> HIDE DEF l
<1>4. more[l + 1] = m /\ \A i \in 1 .. l : more[i] = at[i] /\ at[i] \in 1 .. m - 1
  BY <1>1, <1>3
<1>5. \A i \in 1 .. l + 1 : i = l + 1 \/ i \in 1 .. l
  BY <1>1
<1>6. more \in [1 .. l + 1 -> 1 .. m]
  BY <1>1, <1>3
<1> HIDE DEF more, ks
<1>7. \A i \in 1 .. l + 1 : ks[i] = s[more[i]] /\ s[more[i]] \in yes
  BY <1>2, <1>4, <1>5 DEF Picks, l
<1>8. ASSUME NEW i \in 1 .. l + 1, NEW j \in 1 .. l + 1, i < j PROVE more[i] < more[j]
  <2>1. i \in 1 .. l
    BY <1>1, <1>8
  <2>2. CASE j = l + 1
    BY <1>1, <1>4, <2>1, <2>2
  <2>3. CASE j \in 1 .. l
    BY <1>4, <1>8, <2>1, <2>3 DEF Picks, l
  <2>4. QED
    BY <1>5, <2>2, <2>3
<1>9. ASSUME NEW i \in 1 .. m, s[i] \in yes PROVE \E j \in 1 .. l + 1 : more[j] = i
  <2>1. CASE i = m
    BY <1>1, <1>4, <2>1
  <2>2. CASE i # m
    <3>1. i \in 1 .. m - 1
      BY <1>1, <2>2
    <3>2. PICK j \in 1 .. l : at[j] = i
      BY <1>9, <3>1 DEF Picks, l
    <3>3. QED
      BY <1>1, <1>4, <3>2
  <2>3. QED
    BY <2>1, <2>2
<1>10. Picks(more, ks, s, m, yes)
  BY <1>2, <1>6, <1>7, <1>8, <1>9 DEF Picks
<1>11. QED
  BY <1>10 DEF ks

LEMMA PicksNoMore ==
    ASSUME NEW D, NEW s \in Seq(D), NEW yes, NEW m \in 1 .. Len(s), NEW k \in Seq(D),
           NEW at, Picks(at, k, s, m - 1, yes), s[m] \notin yes
    PROVE  Picks(at, k, s, m, yes)
<1>1. m \in Nat \ {0} /\ \A i \in 1 .. m : i = m \/ i \in 1 .. m - 1
  OBVIOUS
<1>2. at \in [1 .. Len(k) -> 1 .. m]
  BY <1>1 DEF Picks
<1>3. QED
  BY <1>1, <1>2 DEF Picks

\* What is kept is what is in yes, each element where it stood.
LEMMA KeptPicks ==
    ASSUME NEW D, NEW s \in Seq(D), NEW yes
    PROVE  /\ Kept(s, yes) \in Seq(D)
           /\ \E at : Picks(at, Kept(s, yes), s, Len(s), yes)
<1>1. PICK h : KeptBy(h, s, yes, D)
  BY KeptStepwise
<1>2. PICK n \in Nat : n = Len(s)
  OBVIOUS
<1> DEFINE good == {m \in 0 .. n : \E at : Picks(at, h[m], s, m, yes)}
<1>3. 0 \in good
  <2> DEFINE at == [i \in 1 .. 0 |-> 0]
  <2>1. Len(h[0]) = 0 /\ 1 .. 0 = {}
    BY <1>1 DEF KeptBy
  <2>2. Picks(at, h[0], s, 0, yes)
    BY <2>1 DEF Picks
  <2>3. QED
    BY <2>2
<1>4. ASSUME NEW m \in 1 .. n, m - 1 \in good PROVE m \in good
  <2>1. PICK at : Picks(at, h[m - 1], s, m - 1, yes)
    BY <1>4
  <2>2. h[m - 1] \in Seq(D) /\ m \in 1 .. Len(s)
    BY <1>1, <1>2 DEF KeptBy
  <2>3. CASE s[m] \in yes
    <3>1. h[m] = Append(h[m - 1], s[m])
      BY <1>1, <1>2, <2>3 DEF KeptBy
    <3>2. PICK more : Picks(more, Append(h[m - 1], s[m]), s, m, yes)
      BY <2>1, <2>2, <2>3, PicksOneMore
    <3>3. Picks(more, h[m], s, m, yes)
      BY <3>1, <3>2
    <3>4. QED
      BY <3>3
  <2>4. CASE s[m] \notin yes
    <3>1. h[m] = h[m - 1]
      BY <1>1, <1>2, <2>4 DEF KeptBy
    <3>2. Picks(at, h[m], s, m, yes)
      BY <2>1, <2>2, <2>4, <3>1, PicksNoMore
    <3>3. QED
      BY <3>2
  <2>5. QED
    BY <2>3, <2>4
<1>5. n \in good
  <2> HIDE DEF good
  <2>1. 0 .. n \subseteq good
    BY <1>3, <1>4, InductionUpTo
  <2>2. QED
    BY <2>1
<1>6. QED
  BY <1>1, <1>2, <1>5 DEF KeptBy

\* What is kept of a sequence is of it, and nothing that should be is left out.
LEMMA KeptAmong ==
    ASSUME NEW s, IsSequence(s), NEW yes
    PROVE  /\ Kept(s, yes) \in Seq(Range(s))
           /\ \A i \in 1 .. Len(Kept(s, yes)) : Kept(s, yes)[i] \in yes
           /\ \A i \in 1 .. Len(s) : s[i] \in yes => Len(Kept(s, yes)) > 0
<1> DEFINE D == Range(s)
           k == Kept(s, yes)
<1>1. s \in Seq(D)
  BY DEF IsSequence
<1> HIDE DEF D
<1>2. k \in Seq(D) /\ \E at : Picks(at, k, s, Len(s), yes)
  BY <1>1, KeptPicks
<1> HIDE DEF k
<1>3. PICK at : Picks(at, k, s, Len(s), yes)
  BY <1>2
<1>4. \A i \in 1 .. Len(k) : k[i] \in yes
  BY <1>3 DEF Picks
<1>5. ASSUME NEW i \in 1 .. Len(s), s[i] \in yes PROVE Len(k) > 0
  <2>1. PICK j \in 1 .. Len(k) : at[j] = i
    BY <1>3, <1>5 DEF Picks
  <2>2. Len(k) \in Nat
    BY <1>2
  <2>3. QED
    BY <2>1, <2>2
<1>6. QED
  BY <1>2, <1>4, <1>5 DEF D, k

\* The sequences in front, one after the other, are f.
Flattens(f, s, D, m) ==
    /\ f \in [1 .. m -> Seq(D)]
    /\ \A i \in 1 .. m : f[i] = IF i = 1 THEN s[i] ELSE f[i - 1] \o s[i]

\* What a sequence of sequences comes to holds nothing they do not.
LEMMA FlattenedAmong ==
    ASSUME NEW D, NEW s \in Seq(Seq(D))
    PROVE  FlattenSeq(s) \in Seq(D)
<1> DEFINE Is(f) == f = [i \in 1 .. Len(s) |-> IF i = 1 THEN s[i] ELSE f[i - 1] \o s[i]]
           flat == CHOOSE f : Is(f)
<1>1. PICK n \in Nat : n = Len(s) /\ \A i \in 1 .. n : s[i] \in Seq(D)
  OBVIOUS
<1>2. CASE n = 0
  <2>1. FlattenSeq(s) = s
    BY <1>1, <1>2 DEF FlattenSeq
  <2>2. s \in [1 .. n -> Seq(D)] /\ 1 .. n = {}
    <3>1. \A E : \A q \in Seq(E) : q \in [1 .. Len(q) -> E]
      OBVIOUS
    <3>2. s \in [1 .. n -> Seq(D)]
      BY ONLY <3>1, <1>1, s \in Seq(Seq(D))
    <3>3. QED
      BY <1>2, <3>2
  <2>3. s \in Seq(D)
    <3>1. s \in [1 .. n -> D]
      BY <2>2
    <3>2. QED
      BY <3>1
  <2>4. QED
    BY <2>1, <2>3
<1>3. CASE n # 0
  <2> DEFINE Good == {m \in 0 .. n : \E f : Flattens(f, s, D, m)}
  <2>1. 0 \in Good
    <3> DEFINE f == [i \in 1 .. 0 |-> <<>>]
    <3>1. Flattens(f, s, D, 0)
      BY DEF Flattens
    <3>2. QED
      BY <3>1
  <2>2. ASSUME NEW m \in 1 .. n, m - 1 \in Good PROVE m \in Good
    <3>1. PICK f : Flattens(f, s, D, m - 1)
      BY <2>2
    <3>2. m \in Nat \ {0} /\ (\A i \in 1 .. m : i = m \/ i \in 1 .. m - 1) /\ s[m] \in Seq(D)
      BY <1>1
    <3>3. m # 1 => f[m - 1] \in Seq(D)
      BY <3>1, <3>2 DEF Flattens
    <3> DEFINE last == IF m = 1 THEN s[m] ELSE f[m - 1] \o s[m]
               g == [i \in 1 .. m |-> IF i = m THEN last ELSE f[i]]
    <3>4. last \in Seq(D)
      BY <3>2, <3>3
    <3>5. g[m] = last /\ \A i \in 1 .. m - 1 : g[i] = f[i] /\ f[i] \in Seq(D)
      <4>1. \A i \in 1 .. m - 1 : f[i] \in Seq(D) /\ i \in 1 .. m /\ i # m
        BY <3>1, <3>2 DEF Flattens
      <4>2. m \in 1 .. m
        BY <3>2
      <4> HIDE DEF last
      <4>3. QED
        BY <4>1, <4>2
    <3>6. g \in [1 .. m -> Seq(D)]
      <4> HIDE DEF last
      <4> QED BY <3>2, <3>4, <3>5
    <3>7. ASSUME NEW i \in 1 .. m PROVE g[i] = IF i = 1 THEN s[i] ELSE g[i - 1] \o s[i]
      <4> HIDE DEF g
      <4>1. CASE i = m
        <5>1. m # 1 => g[m - 1] = f[m - 1]
          BY <3>2, <3>5
        <5>2. QED
          BY <3>5, <4>1, <5>1
      <4>2. CASE i \in 1 .. m - 1
        <5>1. i # 1 => i - 1 \in 1 .. m - 1
          BY <4>2
        <5>2. QED
          BY <3>1, <3>5, <4>2, <5>1 DEF Flattens
      <4>3. QED
        BY <3>2, <4>1, <4>2
    <3> HIDE DEF g
    <3>8. Flattens(g, s, D, m)
      BY <3>6, <3>7 DEF Flattens
    <3>9. QED
      BY <3>8
  <2>3. n \in Good
    <3> HIDE DEF Good
    <3>1. 0 .. n \subseteq Good
      BY <2>1, <2>2, InductionUpTo
    <3>2. QED
      BY <3>1
  <2>4. PICK f : Flattens(f, s, D, n)
    BY <2>3
  <2>5. Is(f)
    BY <1>1, <2>4 DEF Flattens
  <2>6. Is(flat)
    <3> HIDE DEF Is
    <3> QED BY <2>5
  <2>7. FlattenSeq(s) = flat[n]
    BY <1>1, <1>3 DEF FlattenSeq
  <2> HIDE DEF flat
  <2>8. ASSUME NEW i \in 1 .. n, i - 1 \in {j \in 0 .. n : j = 0 \/ flat[j] \in Seq(D)}
        PROVE  i \in {j \in 0 .. n : j = 0 \/ flat[j] \in Seq(D)}
    <3>1. flat[i] = IF i = 1 THEN s[i] ELSE flat[i - 1] \o s[i]
      BY <1>1, <2>6
    <3>2. i = 1 \/ flat[i - 1] \in Seq(D)
      BY <2>8
    <3>3. s[i] \in Seq(D)
      BY <1>1
    <3>4. flat[i] \in Seq(D)
      BY <3>1, <3>2, <3>3
    <3>5. i \in 0 .. n
      BY <1>1
    <3>6. QED
      BY <3>4, <3>5
  <2>9. 0 .. n \subseteq {j \in 0 .. n : j = 0 \/ flat[j] \in Seq(D)}
    <3> DEFINE T == {j \in 0 .. n : j = 0 \/ flat[j] \in Seq(D)}
    <3>1. 0 \in T /\ \A i \in 1 .. n : i - 1 \in T => i \in T
      BY <2>8
    <3> HIDE DEF T
    <3>2. 0 .. n \subseteq T
      BY <3>1, InductionUpTo
    <3>3. QED
      BY <3>2 DEF T
  <2>10. QED
    BY <1>3, <2>7, <2>9
<1>4. QED
  BY <1>2, <1>3

LEMMA SequenceOf ==
    ASSUME NEW D, NEW s \in Seq(D)
    PROVE  IsSequence(s) /\ Range(s) \subseteq D /\ DOMAIN s = 1 .. Len(s) /\ Len(s) \in Nat
<1>1. s \in [1 .. Len(s) -> D] /\ DOMAIN s = 1 .. Len(s) /\ Len(s) \in Nat
  OBVIOUS
<1>2. \A i \in 1 .. Len(s) : s[i] \in Range(s)
  BY <1>1 DEF Range
<1>3. s \in [1 .. Len(s) -> Range(s)]
  BY <1>1, <1>2
<1>4. s \in Seq(Range(s))
  <2> DEFINE R == Range(s)
  <2> HIDE DEF R
  <2>1. s \in [1 .. Len(s) -> R]
    BY <1>3 DEF R
  <2>2. s \in Seq(R)
    BY <1>1, <2>1
  <2>3. QED
    BY <2>2 DEF R
<1>5. Range(s) \subseteq D
  BY <1>1 DEF Range
<1>6. QED
  BY <1>1, <1>4, <1>5 DEF IsSequence

LEMMA SequenceDomain ==
    ASSUME NEW s, IsSequence(s)
    PROVE  DOMAIN s = 1 .. Len(s) /\ Len(s) \in Nat /\ \A i \in 1 .. Len(s) : s[i] \in Range(s)
<1>1. s \in Seq(Range(s))
  BY DEF IsSequence
<1>2. DOMAIN s = 1 .. Len(s) /\ Len(s) \in Nat
  BY <1>1, SequenceOf
<1>3. \A i \in DOMAIN s : s[i] \in Range(s)
  BY DEF Range
<1>4. QED
  BY <1>2, <1>3

LEMMA FunctionListed ==
    ASSUME NEW n \in Nat, NEW f, DOMAIN f = 1 .. n, f = [i \in 1 .. n |-> f[i]]
    PROVE  IsSequence(f) /\ Len(f) = n
<1> DEFINE R == Range(f)
<1>1. \A i \in 1 .. n : f[i] \in R
  BY DEF Range
<1> HIDE DEF R
<1>2. f \in [1 .. n -> R]
  BY <1>1
<1>3. f \in Seq(R) /\ Len(f) = n
  BY <1>2
<1>4. QED
  BY <1>3 DEF R, IsSequence

LEMMA FlattenedFrom ==
    ASSUME NEW n \in Nat, NEW s, DOMAIN s = 1 .. n, s = [i \in 1 .. n |-> s[i]],
           \A i \in 1 .. n : IsSequence(s[i])
    PROVE  /\ IsSequence(FlattenSeq(s))
           /\ \A x \in Range(FlattenSeq(s)) : \E i \in 1 .. n : x \in Range(s[i])
<1> DEFINE D == UNION {Range(s[i]) : i \in 1 .. n}
<1>1. ASSUME NEW i \in 1 .. n PROVE s[i] \in Seq(D)
  <2>1. s[i] \in Seq(Range(s[i])) /\ Range(s[i]) \subseteq D
    BY DEF IsSequence
  <2> DEFINE R == Range(s[i])
  <2> HIDE DEF R, D
  <2>2. s[i] \in Seq(R) /\ R \subseteq D
    BY <2>1 DEF R
  <2>3. QED
    BY <2>2
<1>2. \A x \in D : \E i \in 1 .. n : x \in Range(s[i])
  OBVIOUS
<1> HIDE DEF D
<1>3. s \in Seq(Seq(D))
  <2> DEFINE E == Seq(D)
  <2> HIDE DEF E
  <2>1. s \in [1 .. n -> E]
    BY <1>1 DEF E
  <2>2. s \in Seq(E)
    BY <2>1
  <2>3. QED
    BY <2>2 DEF E
<1>4. FlattenSeq(s) \in Seq(D)
  BY <1>3, FlattenedAmong
<1>5. QED
  BY <1>2, <1>4, SequenceOf

LEMMA JoinedFrom ==
    ASSUME NEW a, IsSequence(a), NEW b, IsSequence(b)
    PROVE  /\ IsSequence(a \o b) /\ Len(a \o b) = Len(a) + Len(b)
           /\ \A x \in Range(a \o b) : x \in Range(a) \/ x \in Range(b)
<1> DEFINE D == Range(a) \cup Range(b)
<1>1. a \in Seq(Range(a)) /\ b \in Seq(Range(b))
  BY DEF IsSequence
<1>2. a \in Seq(D) /\ b \in Seq(D)
  <2> DEFINE A == Range(a)
             B == Range(b)
  <2>1. a \in Seq(A) /\ b \in Seq(B) /\ A \subseteq D /\ B \subseteq D
    BY <1>1
  <2> HIDE DEF A, B, D
  <2>2. QED
    BY <2>1
<1>3. \A x \in D : x \in Range(a) \/ x \in Range(b)
  OBVIOUS
<1> HIDE DEF D
<1>4. a \o b \in Seq(D) /\ Len(a \o b) = Len(a) + Len(b)
  BY <1>2
<1>5. IsSequence(a \o b) /\ Range(a \o b) \subseteq D
  BY <1>4, SequenceOf
<1>6. QED
  BY <1>3, <1>4, <1>5

LEMMA PrefixFrom ==
    ASSUME NEW s, IsSequence(s), NEW n \in 0 .. Len(s)
    PROVE  /\ IsSequence(SubSeq(s, 1, n)) /\ Len(SubSeq(s, 1, n)) = n
           /\ Range(SubSeq(s, 1, n)) \subseteq Range(s)
<1> DEFINE D == Range(s)
<1>1. s \in Seq(D)
  BY DEF IsSequence
<1> HIDE DEF D
<1>2. Len(s) \in Nat
  BY <1>1
<1>3. SubSeq(s, 1, n) \in Seq(D) /\ Len(SubSeq(s, 1, n)) = n
  <2>1. n \in Nat /\ \A i \in 1 .. n : i \in 1 .. Len(s)
    BY <1>2
  <2>2. SubSeq(s, 1, n) = [i \in 1 .. n |-> s[i]]
    BY <1>1, <2>1
  <2>3. \A i \in 1 .. n : s[i] \in D
    BY <1>1, <2>1
  <2>4. QED
    BY <2>1, <2>2, <2>3
<1>4. QED
  BY <1>3, SequenceOf DEF D

-----------------------------------------------------------------------------
(* Sums.                                                                     *)

\* h is the sum of the first elements of s.
SummedBy(h, s) ==
    /\ h \in [0 .. Len(s) -> Nat]
    /\ h[0] = 0
    /\ \A i \in 1 .. Len(s) : h[i] = h[i - 1] + s[i]
    /\ Summed(s) = h[Len(s)]

LEMMA SummedStepwise ==
    ASSUME NEW s \in Seq(Nat)
    PROVE  \E h : SummedBy(h, s)
<1> DEFINE op(d, x) == d + x
           step == [i \in 1 .. Len(s) |-> [d \in Nat |-> op(d, s[i])]]
           Is(g) == g = [S \in SUBSET (DOMAIN s) |->
                           IF S = {} THEN 0 ELSE op(g[S \ {Max(S)}], s[Max(S)])]
           iter == CHOOSE g : Is(g)
<1>1. PICK n \in Nat : n = Len(s) /\ DOMAIN s = 1 .. n /\ \A i \in 1 .. n : s[i] \in Nat
  OBVIOUS
<1>2. step \in [1 .. n -> [Nat -> Nat]]
  BY <1>1
<1>3. \A i \in 1 .. n, d \in Nat : step[i][d] = op(d, s[i])
  BY <1>1
<1> HIDE DEF step
<1>4. PICK g : Folds(g, Nat, 0, n, step)
  BY <1>2, FoldExists
<1>5. Is(g)
  <2>1. ASSUME NEW S \in SUBSET (1 .. n), S # {}
        PROVE  g[S] = op(g[S \ {Max(S)}], s[Max(S)])
    <3>1. Max(S) \in 1 .. n /\ S \ {Max(S)} \in SUBSET (1 .. n)
      BY <2>1, MaxPart
    <3>2. g[S \ {Max(S)}] \in Nat /\ g[S] = step[Max(S)][g[S \ {Max(S)}]]
      BY <1>4, <2>1, <3>1 DEF Folds
    <3>3. QED
      BY <1>3, <3>1, <3>2
  <2>2. g[{}] = 0 /\ g = [S \in SUBSET (1 .. n) |-> g[S]]
    BY <1>4 DEF Folds
  <2>3. QED
    BY <1>1, <2>1, <2>2
<1>6. Is(iter)
  <2> HIDE DEF Is
  <2> QED BY <1>5
<1>7. Summed(s) = iter[1 .. n]
  BY <1>1 DEF Summed, FoldLeft, MapThenFoldSet
<1> HIDE DEF iter
<1>8. Unfolds(iter, Nat, 0, n, step)
  <2>1. ASSUME NEW S \in SUBSET (1 .. n), S # {}, iter[S \ {Max(S)}] \in Nat
        PROVE  iter[S] = step[Max(S)][iter[S \ {Max(S)}]]
    <3>1. iter[S] = op(iter[S \ {Max(S)}], s[Max(S)])
      <4> HIDE DEF op
      <4> QED BY <1>1, <1>6, <2>1
    <3>2. QED
      BY <1>3, <2>1, <3>1, MaxPart
  <2>2. iter[{}] = 0
    BY <1>1, <1>6
  <2>3. QED
    BY <2>1, <2>2 DEF Unfolds
<1>9. PICK h : Stepwise(h, Nat, 0, n, step) /\ h[n] = iter[1 .. n]
  <2> DEFINE T == Nat
  <2>1. 0 \in T /\ step \in [1 .. n -> [T -> T]] /\ Unfolds(iter, T, 0, n, step)
    BY <1>2, <1>8
  <2> HIDE DEF T
  <2>2. \E h : Stepwise(h, T, 0, n, step) /\ h[n] = iter[1 .. n]
    BY <2>1, FoldStepwise
  <2>3. QED
    BY <2>2 DEF T
<1>10. ASSUME NEW i \in 1 .. n PROVE h[i] = op(h[i - 1], s[i])
  <2>1. i - 1 \in 0 .. n
    OBVIOUS
  <2>2. h[i - 1] \in Nat /\ h[i] = step[i][h[i - 1]]
    BY <1>9, <2>1 DEF Stepwise
  <2>3. QED
    BY <1>3, <2>2
<1>11. SummedBy(h, s)
  BY <1>1, <1>7, <1>9, <1>10 DEF Stepwise, SummedBy
<1>12. QED
  BY <1>11

LEMMA SummedNat ==
    ASSUME NEW s \in Seq(Nat)
    PROVE  Summed(s) \in Nat
<1>1. PICK h : SummedBy(h, s)
  BY SummedStepwise
<1>2. Len(s) \in 0 .. Len(s)
  OBVIOUS
<1>3. QED
  BY <1>1, <1>2 DEF SummedBy

\* A sum changes by what one of its terms changes by.
LEMMA SummedChange ==
    ASSUME NEW s \in Seq(Nat), NEW t \in Seq(Nat), Len(t) = Len(s), NEW at \in 1 .. Len(s),
           \A i \in 1 .. Len(s) : i # at => t[i] = s[i]
    PROVE  Summed(t) = Summed(s) + t[at] - s[at]
<1>1. PICK n \in Nat : n = Len(s) /\ n = Len(t) /\ \A i \in 1 .. n : s[i] \in Nat /\ t[i] \in Nat
  <2>1. \A i \in 1 .. Len(s) : s[i] \in Nat
    OBVIOUS
  <2>2. \A i \in 1 .. Len(t) : t[i] \in Nat
    OBVIOUS
  <2>3. Len(s) \in Nat
    OBVIOUS
  <2>4. QED
    BY ONLY <2>1, <2>2, <2>3, Len(t) = Len(s)
<1>2. PICK h : SummedBy(h, s)
  BY SummedStepwise
<1>3. PICK k : SummedBy(k, t)
  BY SummedStepwise
<1> DEFINE good == {m \in 0 .. n : k[m] = IF m < at THEN h[m] ELSE h[m] + t[at] - s[at]}
<1>4. 0 \in good
  BY <1>1, <1>2, <1>3 DEF SummedBy
<1>5. ASSUME NEW m \in 1 .. n, m - 1 \in good PROVE m \in good
  <2>1. m - 1 \in 0 .. n /\ at \in 1 .. n /\ m \in 0 .. n
    BY <1>1
  <2>2. h[m - 1] \in Nat /\ k[m - 1] \in Nat /\ s[m] \in Nat /\ t[m] \in Nat
          /\ s[at] \in Nat /\ t[at] \in Nat
    BY <1>1, <1>2, <1>3, <2>1 DEF SummedBy
  <2>3. h[m] = h[m - 1] + s[m] /\ k[m] = k[m - 1] + t[m]
    BY <1>1, <1>2, <1>3 DEF SummedBy
  <2>4. k[m - 1] = IF m - 1 < at THEN h[m - 1] ELSE h[m - 1] + t[at] - s[at]
    BY <1>5
  <2> SUFFICES k[m] = IF m < at THEN h[m] ELSE h[m] + t[at] - s[at]
    BY <2>1
  <2> HIDE DEF good
  <2>5. CASE m < at
    BY <1>1, <2>1, <2>2, <2>3, <2>4, <2>5
  <2>6. CASE m = at
    BY <1>1, <2>1, <2>2, <2>3, <2>4, <2>6
  <2>7. CASE m > at
    <3>1. ~(m - 1 < at) /\ ~(m < at) /\ m # at
      BY <2>1, <2>7
    <3>2. t[m] = s[m]
      BY <1>1, <3>1
    <3>3. PICK x \in Nat, y \in Nat, z \in Nat, w \in Nat :
            x = h[m - 1] /\ y = s[m] /\ z = t[at] /\ w = s[at]
      BY <2>2
    <3>4. h[m] = x + y /\ k[m] = (x + z - w) + y
      BY <2>3, <2>4, <3>1, <3>2, <3>3
    <3>5. k[m] = h[m] + z - w
      BY <3>4
    <3>6. QED
      BY <3>1, <3>3, <3>5
  <2>8. QED
    BY <2>1, <2>5, <2>6, <2>7
<1>6. n \in good
  <2> HIDE DEF good
  <2>1. 0 .. n \subseteq good
    BY <1>4, <1>5, InductionUpTo
  <2>2. QED
    BY <2>1
<1>7. ~(n < at)
  BY <1>1
<1>8. QED
  BY <1>1, <1>2, <1>3, <1>6, <1>7 DEF SummedBy

\* A sum of nothing is nothing.
LEMMA SummedZero ==
    ASSUME NEW s \in Seq(Nat), \A i \in 1 .. Len(s) : s[i] = 0
    PROVE  Summed(s) = 0
<1>1. PICK n \in Nat : n = Len(s)
  OBVIOUS
<1>2. PICK h : SummedBy(h, s)
  BY SummedStepwise
<1>3. ASSUME NEW m \in 1 .. n, h[m - 1] \in {0} PROVE h[m] \in {0}
  BY <1>1, <1>2, <1>3 DEF SummedBy
<1>4. h[0] \in {0}
  BY <1>2 DEF SummedBy
<1>5. \A i \in 0 .. n : h[i] \in {0}
  BY <1>3, <1>4, StaysIn
<1>6. QED
  BY <1>1, <1>2, <1>5 DEF SummedBy
=============================================================================
