---------------------------- MODULE FoldInduction ----------------------------
(***************************************************************************)
(* Facts about a loop over a sequence (FoldLeft), for any body Op, any     *)
(* start Base and any loop invariant Inv.  To use them, instantiate the    *)
(* module with the body and the invariant of the loop at hand; x is what   *)
(* the body refers to from outside.                                        *)
(***************************************************************************)
EXTENDS Naturals, Sequences, SequencesExt, FiniteSetTheorems, TLAPS

CONSTANTS
    Elements,       \* what the loop runs over
    Op(_, _, _),    \* one turn: what was computed, the element, x
    Base,           \* before the first turn
    Inv(_, _, _)    \* of what was read, what was computed, x

Fold(s, x) == FoldLeft(LAMBDA acc, e : Op(acc, e, x), Base, s)

-----------------------------------------------------------------------------
\* A set of naturals that is not empty has a least member.
LEMMA LeastExists ==
  ASSUME NEW T \in SUBSET Nat, T # {}
  PROVE  \E n \in T : \A m \in T : n <= m
<1> DEFINE Below == {1..n : n \in T}
<1>1. Below \subseteq FiniteSubsetsOf(Nat)
  BY FS_Interval DEF FiniteSubsetsOf
<1>2. IsWellFoundedOn(StrictSubsetOrdering(Nat), FiniteSubsetsOf(Nat))
  BY FS_StrictSubsetOrderingWellFounded
<1>3. \E x \in Below : \A y \in Below : ~(<<y, x>> \in StrictSubsetOrdering(Nat))
  <2>1. Below # {}
    OBVIOUS
  <2> HIDE DEF Below
  <2> QED
    BY <1>1, <1>2, <2>1, WFMin
<1>4. PICK n \in T : \A y \in Below : ~(<<y, 1..n>> \in StrictSubsetOrdering(Nat))
  BY <1>3
<1>5. ASSUME NEW m \in T, m < n PROVE FALSE
  <2>1. 1..m \in Below
    OBVIOUS
  <2>2. 1..m \subseteq 1..n /\ 1..m # 1..n /\ 1..n \subseteq Nat
    BY <1>5
  <2> QED
    BY <1>4, <2>1, <2>2 DEF StrictSubsetOrdering
<1> QED
  BY <1>4, <1>5

\* Max of a segment of the naturals, with or without its last member.
LEMMA MaxOfTop ==
  ASSUME NEW n \in Nat, NEW T \in SUBSET (1..n), n \in T
  PROVE  Max(T) = n
<1>1. \A y \in T : n >= y
  OBVIOUS
<1>2. \A x \in T : (\A y \in T : x >= y) => x = n
  OBVIOUS
<1> QED
  BY <1>1, <1>2 DEF Max

-----------------------------------------------------------------------------
(* The recursive function that FoldLeft stands for exists.                 *)

\* g computes the loop over the members of T, from the greatest down.
Computes(g, seq, x, S) ==
    g = [T \in SUBSET S |-> IF T = {} THEN Base
                            ELSE Op(g[T \ {Max(T)}], seq[Max(T)], x)]

\* What FoldLeft is.
LEMMA FoldIs ==
  ASSUME NEW seq, NEW x
  PROVE  Fold(seq, x) = (CHOOSE g : Computes(g, seq, x, DOMAIN seq))[DOMAIN seq]
  BY DEF Fold, FoldLeft, MapThenFoldSet, Computes

\* The function exists over every segment of the naturals.
LEMMA ComputesExists ==
  ASSUME NEW seq, NEW x
  PROVE  \A n \in Nat : \E g : Computes(g, seq, x, 1..n)
<1> DEFINE Without == {n \in Nat : ~\E g : Computes(g, seq, x, 1..n)}
<1>1. ASSUME Without # {} PROVE FALSE
  <2>1. PICK n \in Without : \A m \in Without : n <= m
    BY <1>1, LeastExists
  <2>2. CASE n = 0
    <3> DEFINE g == [T \in SUBSET (1..0) |-> Base]
    <3>1. \A T \in SUBSET (1..0) : T = {}
      OBVIOUS
    <3>2. Computes(g, seq, x, 1..0)
      BY <3>1 DEF Computes
    <3> QED
      BY <2>1, <2>2, <3>2
  <2>3. CASE n # 0
    <3>1. n \in Nat \ {0} /\ n - 1 \in Nat /\ n - 1 \notin Without
      BY <2>1, <2>3
    <3>2. PICK g : Computes(g, seq, x, 1..(n - 1))
      BY <3>1
    <3> DEFINE h == [T \in SUBSET (1..n) |-> IF n \in T THEN Op(g[T \ {n}], seq[n], x) ELSE g[T]]
    <3>3. ASSUME NEW T \in SUBSET (1..n)
          PROVE  h[T] = IF T = {} THEN Base ELSE Op(h[T \ {Max(T)}], seq[Max(T)], x)
      <4>1. CASE n \in T
        <5>1. Max(T) = n
          BY <3>1, <4>1, MaxOfTop
        <5>2. h[T \ {n}] = g[T \ {n}]
          OBVIOUS
        <5> QED
          BY <4>1, <5>1, <5>2
      <4>2. CASE n \notin T
        <5>1. T \in SUBSET (1..(n - 1))
          BY <3>1, <4>2
        <5>2. g[T] = IF T = {} THEN Base ELSE Op(g[T \ {Max(T)}], seq[Max(T)], x)
          BY <3>2, <5>1 DEF Computes
        <5>3. h[T] = g[T] /\ h[T \ {Max(T)}] = g[T \ {Max(T)}]
          BY <4>2
        <5> QED
          BY <5>2, <5>3
      <4> QED
        BY <4>1, <4>2
    <3>4. Computes(h, seq, x, 1..n)
      BY <3>3 DEF Computes
    <3> QED
      BY <2>1, <3>4
  <2> QED
    BY <2>2, <2>3
<1> QED
  BY <1>1

\* Two such functions agree on the segments where their sequences do.
LEMMA ComputesAgree ==
  ASSUME NEW s, NEW t, NEW g, NEW h, NEW x, NEW m \in Nat, NEW n \in Nat,
         m <= n, Computes(g, s, x, 1..m), Computes(h, t, x, 1..n),
         \A i \in 1..m : s[i] = t[i]
  PROVE  \A k \in 0..m : g[1..k] = h[1..k]
<1> DEFINE Apart == {k \in 0..m : g[1..k] # h[1..k]}
<1>1. ASSUME Apart # {} PROVE FALSE
  <2>0. Apart \in SUBSET Nat
    OBVIOUS
  <2>1. PICK k \in Apart : \A j \in Apart : k <= j
    <3> HIDE DEF Apart
    <3> QED
      BY <1>1, <2>0, LeastExists
  <2>2. CASE k = 0
    <3>1. 1..k = {}
      BY <2>2
    <3>2. g[{}] = Base /\ h[{}] = Base
      BY DEF Computes
    <3> QED
      BY <2>1, <3>1, <3>2
  <2>3. CASE k # 0
    <3>1. k \in 1..m /\ k \in Nat /\ k - 1 \in 0..m /\ k - 1 \notin Apart
      BY <2>1, <2>3
    <3>2. 1..k # {} /\ Max(1..k) = k /\ (1..k) \ {k} = 1..(k - 1)
      <4>1. k \in 1..k /\ (1..k) \ {k} = 1..(k - 1)
        BY <3>1
      <4>2. Max(1..k) = k
        BY <3>1, <4>1, MaxOfTop
      <4> QED
        BY <4>1, <4>2
    <3>3. 1..k \in SUBSET (1..m) /\ 1..k \in SUBSET (1..n)
      BY <3>1
    <3>4. g[1..k] = Op(g[1..(k - 1)], s[k], x)
      <4>1. g[1..k] = Op(g[(1..k) \ {Max(1..k)}], s[Max(1..k)], x)
        BY <3>2, <3>3 DEF Computes
      <4> QED
        BY <3>2, <4>1
    <3>5. h[1..k] = Op(h[1..(k - 1)], t[k], x)
      <4>1. h[1..k] = Op(h[(1..k) \ {Max(1..k)}], t[Max(1..k)], x)
        BY <3>2, <3>3 DEF Computes
      <4> QED
        BY <3>2, <4>1
    <3> QED
      BY <2>1, <3>1, <3>4, <3>5
  <2> QED
    BY <2>2, <2>3
<1> QED
  BY <1>1

\* A function for one member more takes one turn more.
LEMMA OneMore ==
  ASSUME NEW s, NEW t, NEW g, NEW h, NEW x, NEW n \in Nat,
         Computes(g, s, x, 1..n), Computes(h, t, x, 1..(n + 1)),
         \A i \in 1..n : s[i] = t[i]
  PROVE  h[1..(n + 1)] = Op(g[1..n], t[n + 1], x)
<1> PICK m \in Nat : m = n + 1 /\ n <= m
  OBVIOUS
<1>1. g[1..n] = h[1..n]
  BY ComputesAgree
<1>2. n + 1 \in 1..(n + 1) /\ (1..(n + 1)) \ {n + 1} = 1..n
  OBVIOUS
<1>3. Max(1..(n + 1)) = n + 1
  BY <1>2, MaxOfTop
<1>4. h[1..(n + 1)] = Op(h[(1..(n + 1)) \ {Max(1..(n + 1))}], t[Max(1..(n + 1))], x)
  BY <1>2 DEF Computes
<1> QED
  BY <1>1, <1>2, <1>3, <1>4

\* Nothing was read.
THEOREM FoldEmpty ==
  ASSUME NEW x
  PROVE  Fold(<<>>, x) = Base
<1> DEFINE g == CHOOSE g : Computes(g, <<>>, x, {})
<1>1. \E f : Computes(f, <<>>, x, 1..0)
  BY ComputesExists
<1>2. 1..0 = {} /\ DOMAIN <<>> = {}
  OBVIOUS
<1>3. Computes(g, <<>>, x, {})
  BY <1>1, <1>2
<1>4. Fold(<<>>, x) = g[{}]
  BY <1>2, FoldIs
<1> HIDE DEF g
<1>5. g[{}] = Base
  BY <1>3 DEF Computes
<1> QED
  BY <1>4, <1>5

\* A sequence that is longer by one.
LEMMA FoldLonger ==
  ASSUME NEW s, NEW t, NEW x, NEW n \in Nat,
         DOMAIN s = 1..n, DOMAIN t = 1..(n + 1), \A i \in 1..n : s[i] = t[i]
  PROVE  Fold(t, x) = Op(Fold(s, x), t[n + 1], x)
<1>1. PICK g : g = CHOOSE f : Computes(f, s, x, 1..n)
  OBVIOUS
<1>2. PICK h : h = CHOOSE f : Computes(f, t, x, 1..(n + 1))
  OBVIOUS
<1>3. Computes(g, s, x, 1..n)
  BY <1>1, ComputesExists
<1>4. Computes(h, t, x, 1..(n + 1))
  <2>1. n + 1 \in Nat
    OBVIOUS
  <2>2. \E f : Computes(f, t, x, 1..(n + 1))
    BY <2>1, ComputesExists
  <2> QED
    BY <1>2, <2>2
<1>5. h[1..(n + 1)] = Op(g[1..n], t[n + 1], x)
  BY <1>3, <1>4, OneMore
<1>6. Fold(s, x) = g[1..n] /\ Fold(t, x) = h[1..(n + 1)]
  BY <1>1, <1>2, FoldIs
<1> QED
  BY <1>5, <1>6

\* One element more is one turn more.
THEOREM FoldAppend ==
  ASSUME NEW s \in Seq(Elements), NEW e \in Elements, NEW x
  PROVE  Fold(Append(s, e), x) = Op(Fold(s, x), e, x)
<1> DEFINE n == Len(s)
           t == Append(s, e)
<1>1. /\ DOMAIN s = 1..n /\ DOMAIN t = 1..(n + 1) /\ n \in Nat
      /\ t[n + 1] = e /\ \A i \in 1..n : s[i] = t[i]
  OBVIOUS
<1>2. Fold(t, x) = Op(Fold(s, x), t[n + 1], x)
  <2> HIDE DEF n, t
  <2> QED
    BY <1>1, FoldLonger
<1> QED
  BY <1>1, <1>2

\* A relation between what was read and what was computed holds at the end of
\* every loop, if it holds at the start and every turn keeps it.
THEOREM FoldKeeps ==
  ASSUME NEW x, Inv(<<>>, Base, x),
         \A s \in Seq(Elements), e \in Elements :
            Inv(s, Fold(s, x), x) => Inv(Append(s, e), Op(Fold(s, x), e, x), x)
  PROVE  \A s \in Seq(Elements) : Inv(s, Fold(s, x), x)
<1> DEFINE Broken == {n \in Nat : \E s \in Seq(Elements) : Len(s) = n /\ ~Inv(s, Fold(s, x), x)}
<1>1. ASSUME Broken # {} PROVE FALSE
  <2>1. PICK n \in Broken : \A m \in Broken : n <= m
    BY <1>1, LeastExists
  <2>2. PICK s \in Seq(Elements) : Len(s) = n /\ ~Inv(s, Fold(s, x), x)
    BY <2>1
  <2>3. CASE n = 0
    <3>1. s = <<>>
      BY <2>2, <2>3
    <3> QED
      BY <2>2, <3>1, FoldEmpty
  <2>4. CASE n # 0
    <3> DEFINE front == [i \in 1..(n - 1) |-> s[i]]
    <3>1. n - 1 \in Nat /\ front \in Seq(Elements) /\ Len(front) = n - 1 /\ s[n] \in Elements
      BY <2>2, <2>4
    <3>2. s = Append(front, s[n])
      BY <2>2, <2>4, <3>1
    <3>3. n - 1 \notin Broken
      BY <2>1, <3>1
    <3>4. Inv(front, Fold(front, x), x)
      BY <3>1, <3>3
    <3>5. Fold(s, x) = Op(Fold(front, x), s[n], x)
      BY <3>1, <3>2, FoldAppend
    <3> QED
      BY <2>2, <3>1, <3>2, <3>4, <3>5
  <2> QED
    BY <2>3, <2>4
<1> QED
  BY <1>1
=============================================================================
