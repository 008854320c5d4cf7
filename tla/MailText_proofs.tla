---------------------------- MODULE MailText_proofs ----------------------------
(***************************************************************************)
(* Proofs about the two text formats, for messages and texts of any length.*)
(*                                                                         *)
(* The loops of HeaderRewrite are instances of FoldInduction: each has an  *)
(* invariant that says what was computed from the lines read so far.       *)
(*                                                                         *)
(* Addresses are trimmed and split: lemmas say what is left of a text, and *)
(* that what an address is written as is read as that address.             *)
(***************************************************************************)
EXTENDS MailText, FiniteSetTheorems, TLAPS

\* Lines of a rewritten message: the original's and ours.
AllLines == Lines \union {OwnOfForward[i] : i \in 1..4} \union {OwnOfReply[i] : i \in 1..3}

\* What is not a field has no name.
LEMMA LineShape ==
  \A line \in AllLines :
    /\ line.kind \in {"field", "fold", "text", "empty"}
    /\ line.kind # "field" => line.name = NoName
    /\ line.kind = "field" => line # Empty
<1> DEFINE Shape(line) == /\ line.kind \in {"field", "fold", "text", "empty"}
                          /\ line.kind # "field" => line.name = NoName
                          /\ line.kind = "field" => line # Empty
<1>1. \A name, spelling, who : Shape(Field(name, spelling, who))
  BY DEF Field, Plain, Empty
<1>2. \A kind \in {"fold", "text", "empty"}, who \in Mentions \union {{}} : Shape(Plain(kind, who))
  BY DEF Plain
<1>3. ASSUME NEW line \in Lines PROVE Shape(line)
  <2> HIDE DEF Shape
  <2>1. CASE line \in {Field(name, spelling, who) :
                       name \in Names, spelling \in Spellings, who \in Mentions}
    BY <1>1, <2>1
  <2>2. CASE line \in {Plain("fold", who) : who \in Mentions}
    BY <1>2, <2>2
  <2>3. CASE line \in {Plain("text", {}), Empty}
    BY <1>2, <2>3 DEF Empty
  <2> QED
    BY <1>3, <2>1, <2>2, <2>3 DEF Lines
<1>4. ASSUME NEW line \in AllLines \ Lines PROVE Shape(line)
  <2>1. \E name, who : line = Field(name, "lower", who)
    BY <1>4 DEF AllLines, OwnOfForward, OwnOfReply, Own
  <2> HIDE DEF Shape
  <2> QED
    BY <1>1, <2>1
<1> QED
  BY <1>3, <1>4

-----------------------------------------------------------------------------
(* One more.                                                               *)

\* One place more.
LEMMA OnePlaceMore ==
  ASSUME NEW n \in Nat
  PROVE  /\ 1..(n + 1) = (1..n) \union {n + 1}
         /\ n + 1 \in Nat /\ n + 1 \notin 1..n /\ n + 1 # 0
         /\ n # 0 => n \in 1..n
  OBVIOUS

\* One piece more.
LEMMA OneMore ==
  ASSUME NEW Pieces, NEW s \in Seq(Pieces), NEW e \in Pieces
  PROVE  /\ Append(s, e) \in Seq(Pieces) /\ Append(s, e) # <<>>
         /\ Len(s) \in Nat /\ Len(Append(s, e)) = Len(s) + 1
         /\ Append(s, e)[Len(s) + 1] = e
         /\ \A i \in 1..Len(s) : Append(s, e)[i] = s[i]
         /\ s # <<>> => Len(s) # 0
  OBVIOUS

-----------------------------------------------------------------------------
(* Least and greatest members.                                             *)

\* The least member is the least member.
LEMMA MinIs ==
  ASSUME NEW T \in SUBSET Nat, NEW n \in T, \A m \in T : n <= m
  PROVE  Min(T) = n
<1>1. \A x \in T : (\A y \in T : x <= y) => x = n
  OBVIOUS
<1> QED
  BY <1>1 DEF Min

\* The greatest member is the greatest member.
LEMMA MaxIs ==
  ASSUME NEW T \in SUBSET Nat, NEW n \in T, \A m \in T : m <= n
  PROVE  Max(T) = n
<1>1. \A y \in T : n >= y
  OBVIOUS
<1>2. \A x \in T : (\A y \in T : x >= y) => x = n
  OBVIOUS
<1> QED
  BY <1>1, <1>2 DEF Max

-----------------------------------------------------------------------------
(* Loops over lines.                                                       *)

StripBase == [dropping |-> FALSE, kept |-> <<>>]

\* What strip_headers has kept of the lines h: those that survive, in order, no
\* field of that name among them, and no line that was not there.
Stripping(h, acc, names) ==
    /\ acc.kept \in Seq(AllLines)
    /\ InOrder(acc.kept, h, Surviving(h, names))
    /\ acc.dropping <=> h # <<>> /\ Len(h) \notin Surviving(h, names)
    /\ \A i \in 1..Len(acc.kept) :
         /\ acc.kept[i].kind = "field" => acc.kept[i].name \notin names
         /\ \E j \in 1..Len(h) : acc.kept[i] = h[j]

Strips == INSTANCE FoldInduction
          WITH Elements <- AllLines, Op <- KeepLine, Base <- StripBase, Inv <- Stripping

\* strip_headers is that loop.
LEMMA StripIsFold ==
  \A headers, names : StripHeaders(headers, names) = Strips!Fold(headers, names).kept
  BY DEF StripHeaders, StripBase, FoldLeft, MapThenFoldSet, Max,
         Strips!Fold, Strips!FoldLeft, Strips!MapThenFoldSet, Strips!Max

\* A set of places has a first one.
LEMMA MinExists ==
  ASSUME NEW T \in SUBSET Nat, T # {}
  PROVE  Min(T) \in T /\ \A m \in T : Min(T) <= m
<1>1. PICK n \in T : \A m \in T : n <= m
  BY Strips!LeastExists
<1> QED
  BY <1>1, MinIs

\* A set of places up to n has a last one.
LEMMA MaxExists ==
  ASSUME NEW n \in Nat, NEW T \in SUBSET (0..n), T # {}
  PROVE  Max(T) \in T /\ \A m \in T : m <= Max(T)
<1> DEFINE Above == {k \in 0..n : \A m \in T : m <= k}
<1>1. Above \in SUBSET Nat /\ n \in Above
  OBVIOUS
<1>2. PICK k \in Above : \A l \in Above : k <= l
  <2> HIDE DEF Above
  <2> QED
    BY <1>1, Strips!LeastExists
<1>3. k \in T
  <2>1. CASE k = 0
    <3>1. PICK m \in T : TRUE
      OBVIOUS
    <3>2. m <= k /\ m \in 0..n
      BY <1>2, <3>1
    <3> QED
      BY <2>1, <3>2
  <2>2. CASE k # 0
    <3>1. k \in 0..n /\ k - 1 \in 0..n /\ ~(k <= k - 1)
      BY <1>2, <2>2
    <3>2. k - 1 \notin Above
      <4> HIDE DEF Above
      <4> QED
        BY <1>2, <3>1
    <3>3. PICK m \in T : ~(m <= k - 1)
      BY <3>1, <3>2
    <3>4. m <= k /\ m \in 0..n
      BY <1>2
    <3> QED
      BY <3>1, <3>3, <3>4
  <2> QED
    BY <2>1, <2>2
<1>4. \A m \in T : m <= k
  BY <1>2
<1> QED
  BY <1>3, <1>4, MaxIs

\* One place more at the end is one piece more at the end.
LEMMA InOrderAppend ==
  ASSUME NEW n \in Nat, NEW S \in SUBSET (1..n), NEW Pieces, NEW p \in Seq(Pieces),
         NEW piece \in Pieces, NEW at, NEW longer,
         \A i \in S : longer[i] = at[i], longer[n + 1] = piece, InOrder(p, at, S)
  PROVE  InOrder(Append(p, piece), longer, S \union {n + 1})
<1> DEFINE More == S \union {n + 1}
           Rank(i) == Cardinality({j \in S : j <= i})
<1>1. IsFiniteSet(S) /\ Cardinality(S) \in Nat /\ n + 1 \notin S
  <2>1. IsFiniteSet(1..n)
    BY FS_Interval
  <2>2. IsFiniteSet(S)
    BY <2>1, FS_Subset
  <2> QED
    BY <2>2, FS_CardinalityType
<1>2. Cardinality(More) = Cardinality(S) + 1
  BY <1>1, FS_AddElement
<1>3. Len(p) = Cardinality(S) /\ Len(Append(p, piece)) = Len(p) + 1
  BY DEF InOrder
<1>4. ASSUME NEW i \in S
      PROVE  Append(p, piece)[Cardinality({j \in More : j <= i})] = longer[i]
  <2>1. {j \in More : j <= i} = {j \in S : j <= i}
    OBVIOUS
  <2>2. Rank(i) \in 1..Len(p)
    <3>1. {j \in S : j <= i} \subseteq S /\ i \in {j \in S : j <= i}
      <4>1. i \in 1..n /\ i <= i
        OBVIOUS
      <4> QED
        BY <4>1, Zenon
    <3>2. IsFiniteSet({j \in S : j <= i}) /\ Rank(i) <= Cardinality(S)
      BY <1>1, <3>1, FS_Subset
    <3>3. Rank(i) \in Nat /\ Rank(i) # 0
      BY <3>1, <3>2, FS_CardinalityType, FS_EmptySet
    <3> QED
      BY <1>1, <1>3, <3>2, <3>3
  <2>3. p[Rank(i)] = at[i]
    BY DEF InOrder
  <2> QED
    <3> HIDE DEF More
    <3>1. Append(p, piece)[Rank(i)] = p[Rank(i)]
      BY <2>2
    <3> QED
      BY <2>1, <2>3, <3>1
<1>5. Append(p, piece)[Cardinality({j \in More : j <= n + 1})] = longer[n + 1]
  <2>1. \A j \in More : j <= n + 1
    OBVIOUS
  <2> HIDE DEF More
  <2>2. {j \in More : j <= n + 1} = More
    BY <2>1
  <2>3. Append(p, piece)[Len(p) + 1] = piece
    OBVIOUS
  <2> QED
    BY <1>2, <1>3, <2>2, <2>3
<1> QED
  BY <1>2, <1>3, <1>4, <1>5 DEF InOrder

-----------------------------------------------------------------------------
(* Whose fate a line shares, when one more line is read.                   *)

\* Only lines up to i matter to line i.
LEMMA StartOfBefore ==
  ASSUME NEW h, NEW longer, NEW i \in Nat, \A j \in 1..i : longer[j] = h[j]
  PROVE  /\ StartOf(longer, i) = StartOf(h, i)
         /\ StartOf(h, i) \in 0..i
<1> DEFINE T == {j \in 1..i : h[j].kind # "fold"}
<1>1. {j \in 1..i : longer[j].kind # "fold"} = T
  OBVIOUS
<1>2. CASE T = {}
  BY <1>1, <1>2 DEF StartOf
<1>3. CASE T # {}
  <2>1. T \in SUBSET (0..i)
    OBVIOUS
  <2>2. Max(T) \in T
    <3> HIDE DEF T
    <3> QED
      BY <1>3, <2>1, MaxExists
  <2>3. Max(T) \in 0..i
    BY <2>1, <2>2
  <2> HIDE DEF T
  <2>4. StartOf(longer, i) = Max(T)
    BY <1>1, <1>3 DEF StartOf
  <2>5. StartOf(h, i) = Max(T)
    BY <1>3 DEF StartOf, T
  <2> QED
    BY <2>3, <2>4, <2>5
<1> QED
  BY <1>2, <1>3

\* A continuation line shares the fate of the line before, any other starts anew.
LEMMA StartOfNext ==
  ASSUME NEW h \in Seq(AllLines), NEW line \in AllLines
  PROVE  StartOf(Append(h, line), Len(h) + 1) =
           IF line.kind # "fold" THEN Len(h) + 1 ELSE StartOf(h, Len(h))
<1> DEFINE n == Len(h)
           longer == Append(h, line)
           T == {j \in 1..(n + 1) : longer[j].kind # "fold"}
<1>1. n \in Nat /\ longer[n + 1] = line /\ \A j \in 1..n : longer[j] = h[j]
  OBVIOUS
<1>2. CASE line.kind # "fold"
  <2>1. T \in SUBSET Nat /\ n + 1 \in T /\ \A m \in T : m <= n + 1
    BY <1>1, <1>2
  <2>2. Max(T) = n + 1 /\ T # {}
    <3> HIDE DEF T
    <3> QED
      BY <2>1, MaxIs
  <2> QED
    BY <1>2, <2>2 DEF StartOf
<1>3. CASE line.kind = "fold"
  <2>1. T = {j \in 1..n : longer[j].kind # "fold"}
    BY <1>1, <1>3
  <2>2. StartOf(longer, n + 1) = StartOf(longer, n)
    BY <2>1 DEF StartOf
  <2>3. StartOf(longer, n) = StartOf(h, n)
    <3> HIDE DEF n, longer
    <3> QED
      BY <1>1, StartOfBefore
  <2> QED
    BY <1>3, <2>2, <2>3
<1> QED
  BY <1>2, <1>3

\* The field that a line is part of, when one more line is read.
LEMMA FieldAtNext ==
  ASSUME NEW h \in Seq(AllLines), NEW line \in AllLines
  PROVE  /\ \A i \in 1..Len(h) : FieldAt(Append(h, line), i) = FieldAt(h, i)
         /\ line.kind # "fold" => FieldAt(Append(h, line), Len(h) + 1) = line.name
         /\ line.kind = "fold" =>
              FieldAt(Append(h, line), Len(h) + 1) =
                IF h = <<>> THEN NoName ELSE FieldAt(h, Len(h))
<1> DEFINE n == Len(h)
           longer == Append(h, line)
<1>1. n \in Nat /\ longer[n + 1] = line /\ \A j \in 1..n : longer[j] = h[j]
  OBVIOUS
<1>2. ASSUME NEW i \in 0..n
      PROVE  /\ StartOf(longer, i) = StartOf(h, i)
             /\ StartOf(h, i) # 0 => longer[StartOf(h, i)] = h[StartOf(h, i)]
  <2>1. i \in Nat /\ \A j \in 1..i : longer[j] = h[j]
    BY <1>1
  <2>2. StartOf(longer, i) = StartOf(h, i) /\ StartOf(h, i) \in 0..i
    <3> HIDE DEF n, longer
    <3> QED
      BY <2>1, StartOfBefore
  <2> QED
    BY <2>1, <2>2
<1>3. ASSUME NEW i \in 1..n PROVE FieldAt(longer, i) = FieldAt(h, i)
  <2> HIDE DEF n, longer
  <2>1. i \in 0..n
    BY <1>1
  <2> QED
    BY <1>2, <2>1 DEF FieldAt
<1>4. ASSUME line.kind # "fold" PROVE FieldAt(longer, n + 1) = line.name
  <2>1. StartOf(longer, n + 1) = n + 1
    BY <1>4, StartOfNext
  <2>2. n + 1 # 0
    BY <1>1
  <2> HIDE DEF n, longer
  <2> QED
    BY <1>1, <2>1, <2>2, LineShape DEF FieldAt
<1>5. ASSUME line.kind = "fold"
      PROVE  FieldAt(longer, n + 1) = IF h = <<>> THEN NoName ELSE FieldAt(h, n)
  <2>1. StartOf(longer, n + 1) = StartOf(h, n)
    BY <1>5, StartOfNext
  <2>2. CASE h = <<>>
    <3>1. n = 0 /\ StartOf(h, n) \in 0..n
      <4>1. n = 0
        BY <2>2
      <4> HIDE DEF n
      <4> QED
        BY <1>1, <4>1, StartOfBefore
    <3>2. StartOf(longer, n + 1) = 0
      BY <2>1, <2>2, <3>1
    <3> HIDE DEF n, longer
    <3> QED
      BY <2>2, <3>2 DEF FieldAt
  <2>3. CASE h # <<>>
    <3>1. n \in 0..n
      BY <1>1
    <3> HIDE DEF n, longer
    <3> QED
      BY <1>2, <2>1, <2>3, <3>1 DEF FieldAt
  <2> QED
    BY <2>2, <2>3
<1> QED
  BY <1>3, <1>4, <1>5

-----------------------------------------------------------------------------
(* strip_headers.                                                          *)

\* The lines kept so far end in a field that is dropped.
Dropping(h, names) == h # <<>> /\ Len(h) \notin Surviving(h, names)

\* Which lines survive, when one more line is read.
LEMMA SurvivingNext ==
  ASSUME NEW names, NoName \notin names, NEW h \in Seq(AllLines), NEW line \in AllLines,
         NEW drop \in BOOLEAN,
         drop <=> IF line.kind = "fold" THEN Dropping(h, names) ELSE line.name \in names
  PROVE  Surviving(Append(h, line), names) =
           IF drop THEN Surviving(h, names) ELSE Surviving(h, names) \union {Len(h) + 1}
<1> DEFINE n == Len(h)
           longer == Append(h, line)
<1>1. n \in Nat /\ Len(longer) = n + 1 /\ (h # <<>> => n \in 1..n)
  BY OneMore, OnePlaceMore
<1>2. \A i \in 1..n : FieldAt(longer, i) = FieldAt(h, i)
  BY FieldAtNext
<1>3. FieldAt(longer, n + 1) \in names <=> drop
  <2>1. CASE line.kind # "fold"
    BY <2>1, FieldAtNext
  <2>2. CASE line.kind = "fold"
    <3>1. FieldAt(longer, n + 1) = IF h = <<>> THEN NoName ELSE FieldAt(h, n)
      BY <2>2, FieldAtNext
    <3>2. Dropping(h, names) <=> h # <<>> /\ FieldAt(h, n) \in names
      <4> HIDE DEF longer
      <4> QED
        BY <1>1 DEF Dropping, Surviving
    <3> HIDE DEF n, longer
    <3> QED
      BY <2>2, <3>1, <3>2
  <2> QED
    BY <2>1, <2>2
<1>4. 1..(n + 1) = (1..n) \union {n + 1}
  BY <1>1, OnePlaceMore
<1> HIDE DEF n, longer
<1>5. Surviving(longer, names) = {i \in (1..n) \union {n + 1} : FieldAt(longer, i) \notin names}
  BY <1>1, <1>4 DEF Surviving
<1>6. Surviving(h, names) = {i \in 1..n : FieldAt(h, i) \notin names}
  BY DEF Surviving, n
<1> QED
  BY <1>2, <1>3, <1>5, <1>6 DEF n, longer

\* Before the first line nothing is kept.
LEMMA StrippingStarts == \A names : Stripping(<<>>, StripBase, names)
<1> SUFFICES ASSUME NEW names PROVE Stripping(<<>>, StripBase, names)
  OBVIOUS
<1>1. Surviving(<<>>, names) = {} /\ Len(StripBase.kept) = 0 /\ StripBase.kept = <<>>
  BY DEF Surviving, StripBase
<1>2. InOrder(StripBase.kept, <<>>, Surviving(<<>>, names))
  BY <1>1, FS_EmptySet DEF InOrder
<1>3. ~StripBase.dropping /\ StripBase.kept \in Seq(AllLines)
  BY DEF StripBase
<1> QED
  BY <1>1, <1>2, <1>3 DEF Stripping

\* A turn of strip_headers keeps the line or not, as the reference does.
LEMMA StrippingTurns ==
  ASSUME NEW names, NoName \notin names, NEW h \in Seq(AllLines), NEW line \in AllLines, NEW acc,
         Stripping(h, acc, names)
  PROVE  Stripping(Append(h, line), KeepLine(acc, line, names), names)
<1> DEFINE n == Len(h)
           longer == Append(h, line)
           drop == IF line.kind = "fold" THEN acc.dropping ELSE NameOf(line) \in names
           next == KeepLine(acc, line, names)
           S == Surviving(h, names)
<1>1. /\ n \in Nat /\ Len(longer) = n + 1 /\ longer[n + 1] = line
      /\ \A i \in 1..n : longer[i] = h[i]
  BY OneMore
<1>2. /\ next.dropping = drop
      /\ next.kept = IF drop THEN acc.kept ELSE Append(acc.kept, line)
  BY DEF KeepLine
<1>3. Surviving(longer, names) = IF drop THEN S ELSE S \union {n + 1}
  <2>1. PICK d \in BOOLEAN : d <=> drop
    OBVIOUS
  <2>2. d <=> IF line.kind = "fold" THEN Dropping(h, names) ELSE line.name \in names
    BY <2>1 DEF Stripping, Dropping, NameOf
  <2>3. Surviving(longer, names) = IF d THEN S ELSE S \union {n + 1}
    BY <2>2, SurvivingNext
  <2> QED
    BY <2>1, <2>3
<1>4. S \in SUBSET (1..n)
  BY DEF Surviving
<1> HIDE DEF n, longer, S, next
<1>5. n + 1 \notin S /\ longer # <<>>
  <2>1. n + 1 \notin 1..n
    BY <1>1, OnePlaceMore
  <2>2. longer # <<>>
    BY OneMore DEF longer
  <2> QED
    BY <1>4, <2>1, <2>2
<1>6. CASE drop
  <2>1. InOrder(next.kept, longer, S)
    BY <1>1, <1>2, <1>4, <1>6 DEF Stripping, InOrder, S
  <2>2. next.dropping /\ n + 1 \notin Surviving(longer, names)
    BY <1>2, <1>3, <1>5, <1>6
  <2>3. \A i \in 1..Len(acc.kept) :
          /\ acc.kept[i].kind = "field" => acc.kept[i].name \notin names
          /\ \E j \in 1..(n + 1) : acc.kept[i] = longer[j]
    <3>1. \A j \in 1..n : j \in 1..(n + 1)
      BY <1>1, OnePlaceMore
    <3> QED
      BY <1>1, <3>1 DEF Stripping, n
  <2>4. Stripping(longer, next, names)
    BY <1>1, <1>2, <1>3, <1>5, <1>6, <2>1, <2>2, <2>3 DEF Stripping
  <2> QED
    BY <2>4 DEF next, longer
<1>7. CASE ~drop
  <2>1. next.kept = Append(acc.kept, line) /\ acc.kept \in Seq(AllLines)
    BY <1>2, <1>7 DEF Stripping
  <2>2. InOrder(next.kept, longer, S \union {n + 1})
    <3>1. InOrder(acc.kept, h, S) /\ \A i \in S : longer[i] = h[i]
      BY <1>1, <1>4 DEF Stripping, S
    <3>2. InOrder(Append(acc.kept, line), longer, S \union {n + 1})
      BY <1>1, <1>4, <2>1, <3>1, InOrderAppend
    <3> QED
      BY <2>1, <3>2
  <2>3. ~next.dropping /\ n + 1 \in Surviving(longer, names)
    BY <1>2, <1>3, <1>7
  <2>4. line.kind = "field" => line.name \notin names
    BY <1>7 DEF NameOf
  <2>5. ASSUME NEW i \in 1..Len(next.kept)
        PROVE  /\ next.kept[i].kind = "field" => next.kept[i].name \notin names
               /\ \E j \in 1..(n + 1) : next.kept[i] = longer[j]
    <3>1. CASE i \in 1..Len(acc.kept)
      <4>1. next.kept[i] = acc.kept[i]
        BY <2>1, <3>1, OneMore
      <4>2. PICK j \in 1..n : acc.kept[i] = h[j]
        BY <3>1 DEF Stripping, n
      <4>3. j \in 1..(n + 1) /\ h[j] = longer[j]
        BY <1>1, <4>2, OnePlaceMore
      <4> QED
        BY <3>1, <4>1, <4>2, <4>3 DEF Stripping
    <3>2. CASE i \notin 1..Len(acc.kept)
      <4>1. i = Len(acc.kept) + 1
        <5>1. /\ Len(acc.kept) \in Nat
              /\ 1..Len(next.kept) = (1..Len(acc.kept)) \union {Len(acc.kept) + 1}
          BY <2>1, OneMore, OnePlaceMore
        <5> QED
          BY <3>2, <5>1
      <4>2. next.kept[i] = line /\ n + 1 \in 1..(n + 1)
        BY <1>1, <2>1, <4>1, OneMore, OnePlaceMore
      <4> QED
        BY <1>1, <2>4, <4>2
    <3> QED
      BY <3>1, <3>2
  <2>6. next.kept \in Seq(AllLines)
    BY <2>1, OneMore
  <2>7. Stripping(longer, next, names)
    BY <1>1, <1>3, <1>5, <1>7, <2>2, <2>3, <2>5, <2>6 DEF Stripping
  <2> QED
    BY <2>7 DEF next, longer
<1> QED
  BY <1>6, <1>7

\* What strip_headers returns.
LEMMA StripReturns ==
  ASSUME NEW names, NoName \notin names, NEW h \in Seq(AllLines)
  PROVE  /\ StripHeaders(h, names) \in Seq(AllLines)
         /\ InOrder(StripHeaders(h, names), h, Surviving(h, names))
         /\ \A i \in 1..Len(StripHeaders(h, names)) :
              LET line == StripHeaders(h, names)[i]
              IN  /\ line.kind = "field" => line.name \notin names
                  /\ \E j \in 1..Len(h) : line = h[j]
<1>1. Stripping(<<>>, StripBase, names)
  BY StrippingStarts
<1>2. \A s \in Seq(AllLines), line \in AllLines :
        Stripping(s, Strips!Fold(s, names), names) =>
          Stripping(Append(s, line), KeepLine(Strips!Fold(s, names), line, names), names)
  BY StrippingTurns
<1>3. \A s \in Seq(AllLines) : Stripping(s, Strips!Fold(s, names), names)
  BY <1>1, <1>2, Strips!FoldKeeps
<1>4. Stripping(h, Strips!Fold(h, names), names)
  BY <1>3
<1> QED
  BY <1>4, StripIsFold DEF Stripping

-----------------------------------------------------------------------------
(* header_value.                                                           *)

Starts(h, name) == {i \in 1..Len(h) : h[i].kind = "field" /\ h[i].name = name}

AllSays == {line.says : line \in AllLines}

SaysOf(h) == [i \in 1..Len(h) |-> h[i].says]

ReadBase == [found |-> FALSE, over |-> FALSE, value |-> <<>>]

\* What header_value has read of the lines h: the first field of the name, and
\* whether it goes on.
Reading(h, acc, name) ==
    /\ acc \in [found : BOOLEAN, over : BOOLEAN, value : Seq(AllSays)]
    /\ acc.found <=> Starts(h, name) # {}
    /\ acc.over => acc.found
    /\ ~acc.found => acc.value = <<>>
    /\ acc.found => (acc.over <=> StartOf(h, Len(h)) # Min(Starts(h, name)))
    /\ InOrder(acc.value, SaysOf(h), FirstField(h, name))

Reads == INSTANCE FoldInduction
         WITH Elements <- AllLines, Op <- ReadLine, Base <- ReadBase, Inv <- Reading

\* header_value is that loop.
LEMMA ReadIsFold ==
  \A headers, name : HeaderValue(headers, name) = Reads!Fold(headers, name).value
  BY DEF HeaderValue, ReadBase, FoldLeft, MapThenFoldSet, Max,
         Reads!Fold, Reads!FoldLeft, Reads!MapThenFoldSet, Reads!Max

\* A line that is read adds at most its own place to the starts.
LEMMA StartsNext ==
  ASSUME NEW name, NEW h \in Seq(AllLines), NEW line \in AllLines
  PROVE  Starts(Append(h, line), name) =
           IF line.kind = "field" /\ line.name = name
           THEN Starts(h, name) \union {Len(h) + 1} ELSE Starts(h, name)
<1> PICK n \in Nat : n = Len(h)
  BY OneMore
<1> DEFINE longer == Append(h, line)
<1>1. /\ 1..Len(longer) = (1..n) \union {n + 1}
      /\ longer[n + 1] = line /\ \A i \in 1..n : longer[i] = h[i]
  BY OneMore, OnePlaceMore
<1> HIDE DEF longer
<1>2. Starts(longer, name) =
        {i \in (1..n) \union {n + 1} : longer[i].kind = "field" /\ longer[i].name = name}
  BY <1>1 DEF Starts
<1>3. Starts(h, name) = {i \in 1..n : h[i].kind = "field" /\ h[i].name = name}
  BY DEF Starts
<1> QED
  BY <1>1, <1>2, <1>3 DEF longer

\* The first field once it is found: the next line continues it or not.
LEMMA FirstFieldNext ==
  ASSUME NEW name, NEW h \in Seq(AllLines), NEW line \in AllLines, Starts(h, name) # {},
         NEW m, m = Min(Starts(h, name)), NEW last, last = StartOf(Append(h, line), Len(h) + 1)
  PROVE  /\ m \in 1..Len(h)
         /\ Min(Starts(Append(h, line), name)) = m
         /\ FirstField(Append(h, line), name) =
              IF last = m THEN FirstField(h, name) \union {Len(h) + 1} ELSE FirstField(h, name)
<1> PICK n \in Nat : n = Len(h)
  BY OneMore
<1> PICK longer : longer = Append(h, line)
  OBVIOUS
<1>1. /\ Len(longer) = n + 1 /\ longer[n + 1] = line
      /\ \A i \in 1..n : longer[i] = h[i]
  BY OneMore
<1>2. Starts(h, name) \in SUBSET (1..n) /\ Starts(h, name) \in SUBSET Nat
  BY DEF Starts
<1>3. m \in Starts(h, name) /\ \A i \in Starts(h, name) : m <= i
  BY <1>2, MinExists
<1>4. m \in 1..n
  BY <1>2, <1>3
<1>5. Starts(longer, name) \in {Starts(h, name), Starts(h, name) \union {n + 1}}
  BY StartsNext
<1>6. Min(Starts(longer, name)) = m
  <2>1. /\ Starts(longer, name) \in SUBSET Nat /\ m \in Starts(longer, name)
        /\ \A i \in Starts(longer, name) : m <= i
    BY <1>2, <1>3, <1>4, <1>5
  <2> QED
    BY <2>1, MinIs
<1>7. FirstField(h, name) = {i \in m..n : StartOf(h, i) = m}
  BY DEF FirstField, Starts
<1>8. FirstField(longer, name) = {i \in m..(n + 1) : StartOf(longer, i) = m}
  <2>1. Starts(longer, name) # {}
    BY <1>3, <1>5
  <2> QED
    BY <1>1, <1>6, <2>1 DEF FirstField, Starts
<1>9. \A i \in m..n : StartOf(longer, i) = StartOf(h, i)
  <2> SUFFICES ASSUME NEW i \in m..n PROVE StartOf(longer, i) = StartOf(h, i)
    OBVIOUS
  <2>1. i \in Nat /\ \A j \in 1..i : longer[j] = h[j]
    BY <1>1, <1>4
  <2> QED
    BY <2>1, StartOfBefore
<1>10. m..(n + 1) = (m..n) \union {n + 1}
  BY <1>4
<1>11. FirstField(longer, name) = IF last = m THEN FirstField(h, name) \union {n + 1}
                                  ELSE FirstField(h, name)
  BY <1>7, <1>8, <1>9, <1>10
<1> QED
  BY <1>4, <1>6, <1>11

\* Nothing is found before the first line.
LEMMA ReadingStarts == \A name : Reading(<<>>, ReadBase, name)
<1> SUFFICES ASSUME NEW name PROVE Reading(<<>>, ReadBase, name)
  OBVIOUS
<1>1. /\ ReadBase.value = <<>> /\ Len(ReadBase.value) = 0
      /\ ReadBase.found = FALSE /\ ReadBase.over = FALSE
  BY DEF ReadBase
<1>2. Starts(<<>>, name) = {}
  BY DEF Starts
<1>3. FirstField(<<>>, name) = {}
  BY DEF FirstField
<1>4. InOrder(ReadBase.value, SaysOf(<<>>), FirstField(<<>>, name))
  BY <1>1, <1>3, FS_EmptySet DEF InOrder
<1>5. ReadBase \in [found : BOOLEAN, over : BOOLEAN, value : Seq(AllSays)]
  BY DEF ReadBase
<1> QED
  BY <1>1, <1>2, <1>4, <1>5 DEF Reading

\* A turn of header_value once the field is found.
LEMMA ReadingGoesOn ==
  ASSUME NEW name, NEW h \in Seq(AllLines), NEW line \in AllLines, NEW acc,
         Reading(h, acc, name), acc.found
  PROVE  Reading(Append(h, line), ReadLine(acc, line, name), name)
<1> PICK n \in Nat : n = Len(h)
  BY OneMore
<1> PICK longer : longer = Append(h, line)
  OBVIOUS
<1> PICK next : next = ReadLine(acc, line, name)
  OBVIOUS
<1> PICK m : m = Min(Starts(h, name))
  OBVIOUS
<1> PICK last : last = StartOf(longer, n + 1)
  OBVIOUS
<1>1. /\ Len(longer) = n + 1 /\ longer[n + 1] = line /\ longer # <<>>
      /\ \A i \in 1..n : longer[i] = h[i]
  BY OneMore
<1>2. /\ acc \in [found : BOOLEAN, over : BOOLEAN, value : Seq(AllSays)]
      /\ Starts(h, name) # {} /\ (acc.over <=> StartOf(h, n) # m)
      /\ InOrder(acc.value, SaysOf(h), FirstField(h, name))
  BY DEF Reading
<1>3. /\ m \in 1..n
      /\ Min(Starts(longer, name)) = m
      /\ FirstField(longer, name) =
           IF last = m THEN FirstField(h, name) \union {n + 1} ELSE FirstField(h, name)
  BY <1>2, FirstFieldNext
<1>4. last = IF line.kind # "fold" THEN n + 1 ELSE StartOf(h, n)
  BY StartOfNext
<1>5. m # n + 1 /\ n + 1 \in 1..(n + 1)
  BY <1>3
<1>6. Starts(longer, name) # {}
  BY <1>2, StartsNext
<1>7. FirstField(h, name) \in SUBSET (1..n)
  <2>1. FirstField(h, name) = {i \in m..n : StartOf(h, i) = m}
    BY <1>2 DEF FirstField, Starts
  <2> QED
    BY <1>3, <2>1
<1>8. /\ SaysOf(longer)[n + 1] = line.says /\ line.says \in AllSays
      /\ \A i \in 1..n : SaysOf(longer)[i] = SaysOf(h)[i]
  BY <1>1, <1>5, OnePlaceMore DEF SaysOf, AllSays
<1>9. InOrder(acc.value, SaysOf(longer), FirstField(h, name))
  BY <1>2, <1>7, <1>8 DEF InOrder
<1>10. CASE acc.over
  <2>1. next = acc /\ last # m
    BY <1>2, <1>4, <1>5, <1>10 DEF ReadLine
  <2> QED
    BY <1>1, <1>2, <1>3, <1>6, <1>9, <1>10, <2>1 DEF Reading
<1>11. CASE ~acc.over /\ line.kind = "fold"
  <2>1. next = [acc EXCEPT !.value = Append(@, line.says)] /\ last = m
    BY <1>2, <1>4, <1>11 DEF ReadLine
  <2>2. /\ next \in [found : BOOLEAN, over : BOOLEAN, value : Seq(AllSays)]
        /\ next.value = Append(acc.value, line.says)
        /\ next.found = acc.found /\ next.over = acc.over
    <3>1. Append(acc.value, line.says) \in Seq(AllSays)
      BY <1>2, <1>8
    <3>2. next = [acc EXCEPT !.value = Append(acc.value, line.says)]
      BY <2>1
    <3> QED
      BY <1>2, <3>1, <3>2, Zenon
  <2>3. InOrder(next.value, SaysOf(longer), FirstField(h, name) \union {n + 1})
    <3> PICK places : places = FirstField(h, name)
      OBVIOUS
    <3> PICK value : value = acc.value
      OBVIOUS
    <3> PICK says : says = SaysOf(longer)
      OBVIOUS
    <3>1. places \in SUBSET (1..n) /\ value \in Seq(AllSays) /\ line.says \in AllSays
      BY <1>2, <1>7, <1>8
    <3>2. (\A i \in places : says[i] = SaysOf(h)[i]) /\ says[n + 1] = line.says
      BY <1>7, <1>8
    <3>3. InOrder(value, SaysOf(h), places)
      BY <1>2
    <3>4. InOrder(Append(value, line.says), says, places \union {n + 1})
      BY <3>1, <3>2, <3>3, InOrderAppend
    <3> QED
      BY <2>2, <3>4
  <2> QED
    BY <1>1, <1>3, <1>6, <1>11, <2>1, <2>2, <2>3 DEF Reading
<1>12. CASE ~acc.over /\ line.kind # "fold"
  <2>1. next = [acc EXCEPT !.over = TRUE] /\ last # m
    BY <1>2, <1>4, <1>5, <1>12 DEF ReadLine
  <2>2. /\ next \in [found : BOOLEAN, over : BOOLEAN, value : Seq(AllSays)]
        /\ next.value = acc.value
        /\ next.found = acc.found /\ next.over = TRUE
    BY <1>2, <2>1
  <2> QED
    BY <1>1, <1>3, <1>6, <1>9, <2>1, <2>2 DEF Reading
<1> QED
  BY <1>10, <1>11, <1>12

\* A turn of header_value before the field is found.
LEMMA ReadingBegins ==
  ASSUME NEW name, NEW h \in Seq(AllLines), NEW line \in AllLines, NEW acc,
         Reading(h, acc, name), ~acc.found
  PROVE  Reading(Append(h, line), ReadLine(acc, line, name), name)
<1> PICK n \in Nat : n = Len(h)
  BY OneMore
<1> PICK longer : longer = Append(h, line)
  OBVIOUS
<1> PICK next : next = ReadLine(acc, line, name)
  OBVIOUS
<1>1. /\ Len(longer) = n + 1 /\ longer[n + 1] = line /\ longer # <<>>
  BY OneMore
<1>2. /\ acc \in [found : BOOLEAN, over : BOOLEAN, value : Seq(AllSays)]
      /\ Starts(h, name) = {} /\ acc.value = <<>>
      /\ acc.over = FALSE /\ acc.found = FALSE
  BY DEF Reading
<1>3. CASE line.kind = "field" /\ line.name = name
  <2>1. next = [acc EXCEPT !.found = TRUE, !.value = <<line.says>>]
    BY <1>2, <1>3 DEF ReadLine, NameOf
  <2>2. line.says \in AllSays
    BY DEF AllSays
  <2>3. /\ next \in [found : BOOLEAN, over : BOOLEAN, value : Seq(AllSays)]
        /\ next.found = TRUE /\ next.over = FALSE /\ next.value = <<line.says>>
    <3>1. <<line.says>> \in Seq(AllSays)
      BY <2>2
    <3> QED
      BY <1>2, <2>1, <3>1, Zenon
  <2>4. Starts(longer, name) = {n + 1}
    BY <1>2, <1>3, StartsNext
  <2>5. Min(Starts(longer, name)) = n + 1
    <3>1. {n + 1} \in SUBSET Nat /\ n + 1 \in {n + 1} /\ \A i \in {n + 1} : n + 1 <= i
      OBVIOUS
    <3> QED
      BY <2>4, <3>1, MinIs
  <2>6. StartOf(longer, n + 1) = n + 1
    BY <1>3, StartOfNext
  <2>7. FirstField(longer, name) = {n + 1}
    <3>1. FirstField(longer, name) = {i \in (n + 1)..(n + 1) : StartOf(longer, i) = n + 1}
      BY <1>1, <2>4, <2>5 DEF FirstField, Starts
    <3>2. (n + 1)..(n + 1) = {n + 1}
      OBVIOUS
    <3> QED
      BY <2>6, <3>1, <3>2
  <2>8. SaysOf(longer)[n + 1] = line.says
    BY <1>1, OnePlaceMore DEF SaysOf
  <2>9. InOrder(<<line.says>>, SaysOf(longer), {n + 1})
    <3>1. {j \in {n + 1} : j <= n + 1} = {n + 1}
      OBVIOUS
    <3>2. Cardinality({n + 1}) = 1
      BY FS_Singleton
    <3>3. Len(<<line.says>>) = 1 /\ <<line.says>>[1] = SaysOf(longer)[n + 1]
      BY <2>8
    <3> HIDE DEF SaysOf
    <3> QED
      BY <3>1, <3>2, <3>3, Zenon DEF InOrder
  <2> QED
    BY <1>1, <2>3, <2>4, <2>5, <2>6, <2>7, <2>9 DEF Reading
<1>4. CASE ~(line.kind = "field" /\ line.name = name)
  <2>1. next = acc
    <3>1. CASE line.kind = "fold"
      BY <1>2, <3>1 DEF ReadLine
    <3>2. CASE line.kind # "fold"
      BY <1>2, <1>4, <3>2 DEF ReadLine, NameOf
    <3> QED
      BY <3>1, <3>2
  <2>2. Starts(longer, name) = {}
    BY <1>2, <1>4, StartsNext
  <2>3. FirstField(longer, name) = {}
    BY <2>2 DEF FirstField, Starts
  <2>4. InOrder(<<>>, SaysOf(longer), {})
    BY FS_EmptySet DEF InOrder
  <2> QED
    BY <1>2, <2>1, <2>2, <2>3, <2>4 DEF Reading
<1> QED
  BY <1>3, <1>4

\* What header_value returns.
LEMMA ValueReturns ==
  ASSUME NEW name, NEW h \in Seq(AllLines)
  PROVE  /\ HeaderValue(h, name) \in Seq(AllSays)
         /\ InOrder(HeaderValue(h, name), SaysOf(h), FirstField(h, name))
<1>1. Reading(<<>>, ReadBase, name)
  BY ReadingStarts
<1>2. \A s \in Seq(AllLines), line \in AllLines :
        Reading(s, Reads!Fold(s, name), name) =>
          Reading(Append(s, line), ReadLine(Reads!Fold(s, name), line, name), name)
  BY ReadingGoesOn, ReadingBegins
<1>3. \A s \in Seq(AllLines) : Reading(s, Reads!Fold(s, name), name)
  BY <1>1, <1>2, Reads!FoldKeeps
<1>4. Reading(h, Reads!Fold(h, name), name)
  BY <1>3
<1> QED
  BY <1>4, ReadIsFold DEF Reading

-----------------------------------------------------------------------------
(* Headers and body.                                                       *)

\* The headers are the lines before the first empty line that is not the first
\* line of all.
LEMMA HeadersAre ==
  ASSUME NEW A, NEW msg \in Seq(A)
  PROVE  /\ HeadersOf(msg) \in Seq(A)
         /\ Len(HeadersOf(msg)) <= Len(msg)
         /\ \A i \in 1..Len(HeadersOf(msg)) :
              HeadersOf(msg)[i] = msg[i] /\ (i # 1 => msg[i] # Empty)
         /\ \A i \in 2..Len(msg) : msg[i] = Empty => Len(HeadersOf(msg)) < i
         /\ Len(HeadersOf(msg)) = Len(msg) \/ msg[Len(HeadersOf(msg)) + 1] = Empty
         /\ BodyOf(msg) \in Seq(A)
<1> PICK n \in Nat : n = Len(msg)
  OBVIOUS
<1>1. BlankLines(msg) = {i \in 2..n : msg[i] = Empty}
  BY DEF BlankLines
<1>2. CASE BlankLines(msg) = {}
  <2>1. HeadersOf(msg) = msg /\ BodyOf(msg) = <<>>
    BY <1>2 DEF HeadersOf, BodyOf
  <2>2. \A i \in 1..n : i # 1 => i \in 2..n
    OBVIOUS
  <2>3. \A i \in 2..n : msg[i] # Empty
    BY <1>1, <1>2
  <2> QED
    BY <2>1, <2>2, <2>3
<1>3. CASE BlankLines(msg) # {}
  <2> PICK b : b = Min(BlankLines(msg))
    OBVIOUS
  <2>1. BlankLines(msg) \in SUBSET Nat
    BY <1>1
  <2>2. b \in BlankLines(msg) /\ \A i \in BlankLines(msg) : b <= i
    BY <1>3, <2>1, MinExists
  <2>3. b \in 2..n
    BY <1>1, <2>2
  <2>4. HeadersOf(msg) = SubSeq(msg, 1, b - 1) /\ BodyOf(msg) = SubSeq(msg, b + 1, n)
    BY <1>3 DEF HeadersOf, BodyOf
  <2>5. /\ HeadersOf(msg) \in Seq(A) /\ Len(HeadersOf(msg)) = b - 1
        /\ \A i \in 1..(b - 1) : HeadersOf(msg)[i] = msg[i]
    BY <2>3, <2>4
  <2>6. BodyOf(msg) \in Seq(A)
    BY <2>3, <2>4
  <2>7. \A i \in 1..(b - 1) : i # 1 => msg[i] # Empty
    <3>1. \A i \in 1..(b - 1) : i # 1 => i \in 2..n /\ ~(b <= i)
      BY <2>3
    <3> QED
      BY <1>1, <2>2, <3>1
  <2>8. \A i \in 2..n : msg[i] = Empty => b - 1 < i
    <3>1. \A i \in 2..n : b <= i => b - 1 < i
      BY <2>3
    <3> QED
      BY <1>1, <2>2, <3>1
  <2>9. b - 1 <= n /\ msg[(b - 1) + 1] = Empty
    <3>1. b - 1 <= n /\ (b - 1) + 1 = b
      BY <2>3
    <3> QED
      BY <1>1, <2>2, <3>1
  <2> QED
    BY <2>5, <2>6, <2>7, <2>8, <2>9
<1> QED
  BY <1>2, <1>3

\* A message that starts with a header has the body that the code takes.
LEMMA BodyIsTrue ==
  ASSUME NEW A, NEW msg \in Seq(A), msg[1] # Empty
  PROVE  TrueBody(msg) = BodyOf(msg)
<1>1. {i \in 1..Len(msg) : msg[i] = Empty} = {i \in 2..Len(msg) : msg[i] = Empty}
  <2>1. \A i \in 1..Len(msg) : i = 1 \/ i \in 2..Len(msg)
    OBVIOUS
  <2>2. \A i \in 2..Len(msg) : i \in 1..Len(msg)
    OBVIOUS
  <2> QED
    BY <2>1, <2>2
<1> QED
  BY <1>1 DEF TrueBody, BodyOf, BlankLines

\* The lines of a message that is put together from our headers, theirs, an empty
\* line and a body; k lines come before the empty one.
Layout(msg, own, theirs, body, k) ==
    /\ msg \in Seq(AllLines) /\ k \in Nat /\ k = Len(own) + Len(theirs)
    /\ Len(msg) = k + 1 + Len(body)
    /\ \A i \in 1..Len(own) : msg[i] = own[i]
    /\ \A i \in (Len(own) + 1)..k : msg[i] = theirs[i - Len(own)]
    /\ msg[k + 1] = Empty
    /\ SubSeq(msg, k + 2, Len(msg)) = body

\* A message put together like this has these lines.
LEMMA Assembled ==
  ASSUME NEW own \in Seq(AllLines), NEW theirs \in Seq(AllLines), NEW body \in Seq(AllLines)
  PROVE  Layout(own \o theirs \o <<Empty>> \o body, own, theirs, body, Len(own) + Len(theirs))
<1> PICK msg : msg = own \o theirs \o <<Empty>> \o body
  OBVIOUS
<1> PICK k : k = Len(own) + Len(theirs)
  OBVIOUS
<1> PICK both : both = own \o theirs
  OBVIOUS
<1>1. /\ both \in Seq(AllLines) /\ Len(both) = k /\ k \in Nat
      /\ \A i \in 1..Len(own) : both[i] = own[i]
      /\ \A i \in (Len(own) + 1)..k : both[i] = theirs[i - Len(own)]
  OBVIOUS
<1>2. Empty \in AllLines
  BY DEF AllLines, Lines
<1> PICK head : head = both \o <<Empty>>
  OBVIOUS
<1>3. /\ head \in Seq(AllLines) /\ Len(head) = k + 1
      /\ \A i \in 1..k : head[i] = both[i]
      /\ head[k + 1] = Empty
  BY <1>1, <1>2
<1>4. msg = head \o body
  OBVIOUS
<1>5. /\ msg \in Seq(AllLines) /\ Len(msg) = k + 1 + Len(body)
      /\ \A i \in 1..(k + 1) : msg[i] = head[i]
      /\ \A i \in 1..Len(body) : msg[k + 1 + i] = body[i]
  BY <1>1, <1>3, <1>4
<1>6. SubSeq(msg, k + 2, Len(msg)) = body
  BY <1>1, <1>5
<1> QED
  BY <1>1, <1>3, <1>5, <1>6 DEF Layout

-----------------------------------------------------------------------------
(* Rewritten messages.                                                     *)

\* Only fields are stripped.
LEMMA FieldsAreNamed == NoName \notin Stripped /\ NoName \notin StrippedFromReply
  BY Zenon DEF NoName, Stripped, StrippedFromReply

\* What we write ourselves is fields.
Ours(own) == /\ own \in Seq(AllLines) /\ Len(own) > 0
             /\ \A i \in 1..Len(own) : own[i].kind = "field"

\* Our fields of either direction.
LEMMA OwnFields ==
  /\ Ours(OwnOfForward) /\ Len(OwnOfForward) = 4
  /\ Ours(OwnOfReply) /\ Len(OwnOfReply) = 3
<1>1. Len(OwnOfForward) = 4 /\ Len(OwnOfReply) = 3
  BY DEF OwnOfForward, OwnOfReply
<1>2. /\ \A i \in 1..4 : OwnOfForward[i].kind = "field"
      /\ \A i \in 1..3 : OwnOfReply[i].kind = "field"
  BY DEF OwnOfForward, OwnOfReply, Own, Field
<1>3. /\ \A i \in 1..4 : OwnOfForward[i] \in AllLines
      /\ \A i \in 1..3 : OwnOfReply[i] \in AllLines
  BY DEF AllLines
<1>4. /\ OwnOfForward = [i \in 1..4 |-> OwnOfForward[i]]
      /\ OwnOfReply = [i \in 1..3 |-> OwnOfReply[i]]
  BY DEF OwnOfForward, OwnOfReply
<1>5. OwnOfForward \in Seq(AllLines) /\ OwnOfReply \in Seq(AllLines)
  BY <1>3, <1>4
<1> QED
  BY <1>1, <1>2, <1>5 DEF Ours

\* The parts of a rewritten message.
LEMMA Parts ==
  ASSUME NEW msg \in Seq(AllLines), NEW names, NoName \notin names
  PROVE  /\ HeadersOf(msg) \in Seq(AllLines) /\ BodyOf(msg) \in Seq(AllLines)
         /\ StripHeaders(HeadersOf(msg), names) \in Seq(AllLines)
  BY HeadersAre, StripReturns

\* The body of a rewritten message is the original one.
LEMMA RewrittenBody ==
  ASSUME NEW msg \in Seq(AllLines), msg # <<>>, msg[1] # Empty,
         NEW own, Ours(own), NEW names, NoName \notin names
  PROVE  TrueBody(Rewritten(msg, own, names)) = TrueBody(msg)
<1> PICK theirs : theirs = StripHeaders(HeadersOf(msg), names)
  OBVIOUS
<1> PICK new : new = Rewritten(msg, own, names)
  OBVIOUS
<1> PICK k : k = Len(own) + Len(theirs)
  OBVIOUS
<1>1. /\ theirs \in Seq(AllLines) /\ BodyOf(msg) \in Seq(AllLines)
      /\ new = own \o theirs \o <<Empty>> \o BodyOf(msg)
  BY Parts DEF Rewritten
<1>2. own \in Seq(AllLines) /\ \A i \in 1..Len(own) : own[i].kind = "field"
  BY DEF Ours
<1>3. /\ new \in Seq(AllLines) /\ k \in Nat /\ Len(new) = k + 1 + Len(BodyOf(msg))
      /\ \A i \in 1..Len(own) : new[i] = own[i]
      /\ \A i \in (Len(own) + 1)..k : new[i] = theirs[i - Len(own)]
      /\ new[k + 1] = Empty
      /\ SubSeq(new, k + 2, Len(new)) = BodyOf(msg)
  <2>1. Layout(new, own, theirs, BodyOf(msg), k)
    BY <1>1, <1>2, Assembled
  <2> QED
    BY <2>1 DEF Layout
<1>4. \A i \in 1..Len(own) : own[i] # Empty
  BY <1>2 DEF Empty, Plain
<1>5. ASSUME NEW i \in 1..Len(theirs) PROVE theirs[i] # Empty
  <2>1. PICK j \in 1..Len(HeadersOf(msg)) : theirs[i] = HeadersOf(msg)[j]
    <3> PICK headers : headers = HeadersOf(msg)
      OBVIOUS
    <3>1. headers \in Seq(AllLines) /\ theirs = StripHeaders(headers, names)
      BY Parts
    <3>2. \A l \in 1..Len(theirs) : \E j \in 1..Len(headers) : theirs[l] = headers[j]
      BY <3>1, StripReturns
    <3> QED
      BY <3>2
  <2>2. HeadersOf(msg)[j] = msg[j] /\ (j # 1 => msg[j] # Empty)
    BY HeadersAre
  <2> QED
    BY <2>1, <2>2
<1>6. ASSUME NEW i \in 1..k PROVE new[i] # Empty
  <2>1. Len(own) \in Nat /\ Len(theirs) \in Nat
    BY <1>1, <1>2
  <2>2. CASE i \in 1..Len(own)
    BY <1>3, <1>4, <2>2
  <2>3. CASE i \notin 1..Len(own)
    <3>1. i \in (Len(own) + 1)..k /\ i - Len(own) \in 1..Len(theirs)
      BY <2>1, <2>3
    <3> QED
      BY <1>3, <1>5, <3>1
  <2> QED
    BY <2>2, <2>3
<1> PICK blank : blank = {i \in 1..Len(new) : new[i] = Empty}
  OBVIOUS
<1>7. Min(blank) = k + 1 /\ blank # {}
  <2>1. Len(BodyOf(msg)) \in Nat
    BY <1>1
  <2>2. k + 1 \in 1..Len(new) /\ \A i \in 1..Len(new) : i \in 1..k \/ k + 1 <= i
    BY <1>3, <2>1
  <2>3. blank \in SUBSET Nat /\ k + 1 \in blank /\ \A i \in blank : k + 1 <= i
    BY <1>3, <1>6, <2>2
  <2> QED
    BY <2>3, MinIs
<1>8. TrueBody(new) = SubSeq(new, k + 1 + 1, Len(new))
  BY <1>7 DEF TrueBody
<1>9. k + 1 + 1 = k + 2
  BY <1>3
<1> QED
  BY <1>3, <1>8, <1>9, BodyIsTrue

\* The header of a rewritten message is ours, then lines of theirs that are not
\* fields of a stripped name.
LEMMA RewrittenHeaders ==
  ASSUME NEW msg \in Seq(AllLines), NEW own, Ours(own), NEW names, NoName \notin names,
         NEW h, h = HeadersOf(Rewritten(msg, own, names))
  PROVE  /\ h \in Seq(AllLines) /\ Len(own) <= Len(h)
         /\ \A i \in 1..Len(own) : h[i] = own[i]
         /\ \A i \in (Len(own) + 1)..Len(h) : h[i].kind = "field" => h[i].name \notin names
<1> PICK theirs : theirs = StripHeaders(HeadersOf(msg), names)
  OBVIOUS
<1> PICK new : new = Rewritten(msg, own, names)
  OBVIOUS
<1> PICK k : k = Len(own) + Len(theirs)
  OBVIOUS
<1>1. /\ theirs \in Seq(AllLines) /\ BodyOf(msg) \in Seq(AllLines)
      /\ new = own \o theirs \o <<Empty>> \o BodyOf(msg)
  BY Parts DEF Rewritten
<1>2. /\ own \in Seq(AllLines) /\ Len(own) > 0
      /\ \A i \in 1..Len(own) : own[i].kind = "field"
  BY DEF Ours
<1>3. /\ new \in Seq(AllLines) /\ k \in Nat /\ Len(new) = k + 1 + Len(BodyOf(msg))
      /\ \A i \in 1..Len(own) : new[i] = own[i]
      /\ \A i \in (Len(own) + 1)..k : new[i] = theirs[i - Len(own)]
      /\ new[k + 1] = Empty
  <2>1. Layout(new, own, theirs, BodyOf(msg), k)
    BY <1>1, <1>2, Assembled
  <2> QED
    BY <2>1 DEF Layout
<1>4. Len(own) \in Nat /\ Len(theirs) \in Nat /\ Len(BodyOf(msg)) \in Nat
  BY <1>1, <1>2
<1>5. /\ h \in Seq(AllLines) /\ Len(h) <= Len(new)
      /\ \A i \in 1..Len(h) : h[i] = new[i]
      /\ \A i \in 2..Len(new) : new[i] = Empty => Len(h) < i
      /\ Len(h) = Len(new) \/ new[Len(h) + 1] = Empty
  BY <1>3, HeadersAre
<1>6. Len(h) \in Nat
  BY <1>5
<1>7. Len(h) <= k
  <2>1. k + 1 \in 2..Len(new)
    BY <1>2, <1>3, <1>4
  <2>2. Len(h) < k + 1
    BY <1>3, <1>5, <2>1
  <2> QED
    BY <1>3, <1>6, <2>2
<1>8. Len(own) <= Len(h)
  <2>1. ASSUME Len(h) < Len(own) PROVE FALSE
    <3>1. Len(h) + 1 \in 1..Len(own) /\ Len(h) # Len(new)
      BY <1>3, <1>4, <1>6, <2>1
    <3>2. own[Len(h) + 1] = Empty /\ own[Len(h) + 1].kind = "field"
      BY <1>2, <1>3, <1>5, <3>1
    <3> QED
      BY <3>2 DEF Empty, Plain
  <2> QED
    BY <1>4, <1>6, <2>1
<1>9. \A i \in 1..Len(own) : h[i] = own[i]
  <2>1. \A i \in 1..Len(own) : i \in 1..Len(h)
    BY <1>4, <1>6, <1>8
  <2> QED
    BY <1>3, <1>5, <2>1
<1>10. ASSUME NEW i \in (Len(own) + 1)..Len(h), h[i].kind = "field" PROVE h[i].name \notin names
  <2>1. i \in 1..Len(h) /\ i \in (Len(own) + 1)..k /\ i - Len(own) \in 1..Len(theirs)
    BY <1>3, <1>4, <1>6, <1>7
  <2>2. h[i] = theirs[i - Len(own)]
    BY <1>3, <1>5, <2>1
  <2>3. \A j \in 1..Len(theirs) : theirs[j].kind = "field" => theirs[j].name \notin names
    BY Parts, StripReturns
  <2> QED
    BY <1>10, <2>1, <2>2, <2>3
<1> QED
  BY <1>5, <1>8, <1>9, <1>10

\* Fields of a stripped name are ours, at the places where we put them.
LEMMA OnlyOurs ==
  ASSUME NEW msg \in Seq(AllLines), NEW own, Ours(own), NEW names, NoName \notin names,
         NEW h, h = HeadersOf(Rewritten(msg, own, names)), NEW name \in names
  PROVE  Starts(h, name) = Starts(own, name)
<1>1. /\ h \in Seq(AllLines) /\ Len(own) <= Len(h)
      /\ \A i \in 1..Len(own) : h[i] = own[i]
      /\ \A i \in (Len(own) + 1)..Len(h) : h[i].kind = "field" => h[i].name \notin names
  BY RewrittenHeaders
<1>2. Len(own) \in Nat /\ Len(h) \in Nat
  BY <1>1 DEF Ours
<1>3. \A i \in 1..Len(h) : i \in 1..Len(own) \/ i \in (Len(own) + 1)..Len(h)
  BY <1>2
<1>4. \A i \in 1..Len(own) : i \in 1..Len(h)
  BY <1>1, <1>2
<1>5. \A i \in Starts(h, name) : i \in Starts(own, name)
  BY <1>1, <1>3 DEF Starts
<1>6. \A i \in Starts(own, name) : i \in Starts(h, name)
  BY <1>1, <1>4 DEF Starts
<1> QED
  BY <1>5, <1>6

\* A field of ours that no other follows under its name says what we meant.
LEMMA OursIsRead ==
  ASSUME NEW msg \in Seq(AllLines), NEW own, Ours(own), NEW names, NoName \notin names,
         NEW h, h = HeadersOf(Rewritten(msg, own, names)), NEW name \in names,
         NEW p \in Nat, p + 1 \in 1..Len(own), Starts(own, name) = {p}
  PROVE  HeaderValue(h, name) = <<own[p].says>>
<1>1. /\ h \in Seq(AllLines) /\ Len(own) <= Len(h)
      /\ \A i \in 1..Len(own) : h[i] = own[i]
  BY RewrittenHeaders
<1>2. Starts(h, name) = {p}
  BY OnlyOurs
<1>3. Len(own) \in Nat /\ Len(h) \in Nat /\ \A i \in 1..Len(own) : own[i].kind = "field"
  BY <1>1 DEF Ours
<1>4. p \in 1..Len(own) /\ p \in 1..Len(h) /\ p + 1 \in 1..Len(h)
  <2>1. p \in Starts(own, name)
    OBVIOUS
  <2>2. p \in 1..Len(own)
    BY <2>1 DEF Starts
  <2> QED
    BY <1>1, <1>3, <2>2
<1>5. h[p].kind = "field" /\ h[p + 1].kind = "field" /\ h[p] = own[p]
  BY <1>1, <1>3, <1>4
<1>6. Min(Starts(h, name)) = p
  <2>1. {p} \in SUBSET Nat /\ p \in {p} /\ \A i \in {p} : p <= i
    OBVIOUS
  <2> QED
    BY <1>2, <2>1, MinIs
<1>7. StartOf(h, p) = p
  <2> PICK T : T = {j \in 1..p : h[j].kind # "fold"}
    OBVIOUS
  <2>1. T \in SUBSET Nat /\ p \in T /\ \A j \in T : j <= p
    BY <1>4, <1>5
  <2>2. Max(T) = p /\ T # {}
    BY <2>1, MaxIs
  <2> QED
    BY <2>2 DEF StartOf
<1>8. ASSUME NEW i \in (p + 1)..Len(h) PROVE StartOf(h, i) # p
  <2> PICK T : T = {j \in 1..i : h[j].kind # "fold"}
    OBVIOUS
  <2>1. i \in Nat /\ p + 1 \in 1..i
    BY <1>3
  <2>2. p + 1 \in T /\ T \in SUBSET (0..i)
    BY <1>5, <2>1
  <2>3. \A m \in T : m <= Max(T)
    BY <2>1, <2>2, MaxExists
  <2>4. StartOf(h, i) = Max(T)
    BY <2>2 DEF StartOf
  <2>5. p + 1 <= Max(T)
    BY <2>2, <2>3
  <2>6. ~(p + 1 <= p)
    OBVIOUS
  <2> QED
    BY <2>4, <2>5, <2>6
<1>9. FirstField(h, name) = {p}
  <2>1. FirstField(h, name) = {i \in p..Len(h) : StartOf(h, i) = p}
    BY <1>2, <1>6 DEF FirstField, Starts
  <2>2. p..Len(h) = {p} \union ((p + 1)..Len(h))
    BY <1>3, <1>4
  <2> QED
    BY <1>7, <1>8, <2>1, <2>2
<1>10. /\ HeaderValue(h, name) \in Seq(AllSays)
       /\ InOrder(HeaderValue(h, name), SaysOf(h), {p})
  BY <1>1, <1>9, ValueReturns
<1>11. {j \in {p} : j <= p} = {p} /\ Cardinality({p}) = 1
  <2>1. {j \in {p} : j <= p} = {p}
    OBVIOUS
  <2> QED
    BY <2>1, FS_Singleton
<1>12. Len(HeaderValue(h, name)) = 1 /\ HeaderValue(h, name)[1] = SaysOf(h)[p]
  BY <1>10, <1>11 DEF InOrder
<1>13. SaysOf(h)[p] = own[p].says
  BY <1>4, <1>5 DEF SaysOf
<1> QED
  BY <1>10, <1>12, <1>13

-----------------------------------------------------------------------------
(* Addresses.                                                              *)

\* What parse trims.
Blanks == {" "}
Opening == {"<"}
Closing == {">"}
Dots == {"."}

\* What parse looks at.
Inner(s) == TrimEnd(TrimStart(TrimEnd(TrimStart(s, Blanks), Blanks), Opening), Closing)
Ats(s) == {i \in 1..Len(s) : s[i] = "@"}
LocalOf(s) == SubSeq(s, 1, Max(Ats(s)) - 1)
DomainOf(s) == ReadDomain(SubSeq(s, Max(Ats(s)) + 1, Len(s)))
Readable(s) == Ats(s) # {} /\ ValidLocal(LocalOf(s)) /\ ValidDomain(DomainOf(s))

\* parse trims, then splits.
LEMMA ParseIs ==
  \A s : Parse(s) = IF Readable(Inner(s))
                    THEN [local |-> LocalOf(Inner(s)), domain |-> DomainOf(Inner(s))]
                    ELSE Invalid
  BY Zenon DEF Parse, Inner, Readable, Ats, LocalOf, DomainOf, Blanks, Opening, Closing

\* A text that reads like an address is no invalid one.
LEMMA ReadableIsValid ==
  ASSUME NEW s
  PROVE  Readable(s) => [local |-> LocalOf(s), domain |-> DomainOf(s)] # Invalid
  BY DEF Readable, ValidLocal, Invalid

\* The characters that matter are different ones.
LEMMA Characters ==
  /\ \A c \in Letters : c \notin Blanks /\ c \notin Opening /\ c \notin Closing /\ c \notin Dots /\ c # "@"
  /\ \A c \in Blanks : c \notin Opening /\ c \notin Closing /\ c \notin Dots /\ c # "@"
  /\ \A c \in Opening : c \notin Closing /\ c \notin Dots /\ c \notin Blanks /\ c # "@"
  /\ \A c \in Closing : c \notin Opening /\ c \notin Dots /\ c \notin Blanks /\ c # "@"
  /\ \A c \in Dots : c \notin Opening /\ c \notin Closing /\ c \notin Blanks /\ c # "@"
  /\ "@" \notin Blanks /\ "@" \notin Opening /\ "@" \notin Closing /\ "@" \notin Dots
  /\ TextChars = Letters \union Blanks \union Opening \union Closing \union Dots \union {"@"}
  BY Zenon DEF Letters, Blanks, Opening, Closing, Dots, TextChars

\* What a local part of a text must not have: there are no quotes in texts.
LEMMA LocalIs ==
  ASSUME NEW u \in Seq(TextChars)
  PROVE  ValidLocal(u) <=> /\ u # <<>> /\ Len(u) <= MaxLocal
                           /\ \A i \in 1..Len(u) : u[i] \notin Blanks \union Opening \union Closing
<1>1. Quote \notin TextChars
  BY Zenon DEF Quote, TextChars, Letters
<1>2. \A i \in 1..Len(u) : u[i] \in TextChars
  OBVIOUS
<1>3. \A i \in 1..Len(u) : u[i] # Quote
  BY <1>1, <1>2, Zenon
<1> QED
  BY <1>3, Zenon DEF ValidLocal, Blanks, Opening, Closing

\* Part of a sequence.
LEMMA PartOf ==
  ASSUME NEW C, NEW s \in Seq(C), NEW m \in 1..(Len(s) + 1), NEW n \in 0..Len(s), m <= n + 1
  PROVE  /\ SubSeq(s, m, n) \in Seq(C) /\ Len(SubSeq(s, m, n)) = n + 1 - m
         /\ \A i \in 1..(n + 1 - m) : SubSeq(s, m, n)[i] = s[i + m - 1]
  OBVIOUS

\* Sequences of the same elements are the same.
LEMMA SameElements ==
  ASSUME NEW C, NEW s \in Seq(C), NEW t \in Seq(C), Len(s) = Len(t),
         \A i \in 1..Len(s) : s[i] = t[i]
  PROVE  s = t
  OBVIOUS

\* One sequence behind another.
LEMMA Joined ==
  ASSUME NEW C, NEW s \in Seq(C), NEW t \in Seq(C)
  PROVE  /\ s \o t \in Seq(C) /\ Len(s \o t) = Len(s) + Len(t)
         /\ \A i \in 1..Len(s) : (s \o t)[i] = s[i]
         /\ \A i \in 1..Len(t) : (s \o t)[Len(s) + i] = t[i]
         /\ \A i \in (Len(s) + 1)..(Len(s) + Len(t)) : (s \o t)[i] = t[i - Len(s)]
  OBVIOUS

\* Sequences are joined in any order.
LEMMA JoinedInAnyOrder ==
  ASSUME NEW C, NEW s \in Seq(C), NEW t \in Seq(C), NEW u \in Seq(C)
  PROVE  (s \o t) \o u = s \o (t \o u)
  OBVIOUS

\* The same of texts that are known to be texts.
LEMMA TextsInAnyOrder ==
  \A s, t, u \in Seq(TextChars) : (s \o t) \o u = s \o (t \o u)
  BY JoinedInAnyOrder

\* And of headers.
LEMMA HeadersInAnyOrder ==
  \A s, t, u \in Seq(HeaderChars) : (s \o t) \o u = s \o (t \o u)
  BY JoinedInAnyOrder

\* Two texts one after the other.
LEMMA EndToEnd ==
  ASSUME NEW C, NEW s \in Seq(C), NEW t \in Seq(C)
  PROVE  /\ s \o t \in Seq(C) /\ Len(s \o t) = Len(s) + Len(t)
         /\ \A i \in 1..Len(s) : (s \o t)[i] = s[i]
         /\ \A i \in 1..Len(t) : (s \o t)[Len(s) + i] = t[i]
  OBVIOUS

\* Where a text begins that is trimmed at the start.
LEMMA TrimStartAt ==
  ASSUME NEW s, NEW chars, Len(s) \in Nat, NEW k \in 1..Len(s), s[k] \notin chars,
         \A i \in 1..Len(s) : i < k => s[i] \in chars
  PROVE  TrimStart(s, chars) = SubSeq(s, k, Len(s))
<1> DEFINE rest == {i \in 1..Len(s) : s[i] \notin chars}
<1>1. rest \in SUBSET Nat /\ k \in rest /\ \A i \in rest : k <= i
  OBVIOUS
<1>2. Min(rest) = k
  <2> HIDE DEF rest
  <2> QED
    BY <1>1, MinIs
<1> QED
  BY <1>1, <1>2 DEF TrimStart

\* Where a text ends that is trimmed at the end.
LEMMA TrimEndAt ==
  ASSUME NEW s, NEW chars, Len(s) \in Nat, NEW k \in 1..Len(s), s[k] \notin chars,
         \A i \in 1..Len(s) : i > k => s[i] \in chars
  PROVE  TrimEnd(s, chars) = SubSeq(s, 1, k)
<1> DEFINE rest == {i \in 1..Len(s) : s[i] \notin chars}
<1>1. rest \in SUBSET Nat /\ k \in rest /\ \A i \in rest : i <= k
  OBVIOUS
<1>2. Max(rest) = k
  <2> HIDE DEF rest
  <2> QED
    BY <1>1, MaxIs
<1> QED
  BY <1>1, <1>2 DEF TrimEnd

\* Nothing is left of a text of such characters.
LEMMA TrimNone ==
  ASSUME NEW s, NEW chars, \A i \in 1..Len(s) : s[i] \in chars
  PROVE  TrimStart(s, chars) = <<>> /\ TrimEnd(s, chars) = <<>>
<1>1. {i \in 1..Len(s) : s[i] \notin chars} = {}
  OBVIOUS
<1> QED
  BY <1>1 DEF TrimStart, TrimEnd

\* What is left begins, and ends, at a place that has another character.
LEMMA TrimPlace ==
  ASSUME NEW s, NEW chars, Len(s) \in Nat, ~\A i \in 1..Len(s) : s[i] \in chars
  PROVE  /\ \E k \in 1..Len(s) : s[k] \notin chars /\ \A i \in 1..Len(s) : i < k => s[i] \in chars
         /\ \E k \in 1..Len(s) : s[k] \notin chars /\ \A i \in 1..Len(s) : i > k => s[i] \in chars
<1> PICK rest : rest = {i \in 1..Len(s) : s[i] \notin chars}
  OBVIOUS
<1>1. rest # {} /\ rest \in SUBSET Nat /\ rest \in SUBSET (0..Len(s))
  OBVIOUS
<1>2. Min(rest) \in rest /\ \A i \in rest : Min(rest) <= i
  BY <1>1, MinExists
<1>3. Max(rest) \in rest /\ \A i \in rest : i <= Max(rest)
  BY <1>1, MaxExists
<1>4. ASSUME NEW k \in rest, \A i \in rest : k <= i
      PROVE  \E j \in 1..Len(s) : s[j] \notin chars /\ \A i \in 1..Len(s) : i < j => s[i] \in chars
  BY <1>4
<1>5. ASSUME NEW k \in rest, \A i \in rest : i <= k
      PROVE  \E j \in 1..Len(s) : s[j] \notin chars /\ \A i \in 1..Len(s) : i > j => s[i] \in chars
  BY <1>5
<1> QED
  BY <1>2, <1>3, <1>4, <1>5

\* A trimmed text is a text.
LEMMA TrimIsText ==
  ASSUME NEW C, NEW s \in Seq(C), NEW chars
  PROVE  TrimStart(s, chars) \in Seq(C) /\ TrimEnd(s, chars) \in Seq(C)
<1>1. CASE \A i \in 1..Len(s) : s[i] \in chars
  <2>1. TrimStart(s, chars) = <<>> /\ TrimEnd(s, chars) = <<>>
    BY <1>1, TrimNone
  <2> QED
    BY <2>1
<1>2. CASE ~\A i \in 1..Len(s) : s[i] \in chars
  <2>0. Len(s) \in Nat
    OBVIOUS
  <2>1. PICK j \in 1..Len(s) : s[j] \notin chars /\ \A i \in 1..Len(s) : i < j => s[i] \in chars
    BY <1>2, <2>0, TrimPlace
  <2>2. PICK k \in 1..Len(s) : s[k] \notin chars /\ \A i \in 1..Len(s) : i > k => s[i] \in chars
    BY <1>2, <2>0, TrimPlace
  <2>3. TrimStart(s, chars) = SubSeq(s, j, Len(s)) /\ TrimEnd(s, chars) = SubSeq(s, 1, k)
    BY <2>0, <2>1, <2>2, TrimStartAt, TrimEndAt
  <2>4. SubSeq(s, j, Len(s)) \in Seq(C) /\ SubSeq(s, 1, k) \in Seq(C)
    OBVIOUS
  <2> QED
    BY <2>3, <2>4
<1> QED
  BY <1>1, <1>2

\* What parse looks at is a text.
LEMMA InnerIsText ==
  ASSUME NEW C, NEW s \in Seq(C)
  PROVE  Inner(s) \in Seq(C)
  BY TrimIsText DEF Inner

-----------------------------------------------------------------------------
(* Other case.                                                             *)

\* Two texts that differ in the case of letters only.
Alike(s, t) ==
    /\ s \in Seq(TextChars) /\ t \in Seq(TextChars) /\ Len(s) = Len(t)
    /\ \A i \in 1..Len(s) : s[i] = t[i] \/ (s[i] \in Letters /\ t[i] \in Letters)

\* The same part of both.
LEMMA AlikeParts ==
  ASSUME NEW s, NEW t, Alike(s, t), NEW m \in 1..(Len(s) + 1), NEW n \in 0..Len(s), m <= n + 1
  PROVE  Alike(SubSeq(s, m, n), SubSeq(t, m, n))
<1>1. s \in Seq(TextChars) /\ t \in Seq(TextChars) /\ Len(s) = Len(t)
  BY DEF Alike
<1>2. /\ SubSeq(s, m, n) \in Seq(TextChars) /\ Len(SubSeq(s, m, n)) = n + 1 - m
      /\ \A i \in 1..(n + 1 - m) : SubSeq(s, m, n)[i] = s[i + m - 1]
  BY <1>1, PartOf
<1>3. /\ SubSeq(t, m, n) \in Seq(TextChars) /\ Len(SubSeq(t, m, n)) = n + 1 - m
      /\ \A i \in 1..(n + 1 - m) : SubSeq(t, m, n)[i] = t[i + m - 1]
  BY <1>1, PartOf
<1>4. \A i \in 1..(n + 1 - m) : i + m - 1 \in 1..Len(s)
  BY <1>1
<1> QED
  BY <1>2, <1>3, <1>4 DEF Alike

\* Both trimmed of what is no letter.
LEMMA AlikeTrimmed ==
  ASSUME NEW s, NEW t, Alike(s, t), NEW chars, \A c \in Letters : c \notin chars
  PROVE  /\ Alike(TrimStart(s, chars), TrimStart(t, chars))
         /\ Alike(TrimEnd(s, chars), TrimEnd(t, chars))
<1>1. s \in Seq(TextChars) /\ t \in Seq(TextChars) /\ Len(s) = Len(t) /\ Len(s) \in Nat
  BY DEF Alike
<1>2. \A i \in 1..Len(s) : s[i] \in chars <=> t[i] \in chars
  BY DEF Alike
<1>3. CASE \A i \in 1..Len(s) : s[i] \in chars
  <2>1. /\ TrimStart(s, chars) = <<>> /\ TrimEnd(s, chars) = <<>>
        /\ TrimStart(t, chars) = <<>> /\ TrimEnd(t, chars) = <<>>
    BY <1>1, <1>2, <1>3, TrimNone
  <2>2. Alike(<<>>, <<>>)
    BY DEF Alike
  <2> QED
    BY <2>1, <2>2
<1>4. CASE ~\A i \in 1..Len(s) : s[i] \in chars
  <2>1. PICK j \in 1..Len(s) : s[j] \notin chars /\ \A i \in 1..Len(s) : i < j => s[i] \in chars
    BY <1>1, <1>4, TrimPlace
  <2>2. PICK k \in 1..Len(s) : s[k] \notin chars /\ \A i \in 1..Len(s) : i > k => s[i] \in chars
    BY <1>1, <1>4, TrimPlace
  <2>3. TrimStart(s, chars) = SubSeq(s, j, Len(s)) /\ TrimEnd(s, chars) = SubSeq(s, 1, k)
    BY <1>1, <2>1, <2>2, TrimStartAt, TrimEndAt
  <2>4. /\ t[j] \notin chars /\ \A i \in 1..Len(t) : i < j => t[i] \in chars
        /\ t[k] \notin chars /\ \A i \in 1..Len(t) : i > k => t[i] \in chars
    BY <1>1, <1>2, <2>1, <2>2
  <2>5. TrimStart(t, chars) = SubSeq(t, j, Len(t))
    BY <1>1, <2>4, TrimStartAt
  <2>6. TrimEnd(t, chars) = SubSeq(t, 1, k)
    BY <1>1, <2>4, TrimEndAt
  <2>7. Alike(SubSeq(s, j, Len(s)), SubSeq(t, j, Len(s)))
    <3>1. j \in 1..(Len(s) + 1) /\ Len(s) \in 0..Len(s) /\ j <= Len(s) + 1
      BY <1>1
    <3> QED
      BY <3>1, AlikeParts
  <2>8. Alike(SubSeq(s, 1, k), SubSeq(t, 1, k))
    <3>1. 1 \in 1..(Len(s) + 1) /\ k \in 0..Len(s) /\ 1 <= k + 1
      BY <1>1
    <3> QED
      BY <3>1, AlikeParts
  <2> QED
    BY <1>1, <2>3, <2>5, <2>6, <2>7, <2>8
<1> QED
  BY <1>3, <1>4

\* Both become the same in small letters.
LEMMA AlikeLowered ==
  ASSUME NEW s, NEW t, Alike(s, t)
  PROVE  Lower(s) = Lower(t)
<1>1. Len(s) = Len(t) /\ Len(s) \in Nat
  BY DEF Alike
<1>2. \A c, d : c \in Letters /\ d \in Letters =>
         (IF c = "A" THEN "a" ELSE c) = (IF d = "A" THEN "a" ELSE d)
  BY DEF Letters
<1>3. \A i \in 1..Len(s) : (IF s[i] = "A" THEN "a" ELSE s[i]) = (IF t[i] = "A" THEN "a" ELSE t[i])
  <2> SUFFICES ASSUME NEW i \in 1..Len(s)
               PROVE  (IF s[i] = "A" THEN "a" ELSE s[i]) = (IF t[i] = "A" THEN "a" ELSE t[i])
    OBVIOUS
  <2>1. s[i] = t[i] \/ (s[i] \in Letters /\ t[i] \in Letters)
    BY DEF Alike
  <2> QED
    BY <1>2, <2>1
<1> QED
  BY <1>1, <1>3 DEF Lower

\* Both are addresses, and in small letters the same one, if either is.
LEMMA AlikeParsed ==
  ASSUME NEW s, NEW t, Alike(s, t), Readable(Inner(s))
  PROVE  /\ Readable(Inner(t))
         /\ Lower(LocalOf(Inner(t))) = Lower(LocalOf(Inner(s)))
         /\ DomainOf(Inner(t)) = DomainOf(Inner(s))
<1> PICK p : p = Inner(s)
  OBVIOUS
<1> PICK q : q = Inner(t)
  OBVIOUS
<1>1. Alike(p, q)
  BY Characters, AlikeTrimmed DEF Inner
<1>2. Len(p) = Len(q) /\ Len(p) \in Nat /\ p \in Seq(TextChars) /\ q \in Seq(TextChars)
  BY <1>1 DEF Alike
<1>3. Ats(p) = Ats(q)
  <2>1. \A i \in 1..Len(p) : p[i] = "@" <=> q[i] = "@"
    BY <1>1, Characters DEF Alike
  <2> QED
    BY <1>2, <2>1 DEF Ats
<1> PICK m : m = Max(Ats(p))
  OBVIOUS
<1>4. m \in 1..Len(p)
  <2>1. Ats(p) # {} /\ Ats(p) \in SUBSET (0..Len(p)) /\ Ats(p) \subseteq 1..Len(p)
    BY <1>2 DEF Ats, Readable
  <2> QED
    BY <1>2, <2>1, MaxExists
<1>5. Alike(LocalOf(p), LocalOf(q))
  <2>1. 1 \in 1..(Len(p) + 1) /\ m - 1 \in 0..Len(p) /\ 1 <= (m - 1) + 1
    BY <1>2, <1>4
  <2> QED
    BY <1>1, <1>3, <2>1, AlikeParts DEF LocalOf
<1>6. DomainOf(p) = DomainOf(q)
  <2>1. m + 1 \in 1..(Len(p) + 1) /\ Len(p) \in 0..Len(p) /\ m + 1 <= Len(p) + 1
    BY <1>2, <1>4
  <2>2. Alike(SubSeq(p, m + 1, Len(p)), SubSeq(q, m + 1, Len(p)))
    BY <1>1, <2>1, AlikeParts
  <2>3. Alike(TrimEnd(SubSeq(p, m + 1, Len(p)), Dots), TrimEnd(SubSeq(q, m + 1, Len(p)), Dots))
    BY <2>2, Characters, AlikeTrimmed
  <2>4. Lower(TrimEnd(SubSeq(p, m + 1, Len(p)), Dots)) = Lower(TrimEnd(SubSeq(q, m + 1, Len(p)), Dots))
    BY <2>3, AlikeLowered
  <2> QED
    BY <1>2, <1>3, <2>4 DEF DomainOf, ReadDomain, Dots
<1>7. ValidLocal(LocalOf(p)) => ValidLocal(LocalOf(q))
  <2> PICK l : l = LocalOf(p)
    OBVIOUS
  <2> PICK k : k = LocalOf(q)
    OBVIOUS
  <2>1. Alike(l, k)
    BY <1>5
  <2>2. Len(l) = Len(k) /\ l \in Seq(TextChars) /\ k \in Seq(TextChars)
    BY <2>1 DEF Alike
  <2>3. l # <<>> => k # <<>>
    BY <2>2
  <2>4. \A i \in 1..Len(l) : l[i] \notin Blanks \union Opening \union Closing
                             => k[i] \notin Blanks \union Opening \union Closing
    BY <2>1, Characters DEF Alike
  <2>5. \A u \in Seq(TextChars) :
          ValidLocal(u) <=> /\ u # <<>> /\ Len(u) <= MaxLocal
                            /\ \A i \in 1..Len(u) : u[i] \notin Blanks \union Opening \union Closing
    BY LocalIs
  <2> QED
    BY <2>2, <2>3, <2>4, <2>5
<1>8. Lower(LocalOf(p)) = Lower(LocalOf(q))
  BY <1>5, AlikeLowered
<1> QED
  BY <1>3, <1>6, <1>7, <1>8 DEF Readable

-----------------------------------------------------------------------------
(* The way the tables spell it.                                            *)

LowerChar(c) == IF c = "A" THEN "a" ELSE c

\* Small letters are letters, and stay as they are.
LEMMA LowerChars ==
  /\ \A c : LowerChar(LowerChar(c)) = LowerChar(c)
  /\ \A c \in Letters : LowerChar(c) \in Letters
  /\ \A c : c \notin Letters => LowerChar(c) = c
  /\ \A c \in TextChars : LowerChar(c) \in TextChars
<1>1. "a" # "A" /\ "a" \in Letters /\ "A" \in Letters /\ Letters \subseteq TextChars
  BY DEF Letters, TextChars
<1> QED
  BY <1>1 DEF LowerChar

\* Character by character.
LEMMA LowerIs ==
  ASSUME NEW C, NEW s \in Seq(C)
  PROVE  /\ Len(Lower(s)) = Len(s) /\ DOMAIN Lower(s) = 1..Len(s)
         /\ \A i \in 1..Len(s) : Lower(s)[i] = LowerChar(s[i])
  BY DEF Lower, LowerChar

\* A text in small letters is a text.
LEMMA LowerIsText ==
  ASSUME NEW s \in Seq(TextChars)
  PROVE  Lower(s) \in Seq(TextChars) /\ Lower(Lower(s)) = Lower(s)
<1>1. /\ Len(Lower(s)) = Len(s) /\ DOMAIN Lower(s) = 1..Len(s) /\ Len(s) \in Nat
      /\ \A i \in 1..Len(s) : Lower(s)[i] = LowerChar(s[i]) /\ s[i] \in TextChars
  BY LowerIs
<1>2. Lower(s) \in Seq(TextChars)
  <2>1. Lower(s) = [i \in 1..Len(s) |-> Lower(s)[i]]
    BY DEF Lower
  <2>2. \A i \in 1..Len(s) : Lower(s)[i] \in TextChars
    BY <1>1, LowerChars
  <2> QED
    BY <1>1, <2>1, <2>2
<1>3. /\ Len(Lower(Lower(s))) = Len(Lower(s)) /\ DOMAIN Lower(Lower(s)) = 1..Len(Lower(s))
      /\ \A i \in 1..Len(Lower(s)) : Lower(Lower(s))[i] = LowerChar(Lower(s)[i])
  BY <1>2, LowerIs
<1>4. \A i \in 1..Len(s) : LowerChar(LowerChar(s[i])) = LowerChar(s[i])
  BY LowerChars
<1>5. Lower(Lower(s)) = [i \in 1..Len(Lower(s)) |-> Lower(Lower(s))[i]]
  BY DEF Lower
<1>6. Lower(s) = [i \in 1..Len(s) |-> Lower(s)[i]]
  BY DEF Lower
<1> QED
  BY <1>1, <1>2, <1>3, <1>4, <1>5, <1>6

\* A local part stays one.
LEMMA LowerLocal ==
  ASSUME NEW l \in Seq(TextChars), ValidLocal(l)
  PROVE  ValidLocal(Lower(l))
<1>1. /\ Len(Lower(l)) = Len(l) /\ Len(l) \in Nat
      /\ \A i \in 1..Len(l) : Lower(l)[i] = LowerChar(l[i]) /\ l[i] \in TextChars
      /\ Lower(l) \in Seq(TextChars)
  BY LowerIs, LowerIsText
<1>2. \A u \in Seq(TextChars) :
        ValidLocal(u) <=> /\ u # <<>> /\ Len(u) <= MaxLocal
                          /\ \A i \in 1..Len(u) : u[i] \notin Blanks \union Opening \union Closing
  BY LocalIs
<1>3. \A c : c \notin Blanks \union Opening \union Closing
             => LowerChar(c) \notin Blanks \union Opening \union Closing
  BY LowerChars, Characters
<1>4. l # <<>> /\ Len(l) <= MaxLocal /\ Len(l) # 0
  BY <1>2
<1> QED
  BY <1>1, <1>2, <1>3, <1>4

\* The domain of an address: in small letters, without a dot at its end.
Settled(d) ==
    /\ d \in Seq(TextChars) /\ ValidDomain(d) /\ Lower(d) = d
    /\ \A i \in 1..Len(d) : d[i] \in Letters \union Dots
    /\ Len(d) \in Nat \ {0} /\ d[Len(d)] \notin Dots

\* A domain that was read is such a one.
LEMMA DomainIsSettled ==
  ASSUME NEW s \in Seq(TextChars), ValidDomain(ReadDomain(s))
  PROVE  Settled(ReadDomain(s))
<1> PICK e : e = TrimEnd(s, Dots)
  OBVIOUS
<1> PICK d : d = Lower(e)
  OBVIOUS
<1>1. ReadDomain(s) = d
  BY DEF ReadDomain, Dots
<1>2. e \in Seq(TextChars)
  BY TrimIsText
<1>3. d \in Seq(TextChars) /\ Lower(d) = d
  BY <1>2, LowerIsText
<1>4. /\ Len(d) = Len(e) /\ Len(e) \in Nat
      /\ \A i \in 1..Len(e) : d[i] = LowerChar(e[i])
  BY <1>2, LowerIs
<1>5. d # <<>> /\ \A i \in 1..Len(d) : d[i] \in Letters \union Dots
  BY <1>1 DEF ValidDomain, Dots
<1>6. Len(d) # 0
  BY <1>3, <1>5
<1>7. e[Len(e)] \notin Dots
  <2>1. CASE \A i \in 1..Len(s) : s[i] \in Dots
    <3>1. e = <<>>
      BY <2>1, TrimNone
    <3> QED
      BY <1>4, <1>6, <3>1
  <2>2. CASE ~\A i \in 1..Len(s) : s[i] \in Dots
    <3>0. Len(s) \in Nat
      OBVIOUS
    <3>1. PICK k \in 1..Len(s) : s[k] \notin Dots /\ \A i \in 1..Len(s) : i > k => s[i] \in Dots
      BY <2>2, <3>0, TrimPlace
    <3>2. e = SubSeq(s, 1, k)
      BY <3>0, <3>1, TrimEndAt
    <3>3. Len(e) = k /\ e[k] = s[k]
      BY <3>0, <3>1, <3>2
    <3> QED
      BY <3>1, <3>3
  <2> QED
    BY <2>1, <2>2
<1>8. d[Len(d)] \notin Dots
  <2>1. \A c : c \notin Dots => LowerChar(c) \notin Dots
    BY LowerChars, Characters
  <2> QED
    BY <1>4, <1>6, <1>7, <2>1
<1> QED
  BY <1>1, <1>3, <1>4, <1>5, <1>6, <1>8 DEF Settled

\* What an address consists of.
LEMMA PartsOfAddress ==
  ASSUME NEW s \in Seq(TextChars), Readable(s)
  PROVE  /\ LocalOf(s) \in Seq(TextChars) /\ ValidLocal(LocalOf(s))
         /\ Settled(DomainOf(s))
<1> PICK m : m = Max(Ats(s))
  OBVIOUS
<1>1. m \in 1..Len(s) /\ Len(s) \in Nat
  <2>1. Ats(s) # {} /\ Ats(s) \in SUBSET (0..Len(s)) /\ Ats(s) \subseteq 1..Len(s) /\ Len(s) \in Nat
    BY DEF Ats, Readable
  <2> QED
    BY <2>1, MaxExists
<1>2. SubSeq(s, 1, m - 1) \in Seq(TextChars) /\ SubSeq(s, m + 1, Len(s)) \in Seq(TextChars)
  BY <1>1
<1>3. Settled(DomainOf(s))
  BY <1>2, DomainIsSettled DEF DomainOf, Readable
<1> QED
  BY <1>2, <1>3 DEF LocalOf, Readable

\* Nothing to trim.
LEMMA TrimKeeps ==
  ASSUME NEW C, NEW s \in Seq(C), Len(s) # 0, NEW chars
  PROVE  /\ s[1] \notin chars => TrimStart(s, chars) = s
         /\ s[Len(s)] \notin chars => TrimEnd(s, chars) = s
<1>1. Len(s) \in Nat /\ 1 \in 1..Len(s) /\ Len(s) \in 1..Len(s) /\ SubSeq(s, 1, Len(s)) = s
  OBVIOUS
<1>2. (\A i \in 1..Len(s) : ~(i < 1)) /\ (\A i \in 1..Len(s) : ~(i > Len(s)))
  OBVIOUS
<1>3. s[1] \notin chars => TrimStart(s, chars) = s
  BY <1>1, <1>2, TrimStartAt
<1>4. s[Len(s)] \notin chars => TrimEnd(s, chars) = s
  BY <1>1, <1>2, TrimEndAt
<1> QED
  BY <1>3, <1>4

\* Nothing to trim for parse.
LEMMA InnerKeeps ==
  ASSUME NEW s \in Seq(TextChars), Len(s) # 0,
         s[1] \notin Blanks, s[1] \notin Opening, s[Len(s)] \notin Blanks, s[Len(s)] \notin Closing
  PROVE  Inner(s) = s
  BY TrimKeeps DEF Inner

\* One pair of brackets is not looked at.
LEMMA InnerOfBrackets ==
  ASSUME NEW s \in Seq(TextChars), Len(s) # 0,
         s[1] \notin Opening, s[Len(s)] \notin Closing,
         NEW open \in Opening, NEW close \in Closing
  PROVE  Inner(<<open>> \o s \o <<close>>) = s
<1> PICK n \in Nat : n = Len(s) /\ n # 0
  OBVIOUS
<1>t. PICK t : t = <<open>> \o s \o <<close>>
  OBVIOUS
<1>1. /\ t \in Seq(TextChars) /\ Len(t) = n + 2 /\ t[1] = open /\ t[n + 2] = close
      /\ \A i \in 1..n : t[i + 1] = s[i]
  <2>1. open \in TextChars /\ close \in TextChars
    BY Characters
  <2> QED
    BY <2>1, <1>t
<1>2. TrimEnd(TrimStart(t, Blanks), Blanks) = t
  <2>1. open \notin Blanks /\ close \notin Blanks
    BY Characters
  <2>2. Len(t) # 0 /\ t[1] \notin Blanks /\ t[Len(t)] \notin Blanks
    BY <1>1, <2>1
  <2> QED
    BY <1>1, <2>2, TrimKeeps
<1> PICK u : u = SubSeq(t, 2, n + 2)
  OBVIOUS
<1>3. TrimStart(t, Opening) = u
  <2>1. Len(t) \in Nat /\ 2 \in 1..Len(t) /\ \A i \in 1..Len(t) : i < 2 => i = 1
    BY <1>1
  <2>2. t[2] \notin Opening
    <3>1. 1 \in 1..n /\ t[1 + 1] = s[1]
      BY <1>1
    <3> QED
      BY <3>1
  <2>3. \A i \in 1..Len(t) : i < 2 => t[i] \in Opening
    BY <1>1, <2>1
  <2>4. TrimStart(t, Opening) = SubSeq(t, 2, Len(t))
    BY <2>1, <2>2, <2>3, TrimStartAt
  <2> QED
    BY <1>1, <2>4
<1>4. /\ u \in Seq(TextChars) /\ Len(u) = n + 1 /\ u[n + 1] = close
      /\ \A i \in 1..n : u[i] = s[i]
  BY <1>1
<1>5. TrimEnd(u, Closing) = SubSeq(u, 1, n)
  <2>1. Len(u) \in Nat /\ n \in 1..Len(u) /\ \A i \in 1..Len(u) : i > n => i = n + 1
    BY <1>4
  <2>2. u[n] \notin Closing
    BY <1>4
  <2>3. \A i \in 1..Len(u) : i > n => u[i] \in Closing
    BY <1>4, <2>1
  <2>4. Len(u) \in Nat /\ n \in 1..Len(u)
    BY <2>1
  <2> QED
    BY <2>4, <2>2, <2>3, TrimEndAt
<1>6. SubSeq(u, 1, n) = s
  <2>1. SubSeq(u, 1, n) \in Seq(TextChars) /\ Len(SubSeq(u, 1, n)) = n
    BY <1>4
  <2>2. \A i \in 1..n : SubSeq(u, 1, n)[i] = s[i]
    BY <1>4
  <2> QED
    BY <2>1, <2>2, SameElements
<1> QED
  BY <1>2, <1>3, <1>5, <1>6, <1>t DEF Inner

\* What is left of a text that is trimmed at both ends.
LEMMA TrimBothAt ==
  ASSUME NEW C, NEW s \in Seq(C), NEW chars, NEW k \in 1..Len(s), NEW l \in 1..Len(s), k <= l,
         s[k] \notin chars, \A i \in 1..Len(s) : i < k => s[i] \in chars,
         s[l] \notin chars, \A i \in 1..Len(s) : i > l => s[i] \in chars
  PROVE  TrimEnd(TrimStart(s, chars), chars) = SubSeq(s, k, l)
<1> PICK n \in Nat : n = Len(s)
  OBVIOUS
<1> PICK u : u = SubSeq(s, k, n)
  OBVIOUS
<1> PICK m \in Nat : m + k - 1 = l /\ m >= 1
  <2>1. (l - k + 1) + k - 1 = l /\ l - k + 1 >= 1 /\ l - k + 1 \in Nat
    OBVIOUS
  <2> QED
    BY <2>1
<1>1. TrimStart(s, chars) = u
  BY TrimStartAt
<1>2. /\ u \in Seq(C) /\ Len(u) = n + 1 - k
      /\ \A i \in 1..(n + 1 - k) : u[i] = s[i + k - 1]
  BY PartOf
<1>3. Len(u) \in Nat /\ m \in 1..Len(u)
  BY <1>2
<1>4. \A i \in 1..Len(u) : i > m => u[i] \in chars
  <2>1. \A i \in 1..Len(u) : i > m => i + k - 1 \in 1..n /\ i + k - 1 > l
    BY <1>2
  <2> QED
    BY <1>2, <2>1
<1>5. TrimEnd(u, chars) = SubSeq(u, 1, m)
  BY <1>2, <1>3, <1>4, TrimEndAt
<1>6. SubSeq(u, 1, m) = SubSeq(s, k, l)
  <2>1. SubSeq(u, 1, m) \in Seq(C) /\ Len(SubSeq(u, 1, m)) = m
    BY <1>2, <1>3
  <2>2. /\ SubSeq(s, k, l) \in Seq(C) /\ Len(SubSeq(s, k, l)) = m
        /\ \A i \in 1..m : SubSeq(s, k, l)[i] = s[i + k - 1]
    <3>1. k \in 1..(Len(s) + 1) /\ l \in 0..Len(s) /\ k <= l + 1 /\ l + 1 - k = m
      OBVIOUS
    <3> QED
      BY <3>1, PartOf
  <2>3. \A i \in 1..m : SubSeq(u, 1, m)[i] = u[i] /\ i \in 1..(n + 1 - k)
    BY <1>2, <1>3
  <2> QED
    BY <1>2, <2>1, <2>2, <2>3, SameElements
<1> QED
  BY <1>1, <1>5, <1>6

\* Nor is a blank at the end.
LEMMA InnerOfBlank ==
  ASSUME NEW s \in Seq(TextChars), NEW blank \in Blanks
  PROVE  Inner(s \o <<blank>>) = Inner(s)
<1> PICK n \in Nat : n = Len(s)
  OBVIOUS
<1> PICK t : t = s \o <<blank>>
  OBVIOUS
<1>1. /\ t \in Seq(TextChars) /\ Len(t) = n + 1 /\ t[n + 1] = blank
      /\ \A i \in 1..n : t[i] = s[i]
  <2>1. blank \in TextChars
    BY Characters
  <2> QED
    BY <2>1
<1>2. \A i \in 1..(n + 1) : i \in 1..n \/ i = n + 1
  BY OnePlaceMore
<1>3. TrimEnd(TrimStart(t, Blanks), Blanks) = TrimEnd(TrimStart(s, Blanks), Blanks)
  <2>1. CASE \A i \in 1..n : s[i] \in Blanks
    <3>1. \A i \in 1..(n + 1) : t[i] \in Blanks
      BY <1>1, <1>2, <2>1
    <3>2. TrimStart(t, Blanks) = <<>> /\ TrimStart(s, Blanks) = <<>>
      BY <1>1, <2>1, <3>1, TrimNone
    <3> QED
      BY <3>2
  <2>2. CASE ~\A i \in 1..n : s[i] \in Blanks
    <3>1. PICK k \in 1..n : s[k] \notin Blanks /\ \A i \in 1..n : i < k => s[i] \in Blanks
      BY <2>2, TrimPlace
    <3>2. PICK l \in 1..n : s[l] \notin Blanks /\ \A i \in 1..n : i > l => s[i] \in Blanks
      BY <2>2, TrimPlace
    <3>3. k <= l
      BY <3>1, <3>2
    <3>4. TrimEnd(TrimStart(s, Blanks), Blanks) = SubSeq(s, k, l)
      BY <3>1, <3>2, <3>3, TrimBothAt
    <3>5. TrimEnd(TrimStart(t, Blanks), Blanks) = SubSeq(t, k, l)
      <4>1. k \in 1..Len(t) /\ l \in 1..Len(t) /\ t[k] \notin Blanks /\ t[l] \notin Blanks
        BY <1>1, <3>1, <3>2
      <4>2. \A i \in 1..Len(t) : i < k => t[i] \in Blanks
        <5>1. ~(n + 1 < k)
          OBVIOUS
        <5> QED
          BY <1>1, <1>2, <3>1, <5>1
      <4>3. \A i \in 1..Len(t) : i > l => t[i] \in Blanks
        BY <1>1, <1>2, <3>2
      <4> QED
        BY <1>1, <3>3, <4>1, <4>2, <4>3, TrimBothAt
    <3>6. SubSeq(s, k, l) = SubSeq(t, k, l)
      BY <1>1, <3>3
    <3> QED
      BY <3>4, <3>5, <3>6
  <2> QED
    BY <2>1, <2>2
<1> QED
  BY <1>3 DEF Inner

-----------------------------------------------------------------------------
(* Written out and read again.                                             *)

\* The part of a text that holds another one.
LEMMA Within ==
  ASSUME NEW C, NEW h \in Seq(C), NEW s \in Seq(C), NEW b \in Nat,
         b + Len(s) <= Len(h), \A i \in 1..Len(s) : h[b + i] = s[i]
  PROVE  SubSeq(h, b + 1, b + Len(s)) = s
<1>1. b + 1 \in 1..(Len(h) + 1) /\ b + Len(s) \in 0..Len(h) /\ b + 1 <= (b + Len(s)) + 1
  OBVIOUS
<1>2. /\ SubSeq(h, b + 1, b + Len(s)) \in Seq(C)
      /\ Len(SubSeq(h, b + 1, b + Len(s))) = Len(s)
      /\ \A i \in 1..Len(s) : SubSeq(h, b + 1, b + Len(s))[i] = h[b + i]
  BY <1>1
<1> QED
  BY <1>2, SameElements

\* x is l, an @ that is the last one, and tail.
Halves(x, l, tail) ==
    /\ x \in Seq(TextChars) /\ Len(x) = Len(l) + 1 + Len(tail)
    /\ \A i \in 1..Len(l) : x[i] = l[i]
    /\ \A i \in 1..Len(tail) : x[Len(l) + 1 + i] = tail[i]
    /\ Ats(x) # {} /\ LocalOf(x) = l /\ DomainOf(x) = ReadDomain(tail)

\* The last @ is the one between local part and domain.
LEMMA SplitAtLast ==
  ASSUME NEW l \in Seq(TextChars), NEW tail \in Seq(TextChars),
         \A i \in 1..Len(tail) : tail[i] # "@", NEW x, x = l \o <<"@">> \o tail
  PROVE  Halves(x, l, tail)
<1> PICK n \in Nat : n = Len(l)
  OBVIOUS
<1> PICK m \in Nat : m = Len(tail)
  OBVIOUS
<1>1. "@" \in TextChars
  BY DEF TextChars
<1>2. /\ x \in Seq(TextChars) /\ Len(x) = n + 1 + m /\ x[n + 1] = "@"
      /\ \A i \in 1..n : x[i] = l[i]
      /\ \A i \in 1..m : x[n + 1 + i] = tail[i]
  BY <1>1
<1>3. Max(Ats(x)) = n + 1 /\ Ats(x) # {}
  <2>1. Ats(x) \in SUBSET Nat /\ n + 1 \in Ats(x)
    BY <1>2 DEF Ats
  <2>2. ASSUME NEW i \in Ats(x) PROVE i <= n + 1
    <3>1. i \in 1..(n + 1 + m) /\ x[i] = "@"
      BY <1>2 DEF Ats
    <3>2. CASE i > n + 1
      <4>1. i - (n + 1) \in 1..m /\ n + 1 + (i - (n + 1)) = i
        BY <3>1, <3>2
      <4> QED
        BY <1>2, <3>1, <4>1
    <3> QED
      BY <3>1, <3>2
  <2> QED
    BY <2>1, <2>2, MaxIs
<1>4. SubSeq(x, 1, n) = l
  <2>1. SubSeq(x, 1, n) \in Seq(TextChars) /\ Len(SubSeq(x, 1, n)) = n
    BY <1>2
  <2>2. \A i \in 1..n : SubSeq(x, 1, n)[i] = l[i]
    BY <1>2
  <2> QED
    BY <2>1, <2>2, SameElements
<1>5. SubSeq(x, n + 2, n + 1 + m) = tail
  <2> DEFINE b == n + 1
  <2>1. /\ b \in Nat /\ b + 1 = n + 2 /\ b + Len(tail) = n + 1 + m
        /\ b + Len(tail) <= Len(x)
    BY <1>2
  <2>2. \A i \in 1..Len(tail) : x[b + i] = tail[i]
    BY <1>2
  <2> HIDE DEF b
  <2>3. SubSeq(x, b + 1, b + Len(tail)) = tail
    <3>1. x \in Seq(TextChars) /\ tail \in Seq(TextChars)
      BY <1>2
    <3> QED
      BY <2>1, <2>2, <3>1, Within, ZenonT(30)
  <2> QED
    BY <2>1, <2>3
<1>6. (n + 1) - 1 = n /\ (n + 1) + 1 = n + 2
  OBVIOUS
<1> QED
  BY <1>2, <1>3, <1>4, <1>5, <1>6 DEF Halves, LocalOf, DomainOf

\* A dot at the end of a domain is not read.
LEMMA DotIsNotRead ==
  ASSUME NEW d, Settled(d), NEW dot \in Dots
  PROVE  /\ ReadDomain(d) = d /\ ReadDomain(d \o <<dot>>) = d
         /\ TrimEnd(d, Dots) = d
<1> PICK n \in Nat : n = Len(d) /\ n # 0
  BY DEF Settled
<1>1. d \in Seq(TextChars) /\ Lower(d) = d /\ d[n] \notin Dots
  BY DEF Settled
<1>2. TrimEnd(d, Dots) = d
  BY <1>1, TrimKeeps
<1> PICK t : t = d \o <<dot>>
  OBVIOUS
<1>3. TrimEnd(t, Dots) = d
  <2>1. dot \in TextChars
    BY Characters
  <2>2. /\ t \in Seq(TextChars) /\ Len(t) = n + 1 /\ t[n + 1] = dot
        /\ \A i \in 1..n : t[i] = d[i]
    BY <1>1, <2>1
  <2>3. Len(t) \in Nat /\ n \in 1..Len(t) /\ \A i \in 1..Len(t) : i > n => i = n + 1
    BY <2>2
  <2>4. t[n] \notin Dots /\ \A i \in 1..Len(t) : i > n => t[i] \in Dots
    BY <1>1, <2>2, <2>3
  <2>5. TrimEnd(t, Dots) = SubSeq(t, 1, n)
    BY <2>3, <2>4, TrimEndAt
  <2>6. SubSeq(t, 1, n) \in Seq(TextChars) /\ Len(SubSeq(t, 1, n)) = n
    BY <2>2
  <2>7. \A i \in 1..n : SubSeq(t, 1, n)[i] = d[i]
    BY <2>2
  <2>8. SubSeq(t, 1, n) = d
    BY <1>1, <2>6, <2>7, SameElements
  <2> QED
    BY <2>5, <2>8
<1> QED
  BY <1>1, <1>2, <1>3 DEF ReadDomain, Dots

\* x is read as the address of that local part and domain.
ReadAs(x, l, d) == Readable(Inner(x)) /\ LocalOf(Inner(x)) = l /\ DomainOf(Inner(x)) = d

\* Written with a tail that is read as its domain, an address is read again, with
\* brackets or without.
LEMMA WrittenIsRead ==
  ASSUME NEW l \in Seq(TextChars), ValidLocal(l), NEW d, ValidDomain(d),
         NEW tail \in Seq(TextChars), ReadDomain(tail) = d, Len(tail) # 0,
         \A i \in 1..Len(tail) : tail[i] \in Letters \union Dots,
         NEW x, x = l \o <<"@">> \o tail
  PROVE  /\ ReadAs(x, l, d)
         /\ \A open \in Opening, close \in Closing : ReadAs(<<open>> \o x \o <<close>>, l, d)
<1>1. \A i \in 1..Len(tail) : tail[i] # "@"
  BY Characters
<1>2. /\ x \in Seq(TextChars) /\ Len(x) = Len(l) + 1 + Len(tail)
      /\ \A i \in 1..Len(l) : x[i] = l[i]
      /\ \A i \in 1..Len(tail) : x[Len(l) + 1 + i] = tail[i]
      /\ Ats(x) # {} /\ LocalOf(x) = l /\ DomainOf(x) = d
  <2>1. Halves(x, l, tail)
    BY <1>1, SplitAtLast
  <2> QED
    BY <2>1 DEF Halves
<1>3. Readable(x)
  BY <1>2 DEF Readable
<1>4. Len(l) \in Nat /\ Len(l) # 0 /\ Len(tail) \in Nat
  <2>1. l # <<>>
    BY Zenon DEF ValidLocal
  <2> QED
    BY <2>1
<1>5. x[1] \notin Blanks /\ x[1] \notin Opening
  <2>1. \A i \in 1..Len(l) : l[i] \notin Blanks \union Opening \union Closing
    BY Zenon DEF ValidLocal, Blanks, Opening, Closing
  <2>2. x[1] = l[1] /\ 1 \in 1..Len(l)
    BY <1>2, <1>4
  <2> QED
    BY <2>1, <2>2
<1>6. x[Len(x)] \notin Blanks /\ x[Len(x)] \notin Closing
  <2>1. Len(tail) \in 1..Len(tail)
    BY <1>4
  <2>2. x[Len(x)] = tail[Len(tail)] /\ tail[Len(tail)] \in Letters \union Dots
    BY <1>2, <2>1
  <2> QED
    BY <2>2, Characters
<1>7. Len(x) # 0
  BY <1>2, <1>4
<1>8. Inner(x) = x
  BY <1>2, <1>5, <1>6, <1>7, InnerKeeps
<1>9. \A open \in Opening, close \in Closing : Inner(<<open>> \o x \o <<close>>) = x
  BY <1>2, <1>5, <1>6, <1>7, InnerOfBrackets
<1> QED
  BY <1>2, <1>3, <1>8, <1>9 DEF ReadAs

\* What is written of a local part and a domain.
Spelled(l, d) == l \o <<"@">> \o d

\* The ways in which the tables and other programs write an address.
LEMMA SpellingsAreRead ==
  ASSUME NEW l \in Seq(TextChars), ValidLocal(l), NEW d, Settled(d),
         NEW x, x = Spelled(l, d)
  PROVE  /\ ReadAs(x, l, d)
         /\ \A dot \in Dots : ReadAs(x \o <<dot>>, l, d)
         /\ \A open \in Opening, close \in Closing : ReadAs(<<open>> \o x \o <<close>>, l, d)
<1>1. /\ d \in Seq(TextChars) /\ ValidDomain(d) /\ Len(d) \in Nat /\ Len(d) # 0
      /\ \A i \in 1..Len(d) : d[i] \in Letters \union Dots
  BY DEF Settled
<1>2. \A dot \in Dots : ReadDomain(d) = d /\ ReadDomain(d \o <<dot>>) = d
  BY DotIsNotRead
<1>3. /\ ReadAs(x, l, d)
      /\ \A open \in Opening, close \in Closing : ReadAs(<<open>> \o x \o <<close>>, l, d)
  <2>1. ReadDomain(d) = d
    BY <1>2 DEF Dots
  <2> QED
    BY <1>1, <2>1, WrittenIsRead DEF Spelled
<1>4. ASSUME NEW dot \in Dots PROVE ReadAs(x \o <<dot>>, l, d)
  <2> PICK tail : tail = d \o <<dot>>
    OBVIOUS
  <2>1. dot \in TextChars
    BY Characters
  <2>2. /\ tail \in Seq(TextChars) /\ Len(tail) = Len(d) + 1 /\ tail[Len(d) + 1] = dot
        /\ \A i \in 1..Len(d) : tail[i] = d[i]
    BY <1>1, <2>1
  <2>3. \A i \in 1..Len(tail) : tail[i] \in Letters \union Dots
    <3>1. \A i \in 1..Len(tail) : i \in 1..Len(d) \/ i = Len(d) + 1
      BY <1>1, <2>2
    <3> QED
      BY <1>1, <2>2, <3>1
  <2>4. x \o <<dot>> = l \o <<"@">> \o tail
    <3>1. "@" \in TextChars
      BY DEF TextChars
    <3>2. l \o <<"@">> \in Seq(TextChars) /\ <<dot>> \in Seq(TextChars)
      BY <2>1, <3>1
    <3>3. ((l \o <<"@">>) \o d) \o <<dot>> = (l \o <<"@">>) \o (d \o <<dot>>)
      BY <1>1, <3>2, JoinedInAnyOrder
    <3>4. x = (l \o <<"@">>) \o d
      BY DEF Spelled
    <3> QED
      BY <3>3, <3>4, Zenon
  <2>5. ReadDomain(tail) = d /\ Len(tail) # 0
    BY <1>1, <1>2, <2>2
  <2> QED
    BY <1>1, <2>2, <2>3, <2>4, <2>5, WrittenIsRead
<1> QED
  BY <1>3, <1>4

\* What was read is valid, and in small letters one address.
LEMMA ReadIsParsed ==
  ASSUME NEW x, NEW l, NEW d, ReadAs(x, l, d)
  PROVE  Parse(x) = [local |-> l, domain |-> d] /\ Parse(x) # Invalid
  BY ParseIs, ReadableIsValid DEF ReadAs

\* A local part in small letters makes the same normalised address.
LEMMA NormalisedIs ==
  ASSUME NEW x, NEW l, NEW d, NEW small, ReadAs(x, l, d), Lower(l) = small
  PROVE  Normalised(Parse(x)) = Spelled(small, d) /\ Parse(x).domain = d
<1>1. Parse(x) = [local |-> l, domain |-> d]
  BY ReadIsParsed
<1> QED
  BY <1>1 DEF Normalised, Spelled

\* Changing the case of letters leaves a text alike.
LEMMA RespelledIsAlike ==
  ASSUME NEW s \in Seq(TextChars), NEW t \in Respelled(s)
  PROVE  Alike(s, t)
<1> PICK flip : t = [i \in 1..Len(s) |-> IF i \in flip /\ s[i] \in Letters
                                         THEN CHOOSE c \in Letters : c # s[i] ELSE s[i]]
  BY DEF Respelled
<1> PICK n \in Nat : n = Len(s)
  OBVIOUS
<1>1. \A c : (CHOOSE e \in Letters : e # c) \in Letters
  <2>1. \A c : \E e \in Letters : e # c
    BY Zenon DEF Letters
  <2> QED
    BY <2>1
<1>2. \A i \in 1..n : s[i] \in TextChars
  OBVIOUS
<1>3. Letters \subseteq TextChars
  BY DEF TextChars
<1>4. \A i \in 1..n : t[i] \in TextChars /\ (s[i] = t[i] \/ (s[i] \in Letters /\ t[i] \in Letters))
  BY <1>1, <1>2, <1>3
<1>5. t \in Seq(TextChars) /\ Len(t) = n
  <2>1. t = [i \in 1..n |-> t[i]]
    OBVIOUS
  <2> QED
    BY <1>4, <2>1
<1> QED
  BY <1>4, <1>5 DEF Alike

\* An address that is ours is ours without any trimming.
LEMMA OwnedIs ==
  ASSUME NEW d, Settled(d)
  PROVE  OwnsDomain(d) <=> \E i \in 1..Len(Domains) : Lower(Domains[i]) = d
<1>1. TrimEnd(d, Dots) = d
  BY DotIsNotRead DEF Dots
<1>2. Lower(d) = d
  BY DEF Settled
<1> QED
  BY <1>1, <1>2 DEF OwnsDomain, Dots

-----------------------------------------------------------------------------
(* The sender of a bounce.                                                 *)

\* A text in brackets, and what stands around them.
Around(before, open, s, close, after) == before \o <<open>> \o s \o <<close>> \o after

\* Between the first brackets stands what was put there.
LEMMA BracketedIs ==
  ASSUME NEW before \in Seq(HeaderChars), NEW s \in Seq(HeaderChars), NEW after \in Seq(HeaderChars),
         \A i \in 1..Len(before) : before[i] \notin Opening \union Closing,
         \A i \in 1..Len(s) : s[i] \notin Opening \union Closing,
         NEW open \in Opening, NEW close \in Closing
  PROVE  Bracketed(Around(before, open, s, close, after)) = s
<1>h. PICK h : h = before \o <<open>> \o s \o <<close>> \o after
  OBVIOUS
<1> PICK b \in Nat : b = Len(before)
  OBVIOUS
<1> PICK n \in Nat : n = Len(s)
  OBVIOUS
<1>a. PICK head : head = before \o <<open>> \o s
  OBVIOUS
<1>b. PICK rest : rest = <<close>> \o after
  OBVIOUS
<1>0. open \in HeaderChars /\ close \in HeaderChars
  BY Characters DEF HeaderChars
<1>1. /\ head \in Seq(HeaderChars) /\ Len(head) = b + 1 + n /\ head[b + 1] = open
      /\ \A i \in 1..b : head[i] = before[i]
      /\ \A i \in 1..n : head[b + 1 + i] = s[i]
  <2> PICK first : first = before \o <<open>>
    OBVIOUS
  <2>1. /\ first \in Seq(HeaderChars) /\ Len(first) = b + 1 /\ first[b + 1] = open
        /\ \A i \in 1..b : first[i] = before[i]
    BY <1>0
  <2>2. head = first \o s
    BY <1>a
  <2>3. /\ head \in Seq(HeaderChars) /\ Len(head) = Len(first) + Len(s)
        /\ \A i \in 1..Len(first) : head[i] = first[i]
        /\ \A i \in 1..Len(s) : head[Len(first) + i] = s[i]
    BY <2>1, <2>2, EndToEnd
  <2>4. b + 1 \in 1..(b + 1) /\ \A i \in 1..b : i \in 1..(b + 1)
    OBVIOUS
  <2> QED
    BY <2>1, <2>3, <2>4
<1>2. rest \in Seq(HeaderChars) /\ Len(rest) >= 1 /\ rest[1] = close
  BY <1>b, <1>0
<1>3. h = head \o rest
  <2>l. PICK last : last = <<close>>
    OBVIOUS
  <2>1. last \in Seq(HeaderChars) /\ head \in Seq(HeaderChars) /\ after \in Seq(HeaderChars)
    BY <1>0, <1>1, <2>l
  <2>2. h = (head \o last) \o after /\ rest = last \o after
    BY <1>h, <1>a, <1>b, <2>l, Zenon
  <2>3. (head \o last) \o after = head \o (last \o after)
    BY <2>1, HeadersInAnyOrder, ZenonT(30)
  <2> QED
    BY <2>2, <2>3, Zenon
<1> PICK m \in Nat : m = Len(rest) /\ m >= 1
  BY <1>2
<1>4. /\ h \in Seq(HeaderChars) /\ Len(h) = b + 1 + n + m /\ h[b + 1 + n + 1] = close
      /\ \A i \in 1..(b + 1 + n) : h[i] = head[i]
  <2>1. 1 \in 1..Len(rest) /\ Len(head) = b + 1 + n
    BY <1>1, <1>2
  <2>2. /\ h \in Seq(HeaderChars) /\ Len(h) = Len(head) + Len(rest)
        /\ \A i \in 1..Len(head) : h[i] = head[i]
        /\ \A i \in 1..Len(rest) : h[Len(head) + i] = rest[i]
    <3>1. head \in Seq(HeaderChars) /\ rest \in Seq(HeaderChars)
      BY <1>1, <1>2
    <3> QED
      BY <1>3, <3>1, EndToEnd
  <2> QED
    BY <1>2, <2>1, <2>2
<1>5. ASSUME NEW i \in 1..(b + 1 + n), i # b + 1 PROVE h[i] \notin Opening /\ h[i] \notin Closing
  <2>1. CASE i <= b
    <3>1. i \in 1..b
      BY <2>1
    <3> QED
      BY <1>1, <1>4, <3>1
  <2>2. CASE i > b
    <3>1. i - (b + 1) \in 1..n /\ b + 1 + (i - (b + 1)) = i
      BY <1>5, <2>2
    <3> QED
      BY <1>1, <1>4, <3>1
  <2> QED
    BY <2>1, <2>2
<1>6. h[b + 1] = open /\ open \notin Closing /\ close \notin Opening
  <2>1. b + 1 \in 1..(b + 1 + n)
    OBVIOUS
  <2> QED
    BY <1>1, <1>4, <2>1, Characters
<1> PICK opens : opens = {i \in 1..Len(h) : h[i] \in Opening}
  OBVIOUS
<1> PICK closes : closes = {i \in 1..Len(h) : h[i] \in Closing}
  OBVIOUS
<1>7. Min(opens) = b + 1 /\ opens # {}
  <2>1. b + 1 \in opens /\ opens \in SUBSET Nat
    <3>1. b + 1 \in 1..(b + 1 + n + m)
      OBVIOUS
    <3>2. b + 1 \in 1..Len(h) /\ h[b + 1] \in Opening
      BY <1>4, <1>6, <3>1
    <3>3. opens \in SUBSET Nat
      OBVIOUS
    <3> QED
      BY <3>2, <3>3
  <2>2. ASSUME NEW i \in opens PROVE b + 1 <= i
    <3>1. i \in 1..(b + 1 + n + m) /\ h[i] \in Opening
      BY <1>4
    <3>2. i < b + 1 => i \in 1..(b + 1 + n) /\ i # b + 1
      BY <3>1
    <3> QED
      BY <1>5, <3>1, <3>2
  <2> QED
    BY <2>1, <2>2, MinIs
<1>8. Min(closes) = b + 1 + n + 1 /\ closes # {}
  <2>1. b + 1 + n + 1 \in closes /\ closes \in SUBSET Nat
    <3>1. b + 1 + n + 1 \in 1..(b + 1 + n + m)
      OBVIOUS
    <3> QED
      BY <1>4, <3>1
  <2>2. ASSUME NEW i \in closes PROVE b + 1 + n + 1 <= i
    <3>1. i \in 1..(b + 1 + n + m) /\ h[i] \in Closing /\ i # b + 1
      BY <1>4, <1>6
    <3>2. i < b + 1 + n + 1 => i \in 1..(b + 1 + n)
      BY <3>1
    <3> QED
      BY <1>5, <3>1, <3>2
  <2> QED
    BY <2>1, <2>2, MinIs
<1>9. SubSeq(h, b + 2, b + 1 + n) = s
  <2>1. \A i \in 1..n : b + 1 + i \in 1..(b + 1 + n)
    OBVIOUS
  <2>2. \A i \in 1..n : h[b + 1 + i] = s[i]
    BY <1>1, <1>4, <2>1
  <2>3. b + 1 \in Nat /\ (b + 1) + 1 = b + 2 /\ b + 1 + Len(s) <= Len(h)
    BY <1>4
  <2>4. SubSeq(h, (b + 1) + 1, (b + 1) + Len(s)) = s
    BY <1>4, <2>2, <2>3, Within
  <2> QED
    BY <2>3, <2>4
<1>10. opens = {i \in 1..Len(h) : h[i] = "<"} /\ closes = {i \in 1..Len(h) : h[i] = ">"}
  BY Zenon DEF Opening, Closing
<1>11. (b + 1) + 1 = b + 2 /\ (b + 1 + n + 1) - 1 = b + 1 + n /\ b + 1 + n + 1 > b + 1
  OBVIOUS
<1>12. Bracketed(h) = IF opens # {} /\ closes # {} /\ Min(closes) > Min(opens)
                      THEN SubSeq(h, Min(opens) + 1, Min(closes) - 1) ELSE h
  BY <1>10, Zenon DEF Bracketed
<1> QED
  BY <1>7, <1>8, <1>9, <1>11, <1>12, <1>h DEF Around

\* Nobody is named by the null sender.
LEMMA NullSenderIsInvalid == Parse(<<>>) = Invalid
<1>1. Inner(<<>>) = <<>>
  <2>1. \A i \in 1..Len(<<>>) : FALSE
    OBVIOUS
  <2>2. \A chars : TrimStart(<<>>, chars) = <<>> /\ TrimEnd(<<>>, chars) = <<>>
    BY <2>1, TrimNone
  <2> QED
    BY <2>2 DEF Inner
<1>2. Ats(<<>>) = {}
  BY DEF Ats
<1> QED
  BY <1>1, <1>2, ParseIs DEF Readable

-----------------------------------------------------------------------------
(* The properties of messages.                                             *)

TextTypes == raw \in Seq(Lines) /\ text \in Seq(TextChars)

\* Messages are lines, texts are characters.
LEMMA TextTyped == TextSpec => []TextTypes
<1>1. TextInit => TextTypes
  BY DEF TextInit, RewriteInit, AddressInit, TextTypes
<1>2. TextTypes /\ [TextNext]_<<raw, text>> => TextTypes'
  <2> SUFFICES ASSUME TextTypes, [TextNext]_<<raw, text>> PROVE TextTypes'
    OBVIOUS
  <2>1. CASE AppendLine /\ UNCHANGED text
    <3>1. PICK line \in Lines : raw' = Append(raw, line)
      BY <2>1 DEF AppendLine
    <3>2. raw' \in Seq(Lines) /\ text' = text
      BY <2>1, <3>1 DEF TextTypes
    <3> QED
      BY <3>2 DEF TextTypes
  <2>2. CASE AppendChar /\ UNCHANGED raw
    <3>1. PICK c \in TextChars : text' = Append(text, c)
      BY <2>2 DEF AppendChar
    <3>2. text' \in Seq(TextChars) /\ raw' = raw
      BY <2>2, <3>1 DEF TextTypes
    <3> QED
      BY <3>2 DEF TextTypes
  <2>3. CASE UNCHANGED <<raw, text>>
    BY <2>3 DEF TextTypes
  <2> QED
    BY <2>1, <2>2, <2>3 DEF TextNext
<1> QED
  BY <1>1, <1>2, PTL DEF TextSpec

\* A message consists of lines a rewritten message may have.
LEMMA RawIsLines == TextTypes => raw \in Seq(AllLines)
<1>1. Lines \subseteq AllLines
  BY DEF AllLines
<1> QED
  BY <1>1 DEF TextTypes

\* strip_headers removes exactly the named fields, each with its continuations,
\* from any message.
THEOREM StripsExactly == TextSpec => []StripIsExact
<1>1. ASSUME TextTypes PROVE StripIsExact
  <2>1. raw \in Seq(AllLines) /\ HeadersOf(raw) \in Seq(AllLines)
    BY <1>1, RawIsLines, HeadersAre
  <2> QED
    BY <2>1, FieldsAreNamed, StripReturns DEF StripIsExact
<1> QED
  BY <1>1, TextTyped, PTL

\* header_value reads the first field of a name to its end, in any message.
THEOREM ReadsFirstField == TextSpec => []ValueIsFirstField
<1>1. ASSUME TextTypes PROVE ValueIsFirstField
  <2>1. raw \in Seq(AllLines) /\ HeadersOf(raw) \in Seq(AllLines)
    BY <1>1, RawIsLines, HeadersAre
  <2> QED
    BY <2>1, ValueReturns DEF ValueIsFirstField, SaysOf
<1> QED
  BY <1>1, TextTyped, PTL

\* The body of any message with a header is forwarded as it is.
THEOREM ForwardsTheBody == TextSpec => []BodyIsForwarded
<1>1. ASSUME TextTypes PROVE BodyIsForwarded
  BY <1>1, RawIsLines, FieldsAreNamed, OwnFields, RewrittenBody
     DEF BodyIsForwarded, RewriteForForward, RewriteForReply
<1> QED
  BY <1>1, TextTyped, PTL

\* Any rewritten message has one sender, one place to answer to, and says in our
\* fields what we meant.
THEOREM HasOneSender == TextSpec => []OneSender
<1>1. ASSUME TextTypes PROVE OneSender
  <2> PICK forward : forward = HeadersOf(RewriteForForward(raw))
    OBVIOUS
  <2> PICK reply : reply = HeadersOf(RewriteForReply(raw))
    OBVIOUS
  <2>1. raw \in Seq(AllLines)
    BY <1>1, RawIsLines
  <2>2. /\ {"from", "reply-to"} \subseteq Stripped
        /\ {"from", "to", "reply-to"} \subseteq StrippedFromReply
    BY DEF Stripped, StrippedFromReply
  <2>3. /\ forward = HeadersOf(Rewritten(raw, OwnOfForward, Stripped))
        /\ reply = HeadersOf(Rewritten(raw, OwnOfReply, StrippedFromReply))
    BY DEF RewriteForForward, RewriteForReply
  <2>4. /\ OwnOfForward[1].name = "from" /\ OwnOfForward[2].name = "reply-to"
        /\ OwnOfForward[3].name = "x-weiterleitung-alias"
        /\ OwnOfForward[4].name = "x-weiterleitung-sender"
        /\ OwnOfForward[1].says = {TheReverse, TheContact}
        /\ OwnOfReply[1].name = "from" /\ OwnOfReply[2].name = "to"
        /\ OwnOfReply[3].name = "x-weiterleitung-alias"
        /\ OwnOfReply[1].says = {TheAlias} /\ OwnOfReply[2].says = {TheContact}
    BY DEF OwnOfForward, OwnOfReply, Own, Field
  <2>5. /\ Starts(OwnOfForward, "from") = {1} /\ Starts(OwnOfForward, "reply-to") = {2}
    <3>1. 1..4 = {1, 2, 3, 4}
      OBVIOUS
    <3> QED
      BY <2>4, <3>1, OwnFields DEF Starts, Ours
  <2>6. /\ Starts(OwnOfReply, "from") = {1} /\ Starts(OwnOfReply, "to") = {2}
        /\ Starts(OwnOfReply, "reply-to") = {}
    <3>1. 1..3 = {1, 2, 3}
      OBVIOUS
    <3> QED
      BY <2>4, <3>1, OwnFields DEF Starts, Ours
  <2>7. /\ Starts(forward, "from") = {1} /\ Starts(forward, "reply-to") = {2}
    BY <2>1, <2>2, <2>3, <2>5, OwnFields, FieldsAreNamed, OnlyOurs
  <2>8. /\ Starts(reply, "from") = {1} /\ Starts(reply, "to") = {2}
        /\ Starts(reply, "reply-to") = {}
    BY <2>1, <2>2, <2>3, <2>6, OwnFields, FieldsAreNamed, OnlyOurs
  <2>9. /\ Cardinality(Starts(forward, "from")) = 1
        /\ Cardinality(Starts(forward, "reply-to")) = 1
        /\ Cardinality(Starts(reply, "from")) = 1
        /\ Cardinality(Starts(reply, "reply-to")) = 0
    BY <2>7, <2>8, FS_Singleton, FS_EmptySet
  <2>10. HeaderValue(forward, "from") = <<{TheReverse, TheContact}>>
    <3>1. 1 + 1 \in 1..Len(OwnOfForward)
      BY OwnFields
    <3>2. HeaderValue(forward, "from") = <<OwnOfForward[1].says>>
      BY <2>1, <2>2, <2>3, <2>5, <3>1, OwnFields, FieldsAreNamed, OursIsRead
    <3> QED
      BY <2>4, <3>2
  <2>11. HeaderValue(reply, "from") = <<{TheAlias}>>
    <3> PICK from : from = "from"
      OBVIOUS
    <3>1. 1 \in Nat /\ 1 + 1 \in 1..Len(OwnOfReply)
      BY OwnFields
    <3>2. from \in StrippedFromReply /\ Starts(OwnOfReply, from) = {1}
      BY <2>2, <2>6
    <3>3. Ours(OwnOfReply) /\ NoName \notin StrippedFromReply
      BY OwnFields, FieldsAreNamed
    <3>4. HeaderValue(reply, from) = <<OwnOfReply[1].says>>
      BY <2>1, <2>3, <3>1, <3>2, <3>3, OursIsRead
    <3> QED
      BY <2>4, <3>4
  <2>12. HeaderValue(reply, "to") = <<{TheContact}>>
    <3>1. 2 + 1 \in 1..Len(OwnOfReply)
      BY OwnFields
    <3>2. HeaderValue(reply, "to") = <<OwnOfReply[2].says>>
      BY <2>1, <2>2, <2>3, <2>6, <3>1, OwnFields, FieldsAreNamed, OursIsRead
    <3> QED
      BY <2>4, <3>2
  <2> QED
    BY <2>9, <2>10, <2>11, <2>12 DEF OneSender, Starts
<1> QED
  BY <1>1, TextTyped, PTL

-----------------------------------------------------------------------------
(* The properties of addresses.                                            *)

\* In any spelling an address is the same one, and as much ours, for texts of any
\* length and any domains.
THEOREM SpellingsAreOneAddress == TextSpec => []SpellingDoesNotMatter
<1>1. ASSUME TextTypes, Address # Invalid
      PROVE  /\ \A other \in Respelled(text) \union
                  {text \o <<" ">>, Display(Address), Normalised(Address),
                   Display(Address) \o <<".">>, <<"<">> \o Display(Address) \o <<">">>} :
                /\ Normalised(Parse(other)) = Normalised(Address)
                /\ OwnsDomain(Parse(other).domain) <=> OwnsDomain(Address.domain)
             /\ OwnsDomain(Address.domain) <=>
                  \E i \in 1..Len(Domains) : Lower(Domains[i]) = Address.domain
  <2> PICK l : l = LocalOf(Inner(text))
    OBVIOUS
  <2> PICK d : d = DomainOf(Inner(text))
    OBVIOUS
  <2> PICK small : small = Lower(l)
    OBVIOUS
  <2> PICK address : address = Spelled(l, d)
    OBVIOUS
  <2> PICK normal : normal = Spelled(small, d)
    OBVIOUS
  <2>1. text \in Seq(TextChars) /\ Inner(text) \in Seq(TextChars)
    BY <1>1, InnerIsText DEF TextTypes
  <2>2. ReadAs(text, l, d)
    BY <1>1, ParseIs, Zenon DEF Address, ReadAs
  <2>3. l \in Seq(TextChars) /\ ValidLocal(l) /\ Settled(d)
    BY <2>1, <2>2, PartsOfAddress DEF ReadAs
  <2>4. Display(Address) = address /\ Normalised(Address) = normal /\ Address.domain = d
    <3>1. Address = [local |-> l, domain |-> d]
      BY <2>2, ReadIsParsed DEF Address
    <3> QED
      BY <3>1 DEF Display, Normalised, Spelled
  <2>5. ASSUME NEW x, NEW local, ReadAs(x, local, d), Lower(local) = small
        PROVE  Normalised(Parse(x)) = normal /\ Parse(x).domain = d
    BY <2>5, NormalisedIs
  <2>6. ASSUME NEW x \in Respelled(text)
        PROVE  Normalised(Parse(x)) = normal /\ Parse(x).domain = d
    <3>1. Alike(text, x)
      BY <2>1, RespelledIsAlike
    <3>2. ReadAs(x, LocalOf(Inner(x)), d) /\ Lower(LocalOf(Inner(x))) = small
      BY <2>2, <3>1, AlikeParsed DEF ReadAs
    <3> QED
      BY <2>5, <3>2
  <2>7. Normalised(Parse(text \o <<" ">>)) = normal /\ Parse(text \o <<" ">>).domain = d
    <3>1. \A blank \in Blanks : ReadAs(text \o <<blank>>, l, d)
      BY <2>1, <2>2, InnerOfBlank DEF ReadAs
    <3>2. ReadAs(text \o <<" ">>, l, d)
      BY <3>1, Zenon DEF Blanks
    <3> QED
      BY <2>5, <3>2, Zenon
  <2>8. /\ ReadAs(address, l, d) /\ ReadAs(address \o <<".">>, l, d)
        /\ ReadAs(<<"<">> \o address \o <<">">>, l, d)
    <3>1. /\ ReadAs(address, l, d)
          /\ \A dot \in Dots : ReadAs(address \o <<dot>>, l, d)
          /\ \A open \in Opening, close \in Closing : ReadAs(<<open>> \o address \o <<close>>, l, d)
      BY <2>3, SpellingsAreRead
    <3> QED
      BY <3>1, Zenon DEF Dots, Opening, Closing
  <2>9. ReadAs(normal, small, d) /\ Lower(small) = small
    <3>1. small \in Seq(TextChars) /\ ValidLocal(small) /\ Lower(small) = small
      BY <2>3, LowerIsText, LowerLocal
    <3> QED
      BY <2>3, <3>1, SpellingsAreRead
  <2>10. \A x \in {address, address \o <<".">>, <<"<">> \o address \o <<">">>, normal} :
           Normalised(Parse(x)) = normal /\ Parse(x).domain = d
    <3>1. Normalised(Parse(address)) = normal /\ Parse(address).domain = d
      BY <2>5, <2>8, Zenon
    <3>2. Normalised(Parse(address \o <<".">>)) = normal /\ Parse(address \o <<".">>).domain = d
      BY <2>5, <2>8, Zenon
    <3>3. /\ Normalised(Parse(<<"<">> \o address \o <<">">>)) = normal
          /\ Parse(<<"<">> \o address \o <<">">>).domain = d
      BY <2>5, <2>8, Zenon
    <3>4. Normalised(Parse(normal)) = normal /\ Parse(normal).domain = d
      BY <2>5, <2>9, Zenon
    <3> QED
      BY <3>1, <3>2, <3>3, <3>4, Zenon
  <2>11. \A x \in Respelled(text) \union
              {text \o <<" ">>, address, normal, address \o <<".">>, <<"<">> \o address \o <<">">>} :
           Normalised(Parse(x)) = normal /\ Parse(x).domain = d
    BY <2>6, <2>7, <2>10, Zenon
  <2>12. OwnsDomain(d) <=> \E i \in 1..Len(Domains) : Lower(Domains[i]) = d
    BY <2>3, OwnedIs
  <2> QED
    BY <2>4, <2>11, <2>12, Zenon
<1>2. TextTypes => SpellingDoesNotMatter
  BY <1>1, Zenon DEF SpellingDoesNotMatter
<1> QED
  BY <1>2, TextTyped, PTL

\* A bounce comes from the address in the brackets of its From header, whatever
\* name without brackets stands before them, and whatever stands behind.
THEOREM BouncesAreFromTheirHeader == TextSpec => []BounceNamesItsSender
<1>1. ASSUME TextTypes, Bracketless(text),
             NEW name \in Remarks, NEW remark \in Remarks, Bracketless(name)
      PROVE  EnvelopeSender(<<>>, FromHeader(name, text, remark)) = Address
  <2>1. name \in Seq(HeaderChars) /\ remark \in Seq(HeaderChars)
    BY AddressAssumption
  <2>2. text \in Seq(HeaderChars)
    BY <1>1 DEF TextTypes, HeaderChars
  <2>3. /\ \A i \in 1..Len(name) : name[i] \notin Opening \union Closing
        /\ \A i \in 1..Len(text) : text[i] \notin Opening \union Closing
    BY <1>1, Zenon DEF Bracketless, Opening, Closing
  <2>4. "<" \in Opening /\ ">" \in Closing
    BY Zenon DEF Opening, Closing
  <2>5. \A less \in Opening, more \in Closing : Bracketed(Around(name, less, text, more, remark)) = text
    BY <2>1, <2>2, <2>3, BracketedIs
  <2>6. Bracketed(FromHeader(name, text, remark)) = text
    BY <2>4, <2>5, Zenon DEF Around, FromHeader
  <2> QED
    BY <2>6, NullSenderIsInvalid DEF EnvelopeSender, Address
<1>2. TextTypes => BounceNamesItsSender
  BY <1>1, Zenon DEF BounceNamesItsSender
<1> QED
  BY <1>2, TextTyped, PTL
=============================================================================
