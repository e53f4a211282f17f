--------------------------- MODULE UBFramingProofs ---------------------------
(***************************************************************************)
(* Theorems about UBFraming, for packets of any length and any bytes, any    *)
(* number of them, and any way in which their bytes arrive.                  *)
(***************************************************************************)
EXTENDS UBFraming, SequenceTheorems, FiniteSetTheorems, WellFoundedInduction, TLAPS

-----------------------------------------------------------------------------
(* Positions.  An element of a finite set of positions has a rank: as many as *)
(* there are up to it.                                                        *)

UpTo(S, i) == {l \in S : l <= i}

\* Ranks are positions themselves, and no two elements share one.
LEMMA RanksDiffer ==
  ASSUME NEW S, S \subseteq Nat, IsFiniteSet(S)
  PROVE  /\ Cardinality(S) \in Nat
         /\ \A i \in S : Cardinality(UpTo(S, i)) \in 1..Cardinality(S)
         /\ \A i, j \in S : Cardinality(UpTo(S, i)) = Cardinality(UpTo(S, j)) => i = j
<1>1. Cardinality(S) \in Nat
  BY FS_CardinalityType
<1>2. ASSUME NEW i \in S
      PROVE  IsFiniteSet(UpTo(S, i)) /\ Cardinality(UpTo(S, i)) \in 1..Cardinality(S)
  <2>1. UpTo(S, i) \in SUBSET S /\ i \in UpTo(S, i)
    BY DEF UpTo
  <2>2. IsFiniteSet(UpTo(S, i)) /\ Cardinality(UpTo(S, i)) <= Cardinality(S)
    BY <2>1, FS_Subset
  <2>3. Cardinality(UpTo(S, i)) \in Nat
    BY <2>2, FS_CardinalityType
  <2>4. Cardinality(UpTo(S, i)) # 0
    BY <2>1, <2>2, FS_EmptySet
  <2> QED BY <1>1, <2>2, <2>3, <2>4
<1>3. ASSUME NEW i \in S, NEW j \in S, i < j
      PROVE  Cardinality(UpTo(S, i)) # Cardinality(UpTo(S, j))
  <2>1. UpTo(S, i) \in SUBSET UpTo(S, j) /\ j \in UpTo(S, j) /\ j \notin UpTo(S, i)
    <3>1. i \in Nat /\ j \in Nat /\ \A l \in S : l \in Nat
      OBVIOUS
    <3>2. \A l \in S : l <= i => l <= j
      BY <1>3, <3>1
    <3>3. j \in UpTo(S, j) /\ j \notin UpTo(S, i)
      BY <1>3, <3>1 DEF UpTo
    <3>4. UpTo(S, i) \subseteq UpTo(S, j)
      BY <3>2 DEF UpTo
    <3> QED BY <3>3, <3>4
  <2>2. Cardinality(UpTo(S, i)) = Cardinality(UpTo(S, j)) => UpTo(S, i) = UpTo(S, j)
    BY <1>2, <2>1, FS_Subset
  <2> QED BY <2>1, <2>2
<1>4. \A i, j \in S : Cardinality(UpTo(S, i)) = Cardinality(UpTo(S, j)) => i = j
  <2>1. \A i, j \in S : i < j \/ i = j \/ j < i
    OBVIOUS
  <2> QED BY <1>3, <2>1
<1> QED BY <1>1, <1>2, <1>4

\* Every rank is taken.
LEMMA Ranks ==
  ASSUME NEW S, S \subseteq Nat, IsFiniteSet(S), NEW r \in 1..Cardinality(S)
  PROVE  \E i \in S : Cardinality(UpTo(S, i)) = r
<1> DEFINE f == [i \in S |-> Cardinality(UpTo(S, i))]
<1>1. Cardinality(S) \in Nat
  BY FS_CardinalityType
<1>2. f \in Injection(S, 1..Cardinality(S))
  BY RanksDiffer DEF Injection, IsInjective
<1>3. IsFiniteSet(1..Cardinality(S)) /\ Cardinality(1..Cardinality(S)) = Cardinality(S)
  BY <1>1, FS_Interval
<1>4. f \in Surjection(S, 1..Cardinality(S))
  BY <1>2, <1>3, FS_Injection
<1>5. \E i \in S : f[i] = r
  BY <1>4 DEF Surjection
<1> QED BY <1>5

\* Any set of positions has a first one.
LEMMA FirstPosition ==
  ASSUME NEW T, T \subseteq Nat, T # {}
  PROVE  \E i \in T : \A j \in T : i <= j
<1> DEFINE R == {ss \in Nat \X Nat : ss[1] < ss[2]}
<1>1. IsWellFoundedOn(R, Nat)
  BY NatLessThanWellFounded DEF OpToRel
<1>2. PICK i \in T : \A j \in T : ~ (<<j, i>> \in R)
  <2> HIDE DEF R
  <2> QED BY <1>1, WFMin
<1>3. i \in Nat /\ \A j \in T : j \in Nat /\ ~ (j < i)
  BY <1>2
<1> QED BY <1>3

Octet == Byte \cup Id

-----------------------------------------------------------------------------
(* Where PACKET_END stands.                                                  *)

\* It stands where its four bytes do.
LEMMA EndMeans ==
  ASSUME NEW s \in Seq(Octet), NEW k \in Int
  PROVE  k \in EndsOf(s) <=>
           /\ 1 <= k /\ k + 3 <= Len(s)
           /\ s[k] = CR /\ s[k + 1] = CR /\ s[k + 2] = LF /\ s[k + 3] = LF
<1>1. Len(s) \in Nat /\ \A i \in 1..Len(s) : s[i] \in Octet
  BY LenProperties, ElementOfSeq
<1>2. ASSUME 1 <= k, k + 3 <= Len(s)
      PROVE  SubSeq(s, k, k + 3) = PACKET_END <=>
               s[k] = CR /\ s[k + 1] = CR /\ s[k + 2] = LF /\ s[k + 3] = LF
  <2> DEFINE t == SubSeq(s, k, k + 3)
  <2>1. /\ t \in Seq(Octet) /\ Len(t) = 4
        /\ t[1] = s[k] /\ t[2] = s[k + 1] /\ t[3] = s[k + 2] /\ t[4] = s[k + 3]
    <3>1. \A i \in k..(k + 3) : s[i] \in Octet
      BY <1>1, <1>2
    <3>2. /\ t \in Seq(Octet) /\ Len(t) = 4
          /\ \A i \in 1..4 : t[i] = s[k + i - 1]
      BY <3>1, SubSeqProperties
    <3> QED BY <3>2
  <2>2. /\ PACKET_END \in Seq(Octet) /\ Len(PACKET_END) = 4
        /\ PACKET_END[1] = CR /\ PACKET_END[2] = CR /\ PACKET_END[3] = LF /\ PACKET_END[4] = LF
    <3>1. CR \in Octet /\ LF \in Octet
      BY ByteAssumption DEF Octet
    <3> QED BY <3>1 DEF PACKET_END
  <2> HIDE DEF t
  <2>3. ASSUME t[1] = CR, t[2] = CR, t[3] = LF, t[4] = LF PROVE t = PACKET_END
    <3>1. \A i \in 1..4 : t[i] = PACKET_END[i]
      BY <2>2, <2>3
    <3> QED BY <2>1, <2>2, <3>1, SeqEqual
  <2> QED BY <2>1, <2>2, <2>3 DEF t
<1>3. k \in 1..(Len(s) - 3) <=> 1 <= k /\ k + 3 <= Len(s)
  BY <1>1
<1> QED BY <1>2, <1>3 DEF EndsOf

\* The places of PACKET_END in a stream are a finite set of positions.
LEMMA EndsArePositions ==
  ASSUME NEW s \in Seq(Octet)
  PROVE  EndsOf(s) \subseteq Nat /\ IsFiniteSet(EndsOf(s))
<1>1. Len(s) \in Nat
  BY LenProperties
<1>2. IsFiniteSet(1..(Len(s) - 3)) /\ EndsOf(s) \in SUBSET (1..(Len(s) - 3))
  BY <1>1, FS_Interval DEF EndsOf
<1> QED BY <1>2, FS_Subset

\* No two overlap: PACKET_END does not end as it begins.
LEMMA EndsApart ==
  ASSUME NEW s \in Seq(Octet), NEW j \in EndsOf(s), NEW k \in EndsOf(s), j < k
  PROVE  j + 4 <= k
<1>1. j \in Int /\ k \in Int
  BY EndsArePositions
<1>2. /\ s[j + 1] = CR /\ s[j + 2] = LF /\ s[j + 3] = LF
      /\ s[k] = CR /\ s[k + 1] = CR
  BY <1>1, EndMeans
<1>3. k # j + 1 /\ k # j + 2 /\ k # j + 3
  BY <1>1, <1>2 DEF CR, LF
<1> QED BY <1>1, <1>3

\* Those of a piece of s are those of s that lie within it.
LEMMA EndsWithin ==
  ASSUME NEW s \in Seq(Octet), NEW a \in Nat, NEW b \in Nat, a <= b, b <= Len(s), NEW k \in Int
  PROVE  k \in EndsOf(SubSeq(s, a + 1, b)) <=>
           1 <= k /\ k + a + 3 <= b /\ k + a \in EndsOf(s)
<1> DEFINE t == SubSeq(s, a + 1, b)
<1>1. /\ t \in Seq(Octet) /\ Len(t) = b - a
      /\ \A i \in 1..(b - a) : t[i] = s[i + a]
  <2>1. Len(s) \in Nat /\ \A i \in (a + 1)..b : s[i] \in Octet
    BY LenProperties, ElementOfSeq
  <2>2. /\ t \in Seq(Octet) /\ Len(t) = IF a + 1 <= b THEN b - (a + 1) + 1 ELSE 0
        /\ \A i \in 1..(b - (a + 1) + 1) : t[i] = s[a + 1 + i - 1]
    BY <2>1, SubSeqProperties
  <2> QED BY <2>2
<1> HIDE DEF t
<1>2. k \in EndsOf(t) <=>
        /\ 1 <= k /\ k + 3 <= b - a
        /\ t[k] = CR /\ t[k + 1] = CR /\ t[k + 2] = LF /\ t[k + 3] = LF
  BY <1>1, EndMeans
<1>3. k + a \in EndsOf(s) <=>
        /\ 1 <= k + a /\ k + a + 3 <= Len(s)
        /\ s[k + a] = CR /\ s[k + a + 1] = CR /\ s[k + a + 2] = LF /\ s[k + a + 3] = LF
  BY EndMeans
<1>4. ASSUME 1 <= k, k + 3 <= b - a
      PROVE  t[k] = s[k + a] /\ t[k + 1] = s[k + a + 1] /\ t[k + 2] = s[k + a + 2] /\ t[k + 3] = s[k + a + 3]
  BY <1>1, <1>4
<1>5. Len(s) \in Nat
  BY LenProperties
<1>6. ASSUME 1 <= k, k + a + 3 <= b PROVE k \in EndsOf(t) <=> k + a \in EndsOf(s)
  <2>1. k + 3 <= b - a /\ 1 <= k + a /\ k + a + 3 <= Len(s)
    BY <1>5, <1>6
  <2> QED BY <1>2, <1>3, <1>4, <1>6, <2>1
<1>7. k \in EndsOf(t) => 1 <= k /\ k + a + 3 <= b
  BY <1>2
<1> QED BY <1>6, <1>7 DEF t

\* Whether one stands at k depends on the four bytes there.
LEMMA EndsAgree ==
  ASSUME NEW s \in Seq(Octet), NEW t \in Seq(Octet), NEW n \in Nat, n <= Len(s), n <= Len(t),
         \A i \in 1..n : s[i] = t[i], NEW k \in Int, k + 3 <= n
  PROVE  k \in EndsOf(s) <=> k \in EndsOf(t)
<1>1. Len(s) \in Nat /\ Len(t) \in Nat
  BY LenProperties
<1>2. 1 <= k => /\ s[k] = t[k] /\ s[k + 1] = t[k + 1]
                /\ s[k + 2] = t[k + 2] /\ s[k + 3] = t[k + 3]
  OBVIOUS
<1>3. k \in EndsOf(s) <=>
        /\ 1 <= k /\ k + 3 <= Len(s)
        /\ s[k] = CR /\ s[k + 1] = CR /\ s[k + 2] = LF /\ s[k + 3] = LF
  BY EndMeans
<1>4. k \in EndsOf(t) <=>
        /\ 1 <= k /\ k + 3 <= Len(t)
        /\ t[k] = CR /\ t[k + 1] = CR /\ t[k + 2] = LF /\ t[k + 3] = LF
  BY EndMeans
<1> QED BY <1>1, <1>2, <1>3, <1>4

\* The length and the bytes of a part of a stream.
LEMMA PieceProperties ==
  ASSUME NEW t \in Seq(Octet), NEW l \in Nat, NEW m \in Nat, 1 <= l, l <= m + 1, m <= Len(t)
  PROVE  /\ SubSeq(t, l, m) \in Seq(Octet) /\ Len(SubSeq(t, l, m)) = m - l + 1
         /\ \A i \in 1..(m - l + 1) : SubSeq(t, l, m)[i] = t[l + i - 1]
<1>1. Len(t) \in Nat /\ \A i \in l..m : t[i] \in Octet
  BY LenProperties, ElementOfSeq
<1>2. /\ SubSeq(t, l, m) \in Seq(Octet)
      /\ Len(SubSeq(t, l, m)) = IF l <= m THEN m - l + 1 ELSE 0
      /\ \A i \in 1..(m - l + 1) : SubSeq(t, l, m)[i] = t[l + i - 1]
  BY <1>1, SubSeqProperties
<1>3. ~(l <= m) => m - l + 1 = 0
  OBVIOUS
<1> QED BY <1>2, <1>3

\* A piece of s is one of any longer sequence.
LEMMA PrefixPiece ==
  ASSUME NEW s \in Seq(Octet), NEW t \in Seq(Octet), Len(s) <= Len(t),
         \A i \in 1..Len(s) : t[i] = s[i], NEW a \in Nat, NEW b \in Nat, b <= Len(s)
  PROVE  SubSeq(t, a + 1, b) = SubSeq(s, a + 1, b)
<1> DEFINE u == SubSeq(s, a + 1, b)
           v == SubSeq(t, a + 1, b)
<1>1. Len(s) \in Nat /\ \A i \in (a + 1)..b : s[i] \in Octet /\ t[i] = s[i]
  BY LenProperties, ElementOfSeq
<1>2. /\ u \in Seq(Octet) /\ Len(u) = IF a + 1 <= b THEN b - (a + 1) + 1 ELSE 0
      /\ \A i \in 1..(b - (a + 1) + 1) : u[i] = s[a + 1 + i - 1]
  BY <1>1, SubSeqProperties
<1>3. /\ v \in Seq(Octet) /\ Len(v) = IF a + 1 <= b THEN b - (a + 1) + 1 ELSE 0
      /\ \A i \in 1..(b - (a + 1) + 1) : v[i] = t[a + 1 + i - 1]
  BY <1>1, SubSeqProperties
<1> HIDE DEF u, v
<1>4. ASSUME NEW i \in 1..Len(u) PROVE v[i] = u[i]
  <2>1. i \in 1..(b - (a + 1) + 1) /\ a + 1 + i - 1 \in (a + 1)..b
    BY <1>2
  <2> QED BY <1>1, <1>2, <1>3, <2>1
<1>5. u = v
  BY <1>2, <1>3, <1>4, SeqEqual
<1> QED BY <1>5 DEF u, v

\* A piece of a piece.
LEMMA PieceOfPiece ==
  ASSUME NEW s \in Seq(Octet), NEW c \in Nat, NEW d \in Nat, c <= d, d <= Len(s),
         NEW t, t = SubSeq(s, c + 1, d),
         NEW k \in Nat, 1 <= k, k <= d - c
  PROVE  /\ SubSeq(t, 1, k - 1) = SubSeq(s, c + 1, c + k - 1)
         /\ k + 3 <= d - c =>
              /\ SubSeq(t, k + 4, Len(t)) = SubSeq(s, c + k + 4, d)
              /\ SubSeq(t, k + 4, Len(t)) \in Seq(Octet)
              /\ Len(SubSeq(t, k + 4, Len(t))) = d - (c + k + 3)
<1>1. Len(s) \in Nat /\ \A i \in (c + 1)..d : s[i] \in Octet
  BY LenProperties, ElementOfSeq
<1>2. /\ t \in Seq(Octet) /\ Len(t) = d - c
      /\ \A i \in 1..(d - c) : t[i] = s[c + i]
  <2>1. /\ t \in Seq(Octet) /\ Len(t) = IF c + 1 <= d THEN d - (c + 1) + 1 ELSE 0
        /\ \A i \in 1..(d - (c + 1) + 1) : t[i] = s[c + 1 + i - 1]
    BY <1>1, SubSeqProperties
  <2> QED BY <2>1
<1>3. ASSUME NEW l \in Nat, NEW m \in Nat, 1 <= l, l <= m + 1, m <= d - c
      PROVE  /\ SubSeq(t, l, m) = SubSeq(s, c + l, c + m)
             /\ SubSeq(t, l, m) \in Seq(Octet) /\ Len(SubSeq(t, l, m)) = m - l + 1
  <2> DEFINE u == SubSeq(t, l, m)
             v == SubSeq(s, c + l, c + m)
  <2>1. /\ u \in Seq(Octet) /\ Len(u) = m - l + 1
        /\ \A i \in 1..(m - l + 1) : u[i] = t[l + i - 1]
    BY <1>2, <1>3, PieceProperties
  <2>2. c + l \in Nat /\ c + m \in Nat /\ 1 <= c + l /\ c + l <= c + m + 1 /\ c + m <= Len(s)
    BY <1>1, <1>3
  <2>3. /\ v \in Seq(Octet) /\ Len(v) = c + m - (c + l) + 1
        /\ \A i \in 1..(c + m - (c + l) + 1) : v[i] = s[c + l + i - 1]
    BY <2>2, PieceProperties
  <2>4. c + m - (c + l) + 1 = m - l + 1
    OBVIOUS
  <2> HIDE DEF u, v
  <2>5. ASSUME NEW i \in 1..(m - l + 1) PROVE u[i] = v[i]
    <3>1. l + i - 1 \in 1..(d - c) /\ c + (l + i - 1) = c + l + i - 1
      BY <1>3
    <3> QED BY <1>2, <2>1, <2>3, <2>4, <3>1
  <2>6. u = v
    BY <2>1, <2>3, <2>4, <2>5, SeqEqual
  <2> QED BY <2>1, <2>6 DEF u, v
<1>4. SubSeq(t, 1, k - 1) = SubSeq(s, c + 1, c + k - 1)
  <2>1. k - 1 \in Nat /\ 1 <= (k - 1) + 1 /\ k - 1 <= d - c /\ c + (k - 1) = c + k - 1
    OBVIOUS
  <2> QED BY <1>3, <2>1
<1>5. ASSUME k + 3 <= d - c
      PROVE  /\ SubSeq(t, k + 4, Len(t)) = SubSeq(s, c + k + 4, d)
             /\ SubSeq(t, k + 4, Len(t)) \in Seq(Octet)
             /\ Len(SubSeq(t, k + 4, Len(t))) = d - (c + k + 3)
  <2>1. /\ k + 4 \in Nat /\ d - c \in Nat /\ 1 <= k + 4 /\ k + 4 <= (d - c) + 1
        /\ c + (k + 4) = c + k + 4 /\ c + (d - c) = d
    BY <1>5
  <2>2. /\ SubSeq(t, k + 4, d - c) = SubSeq(s, c + (k + 4), c + (d - c))
        /\ SubSeq(t, k + 4, d - c) \in Seq(Octet)
        /\ Len(SubSeq(t, k + 4, d - c)) = (d - c) - (k + 4) + 1
    BY <1>3, <2>1
  <2>3. (d - c) - (k + 4) + 1 = d - (c + k + 3) /\ Len(t) = d - c
    BY <1>2
  <2> QED BY <2>1, <2>2, <2>3
<1> QED BY <1>4, <1>5

-----------------------------------------------------------------------------
(* The pieces between the places E of s.                                     *)

From(E, i) == IF i = 1 THEN 1 ELSE Nth(E, i - 1) + Len(PACKET_END)
Pieces(s, E) == [i \in 1..Cardinality(E) |-> SubSeq(s, From(E, i), Nth(E, i) - 1)]

\* The i-th of a set of positions is one of them, and its rank is i.
LEMMA NthElement ==
  ASSUME NEW E, E \subseteq Nat, IsFiniteSet(E), NEW i \in 1..Cardinality(E)
  PROVE  Nth(E, i) \in E /\ Cardinality(UpTo(E, Nth(E, i))) = i
<1>1. \E k \in E : Cardinality(UpTo(E, k)) = i
  BY Ranks
<1> QED BY <1>1 DEF Nth, UpTo

\* A position is the one that its rank says.
LEMMA NthIs ==
  ASSUME NEW E, E \subseteq Nat, IsFiniteSet(E), NEW k \in E
  PROVE  /\ Cardinality(UpTo(E, k)) \in 1..Cardinality(E)
         /\ Nth(E, Cardinality(UpTo(E, k))) = k
<1>1. Cardinality(UpTo(E, k)) \in 1..Cardinality(E)
  BY RanksDiffer
<1> DEFINE i == Cardinality(UpTo(E, k))
<1>2. Nth(E, i) \in E /\ Cardinality(UpTo(E, Nth(E, i))) = i
  BY <1>1, NthElement
<1>3. Nth(E, i) = k
  BY <1>2, RanksDiffer
<1> QED BY <1>1, <1>3

\* One more place, behind all others.
LEMMA NthGrows ==
  ASSUME NEW E, E \subseteq Nat, IsFiniteSet(E), NEW e \in Nat, \A k \in E : k < e
  PROVE  /\ E \cup {e} \subseteq Nat /\ IsFiniteSet(E \cup {e}) /\ Cardinality(E) \in Nat
         /\ Cardinality(E \cup {e}) = Cardinality(E) + 1
         /\ \A i \in 1..Cardinality(E) : Nth(E \cup {e}, i) = Nth(E, i)
         /\ Nth(E \cup {e}, Cardinality(E) + 1) = e
<1> DEFINE F == E \cup {e}
<1>1. F \subseteq Nat /\ IsFiniteSet(F) /\ Cardinality(E) \in Nat /\ Cardinality(F) = Cardinality(E) + 1
  <2>1. e \notin E
    OBVIOUS
  <2> QED BY <2>1, FS_AddElement, FS_CardinalityType
<1>2. ASSUME NEW i \in 1..Cardinality(E) PROVE Nth(F, i) = Nth(E, i)
  <2>1. Nth(E, i) \in E /\ Cardinality(UpTo(E, Nth(E, i))) = i
    BY NthElement
  <2>2. UpTo(F, Nth(E, i)) = UpTo(E, Nth(E, i))
    <3>1. ~(e <= Nth(E, i))
      <4>1. Nth(E, i) \in Nat /\ Nth(E, i) < e
        BY <2>1
      <4> QED BY <4>1
    <3> QED BY <3>1 DEF UpTo
  <2>3. Nth(F, Cardinality(UpTo(F, Nth(E, i)))) = Nth(E, i)
    BY <1>1, <2>1, NthIs
  <2> QED BY <2>1, <2>2, <2>3
<1>3. Nth(F, Cardinality(E) + 1) = e
  <2>1. UpTo(F, e) = F
    <3>1. \A k \in F : k <= e
      BY <1>1
    <3> QED BY <3>1 DEF UpTo
  <2>2. Nth(F, Cardinality(UpTo(F, e))) = e
    BY <1>1, NthIs
  <2> QED BY <1>1, <2>1, <2>2
<1> QED BY <1>1, <1>2, <1>3

\* PACKET_END is of four bytes.
LEMMA EndLength == Len(PACKET_END) = 4
BY DEF PACKET_END

\* Between the ends of a stream there are as many pieces as ends, each cut out of the stream.
LEMMA PieceTypes ==
  ASSUME NEW s \in Seq(Octet), NEW E, E \subseteq EndsOf(s)
  PROVE  /\ E \subseteq Nat /\ IsFiniteSet(E) /\ Cardinality(E) \in Nat
         /\ Pieces(s, E) \in Seq(Seq(Octet)) /\ Len(Pieces(s, E)) = Cardinality(E)
         /\ \A i \in 1..Cardinality(E) :
              /\ From(E, i) \in Nat /\ From(E, i) >= 1
              /\ Nth(E, i) \in E /\ Nth(E, i) \in 1..Len(s)
              /\ Pieces(s, E)[i] = SubSeq(s, From(E, i), Nth(E, i) - 1)
<1>1. E \subseteq Nat /\ IsFiniteSet(E) /\ Cardinality(E) \in Nat
  BY EndsArePositions, FS_Subset, FS_CardinalityType
<1>2. \A i \in 1..Cardinality(E) : Nth(E, i) \in E
  BY <1>1, NthElement
<1>3. \A k \in E : k \in 1..Len(s)
  BY <1>1, EndMeans, LenProperties
<1>4. ASSUME NEW i \in 1..Cardinality(E)
      PROVE  /\ From(E, i) \in Nat /\ From(E, i) >= 1
             /\ SubSeq(s, From(E, i), Nth(E, i) - 1) \in Seq(Octet)
  <2>1. From(E, i) \in Nat /\ From(E, i) >= 1
    <3>1. CASE i = 1
      BY <3>1 DEF From
    <3>2. CASE i # 1
      <4>1. i - 1 \in 1..Cardinality(E)
        BY <1>1, <3>2
      <4>2. Nth(E, i - 1) \in Nat
        BY <1>1, <1>2, <4>1
      <4> QED BY <3>2, <4>2, EndLength DEF From
    <3> QED BY <3>1, <3>2
  <2>2. Nth(E, i) \in 1..Len(s) /\ Len(s) \in Nat
    BY <1>2, <1>3, LenProperties
  <2>3. \A l \in From(E, i)..(Nth(E, i) - 1) : s[l] \in Octet
    BY <2>1, <2>2, ElementOfSeq
  <2>4. From(E, i) \in Int /\ Nth(E, i) - 1 \in Int
    BY <2>1, <2>2
  <2> QED BY <2>1, <2>3, <2>4, SubSeqProperties
<1>5. Pieces(s, E) \in Seq(Seq(Octet)) /\ Len(Pieces(s, E)) = Cardinality(E)
  <2> DEFINE n == Cardinality(E)
             f == [i \in 1..n |-> SubSeq(s, From(E, i), Nth(E, i) - 1)]
  <2>1. n \in Nat /\ f \in [1..n -> Seq(Octet)]
    BY <1>1, <1>4
  <2> HIDE DEF n, f
  <2>2. f \in Seq(Seq(Octet)) /\ DOMAIN f = 1..n
    BY <2>1
  <2>3. Len(f) = n
    BY <2>1, <2>2, LenProperties
  <2> QED BY <2>2, <2>3 DEF Pieces, f, n
<1> QED BY <1>1, <1>2, <1>3, <1>4, <1>5 DEF Pieces

\* One more place is one more piece, which begins behind the last place there was.
LEMMA PiecesGrow ==
  ASSUME NEW s \in Seq(Octet), NEW E, NEW e, E \cup {e} \subseteq EndsOf(s), \A k \in E : k < e,
         NEW b \in Nat, \/ E = {} /\ b = 1
                        \/ b - 4 \in E /\ \A k \in E : k <= b - 4
  PROVE  Pieces(s, E \cup {e}) = Append(Pieces(s, E), SubSeq(s, b, e - 1))
<1> DEFINE F == E \cup {e}
           n == Cardinality(E)
           p == Pieces(s, E)
           q == Pieces(s, F)
           x == SubSeq(s, b, e - 1)
<1>1. /\ E \subseteq Nat /\ IsFiniteSet(E) /\ n \in Nat
      /\ p \in Seq(Seq(Octet)) /\ Len(p) = n
      /\ \A i \in 1..n : p[i] = SubSeq(s, From(E, i), Nth(E, i) - 1)
  BY PieceTypes
<1>2. /\ e \in Nat
      /\ q \in Seq(Seq(Octet)) /\ Len(q) = Cardinality(F)
      /\ \A i \in 1..Cardinality(F) : q[i] = SubSeq(s, From(F, i), Nth(F, i) - 1)
  BY PieceTypes
<1>3. /\ Cardinality(F) = n + 1
      /\ \A i \in 1..n : Nth(F, i) = Nth(E, i)
      /\ Nth(F, n + 1) = e
  BY <1>1, <1>2, NthGrows
<1>4. ASSUME NEW i \in 1..n PROVE q[i] = p[i]
  <2>1. From(F, i) = From(E, i)
    <3>1. CASE i = 1
      BY <3>1 DEF From
    <3>2. CASE i # 1
      <4>1. i - 1 \in 1..n
        BY <1>1, <3>2
      <4> QED BY <1>3, <4>1, <3>2 DEF From
    <3> QED BY <3>1, <3>2
  <2>2. i \in 1..Cardinality(F)
    BY <1>1, <1>3
  <2> QED BY <1>1, <1>2, <1>3, <2>1, <2>2
<1>5. q[n + 1] = x
  <2>1. From(F, n + 1) = b
    <3>1. CASE E = {} /\ b = 1
      <4>1. n = 0
        BY <3>1, FS_EmptySet
      <4> QED BY <3>1, <4>1 DEF From
    <3>2. CASE b - 4 \in E /\ \A k \in E : k <= b - 4
      <4>1. UpTo(E, b - 4) = E
        BY <3>2 DEF UpTo
      <4>2. n \in 1..n /\ Nth(E, n) = b - 4
        BY <1>1, <3>2, <4>1, NthIs
      <4>3. n + 1 # 1 /\ (n + 1) - 1 = n
        BY <4>2, <1>1
      <4>4. From(F, n + 1) = (b - 4) + 4
        BY <1>3, <4>2, <4>3, EndLength DEF From
      <4> QED BY <4>4
    <3> QED BY <3>1, <3>2
  <2>2. n + 1 \in 1..Cardinality(F)
    BY <1>1, <1>3
  <2> QED BY <1>2, <1>3, <2>1, <2>2
<1>6. x \in Seq(Octet)
  <2>1. q[n + 1] \in Seq(Octet)
    <3>1. n + 1 \in 1..Len(q)
      BY <1>1, <1>2, <1>3
    <3> QED BY <1>2, <3>1, ElementOfSeq
  <2> QED BY <1>5, <2>1
<1> HIDE DEF p, q, x, n
<1>7. /\ Append(p, x) \in Seq(Seq(Octet)) /\ Len(Append(p, x)) = n + 1
      /\ \A i \in 1..n : Append(p, x)[i] = p[i]
      /\ Append(p, x)[n + 1] = x
  BY <1>1, <1>6, AppendProperties
<1>8. \A i \in 1..Len(q) : q[i] = Append(p, x)[i]
  <2>1. \A i \in 1..(n + 1) : i \in 1..n \/ i = n + 1
    BY <1>1
  <2> QED BY <1>2, <1>3, <1>4, <1>5, <1>7, <2>1
<1>9. q = Append(p, x)
  <2>1. Len(q) = Len(Append(p, x))
    BY <1>2, <1>3, <1>7
  <2> QED BY <1>2, <1>7, <1>8, <2>1, SeqEqual
<1> QED BY <1>9 DEF p, q, x

\* The pieces depend on the bytes up to the last place.
LEMMA PiecesAgree ==
  ASSUME NEW s \in Seq(Octet), NEW t \in Seq(Octet), NEW E, E \subseteq EndsOf(s), E \subseteq EndsOf(t),
         NEW n \in Nat, n <= Len(s), n <= Len(t), \A i \in 1..n : s[i] = t[i], \A k \in E : k <= n
  PROVE  Pieces(s, E) = Pieces(t, E)
<1> DEFINE p == Pieces(s, E)
           q == Pieces(t, E)
<1>1. /\ E \subseteq Nat /\ Cardinality(E) \in Nat /\ p \in Seq(Seq(Octet)) /\ Len(p) = Cardinality(E)
      /\ \A i \in 1..Cardinality(E) :
           /\ From(E, i) \in Nat /\ From(E, i) >= 1 /\ Nth(E, i) \in E
           /\ p[i] = SubSeq(s, From(E, i), Nth(E, i) - 1)
  BY PieceTypes
<1>2. /\ q \in Seq(Seq(Octet)) /\ Len(q) = Cardinality(E)
      /\ \A i \in 1..Cardinality(E) : q[i] = SubSeq(t, From(E, i), Nth(E, i) - 1)
  BY PieceTypes
<1> HIDE DEF p, q
<1>3. ASSUME NEW i \in 1..Cardinality(E) PROVE p[i] = q[i]
  <2> DEFINE a == From(E, i)
             z == Nth(E, i) - 1
             u == SubSeq(s, a, z)
             v == SubSeq(t, a, z)
  <2>0. Nth(E, i) \in Nat /\ Nth(E, i) <= n
    BY <1>1
  <2>1. a \in Nat /\ a >= 1 /\ z \in Int /\ z < n
    BY <1>1, <2>0
  <2>2. Len(s) \in Nat /\ Len(t) \in Nat
    BY LenProperties
  <2>3. \A l \in a..z : s[l] \in Octet /\ t[l] \in Octet /\ s[l] = t[l]
    BY <2>1, <2>2, ElementOfSeq
  <2>4. /\ u \in Seq(Octet) /\ Len(u) = IF a <= z THEN z - a + 1 ELSE 0
        /\ \A l \in 1..(z - a + 1) : u[l] = s[a + l - 1]
    BY <2>1, <2>3, SubSeqProperties
  <2>5. /\ v \in Seq(Octet) /\ Len(v) = IF a <= z THEN z - a + 1 ELSE 0
        /\ \A l \in 1..(z - a + 1) : v[l] = t[a + l - 1]
    BY <2>1, <2>3, SubSeqProperties
  <2>6. p[i] = u /\ q[i] = v
    BY <1>1, <1>2
  <2> HIDE DEF a, z, u, v
  <2>7. ASSUME NEW l \in 1..Len(u) PROVE u[l] = v[l]
    <3>1. l \in 1..(z - a + 1) /\ a + l - 1 \in a..z
      BY <2>1, <2>4
    <3> QED BY <2>3, <2>4, <2>5, <3>1
  <2>8. u = v
    BY <2>4, <2>5, <2>7, SeqEqual
  <2> QED BY <2>6, <2>8
<1>4. p = q
  BY <1>1, <1>2, <1>3, SeqEqual
<1> QED BY <1>4 DEF p, q

-----------------------------------------------------------------------------
(* The inductive invariant: m_buffer is what was read behind the last place   *)
(* that was cut, and the frames are the pieces between those before it.       *)

Consumed == pos - Len(m_buffer)
Done == {k \in EndsOf(stream) : k + 3 <= Consumed}

Types ==
  /\ packets \in Seq(Packet) /\ stream \in Seq(Octet) /\ m_buffer \in Seq(Octet)
  /\ pos \in Nat /\ Len(m_buffer) <= pos /\ pos <= Len(stream)
  /\ pc \in {"idle", "loop"}

Parsed ==
  /\ m_buffer = SubSeq(stream, Consumed + 1, pos)
  /\ Consumed = 0 \/ Consumed - 3 \in EndsOf(stream)
  /\ frames = Pieces(stream, Done)
  /\ pc = "idle" => EndsOf(m_buffer) = {}

\* A packet's bytes are its two ids and its payload.
LEMMA PacketBytes ==
  ASSUME NEW p \in Packet
  PROVE  /\ p.payload \in Seq(Octet) /\ packetize(p) \in Seq(Octet)
         /\ Len(packetize(p)) = Len(p.payload) + 2
         /\ packetize(p)[1] = p.srcID /\ packetize(p)[2] = p.desID
         /\ \A i \in 1..Len(p.payload) : packetize(p)[i + 2] = p.payload[i]
<1>1. p.srcID \in Octet /\ p.desID \in Octet /\ p.payload \in SeqOf(Byte, MaxPayload)
  BY DEF Packet, Octet
<1>2. p.payload \in Seq(Octet)
  <2>1. PICK m \in 0..MaxPayload : p.payload \in [1..m -> Byte]
    BY <1>1 DEF SeqOf
  <2>2. m \in Nat /\ p.payload \in [1..m -> Octet]
    BY <2>1 DEF Octet
  <2> QED BY <2>2
<1> DEFINE h == <<p.srcID, p.desID>>
<1>3. h \in Seq(Octet) /\ Len(h) = 2 /\ h[1] = p.srcID /\ h[2] = p.desID
  BY <1>1
<1> HIDE DEF h
<1>4. /\ packetize(p) \in Seq(Octet) /\ Len(packetize(p)) = 2 + Len(p.payload)
      /\ \A i \in 1..(2 + Len(p.payload)) :
           packetize(p)[i] = IF i <= 2 THEN h[i] ELSE p.payload[i - 2]
  BY <1>2, <1>3, ConcatProperties DEF packetize, h
<1>5. Len(p.payload) \in Nat
  BY <1>2, LenProperties
<1>6. packetize(p)[1] = h[1] /\ packetize(p)[2] = h[2]
  BY <1>4, <1>5
<1>7. ASSUME NEW i \in 1..Len(p.payload) PROVE packetize(p)[i + 2] = p.payload[i]
  <2>1. i + 2 \in 1..(2 + Len(p.payload)) /\ ~(i + 2 <= 2) /\ (i + 2) - 2 = i
    BY <1>5
  <2> QED BY <1>4, <2>1
<1> QED BY <1>2, <1>3, <1>4, <1>5, <1>6, <1>7

\* What a packet adds to the stream.
LEMMA Written ==
  ASSUME Types, NEW p \in Packet, sendPacket(p)
  PROVE  LET x == packetize(p)
             n == Len(stream)
         IN /\ stream' \in Seq(Octet) /\ Len(stream') = n + Len(x) + 4 /\ n \in Nat
            /\ x \in Seq(Octet) /\ Len(x) \in Nat
            /\ \A i \in 1..n : stream'[i] = stream[i]
            /\ SubSeq(stream', n + 1, n + Len(x)) = x
            /\ n + Len(x) + 1 \in EndsOf(stream')
            /\ packets' \in Seq(Packet)
<1> DEFINE x == packetize(p)
           n == Len(stream)
           s == stream \o x
<1>1. x \in Seq(Octet) /\ Len(x) \in Nat /\ stream \in Seq(Octet) /\ n \in Nat
  BY PacketBytes, LenProperties DEF Types
<1>2. /\ PACKET_END \in Seq(Octet) /\ Len(PACKET_END) = 4
      /\ PACKET_END[1] = CR /\ PACKET_END[2] = CR /\ PACKET_END[3] = LF /\ PACKET_END[4] = LF
  <2>1. CR \in Octet /\ LF \in Octet
    BY ByteAssumption DEF Octet
  <2> QED BY <2>1 DEF PACKET_END
<1>3. /\ s \in Seq(Octet) /\ Len(s) = n + Len(x)
      /\ \A i \in 1..(n + Len(x)) : s[i] = IF i <= n THEN stream[i] ELSE x[i - n]
  BY <1>1, ConcatProperties
<1>4. stream' = s \o PACKET_END
  BY DEF sendPacket
<1> HIDE DEF s, x
<1>5. /\ stream' \in Seq(Octet) /\ Len(stream') = n + Len(x) + 4
      /\ \A i \in 1..(n + Len(x) + 4) :
           stream'[i] = IF i <= n + Len(x) THEN s[i] ELSE PACKET_END[i - (n + Len(x))]
  <2>1. /\ s \o PACKET_END \in Seq(Octet) /\ Len(s \o PACKET_END) = Len(s) + Len(PACKET_END)
        /\ \A i \in 1..(Len(s) + Len(PACKET_END)) :
             (s \o PACKET_END)[i] = IF i <= Len(s) THEN s[i] ELSE PACKET_END[i - Len(s)]
    <3>1. s \in Seq(Octet) /\ PACKET_END \in Seq(Octet)
      BY <1>2, <1>3
    <3> QED BY <3>1, ConcatProperties
  <2> QED BY <1>1, <1>2, <1>3, <1>4, <2>1
<1>6. \A i \in 1..n : stream'[i] = stream[i]
  BY <1>1, <1>3, <1>5
<1>7. SubSeq(stream', n + 1, n + Len(x)) = x
  <2> DEFINE t == SubSeq(stream', n + 1, n + Len(x))
  <2>1. \A i \in (n + 1)..(n + Len(x)) : stream'[i] \in Octet
    BY <1>1, <1>5, ElementOfSeq
  <2>2. /\ t \in Seq(Octet)
        /\ Len(t) = IF n + 1 <= n + Len(x) THEN n + Len(x) - (n + 1) + 1 ELSE 0
        /\ \A i \in 1..(n + Len(x) - (n + 1) + 1) : t[i] = stream'[n + 1 + i - 1]
    BY <1>1, <2>1, SubSeqProperties
  <2> HIDE DEF t
  <2>3. Len(t) = Len(x)
    BY <1>1, <2>2
  <2>4. ASSUME NEW i \in 1..Len(t) PROVE t[i] = x[i]
    <3>1. /\ i \in 1..(n + Len(x) - (n + 1) + 1) /\ n + 1 + i - 1 = n + i
          /\ n + i \in 1..(n + Len(x)) /\ ~(n + i <= n) /\ (n + i) - n = i
      BY <1>1, <2>3
    <3>2. stream'[n + i] = s[n + i] /\ s[n + i] = x[i]
      <4>1. n + i \in 1..(n + Len(x) + 4) /\ n + i <= n + Len(x)
        BY <1>1, <3>1
      <4> QED BY <1>3, <1>5, <3>1, <4>1
    <3> QED BY <2>2, <3>1, <3>2
  <2>5. t = x
    BY <1>1, <2>2, <2>3, <2>4, SeqEqual
  <2> QED BY <2>5 DEF t
<1>8. n + Len(x) + 1 \in EndsOf(stream')
  <2> DEFINE e == n + Len(x) + 1
  <2>1. /\ e \in Int /\ 1 <= e /\ e + 3 <= Len(stream')
    BY <1>1, <1>5
  <2>2. ASSUME NEW j \in 1..4 PROVE stream'[n + Len(x) + j] = PACKET_END[j]
    BY <1>1, <1>5
  <2>3. stream'[e] = CR /\ stream'[e + 1] = CR /\ stream'[e + 2] = LF /\ stream'[e + 3] = LF
    <3>1. e + 1 = n + Len(x) + 2 /\ e + 2 = n + Len(x) + 3 /\ e + 3 = n + Len(x) + 4
      BY <1>1
    <3> QED BY <1>2, <2>2, <3>1
  <2> QED BY <1>5, <2>1, <2>3, EndMeans
<1>9. packets' \in Seq(Packet)
  BY AppendProperties DEF sendPacket, Types
<1> QED BY <1>1, <1>5, <1>6, <1>7, <1>8, <1>9 DEF x

\* What an agent writes is behind what was read: the buffer and the packets cut stay.
LEMMA SendKeeps ==
  ASSUME Types, Parsed, NEW p \in Packet, sendPacket(p)
  PROVE  Types' /\ Parsed'
<1> DEFINE x == packetize(p)
           n == Len(stream)
<1>1. /\ stream' \in Seq(Octet) /\ Len(stream') = n + Len(x) + 4 /\ n \in Nat /\ Len(x) \in Nat
      /\ \A i \in 1..n : stream'[i] = stream[i]
      /\ packets' \in Seq(Packet)
  BY Written
<1>2. UNCHANGED <<pos, m_buffer, frames, pc>>
  BY DEF sendPacket
<1>3. Types'
  BY <1>1, <1>2 DEF Types
<1>4. /\ stream \in Seq(Octet) /\ pos \in Nat /\ pos <= n /\ Consumed \in Nat /\ Consumed <= pos
      /\ Consumed' = Consumed
  BY <1>1, <1>2, LenProperties DEF Types, Consumed
<1>5. \A k \in Int : k + 3 <= n => (k \in EndsOf(stream') <=> k \in EndsOf(stream))
  <2>1. n <= Len(stream) /\ n <= Len(stream')
    BY <1>1
  <2> QED BY <1>1, <1>4, <2>1, EndsAgree
<1>6. EndsOf(stream) \subseteq Int /\ EndsOf(stream') \subseteq Int
  BY <1>1, <1>4, EndsArePositions
<1>7. Done' = Done
  BY <1>4, <1>5, <1>6 DEF Done
<1>8. m_buffer' = SubSeq(stream', Consumed' + 1, pos')
  <2>1. SubSeq(stream', Consumed + 1, pos) = SubSeq(stream, Consumed + 1, pos)
    BY <1>1, <1>4, PrefixPiece
  <2> QED BY <1>2, <1>4, <2>1 DEF Parsed
<1>9. Consumed' = 0 \/ Consumed' - 3 \in EndsOf(stream')
  <2>1. (Consumed - 3) + 3 <= n /\ Consumed - 3 \in Int
    BY <1>4
  <2> QED BY <1>4, <1>5, <2>1 DEF Parsed
<1>10. frames' = Pieces(stream', Done')
  <2>1. Done \subseteq EndsOf(stream) /\ Done \subseteq EndsOf(stream') /\ \A k \in Done : k <= n
    BY <1>4, <1>5, <1>6 DEF Done
  <2>2. n <= Len(stream) /\ n <= Len(stream')
    BY <1>1
  <2>3. Pieces(stream', Done) = Pieces(stream, Done)
    BY <1>1, <1>4, <2>1, <2>2, PiecesAgree
  <2> QED BY <1>2, <1>7, <2>3 DEF Parsed
<1> QED BY <1>2, <1>3, <1>8, <1>9, <1>10 DEF Parsed

\* The bytes behind the last cut.
LEMMA Counts ==
  ASSUME Types
  PROVE  /\ Len(m_buffer) \in Nat /\ Len(stream) \in Nat
         /\ Consumed \in Nat /\ Consumed <= pos /\ pos <= Len(stream)
         /\ Len(m_buffer) = pos - Consumed
         /\ EndsOf(stream) \subseteq Int
BY LenProperties, EndsArePositions DEF Types, Consumed

\* What is read goes to the end of the buffer, and the packets cut stay.
LEMMA ReadKeeps ==
  ASSUME Types, Parsed, NEW k \in 1..MaxChunk, dataReadyEvent(k)
  PROVE  Types' /\ Parsed'
<1>1. /\ pos' = pos + k /\ pos + k <= Len(stream) /\ k \in Nat /\ pc' = "loop"
      /\ m_buffer' = m_buffer \o SubSeq(stream, pos + 1, pos + k)
      /\ UNCHANGED <<packets, stream, frames>>
  BY DEF dataReadyEvent, Appended
<1>2. stream \in Seq(Octet) /\ m_buffer = SubSeq(stream, Consumed + 1, pos)
  BY DEF Types, Parsed
<1>3. /\ Len(m_buffer) \in Nat /\ Len(stream) \in Nat /\ pos \in Nat
      /\ Consumed \in Nat /\ Consumed <= pos /\ pos <= Len(stream)
      /\ Len(m_buffer) = pos - Consumed
  BY Counts DEF Types
<1>4. m_buffer' = SubSeq(stream, Consumed + 1, pos + k)
  <2>1. /\ Consumed + 1 \in 1..(Len(stream) + 1)
        /\ pos \in ((Consumed + 1) - 1)..Len(stream)
        /\ pos + k \in pos..Len(stream)
    BY <1>1, <1>3
  <2>2. SubSeq(stream, Consumed + 1, pos) \o SubSeq(stream, pos + 1, pos + k)
          = SubSeq(stream, Consumed + 1, pos + k)
    BY <1>2, <2>1, ConcatAdjacentSubSeq
  <2> QED BY <1>1, <1>2, <2>2
<1>5. m_buffer' \in Seq(Octet) /\ Len(m_buffer') = pos + k - Consumed
  <2>1. \A i \in (Consumed + 1)..(pos + k) : stream[i] \in Octet
    BY <1>1, <1>2, <1>3, ElementOfSeq
  <2>2. /\ SubSeq(stream, Consumed + 1, pos + k) \in Seq(Octet)
        /\ Len(SubSeq(stream, Consumed + 1, pos + k))
             = IF Consumed + 1 <= pos + k THEN pos + k - (Consumed + 1) + 1 ELSE 0
    BY <1>1, <1>3, <2>1, SubSeqProperties
  <2>3. Consumed + 1 <= pos + k /\ pos + k - (Consumed + 1) + 1 = pos + k - Consumed
    BY <1>1, <1>3
  <2> QED BY <1>4, <2>2, <2>3
<1>6. Consumed' = Consumed
  BY <1>1, <1>3, <1>5 DEF Consumed
<1>7. Types'
  BY <1>1, <1>3, <1>5 DEF Types
<1>8. Parsed'
  <2>1. Done' = Done
    BY <1>1, <1>6 DEF Done
  <2> QED BY <1>1, <1>4, <1>6, <2>1 DEF Parsed
<1> QED BY <1>7, <1>8

\* The place found in the buffer is the next one of the stream.
LEMMA NextEnd ==
  ASSUME Types, Parsed, NEW j \in EndsOf(stream), Consumed < j + 3, j + 3 <= pos
  PROVE  Consumed < j /\ j - Consumed \in EndsOf(m_buffer)
<1>1. /\ Consumed \in Nat /\ Consumed <= pos /\ pos <= Len(stream) /\ pos \in Nat /\ j \in Int
      /\ stream \in Seq(Octet)
  BY Counts DEF Types
<1>2. Consumed < j
  <2>1. CASE Consumed = 0
    BY <1>1, <2>1, EndMeans
  <2>2. CASE Consumed - 3 \in EndsOf(stream)
    <3>1. Consumed - 3 < j
      <4>1. Consumed - 3 # j /\ ~(j + 4 <= Consumed - 3)
        BY <1>1
      <4>2. j < Consumed - 3 => j + 4 <= Consumed - 3
        BY <1>1, <2>2, EndsApart
      <4> QED BY <1>1, <4>1, <4>2
    <3>2. (Consumed - 3) + 4 <= j
      BY <1>1, <2>2, <3>1, EndsApart
    <3> QED BY <1>1, <3>2
  <2> QED BY <2>1, <2>2 DEF Parsed
<1>3. j - Consumed \in EndsOf(SubSeq(stream, Consumed + 1, pos))
  <2>1. /\ j - Consumed \in Int /\ 1 <= j - Consumed /\ (j - Consumed) + Consumed + 3 <= pos
        /\ (j - Consumed) + Consumed = j
    BY <1>1, <1>2
  <2> QED BY <1>1, <2>1, EndsWithin
<1> QED BY <1>2, <1>3 DEF Parsed

\* A cut at the first PACKET_END of the buffer makes one piece more, and leaves what follows.
LEMMA CutKeeps ==
  ASSUME Types, Parsed, Cut
  PROVE  Types' /\ Parsed'
<1> DEFINE c == Consumed
<1>1. /\ stream \in Seq(Octet) /\ m_buffer \in Seq(Octet) /\ m_buffer = SubSeq(stream, Consumed + 1, pos)
      /\ frames = Pieces(stream, Done)
  BY DEF Types, Parsed
<1>2. /\ Len(m_buffer) \in Nat /\ Len(stream) \in Nat /\ pos \in Nat
      /\ Consumed \in Nat /\ Consumed <= pos /\ pos <= Len(stream)
      /\ Len(m_buffer) = pos - Consumed /\ EndsOf(stream) \subseteq Int
  BY Counts DEF Types
<1>3. PICK k : k = IndexOf(m_buffer)
  OBVIOUS
<1>4. k \in EndsOf(m_buffer) /\ k \in Nat /\ \A j \in EndsOf(m_buffer) : k <= j
  <2>1. EndsOf(m_buffer) \subseteq Nat /\ EndsOf(m_buffer) # {}
    BY <1>1, EndsArePositions DEF Cut
  <2>2. \E i \in EndsOf(m_buffer) : \A j \in EndsOf(m_buffer) : i <= j
    BY <2>1, FirstPosition
  <2> QED BY <1>3, <2>1, <2>2 DEF IndexOf
<1>5. /\ frames' = Append(frames, SubSeq(m_buffer, 1, k - 1))
      /\ m_buffer' = SubSeq(m_buffer, k + 4, Len(m_buffer))
      /\ UNCHANGED <<packets, stream, pos, pc>> /\ pc = "loop"
  BY <1>3, EndLength DEF Cut, Rest
<1>6. 1 <= k /\ k + Consumed + 3 <= pos /\ k + Consumed \in EndsOf(stream)
  BY <1>1, <1>2, <1>4, EndsWithin
<1>7. /\ m_buffer' = SubSeq(stream, Consumed + k + 4, pos)
      /\ m_buffer' \in Seq(Octet) /\ Len(m_buffer') = pos - (Consumed + k + 3)
  BY <1>1, <1>2, <1>5, <1>6, PieceOfPiece, <1>4
<1>8. Consumed' = Consumed + k + 3
  <2>1. Consumed' = pos' - Len(m_buffer')
    BY DEF Consumed
  <2> QED BY <1>2, <1>4, <1>5, <1>7, <2>1
<1>9. Types'
  BY <1>2, <1>4, <1>5, <1>7 DEF Types
<1>10. Done' = Done \cup {k + Consumed} /\ \A j \in Done : j < k + Consumed
  <2>1. ASSUME NEW j \in EndsOf(stream), j + 3 <= Consumed + k + 3, Consumed < j + 3
        PROVE  j = k + Consumed
    <3>1. j \in Int /\ j + 3 <= pos
      BY <1>2, <1>4, <1>6, <2>1
    <3>2. Consumed < j /\ j - Consumed \in EndsOf(m_buffer)
      BY <2>1, <3>1, NextEnd
    <3>3. k <= j - Consumed
      BY <1>4, <3>2
    <3> QED BY <1>2, <1>4, <2>1, <3>1, <3>3
  <2>2. EndsOf(stream') = EndsOf(stream) /\ Done' = {j \in EndsOf(stream) : j + 3 <= Consumed + k + 3}
    BY <1>5, <1>8 DEF Done
  <2>3. \A j \in EndsOf(stream) : j \in Int /\ (j + 3 <= Consumed + k + 3 <=> j + 3 <= Consumed \/ j = k + Consumed)
    <3>1. ASSUME NEW j \in EndsOf(stream)
          PROVE  j \in Int /\ (j + 3 <= Consumed + k + 3 <=> j + 3 <= Consumed \/ j = k + Consumed)
      <4>1. j \in Int
        BY <1>2
      <4>2. j + 3 <= Consumed + k + 3 => j + 3 <= Consumed \/ j = k + Consumed
        BY <1>2, <2>1, <4>1
      <4> QED BY <1>2, <1>4, <4>1, <4>2
    <3> QED BY <3>1
  <2>4. \A j \in Done : j < k + Consumed
    BY <1>2, <1>4, <1>6 DEF Done
  <2> QED BY <1>6, <2>2, <2>3, <2>4 DEF Done
<1>11. frames' = Pieces(stream', Done')
  <2> DEFINE e == k + Consumed
             b == Consumed + 1
  <2>1. Done \cup {e} \subseteq EndsOf(stream)
    BY <1>6 DEF Done
  <2>2. \/ Done = {} /\ b = 1
        \/ b - 4 \in Done /\ \A j \in Done : j <= b - 4
    <3>1. CASE Consumed = 0
      <4>1. \A j \in EndsOf(stream) : 1 <= j /\ j \in Int
        BY <1>1, <1>2, EndMeans
      <4>2. Done = {}
        BY <3>1, <4>1 DEF Done
      <4> QED BY <3>1, <4>2
    <3>2. CASE Consumed - 3 \in EndsOf(stream)
      <4>1. b - 4 = Consumed - 3 /\ (b - 4) + 3 <= Consumed
        BY <1>2
      <4>2. b - 4 \in Done
        BY <3>2, <4>1 DEF Done
      <4>3. \A j \in Done : j <= b - 4
        BY <1>2, <4>1 DEF Done
      <4> QED BY <4>2, <4>3
    <3> QED BY <3>1, <3>2 DEF Parsed
  <2>3. b \in Nat
    BY <1>2
  <2> HIDE DEF b, e
  <2>4. Pieces(stream, Done \cup {e}) = Append(Pieces(stream, Done), SubSeq(stream, b, e - 1))
    BY <1>1, <1>10, <2>1, <2>2, <2>3, PiecesGrow DEF e
  <2>5. SubSeq(m_buffer, 1, k - 1) = SubSeq(stream, b, e - 1)
    <3>1. SubSeq(m_buffer, 1, k - 1) = SubSeq(stream, Consumed + 1, Consumed + k - 1)
      BY <1>1, <1>2, <1>4, <1>6, PieceOfPiece
    <3>2. Consumed + k - 1 = e - 1
      BY <1>2, <1>4 DEF e
    <3> QED BY <3>1, <3>2 DEF b
  <2> QED BY <1>1, <1>5, <1>10, <2>4, <2>5 DEF e
<1>12. Parsed'
  <2>1. Consumed' + 1 = Consumed + k + 4 /\ Consumed' - 3 = k + Consumed
    BY <1>2, <1>4, <1>8
  <2>2. m_buffer' = SubSeq(stream', Consumed' + 1, pos')
    BY <1>5, <1>7, <2>1
  <2>3. Consumed' - 3 \in EndsOf(stream')
    BY <1>5, <1>6, <2>1
  <2> QED BY <1>5, <1>11, <2>2, <2>3 DEF Parsed
<1> QED BY <1>9, <1>12

\* The loop ends when the buffer holds no PACKET_END, hence every end read was cut.
LEMMA EndKeeps ==
  ASSUME Types, Parsed, LoopEnd
  PROVE  Types' /\ Parsed'
<1>1. UNCHANGED <<packets, stream, pos, m_buffer, frames>> /\ EndsOf(m_buffer) = {} /\ pc' = "idle"
  BY DEF LoopEnd
<1>2. Consumed' = Consumed /\ Done' = Done
  BY <1>1 DEF Consumed, Done
<1> QED BY <1>1, <1>2 DEF Types, Parsed

-----------------------------------------------------------------------------
(* What the agent wrote: PACKET_END closes every packet, and where no packet  *)
(* holds one, the pieces of the stream are the packets.                       *)

AllClean == \A i \in DOMAIN packets : Clean(packets[i])
Closed == Len(stream) = 0 \/ Len(stream) - 3 \in EndsOf(stream)
Packetized == [i \in DOMAIN packets |-> packetize(packets[i])]
Divided == AllClean => Pieces(stream, EndsOf(stream)) = Packetized

\* One packet more is one packetized packet more.
LEMMA PacketizedGrows ==
  ASSUME packets \in Seq(Packet), NEW p \in Packet, packets' = Append(packets, p)
  PROVE  Packetized' = Append(Packetized, packetize(p))
<1> DEFINE q == Packetized
           r == Packetized'
           x == packetize(p)
           m == Len(packets)
<1>1. /\ m \in Nat /\ DOMAIN packets = 1..m /\ DOMAIN packets' = 1..(m + 1)
      /\ \A i \in 1..m : packets'[i] = packets[i] /\ packets[i] \in Packet
      /\ packets'[m + 1] = p
  BY AppendProperties, LenProperties, ElementOfSeq
<1>2. /\ q \in [1..m -> Seq(Octet)] /\ \A i \in 1..m : q[i] = packetize(packets[i])
  BY <1>1, PacketBytes DEF Packetized
<1>3. ASSUME NEW i \in 1..(m + 1)
      PROVE  /\ packets'[i] \in Packet /\ r[i] = packetize(packets'[i])
             /\ i \in 1..m => r[i] = packetize(packets[i])
             /\ i \notin 1..m => r[i] = x
  <2>1. r[i] = packetize(packets'[i])
    BY <1>1 DEF Packetized
  <2>2. i \in 1..m \/ i = m + 1
    BY <1>1
  <2> QED BY <1>1, <2>1, <2>2
<1>4. r \in [1..(m + 1) -> Seq(Octet)]
  <2>1. DOMAIN r = 1..(m + 1) /\ r = [i \in 1..(m + 1) |-> r[i]]
    BY <1>1 DEF Packetized
  <2>2. \A i \in 1..(m + 1) : r[i] \in Seq(Octet)
    BY <1>3, PacketBytes
  <2> HIDE DEF r
  <2> QED BY <2>1, <2>2
<1>5. x \in Seq(Octet)
  BY PacketBytes
<1> HIDE DEF q, r, x
<1>6. /\ q \in Seq(Seq(Octet)) /\ Len(q) = m /\ r \in Seq(Seq(Octet)) /\ Len(r) = m + 1
  <2>1. q \in Seq(Seq(Octet)) /\ DOMAIN q = 1..m
    BY <1>1, <1>2
  <2>2. r \in Seq(Seq(Octet)) /\ DOMAIN r = 1..(m + 1)
    BY <1>1, <1>4
  <2>3. Len(q) = m /\ Len(r) = m + 1
    BY <1>1, <2>1, <2>2, LenProperties
  <2> QED BY <2>1, <2>2, <2>3
<1>7. /\ Append(q, x) \in Seq(Seq(Octet)) /\ Len(Append(q, x)) = m + 1
      /\ \A i \in 1..m : Append(q, x)[i] = q[i]
      /\ Append(q, x)[m + 1] = x
  BY <1>5, <1>6, AppendProperties
<1>8. ASSUME NEW i \in 1..Len(r) PROVE r[i] = Append(q, x)[i]
  <2>1. i \in 1..(m + 1) /\ (i \in 1..m \/ i = m + 1) /\ m + 1 \notin 1..m
    BY <1>1, <1>6
  <2> QED BY <1>2, <1>3, <1>7, <2>1
<1>9. r = Append(q, x)
  BY <1>6, <1>7, <1>8, SeqEqual
<1> QED BY <1>9 DEF q, r, x

\* A clean packet adds the one place that closes it.
LEMMA EndsGrow ==
  ASSUME Types, Closed, NEW p \in Packet, sendPacket(p), Clean(p)
  PROVE  EndsOf(stream') = EndsOf(stream) \cup {Len(stream) + Len(packetize(p)) + 1}
<1> DEFINE x == packetize(p)
           n == Len(stream)
           e == n + Len(x) + 1
<1>1. /\ stream' \in Seq(Octet) /\ Len(stream') = n + Len(x) + 4 /\ n \in Nat /\ Len(x) \in Nat
      /\ \A i \in 1..n : stream'[i] = stream[i]
      /\ SubSeq(stream', n + 1, n + Len(x)) = x
      /\ e \in EndsOf(stream') /\ stream \in Seq(Octet)
  BY Written DEF Types
<1> HIDE DEF x, n
<1>2. n = Len(stream) /\ EndsOf(x) = {}
  BY DEF Clean, x, n
<1>3. EndsOf(stream) \subseteq Int /\ EndsOf(stream') \subseteq Int
  BY <1>1, EndsArePositions
<1>4. \A k \in Int : k + 3 <= n => (k \in EndsOf(stream') <=> k \in EndsOf(stream))
  <2>1. n <= Len(stream) /\ n <= Len(stream')
    BY <1>1, <1>2
  <2> QED BY <1>1, <2>1, EndsAgree
<1>5. ASSUME NEW k \in EndsOf(stream) PROVE k \in EndsOf(stream')
  <2>1. k \in Int /\ k + 3 <= n
    BY <1>1, <1>2, <1>3, EndMeans
  <2> QED BY <1>4, <2>1
<1>6. ASSUME NEW k \in EndsOf(stream') PROVE k \in EndsOf(stream) \/ k = e
  <2>1. k \in Int /\ 1 <= k /\ k + 3 <= n + Len(x) + 4
    BY <1>1, <1>3, EndMeans
  <2>2. CASE k + 3 <= n
    BY <1>4, <2>1, <2>2
  <2>3. CASE n < k + 3
    <3>1. n < k
      <4>1. CASE n = 0
        BY <2>1, <4>1
      <4>2. CASE n - 3 \in EndsOf(stream)
        <5>1. n - 3 \in EndsOf(stream')
          BY <1>5, <4>2
        <5>2. n - 3 < k
          BY <1>1, <2>1, <2>3
        <5>3. (n - 3) + 4 <= k
          BY <1>1, <5>1, <5>2, EndsApart
        <5> QED BY <1>1, <2>1, <5>3
      <4> QED BY <1>2, <4>1, <4>2 DEF Closed
    <3>2. CASE k < e
      <4>1. k + 4 <= e
        BY <1>1, <2>1, <3>2, EndsApart
      <4>2. /\ k - n \in Int /\ 1 <= k - n /\ (k - n) + n = k /\ (k - n) + n + 3 <= n + Len(x)
            /\ n + Len(x) \in Nat /\ n <= n + Len(x) /\ n + Len(x) <= Len(stream')
        BY <1>1, <2>1, <3>1, <4>1
      <4>3. k - n \in EndsOf(SubSeq(stream', n + 1, n + Len(x)))
        BY <1>1, <4>2, EndsWithin
      <4> QED BY <1>1, <1>2, <4>3
    <3>3. k <= e /\ e \in Int
      <4>1. n + Len(x) \in Nat
        BY <1>1
      <4> QED BY <2>1, <4>1
    <3> HIDE DEF e
    <3>4. k < e \/ k = e
      BY <2>1, <3>3
    <3> QED BY <3>2, <3>4
  <2> QED BY <1>1, <2>1, <2>2, <2>3
<1> QED BY <1>1, <1>5, <1>6 DEF x, n

\* A packet appended to a stream that ends with PACKET_END is one piece more of it.
LEMMA SendDivides ==
  ASSUME Types, Closed, Divided, NEW p \in Packet, sendPacket(p)
  PROVE  Closed' /\ Divided'
<1> DEFINE x == packetize(p)
           n == Len(stream)
           e == n + Len(x) + 1
<1>1. /\ stream' \in Seq(Octet) /\ Len(stream') = n + Len(x) + 4 /\ n \in Nat /\ Len(x) \in Nat
      /\ \A i \in 1..n : stream'[i] = stream[i]
      /\ SubSeq(stream', n + 1, n + Len(x)) = x /\ x \in Seq(Octet)
      /\ e \in EndsOf(stream') /\ stream \in Seq(Octet)
      /\ packets \in Seq(Packet) /\ packets' = Append(packets, p) /\ packets' \in Seq(Packet)
  BY Written DEF Types, sendPacket
<1>2. Closed'
  <2>1. Len(stream') - 3 = e
    BY <1>1
  <2> QED BY <1>1, <2>1 DEF Closed
<1>3. /\ Len(packets) \in Nat /\ DOMAIN packets = 1..Len(packets)
      /\ DOMAIN packets' = 1..(Len(packets) + 1)
      /\ \A i \in 1..Len(packets) : packets'[i] = packets[i]
      /\ packets'[Len(packets) + 1] = p
  BY <1>1, AppendProperties, LenProperties
<1>4. ASSUME AllClean' PROVE Pieces(stream', EndsOf(stream')) = Packetized'
  <2>1. AllClean /\ Clean(p)
    <3>1. \A i \in 1..(Len(packets) + 1) : Clean(packets'[i])
      BY <1>3, <1>4 DEF AllClean
    <3>2. Len(packets) + 1 \in 1..(Len(packets) + 1)
      BY <1>3
    <3>3. \A i \in 1..Len(packets) : i \in 1..(Len(packets) + 1)
      BY <1>3
    <3> QED BY <1>3, <3>1, <3>2, <3>3 DEF AllClean
  <2> DEFINE E == EndsOf(stream)
  <2>2. EndsOf(stream') = E \cup {e}
    BY <2>1, EndsGrow
  <2>3. E \subseteq Int /\ \A k \in E : 1 <= k /\ k + 3 <= n
    BY <1>1, EndMeans, EndsArePositions
  <2>4. Pieces(stream', E) = Pieces(stream, E)
    <3>1. E \subseteq EndsOf(stream) /\ E \subseteq EndsOf(stream') /\ \A k \in E : k <= n
      BY <1>1, <2>2, <2>3
    <3>2. n <= Len(stream) /\ n <= Len(stream')
      BY <1>1
    <3> QED BY <1>1, <3>1, <3>2, PiecesAgree
  <2>5. Pieces(stream', E \cup {e}) = Append(Pieces(stream', E), SubSeq(stream', n + 1, e - 1))
    <3>1. \A k \in E : k < e
      BY <1>1, <2>3
    <3>2. \/ E = {} /\ n + 1 = 1
          \/ (n + 1) - 4 \in E /\ \A k \in E : k <= (n + 1) - 4
      <4>1. CASE n = 0
        <5>1. \A k \in E : FALSE
          BY <2>3, <4>1
        <5> QED BY <4>1, <5>1
      <4>2. CASE n - 3 \in E
        <5>1. (n + 1) - 4 = n - 3
          BY <1>1
        <5>2. \A k \in E : k <= n - 3
          BY <1>1, <2>3
        <5> QED BY <4>2, <5>1, <5>2
      <4> QED BY <4>1, <4>2 DEF Closed
    <3>3. E \cup {e} \subseteq EndsOf(stream') /\ n + 1 \in Nat
      BY <1>1, <2>2
    <3> HIDE DEF e, n, E
    <3> QED BY <1>1, <3>1, <3>2, <3>3, PiecesGrow
  <2>6. SubSeq(stream', n + 1, e - 1) = x
    <3>1. e - 1 = n + Len(x)
      BY <1>1
    <3> QED BY <1>1, <3>1
  <2>7. Pieces(stream, E) = Packetized
    BY <2>1 DEF Divided
  <2>8. Append(Packetized, x) = Packetized'
    BY <1>1, PacketizedGrows
  <2> QED BY <2>2, <2>4, <2>5, <2>6, <2>7, <2>8
<1> QED BY <1>2, <1>4 DEF Divided

-----------------------------------------------------------------------------
(* Theorems.                                                                 *)

FramingInv == Types /\ Parsed /\ Closed /\ Divided

\* An empty stream has no pieces, and an empty buffer.
LEMMA Starts == Init => FramingInv
<1> SUFFICES ASSUME Init PROVE FramingInv
  OBVIOUS
<1>1. /\ packets = <<>> /\ stream = <<>> /\ pos = 0 /\ m_buffer = <<>> /\ frames = <<>> /\ pc = "idle"
      /\ Len(<<>>) = 0 /\ <<>> \in Seq(Octet) /\ <<>> \in Seq(Packet)
  BY EmptySeq DEF Init
<1>2. Types /\ Consumed = 0 /\ Closed
  <2>1. /\ stream \in Seq(Octet) /\ m_buffer \in Seq(Octet) /\ packets \in Seq(Packet)
        /\ Len(stream) = 0 /\ Len(m_buffer) = 0 /\ pos = 0 /\ pc = "idle"
    BY <1>1
  <2> QED BY <2>1 DEF Types, Consumed, Closed
<1>3. EndsOf(<<>>) = {}
  BY <1>1 DEF EndsOf
<1>4. \A s : Pieces(s, {}) = <<>>
  BY FS_EmptySet DEF Pieces
<1>5. Done = {} /\ m_buffer = SubSeq(stream, Consumed + 1, pos)
  BY <1>1, <1>2, <1>3, SubSeqEmpty DEF Done
<1>6. Parsed
  BY <1>1, <1>2, <1>3, <1>4, <1>5 DEF Parsed
<1>7. Divided
  BY <1>1, <1>3, <1>4 DEF Divided, Packetized
<1> QED BY <1>2, <1>6, <1>7 DEF FramingInv

\* However the bytes of any packets are split into reads, what is in the buffer
\* and in the frames is accounted for place by place.
THEOREM FramingCorrect == Spec => []FramingInv
<1>1. FramingInv /\ [Next]_vars => FramingInv'
  <2> SUFFICES ASSUME FramingInv, [Next]_vars PROVE FramingInv'
    OBVIOUS
  <2>1. CASE Cut
    <3>1. UNCHANGED <<packets, stream>>
      BY <2>1 DEF Cut
    <3> QED BY <2>1, <3>1, CutKeeps DEF FramingInv, Closed, Divided, AllClean, Packetized
  <2>2. CASE LoopEnd
    <3>1. UNCHANGED <<packets, stream>>
      BY <2>2 DEF LoopEnd
    <3> QED BY <2>2, <3>1, EndKeeps DEF FramingInv, Closed, Divided, AllClean, Packetized
  <2>3. ASSUME NEW k \in 1..MaxChunk, dataReadyEvent(k) PROVE FramingInv'
    <3>1. UNCHANGED <<packets, stream>>
      BY <2>3 DEF dataReadyEvent
    <3> QED BY <2>3, <3>1, ReadKeeps DEF FramingInv, Closed, Divided, AllClean, Packetized
  <2>4. ASSUME NEW p \in Packet, sendPacket(p) PROVE FramingInv'
    BY <2>4, SendKeeps, SendDivides DEF FramingInv
  <2>5. CASE UNCHANGED vars
    BY <2>5 DEF vars, FramingInv, Types, Parsed, Consumed, Done, Closed, Divided, AllClean, Packetized
  <2> QED BY <2>1, <2>2, <2>3, <2>4, <2>5 DEF Next
<1> QED BY <1>1, Starts, PTL DEF Spec

\* Whenever the loop returns, it has cut all there is to cut.
LEMMA AllCut ==
  ASSUME FramingInv, pc = "idle"
  PROVE  /\ Done = EndsOf(SubSeq(stream, 1, pos))
         /\ frames = Segments(SubSeq(stream, 1, pos))
<1>1. /\ Types /\ Parsed /\ stream \in Seq(Octet) /\ EndsOf(m_buffer) = {}
      /\ frames = Pieces(stream, Done)
  BY DEF FramingInv, Types, Parsed
<1>2. /\ Consumed \in Nat /\ Consumed <= pos /\ pos <= Len(stream) /\ pos \in Nat
      /\ EndsOf(stream) \subseteq Int /\ Len(stream) \in Nat
  BY <1>1, Counts DEF Types
<1> DEFINE t == SubSeq(stream, 1, pos)
<1>3. t \in Seq(Octet) /\ Len(t) = pos /\ \A i \in 1..pos : t[i] = stream[i]
  <2>1. /\ t \in Seq(Octet) /\ Len(t) = pos - 1 + 1
        /\ \A i \in 1..(pos - 1 + 1) : t[i] = stream[1 + i - 1]
    BY <1>1, <1>2, PieceProperties
  <2> HIDE DEF t
  <2>2. pos - 1 + 1 = pos /\ \A i \in 1..pos : 1 + i - 1 = i
    BY <1>2
  <2> QED BY <2>1, <2>2
<1> HIDE DEF t
<1>4. EndsOf(t) \subseteq Int /\ \A k \in EndsOf(t) : k + 3 <= pos
  BY <1>3, EndMeans, EndsArePositions
<1>5. \A k \in Int : k + 3 <= pos => (k \in EndsOf(t) <=> k \in EndsOf(stream))
  <2>1. pos <= Len(t) /\ pos <= Len(stream)
    BY <1>2, <1>3
  <2> QED BY <1>1, <1>2, <1>3, <2>1, EndsAgree
<1>6. ASSUME NEW k \in EndsOf(t) PROVE k \in Done
  <2>1. k \in Int /\ k + 3 <= pos /\ k \in EndsOf(stream)
    BY <1>4, <1>5
  <2>2. ~(Consumed < k + 3)
    BY <1>1, <2>1, NextEnd
  <2> QED BY <1>2, <2>1, <2>2 DEF Done
<1>7. ASSUME NEW k \in Done PROVE k \in EndsOf(t)
  <2>1. k \in EndsOf(stream) /\ k \in Int /\ k + 3 <= Consumed
    BY <1>2 DEF Done
  <2>2. k + 3 <= pos
    BY <1>2, <2>1
  <2> QED BY <1>5, <2>1, <2>2
<1>8. Done = EndsOf(t)
  BY <1>6, <1>7
<1>9. Pieces(t, Done) = Pieces(stream, Done)
  <2>1. Done \subseteq EndsOf(stream) /\ Done \subseteq EndsOf(t) /\ \A k \in Done : k <= pos
    BY <1>2, <1>8 DEF Done
  <2>2. pos <= Len(t) /\ pos <= Len(stream)
    BY <1>2, <1>3
  <2> QED BY <1>1, <1>2, <1>3, <2>1, <2>2, PiecesAgree
<1>10. Segments(t) = Pieces(t, EndsOf(t))
  BY DEF Segments, Pieces, From
<1> QED BY <1>1, <1>8, <1>9, <1>10 DEF t

\* The chunks in which a stream arrives make no difference to the packets cut
\* from it, for any bytes, any number of packets and any size of the reads.
THEOREM ChunkingHidden == Spec => []ChunkingIsInvisible
<1>1. FramingInv => ChunkingIsInvisible
  BY AllCut DEF ChunkingIsInvisible
<1> QED BY <1>1, FramingCorrect, PTL

\* What a packet is made into is made into the packet again.
LEMMA Decoded ==
  ASSUME NEW p \in Packet
  PROVE  depacketize(packetize(p)) = p
<1> DEFINE x == packetize(p)
           l == Len(p.payload)
           y == SubSeq(x, 3, Len(x))
<1>1. /\ p.payload \in Seq(Octet) /\ x \in Seq(Octet) /\ Len(x) = l + 2 /\ l \in Nat
      /\ x[1] = p.srcID /\ x[2] = p.desID
      /\ \A i \in 1..l : x[i + 2] = p.payload[i]
  BY PacketBytes, LenProperties
<1> HIDE DEF x, l
<1>2. y \in Seq(Octet) /\ Len(y) = l /\ \A i \in 1..l : y[i] = x[i + 2]
  <2>1. /\ 3 \in Nat /\ Len(x) \in Nat /\ 1 <= 3 /\ 3 <= Len(x) + 1 /\ Len(x) <= Len(x)
        /\ Len(x) - 3 + 1 = l
    BY <1>1
  <2>2. /\ y \in Seq(Octet) /\ Len(y) = Len(x) - 3 + 1
        /\ \A i \in 1..(Len(x) - 3 + 1) : y[i] = x[3 + i - 1]
    BY <1>1, <2>1, PieceProperties
  <2> HIDE DEF y
  <2>3. \A i \in 1..l : 3 + i - 1 = i + 2
    BY <1>1
  <2> QED BY <2>1, <2>2, <2>3
<1> HIDE DEF y
<1>3. y = p.payload
  BY <1>1, <1>2, SeqEqual DEF l
<1>4. ByteAt(x, 1) = p.srcID /\ ByteAt(x, 2) = p.desID
  BY <1>1 DEF ByteAt
<1>5. depacketize(x) = [srcID |-> p.srcID, desID |-> p.desID, payload |-> p.payload]
  BY <1>3, <1>4 DEF depacketize, PayloadAt, y
<1> QED BY <1>5 DEF Packet, x

\* Packets come out as they went in, of any length and with any payload, unless
\* one of them holds PACKET_END.
THEOREM PacketsSurvive == Spec => []RoundTrip
<1>1. FramingInv => RoundTrip
  <2> SUFFICES ASSUME FramingInv, pc = "idle", pos = Len(stream), AllClean
               PROVE  /\ m_buffer = <<>>
                      /\ [i \in DOMAIN frames |-> depacketize(frames[i])] = packets
    BY DEF RoundTrip, AllClean
  <2>1. /\ Types /\ Parsed /\ Closed /\ stream \in Seq(Octet) /\ m_buffer \in Seq(Octet)
        /\ packets \in Seq(Packet) /\ frames = Pieces(stream, Done)
    BY DEF FramingInv, Types, Parsed
  <2>2. Done = EndsOf(stream)
    BY <2>1, AllCut, SubSeqFull
  <2>3. m_buffer = <<>>
    <3>1. /\ Consumed \in Nat /\ Consumed <= pos /\ Len(stream) \in Nat
          /\ Len(m_buffer) = pos - Consumed
      BY <2>1, Counts
    <3>2. Len(stream) = 0 \/ (Len(stream) - 3) + 3 <= Consumed
      BY <2>1, <2>2 DEF Closed, Done
    <3>3. Len(m_buffer) = 0
      BY <3>1, <3>2
    <3> QED BY <2>1, <3>3, EmptySeq
  <2>4. frames = Packetized
    BY <2>1, <2>2 DEF FramingInv, Divided
  <2>5. DOMAIN frames = DOMAIN packets /\ \A i \in DOMAIN packets : frames[i] = packetize(packets[i])
    BY <2>4 DEF Packetized
  <2>6. \A i \in DOMAIN packets : depacketize(frames[i]) = packets[i]
    <3>1. \A i \in DOMAIN packets : packets[i] \in Packet
      BY <2>1, LenProperties, ElementOfSeq
    <3> QED BY <2>5, <3>1, Decoded
  <2>7. [i \in DOMAIN frames |-> depacketize(frames[i])] = packets
    <3>1. packets = [i \in DOMAIN packets |-> packets[i]]
      BY <2>1, LenProperties
    <3> QED BY <2>5, <2>6, <3>1
  <2> QED BY <2>3, <2>7
<1> QED BY <1>1, FramingCorrect, PTL
=============================================================================
