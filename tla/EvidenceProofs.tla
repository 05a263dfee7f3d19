--------------------------- MODULE EvidenceProofs ---------------------------
(***************************************************************************)
(* Proofs about TargetEvidence, for any table, images, order, statements,  *)
(* width of the lengths, cap and budget: equal digests mean equal target   *)
(* rows, and the rows touched are the rows that were fingerprinted.        *)
(***************************************************************************)
EXTENDS EvidenceInvariant, DataLemmas, SequenceTheorems

-----------------------------------------------------------------------------
(* The bytes of a length.                                                  *)

LEMMA WeightSteps ==
  /\ Weight \in [0..PrefixBytes -> Nat \ {0}] /\ Weight[0] = 1
  /\ \A k \in 1..PrefixBytes : Weight[k] = 256 * Weight[k - 1]
<1> DEFINE F == [k \in 1..PrefixBytes |-> [w \in Nat \ {0} |-> 256 * w]]
           W(f) == f = [k \in 0..PrefixBytes |-> IF k = 0 THEN 1 ELSE 256 * f[k - 1]]
<1>1. PICK f \in [0..PrefixBytes -> Nat \ {0}] : Stepwise(f, PrefixBytes, 1, F)
  <2> DEFINE S == Nat \ {0}
  <2>1. F \in [1..PrefixBytes -> [S -> S]]
    OBVIOUS
  <2>2. PrefixBytes \in Nat /\ 1 \in S
    BY EvidenceAssumption
  <2> HIDE DEF F, S
  <2>3. \E f \in [0..PrefixBytes -> S] : Stepwise(f, PrefixBytes, 1, F)
    BY <2>1, <2>2, StepwiseFunction
  <2>4. QED
    BY <2>3 DEF S
<1>2. ASSUME NEW k \in 1..PrefixBytes PROVE f[k] = 256 * f[k - 1]
  <2>1. k - 1 \in 0..PrefixBytes
    BY EvidenceAssumption
  <2>2. f[k - 1] \in Nat \ {0}
    BY <1>1, <2>1
  <2>3. QED
    BY <1>1, <2>2 DEF Stepwise
<1>3. W(f)
  BY <1>1, <1>2, EvidenceAssumption DEF Stepwise
<1>4. W(Weight)
  <2>1. \E g : W(g)
    BY <1>3
  <2>2. QED
    BY <2>1 DEF Weight
<1>5. Weight = f
  <2>1. \A k \in 0..PrefixBytes : Weight[k] = f[k]
    <3> DEFINE T == {k \in 0..PrefixBytes : Weight[k] = f[k]}
    <3>1. 0 \in T
      BY <1>3, <1>4, EvidenceAssumption
    <3>2. ASSUME NEW k \in 0..PrefixBytes, k < PrefixBytes, k \in T
          PROVE  k + 1 \in T
      <4>1. k + 1 \in 0..PrefixBytes /\ k + 1 /= 0 /\ (k + 1) - 1 = k
        BY <3>2, EvidenceAssumption
      <4>2. Weight[k + 1] = 256 * Weight[k] /\ f[k + 1] = 256 * f[k]
        BY <1>3, <1>4, <4>1
      <4>3. QED
        BY <3>2, <4>1, <4>2
    <3>3. 0..PrefixBytes \subseteq T
      <4> HIDE DEF T
      <4>1. QED
        BY <3>1, <3>2, Induction, EvidenceAssumption
    <3>4. QED
      BY <3>3
  <2>2. Weight = [k \in 0..PrefixBytes |-> Weight[k]]
    BY <1>4
  <2>3. QED
    BY <1>1, <2>1, <2>2
<1>6. QED
  BY <1>1, <1>2, <1>5 DEF Stepwise

LEMMA PrefixType ==
  ASSUME NEW n \in Nat
  PROVE  Prefix(n) \in Seq(0..255) /\ Len(Prefix(n)) = PrefixBytes
<1>1. PrefixBytes \in Nat
  BY EvidenceAssumption
<1>2. ASSUME NEW k \in 1..PrefixBytes
      PROVE  (n \div Weight[PrefixBytes - k]) % 256 \in 0..255
  <2>1. Weight[PrefixBytes - k] \in Nat \ {0}
    BY <1>1, WeightSteps
  <2>2. n \div Weight[PrefixBytes - k] \in Nat
    BY <2>1, Quotient
  <2>3. QED
    BY <2>2
<1>3. QED
  BY <1>1, <1>2 DEF Prefix

(* A length is known by its bytes.                                         *)
LEMMA PrefixDecides ==
  ASSUME NEW m \in Nat, NEW n \in Nat,
         m < Weight[PrefixBytes], n < Weight[PrefixBytes],
         Prefix(m) = Prefix(n)
  PROVE  m = n
<1> DEFINE P == PrefixBytes
           T == {j \in 0..P : m \div Weight[P - j] = n \div Weight[P - j]}
<1>1. P \in Nat /\ Weight[P] \in Nat \ {0}
  BY EvidenceAssumption, WeightSteps
<1>2. 0 \in T
  BY <1>1, Quotient
<1>3. ASSUME NEW j \in 0..P, j < P, j \in T PROVE j + 1 \in T
  <2> DEFINE w == Weight[P - (j + 1)]
             k == j + 1
  <2>1. w \in Nat \ {0} /\ Weight[P - j] = 256 * w
    <3>1. P - j \in 1..P /\ (P - j) - 1 = P - (j + 1) /\ P - (j + 1) \in 0..P
      BY <1>1, <1>3
    <3>2. QED
      BY <3>1, WeightSteps
  <2>2. m \div w \in Nat /\ n \div w \in Nat
    BY <2>1, Quotient
  <2>3. (m \div w) \div 256 = (n \div w) \div 256
    <3>1. m \div (256 * w) = n \div (256 * w)
      BY <1>3, <2>1
    <3>2. QED
      BY <2>1, <3>1, QuotientOfQuotient
  <2>4. (m \div w) % 256 = (n \div w) % 256
    <3>1. k \in 1..P
      BY <1>1, <1>3
    <3>2. Prefix(m)[k] = (m \div w) % 256 /\ Prefix(n)[k] = (n \div w) % 256
      BY <3>1 DEF Prefix
    <3>3. QED
      BY <3>2
  <2>5. m \div w = n \div w
    <3> HIDE DEF w
    <3>1. QED
      BY <2>2, <2>3, <2>4
  <2>6. QED
    BY <1>1, <1>3, <2>5
<1>4. 0..P \subseteq T
  <2> HIDE DEF T
  <2>1. QED
    BY <1>1, <1>2, <1>3, Induction
<1>5. m \div Weight[0] = n \div Weight[0]
  <2>1. P \in T /\ P - P = 0
    BY <1>1, <1>4
  <2>2. QED
    BY <2>1
<1>6. QED
  BY <1>5, WeightSteps

-----------------------------------------------------------------------------
(* The encoding.                                                           *)

LEMMA EncodeType ==
  ASSUME NEW i \in Images
  PROVE  /\ i \in Seq(0..255) /\ Len(i) \in Nat /\ Len(i) < Weight[PrefixBytes]
         /\ Prefix(Len(i)) \in Seq(0..255) /\ Len(Prefix(Len(i))) = PrefixBytes
         /\ Encode(i) \in Seq(0..255) /\ Len(Encode(i)) = PrefixBytes + Len(i)
         /\ \A k \in 1..PrefixBytes : Encode(i)[k] = Prefix(Len(i))[k]
         /\ \A k \in 1..Len(i) : Encode(i)[PrefixBytes + k] = i[k]
<1> DEFINE p == Prefix(Len(i))
<1>1. i \in Seq(0..255) /\ Len(i) \in Nat /\ Len(i) < Weight[PrefixBytes]
  BY EvidenceAssumption
<1>2. p \in Seq(0..255) /\ Len(p) = PrefixBytes /\ PrefixBytes \in Nat
  BY <1>1, PrefixType, EvidenceAssumption
<1> HIDE DEF p
<1>3. /\ p \o i \in Seq(0..255) /\ Len(p \o i) = PrefixBytes + Len(i)
      /\ \A k \in 1..PrefixBytes + Len(i) :
           (p \o i)[k] = IF k <= PrefixBytes THEN p[k] ELSE i[k - PrefixBytes]
  <2>1. i \in Seq(0..255) /\ p \in Seq(0..255)
    BY <1>1, <1>2
  <2>2. /\ p \o i \in Seq(0..255) /\ Len(p \o i) = Len(p) + Len(i)
        /\ \A k \in 1..Len(p) + Len(i) :
             (p \o i)[k] = IF k <= Len(p) THEN p[k] ELSE i[k - Len(p)]
    BY <2>1, ConcatProperties
  <2>3. QED
    BY <1>2, <2>2
<1>4. /\ \A k \in 1..PrefixBytes : (p \o i)[k] = p[k]
      /\ \A k \in 1..Len(i) : (p \o i)[PrefixBytes + k] = i[k]
  BY <1>1, <1>2, <1>3
<1>5. QED
  BY <1>1, <1>2, <1>3, <1>4 DEF Encode, p

(* No image's encoding is the beginning of another's.                      *)
LEMMA EncodeDecides ==
  ASSUME NEW i \in Images, NEW j \in Images,
         \A k \in Nat : k \in 1..Len(Encode(i)) /\ k \in 1..Len(Encode(j)) =>
                          Encode(i)[k] = Encode(j)[k]
  PROVE  i = j
<1>1. PrefixBytes \in Nat
  BY EvidenceAssumption
<1>2. Prefix(Len(i)) = Prefix(Len(j))
  <2>1. \A k \in 1..PrefixBytes : Prefix(Len(i))[k] = Prefix(Len(j))[k]
    <3> SUFFICES ASSUME NEW k \in 1..PrefixBytes
                 PROVE  Prefix(Len(i))[k] = Prefix(Len(j))[k]
      OBVIOUS
    <3>1. k \in Nat /\ k \in 1..Len(Encode(i)) /\ k \in 1..Len(Encode(j))
      BY <1>1, EncodeType
    <3>2. QED
      BY <3>1, EncodeType
  <2>2. QED
    BY <2>1, EncodeType, SeqEqual
<1>3. Len(i) = Len(j)
  BY <1>2, EncodeType, PrefixDecides
<1>4. ASSUME NEW k \in 1..Len(i) PROVE i[k] = j[k]
  <2> DEFINE m == PrefixBytes + k
  <2>1. k \in 1..Len(j) /\ Len(i) \in Nat /\ Len(j) \in Nat
    BY <1>3, EncodeType
  <2>2. m \in Nat /\ m \in 1..Len(Encode(i)) /\ m \in 1..Len(Encode(j))
    BY <1>1, <2>1, EncodeType
  <2>3. Encode(i)[m] = i[k] /\ Encode(j)[m] = j[k]
    BY <2>1, EncodeType
  <2> HIDE DEF m
  <2>4. QED
    BY <2>2, <2>3
<1>5. QED
  BY <1>3, <1>4, EncodeType, SeqEqual

LEMMA EncodingSteps ==
  ASSUME NEW s \in Seq(Images)
  PROVE  /\ Encodings(s) \in [0..Len(s) -> Seq(0..255)] /\ Encodings(s)[0] = <<>>
         /\ \A k \in 1..Len(s) :
              /\ s[k] \in Images
              /\ Encodings(s)[k] = Encodings(s)[k - 1] \o Encode(s[k])
<1> DEFINE n == Len(s)
           B == Seq(0..255)
           F == [k \in 1..n |-> [b \in B |-> b \o Encode(s[k])]]
           W(f) == f = [k \in 0..n |-> IF k = 0 THEN <<>> ELSE f[k - 1] \o Encode(s[k])]
<1>1. n \in Nat /\ \A k \in 1..n : s[k] \in Images
  OBVIOUS
<1>2. ASSUME NEW k \in 1..n, NEW b \in B PROVE b \o Encode(s[k]) \in B
  BY <1>1, EncodeType, ConcatProperties
<1>3. F \in [1..n -> [B -> B]] /\ <<>> \in B
  BY <1>2, EmptySeq
<1>4. PICK f \in [0..n -> B] : Stepwise(f, n, <<>>, F)
  <2> HIDE DEF F, B, n
  <2>1. QED
    BY <1>1, <1>3, StepwiseFunction
<1>5. W(f)
  <2>1. ASSUME NEW k \in 1..n PROVE f[k] = f[k - 1] \o Encode(s[k])
    <3>1. k - 1 \in 0..n
      BY <1>1
    <3> HIDE DEF B
    <3>2. f[k - 1] \in B
      BY <1>4, <3>1
    <3>3. QED
      BY <1>4, <3>2 DEF Stepwise
  <2> HIDE DEF B, F
  <2>2. ASSUME NEW k \in 0..n
        PROVE  f[k] = IF k = 0 THEN <<>> ELSE f[k - 1] \o Encode(s[k])
    <3>1. CASE k = 0
      BY <1>4, <3>1 DEF Stepwise
    <3>2. CASE k /= 0
      <4>1. k \in 1..n
        BY <3>2
      <4>2. QED
        BY <2>1, <3>2, <4>1
    <3>3. QED
      BY <3>1, <3>2
  <2>3. QED
    BY <1>4, <2>2
<1>6. W(Encodings(s))
  <2>1. \E g : W(g)
    BY <1>5
  <2> DEFINE c == CHOOSE g : W(g)
  <2>2. W(c)
    BY <2>1
  <2>3. Encodings(s) = c
    BY DEF Encodings
  <2>4. QED
    BY <2>2, <2>3
<1> HIDE DEF B, F
<1>7. /\ Encodings(s)[0] = <<>>
      /\ \A k \in 1..n : Encodings(s)[k] = Encodings(s)[k - 1] \o Encode(s[k])
  BY <1>1, <1>6
<1>8. Encodings(s) \in [0..n -> B]
  <2> DEFINE T == {k \in 0..n : Encodings(s)[k] \in B}
  <2>1. 0 \in T
    BY <1>1, <1>3, <1>7
  <2>2. ASSUME NEW k \in 0..n, k < n, k \in T PROVE k + 1 \in T
    <3>1. k + 1 \in 1..n /\ (k + 1) - 1 = k
      BY <1>1, <2>2
    <3>2. Encodings(s)[k] \o Encode(s[k + 1]) \in B
      BY <1>2, <2>2, <3>1
    <3>3. Encodings(s)[k + 1] \in B
      BY <1>7, <3>1, <3>2
    <3>4. QED
      BY <3>1, <3>3
  <2>3. 0..n \subseteq T
    <3> HIDE DEF T
    <3>1. QED
      BY <1>1, <2>1, <2>2, Induction
  <2>4. QED
    BY <1>6, <2>3
<1>9. QED
  BY <1>1, <1>7, <1>8 DEF B

(* What has been encoded is the beginning of what will be.                 *)
LEMMA EncodingsGrow ==
  ASSUME NEW s \in Seq(Images), NEW k \in 0..Len(s), NEW m \in k..Len(s)
  PROVE  LET b == Encodings(s)[k] c == Encodings(s)[m] IN
         Len(b) <= Len(c) /\ \A i \in 1..Len(b) : c[i] = b[i]
<1> DEFINE n == Len(s)
           e == Encodings(s)
           Begins(j) == Len(e[k]) <= Len(e[j]) /\ \A i \in 1..Len(e[k]) : e[j][i] = e[k][i]
           T == {j \in 0..n : j < k \/ Begins(j)}
<1>1. n \in Nat /\ e \in [0..n -> Seq(0..255)]
  <2>1. n \in Nat
    OBVIOUS
  <2>2. Encodings(s) \in [0..Len(s) -> Seq(0..255)]
    BY EncodingSteps
  <2>3. QED
    BY <2>1, <2>2
<1>2. Begins(k)
  BY <1>1
<1>3. 0 \in T
  BY <1>1, <1>2
<1>4. ASSUME NEW j \in 0..n, j < n, j \in T PROVE j + 1 \in T
  <2>1. j + 1 \in 1..n /\ (j + 1) - 1 = j
    BY <1>1, <1>4
  <2>2. CASE j + 1 <= k
    BY <1>2, <2>1, <2>2
  <2>3. CASE j >= k
    <3> DEFINE x == Encode(s[j + 1])
    <3>1. s[j + 1] \in Images /\ e[j + 1] = e[j] \o x
      BY <2>1, EncodingSteps
    <3>2. e[j] \in Seq(0..255) /\ x \in Seq(0..255)
      BY <1>1, <3>1, EncodeType
    <3> HIDE DEF x
    <3>3. Len(e[j]) \in Nat /\ Len(x) \in Nat
      BY <3>2
    <3>4. /\ Len(e[j + 1]) = Len(e[j]) + Len(x)
          /\ \A i \in 1..Len(e[j]) + Len(x) :
               e[j + 1][i] = IF i <= Len(e[j]) THEN e[j][i] ELSE x[i - Len(e[j])]
      BY <3>1, <3>2, ConcatProperties
    <3>5. Begins(j) /\ Len(e[k]) \in Nat
      BY <1>1, <1>4, <2>3
    <3>6. Len(e[k]) <= Len(e[j + 1])
      BY <3>3, <3>4, <3>5
    <3>7. ASSUME NEW i \in 1..Len(e[k]) PROVE e[j + 1][i] = e[k][i]
      <4>1. i \in 1..Len(e[j]) + Len(x) /\ i <= Len(e[j])
        BY <3>3, <3>5
      <4>2. e[j + 1][i] = e[j][i]
        BY <3>4, <4>1
      <4>3. QED
        BY <3>5, <4>2
    <3>8. QED
      BY <2>1, <3>6, <3>7
  <2>4. QED
    BY <1>1, <1>4, <2>2, <2>3
<1>5. 0..n \subseteq T
  <2> HIDE DEF T, Begins
  <2>1. QED
    BY <1>1, <1>3, <1>4, Induction
<1>6. m \in T /\ ~(m < k)
  BY <1>1, <1>5
<1>7. QED
  BY <1>6

(* The evidence of two answers of one length differs if they differ.       *)
LEMMA EncodingDecides ==
  ASSUME NEW s \in Seq(Images), NEW t \in Seq(Images), Len(s) = Len(t),
         Encodings(s)[Len(s)] = Encodings(t)[Len(s)]
  PROVE  s = t
<1> DEFINE n == Len(s)
           d == Encodings(s)
           e == Encodings(t)
           T == {k \in 0..n : d[k] = e[k] /\ \A i \in 1..k : s[i] = t[i]}
<1>1. /\ n \in Nat /\ n = Len(t) /\ d[n] = e[n]
      /\ d \in [0..n -> Seq(0..255)] /\ e \in [0..n -> Seq(0..255)]
  <2>1. n \in Nat
    OBVIOUS
  <2>2. /\ Encodings(s) \in [0..Len(s) -> Seq(0..255)]
        /\ Encodings(t) \in [0..Len(t) -> Seq(0..255)]
    BY EncodingSteps
  <2>3. QED
    BY <2>1, <2>2
<1>2. 0 \in T
  <2>1. d[0] = <<>> /\ e[0] = <<>>
    BY EncodingSteps
  <2>2. QED
    BY <1>1, <2>1
<1>3. ASSUME NEW k \in 0..n, k < n, k \in T PROVE k + 1 \in T
  <2> DEFINE x == Encode(s[k + 1])
             y == Encode(t[k + 1])
             b == d[k]
  <2>1. k + 1 \in 1..n /\ (k + 1) - 1 = k
    BY <1>1, <1>3
  <2>2. /\ s[k + 1] \in Images /\ d[k + 1] = b \o x
        /\ t[k + 1] \in Images /\ e[k + 1] = b \o y
    BY <1>1, <1>3, <2>1, EncodingSteps
  <2>3. b \in Seq(0..255) /\ x \in Seq(0..255) /\ y \in Seq(0..255)
    BY <1>1, <2>2, EncodeType
  <2> HIDE DEF x, y
  <2>4. Len(b) \in Nat /\ Len(x) \in Nat /\ Len(y) \in Nat
    BY <2>3
  <2>5. ASSUME NEW i \in Nat, i \in 1..Len(x), i \in 1..Len(y) PROVE x[i] = y[i]
    <3> DEFINE j == Len(b) + i
    <3>1. j \in 1..Len(b) + Len(x) /\ j \in 1..Len(b) + Len(y)
          /\ ~(j <= Len(b)) /\ j - Len(b) = i
      BY <2>4, <2>5
    <3> HIDE DEF j
    <3>2. /\ (b \o x)[j] = x[i] /\ j \in 1..Len(b \o x)
          /\ (b \o y)[j] = y[i] /\ j \in 1..Len(b \o y)
      BY <2>3, <3>1, ConcatProperties
    <3>3. k + 1 \in 0..n /\ n \in k + 1..n
      BY <2>1
    <3>4. /\ \A l \in 1..Len(d[k + 1]) : d[n][l] = d[k + 1][l]
          /\ \A l \in 1..Len(e[k + 1]) : e[n][l] = e[k + 1][l]
      <4>1. \A l \in 1..Len(d[k + 1]) : d[n][l] = d[k + 1][l]
        BY <1>1, <3>3, EncodingsGrow
      <4>2. k + 1 \in 0..Len(t) /\ Len(t) \in k + 1..Len(t)
        BY <1>1, <3>3
      <4>3. \A l \in 1..Len(e[k + 1]) : e[Len(t)][l] = e[k + 1][l]
        BY <4>2, EncodingsGrow
      <4>4. QED
        BY <1>1, <4>1, <4>3
    <3>5. d[n][j] = x[i] /\ e[n][j] = y[i]
      BY <2>2, <3>2, <3>4
    <3>6. QED
      BY <1>1, <3>5
  <2>6. s[k + 1] = t[k + 1]
    BY <2>2, <2>5, EncodeDecides DEF x, y
  <2>7. d[k + 1] = e[k + 1]
    BY <2>2, <2>6 DEF x, y
  <2>8. \A i \in 1..k + 1 : s[i] = t[i]
    BY <1>3, <2>6
  <2>9. QED
    BY <2>1, <2>7, <2>8
<1>4. 0..n \subseteq T
  <2> HIDE DEF T
  <2>1. QED
    BY <1>1, <1>2, <1>3, Induction
<1>5. n \in T
  BY <1>1, <1>4
<1>6. QED
  BY <1>1, <1>5, SeqEqual

-----------------------------------------------------------------------------
(* The answers to the evidence query.                                      *)

LEMMA Rowset ==
  ASSUME NEW c \in Contents
  PROVE  /\ Selected(c) \subseteq Slots /\ IsFiniteSet(Selected(c))
         /\ Cardinality(Selected(c)) \in Nat /\ Cardinality(Slots) \in Nat
         /\ Cardinality(Selected(c)) <= Cardinality(Slots)
         /\ \A r \in Selected(c) : c[r] \in Images
<1>1. Selected(c) \subseteq Slots /\ \A r \in Selected(c) : c[r] \in Images
  BY EvidenceAssumption DEF Selected
<1>2. /\ IsFiniteSet(Selected(c)) /\ IsFiniteSet(Slots)
      /\ Cardinality(Selected(c)) <= Cardinality(Slots)
  BY <1>1, FS_Subset, EvidenceAssumption
<1>3. QED
  BY <1>1, <1>2, FS_CardinalityType

(* An answer has an image for each row selected, in order, and no other.   *)
LEMMA SortedAnswers ==
  ASSUME NEW c \in Contents, NEW s \in Sorted(c, Selected(c))
  PROVE  /\ s \in [1..Cardinality(Selected(c)) -> Images] /\ s \in Seq(Images)
         /\ Len(s) = Cardinality(Selected(c))
         /\ InOrder(s) /\ Tally(s) = BagOf(c, Selected(c))
<1> DEFINE R == Selected(c)
           n == Cardinality(R)
<1>1. IsFiniteSet(R) /\ n \in Nat /\ \A r \in R : c[r] \in Images
  BY Rowset
<1> HIDE DEF R
<1>2. s \in Readings(c, R) /\ InOrder(s)
  BY DEF Sorted, R
<1>3. PICK e \in Bijection(1..n, R) : s = [k \in 1..n |-> c[e[k]]]
  BY <1>2 DEF Readings
<1>4. e \in [1..n -> R]
  BY <1>3 DEF Bijection, Injection
<1>5. s \in [1..n -> Images]
  BY <1>1, <1>3, <1>4
<1>6. s \in Seq(Images) /\ Len(s) = n /\ DOMAIN s = 1..n
  BY <1>1, <1>5
<1>7. ASSUME NEW i \in Images
      PROVE  Cardinality({k \in DOMAIN s : s[k] = i}) = Cardinality({r \in R : c[r] = i})
  <2> DEFINE K == 1..n
  <2>1. e \in Bijection(K, R) /\ \A k \in K : s[k] = c[e[k]]
    BY <1>3
  <2>2. Cardinality(Part(K, s, i)) = Cardinality(Part(R, c, i))
    <3> HIDE DEF K
    <3>1. QED
      BY <1>1, <2>1, BijectionKeepsParts
  <2>3. QED
    BY <1>6, <2>2 DEF Part
<1>8. Tally(s) = BagOf(c, R)
  BY <1>7 DEF Tally, BagOf
<1>9. QED
  BY <1>2, <1>5, <1>6, <1>8 DEF R

(* Equal bags of images are bags of equally many.                          *)
LEMMA EqualBags ==
  ASSUME NEW c \in Contents, NEW n \in Nat, NEW s \in [1..n -> Images],
         Tally(s) = BagOf(c, Selected(c))
  PROVE  n = Cardinality(Selected(c))
<1> DEFINE R == Selected(c)
<1>1. IsFiniteSet(R) /\ \A r \in R : c[r] \in Images
  BY Rowset
<1> HIDE DEF R
<1>2. IsFiniteSet(1..n) /\ Cardinality(1..n) = n /\ \A k \in 1..n : s[k] \in Images
  BY FS_Interval
<1>3. ASSUME NEW i \in Images
      PROVE  Cardinality(Part(1..n, s, i)) = Cardinality(Part(R, c, i))
  <2>1. Tally(s)[i] = Cardinality(Part(1..n, s, i))
    BY DEF Tally, Part
  <2>2. BagOf(c, R)[i] = Cardinality(Part(R, c, i))
    BY DEF BagOf, Part
  <2>3. QED
    BY <2>1, <2>2 DEF R
<1>4. Cardinality(1..n) = Cardinality(R)
  BY <1>1, <1>2, <1>3, EqualParts
<1>5. QED
  BY <1>2, <1>4 DEF R

(* Where two answers of one bag first differ, neither image can be sorted  *)
(* before the other: the first answer would have one more of it.           *)
LEMMA FirstDifference ==
  ASSUME NEW n \in Nat, NEW s \in [1..n -> Images], NEW t \in [1..n -> Images],
         InOrder(t), Tally(s) = Tally(t),
         NEW m \in 1..n, \A k \in 1..n : k < m => s[k] = t[k],
         s[m] /= t[m]
  PROVE  <<s[m], t[m]>> \notin Order
<1> SUFFICES ASSUME <<s[m], t[m]>> \in Order PROVE FALSE
  OBVIOUS
<1> DEFINE S == {k \in 1..n : s[k] = s[m]}
           T == {k \in 1..n : t[k] = s[m]}
<1>1. ASSUME NEW k \in T PROVE k \in S /\ k /= m
  <2>1. k /= m
    OBVIOUS
  <2>2. ~(m < k)
    <3>1. m < k => <<t[k], t[m]>> \notin Order
      BY DEF InOrder
    <3>2. QED
      BY <3>1
  <2>3. QED
    BY <2>1, <2>2
<1>2. IsFiniteSet(S) /\ m \in S
  <2>1. IsFiniteSet(1..n) /\ S \subseteq 1..n /\ m \in S
    BY FS_Interval
  <2> HIDE DEF S
  <2>2. QED
    BY <2>1, FS_Subset
<1>3. T \subseteq S /\ T /= S
  BY <1>1, <1>2
<1>4. Cardinality(S) = Cardinality(T)
  BY DEF Tally
<1> HIDE DEF S, T
<1>5. QED
  BY <1>2, <1>3, <1>4, FS_Subset, FS_CardinalityType

(* There is one way to put a bag of images in order.                       *)
LEMMA SortedIsUnique ==
  ASSUME NEW n \in Nat, NEW s \in [1..n -> Images], NEW t \in [1..n -> Images],
         InOrder(s), InOrder(t), Tally(s) = Tally(t)
  PROVE  s = t
<1> SUFFICES ASSUME s /= t PROVE FALSE
  OBVIOUS
<1> DEFINE D == {k \in 1..n : s[k] /= t[k]}
<1>1. PICK m \in D : \A k \in D : m <= k
  <2>1. D \in SUBSET Nat /\ D /= {}
    OBVIOUS
  <2> HIDE DEF D
  <2>2. QED
    BY <2>1, LeastNumber
<1>2. /\ m \in 1..n /\ s[m] /= t[m]
      /\ \A k \in 1..n : k < m => s[k] = t[k] /\ t[k] = s[k]
  BY <1>1
<1>3. <<s[m], t[m]>> \notin Order
  BY <1>2, FirstDifference
<1>4. <<t[m], s[m]>> \notin Order
  BY <1>2, FirstDifference
<1>5. s[m] \in Images /\ t[m] \in Images
  BY <1>2
<1>6. QED
  BY <1>2, <1>3, <1>4, <1>5, EvidenceAssumption

-----------------------------------------------------------------------------
(* What the policy lets through depends on nothing but the selected rows.  *)

LEMMA AllowedStatement ==
  ASSUME file \in Files, FileAllowed(file)
  PROVE  /\ Len(TheStatement.widths) \in Nat
         /\ \A c : Evaluations(TheStatement, c) = {Selected(c)}
         /\ IsInsert => \A c : Touches(TheStatement, c) = {{}}
         /\ ~IsInsert => /\ \A c : Touches(TheStatement, c) = SUBSET Selected(c)
                         /\ \A rows : Affected(TheStatement, rows)
                                        = {Cardinality(rows)}
<1> DEFINE f == TheStatement
<1>1. f.exprs = {} /\ (f.kind = "insert" => f.clauses = {})
  BY DEF FileAllowed, StatementAllowed, SafeExpressions, InsertAllowed, TheStatement
<1>2. f.widths \in Seq(Nat)
  <2>1. 1 \in 1..Len(file)
    BY DEF FileAllowed
  <2>2. QED
    BY <2>1, EvidenceAssumption DEF TheStatement
<1> HIDE DEF f
<1>3. \A c : Evaluations(f, c) = {Selected(c)}
  BY <1>1 DEF Evaluations
<1>4. f.kind = "insert" => \A c : Touches(f, c) = {{}}
  BY <1>1 DEF Touches
<1>5. ASSUME f.kind /= "insert", NEW c PROVE Touches(f, c) = SUBSET Selected(c)
  <2>1. Touches(f, c) = UNION {SUBSET e : e \in {Selected(c)}}
    BY <1>3, <1>5 DEF Touches
  <2>2. QED
    BY <2>1
<1>6. f.kind /= "insert" => \A rows : Affected(f, rows) = {Cardinality(rows)}
  BY DEF Affected
<1>7. QED
  BY <1>2, <1>3, <1>4, <1>5, <1>6, LenProperties DEF IsInsert, f

(* An answer as far as it has been received.                               *)
LEMMA SoFar ==
  ASSUME TypeOK, NEW s \in Sorted(snap, Selected(snap)), Received(s)
  PROVE  /\ observed \in 0..Len(s)
         /\ rest = <<>> => observed = Len(s)
         /\ rest /= <<>> => /\ observed + 1 \in 1..Len(s)
                            /\ Head(rest) = s[observed + 1]
                            /\ Tail(rest) = SubSeq(s, observed + 2, Len(s))
<1> DEFINE n == Len(s)
<1>1. s \in Seq(Images) /\ n \in Nat
  <2>1. snap \in Contents
    BY DEF TypeOK
  <2>2. s \in Seq(Images)
    BY <2>1, SortedAnswers
  <2>3. QED
    BY <2>2, LenProperties
<1>2. observed \in 0..n /\ rest = SubSeq(s, observed + 1, n)
  <2>1. observed \in 0..Cardinality(Slots)
    BY DEF TypeOK
  <2>2. observed <= n /\ rest = SubSeq(s, observed + 1, n)
    BY DEF Received
  <2>3. QED
    BY <1>1, <2>1, <2>2
<1>3. Len(rest) = n - observed
  BY <1>1, <1>2
<1>4. ASSUME rest /= <<>>
      PROVE  /\ observed + 1 \in 1..n /\ Head(rest) = s[observed + 1]
             /\ Tail(rest) = SubSeq(s, observed + 2, n)
  <2>1. Len(rest) /= 0 /\ observed + 1 \in 1..n
    BY <1>1, <1>2, <1>3, <1>4, EmptySeq
  <2>2. /\ n \in observed + 1..n /\ observed + 2 = observed + 1 + 1
    BY <1>1, <1>2, <2>1
  <2>3. Head(rest) = s[observed + 1] /\ Tail(rest) = SubSeq(s, observed + 1 + 1, n)
    BY <1>1, <1>2, <2>1, <2>2, HeadTailOfSubSeq
  <2>4. QED
    BY <2>1, <2>2, <2>3
<1>5. ASSUME rest = <<>> PROVE observed = n
  BY <1>1, <1>2, <1>3, <1>5, EmptySeq
<1>6. QED
  BY <1>2, <1>4, <1>5

LEMMA InitEInv == Init => EInv
<1> SUFFICES ASSUME Init PROVE EInv
  OBVIOUS
<1>1. TypeOK
  <2>1. /\ contents \in Contents /\ snap \in Contents /\ drifts \in 0..MaxDrifts
        /\ file \in Files /\ phase = "plan" /\ pc = "analyze"
        /\ expected \in Nat /\ touched \subseteq Slots
    BY EvidenceAssumption DEF Init
  <2>2. observed \in 0..Cardinality(Slots)
    BY FS_CardinalityType, EvidenceAssumption DEF Init
  <2>3. rest \in Seq(Images) /\ bytes \in Seq(0..255) /\ Len(bytes) <= Cap
    BY EmptySeq, EvidenceAssumption DEF Init
  <2>4. QED
    BY <2>1, <2>2, <2>3 DEF TypeOK
<1>2. AllowedInv /\ FreshInv /\ CountInv /\ StreamInv /\ SealInv /\ VerdictInv
  BY DEF Init, AllowedInv, FreshInv, Locked, CountInv, StreamInv, SealInv,
         VerdictInv, NoFalseDrift
<1>3. QED
  BY <1>1, <1>2 DEF EInv

LEMMA AnalyzeEInv == EInv /\ Analyze => EInv'
<1> SUFFICES ASSUME EInv, Analyze PROVE EInv'
  OBVIOUS
<1>0. TheStatement' = TheStatement /\ IsInsert' = IsInsert
  BY DEF Analyze, TheStatement, IsInsert
<1>1. TypeOK'
  <2>1. /\ UNCHANGED <<contents, drifts, file, phase, expected, rest, touched>>
        /\ snap' = contents /\ bytes' = <<>> /\ observed' = 0
        /\ pc' \in {"count", "denied"}
    BY DEF Analyze, Goto, table
  <2>2. 0 \in 0..Cardinality(Slots) /\ <<>> \in Seq(0..255) /\ Len(<<>>) <= Cap
    BY FS_CardinalityType, EmptySeq, EvidenceAssumption
  <2>3. QED
    BY <2>1, <2>2 DEF EInv, TypeOK
<1>2. AllowedInv'
  BY DEF EInv, AllowedInv, Analyze, Goto
<1>3. FreshInv' /\ CountInv' /\ StreamInv'
  BY DEF Analyze, Goto, table, FreshInv, CountInv, StreamInv
<1>4. SealInv'
  BY <1>0 DEF EInv, Analyze, SealInv
<1>5. VerdictInv'
  BY DEF Analyze, Goto, VerdictInv, NoFalseDrift
<1>6. QED
  BY <1>1, <1>2, <1>3, <1>4, <1>5 DEF EInv

LEMMA CountEInv == EInv /\ CountTargets => EInv'
<1> SUFFICES ASSUME EInv, CountTargets PROVE EInv'
  OBVIOUS
<1> DEFINE n == IF IsInsert THEN Len(TheStatement.widths)
                            ELSE Cardinality(Selected(snap))
<1>1. /\ UNCHANGED <<contents, drifts, file, phase, snap, rest, observed, bytes,
                     sealed, touched, TheStatement, IsInsert>>
      /\ pc = "count"
  BY DEF CountTargets, table, TheStatement, IsInsert
<1>2. /\ FileAllowed(file) /\ file \in Files /\ snap \in Contents
      /\ Evaluations(TheStatement, snap) = {Selected(snap)}
      /\ n \in Nat
  <2>1. FileAllowed(file) /\ file \in Files /\ snap \in Contents
    BY <1>1 DEF EInv, AllowedInv, TypeOK
  <2>2. QED
    BY <2>1, AllowedStatement, Rowset
<1>3. /\ expected' = n
      /\ pc' = IF phase = "apply" /\ n /= sealed.count THEN "drifted"
               ELSE IF n > MaxRows THEN "over_budget" ELSE "query"
  BY <1>2 DEF CountTargets, Goto, IsInsert
<1> HIDE DEF n
<1>4. TypeOK'
  BY <1>1, <1>2, <1>3 DEF EInv, TypeOK
<1>5. AllowedInv' /\ FreshInv'
  BY <1>1, <1>2, <1>3 DEF EInv, AllowedInv, FreshInv, Locked
<1>6. CountInv'
  <2>1. pc' = "query" =>
          n <= MaxRows /\ (phase = "apply" => n = sealed.count)
    BY <1>2, <1>3, EvidenceAssumption
  <2>2. QED
    BY <1>1, <1>3, <2>1 DEF CountInv, n
<1>7. StreamInv' /\ SealInv'
  BY <1>1, <1>3 DEF EInv, StreamInv, SealInv
<1>8. VerdictInv'
  <2> SUFFICES ASSUME phase = "apply", n /= sealed.count
               PROVE  ~IsInsert /\ BagOf(contents, Selected(contents)) /= sealed.bag
    BY <1>1, <1>3 DEF VerdictInv, NoFalseDrift, IsInsert
  <2>1. snap = contents
    BY <1>1 DEF EInv, FreshInv, Locked
  <2>2. ~IsInsert
    BY DEF EInv, SealInv, n
  <2>3. PICK s \in [1..sealed.count -> Images] : Tally(s) = sealed.bag
    BY <2>2 DEF EInv, SealInv
  <2>4. sealed.count \in Nat
    BY EvidenceAssumption DEF EInv, SealInv
  <2>5. BagOf(snap, Selected(snap)) /= sealed.bag
    BY <1>2, <2>2, <2>3, <2>4, EqualBags DEF n
  <2>6. QED
    BY <2>1, <2>2, <2>5
<1>9. QED
  BY <1>4, <1>5, <1>6, <1>7, <1>8 DEF EInv

LEMMA SendEInv == EInv /\ SendQuery => EInv'
<1> SUFFICES ASSUME EInv, SendQuery PROVE EInv'
  OBVIOUS
<1>1. /\ UNCHANGED <<contents, drifts, file, phase, snap, expected, observed, bytes,
                     sealed, touched, TheStatement, IsInsert>>
      /\ pc = "query" /\ pc' = IF IsInsert THEN "decide" ELSE "stream"
      /\ IsInsert => rest' = <<>>
  BY DEF SendQuery, table, TheStatement, IsInsert, Goto
<1>2. file \in Files /\ snap \in Contents
  BY DEF EInv, TypeOK
<1>3. ~IsInsert => rest' \in Sorted(snap, Selected(snap))
  <2>1. FileAllowed(file)
    BY <1>1 DEF EInv, AllowedInv
  <2>2. Evaluations(TheStatement, snap) = {Selected(snap)}
    BY <1>2, <2>1, AllowedStatement
  <2>3. QED
    BY <2>2 DEF SendQuery, IsInsert
<1>4. rest' \in Seq(Images)
  BY <1>1, <1>2, <1>3, SortedAnswers, EmptySeq
<1>5. TypeOK'
  BY <1>1, <1>4 DEF EInv, TypeOK
<1>6. AllowedInv' /\ FreshInv' /\ CountInv' /\ SealInv' /\ VerdictInv'
  BY <1>1 DEF EInv, AllowedInv, FreshInv, Locked, CountInv, SealInv, VerdictInv,
              NoFalseDrift
<1>7. StreamInv'
  <2>1. bytes = <<>> /\ observed = 0
    BY <1>1 DEF EInv, StreamInv
  <2>2. CASE IsInsert
    BY <1>1, <2>1, <2>2 DEF StreamInv
  <2>3. CASE ~IsInsert
    <3>1. PICK s \in Sorted(snap, Selected(snap)) : s = rest'
      BY <1>3, <2>3
    <3>2. s \in Seq(Images) /\ Len(s) \in Nat /\ SubSeq(s, 1, Len(s)) = s
      <4>1. s \in Seq(Images)
        BY <1>2, <3>1, SortedAnswers
      <4>2. QED
        BY <4>1, SubSeqFull, LenProperties
    <3>3. Encodings(s)[0] = <<>>
      BY <3>2, EncodingSteps
    <3>4. Received(s)'
      BY <1>1, <2>1, <3>1, <3>2, <3>3 DEF Received
    <3>5. QED
      BY <1>1, <2>3, <3>1, <3>4 DEF StreamInv
  <2>4. QED
    BY <2>2, <2>3
<1>8. QED
  BY <1>5, <1>6, <1>7 DEF EInv

(* The answer behind the evidence of an UPDATE or DELETE.                  *)
LEMMA TheAnswer ==
  ASSUME EInv, ~IsInsert,
         pc \in {"stream", "too_large", "decide", "execute", "committed"}
  PROVE  \E s \in Sorted(snap, Selected(snap)) :
           /\ Received(s) /\ s \in Seq(Images)
           /\ s \in [1..expected -> Images] /\ Len(s) = expected
           /\ InOrder(s) /\ Tally(s) = BagOf(snap, Selected(snap))
           /\ rest = <<>> => bytes = Encodings(s)[expected]
<1>1. TypeOK /\ snap \in Contents
  BY DEF EInv, TypeOK
<1>2. PICK s \in Sorted(snap, Selected(snap)) : Received(s)
  BY DEF EInv, StreamInv
<1>3. expected = Cardinality(Selected(snap))
  BY DEF EInv, CountInv
<1>4. /\ s \in [1..expected -> Images] /\ s \in Seq(Images) /\ Len(s) = expected
      /\ InOrder(s) /\ Tally(s) = BagOf(snap, Selected(snap))
  BY <1>1, <1>2, <1>3, SortedAnswers
<1>5. rest = <<>> => bytes = Encodings(s)[expected]
  <2>1. rest = <<>> => observed = Len(s)
    BY <1>1, <1>2, SoFar
  <2>2. QED
    BY <1>2, <1>4, <2>1 DEF Received
<1>6. QED
  BY <1>2, <1>4, <1>5

LEMMA ReceiveEInv == EInv /\ ReceiveRow => EInv'
<1> SUFFICES ASSUME EInv, ReceiveRow PROVE EInv'
  OBVIOUS
<1>1. /\ UNCHANGED <<contents, drifts, file, phase, snap, expected, sealed, touched,
                     TheStatement, IsInsert>>
      /\ pc = "stream" /\ rest /= <<>>
  BY DEF ReceiveRow, table, TheStatement, IsInsert
<1>2. ~IsInsert
  BY <1>1 DEF EInv, StreamInv
<1>3. PICK s \in Sorted(snap, Selected(snap)) :
        Received(s) /\ s \in Seq(Images) /\ Len(s) = expected
  BY <1>1, <1>2, TheAnswer
<1>4. /\ observed \in 0..Len(s) /\ observed + 1 \in 1..Len(s) /\ Len(s) \in Nat
      /\ Head(rest) = s[observed + 1]
      /\ Tail(rest) = SubSeq(s, observed + 2, Len(s))
  <2>1. TypeOK
    BY DEF EInv
  <2>2. QED
    BY <1>1, <1>3, <2>1, SoFar, LenProperties
<1>5. CASE Fits(Head(rest))
  <2>1. /\ bytes' = bytes \o Encode(Head(rest)) /\ observed' = observed + 1
        /\ rest' = Tail(rest) /\ pc' = pc
    BY <1>5 DEF ReceiveRow
  <2>2. Received(s)'
    <3>1. Encodings(s)[observed + 1] = Encodings(s)[observed] \o Encode(s[observed + 1])
      <4>1. (observed + 1) - 1 = observed
        BY <1>4
      <4>2. QED
        BY <1>3, <1>4, <4>1, EncodingSteps
    <3>2. bytes = Encodings(s)[observed]
      BY <1>3 DEF Received
    <3>3. bytes' = Encodings(s)[observed + 1]
      BY <1>4, <2>1, <3>1, <3>2
    <3>4. rest' = SubSeq(s, (observed + 1) + 1, Len(s)) /\ observed + 1 <= Len(s)
      BY <1>4, <2>1
    <3>5. QED
      BY <2>1, <3>3, <3>4 DEF Received
  <2>3. TypeOK'
    <3>1. observed' \in 0..Cardinality(Slots)
      <4>1. snap \in Contents /\ Len(s) = Cardinality(Selected(snap))
        BY <1>1, <1>2, <1>3 DEF EInv, TypeOK, CountInv
      <4>2. Len(s) <= Cardinality(Slots) /\ Cardinality(Slots) \in Nat
        BY <4>1, Rowset
      <4>3. QED
        BY <1>4, <2>1, <4>2
    <3>2. rest' \in Seq(Images)
      <4>1. rest \in Seq(Images)
        BY DEF EInv, TypeOK
      <4>2. QED
        BY <1>1, <2>1, <4>1, HeadTailProperties
    <3>3. bytes' \in Seq(0..255) /\ Len(bytes') <= Cap
      <4>1. s[observed + 1] \in Images
        BY <1>3, <1>4
      <4>2. bytes \in Seq(0..255)
        BY DEF EInv, TypeOK
      <4>3. /\ Encode(Head(rest)) \in Seq(0..255) /\ PrefixBytes \in Nat
            /\ Len(Encode(Head(rest))) = PrefixBytes + Len(Head(rest))
            /\ Len(Head(rest)) \in Nat /\ Len(bytes) \in Nat
        BY <1>4, <4>1, <4>2, EncodeType, LenProperties, EvidenceAssumption
      <4>4. /\ bytes' \in Seq(0..255)
            /\ Len(bytes') = Len(bytes) + Len(Encode(Head(rest)))
        BY <2>1, <4>2, <4>3, ConcatProperties
      <4>5. Len(bytes) + PrefixBytes + Len(Head(rest)) <= Cap
        BY <1>5 DEF Fits
      <4>6. Len(bytes') = Len(bytes) + PrefixBytes + Len(Head(rest))
        <5>1. Len(bytes') = Len(bytes) + (PrefixBytes + Len(Head(rest)))
          BY <4>3, <4>4
        <5>2. Len(bytes) \in Nat /\ PrefixBytes \in Nat /\ Len(Head(rest)) \in Nat
          BY <4>3
        <5> DEFINE x == Len(bytes)
                   y == Len(Head(rest))
        <5> HIDE DEF x, y
        <5>3. x \in Nat /\ y \in Nat /\ Len(bytes') = x + (PrefixBytes + y)
          BY <5>1, <5>2 DEF x, y
        <5>4. Len(bytes') = x + PrefixBytes + y
          BY <5>2, <5>3
        <5>5. QED
          BY <5>4 DEF x, y
      <4>7. QED
        BY <4>4, <4>5, <4>6
    <3>4. QED
      BY <1>1, <2>1, <3>1, <3>2, <3>3 DEF EInv, TypeOK
  <2>4. StreamInv'
    BY <1>1, <1>2, <2>1, <2>2 DEF StreamInv
  <2>5. AllowedInv' /\ FreshInv' /\ CountInv' /\ SealInv' /\ VerdictInv'
    BY <1>1, <2>1 DEF EInv, AllowedInv, FreshInv, Locked, CountInv, SealInv,
                      VerdictInv, NoFalseDrift
  <2>6. QED
    BY <2>3, <2>4, <2>5 DEF EInv
<1>6. CASE ~Fits(Head(rest))
  <2>1. pc' = "too_large" /\ UNCHANGED <<bytes, observed, rest>>
    BY <1>6 DEF ReceiveRow, Goto
  <2>2. TypeOK'
    BY <1>1, <2>1 DEF EInv, TypeOK
  <2>3. StreamInv'
    <3>1. Received(s)'
      BY <1>3, <2>1 DEF Received
    <3>2. ~Fits(Head(rest))'
      BY <1>6, <2>1 DEF Fits
    <3>3. QED
      BY <1>1, <1>2, <2>1, <3>1, <3>2 DEF StreamInv
  <2>4. AllowedInv' /\ FreshInv' /\ CountInv' /\ SealInv' /\ VerdictInv'
    BY <1>1, <2>1 DEF EInv, AllowedInv, FreshInv, Locked, CountInv, SealInv,
                      VerdictInv, NoFalseDrift
  <2>5. QED
    BY <2>2, <2>3, <2>4 DEF EInv
<1>7. QED
  BY <1>5, <1>6

LEMMA EndEInv == EInv /\ EndOfRows => EInv'
<1> SUFFICES ASSUME EInv, EndOfRows PROVE EInv'
  OBVIOUS
<1>1. /\ UNCHANGED <<contents, drifts, file, phase, query, sealed, touched,
                     TheStatement, IsInsert>>
      /\ UNCHANGED <<snap, expected, rest, observed, bytes>>
      /\ pc = "stream" /\ rest = <<>>
  BY DEF EndOfRows, table, query, TheStatement, IsInsert
<1>2. ~IsInsert
  BY <1>1 DEF EInv, StreamInv
<1>3. PICK s \in Sorted(snap, Selected(snap)) : Received(s) /\ Len(s) = expected
  BY <1>1, <1>2, TheAnswer
<1>4. observed = expected
  <2>1. TypeOK
    BY DEF EInv
  <2>2. QED
    BY <1>1, <1>3, <2>1, SoFar
<1>5. pc' = "decide"
  BY <1>4 DEF EndOfRows, Goto
<1>6. TypeOK'
  BY <1>1, <1>5 DEF EInv, TypeOK
<1>7. StreamInv'
  <2>1. Received(s)'
    BY <1>1, <1>3 DEF Received
  <2>2. QED
    BY <1>1, <1>2, <1>5, <2>1 DEF StreamInv
<1>8. AllowedInv' /\ FreshInv' /\ CountInv' /\ SealInv' /\ VerdictInv'
  BY <1>1, <1>5 DEF EInv, AllowedInv, FreshInv, Locked, CountInv, SealInv,
                    VerdictInv, NoFalseDrift
<1>9. QED
  BY <1>6, <1>7, <1>8 DEF EInv

LEMMA SealEInv == EInv /\ SealEvidence => EInv'
<1> SUFFICES ASSUME EInv, SealEvidence PROVE EInv'
  OBVIOUS
<1>1. /\ UNCHANGED <<contents, drifts, file, touched, TheStatement, IsInsert>>
      /\ UNCHANGED <<snap, expected, rest, observed, bytes>>
      /\ pc = "decide" /\ phase = "plan" /\ phase' = "apply" /\ pc' = "analyze"
      /\ sealed' = [count |-> expected, digest |-> bytes,
                    bag |-> BagOf(snap, Selected(snap))]
  BY DEF SealEvidence, table, query, TheStatement, IsInsert, Digest, Goto
<1>2. TypeOK'
  BY <1>1 DEF EInv, TypeOK
<1>3. AllowedInv' /\ FreshInv' /\ CountInv' /\ StreamInv' /\ VerdictInv'
  BY <1>1 DEF EInv, AllowedInv, FreshInv, Locked, CountInv, StreamInv, VerdictInv,
              NoFalseDrift
<1>4. SealInv'
  <2>1. expected \in 0..MaxRows
    BY <1>1, EvidenceAssumption DEF EInv, TypeOK, CountInv
  <2>2. CASE IsInsert
    <3>1. expected = Len(TheStatement.widths) /\ bytes = <<>>
      BY <1>1, <2>2 DEF EInv, CountInv, StreamInv
    <3>2. QED
      BY <1>1, <2>1, <2>2, <3>1 DEF SealInv
  <2>3. CASE ~IsInsert
    <3>1. rest = <<>>
      BY <1>1, <2>3 DEF EInv, StreamInv
    <3>2. PICK s \in [1..expected -> Images] :
            /\ InOrder(s) /\ Tally(s) = BagOf(snap, Selected(snap))
            /\ bytes = Encodings(s)[expected]
      BY <1>1, <2>3, <3>1, TheAnswer
    <3>3. \E r \in [1..sealed'.count -> Images] :
            /\ InOrder(r) /\ Tally(r) = sealed'.bag
            /\ sealed'.digest = Encodings(r)[sealed'.count]
      BY <1>1, <3>2
    <3>4. QED
      BY <1>1, <2>1, <2>3, <3>3 DEF SealInv
  <2>4. QED
    BY <2>2, <2>3
<1>5. QED
  BY <1>2, <1>3, <1>4 DEF EInv

(* The digest of an UPDATE or DELETE is the sealed one if and only if the  *)
(* rows selected are, as a bag, those the plan was sealed over.            *)
LEMMA DigestIsBag ==
  ASSUME EInv, ~IsInsert, phase = "apply", pc \in {"decide", "execute", "committed"}
  PROVE  bytes = sealed.digest <=> BagOf(contents, Selected(contents)) = sealed.bag
<1>1. snap = contents /\ expected = sealed.count /\ rest = <<>> /\ expected \in Nat
  BY DEF EInv, TypeOK, FreshInv, Locked, CountInv, StreamInv
<1>2. PICK s \in Sorted(snap, Selected(snap)) :
        /\ s \in Seq(Images) /\ s \in [1..expected -> Images] /\ Len(s) = expected
        /\ InOrder(s) /\ Tally(s) = BagOf(snap, Selected(snap))
        /\ bytes = Encodings(s)[expected]
  BY <1>1, TheAnswer
<1>3. PICK t \in [1..expected -> Images] :
        /\ InOrder(t) /\ Tally(t) = sealed.bag
        /\ sealed.digest = Encodings(t)[expected]
  BY <1>1 DEF EInv, SealInv
<1>4. t \in Seq(Images) /\ Len(t) = expected
  BY <1>1, <1>3
<1>5. bytes = sealed.digest => s = t
  BY <1>2, <1>3, <1>4, EncodingDecides
<1>6. Tally(s) = Tally(t) => s = t
  BY <1>1, <1>2, <1>3, SortedIsUnique
<1>7. QED
  BY <1>1, <1>2, <1>3, <1>5, <1>6

LEMMA CompareEInv == EInv /\ Compare => EInv'
<1> SUFFICES ASSUME EInv, Compare PROVE EInv'
  OBVIOUS
<1>1. /\ UNCHANGED <<contents, drifts, file, phase, sealed, touched, TheStatement,
                     IsInsert>>
      /\ UNCHANGED <<snap, expected, rest, observed, bytes>>
      /\ pc = "decide" /\ phase = "apply"
      /\ pc' = IF bytes = sealed.digest THEN "execute" ELSE "drifted"
  BY DEF Compare, table, query, TheStatement, IsInsert, Digest, Goto
<1>2. TypeOK'
  BY <1>1 DEF EInv, TypeOK
<1>3. AllowedInv' /\ FreshInv' /\ CountInv' /\ SealInv'
  BY <1>1 DEF EInv, AllowedInv, FreshInv, Locked, CountInv, SealInv
<1>4. StreamInv'
  <2>1. CASE IsInsert
    BY <1>1, <2>1 DEF EInv, StreamInv
  <2>2. CASE ~IsInsert
    <3>1. PICK s \in Sorted(snap, Selected(snap)) : Received(s)
      BY <1>1, <2>2, TheAnswer
    <3>2. Received(s)' /\ rest = <<>>
      BY <1>1, <2>2, <3>1 DEF Received, EInv, StreamInv
    <3>3. QED
      BY <1>1, <2>2, <3>1, <3>2 DEF StreamInv
  <2>3. QED
    BY <2>1, <2>2
<1>5. VerdictInv'
  <2>1. ASSUME bytes /= sealed.digest
        PROVE  ~IsInsert /\ BagOf(contents, Selected(contents)) /= sealed.bag
    <3>1. ~IsInsert
      BY <1>1, <2>1 DEF EInv, StreamInv, SealInv
    <3>2. QED
      BY <1>1, <2>1, <3>1, DigestIsBag
  <2>2. QED
    BY <1>1, <2>1 DEF VerdictInv, NoFalseDrift, IsInsert
<1>6. QED
  BY <1>2, <1>3, <1>4, <1>5 DEF EInv

LEMMA ExecuteEInv == EInv /\ Execute => EInv'
<1> SUFFICES ASSUME EInv, Execute PROVE EInv'
  OBVIOUS
<1>1. /\ UNCHANGED <<contents, drifts, file, phase, sealed, TheStatement, IsInsert>>
      /\ UNCHANGED <<snap, expected, rest, observed, bytes>>
      /\ pc = "execute" /\ phase = "apply" /\ pc' \in {"committed", "rolled_back"}
  BY DEF Execute, table, query, TheStatement, IsInsert, Goto, EInv, VerdictInv
<1>2. /\ FileAllowed(file) /\ file \in Files
      /\ contents \in Contents /\ snap = contents
  BY <1>1 DEF EInv, AllowedInv, FreshInv, Locked, TypeOK
<1>3. pc' = "committed" =>
        touched' = IF IsInsert THEN {} ELSE Selected(contents)
  <2> SUFFICES ASSUME pc' = "committed"
               PROVE  touched' = IF IsInsert THEN {} ELSE Selected(contents)
    OBVIOUS
  <2>1. /\ touched' \in Touches(TheStatement, contents)
        /\ expected \in Affected(TheStatement, touched')
    BY DEF Execute, Goto
  <2>2. CASE IsInsert
    BY <1>2, <2>1, <2>2, AllowedStatement
  <2>3. CASE ~IsInsert
    <3>1. touched' \subseteq Selected(contents) /\ expected = Cardinality(touched')
      BY <1>2, <2>1, <2>3, AllowedStatement
    <3>2. expected = Cardinality(Selected(contents))
      BY <1>1, <1>2, <2>3 DEF EInv, CountInv
    <3>3. IsFiniteSet(Selected(contents))
      BY <1>2, Rowset
    <3>4. QED
      BY <2>3, <3>1, <3>2, <3>3, FS_Subset
  <2>4. QED
    BY <2>2, <2>3
<1>4. touched' \subseteq Slots
  <2>1. pc' = "rolled_back" => touched' = touched
    BY DEF Execute, Goto
  <2>2. Selected(contents) \subseteq Slots /\ touched \subseteq Slots
    BY <1>2, Rowset DEF EInv, TypeOK
  <2>3. QED
    BY <1>1, <1>3, <2>1, <2>2
<1>5. TypeOK'
  BY <1>1, <1>4 DEF EInv, TypeOK
<1>6. AllowedInv' /\ FreshInv' /\ CountInv' /\ SealInv'
  BY <1>1 DEF EInv, AllowedInv, FreshInv, Locked, CountInv, SealInv
<1>7. StreamInv'
  <2>1. CASE IsInsert
    BY <1>1, <2>1 DEF EInv, StreamInv
  <2>2. CASE ~IsInsert
    <3>1. PICK s \in Sorted(snap, Selected(snap)) : Received(s)
      BY <1>1, <2>2, TheAnswer
    <3>2. Received(s)' /\ rest = <<>>
      BY <1>1, <2>2, <3>1 DEF Received, EInv, StreamInv
    <3>3. QED
      BY <1>1, <2>2, <3>1, <3>2 DEF StreamInv
  <2>3. QED
    BY <2>1, <2>2
<1>8. VerdictInv'
  <2>1. bytes = sealed.digest
    BY <1>1 DEF EInv, VerdictInv
  <2>2. QED
    BY <1>1, <1>3, <2>1 DEF VerdictInv, NoFalseDrift
<1>9. QED
  BY <1>5, <1>6, <1>7, <1>8 DEF EInv

LEMMA DriftEInv == EInv /\ Drift => EInv'
<1> SUFFICES ASSUME EInv, Drift PROVE EInv'
  OBVIOUS
<1>1. /\ UNCHANGED <<file, phase, pc, sealed, touched, TheStatement, IsInsert>>
      /\ UNCHANGED <<snap, expected, rest, observed, bytes>>
      /\ contents' \in Contents /\ drifts' = drifts + 1 /\ drifts < MaxDrifts
      /\ ~Locked
  BY DEF Drift, query, TheStatement, IsInsert
<1>2. TypeOK'
  <2>1. drifts' \in 0..MaxDrifts
    <3>1. drifts \in 0..MaxDrifts
      BY DEF EInv, TypeOK
    <3>2. QED
      BY <1>1, <3>1, EvidenceAssumption
  <2>2. QED
    BY <1>1, <2>1 DEF EInv, TypeOK
<1>3. AllowedInv' /\ FreshInv' /\ CountInv' /\ SealInv'
  BY <1>1 DEF EInv, AllowedInv, FreshInv, Locked, CountInv, SealInv
<1>4. StreamInv'
  <2>1. UNCHANGED <<pc, IsInsert, bytes, observed, snap, rest>>
    BY <1>1
  <2>2. Fits(Head(rest))' = Fits(Head(rest)) /\ \A s : Received(s)' = Received(s)
    BY <2>1 DEF Fits, Received
  <2>3. StreamInv
    BY DEF EInv
  <2>4. QED
    BY <2>1, <2>2, <2>3 DEF StreamInv
<1>5. VerdictInv'
  <2>1. pc \notin {"drifted", "execute", "committed", "rolled_back"}
    BY <1>1 DEF EInv, VerdictInv, Locked
  <2>2. QED
    BY <1>1, <2>1 DEF VerdictInv, NoFalseDrift
<1>6. QED
  BY <1>2, <1>3, <1>4, <1>5 DEF EInv

LEMMA NextEInv == EInv /\ [Next]_vars => EInv'
<1> SUFFICES ASSUME EInv, [Next]_vars PROVE EInv'
  OBVIOUS
<1>1. CASE Next
  BY <1>1, AnalyzeEInv, CountEInv, SendEInv, ReceiveEInv, EndEInv, SealEInv,
     CompareEInv, ExecuteEInv, DriftEInv DEF Next
<1>2. CASE UNCHANGED vars
  <2>1. /\ UNCHANGED <<contents, drifts, file, phase, pc, sealed, touched,
                       TheStatement, IsInsert>>
        /\ UNCHANGED <<snap, expected, rest, observed, bytes>>
    BY <1>2 DEF vars, table, query, TheStatement, IsInsert
  <2>2. TypeOK' /\ AllowedInv' /\ FreshInv' /\ CountInv' /\ SealInv' /\ VerdictInv'
    BY <2>1 DEF EInv, TypeOK, AllowedInv, FreshInv, Locked, CountInv, SealInv,
                VerdictInv, NoFalseDrift
  <2>3. StreamInv'
    <3>1. Fits(Head(rest))' = Fits(Head(rest)) /\ \A s : Received(s)' = Received(s)
      BY <2>1 DEF Fits, Received
    <3>2. StreamInv
      BY DEF EInv
    <3>3. QED
      BY <2>1, <3>1, <3>2 DEF StreamInv
  <2>4. QED
    BY <2>2, <2>3 DEF EInv
<1>3. QED
  BY <1>1, <1>2

(* At every call the evidence is the encoding of the sorted answer over    *)
(* the rows selected, and the plan's that of the rows it was sealed over.  *)
THEOREM EvidenceIsKept == Spec => []EInv
<1>1. QED
  BY InitEInv, NextEInv, PTL DEF Spec

(* Every variable keeps its type, and the evidence stays under the cap.    *)
THEOREM TypeCorrect == Spec => []TypeOK
<1>1. EInv => TypeOK
  BY DEF EInv
<1>2. QED
  BY <1>1, EvidenceIsKept, PTL

(* What runs targets, as a bag, the rows the plan was sealed over: equal   *)
(* digests come from equal target rows, whatever bytes the images hold.    *)
THEOREM DigestsDecide == Spec => []DigestDecides
<1>1. EInv => DigestDecides
  <2> SUFFICES ASSUME EInv, pc = "execute", ~IsInsert
               PROVE  BagOf(contents, Selected(contents)) = sealed.bag
    BY DEF DigestDecides, IsInsert
  <2>1. phase = "apply" /\ bytes = sealed.digest
    BY DEF EInv, VerdictInv
  <2>2. QED
    BY <2>1, DigestIsBag
<1>2. QED
  BY <1>1, EvidenceIsKept, PTL

(* A plan is not called drifted while its target rows are what they were:  *)
(* one bag of rows has one sorted answer, and so one digest.               *)
THEOREM DriftIsReal == Spec => []NoFalseDrift
<1>1. EInv => NoFalseDrift
  BY DEF EInv, VerdictInv
<1>2. QED
  BY <1>1, EvidenceIsKept, PTL

(* What is committed is what was counted and fingerprinted.                *)
THEOREM EffectIsApproved == Spec => []EffectIsEvidence
<1>1. EInv => EffectIsEvidence
  <2> SUFFICES ASSUME EInv, pc = "committed" PROVE EffectIsEvidence
    BY DEF EffectIsEvidence
  <2>1. /\ phase = "apply" /\ bytes = sealed.digest
        /\ touched = IF IsInsert THEN {} ELSE Selected(contents)
        /\ snap = contents /\ expected <= MaxRows /\ expected = sealed.count
    BY DEF EInv, VerdictInv, FreshInv, Locked, CountInv
  <2>2. CASE IsInsert
    BY <2>1, <2>2 DEF EffectIsEvidence, IsInsert
  <2>3. CASE ~IsInsert
    <3>1. BagOf(contents, Selected(contents)) = sealed.bag
      BY <2>1, <2>3, DigestIsBag
    <3>2. expected = Cardinality(Selected(contents))
      BY <2>1, <2>3 DEF EInv, CountInv
    <3>3. QED
      BY <2>1, <2>3, <3>1, <3>2 DEF EffectIsEvidence, IsInsert
  <2>4. QED
    BY <2>2, <2>3
<1>2. QED
  BY <1>1, EvidenceIsKept, PTL

-----------------------------------------------------------------------------
(* The size of the evidence.                                               *)

(* The bytes of a row, named by the row and their place.                   *)
BytesOf(r) == {r} \X (1..PrefixBytes + Len(snap[r]))

(* All the bytes of the rows selected are the bytes of the whole encoding  *)
(* of any answer: row by row, in the order of the answer.                  *)
LEMMA SizeOfAnswer ==
  ASSUME snap \in Contents, NEW s \in Sorted(snap, Selected(snap))
  PROVE  /\ s \in Seq(Images) /\ Len(s) \in Nat
         /\ SizeOf(Selected(snap)) = Len(Encodings(s)[Len(s)])
<1> DEFINE R == Selected(snap)
           n == Cardinality(R)
           d == Encodings(s)
<1>1. n \in Nat /\ s \in Seq(Images) /\ Len(s) = n /\ PrefixBytes \in Nat
  BY Rowset, SortedAnswers, EvidenceAssumption
<1>2. PICK e \in Bijection(1..n, R) : s = [k \in 1..n |-> snap[e[k]]]
  BY DEF Sorted, Readings
<1>3. /\ e \in [1..n -> R] /\ \A j, k \in 1..n : e[j] = e[k] => j = k
      /\ \A r \in R : \E k \in 1..n : e[k] = r
  BY <1>2 DEF Bijection, Injection, Surjection, IsInjective
<1>4. ASSUME NEW k \in 1..n
      PROVE  /\ IsFiniteSet(BytesOf(e[k]))
             /\ Cardinality(BytesOf(e[k])) = PrefixBytes + Len(s[k])
             /\ Len(s[k]) \in Nat /\ s[k] \in Images
  <2> DEFINE m == PrefixBytes + Len(snap[e[k]])
  <2>1. s[k] = snap[e[k]] /\ s[k] \in Images
    BY <1>1, <1>2
  <2>2. Len(snap[e[k]]) \in Nat /\ m \in Nat
    BY <1>1, <2>1, EncodeType
  <2> HIDE DEF m
  <2>3. IsFiniteSet(1..m) /\ Cardinality(1..m) = m
    <3>1. m \in Nat
      BY <2>2
    <3>2. QED
      BY <3>1, FS_Interval
  <2>4. IsFiniteSet({e[k]}) /\ Cardinality({e[k]}) = 1
    BY FS_Singleton
  <2>5. /\ IsFiniteSet({e[k]} \X (1..m))
        /\ Cardinality({e[k]} \X (1..m)) = 1 * m
    BY <2>3, <2>4, FS_Product
  <2>6. QED
    BY <2>1, <2>2, <2>5 DEF BytesOf, m
<1> DEFINE U(k) == UNION {BytesOf(e[i]) : i \in 1..k}
           T == {k \in 0..n : IsFiniteSet(U(k)) /\ Cardinality(U(k)) = Len(d[k])}
<1>5. 0 \in T
  <2>1. U(0) = {}
    OBVIOUS
  <2>2. d[0] = <<>>
    BY <1>1, EncodingSteps
  <2>3. IsFiniteSet(U(0)) /\ Cardinality(U(0)) = 0
    BY <2>1, FS_EmptySet
  <2>4. Len(d[0]) = 0
    BY <2>2, EmptySeq
  <2>5. QED
    BY <1>1, <2>3, <2>4
<1>6. ASSUME NEW k \in 0..n, k < n, k \in T PROVE k + 1 \in T
  <2> DEFINE B == BytesOf(e[k + 1])
             x == Encode(s[k + 1])
  <2>1. k + 1 \in 1..n /\ k + 1 \in 0..n /\ (k + 1) - 1 = k
    BY <1>1, <1>6
  <2>2. U(k + 1) = U(k) \cup B
    <3>1. 1..k + 1 = (1..k) \cup {k + 1}
      BY <1>6
    <3>2. QED
      BY <3>1
  <2>3. U(k) \cap B = {}
    <3> SUFFICES ASSUME NEW i \in 1..k, NEW p \in BytesOf(e[i]), p \in B
                 PROVE  FALSE
      OBVIOUS
    <3>1. p[1] = e[i] /\ p[1] = e[k + 1]
      BY DEF BytesOf
    <3>2. i \in 1..n /\ i /= k + 1
      BY <1>1, <1>6
    <3>3. QED
      BY <1>3, <2>1, <3>1, <3>2
  <2>4. /\ IsFiniteSet(B) /\ Cardinality(B) = PrefixBytes + Len(s[k + 1])
        /\ s[k + 1] \in Images
    BY <1>4, <2>1
  <2> HIDE DEF U, B
  <2>5. IsFiniteSet(U(k)) /\ Cardinality(U(k)) = Len(d[k])
    BY <1>6
  <2>6. /\ IsFiniteSet(U(k) \cup B)
        /\ Cardinality(U(k) \cup B) = Cardinality(U(k)) + Cardinality(B)
    <3>1. /\ IsFiniteSet(U(k) \cup B)
          /\ Cardinality(U(k) \cup B)
               = Cardinality(U(k)) + Cardinality(B) - Cardinality(U(k) \cap B)
      BY <2>4, <2>5, FS_Union
    <3>2. Cardinality(U(k) \cap B) = 0
      BY <2>3, FS_EmptySet
    <3>3. Cardinality(U(k)) \in Nat /\ Cardinality(B) \in Nat
      BY <2>4, <2>5, FS_CardinalityType
    <3>4. QED
      BY <3>1, <3>2, <3>3
  <2>7. Len(d[k + 1]) = Len(d[k]) + (PrefixBytes + Len(s[k + 1]))
    <3>1. d[k + 1] = d[k] \o x /\ d[k] \in Seq(0..255)
      BY <1>1, <2>1, EncodingSteps
    <3>2. x \in Seq(0..255) /\ Len(x) = PrefixBytes + Len(s[k + 1])
      BY <2>4, EncodeType
    <3> HIDE DEF x, d
    <3>3. Len(d[k] \o x) = Len(d[k]) + Len(x)
      BY <3>1, <3>2, ConcatProperties
    <3>4. QED
      BY <3>1, <3>2, <3>3
  <2>8. IsFiniteSet(U(k + 1)) /\ Cardinality(U(k + 1)) = Len(d[k + 1])
    BY <2>2, <2>4, <2>5, <2>6, <2>7
  <2>9. QED
    BY <2>1, <2>8
<1>7. n \in T
  <2>1. 0..n \subseteq T
    <3> HIDE DEF T
    <3>1. QED
      BY <1>1, <1>5, <1>6, Induction
  <2>2. QED
    BY <1>1, <2>1
<1>8. SizeOf(R) = Cardinality(U(n))
  <2>1. {BytesOf(r) : r \in R} = {BytesOf(e[i]) : i \in 1..n}
    BY <1>3
  <2>2. SizeOf(R) = Cardinality(UNION {BytesOf(r) : r \in R})
    BY DEF SizeOf, BytesOf
  <2>3. QED
    BY <2>1, <2>2
<1>9. QED
  BY <1>1, <1>7, <1>8

(* If the next image does not fit, neither does all the evidence.          *)
LEMMA NextDoesNotFit ==
  ASSUME TypeOK, NEW s \in Sorted(snap, Selected(snap)), Received(s),
         rest /= <<>>, ~Fits(Head(rest))
  PROVE  Len(Encodings(s)[Len(s)]) > Cap
<1> DEFINE n == Len(s)
           d == Encodings(s)
<1>1. snap \in Contents /\ bytes \in Seq(0..255)
  BY DEF TypeOK
<1>2. s \in Seq(Images) /\ n \in Nat
  BY <1>1, SizeOfAnswer
<1>3. observed + 1 \in 1..n /\ observed \in 0..n /\ Head(rest) = s[observed + 1]
  BY SoFar
<1>4. PICK k \in 1..n : k = observed + 1
  BY <1>3
<1> DEFINE x == Encode(s[k])
<1>5. k \in 0..n /\ n \in k..n /\ k - 1 = observed
  BY <1>2, <1>3, <1>4
<1>6. s[k] \in Images /\ Head(rest) = s[k]
  BY <1>2, <1>3, <1>4
<1>7. x \in Seq(0..255) /\ Len(x) = PrefixBytes + Len(s[k]) /\ Len(s[k]) \in Nat
  BY <1>6, EncodeType
<1>8. d[k] = bytes \o x
  <2>1. d[k] = d[k - 1] \o x
    BY <1>2, <1>4, EncodingSteps
  <2>2. bytes = d[observed]
    BY DEF Received
  <2>3. QED
    BY <1>5, <2>1, <2>2
<1>9. Len(d[k]) <= Len(d[n])
  BY <1>2, <1>5, EncodingsGrow
<1>10. Len(d[n]) \in Nat
  <2>1. Encodings(s) \in [0..Len(s) -> Seq(0..255)]
    BY <1>2, EncodingSteps
  <2>2. d[n] \in Seq(0..255)
    BY <1>2, <2>1
  <2>3. QED
    BY <2>2, LenProperties
<1> HIDE DEF x, d, n
<1>11. Len(d[k]) = Len(bytes) + (PrefixBytes + Len(s[k]))
  <2>1. Len(bytes \o x) = Len(bytes) + Len(x)
    BY <1>1, <1>7, ConcatProperties
  <2>2. QED
    BY <1>7, <1>8, <2>1
<1>12. ~(Len(bytes) + PrefixBytes + Len(s[k]) <= Cap)
  BY <1>6 DEF Fits
<1> DEFINE b == Len(bytes)
           l == Len(s[k])
           y == Len(d[k])
           z == Len(d[n])
<1>13. /\ b \in Nat /\ l \in Nat /\ z \in Nat /\ PrefixBytes \in Nat /\ Cap \in Nat
       /\ y = b + (PrefixBytes + l) /\ y <= z /\ ~(b + PrefixBytes + l <= Cap)
  BY <1>1, <1>7, <1>9, <1>10, <1>11, <1>12, LenProperties, EvidenceAssumption
<1> HIDE DEF b, l, y, z
<1>14. z > Cap
  BY <1>13
<1>15. QED
  BY <1>14 DEF z, d, n

(* A cap is hit exactly when all the evidence is larger than it.           *)
THEOREM CapsAreExact == Spec => []CapIsExact
<1>1. ASSUME EInv, pc = "too_large" PROVE SizeOf(Selected(snap)) > Cap
  <2>1. /\ TypeOK /\ snap \in Contents /\ ~IsInsert
        /\ rest /= <<>> /\ ~Fits(Head(rest))
    BY <1>1 DEF EInv, TypeOK, StreamInv
  <2>2. PICK s \in Sorted(snap, Selected(snap)) : Received(s)
    BY <1>1, <2>1, TheAnswer
  <2>3. Len(Encodings(s)[Len(s)]) > Cap
    BY <2>1, <2>2, NextDoesNotFit
  <2>4. SizeOf(Selected(snap)) = Len(Encodings(s)[Len(s)])
    BY <2>1, SizeOfAnswer
  <2>5. QED
    BY <2>3, <2>4
<1>2. ASSUME EInv, pc = "decide", ~IsInsert PROVE SizeOf(Selected(snap)) <= Cap
  <2>1. TypeOK /\ snap \in Contents /\ rest = <<>> /\ Len(bytes) <= Cap
    BY <1>2 DEF EInv, TypeOK, StreamInv
  <2>2. PICK s \in Sorted(snap, Selected(snap)) :
          Len(s) = expected /\ bytes = Encodings(s)[expected]
    BY <1>2, <2>1, TheAnswer
  <2>3. SizeOf(Selected(snap)) = Len(Encodings(s)[Len(s)])
    BY <2>1, SizeOfAnswer
  <2>4. QED
    BY <2>1, <2>2, <2>3
<1>3. EInv => CapIsExact
  BY <1>1, <1>2 DEF CapIsExact, IsInsert
<1>4. QED
  BY <1>3, EvidenceIsKept, PTL

-----------------------------------------------------------------------------
(* The refinement.                                                         *)

(* The abstract fingerprint and count of an UPDATE or DELETE are those of  *)
(* the rows selected; an INSERT targets none.                              *)
LEMMA AbstractTargets ==
  ASSUME NEW c \in Contents
  PROVE  /\ Table!Targets(TheKind, c) = IF IsInsert THEN {} ELSE Selected(c)
         /\ Table!Count(TheKind, c)
              = IF IsInsert THEN 1 ELSE Cardinality(Selected(c))
         /\ Table!Fingerprint(TheKind, c)
              = IF IsInsert THEN [i \in Images |-> 0] ELSE BagOf(c, Selected(c))
<1> DEFINE id == [i \in Images |-> i]
           T == Table!Targets(TheKind, c)
<1>0. \A S : Table!Cardinality(S) = Cardinality(S)
  BY DEF Table!Cardinality, Cardinality
<1>1. TheKind \in {"insert", "change"} /\ (TheKind = "insert" <=> IsInsert)
  BY DEF TheKind, IsInsert
<1>2. T = IF IsInsert THEN {} ELSE Selected(c)
  BY <1>1 DEF Table!Targets, Selected
<1>3. Table!Count(TheKind, c) = IF IsInsert THEN 1 ELSE Cardinality(Selected(c))
  <2>1. Table!Count(TheKind, c)
          = IF TheKind \in {"insert"} THEN 1 ELSE Cardinality(T)
    BY <1>0 DEF Table!Count, Table!Targets
  <2>2. QED
    BY <1>1, <1>2, <2>1
<1>4. Table!Range(id) = Images
  BY DEF Table!Range
<1>5. Table!Fingerprint(TheKind, c)
        = [i \in Table!Range(id) |-> Cardinality({r \in T : id[c[r]] = i})]
  BY <1>0 DEF Table!Fingerprint, Table!Targets
<1> HIDE DEF T
<1>6. CASE IsInsert
  <2>1. \A i \in Images : {r \in T : id[c[r]] = i} = {}
    BY <1>2, <1>6
  <2>2. Cardinality({}) = 0
    BY FS_EmptySet
  <2>3. QED
    BY <1>2, <1>3, <1>4, <1>5, <1>6, <2>1, <2>2 DEF T
<1>7. CASE ~IsInsert
  <2>1. \A r \in T : c[r] \in Images /\ id[c[r]] = c[r]
    BY <1>2, <1>7, Rowset
  <2>2. \A i \in Images : {r \in T : id[c[r]] = i} = {r \in Selected(c) : c[r] = i}
    BY <1>2, <1>7, <2>1
  <2>3. QED
    BY <1>2, <1>3, <1>4, <1>5, <1>7, <2>2 DEF T, BagOf
<1>8. QED
  BY <1>6, <1>7

(* What apply compares, once and for all its evidence.                     *)
LEMMA AbstractVerdict ==
  ASSUME EInv, phase = "apply", pc \in {"decide", "execute"}
  PROVE  bytes = sealed.digest <=> Table!Fingerprint(TheKind, contents) = Approved
<1>1. contents \in Contents
  BY DEF EInv, TypeOK
<1>2. CASE IsInsert
  <2>1. bytes = sealed.digest
    BY <1>2 DEF EInv, StreamInv, SealInv
  <2>2. Table!Fingerprint(TheKind, contents) = [i \in Images |-> 0]
    BY <1>1, <1>2, AbstractTargets
  <2>3. QED
    BY <1>2, <2>1, <2>2 DEF Approved, TheKind, IsInsert
<1>3. CASE ~IsInsert
  <2>1. Table!Fingerprint(TheKind, contents) = BagOf(contents, Selected(contents))
    BY <1>1, <1>3, AbstractTargets
  <2>2. Approved = sealed.bag
    BY <1>3 DEF Approved, TheKind, IsInsert
  <2>3. QED
    BY <1>3, <2>1, <2>2, DigestIsBag
<1>4. QED
  BY <1>2, <1>3

(* A step of the evidence is a step of the comparison, or none.            *)
LEMMA NextCompares == EInv /\ EInv' /\ [Next]_vars => [Table!Next]_Table!vars
<1> SUFFICES ASSUME EInv, EInv', [Next]_vars PROVE [Table!Next]_Table!vars
  OBVIOUS
<1> USE DEF Goto, table, query
<1>1. TheKind' = TheKind /\ IsInsert' = IsInsert
  BY DEF Next, vars, Analyze, CountTargets, SendQuery, ReceiveRow, EndOfRows,
         SealEvidence, Compare, Execute, Drift, TheKind, IsInsert, TheStatement
<1>2. contents \in Contents /\ snap \in Contents
  BY DEF EInv, TypeOK
<1>3. ASSUME phase' = phase, sealed' = sealed PROVE Approved' = Approved
  BY <1>1, <1>3 DEF Approved
<1>4. ASSUME Analyze PROVE Table!Next
  <2>1. /\ UNCHANGED <<contents, touched, phase, sealed>> /\ snap' = contents
        /\ pc = "analyze" /\ pc' \in {"count", "denied"}
    BY <1>4 DEF Analyze
  <2>2. Approved' = Approved
    BY <1>3, <2>1
  <2>3. CASE phase = "plan"
    <3>1. Stage = "plan" /\ Stage' \in {"plan", "refused"}
      BY <2>1, <2>3 DEF Stage
    <3>2. Table!Look \/ Table!Refuse
      BY <1>1, <2>1, <2>2, <3>1 DEF Table!Look, Table!Refuse
    <3>3. QED
      BY <3>2 DEF Table!Next
  <2>4. CASE phase = "apply"
    <3>1. FileAllowed(file)
      BY <2>4 DEF EInv, AllowedInv
    <3>2. pc' = "count"
      BY <1>4, <3>1 DEF Analyze
    <3>3. Stage = "planned" /\ Stage' = "locked"
      BY <2>1, <2>4, <3>2 DEF Stage
    <3>4. Table!Lock
      BY <1>1, <2>1, <2>2, <3>3 DEF Table!Lock
    <3>5. QED
      BY <3>4 DEF Table!Next
  <2>5. QED
    BY <2>3, <2>4 DEF EInv, TypeOK
<1>5. ASSUME CountTargets PROVE [Table!Next]_Table!vars
  <2>1. /\ UNCHANGED <<contents, touched, phase, sealed, snap>>
        /\ pc = "count" /\ pc' \in {"drifted", "over_budget", "query"}
    BY <1>5 DEF CountTargets
  <2>2. Approved' = Approved
    BY <1>3, <2>1
  <2>3. Stage = IF phase = "plan" THEN "plan" ELSE "locked"
    BY <2>1 DEF Stage
  <2>4. CASE pc' = "drifted"
    <3>1. phase = "apply" /\ Stage' = "drifted" /\ Stage = "locked"
      BY <2>1, <2>3, <2>4 DEF Stage, EInv, VerdictInv
    <3>2. ~IsInsert /\ BagOf(contents, Selected(contents)) /= sealed.bag
      BY <1>1, <2>1, <2>4 DEF EInv, VerdictInv, NoFalseDrift, IsInsert
    <3>3. Table!Fingerprint(TheKind, contents) /= Approved
      <4>1. Approved = sealed.bag
        BY <3>1, <3>2 DEF Approved, TheKind, IsInsert
      <4>2. QED
        BY <1>2, <3>2, <4>1, AbstractTargets
    <3>4. Table!Judge
      BY <1>1, <2>1, <2>2, <3>1, <3>3 DEF Table!Judge
    <3>5. QED
      BY <3>4 DEF Table!Next
  <2>5. CASE pc' = "over_budget"
    <3>1. Stage' = "refused" /\ Stage \in {"plan", "locked"}
      BY <2>3, <2>5 DEF Stage
    <3>2. Table!Refuse
      BY <1>1, <2>1, <2>2, <3>1 DEF Table!Refuse
    <3>3. QED
      BY <3>2 DEF Table!Next
  <2>6. CASE pc' = "query"
    <3>1. Stage' = Stage
      BY <2>1, <2>3, <2>6 DEF Stage
    <3>2. QED
      BY <1>1, <2>1, <2>2, <3>1 DEF Table!vars
  <2>7. QED
    BY <2>1, <2>4, <2>5, <2>6
<1>6. ASSUME SendQuery \/ ReceiveRow \/ EndOfRows PROVE [Table!Next]_Table!vars
  <2>1. /\ UNCHANGED <<contents, touched, phase, sealed, snap>>
        /\ pc \in {"query", "stream"}
        /\ pc' \in {"stream", "decide", "too_large", "mismatch"}
    BY <1>6 DEF SendQuery, ReceiveRow, EndOfRows
  <2>2. Approved' = Approved
    BY <1>3, <2>1
  <2>3. Stage = IF phase = "plan" THEN "plan" ELSE "locked"
    BY <2>1 DEF Stage
  <2>4. CASE pc' \in {"too_large", "mismatch"}
    <3>1. Stage' = "refused" /\ Stage \in {"plan", "locked"}
      BY <2>3, <2>4 DEF Stage
    <3>2. Table!Refuse
      BY <1>1, <2>1, <2>2, <3>1 DEF Table!Refuse
    <3>3. QED
      BY <3>2 DEF Table!Next
  <2>5. CASE pc' \in {"stream", "decide"}
    <3>1. Stage' = Stage
      BY <2>1, <2>3, <2>5 DEF Stage
    <3>2. QED
      BY <1>1, <2>1, <2>2, <3>1 DEF Table!vars
  <2>6. QED
    BY <2>1, <2>4, <2>5
<1>7. ASSUME SealEvidence PROVE Table!Next
  <2>1. /\ UNCHANGED <<contents, touched, snap>> /\ pc = "decide" /\ phase = "plan"
        /\ pc' = "analyze" /\ phase' = "apply"
        /\ sealed'.bag = BagOf(snap, Selected(snap))
    BY <1>7 DEF SealEvidence
  <2>2. Stage = "plan" /\ Stage' = "planned"
    BY <2>1 DEF Stage
  <2>3. Approved' = Table!Fingerprint(TheKind, snap)
    <3>1. Approved' = IF IsInsert THEN [i \in Images |-> 0]
                                  ELSE BagOf(snap, Selected(snap))
      BY <1>1, <2>1 DEF Approved, TheKind, IsInsert
    <3>2. QED
      BY <1>2, <3>1, AbstractTargets
  <2>4. Table!Count(TheKind, snap) <= MaxRows
    <3>1. Table!Count(TheKind, snap)
            = IF IsInsert THEN 1 ELSE Cardinality(Selected(snap))
      BY <1>2, AbstractTargets
    <3>2. CASE IsInsert
      BY <3>1, <3>2, EvidenceAssumption
    <3>3. CASE ~IsInsert
      BY <2>1, <3>1, <3>3 DEF EInv, CountInv
    <3>4. QED
      BY <3>2, <3>3
  <2>5. Approved = NoPlan
    BY <2>1 DEF Approved
  <2>6. Table!Seal
    BY <1>1, <2>1, <2>2, <2>3, <2>4 DEF Table!Seal
  <2>7. QED
    BY <2>6 DEF Table!Next
<1>8. ASSUME Compare PROVE Table!Next
  <2>1. /\ UNCHANGED <<contents, touched, phase, sealed, snap>>
        /\ pc = "decide" /\ phase = "apply"
        /\ pc' = IF bytes = sealed.digest THEN "execute" ELSE "drifted"
    BY <1>8 DEF Compare, Digest
  <2>2. Approved' = Approved
    BY <1>3, <2>1
  <2>3. /\ Stage = "locked"
        /\ Stage' = IF bytes = sealed.digest THEN "verified" ELSE "drifted"
    BY <2>1 DEF Stage
  <2>4. bytes = sealed.digest <=> Table!Fingerprint(TheKind, contents) = Approved
    BY <2>1, AbstractVerdict
  <2>5. Table!Judge
    BY <1>1, <2>1, <2>2, <2>3, <2>4 DEF Table!Judge
  <2>6. QED
    BY <2>5 DEF Table!Next
<1>9. ASSUME Execute PROVE Table!Next
  <2>1. /\ UNCHANGED <<contents, phase, sealed, snap>> /\ pc = "execute"
        /\ pc' \in {"committed", "rolled_back"}
        /\ pc' = "rolled_back" => touched' = touched
    BY <1>9 DEF Execute
  <2>2. Approved' = Approved
    BY <1>3, <2>1
  <2>3. Stage = "verified" /\ Stage' = pc'
    BY <2>1 DEF Stage
  <2>4. pc' = "committed" => touched' = Table!Targets(TheKind, contents)
    <3>1. pc' = "committed" =>
            touched' = IF IsInsert THEN {} ELSE Selected(contents)
      BY <1>1, <2>1 DEF EInv, VerdictInv, Selected
    <3>2. QED
      BY <1>2, <3>1, AbstractTargets
  <2>5. Table!Execute
    BY <1>1, <2>1, <2>2, <2>3, <2>4 DEF Table!Execute
  <2>6. QED
    BY <2>5 DEF Table!Next
<1>10. ASSUME Drift PROVE Table!Next
  <2>1. /\ UNCHANGED <<touched, phase, sealed, snap, pc>> /\ ~Locked
        /\ contents' \in Contents
    BY <1>10 DEF Drift
  <2>2. Approved' = Approved
    BY <1>3, <2>1
  <2>3. Stage' = Stage
    BY <2>1 DEF Stage
  <2>4. Stage \in {"plan", "planned", "refused"}
    BY <2>1 DEF Stage, Locked, EInv, TypeOK, VerdictInv
  <2>5. contents' \in Table!Contents
    BY <2>1 DEF Contents, Table!Contents
  <2>6. Table!Outside
    BY <1>1, <2>1, <2>2, <2>3, <2>4, <2>5 DEF Table!Outside
  <2>7. QED
    BY <2>6 DEF Table!Next
<1>11. ASSUME UNCHANGED vars PROVE UNCHANGED Table!vars
  <2>1. UNCHANGED <<contents, touched, phase, sealed, snap, pc>>
    BY <1>11 DEF vars
  <2>2. Approved' = Approved /\ Stage' = Stage
    BY <1>3, <2>1 DEF Stage
  <2>3. QED
    BY <1>1, <2>1, <2>2 DEF Table!vars
<1>12. QED
  BY <1>4, <1>5, <1>6, <1>7, <1>8, <1>9, <1>10, <1>11 DEF Next

(* Plan and apply together compare the bags of the target rows: byte by    *)
(* byte evidence is what Apply takes its fingerprints for.                 *)
THEOREM EvidenceComparesTargets == Spec => ComparesTargets
<1>1. Init => Table!Init
  <2> SUFFICES ASSUME Init PROVE Table!Init
    OBVIOUS
  <2>1. Stage = "plan" /\ Approved = NoPlan /\ TheKind \in {"insert", "change"}
    BY DEF Init, Stage, Approved, TheKind
  <2>2. contents \in Table!Contents /\ snap = contents /\ touched = {}
    BY DEF Init, Contents, Table!Contents
  <2>3. QED
    BY <2>1, <2>2 DEF Table!Init
<1>2. EInv /\ EInv' /\ [Next]_vars => [Table!Next]_Table!vars
  BY NextCompares
<1>3. QED
  BY <1>1, <1>2, EvidenceIsKept, PTL DEF Spec, ComparesTargets, Table!Spec
=============================================================================
