----------------------------- MODULE SeqLemmas -----------------------------
(***************************************************************************)
(* Facts about operators of the community modules: the least and the       *)
(* greatest of a set of numbers, a sequence with an element removed or put *)
(* in, the parts of a concatenation, and sequences that are flattened.     *)
(***************************************************************************)
EXTENDS Integers, Sequences, SequencesExt, SequenceTheorems, WellFoundedInduction,
        TLAPS

(* A set of natural numbers that is not empty has a least element. *)
LEMMA LeastElement ==
  ASSUME NEW S \in SUBSET Nat, S # {}
  PROVE  Min(S) \in S /\ \A n \in S : Min(S) <= n
<1> DEFINE R == {ss \in Nat \X Nat : ss[1] < ss[2]}
<1>1. IsWellFoundedOn(R, Nat)
  BY NatLessThanWellFounded, Zenon DEF OpToRel
<1>2. PICK x \in S : \A y \in S : ~ (<<y, x>> \in R)
  <2> HIDE DEF R
  <2> QED
    BY <1>1, WFMin
<1>3. \A y \in S : x <= y
  <2> SUFFICES ASSUME NEW y \in S, y < x PROVE FALSE
    OBVIOUS
  <2>1. <<y, x>> \in Nat \X Nat /\ <<y, x>>[1] < <<y, x>>[2]
    OBVIOUS
  <2>2. <<y, x>> \in R
    BY <2>1, Zenon
  <2> QED
    BY <1>2, <2>2
<1> QED
  BY <1>3 DEF Min

(* One that is not empty and has a bound has a greatest element. *)
LEMMA GreatestElement ==
  ASSUME NEW b \in Nat, NEW S \in SUBSET (0..b), S # {}
  PROVE  Max(S) \in S /\ \A n \in S : n <= Max(S)
<1> DEFINE D == {b - n : n \in S}
<1>1. D \in SUBSET Nat /\ D # {}
  <2>1. \A n \in S : b - n \in Nat
    OBVIOUS
  <2> QED
    BY <2>1
<1>2. Min(D) \in D /\ \A n \in D : Min(D) <= n
  BY <1>1, LeastElement
<1>3. PICK x \in S : Min(D) = b - x
  BY <1>2
<1>4. \A n \in S : n <= x
  <2> SUFFICES ASSUME NEW n \in S PROVE n <= x
    OBVIOUS
  <2>1. b - n \in D
    OBVIOUS
  <2>2. b - x <= b - n
    BY <1>2, <1>3, <2>1
  <2> QED
    BY <2>2
<1> QED
  BY <1>4 DEF Max

(* Removing the element at i keeps the others, in their order. *)
LEMMA RemoveAtKeepsOthers ==
  ASSUME NEW S, NEW s \in Seq(S), NEW i \in 1..Len(s)
  PROVE  /\ RemoveAt(s, i) \in Seq(S)
         /\ Len(RemoveAt(s, i)) = Len(s) - 1
         /\ \A j \in 1..Len(s) - 1 : RemoveAt(s, i)[j] = IF j < i THEN s[j] ELSE s[j + 1]
<1>1. /\ SubSeq(s, 1, i - 1) \in Seq(S) /\ Len(SubSeq(s, 1, i - 1)) = i - 1
      /\ \A j \in 1..i - 1 : SubSeq(s, 1, i - 1)[j] = s[j]
  OBVIOUS
<1>2. /\ SubSeq(s, i + 1, Len(s)) \in Seq(S) /\ Len(SubSeq(s, i + 1, Len(s))) = Len(s) - i
      /\ \A j \in 1..Len(s) - i : SubSeq(s, i + 1, Len(s))[j] = s[i + j]
  OBVIOUS
<1> DEFINE front == SubSeq(s, 1, i - 1)
           rest == SubSeq(s, i + 1, Len(s))
<1>3. RemoveAt(s, i) = front \o rest
  BY DEF RemoveAt
<1> HIDE DEF front, rest
<1>4. Len(front \o rest) = Len(s) - 1 /\ front \o rest \in Seq(S)
  <2>1. Len(front) = i - 1 /\ Len(rest) = Len(s) - i /\ front \in Seq(S) /\ rest \in Seq(S)
    BY <1>1, <1>2 DEF front, rest
  <2>2. front \o rest \in Seq(S) /\ Len(front \o rest) = Len(front) + Len(rest)
    BY <2>1
  <2> QED
    BY <2>1, <2>2
<1>5. ASSUME NEW j \in 1..Len(s) - 1
      PROVE  (front \o rest)[j] = IF j < i THEN s[j] ELSE s[j + 1]
  <2>1. Len(front) = i - 1 /\ Len(rest) = Len(s) - i /\ front \in Seq(S) /\ rest \in Seq(S)
    BY <1>1, <1>2 DEF front, rest
  <2>2. (front \o rest)[j] = IF j <= Len(front) THEN front[j] ELSE rest[j - Len(front)]
    BY <2>1
  <2>3. CASE j < i
    BY <1>1, <2>1, <2>2, <2>3 DEF front
  <2>4. CASE ~(j < i)
    <3>1. j - (i - 1) \in 1..Len(s) - i /\ i + (j - (i - 1)) = j + 1
      BY <2>4
    <3> QED
      BY <1>2, <2>1, <2>2, <2>4, <3>1 DEF rest
  <2> QED
    BY <2>3, <2>4
<1> QED
  BY <1>3, <1>4, <1>5

(* Inserting an element at i moves the ones from i on by one. *)
LEMMA InsertAtMovesOthers ==
  ASSUME NEW S, NEW s \in Seq(S), NEW i \in 1..Len(s), NEW e \in S
  PROVE  /\ InsertAt(s, i, e) \in Seq(S)
         /\ Len(InsertAt(s, i, e)) = Len(s) + 1
         /\ \A j \in 1..Len(s) + 1 : InsertAt(s, i, e)[j] =
              IF j < i THEN s[j] ELSE IF j = i THEN e ELSE s[j - 1]
<1> DEFINE front == SubSeq(s, 1, i - 1)
           rest == SubSeq(s, i, Len(s))
           mid == front \o <<e>>
<1>1. front \in Seq(S) /\ Len(front) = i - 1 /\ \A j \in 1..i - 1 : front[j] = s[j]
  OBVIOUS
<1>2. /\ rest \in Seq(S) /\ Len(rest) = Len(s) - i + 1
      /\ \A j \in 1..Len(s) - i + 1 : rest[j] = s[i + j - 1]
  OBVIOUS
<1>3. InsertAt(s, i, e) = mid \o rest
  BY DEF InsertAt
<1> HIDE DEF front, rest
<1>4. mid \in Seq(S) /\ Len(mid) = i /\ \A j \in 1..i : mid[j] = IF j < i THEN s[j] ELSE e
  BY <1>1
<1> HIDE DEF mid
<1>5. mid \o rest \in Seq(S) /\ Len(mid \o rest) = Len(s) + 1
  <2>1. mid \in Seq(S) /\ rest \in Seq(S) /\ Len(mid) = i /\ Len(rest) = Len(s) - i + 1
    BY <1>2, <1>4
  <2>2. mid \o rest \in Seq(S) /\ Len(mid \o rest) = Len(mid) + Len(rest)
    BY <2>1, SMTT(60)
  <2>3. Len(s) \in Nat /\ i \in Nat
    OBVIOUS
  <2> QED
    BY <2>1, <2>2, <2>3
<1>6. ASSUME NEW j \in 1..Len(s) + 1
      PROVE  (mid \o rest)[j] = IF j < i THEN s[j] ELSE IF j = i THEN e ELSE s[j - 1]
  <2>1. (mid \o rest)[j] = IF j <= Len(mid) THEN mid[j] ELSE rest[j - Len(mid)]
    BY <1>2, <1>4
  <2>2. CASE j <= i
    BY <1>4, <2>1, <2>2
  <2>3. CASE j > i
    <3>1. j - i \in 1..Len(s) - i + 1 /\ i + (j - i) - 1 = j - 1
      BY <2>3
    <3> QED
      BY <1>2, <1>4, <2>1, <2>3, <3>1
  <2>4. j <= i \/ j > i
    <3>1. j \in Int /\ i \in Int
      OBVIOUS
    <3> QED
      BY <3>1
  <2> QED
    BY <2>2, <2>3, <2>4
<1> QED
  BY <1>3, <1>5, <1>6

-----------------------------------------------------------------------------
(* Least and greatest elements, and the parts of a sequence *)

(* The least element of a set of numbers is its minimum. *)
LEMMA MinIs ==
  ASSUME NEW S \in SUBSET Nat, NEW x \in S, \A y \in S : x <= y
  PROVE  Min(S) = x
<1>1. \A z \in S : (\A y \in S : z <= y) => z = x
  <2>1. TAKE z \in S
  <2>2. z \in Nat /\ x \in Nat /\ x <= z
    OBVIOUS
  <2> QED
    BY <2>2
<1>2. Min(S) \in S /\ \A y \in S : Min(S) <= y
  BY Zenon DEF Min
<1> QED
  BY <1>1, <1>2

(* The greatest element of a set of numbers is its maximum. *)
LEMMA MaxIs ==
  ASSUME NEW S \in SUBSET Nat, NEW x \in S, \A y \in S : y <= x
  PROVE  Max(S) = x
<1>1. \A z \in S : (\A y \in S : y <= z) => z = x
  <2>1. TAKE z \in S
  <2>2. z \in Nat /\ x \in Nat /\ z <= x
    OBVIOUS
  <2> QED
    BY <2>2
<1>2. Max(S) \in S /\ \A y \in S : y <= Max(S)
  BY Zenon DEF Max
<1> QED
  BY <1>1, <1>2

(* The length and the elements of a concatenation. *)
LEMMA TwoParts ==
  ASSUME NEW S, NEW s \in Seq(S), NEW t \in Seq(S)
  PROVE  /\ s \o t \in Seq(S) /\ Len(s \o t) = Len(s) + Len(t)
         /\ \A i \in 1..Len(s) : (s \o t)[i] = s[i]
         /\ \A i \in 1..Len(t) : (s \o t)[Len(s) + i] = t[i]
<1>1. /\ s \o t \in Seq(S) /\ Len(s \o t) = Len(s) + Len(t)
      /\ \A i \in 1..Len(s) + Len(t) : (s \o t)[i] = IF i <= Len(s) THEN s[i] ELSE t[i - Len(s)]
  OBVIOUS
<1>2. Len(s) \in Nat /\ Len(t) \in Nat
  OBVIOUS
<1>3. ASSUME NEW i \in 1..Len(s) PROVE (s \o t)[i] = s[i]
  BY <1>1, <1>2
<1>4. ASSUME NEW i \in 1..Len(t) PROVE (s \o t)[Len(s) + i] = t[i]
  <2> DEFINE j == Len(s) + i
  <2>1. j \in 1..Len(s) + Len(t) /\ ~(j <= Len(s)) /\ j - Len(s) = i
    BY <1>2
  <2> HIDE DEF j
  <2> QED
    BY <1>1, <2>1
<1> QED
  BY <1>1, <1>3, <1>4

(* A sequence, an element and a sequence, one after the other. *)
LEMMA ThreeParts ==
  ASSUME NEW S, NEW s \in Seq(S), NEW e \in S, NEW t \in Seq(S)
  PROVE  /\ s \o <<e>> \o t \in Seq(S)
         /\ Len(s \o <<e>> \o t) = Len(s) + 1 + Len(t)
         /\ \A i \in 1..Len(s) : (s \o <<e>> \o t)[i] = s[i]
         /\ (s \o <<e>> \o t)[Len(s) + 1] = e
         /\ \A i \in 1..Len(t) : (s \o <<e>> \o t)[Len(s) + 1 + i] = t[i]
<1> DEFINE w == s \o <<e>>
<1>1. w \in Seq(S) /\ Len(w) = Len(s) + 1 /\ w[Len(s) + 1] = e /\ \A i \in 1..Len(s) : w[i] = s[i]
  OBVIOUS
<1> HIDE DEF w
<1>2. /\ w \o t \in Seq(S) /\ Len(w \o t) = Len(w) + Len(t)
      /\ \A i \in 1..Len(w) + Len(t) : (w \o t)[i] = IF i <= Len(w) THEN w[i] ELSE t[i - Len(w)]
  BY <1>1, SMTT(60)
<1>3. Len(w) \in Nat /\ Len(s) \in Nat /\ Len(t) \in Nat
  BY <1>1
<1>4. ASSUME NEW i \in 1..Len(w) PROVE (w \o t)[i] = w[i]
  BY <1>2, <1>3
<1>5. ASSUME NEW i \in 1..Len(t) PROVE (w \o t)[Len(s) + 1 + i] = t[i]
  <2> DEFINE j == Len(w) + i
  <2>1. j \in 1..Len(w) + Len(t) /\ ~(j <= Len(w)) /\ j - Len(w) = i /\ Len(s) + 1 + i = j
    BY <1>1, <1>3
  <2> HIDE DEF j
  <2> QED
    BY <1>2, <2>1
<1>6. \A i \in 1..Len(s) + 1 : i \in 1..Len(w)
  BY <1>1
<1>7. /\ \A i \in 1..Len(s) : (w \o t)[i] = s[i]
      /\ (w \o t)[Len(s) + 1] = e
  BY <1>1, <1>3, <1>4, <1>6
<1> QED
  BY <1>1, <1>2, <1>5, <1>7 DEF w

(* A sequence without its last element. *)
LEMMA FrontIs ==
  ASSUME NEW S, NEW s \in Seq(S), Len(s) >= 1
  PROVE  /\ Front(s) \in Seq(S) /\ Len(Front(s)) = Len(s) - 1
         /\ \A j \in 1..Len(s) - 1 : Front(s)[j] = s[j]
<1> DEFINE b == Len(s) - 1
<1>1. b \in Nat /\ b <= Len(s) /\ 1 \in 1..Len(s) + 1
  OBVIOUS
<1>2. Front(s) = SubSeq(s, 1, b)
  BY DEF Front
<1> HIDE DEF b
<1>3. /\ SubSeq(s, 1, b) \in Seq(S)
      /\ Len(SubSeq(s, 1, b)) = b
      /\ \A i \in 1..b : SubSeq(s, 1, b)[i] = s[i]
  BY <1>1
<1> QED
  BY <1>2, <1>3 DEF b

-----------------------------------------------------------------------------
(* FlattenSeq, by induction over the sequences that it concatenates *)

(* Induction: a set of numbers with 0 and with the successor of each of    *)
(* its numbers has all of them.                                            *)
LEMMA SetInduction ==
  ASSUME NEW P \in SUBSET Nat, 0 \in P, \A n \in P : n + 1 \in P
  PROVE  \A n \in Nat : n \in P
<1> DEFINE others == Nat \ P
<1> SUFFICES ASSUME others # {} PROVE FALSE
  OBVIOUS
<1>1. Min(others) \in others /\ \A n \in others : Min(others) <= n
  <2>1. others \in SUBSET Nat
    OBVIOUS
  <2> HIDE DEF others
  <2> QED
    BY <2>1, LeastElement
<1>2. Min(others) - 1 \in Nat /\ Min(others) - 1 \notin others
  BY <1>1
<1>3. Min(others) - 1 + 1 \in P
  BY <1>2
<1> QED
  BY <1>1, <1>3

(* What FlattenSeq takes the last value of. *)
Flattens(ss, f) == f = [i \in 1..Len(ss) |-> IF i = 1 THEN ss[i] ELSE f[i - 1] \o ss[i]]

(* The sequences ss have such a function. *)
LEMMA FlattensExists ==
  ASSUME NEW S, NEW ss \in Seq(Seq(S))
  PROVE  \E f : Flattens(ss, f)
<1> DEFINE G(n, f) == f = [i \in 1..n |-> IF i = 1 THEN ss[i] ELSE f[i - 1] \o ss[i]]
           P == {n \in Nat : \E f : G(n, f)}
<1>1. 0 \in P
  <2>1. G(0, [i \in 1..0 |-> <<>>])
    <3>1. 1..0 = {}
      OBVIOUS
    <3> QED
      BY <3>1
  <2> QED
    BY <2>1
<1>2. ASSUME NEW n \in P PROVE n + 1 \in P
  <2>1. n \in Nat /\ n + 1 \in Nat
    OBVIOUS
  <2>2. PICK f : G(n, f)
    OBVIOUS
  <2> DEFINE g == [i \in 1..n + 1 |->
                    IF i = n + 1 THEN (IF i = 1 THEN ss[i] ELSE f[i - 1] \o ss[i]) ELSE f[i]]
  <2>3. \A i \in 1..n : g[i] = f[i]
    BY <2>1
  <2>4. ASSUME NEW i \in 1..n + 1
        PROVE  g[i] = IF i = 1 THEN ss[i] ELSE g[i - 1] \o ss[i]
    <3>1. CASE i = n + 1
      <4>1. i # 1 => i - 1 \in 1..n
        BY <2>1, <3>1
      <4> QED
        BY <2>3, <3>1, <4>1
    <3>2. CASE i # n + 1
      <4>1. i \in 1..n /\ (i # 1 => i - 1 \in 1..n)
        BY <2>1, <3>2
      <4>2. f[i] = IF i = 1 THEN ss[i] ELSE f[i - 1] \o ss[i]
        BY <2>2, <4>1
      <4> HIDE DEF g
      <4> QED
        BY <2>3, <4>1, <4>2
    <3> QED
      BY <3>1, <3>2
  <2>5. g = [i \in 1..n + 1 |-> g[i]]
    OBVIOUS
  <2>6. G(n + 1, g)
    <3> HIDE DEF g
    <3> QED
      BY <2>4, <2>5
  <2> QED
    BY <2>1, <2>6
<1>3. \A n \in Nat : n \in P
  <2>1. P \in SUBSET Nat
    OBVIOUS
  <2> HIDE DEF P
  <2> QED
    BY <1>1, <1>2, <2>1, SetInduction
<1>4. Len(ss) \in Nat
  OBVIOUS
<1> QED
  BY <1>3, <1>4 DEF Flattens

(* FlattenSeq takes the last value of one. *)
LEMMA FlattenSeqIs ==
  ASSUME NEW S, NEW ss \in Seq(Seq(S))
  PROVE  /\ Len(ss) = 0 => FlattenSeq(ss) = <<>>
         /\ Len(ss) # 0 => \E f : Flattens(ss, f) /\ FlattenSeq(ss) = f[Len(ss)]
<1>1. Len(ss) = 0 => FlattenSeq(ss) = <<>>
  BY DEF FlattenSeq
<1>2. ASSUME Len(ss) # 0 PROVE \E f : Flattens(ss, f) /\ FlattenSeq(ss) = f[Len(ss)]
  <2> DEFINE f == CHOOSE f : Flattens(ss, f)
  <2>1. Flattens(ss, f)
    BY FlattensExists
  <2>2. FlattenSeq(ss) = f[Len(ss)]
    BY <1>2, Zenon DEF FlattenSeq, Flattens
  <2> QED
    BY <2>1, <2>2
<1> QED
  BY <1>1, <1>2

(* The sequence tt begins with ss. *)
Begins(ss, tt) == Len(ss) <= Len(tt) /\ \A i \in 1..Len(ss) : tt[i] = ss[i]

(* The values have the type of sequences, and the first ones do not depend *)
(* on what comes after.                                                    *)
LEMMA FlattensValues ==
  ASSUME NEW S, NEW ss \in Seq(Seq(S)), NEW tt \in Seq(Seq(S)), NEW f, NEW g,
         Flattens(ss, f), Flattens(tt, g), Begins(ss, tt), NEW n \in 1..Len(ss)
  PROVE  f[n] \in Seq(S) /\ g[n] = f[n]
<1> DEFINE P == {m \in Nat : m + 1 \in 1..Len(ss) => f[m + 1] \in Seq(S) /\ g[m + 1] = f[m + 1]}
<1>0. /\ \A i \in 1..Len(ss) : f[i] = IF i = 1 THEN ss[i] ELSE f[i - 1] \o ss[i]
      /\ \A i \in 1..Len(tt) : g[i] = IF i = 1 THEN tt[i] ELSE g[i - 1] \o tt[i]
  BY Zenon DEF Flattens
<1>1. 0 \in P
  <2>1. ASSUME 1 \in 1..Len(ss) PROVE f[1] \in Seq(S) /\ g[1] = f[1]
    <3>1. 1 \in 1..Len(tt)
      BY <2>1 DEF Begins
    <3>2. f[1] = ss[1] /\ g[1] = tt[1]
      BY <1>0, <2>1, <3>1, Zenon
    <3>3. ss[1] \in Seq(S) /\ tt[1] = ss[1]
      BY <2>1 DEF Begins
    <3> QED
      BY <3>2, <3>3
  <2> QED
    BY <2>1
<1>2. ASSUME NEW m \in P PROVE m + 1 \in P
  <2>1. m \in Nat /\ m + 1 \in Nat
    OBVIOUS
  <2>2. ASSUME m + 2 \in 1..Len(ss) PROVE f[m + 2] \in Seq(S) /\ g[m + 2] = f[m + 2]
    <3>1. m + 2 # 1 /\ m + 2 - 1 = m + 1 /\ m + 1 \in 1..Len(ss) /\ m + 2 \in 1..Len(tt)
      BY <2>1, <2>2 DEF Begins
    <3> DEFINE k == m + 2
               j == m + 1
    <3>2. f[k] = f[j] \o ss[k] /\ g[k] = g[j] \o ss[k]
      <4>1. k \in 1..Len(ss) /\ k \in 1..Len(tt) /\ k # 1 /\ k - 1 = j
        BY <2>2, <3>1
      <4> HIDE DEF k, j
      <4>2. tt[k] = ss[k]
        BY <4>1 DEF Begins
      <4>3. f[k] = f[k - 1] \o ss[k] /\ g[k] = g[k - 1] \o tt[k]
        BY <1>0, <4>1, Zenon
      <4> QED
        BY <4>1, <4>2, <4>3, Zenon
    <3>3. f[m + 1] \in Seq(S) /\ g[m + 1] = f[m + 1] /\ ss[m + 2] \in Seq(S)
      BY <2>2, <3>1
    <3> QED
      BY <3>2, <3>3
  <2> QED
    BY <2>1, <2>2
<1>3. \A m \in Nat : m \in P
  <2>1. P \in SUBSET Nat
    OBVIOUS
  <2> HIDE DEF P
  <2> QED
    BY <1>1, <1>2, <2>1, SetInduction
<1>4. n - 1 \in Nat /\ n - 1 + 1 = n
  OBVIOUS
<1> QED
  BY <1>3, <1>4

(* Flattening appends the elements one after the other. *)
LEMMA FlattenType ==
  ASSUME NEW S, NEW ss \in Seq(Seq(S))
  PROVE  FlattenSeq(ss) \in Seq(S)
<1>1. CASE Len(ss) = 0
  BY <1>1, FlattenSeqIs, EmptySeq
<1>2. CASE Len(ss) # 0
  <2>1. PICK f : Flattens(ss, f) /\ FlattenSeq(ss) = f[Len(ss)]
    BY <1>2, FlattenSeqIs
  <2>2. Len(ss) \in 1..Len(ss)
    BY <1>2
  <2>3. \A n \in 1..Len(ss) : f[n] \in Seq(S)
    <3>1. Begins(ss, ss)
      BY DEF Begins
    <3>2. TAKE n \in 1..Len(ss)
    <3> QED
      BY <2>1, <3>1, FlattensValues
  <2> QED
    BY <2>1, <2>2, <2>3
<1> QED
  BY <1>1, <1>2

(* A sequence that is appended comes last in the flattened one. *)
LEMMA FlattenAppend ==
  ASSUME NEW S, NEW ss \in Seq(Seq(S)), NEW s \in Seq(S)
  PROVE  FlattenSeq(Append(ss, s)) = FlattenSeq(ss) \o s
<1>0. PICK tt : tt = Append(ss, s)
  OBVIOUS
<1>1. /\ tt \in Seq(Seq(S)) /\ Len(tt) = Len(ss) + 1 /\ Len(ss) \in Nat
      /\ tt[Len(ss) + 1] = s /\ \A i \in 1..Len(ss) : tt[i] = ss[i]
  BY <1>0, AppendProperties
<1>2. PICK g : Flattens(tt, g) /\ FlattenSeq(tt) = g[Len(tt)]
  BY <1>1, FlattenSeqIs
<1>3. g[Len(tt)] = IF Len(tt) = 1 THEN s ELSE g[Len(ss)] \o s
  <2>1. Len(tt) \in 1..Len(tt) /\ Len(tt) - 1 = Len(ss)
    BY <1>1
  <2>2. \A i \in 1..Len(tt) : g[i] = IF i = 1 THEN tt[i] ELSE g[i - 1] \o tt[i]
    BY <1>2, Zenon DEF Flattens
  <2> QED
    BY <1>1, <2>1, <2>2
<1>4. CASE Len(ss) = 0
  <2>1. FlattenSeq(ss) = <<>> /\ FlattenSeq(tt) = s
    <3>1. FlattenSeq(ss) = <<>>
      BY <1>4, FlattenSeqIs
    <3>2. FlattenSeq(tt) = s
      BY <1>1, <1>2, <1>3, <1>4
    <3> QED
      BY <3>1, <3>2
  <2>2. <<>> \o s = s
    BY ConcatEmptySeq
  <2> QED
    BY <1>0, <2>1, <2>2
<1>5. CASE Len(ss) # 0
  <2>1. PICK f : Flattens(ss, f) /\ FlattenSeq(ss) = f[Len(ss)]
    BY <1>5, FlattenSeqIs
  <2>2. g[Len(ss)] = f[Len(ss)]
    <3>1. Len(ss) \in 1..Len(ss) /\ tt \in Seq(Seq(S))
      BY <1>1, <1>5
    <3>2. Begins(ss, tt)
      BY <1>1 DEF Begins
    <3>3. Flattens(ss, f) /\ Flattens(tt, g)
      BY <1>2, <2>1
    <3> QED
      BY <3>1, <3>2, <3>3, FlattensValues, SMT
  <2>3. FlattenSeq(tt) = FlattenSeq(ss) \o s
    BY <1>1, <1>2, <1>3, <1>5, <2>1, <2>2
  <2> QED
    BY <1>0, <2>3
<1> QED
  BY <1>4, <1>5

(* Nothing is flattened to nothing. *)
LEMMA FlattenEmpty == FlattenSeq(<<>>) = <<>>
BY DEF FlattenSeq

(* Induction over sequences. *)
LEMMA SequenceInduction ==
  ASSUME NEW S, NEW P \in SUBSET Seq(S), <<>> \in P,
         \A s \in P : \A e \in S : Append(s, e) \in P
  PROVE  \A s \in Seq(S) : s \in P
<1> DEFINE N == {n \in Nat : \A s \in Seq(S) : Len(s) = n => s \in P}
<1>1. 0 \in N
  <2>1. \A s \in Seq(S) : Len(s) = 0 => s = <<>>
    BY EmptySeq
  <2> QED
    BY <2>1
<1>2. ASSUME NEW n \in N PROVE n + 1 \in N
  <2>1. n \in Nat /\ n + 1 \in Nat
    OBVIOUS
  <2>2. ASSUME NEW s \in Seq(S), Len(s) = n + 1 PROVE s \in P
    <3>1. s # <<>>
      BY <2>1, <2>2, EmptySeq
    <3>2. PICK t \in Seq(S), e \in S : s = Append(t, e)
      BY <3>1, SequenceEmptyOrAppend
    <3>3. Len(t) = n
      BY <2>1, <2>2, <3>2
    <3> QED
      BY <3>2, <3>3
  <2> QED
    BY <2>1, <2>2
<1>3. \A n \in Nat : n \in N
  <2>1. N \in SUBSET Nat
    OBVIOUS
  <2> HIDE DEF N
  <2> QED
    BY <1>1, <1>2, <2>1, SetInduction
<1> QED
  <2>1. TAKE s \in Seq(S)
  <2>2. Len(s) \in Nat
    OBVIOUS
  <2> QED
    BY <1>3, <2>2

(* One sequence is flattened to itself. *)
LEMMA FlattenOne ==
  ASSUME NEW S, NEW s \in Seq(S)
  PROVE  FlattenSeq(<<s>>) = s
<1>1. <<>> \in Seq(Seq(S)) /\ Append(<<>>, s) = <<s>>
  OBVIOUS
<1>2. FlattenSeq(<<s>>) = <<>> \o s
  BY <1>1, FlattenAppend, FlattenEmpty
<1> QED
  BY <1>2, ConcatEmptySeq

(* Three sequences one after the other, however they are grouped. *)
LEMMA Regrouped ==
  ASSUME NEW S, NEW a \in Seq(S), NEW b \in Seq(S), NEW c \in Seq(S)
  PROVE  (a \o b) \o c = a \o (b \o c)
BY ConcatAssociative

(* Flattening goes over the parts of a concatenation. *)
LEMMA FlattenConcat ==
  ASSUME NEW S, NEW ss \in Seq(Seq(S)), NEW tt \in Seq(Seq(S))
  PROVE  FlattenSeq(ss \o tt) = FlattenSeq(ss) \o FlattenSeq(tt)
<1> DEFINE P == {uu \in Seq(Seq(S)) : FlattenSeq(ss \o uu) = FlattenSeq(ss) \o FlattenSeq(uu)}
<1>1. <<>> \in P
  <2>1. ss \o <<>> = ss /\ <<>> \in Seq(Seq(S))
    BY ConcatEmptySeq
  <2>2. FlattenSeq(ss) \o <<>> = FlattenSeq(ss)
    BY FlattenType, ConcatEmptySeq
  <2> QED
    BY <2>1, <2>2, FlattenEmpty
<1>2. ASSUME NEW uu \in P, NEW e \in Seq(S) PROVE Append(uu, e) \in P
  <2>1. uu \in Seq(Seq(S)) /\ ss \o uu \in Seq(Seq(S))
    <3>1. uu \in Seq(Seq(S))
      OBVIOUS
    <3> HIDE DEF P
    <3> QED
      BY <3>1
  <2>2. ss \o Append(uu, e) = Append(ss \o uu, e)
    <3>1. <<e>> \in Seq(Seq(S))
      OBVIOUS
    <3>2. Append(uu, e) = uu \o <<e>> /\ Append(ss \o uu, e) = (ss \o uu) \o <<e>>
      BY <2>1, AppendIsConcat
    <3>3. (ss \o uu) \o <<e>> = ss \o (uu \o <<e>>)
      <4> DEFINE T == Seq(S)
      <4>1. ss \in Seq(T) /\ uu \in Seq(T) /\ <<e>> \in Seq(T)
        BY <3>1
      <4> HIDE DEF T
      <4> QED
        BY <4>1, ConcatAssociative, SMTT(60)
    <3> QED
      BY <3>2, <3>3
  <2>3. FlattenSeq(Append(ss \o uu, e)) = FlattenSeq(ss \o uu) \o e
    <3> HIDE DEF P
    <3> QED
      BY <2>1, FlattenAppend
  <2>4. FlattenSeq(Append(uu, e)) = FlattenSeq(uu) \o e
    <3> HIDE DEF P
    <3> QED
      BY <2>1, FlattenAppend
  <2>5. (FlattenSeq(ss) \o FlattenSeq(uu)) \o e = FlattenSeq(ss) \o (FlattenSeq(uu) \o e)
    <3> DEFINE a == FlattenSeq(ss)
               b == FlattenSeq(uu)
    <3>1. a \in Seq(S) /\ b \in Seq(S) /\ e \in Seq(S)
      BY <2>1, FlattenType
    <3> HIDE DEF a, b, P
    <3>2. (a \o b) \o e = a \o (b \o e)
      BY <3>1, Regrouped, SMTT(60)
    <3> QED
      BY <3>2 DEF a, b
  <2>6. Append(uu, e) \in Seq(Seq(S))
    <3> HIDE DEF P
    <3> QED
      BY <2>1
  <2>7. FlattenSeq(ss \o uu) = FlattenSeq(ss) \o FlattenSeq(uu)
    OBVIOUS
  <2> QED
    BY <2>2, <2>3, <2>4, <2>5, <2>6, <2>7
<1>3. \A uu \in Seq(Seq(S)) : uu \in P
  <2>1. P \in SUBSET Seq(Seq(S))
    OBVIOUS
  <2> HIDE DEF P
  <2> QED
    BY <1>1, <1>2, <2>1, SequenceInduction
<1> QED
  BY <1>3

-----------------------------------------------------------------------------
(* Where the k-th sequence of ss begins in FlattenSeq(ss): after this many. *)
LengthBefore(ss, k) == Len(FlattenSeq(SubSeq(ss, 1, k - 1)))

(* The place and the elements of the k-th sequence in the flattened one. *)
LEMMA FlattenAt ==
  ASSUME NEW S, NEW ss \in Seq(Seq(S)), NEW k \in 1..Len(ss)
  PROVE  /\ LengthBefore(ss, k) \in Nat /\ LengthBefore(ss, 1) = 0
         /\ LengthBefore(ss, k) + Len(ss[k]) <= Len(FlattenSeq(ss))
         /\ \A j \in 1..Len(ss[k]) : FlattenSeq(ss)[LengthBefore(ss, k) + j] = ss[k][j]
         /\ LengthBefore(ss, k + 1) = LengthBefore(ss, k) + Len(ss[k])
         /\ k = Len(ss) => Len(FlattenSeq(ss)) = LengthBefore(ss, k) + Len(ss[k])
         /\ \A l \in k + 1..Len(ss) : LengthBefore(ss, k) + Len(ss[k]) <= LengthBefore(ss, l)
<1> DEFINE pre == SubSeq(ss, 1, k - 1)
           now == SubSeq(ss, 1, k)
           post == SubSeq(ss, k + 1, Len(ss))
           Fp == FlattenSeq(pre)
           Fo == FlattenSeq(post)
<1>1. pre \in Seq(Seq(S)) /\ now \in Seq(Seq(S)) /\ post \in Seq(Seq(S)) /\ ss[k] \in Seq(S)
  OBVIOUS
<1>2. now = Append(pre, ss[k])
  <2>1. SubSeq(ss, 1, k) = SubSeq(ss, 1, k - 1) \o <<ss[k]>>
    <3>1. 1 \in 1..Len(ss) /\ k \in 1..Len(ss)
      OBVIOUS
    <3> QED
      BY <3>1, SubSeqRecursiveSecond
  <2> QED
    BY <1>1, <2>1, AppendIsConcat
<1>3. ss = now \o post
  <2>1. 1 \in 1..Len(ss) + 1 /\ k \in 1 - 1..Len(ss) /\ Len(ss) \in k..Len(ss)
    OBVIOUS
  <2>2. SubSeq(ss, 1, k) \o SubSeq(ss, k + 1, Len(ss)) = SubSeq(ss, 1, Len(ss))
    BY <2>1, ConcatAdjacentSubSeq
  <2> QED
    BY <2>2, SubSeqFull
<1>4. Fp \in Seq(S) /\ Fo \in Seq(S)
  BY <1>1, FlattenType
<1>5. FlattenSeq(now) = Fp \o ss[k]
  BY <1>1, <1>2, FlattenAppend
<1>6. FlattenSeq(ss) = (Fp \o ss[k]) \o Fo
  <2> HIDE DEF now, post, pre
  <2> QED
    BY <1>1, <1>3, <1>5, FlattenConcat
<1>7. LengthBefore(ss, k) = Len(Fp) /\ Len(Fp) \in Nat
  BY <1>4 DEF LengthBefore
<1>8. LengthBefore(ss, k + 1) = Len(Fp) + Len(ss[k])
  <2>1. k + 1 - 1 = k
    OBVIOUS
  <2>2. LengthBefore(ss, k + 1) = Len(FlattenSeq(now))
    BY <2>1 DEF LengthBefore
  <2>3. Len(Fp \o ss[k]) = Len(Fp) + Len(ss[k])
    BY <1>1, <1>4
  <2> QED
    BY <1>5, <2>2, <2>3
<1>9. LengthBefore(ss, 1) = 0
  <2>1. SubSeq(ss, 1, 1 - 1) = <<>>
    BY SubSeqEmpty
  <2>2. LengthBefore(ss, 1) = Len(<<>>)
    BY <2>1, FlattenEmpty, Zenon DEF LengthBefore
  <2> QED
    BY <2>2
<1>10. k = Len(ss) => Len(FlattenSeq(ss)) = Len(Fp) + Len(ss[k])
  <2>1. ASSUME k = Len(ss) PROVE now = ss
    BY <2>1, SubSeqFull
  <2>2. Len(Fp \o ss[k]) = Len(Fp) + Len(ss[k])
    BY <1>1, <1>4
  <2> QED
    BY <1>5, <2>1, <2>2
<1>11. ASSUME NEW l \in k + 1..Len(ss)
       PROVE  Len(Fp) + Len(ss[k]) <= LengthBefore(ss, l)
  <2> DEFINE mid == SubSeq(ss, k + 1, l - 1)
             Fm == FlattenSeq(mid)
  <2>1. SubSeq(ss, 1, k) \o SubSeq(ss, k + 1, l - 1) = SubSeq(ss, 1, l - 1)
    <3>1. 1 \in 1..Len(ss) + 1 /\ k \in 1 - 1..Len(ss) /\ l - 1 \in k..Len(ss)
      OBVIOUS
    <3> QED
      BY <3>1, ConcatAdjacentSubSeq
  <2>2. mid \in Seq(Seq(S))
    <3>1. \A i \in k + 1..l - 1 : ss[i] \in Seq(S)
      OBVIOUS
    <3> QED
      BY <3>1, SubSeqProperties
  <2>3. Fm \in Seq(S)
    BY <2>2, FlattenType
  <2>4. LengthBefore(ss, l) = Len((Fp \o ss[k]) \o Fm)
    <3> HIDE DEF mid, now, pre
    <3>1. FlattenSeq(now \o mid) = FlattenSeq(now) \o Fm
      BY <1>1, <2>2, FlattenConcat
    <3>2. LengthBefore(ss, l) = Len(FlattenSeq(now \o mid))
      BY <2>1 DEF LengthBefore, now, mid
    <3> QED
      BY <1>5, <3>1, <3>2
  <2> HIDE DEF Fm, Fp, mid
  <2>5. Fp \o ss[k] \in Seq(S) /\ Len(Fp \o ss[k]) = Len(Fp) + Len(ss[k])
    BY <1>1, <1>4
  <2>6. Len((Fp \o ss[k]) \o Fm) = Len(Fp \o ss[k]) + Len(Fm) /\ Len(Fm) \in Nat
    BY <2>3, <2>5
  <2> QED
    BY <1>1, <1>7, <2>4, <2>5, <2>6
<1> HIDE DEF Fp, Fo
<1>12. Fp \o ss[k] \in Seq(S) /\ Len(Fp \o ss[k]) = Len(Fp) + Len(ss[k])
  BY <1>1, <1>4
<1>13. Len(Fp) + Len(ss[k]) <= Len(FlattenSeq(ss))
  BY <1>1, <1>4, <1>6, <1>7, <1>12
<1>14. ASSUME NEW j \in 1..Len(ss[k]) PROVE FlattenSeq(ss)[Len(Fp) + j] = ss[k][j]
  <2> DEFINE i == Len(Fp) + j
  <2>1. i \in 1..Len(Fp) + Len(ss[k]) /\ ~(i <= Len(Fp)) /\ i - Len(Fp) = j
    BY <1>1, <1>7
  <2>2. FlattenSeq(ss)[i] = (Fp \o ss[k])[i]
    <3>1. i \in 1..Len(Fp \o ss[k])
      BY <1>12, <2>1
    <3> HIDE DEF i
    <3> QED
      BY <1>4, <1>6, <1>12, <3>1, ConcatProperties
  <2>3. (Fp \o ss[k])[i] = ss[k][j]
    <3> HIDE DEF i
    <3> QED
      BY <1>1, <1>4, <2>1, ConcatProperties
  <2> QED
    BY <2>2, <2>3
<1> QED
  BY <1>7, <1>8, <1>9, <1>10, <1>11, <1>13, <1>14

(* Every place of FlattenSeq(ss) is a place of one of the sequences. *)
LEMMA FlattenFrom ==
  ASSUME NEW S, NEW ss \in Seq(Seq(S)), NEW i \in 1..Len(FlattenSeq(ss))
  PROVE  \E k \in 1..Len(ss) : \E j \in 1..Len(ss[k]) : i = LengthBefore(ss, k) + j
<1> DEFINE K == {k \in 1..Len(ss) : LengthBefore(ss, k) < i}
<1>0. Len(ss) \in Nat /\ i \in Nat /\ i > 0
  <2>1. Len(FlattenSeq(ss)) \in Nat
    BY FlattenType
  <2> QED
    BY <2>1
<1>1. 1 \in K
  <2>1. Len(ss) # 0
    <3> SUFFICES ASSUME Len(ss) = 0 PROVE FALSE
      OBVIOUS
    <3>1. FlattenSeq(ss) = <<>>
      BY FlattenSeqIs
    <3> QED
      BY <3>1
  <2>2. 1 \in 1..Len(ss)
    BY <1>0, <2>1
  <2>3. LengthBefore(ss, 1) = 0
    BY <2>2, FlattenAt
  <2> QED
    BY <1>0, <2>2, <2>3
<1> DEFINE k == Max(K)
<1>2. k \in K /\ \A l \in K : l <= k
  <2>1. K \in SUBSET (0..Len(ss))
    <3>1. \A l \in K : l \in 0..Len(ss)
      BY <1>0
    <3> QED
      BY <3>1
  <2>2. K # {}
    BY <1>1
  <2> HIDE DEF K
  <2> QED
    BY <1>0, <2>1, <2>2, GreatestElement
<1> HIDE DEF k
<1>3. k \in 1..Len(ss) /\ LengthBefore(ss, k) < i
  BY <1>2
<1>4. i <= LengthBefore(ss, k) + Len(ss[k])
  <2>1. CASE k = Len(ss)
    <3>1. Len(FlattenSeq(ss)) = LengthBefore(ss, k) + Len(ss[k])
      BY <1>3, <2>1, FlattenAt
    <3> QED
      BY <3>1
  <2>2. CASE k # Len(ss)
    <3>1. k + 1 \in 1..Len(ss) /\ ~(k + 1 <= k)
      BY <1>0, <1>3, <2>2
    <3>2. ~(LengthBefore(ss, k + 1) < i)
      BY <1>2, <3>1
    <3>3. LengthBefore(ss, k + 1) = LengthBefore(ss, k) + Len(ss[k]) /\ LengthBefore(ss, k + 1) \in Nat
      BY <1>3, <3>1, FlattenAt
    <3> QED
      BY <1>0, <3>2, <3>3
  <2> QED
    BY <2>1, <2>2
<1>5. LengthBefore(ss, k) \in Nat /\ ss[k] \in Seq(S)
  BY <1>3, FlattenAt
<1>6. i - LengthBefore(ss, k) \in 1..Len(ss[k]) /\ i = LengthBefore(ss, k) + (i - LengthBefore(ss, k))
  BY <1>0, <1>3, <1>4, <1>5
<1> QED
  BY <1>3, <1>6
=============================================================================
