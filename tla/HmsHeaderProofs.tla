------------------------- MODULE HmsHeaderProofs --------------------------
(***************************************************************************)
(* What hms_msg_print_header writes of a message is what the parser reads  *)
(* back, for every message, although reading searches the text for its     *)
(* end, its lines and its words by single characters only.                 *)
(***************************************************************************)
EXTENDS HmsHeader, SeqLemmas, FiniteSetTheorems

(* An ascending sequence of numbers is the enumeration of its range. *)
LEMMA AscendingIs ==
  ASSUME NEW n \in Nat, NEW P \in [1..n -> Nat],
         \A i, j \in 1..n : i < j => P[i] < P[j],
         NEW S, S = {P[i] : i \in 1..n}
  PROVE  Ascending(S) = P
<1> DEFINE First(k) == {P[i] : i \in 1..k}
           C == {k \in Nat : k <= n => IsFiniteSet(First(k)) /\ Cardinality(First(k)) = k}
<1>1. 0 \in C
  <2>1. First(0) = {}
    OBVIOUS
  <2> QED
    BY <2>1, FS_EmptySet
<1>2. ASSUME NEW k \in C PROVE k + 1 \in C
  <2>1. k \in Nat /\ k + 1 \in Nat
    OBVIOUS
  <2>2. ASSUME k + 1 <= n PROVE IsFiniteSet(First(k + 1)) /\ Cardinality(First(k + 1)) = k + 1
    <3>1. First(k + 1) = First(k) \cup {P[k + 1]}
      <4>1. 1..k + 1 = (1..k) \cup {k + 1}
        BY <2>1
      <4> QED
        BY <4>1
    <3>2. P[k + 1] \notin First(k)
      <4>1. ASSUME NEW i \in 1..k PROVE P[i] # P[k + 1]
        <5>1. i \in 1..n /\ k + 1 \in 1..n /\ i < k + 1
          BY <2>1, <2>2
        <5>2. P[i] < P[k + 1] /\ P[i] \in Nat /\ P[k + 1] \in Nat
          BY <5>1
        <5> QED
          BY <5>2
      <4> QED
        BY <4>1
    <3>3. IsFiniteSet(First(k)) /\ Cardinality(First(k)) = k
      BY <2>1, <2>2
    <3> DEFINE A == First(k)
               x == P[k + 1]
    <3>4. IsFiniteSet(A) /\ Cardinality(A) = k /\ x \notin A
      BY <3>2, <3>3
    <3> HIDE DEF A, x
    <3>5. IsFiniteSet(A \cup {x}) /\ Cardinality(A \cup {x}) = k + 1
      BY <3>4, FS_AddElement
    <3> QED
      BY <3>1, <3>5 DEF A, x
  <2> QED
    BY <2>1, <2>2
<1>3. \A k \in Nat : k \in C
  <2>1. C \in SUBSET Nat
    OBVIOUS
  <2> HIDE DEF C
  <2> QED
    BY <1>1, <1>2, <2>1, SetInduction
<1>4. Cardinality(S) = n
  <2>1. n \in C
    BY <1>3
  <2> QED
    BY <2>1
<1>5. ASSUME NEW k \in 1..n PROVE Cardinality({j \in S : j < P[k]}) = k - 1
  <2>1. {j \in S : j < P[k]} = First(k - 1)
    <3>1. ASSUME NEW i \in 1..n PROVE P[i] < P[k] <=> i \in 1..k - 1
      <4>1. P[i] \in Nat /\ P[k] \in Nat
        OBVIOUS
      <4>2. i < k => P[i] < P[k]
        OBVIOUS
      <4>3. i > k => P[k] < P[i]
        OBVIOUS
      <4> QED
        BY <4>1, <4>2, <4>3
    <3>2. 1..k - 1 \subseteq 1..n
      OBVIOUS
    <3> QED
      BY <3>1, <3>2
  <2>2. k - 1 \in Nat /\ k - 1 <= n
    OBVIOUS
  <2>3. k - 1 \in C
    BY <1>3, <2>2
  <2> QED
    BY <2>1, <2>2, <2>3
<1>6. ASSUME NEW k \in 1..n
      PROVE  (CHOOSE i \in S : Cardinality({j \in S : j < i}) = k - 1) = P[k]
  <2>1. P[k] \in S
    OBVIOUS
  <2>2. ASSUME NEW i \in S, Cardinality({j \in S : j < i}) = k - 1 PROVE i = P[k]
    <3>1. PICK l \in 1..n : i = P[l]
      OBVIOUS
    <3>2. l - 1 = k - 1
      BY <1>5, <2>2, <3>1
    <3>3. l = k
      BY <3>2
    <3> QED
      BY <3>1, <3>3
  <2> QED
    BY <1>5, <2>1, <2>2
<1>7. Ascending(S) = [k \in 1..n |-> P[k]]
  BY <1>4, <1>6 DEF Ascending
<1> QED
  BY <1>7

-----------------------------------------------------------------------------
(* The text of a header, without the period and the newline at its end. *)

(* The parts of a header: un-named headers, named headers, first line,     *)
(* text.                                                                   *)
Spaced(m) == [i \in DOMAIN m.headers |-> <<space>> \o m.headers[i]]
Printed(m) == [i \in DOMAIN m.named_headers |-> PrintNamed(m.named_headers[i])]
VerbLine(m) == m.verb \o FlattenSeq(Spaced(m))
TextOf(m) == VerbLine(m) \o <<newline>> \o FlattenSeq(Printed(m))

(* How much of the text comes before its k-th named header. *)
Off(m, k) == Len(VerbLine(m)) + 1 + LengthBefore(Printed(m), k)

(* The tokens with a meaning in a header are different ones. *)
LEMMA TokensDiffer ==
  /\ {dot, newline, space, return, keyval} \subseteq Tokens
  /\ dot # newline /\ dot # space /\ newline # space
  /\ keyval \notin {dot, newline, space, return}
  /\ keyval.text = "key:val" /\ space.text = " " /\ newline.text = "\n"
  /\ \A n : Length(n) \notin {dot, newline, space, return, keyval}
  /\ \A n : Length(n).text = "Content-Length:n" /\ Length(n).n = n
BY DEF Tokens, Token, dot, newline, space, return, keyval, Length

(* What is written has these parts. *)
LEMMA Parts ==
  ASSUME NEW m, IsMessage(m), m.verb # NULL
  PROVE  /\ m.verb \in Seq(Tokens) /\ m.body \in Seq(Tokens)
         /\ m.headers \in Seq(Seq(Tokens)) /\ m.named_headers \in Seq(Seq(Tokens))
         /\ Spaced(m) \in Seq(Seq(Tokens)) /\ Printed(m) \in Seq(Seq(Tokens))
         /\ Len(Spaced(m)) = Len(m.headers) /\ Len(Printed(m)) = Len(m.named_headers)
         /\ \A i \in 1..Len(m.headers) :
              /\ Spaced(m)[i] = <<space>> \o m.headers[i] /\ IsWord(m.headers[i])
              /\ m.headers[i] \in Seq(Tokens)
         /\ \A i \in 1..Len(m.named_headers) :
              /\ Printed(m)[i] = Append(m.named_headers[i], newline)
              /\ m.named_headers[i] \in Seq(Tokens)
         /\ VerbLine(m) \in Seq(Tokens)
         /\ FlattenSeq(Printed(m)) \in Seq(Tokens)
         /\ TextOf(m) \in Seq(Tokens)
         /\ print_header(m) = TextOf(m) \o <<dot, newline>>
<1>1. /\ m \in MessageType
      /\ \A i \in DOMAIN m.headers : IsWord(m.headers[i])
  BY DEF IsMessage
<1>2. /\ m.verb \in Seq(Tokens) /\ m.body \in Seq(Tokens)
      /\ m.headers \in Seq(Seq(Tokens)) /\ m.named_headers \in Seq(Seq(Tokens))
  BY <1>1 DEF MessageType
<1>3. space \in Tokens /\ newline \in Tokens
  BY TokensDiffer
<1>4. /\ \A i \in 1..Len(m.headers) : m.headers[i] \in Seq(Tokens) /\ IsWord(m.headers[i])
      /\ \A i \in 1..Len(m.named_headers) : m.named_headers[i] \in Seq(Tokens)
  BY <1>1, <1>2
<1>5. \A h \in Seq(Tokens) : <<space>> \o h \in Seq(Tokens) /\ Append(h, newline) \in Seq(Tokens)
  BY <1>3
<1>6. /\ Spaced(m) \in Seq(Seq(Tokens)) /\ Len(Spaced(m)) = Len(m.headers)
      /\ \A i \in 1..Len(m.headers) : Spaced(m)[i] = <<space>> \o m.headers[i]
  <2>1. Spaced(m) = [i \in 1..Len(m.headers) |-> <<space>> \o m.headers[i]]
    BY <1>2 DEF Spaced
  <2> QED
    BY <1>2, <1>4, <1>5, <2>1
<1>7. /\ Printed(m) \in Seq(Seq(Tokens)) /\ Len(Printed(m)) = Len(m.named_headers)
      /\ \A i \in 1..Len(m.named_headers) : Printed(m)[i] = Append(m.named_headers[i], newline)
  <2>1. Printed(m) = [i \in 1..Len(m.named_headers) |-> Append(m.named_headers[i], newline)]
    BY <1>2 DEF Printed, PrintNamed
  <2> QED
    BY <1>2, <1>4, <1>5, <2>1
<1>8. FlattenSeq(Spaced(m)) \in Seq(Tokens) /\ FlattenSeq(Printed(m)) \in Seq(Tokens)
  BY <1>6, <1>7, FlattenType
<1>9. VerbLine(m) \in Seq(Tokens)
  BY <1>2, <1>8 DEF VerbLine
<1>10. TextOf(m) \in Seq(Tokens)
  BY <1>3, <1>8, <1>9 DEF TextOf
<1>11. print_header(m) = TextOf(m) \o <<dot, newline>>
  BY DEF print_header, TextOf, VerbLine, Spaced, Printed
<1> QED
  BY <1>2, <1>4, <1>6, <1>7, <1>8, <1>9, <1>10, <1>11

(* The first line, and where the others begin. *)
LEMMA TextLines ==
  ASSUME NEW m, IsMessage(m), m.verb # NULL
  PROVE  LET T == TextOf(m)
             a == Len(VerbLine(m)) + 1
         IN  /\ a \in 1..Len(T) /\ Len(T) \in Nat /\ T[a] = newline
             /\ \A i \in 1..a - 1 : T[i] = VerbLine(m)[i]
             /\ Off(m, 1) = a \/ Len(m.named_headers) = 0
             /\ Len(m.named_headers) = 0 => Len(T) = a
             /\ \A k \in 1..Len(m.named_headers) :
                  LET h == m.named_headers[k]
                      o == Off(m, k)
                  IN  /\ o \in Nat /\ a <= o /\ o + Len(h) + 1 <= Len(T)
                      /\ Len(h) \in Nat
                      /\ T[o] = newline
                      /\ \A j \in 1..Len(h) : T[o + j] = h[j]
                      /\ T[o + Len(h) + 1] = newline
                      /\ \A l \in k + 1..Len(m.named_headers) : o + Len(h) + 1 <= Off(m, l)
             /\ \A i \in a + 1..Len(T) : \E k \in 1..Len(m.named_headers) :
                  \E j \in 1..Len(m.named_headers[k]) + 1 : i = Off(m, k) + j
<1> DEFINE T == TextOf(m)
           V == VerbLine(m)
           P == Printed(m)
           F == FlattenSeq(P)
           a == Len(V) + 1
           H == m.named_headers
           N == Len(H)
<1>1. /\ V \in Seq(Tokens) /\ F \in Seq(Tokens) /\ P \in Seq(Seq(Tokens)) /\ Len(P) = N
      /\ H \in Seq(Seq(Tokens))
      /\ \A k \in 1..N : P[k] = Append(H[k], newline) /\ H[k] \in Seq(Tokens)
  BY Parts
<1>2. newline \in Tokens
  BY TokensDiffer
<1>3. T = V \o <<newline>> \o F
  BY DEF TextOf
<1>4. \A k \in 1..N : Off(m, k) = a + LengthBefore(P, k)
  BY DEF Off
<1> HIDE DEF T, V, P
<1>5. /\ T \in Seq(Tokens) /\ Len(T) = a + Len(F)
      /\ \A i \in 1..Len(V) : T[i] = V[i]
      /\ T[a] = newline
      /\ \A i \in 1..Len(F) : T[a + i] = F[i]
  <2> HIDE DEF F
  <2> QED
    BY <1>1, <1>2, <1>3, ThreeParts, SMTT(60)
<1>6. a \in Nat /\ a >= 1 /\ a - 1 = Len(V) /\ N \in Nat /\ Len(F) \in Nat
  BY <1>1
<1> HIDE DEF H, a, N
<1>7. \A k \in 1..N :
        /\ P[k] \in Seq(Tokens) /\ Len(P[k]) = Len(H[k]) + 1 /\ Len(H[k]) \in Nat
        /\ P[k][Len(H[k]) + 1] = newline /\ \A j \in 1..Len(H[k]) : P[k][j] = H[k][j]
  <2>1. TAKE k \in 1..N
  <2>2. P[k] = Append(H[k], newline) /\ H[k] \in Seq(Tokens)
    BY <1>1
  <2> DEFINE h == H[k]
             p == P[k]
  <2>3. p = Append(h, newline) /\ h \in Seq(Tokens)
    BY <2>2
  <2> HIDE DEF h, p
  <2>4. p \in Seq(Tokens) /\ Len(p) = Len(h) + 1 /\ Len(h) \in Nat
        /\ p[Len(h) + 1] = newline /\ \A j \in 1..Len(h) : p[j] = h[j]
    BY <1>2, <2>3
  <2> QED
    BY <2>4 DEF h, p
<1>8. ASSUME NEW k \in 1..N
      PROVE  LET h == H[k]
                 o == Off(m, k)
             IN  /\ o \in Nat /\ a <= o /\ o + Len(h) + 1 <= Len(T)
                 /\ Len(h) \in Nat
                 /\ \A j \in 1..Len(h) : T[o + j] = h[j]
                 /\ T[o + Len(h) + 1] = newline
                 /\ \A l \in k + 1..N : o + Len(h) + 1 <= Off(m, l)
                 /\ k + 1 \in 1..N => Off(m, k + 1) = o + Len(h) + 1
  <2> DEFINE h == H[k]
             p == P[k]
             b == LengthBefore(P, k)
             o == Off(m, k)
  <2>1. /\ p \in Seq(Tokens) /\ Len(p) = Len(h) + 1 /\ Len(h) \in Nat
        /\ p[Len(h) + 1] = newline /\ \A j \in 1..Len(h) : p[j] = h[j]
    BY <1>7
  <2>2. /\ b \in Nat /\ b + Len(p) <= Len(F)
        /\ \A j \in 1..Len(p) : F[b + j] = p[j]
        /\ LengthBefore(P, k + 1) = b + Len(p)
        /\ \A l \in k + 1..Len(P) : b + Len(p) <= LengthBefore(P, l)
    <3>1. k \in 1..Len(P)
      BY <1>1
    <3> QED
      BY <1>1, <3>1, FlattenAt, SMTT(60)
  <2>3. o = a + b
    BY <1>4
  <2>4. \A l \in k + 1..N : o + Len(h) + 1 <= Off(m, l)
    <3> SUFFICES ASSUME NEW l \in k + 1..N PROVE o + Len(h) + 1 <= Off(m, l)
      OBVIOUS
    <3>1. l \in 1..Len(P) /\ l \in 1..N /\ l \in k + 1..Len(P)
      BY <1>1, <1>6
    <3>2. LengthBefore(P, l) \in Nat
      BY <1>1, <3>1, FlattenAt
    <3> DEFINE x == LengthBefore(P, l)
    <3>3. Off(m, l) = a + x /\ b + Len(p) <= x /\ x \in Nat
      BY <1>4, <2>2, <3>1, <3>2
    <3> HIDE DEF x, b, o, p, h
    <3> QED
      BY <1>6, <2>1, <2>2, <2>3, <3>3
  <2>5. k + 1 \in 1..N => Off(m, k + 1) = o + Len(h) + 1
    <3>1. k + 1 \in 1..N => Off(m, k + 1) = a + (b + Len(p))
      BY <1>4, <2>2
    <3> HIDE DEF b, o, p, h
    <3> QED
      BY <1>6, <2>1, <2>2, <2>3, <3>1
  <2> HIDE DEF b, o, p, h, F
  <2>6. o \in Nat /\ a <= o /\ o + Len(h) + 1 <= Len(T)
    BY <1>5, <1>6, <2>1, <2>2, <2>3
  <2>7. ASSUME NEW j \in 1..Len(h) + 1 PROVE T[o + j] = p[j]
    <3> DEFINE i == b + j
    <3>1. i \in 1..Len(F) /\ j \in 1..Len(p) /\ o + j = a + i
      BY <1>6, <2>1, <2>2, <2>3
    <3>2. F[i] = p[j]
      BY <2>2, <3>1
    <3> HIDE DEF i
    <3> QED
      BY <1>5, <3>1, <3>2
  <2>8. \A j \in 1..Len(h) : T[o + j] = h[j]
    BY <2>1, <2>7
  <2>9. T[o + Len(h) + 1] = newline
    <3>1. Len(h) + 1 \in 1..Len(h) + 1 /\ o + (Len(h) + 1) = o + Len(h) + 1
      BY <2>1, <2>6
    <3> QED
      BY <2>1, <2>7, <3>1
  <2> QED
    BY <2>1, <2>4, <2>5, <2>6, <2>8, <2>9 DEF o, h
<1>9. N # 0 => Off(m, 1) = a
  <2> SUFFICES ASSUME N # 0 PROVE Off(m, 1) = a
    OBVIOUS
  <2>1. 1 \in 1..N /\ 1 \in 1..Len(P)
    BY <1>1, <1>6
  <2>2. LengthBefore(P, 1) = 0
    BY <1>1, <2>1, FlattenAt
  <2> QED
    BY <1>4, <1>6, <2>1, <2>2
<1>10. ASSUME NEW k \in 1..N PROVE T[Off(m, k)] = newline
  <2>1. CASE k = 1
    BY <1>5, <1>6, <1>9, <2>1
  <2>2. CASE k # 1
    <3> DEFINE l == k - 1
    <3>1. l \in 1..N /\ l + 1 = k
      BY <1>6, <2>2
    <3> HIDE DEF l
    <3>2. Off(m, l + 1) = Off(m, l) + Len(H[l]) + 1 /\ T[Off(m, l) + Len(H[l]) + 1] = newline
      BY <1>8, <3>1
    <3> QED
      BY <3>1, <3>2
  <2> QED
    BY <2>1, <2>2
<1>11. ASSUME NEW i \in a + 1..Len(T)
       PROVE  \E k \in 1..N : \E j \in 1..Len(H[k]) + 1 : i = Off(m, k) + j
  <2>1. i - a \in 1..Len(F) /\ i = a + (i - a)
    BY <1>5, <1>6
  <2>2. PICK k \in 1..Len(P) : \E j \in 1..Len(P[k]) : i - a = LengthBefore(P, k) + j
    BY <1>1, <2>1, FlattenFrom
  <2>3. PICK j \in 1..Len(P[k]) : i - a = LengthBefore(P, k) + j
    BY <2>2
  <2>4. k \in 1..N /\ LengthBefore(P, k) \in Nat
    BY <1>1, FlattenAt
  <2>5. Len(P[k]) = Len(H[k]) + 1
    BY <1>7, <2>4
  <2>6. Off(m, k) = a + LengthBefore(P, k) /\ j \in Nat /\ i \in Int
    BY <1>4, <1>6, <2>4, <1>5
  <2>7. i = Off(m, k) + j
    <3> DEFINE x == LengthBefore(P, k)
    <3>1. i - a = x + j /\ Off(m, k) = a + x /\ x \in Nat
      BY <2>3, <2>4, <2>6
    <3> HIDE DEF x
    <3> QED
      BY <1>6, <2>6, <3>1
  <2>8. j \in 1..Len(H[k]) + 1
    BY <2>5
  <2> QED
    BY <2>4, <2>7, <2>8
<1>12. N = 0 => Len(T) = a
  <2> SUFFICES ASSUME N = 0 PROVE Len(F) = 0
    BY <1>5, <1>6
  <2>1. F = <<>>
    BY <1>1, FlattenSeqIs
  <2> QED
    BY <2>1
<1>13. a \in 1..Len(T) /\ Len(T) \in Nat /\ \A i \in 1..a - 1 : T[i] = V[i]
  BY <1>5, <1>6
<1> QED
  BY <1>5, <1>8, <1>9, <1>10, <1>11, <1>12, <1>13 DEF T, V, H, N, a

-----------------------------------------------------------------------------
(* A piece of a text, and what the parser sees there *)

(* The place of s in T, with no newline in s and one after it. *)
Holds(T, o, s) ==
  /\ o \in Nat /\ s # <<>> /\ s \in Seq(Tokens)
  /\ o + Len(s) + 1 <= Len(T)
  /\ \A j \in 1..Len(s) : T[o + j] = s[j]

(* The same, as a line: with no newline in s and one after it. *)
HoldsLine(T, o, s) ==
  /\ Holds(T, o, s)
  /\ \A j \in 1..Len(s) : s[j] # newline
  /\ T[o + Len(s) + 1] = newline

(* What T has at the places of s. *)
LEMMA HeldAt ==
  ASSUME NEW T \in Seq(Tokens), NEW o, NEW s, Holds(T, o, s)
  PROVE  /\ o \in Nat /\ Len(s) \in Nat /\ Len(s) >= 1 /\ Len(T) \in Nat
         /\ \A i \in o + 1..o + Len(s) : i - o \in 1..Len(s) /\ T[i] = s[i - o]
         /\ SubSeq(T, o + 1, o + Len(s)) = s
<1>1. o \in Nat /\ Len(s) \in Nat /\ Len(s) >= 1 /\ Len(T) \in Nat /\ o + Len(s) + 1 <= Len(T)
  BY EmptySeq DEF Holds
<1>2. ASSUME NEW i \in o + 1..o + Len(s) PROVE i - o \in 1..Len(s) /\ T[i] = s[i - o]
  <2> DEFINE j == i - o
  <2>1. j \in 1..Len(s) /\ o + j = i
    BY <1>1
  <2> HIDE DEF j
  <2>2. T[i] = s[j]
    BY <2>1 DEF Holds
  <2> QED
    BY <2>1, <2>2 DEF j
<1>3. SubSeq(T, o + 1, o + Len(s)) = s
  <2> DEFINE u == SubSeq(T, o + 1, o + Len(s))
  <2>1. \A i \in o + 1..o + Len(s) : T[i] \in Tokens
    <3>1. \A i \in o + 1..o + Len(s) : i \in 1..Len(T)
      BY <1>1
    <3> QED
      BY <3>1
  <2>2. u \in Seq(Tokens) /\ Len(u) = Len(s) /\ \A j \in 1..Len(s) : u[j] = T[o + j]
    <3>1. o + 1 \in Int /\ o + Len(s) \in Int /\ o + Len(s) - (o + 1) + 1 = Len(s)
          /\ o + 1 <= o + Len(s) /\ \A j \in 1..Len(s) : o + 1 + j - 1 = o + j
      BY <1>1
    <3> QED
      BY <1>1, <2>1, <3>1, SubSeqProperties
  <2>3. s \in Seq(Tokens) /\ \A j \in 1..Len(s) : u[j] = s[j]
    BY <2>2 DEF Holds
  <2> HIDE DEF u
  <2>4. u = s
    BY <2>2, <2>3, SeqEqual
  <2> QED
    BY <2>4 DEF u
<1> QED
  BY <1>1, <1>2, <1>3

(* A line that starts with a word, and does not end with a space. *)
LEMMA LineIs ==
  ASSUME NEW T \in Seq(Tokens), NEW o, NEW s, HoldsLine(T, o, s), s[1] # space
  PROVE  /\ Line(T, o + 1) = o + 1..o + Len(s)
         /\ o + 1 \in Words(T, o + 1) /\ Min(Words(T, o + 1)) = o + 1
         /\ HasColon(T, o + 1) <=>
              \E j \in 1..Len(s) : s[j].text \in {"key:val", "Content-Length:n"}
         /\ IsLength(T, o + 1) <=> s[1].text = "Content-Length:n"
         /\ LengthOf(T, o + 1) = s[1].n
         /\ s[Len(s)] # space => StrippedLine(T, o + 1) = s
<1>1. /\ o \in Nat /\ Len(s) \in Nat /\ Len(s) >= 1 /\ Len(T) \in Nat
      /\ \A i \in o + 1..o + Len(s) : i - o \in 1..Len(s) /\ T[i] = s[i - o]
      /\ SubSeq(T, o + 1, o + Len(s)) = s
  <2>1. Holds(T, o, s)
    BY DEF HoldsLine
  <2> QED
    BY <2>1, HeldAt
<1>2. /\ o + Len(s) + 1 <= Len(T)
      /\ \A j \in 1..Len(s) : T[o + j] = s[j] /\ s[j] # newline
      /\ T[o + Len(s) + 1] = newline
  BY DEF HoldsLine, Holds
<1> DEFINE n == Len(s)
           b == o + 1
           e == o + n
<1>3. b \in Nat /\ e \in Nat /\ b <= e /\ e + 1 <= Len(T) /\ n \in Nat /\ n >= 1 /\ b >= 1
  BY <1>1, <1>2
<1>4. /\ \A i \in b..e : i - o \in 1..n /\ T[i] = s[i - o] /\ T[i] # newline
      /\ T[e + 1] = newline
      /\ \A j \in 1..n : o + j \in b..e /\ T[o + j] = s[j]
      /\ T[b] = s[1] /\ T[e] = s[n] /\ b \in b..e
  <2>1. ASSUME NEW i \in b..e PROVE i - o \in 1..n /\ T[i] = s[i - o] /\ T[i] # newline
    <3>1. i - o \in 1..n /\ T[i] = s[i - o]
      BY <1>1
    <3> QED
      BY <1>2, <3>1
  <2>2. \A j \in 1..n : o + j \in b..e /\ T[o + j] = s[j]
    BY <1>1, <1>2
  <2>3. T[e + 1] = newline
    BY <1>2
  <2>4. 1 \in 1..n /\ n \in 1..n /\ b \in b..e
    BY <1>1
  <2> QED
    BY <2>1, <2>2, <2>3, <2>4
<1>5. SubSeq(T, b, e) = s
  BY <1>1
<1>6. o + 1 = b /\ o + Len(s) = e
  OBVIOUS
<1> HIDE DEF n, b, e
<1>7. Line(T, b) = b..e
  <2>1. \A i \in b..e : i \in 1..Len(T) /\ i >= b /\ \A k \in b..i : k \in b..e
    BY <1>3
  <2>2. \A i \in 1..Len(T) : i >= b /\ ~(i \in b..e) => e + 1 \in b..i
    BY <1>3
  <2>3. DOMAIN T = 1..Len(T)
    OBVIOUS
  <2>4. \A i \in 1..Len(T) : (i >= b /\ \A k \in b..i : T[k] # newline) <=> i \in b..e
    BY <1>4, <2>1, <2>2
  <2> QED
    BY <1>4, <2>1, <2>3, <2>4 DEF Line
<1>8. Words(T, b) = {j \in b..e : T[j] # space /\ (j > b => T[j - 1] = space)}
  BY <1>7 DEF Words
<1>9. b \in Words(T, b)
  <2>1. b \in b..e /\ T[b] # space /\ ~(b > b)
    BY <1>3, <1>4
  <2> QED
    BY <1>8, <2>1
<1>10. Min(Words(T, b)) = b
  <2>1. Words(T, b) \in SUBSET Nat /\ \A j \in Words(T, b) : b <= j
    BY <1>3, <1>8
  <2> QED
    BY <1>9, <2>1, MinIs
<1>11. HasColon(T, b) <=> \E j \in 1..n : s[j].text \in {"key:val", "Content-Length:n"}
  BY <1>4, <1>7 DEF HasColon
<1>12. IsLength(T, b) <=> s[1].text = "Content-Length:n"
  BY <1>4, <1>9, <1>10 DEF IsLength
<1>13. LengthOf(T, b) = s[1].n
  BY <1>4, <1>10 DEF LengthOf
<1>14. ASSUME s[n] # space PROVE StrippedLine(T, b) = s
  <2> DEFINE M == {j \in Line(T, b) : T[j] # space}
  <2>1. M \in SUBSET Nat /\ \A j \in M : j <= e
    BY <1>3, <1>7
  <2>2. e \in M
    <3>1. e \in b..e /\ T[e] # space
      BY <1>3, <1>4, <1>14
    <3> QED
      BY <1>7, <3>1
  <2>3. Max(M) = e
    <3> HIDE DEF M
    <3> QED
      BY <2>1, <2>2, MaxIs
  <2> QED
    BY <1>5, <1>10, <2>3 DEF StrippedLine
<1> QED
  BY <1>6, <1>7, <1>9, <1>10, <1>11, <1>12, <1>13, <1>14 DEF n

(* A word with white space after it. *)
LEMMA WordAtIs ==
  ASSUME NEW T \in Seq(Tokens), NEW o, NEW s, Holds(T, o, s), IsWord(s),
         T[o + Len(s) + 1] \in {space, newline}
  PROVE  WordAt(T, o + 1) = s
<1>1. /\ o \in Nat /\ Len(s) \in Nat /\ Len(s) >= 1 /\ Len(T) \in Nat
      /\ \A i \in o + 1..o + Len(s) : i - o \in 1..Len(s) /\ T[i] = s[i - o]
      /\ SubSeq(T, o + 1, o + Len(s)) = s
      /\ o + Len(s) + 1 <= Len(T)
  BY HeldAt DEF Holds
<1> DEFINE b == o + 1
           e == o + Len(s)
           M == {k \in DOMAIN T : k >= b /\ \A l \in b..k : T[l] \notin {space, newline}}
<1>2. \A j \in 1..Len(s) : s[j] \notin {space, newline}
  BY DEF IsWord
<1> HIDE DEF M
<1>3. b \in Nat /\ e \in Nat /\ b <= e /\ e + 1 <= Len(T) /\ b >= 1
  <2>1. o \in Nat /\ Len(s) \in Nat /\ Len(s) >= 1 /\ o + Len(s) + 1 <= Len(T)
    BY <1>1
  <2> QED
    BY <2>1
<1>4. /\ \A i \in b..e : T[i] \notin {space, newline}
      /\ T[e + 1] \in {space, newline}
  BY <1>1, <1>2
<1>5. SubSeq(T, b, e) = s /\ WordAt(T, b) = SubSeq(T, b, Max(M))
  BY <1>1 DEF WordAt, M
<1> HIDE DEF b, e
<1>6. e \in M
  <2>1. e \in DOMAIN T /\ e >= b
    BY <1>1, <1>3
  <2> QED
    BY <1>4, <2>1 DEF M
<1>7. M \in SUBSET Nat /\ \A k \in M : k <= e
  <2>1. M \in SUBSET Nat
    BY DEF M
  <2>2. ASSUME NEW k \in M, k > e PROVE FALSE
    <3>1. e + 1 \in b..k
      <4>1. k \in Nat
        BY <2>1
      <4> QED
        BY <1>3, <2>2, <4>1
    <3> QED
      BY <1>4, <3>1 DEF M
  <2>3. \A k \in M : k \in Nat
    BY <2>1
  <2> HIDE DEF M
  <2> QED
    BY <1>3, <2>1, <2>2, <2>3
<1>8. Max(M) = e
  <2> HIDE DEF M
  <2> QED
    BY <1>6, <1>7, MaxIs
<1>9. WordAt(T, b) = s
  BY <1>5, <1>8
<1> QED
  BY <1>9 DEF b

-----------------------------------------------------------------------------
(* The words of the first line, and the lines of the named headers *)

(* How much of the text comes before its k-th un-named header. *)
WordOff(m, k) == Len(m.verb) + LengthBefore(Spaced(m), k) + 1

(* The words of the first line, with one space before each un-named header. *)
LEMMA VerbLineWords ==
  ASSUME NEW m, IsMessage(m), m.verb # NULL, IsWord(m.verb)
  PROVE  LET V == VerbLine(m)
             n == Len(V)
             K == Len(m.headers)
             v == Len(m.verb)
         IN  /\ n \in Nat /\ K \in Nat /\ v \in 1..n
             /\ \A i \in 1..v : V[i] = m.verb[i]
             /\ v = n \/ V[v + 1] = space
             /\ V[1] # space /\ V[n] \notin {space, dot}
             /\ \A i \in 1..n : V[i] # newline
             /\ \A k \in 1..K :
                  LET w == m.headers[k]
                      o == WordOff(m, k)
                  IN  /\ o \in Nat /\ v < o /\ o + Len(w) <= n /\ Len(w) \in Nat /\ Len(w) >= 1
                      /\ V[o] = space
                      /\ \A j \in 1..Len(w) : V[o + j] = w[j]
                      /\ o + Len(w) = n \/ V[o + Len(w) + 1] = space
                      /\ \A l \in k + 1..K : o < WordOff(m, l)
             /\ \A i \in 1..n : V[i] = space => \E k \in 1..K : i = WordOff(m, k)
<1> DEFINE V == VerbLine(m)
           n == Len(V)
           Q == Spaced(m)
           F == FlattenSeq(Q)
           H == m.headers
           K == Len(H)
           u == m.verb
           v == Len(u)
<1>1. /\ V \in Seq(Tokens) /\ Q \in Seq(Seq(Tokens)) /\ Len(Q) = K
      /\ H \in Seq(Seq(Tokens)) /\ u \in Seq(Tokens)
      /\ \A k \in 1..K : Q[k] = <<space>> \o H[k] /\ H[k] \in Seq(Tokens) /\ IsWord(H[k])
  BY Parts
<1>2. F \in Seq(Tokens)
  BY <1>1, FlattenType
<1>3. /\ n = v + Len(F)
      /\ \A i \in 1..v : V[i] = u[i]
      /\ \A i \in 1..Len(F) : V[v + i] = F[i]
  <2>1. V = u \o F
    BY DEF VerbLine
  <2> HIDE DEF V, u, F
  <2> QED
    BY <1>1, <1>2, <2>1, TwoParts
<1>4. /\ u # <<>> /\ \A i \in 1..v : u[i] \notin {space, newline}
      /\ u[v] # dot
  BY <1>1 DEF IsWord
<1>5. n \in Nat /\ v \in Nat /\ v >= 1 /\ K \in Nat /\ Len(F) \in Nat
  BY <1>1, <1>2, <1>4, EmptySeq
<1>6. \A k \in 1..K : WordOff(m, k) = v + LengthBefore(Q, k) + 1
  BY DEF WordOff
<1> HIDE DEF V, n, Q, H, K, u, v
<1>7. ASSUME NEW k \in 1..K
      PROVE  /\ Len(H[k]) \in Nat /\ Len(H[k]) >= 1 /\ H[k] \in Seq(Tokens)
             /\ \A j \in 1..Len(H[k]) : H[k][j] \notin {space, newline}
             /\ H[k][Len(H[k])] # dot
             /\ Q[k] \in Seq(Tokens) /\ Len(Q[k]) = Len(H[k]) + 1 /\ Q[k][1] = space
             /\ \A j \in 1..Len(H[k]) : Q[k][1 + j] = H[k][j]
  <2> DEFINE h == H[k]
             q == Q[k]
             s == <<space>>
  <2>1. q = s \o h /\ h \in Seq(Tokens) /\ IsWord(h)
    BY <1>1
  <2>2. s \in Seq(Tokens) /\ Len(s) = 1 /\ s[1] = space
    <3>1. space \in Tokens
      BY TokensDiffer
    <3> QED
      BY <3>1
  <2> HIDE DEF q, h, s
  <2>3. Len(h) \in Nat /\ Len(h) >= 1
    BY <2>1, EmptySeq DEF IsWord
  <2>4. \A j \in 1..Len(h) : h[j] \notin {space, newline}
    BY <2>1 DEF IsWord
  <2>5. h[Len(h)] # dot
    BY <2>1 DEF IsWord
  <2>6. /\ q \in Seq(Tokens) /\ Len(q) = Len(s) + Len(h)
        /\ \A j \in 1..Len(s) : q[j] = s[j]
        /\ \A j \in 1..Len(h) : q[Len(s) + j] = h[j]
    <3>1. s \in Seq(Tokens) /\ h \in Seq(Tokens)
      BY <2>1, <2>2
    <3>2. /\ s \o h \in Seq(Tokens) /\ Len(s \o h) = Len(s) + Len(h)
          /\ \A j \in 1..Len(s) : (s \o h)[j] = s[j]
          /\ \A j \in 1..Len(h) : (s \o h)[Len(s) + j] = h[j]
      BY <3>1, TwoParts
    <3> QED
      BY <2>1, <3>2
  <2>7. Len(q) = Len(h) + 1 /\ q[1] = space /\ \A j \in 1..Len(h) : q[1 + j] = h[j]
    BY <2>2, <2>3, <2>6
  <2> QED
    BY <2>1, <2>3, <2>4, <2>5, <2>6, <2>7 DEF h, q
<1> HIDE DEF F
<1>8. ASSUME NEW k \in 1..K
      PROVE  LET w == H[k]
                 o == WordOff(m, k)
             IN  /\ o \in Nat /\ v < o /\ o + Len(w) <= n
                 /\ V[o] = space
                 /\ \A j \in 1..Len(w) : V[o + j] = w[j]
                 /\ \A l \in k + 1..K : o + Len(w) < WordOff(m, l)
                 /\ k = K => o + Len(w) = n
                 /\ k + 1 \in 1..K => WordOff(m, k + 1) = o + Len(w) + 1
  <2> DEFINE w == H[k]
             q == Q[k]
             b == LengthBefore(Q, k)
             o == WordOff(m, k)
  <2>1. /\ Len(w) \in Nat /\ Len(w) >= 1 /\ Len(q) = Len(w) + 1 /\ q[1] = space
        /\ \A j \in 1..Len(w) : q[1 + j] = w[j]
    BY <1>7
  <2>2. /\ b \in Nat /\ b + Len(q) <= Len(F)
        /\ \A j \in 1..Len(q) : F[b + j] = q[j]
        /\ LengthBefore(Q, k + 1) = b + Len(q)
        /\ k = K => Len(F) = b + Len(q)
        /\ \A l \in k + 1..Len(Q) : b + Len(q) <= LengthBefore(Q, l)
    <3>1. k \in 1..Len(Q)
      BY <1>1
    <3> QED
      BY <1>1, <3>1, FlattenAt DEF F
  <2>3. o = v + b + 1
    BY <1>6
  <2>4. \A l \in k + 1..K : o + Len(w) < WordOff(m, l)
    <3> SUFFICES ASSUME NEW l \in k + 1..K PROVE o + Len(w) < WordOff(m, l)
      OBVIOUS
    <3>1. l \in 1..Len(Q) /\ l \in 1..K /\ l \in k + 1..Len(Q)
      BY <1>1, <1>5
    <3>2. LengthBefore(Q, l) \in Nat
      BY <1>1, <3>1, FlattenAt
    <3> DEFINE x == LengthBefore(Q, l)
    <3>3. WordOff(m, l) = v + x + 1 /\ b + Len(q) <= x /\ x \in Nat
      BY <1>6, <2>2, <3>1, <3>2
    <3> HIDE DEF x, b, o, q, w
    <3> QED
      BY <1>5, <2>1, <2>2, <2>3, <3>3
  <2>5. k + 1 \in 1..K => WordOff(m, k + 1) = o + Len(w) + 1
    <3>1. k + 1 \in 1..K => WordOff(m, k + 1) = v + (b + Len(q)) + 1
      BY <1>6, <2>2
    <3> HIDE DEF b, o, q, w
    <3> QED
      BY <1>5, <2>1, <2>2, <2>3, <3>1
  <2> HIDE DEF b, o, q, w
  <2>6. o \in Nat /\ v < o /\ o + Len(w) <= n /\ (k = K => o + Len(w) = n)
    <3>1. /\ n = v + Len(F) /\ Len(q) = Len(w) + 1 /\ Len(w) \in Nat /\ b \in Nat
          /\ b + Len(q) <= Len(F) /\ (k = K => Len(F) = b + Len(q))
      BY <1>3, <2>1, <2>2
    <3> QED
      BY <1>5, <2>3, <3>1
  <2>7. ASSUME NEW j \in 1..Len(q) PROVE V[v + b + j] = q[j]
    <3> DEFINE i == b + j
    <3>1. i \in 1..Len(F) /\ v + b + j = v + i
      BY <1>5, <2>1, <2>2
    <3>2. F[i] = q[j]
      BY <2>2
    <3> HIDE DEF i
    <3> QED
      BY <1>3, <3>1, <3>2
  <2>8. V[o] = space
    <3>1. 1 \in 1..Len(q) /\ v + b + 1 = o
      BY <2>1, <2>3
    <3> QED
      BY <2>1, <2>7, <3>1
  <2>9. ASSUME NEW j \in 1..Len(w) PROVE V[o + j] = w[j]
    <3>1. 1 + j \in 1..Len(q) /\ v + b + (1 + j) = o + j
      BY <1>5, <2>1, <2>2, <2>3
    <3> QED
      BY <2>1, <2>7, <3>1
  <2> QED
    BY <2>4, <2>5, <2>6, <2>8, <2>9 DEF o, w
<1>9. ASSUME NEW k \in 1..K
      PROVE  WordOff(m, k) + Len(H[k]) = n \/ V[WordOff(m, k) + Len(H[k]) + 1] = space
  <2>1. CASE k = K
    BY <1>8, <2>1
  <2>2. CASE k # K
    <3>1. k + 1 \in 1..K
      BY <1>5, <2>2
    <3>2. WordOff(m, k + 1) = WordOff(m, k) + Len(H[k]) + 1
      BY <1>8, <3>1
    <3>3. V[WordOff(m, k + 1)] = space
      BY <1>8, <3>1
    <3> QED
      BY <3>2, <3>3
  <2> QED
    BY <2>1, <2>2
<1>10. ASSUME NEW i \in v + 1..n
       PROVE  \E k \in 1..K : \/ i = WordOff(m, k)
                              \/ \E j \in 1..Len(H[k]) : i = WordOff(m, k) + j
  <2>1. i - v \in 1..Len(F)
    BY <1>3, <1>5
  <2>2. PICK k \in 1..Len(Q) : \E j \in 1..Len(Q[k]) : i - v = LengthBefore(Q, k) + j
    BY <1>1, <2>1, FlattenFrom DEF F
  <2>3. PICK j \in 1..Len(Q[k]) : i - v = LengthBefore(Q, k) + j
    BY <2>2
  <2>4. k \in 1..K /\ LengthBefore(Q, k) \in Nat
    BY <1>1, FlattenAt
  <2>5. Len(Q[k]) = Len(H[k]) + 1 /\ Len(H[k]) \in Nat
    BY <1>7, <2>4
  <2>6. i = WordOff(m, k) + (j - 1)
    <3> DEFINE x == LengthBefore(Q, k)
    <3>1. i - v = x + j /\ WordOff(m, k) = v + x + 1 /\ x \in Nat /\ i \in Int /\ j \in Int
      BY <1>5, <1>6, <2>3, <2>4
    <3> HIDE DEF x
    <3> QED
      BY <1>5, <3>1
  <2>7. CASE j = 1
    <3>1. WordOff(m, k) \in Nat
      BY <1>8, <2>4
    <3>2. i = WordOff(m, k)
      BY <2>6, <2>7, <3>1
    <3> QED
      BY <2>4, <3>2
  <2>8. CASE j # 1
    <3>1. j - 1 \in 1..Len(H[k])
      BY <2>5, <2>8
    <3> QED
      BY <2>4, <2>6, <3>1
  <2> QED
    BY <2>7, <2>8
<1>11. ASSUME NEW i \in 1..n
       PROVE  V[i] # newline /\ (V[i] = space => \E k \in 1..K : i = WordOff(m, k))
  <2>1. CASE i \in 1..v
    <3>1. V[i] = u[i] /\ u[i] \notin {space, newline}
      BY <1>3, <1>4, <2>1
    <3> QED
      BY <3>1
  <2>2. CASE i \notin 1..v
    <3>1. i \in v + 1..n
      BY <1>5, <2>2
    <3>2. PICK k \in 1..K : i = WordOff(m, k) \/ \E j \in 1..Len(H[k]) : i = WordOff(m, k) + j
      BY <1>10, <3>1
    <3>3. CASE i = WordOff(m, k)
      <4>1. V[i] = space
        BY <1>8, <3>3
      <4> QED
        BY <3>3, <4>1, TokensDiffer
    <3>4. CASE \E j \in 1..Len(H[k]) : i = WordOff(m, k) + j
      <4>1. PICK j \in 1..Len(H[k]) : i = WordOff(m, k) + j
        BY <3>4
      <4>2. V[i] = H[k][j]
        BY <1>8, <4>1
      <4>3. H[k][j] \notin {space, newline}
        BY <1>7
      <4> QED
        BY <4>2, <4>3
    <3> QED
      BY <3>2, <3>3, <3>4
  <2> QED
    BY <2>1, <2>2
<1>12. v = n \/ V[v + 1] = space
  <2>1. CASE K = 0
    <3>1. F = <<>>
      BY <1>1, <2>1, FlattenSeqIs DEF F
    <3>2. Len(F) = 0
      BY <3>1
    <3> QED
      BY <1>3, <1>5, <3>2
  <2>2. CASE K # 0
    <3>1. 1 \in 1..K /\ 1 \in 1..Len(Q)
      BY <1>1, <1>5, <2>2
    <3>2. LengthBefore(Q, 1) = 0
      BY <1>1, <3>1, FlattenAt
    <3>3. WordOff(m, 1) = v + 1
      BY <1>5, <1>6, <3>1, <3>2
    <3>4. V[WordOff(m, 1)] = space
      BY <1>8, <3>1
    <3> QED
      BY <3>3, <3>4
  <2> QED
    BY <2>1, <2>2
<1>13. V[1] # space
  <2>1. 1 \in 1..v
    BY <1>5
  <2> QED
    BY <1>3, <1>4, <2>1
<1>14. V[n] \notin {space, dot}
  <2>1. CASE K = 0
    <3>1. F = <<>>
      BY <1>1, <2>1, FlattenSeqIs DEF F
    <3>2. Len(F) = 0
      BY <3>1
    <3>3. n = v /\ v \in 1..v
      BY <1>3, <1>5, <3>2
    <3> QED
      BY <1>3, <1>4, <3>3
  <2>2. CASE K # 0
    <3>1. K \in 1..K
      BY <1>5, <2>2
    <3> DEFINE w == H[K]
    <3>2. WordOff(m, K) + Len(w) = n
      BY <1>8, <3>1
    <3>3. Len(w) \in 1..Len(w)
      BY <1>7, <3>1
    <3>4. V[WordOff(m, K) + Len(w)] = w[Len(w)]
      BY <1>8, <3>1, <3>3
    <3>5. w[Len(w)] \notin {space, newline} /\ w[Len(w)] # dot
      BY <1>7, <3>1, <3>3
    <3> QED
      BY <3>2, <3>4, <3>5
  <2> QED
    BY <2>1, <2>2
<1>15. \A k \in 1..K : \A l \in k + 1..K : WordOff(m, k) < WordOff(m, l)
  <2> SUFFICES ASSUME NEW k \in 1..K, NEW l \in k + 1..K PROVE WordOff(m, k) < WordOff(m, l)
    OBVIOUS
  <2>1. l \in 1..K
    BY <1>5
  <2>2. WordOff(m, k) + Len(H[k]) < WordOff(m, l) /\ Len(H[k]) \in Nat
        /\ WordOff(m, k) \in Nat /\ WordOff(m, l) \in Nat
    BY <1>7, <1>8, <2>1
  <2> QED
    BY <2>2
<1>16. v \in 1..n
  BY <1>3, <1>5
<1>17. /\ \A k \in 1..K : Len(H[k]) \in Nat /\ Len(H[k]) >= 1
       /\ \A i \in 1..v : V[i] = u[i]
  BY <1>3, <1>7
<1> QED
  BY <1>5, <1>8, <1>9, <1>11, <1>12, <1>13, <1>14, <1>15, <1>16, <1>17 DEF V, n, H, K, u, v

(* What the header lines of a message are without a newline at their end. *)
LEMMA StrippedLines ==
  ASSUME NEW m, IsMessage(m), m.verb # NULL, NEW k \in 1..Len(m.named_headers)
  PROVE  LET h == m.named_headers[k]
             s == Stripped(h)
         IN  /\ s \in Seq(Tokens) /\ s # <<>> /\ Len(s) \in Nat /\ Len(s) >= 1 /\ Len(h) \in Nat
             /\ Len(s) <= Len(h) /\ Len(h) <= Len(s) + 1
             /\ \A j \in 1..Len(s) : s[j] = h[j] /\ s[j] # newline
             /\ Len(s) < Len(h) => h[Len(h)] = newline
             /\ s[1] # space /\ s[Len(s)] \notin {space, dot}
             /\ \E j \in 1..Len(s) : s[j].text \in {"key:val", "Content-Length:n"}
             /\ s[1].text = "Content-Length:n" <=> h = <<Length(Len(m.body))>>
             /\ h = <<Length(Len(m.body))>> => m.body # <<>> /\ s[1].n = Len(m.body)
<1> DEFINE h == m.named_headers[k]
           s == Stripped(h)
           length == <<Length(Len(m.body))>>
<1>1. h \in Seq(Tokens)
  BY Parts
<1>2. \/ h # <<>> /\ IsNamedLine(s)
      \/ m.body # <<>> /\ h = length
  <2>1. k \in DOMAIN m.named_headers
    BY Parts
  <2> QED
    BY <2>1 DEF IsMessage
<1>3. CASE m.body # <<>> /\ h = length
  <2> DEFINE t == Length(Len(m.body))
  <2>1. h = <<t>> /\ Len(h) = 1 /\ h[1] = t
    BY <1>3
  <2>2. t \notin {dot, newline, space, return, keyval} /\ t.text = "Content-Length:n"
        /\ t.n = Len(m.body)
    BY TokensDiffer
  <2> HIDE DEF h, t
  <2>3. s = h
    BY <2>1, <2>2 DEF Stripped
  <2> HIDE DEF s
  <2>4. s \in Seq(Tokens) /\ s # <<>> /\ Len(s) = 1 /\ s[1] = t
    BY <1>1, <2>1, <2>3
  <2>5. /\ \A j \in 1..Len(s) : s[j] = h[j] /\ s[j] # newline
        /\ s[1] # space /\ s[Len(s)] \notin {space, dot}
        /\ \E j \in 1..Len(s) : s[j].text \in {"key:val", "Content-Length:n"}
        /\ s[1].text = "Content-Length:n" /\ s[1].n = Len(m.body)
    BY <2>1, <2>2, <2>3, <2>4
  <2> QED
    BY <1>3, <2>1, <2>3, <2>4, <2>5 DEF h, s
<1>4. CASE h # <<>> /\ IsNamedLine(s)
  <2>1. Len(h) \in Nat /\ Len(h) >= 1
    BY <1>1, <1>4, EmptySeq
  <2>2. /\ s \in Seq(Tokens) /\ s # <<>>
        /\ \A i \in DOMAIN s : s[i] \notin {newline, return}
        /\ s[1] # space /\ s[1].text # "Content-Length:n"
        /\ s[Len(s)] \notin {space, dot}
        /\ \E i \in DOMAIN s : s[i] = keyval
    BY <1>4 DEF IsNamedLine
  <2>3. Len(s) \in Nat /\ Len(s) >= 1 /\ DOMAIN s = 1..Len(s)
    BY <2>2, EmptySeq
  <2>4. /\ Len(s) <= Len(h) /\ Len(h) <= Len(s) + 1
        /\ \A j \in 1..Len(s) : s[j] = h[j]
        /\ Len(s) < Len(h) => h[Len(h)] = newline
    <3> HIDE DEF h
    <3>1. CASE h[Len(h)] = newline
      <4>1. s = SubSeq(h, 1, Len(h) - 1)
        BY <3>1 DEF Stripped, Front
      <4>2. Len(s) = Len(h) - 1 /\ \A j \in 1..Len(h) - 1 : s[j] = h[j]
        BY <1>1, <2>1, <4>1, FrontIs DEF Front
      <4>3. Len(s) = Len(h) - 1
        BY <4>2
      <4>4. \A j \in 1..Len(h) - 1 : s[j] = h[j]
        BY <4>2
      <4> HIDE DEF s
      <4>5. Len(s) <= Len(h) /\ Len(h) <= Len(s) + 1
        BY <2>1, <4>3
      <4> QED
        BY <3>1, <4>3, <4>4, <4>5
    <3>2. CASE h[Len(h)] # newline
      <4>1. s = h
        BY <3>2 DEF Stripped
      <4> QED
        BY <2>1, <4>1
    <3> QED
      BY <3>1, <3>2
  <2>5. \E j \in 1..Len(s) : s[j].text \in {"key:val", "Content-Length:n"}
    BY <2>2, <2>3, TokensDiffer
  <2>6. h # length
    <3> SUFFICES ASSUME h = length PROVE FALSE
      OBVIOUS
    <3> DEFINE t == Length(Len(m.body))
    <3>1. Len(h) = 1 /\ h[1] = t
      OBVIOUS
    <3>2. t.text = "Content-Length:n"
      BY TokensDiffer
    <3> HIDE DEF h, s, t
    <3>3. 1 \in 1..Len(s)
      BY <2>3
    <3>4. s[1] = h[1]
      BY <2>4, <3>3
    <3> QED
      BY <2>2, <3>1, <3>2, <3>4
  <2> HIDE DEF h, s, length
  <2> QED
    BY <2>1, <2>2, <2>3, <2>4, <2>5, <2>6 DEF h, s, length
<1> QED
  BY <1>2, <1>3, <1>4

(* One header at most is Content-Length, and only with a body. *)
LEMMA OneLength ==
  ASSUME NEW m, IsMessage(m), m.verb # NULL
  PROVE  LET length == <<Length(Len(m.body))>> IN
         /\ \A k, l \in 1..Len(m.named_headers) :
              m.named_headers[k] = length /\ m.named_headers[l] = length => k = l
         /\ m.body # <<>> => \E k \in 1..Len(m.named_headers) : m.named_headers[k] = length
<1> DEFINE length == <<Length(Len(m.body))>>
           H == m.named_headers
<1>1. DOMAIN H = 1..Len(H)
  BY Parts
<1>2. m.body # <<>> => \E i \in DOMAIN H : \A j \in DOMAIN H : H[j] = length <=> j = i
  BY DEF IsMessage
<1>3. \A k \in 1..Len(H) : H[k] = length => m.body # <<>>
  BY StrippedLines
<1> HIDE DEF length, H
<1>4. /\ \A k, l \in 1..Len(H) : H[k] = length /\ H[l] = length => k = l
      /\ m.body # <<>> => \E k \in 1..Len(H) : H[k] = length
  BY <1>1, <1>2, <1>3
<1> QED
  BY <1>4 DEF length, H

(* The lines of the text: that of the verb and those of the named headers. *)
LEMMA NamedAt ==
  ASSUME NEW m, IsMessage(m), m.verb # NULL, NEW k \in 1..Len(m.named_headers)
  PROVE  /\ HoldsLine(TextOf(m), Off(m, k), Stripped(m.named_headers[k]))
         /\ TextOf(m)[Off(m, k)] = newline /\ Off(m, k) \in 1..Len(TextOf(m))
         /\ Off(m, k) >= Len(VerbLine(m)) + 1
<1> DEFINE T == TextOf(m)
           h == m.named_headers[k]
           s == Stripped(h)
           o == Off(m, k)
           a == Len(VerbLine(m)) + 1
<1>1. /\ o \in Nat /\ a <= o /\ o + Len(h) + 1 <= Len(T) /\ a \in 1..Len(T) /\ Len(T) \in Nat
      /\ T[o] = newline
      /\ \A j \in 1..Len(h) : T[o + j] = h[j]
      /\ T[o + Len(h) + 1] = newline
  BY TextLines
<1>2. /\ s \in Seq(Tokens) /\ s # <<>> /\ Len(s) \in Nat /\ Len(s) >= 1 /\ Len(h) \in Nat
      /\ Len(s) <= Len(h) /\ Len(h) <= Len(s) + 1
      /\ \A j \in 1..Len(s) : s[j] = h[j] /\ s[j] # newline
      /\ Len(s) < Len(h) => h[Len(h)] = newline
  BY StrippedLines, SMTT(60)
<1> HIDE DEF T, h, s, o, a
<1>3. \A j \in 1..Len(s) : T[o + j] = s[j]
  <2> SUFFICES ASSUME NEW j \in 1..Len(s) PROVE T[o + j] = s[j]
    OBVIOUS
  <2>1. j \in 1..Len(h)
    BY <1>2
  <2> QED
    BY <1>1, <1>2, <2>1
<1>4. T[o + Len(s) + 1] = newline
  <2>1. CASE Len(s) = Len(h)
    BY <1>1, <2>1
  <2>2. CASE Len(s) # Len(h)
    <3>1. Len(h) \in Nat /\ Len(s) \in Nat /\ Len(s) <= Len(h) /\ Len(h) <= Len(s) + 1
          /\ o \in Nat /\ Len(s) >= 1
      BY <1>1, <1>2
    <3>2. Len(h) = Len(s) + 1
      BY <2>2, <3>1
    <3>3. Len(h) \in 1..Len(h) /\ o + Len(h) = o + Len(s) + 1 /\ Len(s) < Len(h)
      BY <3>1, <3>2
    <3> QED
      BY <1>1, <1>2, <3>3
  <2> QED
    BY <2>1, <2>2
<1>5. o + Len(s) + 1 <= Len(T) /\ o \in 1..Len(T) /\ o >= a
  BY <1>1, <1>2
<1>6. HoldsLine(T, o, s)
  BY <1>1, <1>2, <1>3, <1>4, <1>5 DEF HoldsLine, Holds
<1> QED
  BY <1>1, <1>5, <1>6 DEF T, h, s, o, a

(* Where the lines of the text begin. *)
LEMMA TextStarts ==
  ASSUME NEW m, IsMessage(m), m.verb # NULL, IsWord(m.verb)
  PROVE  LET T == TextOf(m)
             N == Len(m.named_headers)
         IN  /\ Lines(T) = {1} \cup {Off(m, k) + 1 : k \in 1..N}
             /\ Min(Lines(T)) = 1
             /\ NamedLines(T) = {Off(m, k) + 1 : k \in 1..N}
             /\ VerbWords(T) = Words(T, 1)
             /\ HoldsLine(T, 0, VerbLine(m))
<1> DEFINE T == TextOf(m)
           V == VerbLine(m)
           H == m.named_headers
           N == Len(H)
           n == Len(V)
           Starts == {Off(m, k) + 1 : k \in 1..N}
<1>1. /\ n + 1 \in 1..Len(T) /\ Len(T) \in Nat /\ T[n + 1] = newline
      /\ \A i \in 1..n : T[i] = V[i]
      /\ \A i \in n + 2..Len(T) : \E k \in 1..N :
           \E j \in 1..Len(H[k]) + 1 : i = Off(m, k) + j
  <2>1. Len(V) + 1 - 1 = n /\ Len(V) + 1 + 1 = n + 2
    BY Parts
  <2> QED
    BY <2>1, TextLines
<1>2. /\ n \in Nat /\ n >= 1 /\ V[1] # space
      /\ \A i \in 1..n : V[i] # newline
  <2>1. n \in Nat /\ Len(m.verb) \in 1..n /\ V[1] # space /\ \A i \in 1..n : V[i] # newline
    BY VerbLineWords
  <2> QED
    BY <2>1
<1>3. T \in Seq(Tokens) /\ V \in Seq(Tokens)
  BY Parts
<1>4. \A k \in 1..N :
        LET h == H[k]
            s == Stripped(h)
            o == Off(m, k)
        IN  /\ o \in Nat /\ o >= n + 1 /\ o + 1 \in 1..Len(T) /\ T[o] = newline
            /\ T[o + 1] # newline
            /\ \A j \in 1..Len(h) : j < Len(h) \/ h[j] # newline => T[o + j] # newline
            /\ \A j \in 1..Len(h) : T[o + j] = h[j]
            /\ T[o + Len(h) + 1] = newline /\ Len(h) \in Nat
  <2>1. TAKE k \in 1..N
  <2> DEFINE h == H[k]
             s == Stripped(h)
             o == Off(m, k)
  <2>2. /\ o \in Nat /\ n + 1 <= o /\ o + Len(h) + 1 <= Len(T) /\ Len(h) \in Nat
        /\ T[o] = newline
        /\ \A j \in 1..Len(h) : T[o + j] = h[j]
        /\ T[o + Len(h) + 1] = newline
    BY TextLines
  <2>3. /\ Len(s) \in Nat /\ Len(s) >= 1
        /\ Len(s) <= Len(h) /\ Len(h) <= Len(s) + 1
        /\ \A j \in 1..Len(s) : s[j] = h[j] /\ s[j] # newline
    BY StrippedLines
  <2> HIDE DEF h, s, o, T, n
  <2>4. \A j \in 1..Len(h) : j < Len(h) \/ h[j] # newline => T[o + j] # newline
    <3> SUFFICES ASSUME NEW j \in 1..Len(h), j < Len(h) \/ h[j] # newline
                 PROVE  T[o + j] # newline
      OBVIOUS
    <3>1. CASE h[j] # newline
      BY <2>2, <3>1
    <3>2. CASE j < Len(h)
      <4>1. j \in 1..Len(s)
        BY <2>2, <2>3, <3>2
      <4> QED
        BY <2>2, <2>3, <4>1
    <3> QED
      BY <3>1, <3>2
  <2>5. T[o + 1] # newline
    <3>1. 1 \in 1..Len(s) /\ 1 \in 1..Len(h)
      BY <2>2, <2>3
    <3> QED
      BY <2>2, <2>3, <3>1
  <2>6. o >= n + 1 /\ o + 1 \in 1..Len(T)
    BY <1>1, <1>2, <2>2 DEF T, n
  <2> QED
    BY <2>2, <2>4, <2>5, <2>6 DEF h, o, T, n
<1> HIDE DEF T, V, n, H, N
<1>5. \A i \in Starts : i \in 1..Len(T) /\ T[i] # newline /\ i > 1 /\ T[i - 1] = newline
  <2> SUFFICES ASSUME NEW i, NEW k \in 1..N, i = Off(m, k) + 1
               PROVE  i \in 1..Len(T) /\ T[i] # newline /\ i > 1 /\ T[i - 1] = newline
    OBVIOUS
  <2> DEFINE o == Off(m, k)
  <2>1. o \in Nat /\ o >= n + 1 /\ o + 1 \in 1..Len(T) /\ T[o] = newline /\ T[o + 1] # newline
    BY <1>4
  <2> HIDE DEF o
  <2>2. o + 1 - 1 = o /\ o + 1 > 1
    BY <1>2, <2>1
  <2>3. i = o + 1
    BY DEF o
  <2> QED
    BY <2>1, <2>2, <2>3
<1>6. ASSUME NEW i \in 1..Len(T), T[i] # newline, i > 1 => T[i - 1] = newline
      PROVE  i = 1 \/ i \in Starts
  <2>1. CASE i <= n
    <3> SUFFICES ASSUME i # 1 PROVE FALSE
      OBVIOUS
    <3>1. i - 1 \in 1..n /\ i > 1
      BY <1>2, <2>1
    <3> QED
      BY <1>1, <1>2, <1>6, <3>1
  <2>2. CASE i = n + 1
    BY <1>1, <1>6, <2>2
  <2>3. CASE i > n + 1
    <3>1. i \in n + 2..Len(T)
      BY <1>1, <1>2, <2>3
    <3>2. PICK k \in 1..N : \E j \in 1..Len(H[k]) + 1 : i = Off(m, k) + j
      BY <1>1, <3>1
    <3>3. PICK j \in 1..Len(H[k]) + 1 : i = Off(m, k) + j
      BY <3>2
    <3> DEFINE o == Off(m, k)
               h == H[k]
    <3>4. /\ o \in Nat /\ Len(h) \in Nat /\ o >= n + 1
          /\ \A l \in 1..Len(h) : l < Len(h) \/ h[l] # newline => T[o + l] # newline
          /\ T[o + Len(h) + 1] = newline
      BY <1>4
    <3>5. j \in 1..Len(h) + 1 /\ i = o + j
      BY <3>3
    <3>6. CASE j = 1
      BY <3>3, <3>6
    <3>7. CASE j # 1
      <4> HIDE DEF o, h
      <4>1. j - 1 \in 1..Len(h) /\ o + (j - 1) = i - 1 /\ i > 1
        BY <1>2, <3>4, <3>5, <3>7
      <4>2. T[i - 1] = newline
        BY <1>6, <4>1
      <4>3. ~(j - 1 < Len(h))
        BY <3>4, <4>1, <4>2
      <4>4. o \in Nat /\ Len(h) \in Nat /\ j \in 1..Len(h) + 1 /\ i = o + j
        BY <3>4, <3>5
      <4>5. j = Len(h) + 1
        BY <4>1, <4>3, <4>4
      <4>6. i = o + Len(h) + 1
        BY <4>4, <4>5
      <4> QED
        BY <1>6, <3>4, <4>6
    <3> QED
      BY <3>6, <3>7
  <2> QED
    BY <1>2, <2>1, <2>2, <2>3
<1>7. 1 \in 1..Len(T) /\ T[1] # newline
  <2>1. 1 \in 1..n
    BY <1>2
  <2> QED
    BY <1>1, <1>2, <2>1
<1>8. Lines(T) = {1} \cup Starts
  <2>1. DOMAIN T = 1..Len(T)
    BY <1>3
  <2>2. \A i \in Lines(T) : i \in {1} \cup Starts
    BY <1>6, <2>1 DEF Lines
  <2>3. \A i \in Starts : i \in Lines(T)
    <3> HIDE DEF Starts
    <3> QED
      BY <1>5, <2>1 DEF Lines
  <2>4. 1 \in Lines(T)
    BY <1>7, <2>1 DEF Lines
  <2> QED
    BY <2>2, <2>3, <2>4
<1> HIDE DEF Starts
<1>9. Min(Lines(T)) = 1
  <2>1. Lines(T) \in SUBSET Nat /\ 1 \in Lines(T) /\ \A i \in Lines(T) : 1 <= i
    BY <1>1, <1>5, <1>7, <1>8
  <2> QED
    BY <2>1, MinIs
<1>10. NamedLines(T) = Starts
  <2>1. \A i \in Starts : i # 1
    BY <1>5
  <2> QED
    BY <1>8, <1>9, <2>1 DEF NamedLines
<1>11. VerbWords(T) = Words(T, 1)
  <2>1. Lines(T) \ NamedLines(T) = {1}
    <3>1. \A i \in Starts : i # 1
      BY <1>5
    <3> QED
      BY <1>8, <1>10, <3>1
  <2> QED
    BY <2>1 DEF VerbWords
<1>12. HoldsLine(T, 0, V)
  <2>1. V # <<>>
    <3> SUFFICES ASSUME V = <<>> PROVE FALSE
      OBVIOUS
    <3>1. Len(V) = 0
      BY EmptySeq
    <3> QED
      BY <1>2, <3>1 DEF n
  <2>2. 0 + Len(V) + 1 = n + 1 /\ \A j \in 1..n : 0 + j = j
    BY <1>2 DEF n
  <2>3. 0 + Len(V) + 1 <= Len(T)
    BY <1>1, <2>2
  <2>4. \A j \in 1..Len(V) : T[0 + j] = V[j] /\ V[j] # newline
    BY <1>1, <1>2 DEF n
  <2> QED
    BY <1>1, <1>3, <2>1, <2>2, <2>3, <2>4 DEF HoldsLine, Holds
<1> QED
  BY <1>8, <1>9, <1>10, <1>11, <1>12 DEF T, V, N, H, Starts

-----------------------------------------------------------------------------
(* Verb, un-named headers and named headers are read back *)

(* The words of the line of the verb. *)
LEMMA VerbWordsAre ==
  ASSUME NEW m, IsMessage(m), m.verb # NULL, IsWord(m.verb)
  PROVE  LET T == TextOf(m)
             K == Len(m.headers)
         IN  /\ VerbWords(T) = {1} \cup {WordOff(m, k) + 1 : k \in 1..K}
             /\ Min(VerbWords(T)) = 1
             /\ HeaderWords(T) = {WordOff(m, k) + 1 : k \in 1..K}
             /\ Holds(T, 0, m.verb) /\ T[0 + Len(m.verb) + 1] \in {space, newline}
             /\ \A k \in 1..K : /\ Holds(T, WordOff(m, k), m.headers[k])
                                /\ T[WordOff(m, k) + Len(m.headers[k]) + 1] \in {space, newline}
<1> DEFINE T == TextOf(m)
           V == VerbLine(m)
           n == Len(V)
           K == Len(m.headers)
           v == Len(m.verb)
           Starts == {WordOff(m, k) + 1 : k \in 1..K}
<1>1. T \in Seq(Tokens) /\ V \in Seq(Tokens) /\ Len(T) \in Nat
  BY Parts
<1>2. VerbWords(T) = Words(T, 1) /\ HoldsLine(T, 0, V)
  BY TextStarts
<1>3. /\ n \in Nat /\ K \in Nat /\ v \in 1..n
      /\ \A i \in 1..v : V[i] = m.verb[i]
      /\ v = n \/ V[v + 1] = space
      /\ V[1] # space
      /\ \A i \in 1..n : V[i] = space => \E k \in 1..K : i = WordOff(m, k)
  BY VerbLineWords
<1>4. ASSUME NEW k \in 1..K
      PROVE  LET w == m.headers[k]
                 o == WordOff(m, k)
             IN  /\ o \in Nat /\ v < o /\ o + Len(w) <= n /\ Len(w) \in Nat /\ Len(w) >= 1
                 /\ V[o] = space
                 /\ \A j \in 1..Len(w) : V[o + j] = w[j]
                 /\ o + Len(w) = n \/ V[o + Len(w) + 1] = space
                 /\ IsWord(w) /\ w # <<>> /\ w \in Seq(Tokens)
                 /\ \A j \in 1..Len(w) : w[j] # space
  <2>1. IsWord(m.headers[k]) /\ m.headers[k] \in Seq(Tokens)
    BY Parts
  <2>2. DOMAIN m.headers[k] = 1..Len(m.headers[k])
    BY <2>1
  <2> QED
    BY <2>1, <2>2, VerbLineWords, ZenonT(60) DEF IsWord
<1>5. /\ 0 + n + 1 <= Len(T) /\ \A j \in 1..n : T[0 + j] = V[j]
      /\ T[0 + n + 1] = newline
  BY <1>2 DEF HoldsLine, Holds
<1>6. Line(T, 0 + 1) = 0 + 1..0 + n
  BY <1>1, <1>2, <1>3, LineIs
<1> HIDE DEF T, V, n, K, v
<1>7. /\ n + 1 <= Len(T) /\ \A j \in 1..n : T[j] = V[j]
      /\ T[n + 1] = newline /\ Line(T, 1) = 1..n
  <2>1. 0 + n = n /\ 0 + n + 1 = n + 1 /\ 0 + 1 = 1 /\ \A j \in 1..n : 0 + j = j
    BY <1>3
  <2> QED
    BY <1>5, <1>6, <2>1
<1>8. \A i \in Words(T, 1) : i = 1 \/ i \in Starts
  <2> SUFFICES ASSUME NEW i \in Words(T, 1), i # 1 PROVE i \in Starts
    OBVIOUS
  <2>1. i \in 1..n /\ (i > 1 => T[i - 1] = space)
    BY <1>7 DEF Words
  <2>2. i - 1 \in 1..n /\ i > 1
    BY <1>3, <2>1
  <2>3. V[i - 1] = space
    BY <1>7, <2>1, <2>2
  <2>4. PICK k \in 1..K : i - 1 = WordOff(m, k)
    BY <1>3, <2>2, <2>3
  <2>5. i = WordOff(m, k) + 1
    BY <2>1, <2>4
  <2> QED
    BY <2>5
<1>9. ASSUME NEW k \in 1..K
      PROVE  /\ WordOff(m, k) + 1 \in Words(T, 1) /\ WordOff(m, k) + 1 # 1
             /\ Holds(T, WordOff(m, k), m.headers[k])
             /\ T[WordOff(m, k) + Len(m.headers[k]) + 1] \in {space, newline}
  <2> DEFINE o == WordOff(m, k)
             w == m.headers[k]
  <2>1. /\ o \in Nat /\ v < o /\ o + Len(w) <= n /\ Len(w) \in Nat /\ Len(w) >= 1
        /\ V[o] = space
        /\ \A j \in 1..Len(w) : V[o + j] = w[j]
        /\ o + Len(w) = n \/ V[o + Len(w) + 1] = space
        /\ IsWord(w) /\ w # <<>> /\ w \in Seq(Tokens)
        /\ \A j \in 1..Len(w) : w[j] # space
    BY <1>4
  <2> HIDE DEF o, w
  <2>2. o >= 1 /\ o \in 1..n /\ o + 1 \in 1..n /\ o + 1 - 1 = o /\ o + 1 > 1 /\ 1 \in 1..Len(w)
    BY <1>3, <2>1
  <2>3. T[o] = space /\ T[o + 1] # space
    BY <1>7, <2>1, <2>2
  <2>4. o + 1 \in Words(T, 1)
    <3> DEFINE i == o + 1
    <3>0. i \in 1..n /\ i - 1 = o /\ T[i] # space
      BY <2>2, <2>3
    <3> HIDE DEF i
    <3>1. i \in Line(T, 1) /\ T[i] # space /\ T[i - 1] = space
      BY <1>7, <2>3, <3>0
    <3>2. i \in Words(T, 1)
      BY <3>1 DEF Words
    <3> QED
      BY <3>2 DEF i
  <2>5. \A j \in 1..Len(w) : T[o + j] = w[j]
    <3> SUFFICES ASSUME NEW j \in 1..Len(w) PROVE T[o + j] = w[j]
      OBVIOUS
    <3>0. o \in Nat /\ Len(w) \in Nat /\ n \in Nat /\ o + Len(w) <= n
      BY <1>3, <2>1
    <3>1. o + j \in 1..n
      BY <3>0
    <3>2. T[o + j] = V[o + j]
      BY <1>7, <3>1
    <3> QED
      BY <2>1, <3>2
  <2>6. o + Len(w) + 1 <= Len(T)
    BY <1>1, <1>3, <1>7, <2>1
  <2>7. Holds(T, o, w)
    BY <2>1, <2>5, <2>6 DEF Holds
  <2>8. T[o + Len(w) + 1] \in {space, newline}
    <3>1. CASE o + Len(w) = n
      BY <1>7, <3>1
    <3>2. CASE o + Len(w) # n
      <4>0. o \in Nat /\ Len(w) \in Nat /\ n \in Nat /\ o + Len(w) <= n
        BY <1>3, <2>1
      <4>1. o + Len(w) + 1 \in 1..n
        BY <3>2, <4>0
      <4> QED
        BY <1>7, <2>1, <3>2, <4>1
    <3> QED
      BY <3>1, <3>2
  <2>9. o + 1 # 1
    BY <2>1, <2>2
  <2> QED
    BY <2>4, <2>7, <2>8, <2>9 DEF o, w
<1>10. 1 \in Words(T, 1)
  <2>1. 1 \in 1..n
    BY <1>3
  <2> QED
    BY <1>3, <1>7, <2>1 DEF Words
<1>11. VerbWords(T) = {1} \cup Starts
  BY <1>2, <1>8, <1>9, <1>10 DEF T
<1>12. Min(VerbWords(T)) = 1
  <2>1. \A i \in Words(T, 1) : i \in Nat /\ 1 <= i
    BY <1>7, <1>3 DEF Words
  <2>2. VerbWords(T) = Words(T, 1)
    BY <1>2 DEF T
  <2>3. VerbWords(T) \in SUBSET Nat /\ 1 \in VerbWords(T) /\ \A i \in VerbWords(T) : 1 <= i
    BY <1>10, <2>1, <2>2
  <2> QED
    BY <2>3, MinIs
<1>13. HeaderWords(T) = Starts
  <2>1. \A i \in Starts : i # 1
    BY <1>9
  <2> HIDE DEF Starts
  <2> QED
    BY <1>11, <1>12, <2>1 DEF HeaderWords
<1>14. Holds(T, 0, m.verb) /\ T[0 + Len(m.verb) + 1] \in {space, newline}
  <2>1. m.verb \in Seq(Tokens) /\ m.verb # <<>>
    BY DEF IsWord
  <2>0. v \in 1..n /\ n \in Nat /\ n + 1 <= Len(T) /\ Len(T) \in Nat
    BY <1>1, <1>3, <1>7
  <2>2. 0 + v = v /\ 0 + v + 1 = v + 1 /\ v + 1 <= Len(T)
    BY <2>0
  <2>3. \A j \in 1..v : T[0 + j] = m.verb[j]
    <3> SUFFICES ASSUME NEW j \in 1..v PROVE T[0 + j] = m.verb[j]
      OBVIOUS
    <3>1. 0 + j = j /\ j \in 1..n
      BY <1>3
    <3> QED
      BY <1>3, <1>7, <3>1
  <2>4. T[v + 1] \in {space, newline}
    <3>1. CASE v = n
      BY <1>7, <3>1
    <3>2. CASE v # n
      <4>1. v + 1 \in 1..n
        BY <1>3, <3>2
      <4> QED
        BY <1>3, <1>7, <3>2, <4>1
    <3> QED
      BY <3>1, <3>2
  <2> QED
    BY <2>1, <2>2, <2>3, <2>4 DEF Holds, v
<1> QED
  BY <1>9, <1>11, <1>12, <1>13, <1>14 DEF T, K

(* The verb and the un-named headers are read back. *)
LEMMA VerbBack ==
  ASSUME NEW m, IsMessage(m), m.verb # NULL, IsWord(m.verb)
  PROVE  /\ VerbWords(TextOf(m)) # {}
         /\ ParsedVerb(TextOf(m)) = m.verb /\ ParsedHeaders(TextOf(m)) = m.headers
<1> DEFINE T == TextOf(m)
           K == Len(m.headers)
           P == [k \in 1..K |-> WordOff(m, k) + 1]
<1>1. /\ VerbWords(T) = {1} \cup {WordOff(m, k) + 1 : k \in 1..K}
      /\ Min(VerbWords(T)) = 1
      /\ HeaderWords(T) = {WordOff(m, k) + 1 : k \in 1..K}
      /\ Holds(T, 0, m.verb) /\ T[0 + Len(m.verb) + 1] \in {space, newline}
      /\ \A k \in 1..K : /\ Holds(T, WordOff(m, k), m.headers[k])
                         /\ T[WordOff(m, k) + Len(m.headers[k]) + 1] \in {space, newline}
  BY VerbWordsAre
<1>2. T \in Seq(Tokens) /\ m.headers \in Seq(Seq(Tokens)) /\ K \in Nat
      /\ \A k \in 1..K : IsWord(m.headers[k])
  BY Parts
<1>3. /\ \A k \in 1..K : WordOff(m, k) \in Nat
      /\ \A k \in 1..K : \A l \in k + 1..K : WordOff(m, k) < WordOff(m, l)
  BY VerbLineWords
<1> HIDE DEF T, K
<1>4. VerbWords(T) # {}
  BY <1>1
<1>5. ParsedVerb(T) = m.verb
  <2>1. WordAt(T, 0 + 1) = m.verb
    BY <1>1, <1>2, WordAtIs
  <2>2. 0 + 1 = 1
    OBVIOUS
  <2> QED
    BY <1>1, <1>4, <2>1, <2>2 DEF ParsedVerb
<1>6. Ascending(HeaderWords(T)) = P
  <2>1. P \in [1..K -> Nat]
    BY <1>3
  <2>2. \A i, j \in 1..K : i < j => P[i] < P[j]
    <3> SUFFICES ASSUME NEW i \in 1..K, NEW j \in 1..K, i < j PROVE P[i] < P[j]
      OBVIOUS
    <3>1. j \in i + 1..K
      BY <1>2
    <3>2. WordOff(m, i) \in Nat /\ WordOff(m, j) \in Nat /\ WordOff(m, i) < WordOff(m, j)
      BY <1>3, <3>1
    <3>3. P[i] = WordOff(m, i) + 1 /\ P[j] = WordOff(m, j) + 1
      OBVIOUS
    <3> HIDE DEF P
    <3> QED
      BY <3>2, <3>3
  <2>3. HeaderWords(T) = {P[i] : i \in 1..K}
    BY <1>1
  <2> HIDE DEF P
  <2> QED
    BY <1>2, <2>1, <2>2, <2>3, AscendingIs
<1>7. \A k \in 1..K : WordAt(T, P[k]) = m.headers[k]
  <2> SUFFICES ASSUME NEW k \in 1..K PROVE WordAt(T, P[k]) = m.headers[k]
    OBVIOUS
  <2>1. WordAt(T, WordOff(m, k) + 1) = m.headers[k]
    BY <1>1, <1>2, WordAtIs
  <2> QED
    BY <2>1
<1>8. ParsedHeaders(T) = m.headers
  <2>1. DOMAIN P = 1..K
    OBVIOUS
  <2> HIDE DEF P
  <2>2. ParsedHeaders(T) = [k \in 1..K |-> WordAt(T, P[k])]
    BY <1>6, <2>1 DEF ParsedHeaders
  <2>3. ParsedHeaders(T) = [k \in 1..K |-> m.headers[k]]
    BY <1>7, <2>2
  <2>4. m.headers = [k \in 1..K |-> m.headers[k]]
    BY <1>2 DEF K
  <2> QED
    BY <2>3, <2>4
<1> QED
  BY <1>4, <1>5, <1>8 DEF T

(* The named headers are read back, without the newline at their end. *)
LEMMA NamedBack ==
  ASSUME NEW m, IsMessage(m), m.verb # NULL, IsWord(m.verb)
  PROVE  /\ \A i \in NamedLines(TextOf(m)) : ParsesNamedHeader(TextOf(m), i)
         /\ ParsedNamedHeaders(TextOf(m))
              = [k \in DOMAIN m.named_headers |-> Stripped(m.named_headers[k])]
<1> DEFINE T == TextOf(m)
           H == m.named_headers
           N == Len(H)
           length == <<Length(Len(m.body))>>
           P == [k \in 1..N |-> Off(m, k) + 1]
<1>1. T \in Seq(Tokens) /\ H \in Seq(Seq(Tokens)) /\ N \in Nat /\ DOMAIN H = 1..N
      /\ m.body \in Seq(Tokens)
  BY Parts
<1>2. ASSUME NEW k \in 1..N
      PROVE  /\ HasColon(T, Off(m, k) + 1)
             /\ IsLength(T, Off(m, k) + 1) <=> H[k] = length
             /\ IsLength(T, Off(m, k) + 1) => LengthOf(T, Off(m, k) + 1) # 0
             /\ StrippedLine(T, Off(m, k) + 1) = Stripped(H[k])
  <2> DEFINE h == H[k]
             s == Stripped(h)
             o == Off(m, k)
  <2>1. /\ s \in Seq(Tokens) /\ s # <<>>
        /\ s[1] # space /\ s[Len(s)] \notin {space, dot}
        /\ \E j \in 1..Len(s) : s[j].text \in {"key:val", "Content-Length:n"}
        /\ s[1].text = "Content-Length:n" <=> h = length
        /\ h = length => m.body # <<>> /\ s[1].n = Len(m.body)
    BY StrippedLines
  <2>2. HoldsLine(T, o, s)
    BY NamedAt
  <2> HIDE DEF T, h, s, o, length
  <2>3. /\ HasColon(T, o + 1) <=>
             \E j \in 1..Len(s) : s[j].text \in {"key:val", "Content-Length:n"}
        /\ IsLength(T, o + 1) <=> s[1].text = "Content-Length:n"
        /\ LengthOf(T, o + 1) = s[1].n
        /\ s[Len(s)] # space => StrippedLine(T, o + 1) = s
    BY <1>1, <2>1, <2>2, LineIs, ZenonT(60)
  <2>4. m.body # <<>> => Len(m.body) # 0
    BY <1>1, EmptySeq
  <2> QED
    BY <2>1, <2>3, <2>4 DEF h, s, o
<1>3. NamedLines(T) = {Off(m, k) + 1 : k \in 1..N}
  BY TextStarts
<1>4. \A k, l \in 1..N : H[k] = length /\ H[l] = length => k = l
  BY OneLength
<1>5. /\ \A k \in 1..N : Off(m, k) \in Nat
      /\ \A k \in 1..N : \A l \in k + 1..N : Off(m, k) < Off(m, l)
  <2> SUFFICES ASSUME NEW k \in 1..N
               PROVE  Off(m, k) \in Nat /\ \A l \in k + 1..N : Off(m, k) < Off(m, l)
    OBVIOUS
  <2> DEFINE o == Off(m, k)
             h == H[k]
  <2>1. /\ o \in Nat /\ Len(h) \in Nat
        /\ \A l \in k + 1..N : o + Len(h) + 1 <= Off(m, l)
    BY TextLines
  <2>2. \A l \in k + 1..N : Off(m, l) \in Nat
    <3> TAKE l \in k + 1..N
    <3>1. l \in 1..N
      BY <1>1
    <3> QED
      BY <3>1, TextLines
  <2> HIDE DEF o, h
  <2> SUFFICES ASSUME NEW l \in k + 1..N PROVE o < Off(m, l)
    BY <2>1 DEF o
  <2>3. Off(m, l) \in Nat /\ o + Len(h) + 1 <= Off(m, l)
    BY <2>1, <2>2
  <2> QED
    BY <2>1, <2>3
<1> HIDE DEF T, H, N, length
<1>6. \A i \in NamedLines(T) : ParsesNamedHeader(T, i)
  BY <1>2, <1>3 DEF ParsesNamedHeader
<1>7. \A i, j \in LengthLines(T) : i = j
  BY <1>2, <1>3, <1>4 DEF LengthLines
<1>8. {i \in NamedLines(T) : IsLength(T, i) => i = Max(LengthLines(T))} = NamedLines(T)
  <2> SUFFICES ASSUME NEW i \in NamedLines(T), IsLength(T, i) PROVE i = Max(LengthLines(T))
    OBVIOUS
  <2>1. i \in LengthLines(T)
    BY DEF LengthLines
  <2>2. LengthLines(T) \in SUBSET Nat
    BY <1>3, <1>5 DEF LengthLines
  <2>3. \A j \in LengthLines(T) : j <= i
    BY <1>7, <2>1, <2>2
  <2> QED
    BY <2>1, <2>2, <2>3, MaxIs
<1>9. Ascending(NamedLines(T)) = P
  <2>1. P \in [1..N -> Nat]
    BY <1>5
  <2>2. \A i, j \in 1..N : i < j => P[i] < P[j]
    <3> SUFFICES ASSUME NEW i \in 1..N, NEW j \in 1..N, i < j PROVE P[i] < P[j]
      OBVIOUS
    <3>1. j \in i + 1..N
      BY <1>1
    <3>2. Off(m, i) \in Nat /\ Off(m, j) \in Nat /\ Off(m, i) < Off(m, j)
      BY <1>5, <3>1
    <3>3. P[i] = Off(m, i) + 1 /\ P[j] = Off(m, j) + 1
      OBVIOUS
    <3> HIDE DEF P
    <3> QED
      BY <3>2, <3>3
  <2>3. NamedLines(T) = {P[i] : i \in 1..N}
    BY <1>3
  <2> HIDE DEF P
  <2> QED
    BY <1>1, <2>1, <2>2, <2>3, AscendingIs
<1>10. \A k \in 1..N : StrippedLine(T, P[k]) = Stripped(H[k])
  BY <1>2
<1>11. ParsedNamedHeaders(T) = [k \in DOMAIN H |-> Stripped(H[k])]
  <2>1. DOMAIN P = 1..N
    OBVIOUS
  <2> HIDE DEF P
  <2>2. ParsedNamedHeaders(T) = [k \in 1..N |-> StrippedLine(T, P[k])]
    BY <1>8, <1>9, <2>1 DEF ParsedNamedHeaders
  <2> QED
    BY <1>1, <1>10, <2>2
<1> QED
  BY <1>6, <1>11 DEF T, H

(* A message whose verb is empty has nothing else. *)
LEMMA EmptyMessage ==
  ASSUME NEW m, IsMessage(m), m.verb # NULL, m.verb = <<>>
  PROVE  /\ m.headers = <<>> /\ m.named_headers = <<>> /\ m.body = <<>>
         /\ TextOf(m) = <<newline>>
<1>1. m.headers = <<>> /\ m.named_headers = <<>>
  BY DEF IsMessage, IsWord
<1>2. DOMAIN m.named_headers = {} /\ DOMAIN m.headers = {}
  BY <1>1
<1>3. m.body = <<>>
  BY <1>2 DEF IsMessage
<1>4. /\ Len(Spaced(m)) = 0 /\ Len(Printed(m)) = 0
      /\ Spaced(m) \in Seq(Seq(Tokens)) /\ Printed(m) \in Seq(Seq(Tokens))
  <2>1. /\ Len(Spaced(m)) = Len(m.headers) /\ Len(Printed(m)) = Len(m.named_headers)
        /\ Spaced(m) \in Seq(Seq(Tokens)) /\ Printed(m) \in Seq(Seq(Tokens))
    BY Parts
  <2>2. Len(m.headers) = 0 /\ Len(m.named_headers) = 0
    BY <1>1
  <2> QED
    BY <2>1, <2>2
<1>5. FlattenSeq(Spaced(m)) = <<>> /\ FlattenSeq(Printed(m)) = <<>>
  BY <1>4, FlattenSeqIs
<1>6. TextOf(m) = <<newline>>
  <2>1. VerbLine(m) = <<>>
    <3>1. <<>> \in Seq(Tokens)
      OBVIOUS
    <3>2. <<>> \o <<>> = <<>>
      BY <3>1, ConcatEmptySeq
    <3> QED
      BY <1>5, <3>2 DEF VerbLine
  <2>0. newline \in Tokens
    BY TokensDiffer
  <2>2. <<newline>> \in Seq(Tokens)
    BY <2>0
  <2>3. <<>> \o <<newline>> = <<newline>> /\ <<newline>> \o <<>> = <<newline>>
    BY <2>2
  <2> QED
    BY <1>5, <2>1, <2>3 DEF TextOf
<1> QED
  BY <1>1, <1>3, <1>6

(* What is read of the text of such a message: no verb, and no header. *)
LEMMA EmptyBack ==
  LET T == <<newline>> IN
  /\ HeaderParses(T) /\ ParsedVerb(T) = NULL
  /\ ParsedHeaders(T) = <<>> /\ ParsedNamedHeaders(T) = <<>>
<1> DEFINE T == <<newline>>
<1>1. Lines(T) = {}
  BY DEF Lines
<1> HIDE DEF T
<1>2. NamedLines(T) = {} /\ VerbWords(T) = {}
  BY <1>1 DEF NamedLines, VerbWords
<1>3. HeaderWords(T) = {}
  BY <1>2 DEF HeaderWords
<1>4. Ascending({}) = [k \in 1..0 |-> 0]
  <2> DEFINE P == [k \in 1..0 |-> 0]
  <2>1. P \in [1..0 -> Nat] /\ \A i, j \in 1..0 : i < j => P[i] < P[j]
    OBVIOUS
  <2>2. {} = {P[i] : i \in 1..0}
    OBVIOUS
  <2> HIDE DEF P
  <2>3. Ascending({}) = P
    BY <2>1, <2>2, AscendingIs
  <2> QED
    BY <2>3 DEF P
<1>5. DOMAIN Ascending({}) = {}
  BY <1>4
<1>6. ParsedHeaders(T) = <<>>
  BY <1>3, <1>5 DEF ParsedHeaders
<1>7. ParsedNamedHeaders(T) = <<>>
  <2> DEFINE kept == {i \in NamedLines(T) : IsLength(T, i) => i = Max(LengthLines(T))}
  <2>1. kept = {}
    BY <1>2
  <2>2. ParsedNamedHeaders(T)
          = [k \in DOMAIN Ascending(kept) |-> StrippedLine(T, Ascending(kept)[k])]
    BY DEF ParsedNamedHeaders
  <2> HIDE DEF kept
  <2>3. DOMAIN Ascending(kept) = {}
    BY <1>5, <2>1
  <2> QED
    BY <2>2, <2>3
<1>8. HeaderParses(T) /\ ParsedVerb(T) = NULL
  BY <1>1, <1>2 DEF HeaderParses, ParsedVerb
<1> QED
  BY <1>6, <1>7, <1>8 DEF T

(***************************************************************************)
(* What the parser reads of the text that hms_msg_print_header writes for  *)
(* a message is the message: verb, un-named headers and named headers, in  *)
(* order, with the newline at the end of a value gone.  An empty verb is   *)
(* read as none.                                                           *)
(***************************************************************************)
THEOREM HeaderReadBack ==
  ASSUME NEW m, IsMessage(m), m.verb # NULL
  PROVE  LET T == TextOf(m) IN
         /\ HeaderParses(T)
         /\ ParsedVerb(T) = IF m.verb = <<>> THEN NULL ELSE m.verb
         /\ ParsedHeaders(T) = m.headers
         /\ ParsedNamedHeaders(T) = [i \in DOMAIN m.named_headers |-> Stripped(m.named_headers[i])]
<1>1. CASE m.verb = <<>>
  <2>1. m.headers = <<>> /\ m.named_headers = <<>> /\ TextOf(m) = <<newline>>
    BY <1>1, EmptyMessage
  <2>2. [i \in DOMAIN m.named_headers |-> Stripped(m.named_headers[i])] = <<>>
    BY <2>1
  <2> QED
    BY <1>1, <2>1, <2>2, EmptyBack
<1>2. CASE m.verb # <<>>
  <2>1. IsWord(m.verb)
    BY <1>2 DEF IsMessage
  <2> QED
    BY <1>2, <2>1, VerbBack, NamedBack DEF HeaderParses
<1> QED
  BY <1>1, <1>2

(* A period or a space in the text is never the last thing in its line. *)
LEMMA NoPeriodEnds ==
  ASSUME NEW m, IsMessage(m), m.verb # NULL, NEW n \in 2..Len(TextOf(m)),
         TextOf(m)[n] = newline
  PROVE  TextOf(m)[n - 1] \notin {dot, space}
<1> DEFINE T == TextOf(m)
           V == VerbLine(m)
           H == m.named_headers
           N == Len(H)
           b == Len(V)
<1>1. IsWord(m.verb)
  <2> SUFFICES ASSUME m.verb = <<>> PROVE FALSE
    BY DEF IsMessage
  <2>1. Len(TextOf(m)) = 1
    BY EmptyMessage
  <2> QED
    BY <2>1
<1>2. /\ b + 1 \in 1..Len(T) /\ Len(T) \in Nat /\ T[b + 1] = newline
      /\ \A i \in 1..b + 1 - 1 : T[i] = V[i]
      /\ \A i \in b + 1 + 1..Len(T) : \E k \in 1..N :
           \E j \in 1..Len(H[k]) + 1 : i = Off(m, k) + j
  BY TextLines
<1>3. /\ b \in Nat /\ b >= 1 /\ V[b] \notin {space, dot}
      /\ \A i \in 1..b : V[i] # newline
  <2>1. b \in Nat /\ Len(m.verb) \in 1..b /\ V[b] \notin {space, dot} /\ \A i \in 1..b : V[i] # newline
    BY <1>1, VerbLineWords
  <2> QED
    BY <2>1
<1>4. newline \notin {dot, space}
  BY TokensDiffer
<1>5. n \in 2..Len(T) /\ T[n] = newline
  OBVIOUS
<1>6. \A k \in 1..N : \A j \in 1..Len(H[k]) + 1 : n = Off(m, k) + j => T[n - 1] \notin {dot, space}
  <2> SUFFICES ASSUME NEW k \in 1..N, NEW j \in 1..Len(H[k]) + 1, n = Off(m, k) + j
               PROVE  T[n - 1] \notin {dot, space}
    OBVIOUS
  <2> DEFINE o == Off(m, k)
             h == H[k]
             s == Stripped(h)
  <2>1. /\ o \in Nat
        /\ T[o] = newline
        /\ \A i \in 1..Len(h) : T[o + i] = h[i]
    BY TextLines
  <2>2. /\ Len(s) \in Nat /\ Len(s) >= 1 /\ Len(h) \in Nat
        /\ Len(s) <= Len(h) /\ Len(h) <= Len(s) + 1
        /\ \A i \in 1..Len(s) : s[i] = h[i] /\ s[i] # newline
        /\ Len(s) < Len(h) => h[Len(h)] = newline
        /\ s[Len(s)] \notin {space, dot}
    <3>1. /\ Len(s) \in Nat /\ Len(s) >= 1 /\ Len(h) \in Nat
          /\ Len(s) <= Len(h) /\ Len(h) <= Len(s) + 1
          /\ Len(s) < Len(h) => h[Len(h)] = newline
      BY StrippedLines
    <3>2. \A i \in 1..Len(s) : s[i] = h[i] /\ s[i] # newline
      BY StrippedLines, ZenonT(60)
    <3>3. s[Len(s)] \notin {space, dot}
      BY StrippedLines
    <3> HIDE DEF s, h
    <3> QED
      BY <3>1, <3>2, <3>3
  <2> HIDE DEF s, h
  <2>3. n = o + j /\ j \in 1..Len(h) + 1
    BY DEF h
  <2> HIDE DEF T, V, H, N, b, o
  <2>4. CASE j = 1
    <3>1. n - 1 = o
      BY <2>1, <2>3, <2>4
    <3> QED
      BY <1>4, <2>1, <3>1
  <2>5. CASE j # 1
    <3>1. j - 1 \in 1..Len(h) /\ n - 1 = o + (j - 1)
      BY <2>1, <2>2, <2>3, <2>5
    <3>2. T[n - 1] = h[j - 1]
      BY <2>1, <3>1
    <3>3. j > Len(s)
      <4> SUFFICES ASSUME j <= Len(s) PROVE FALSE
        BY <2>2, <2>3
      <4>1. j \in 1..Len(s) /\ j \in 1..Len(h)
        BY <2>2, <2>3
      <4>2. T[n] = h[j]
        BY <2>1, <2>3, <4>1
      <4> QED
        BY <1>5, <2>2, <4>1, <4>2
    <3>4. CASE j - 1 = Len(s)
      <4>1. Len(s) \in 1..Len(s)
        BY <2>2
      <4> QED
        BY <2>2, <3>2, <3>4, <4>1
    <3>5. CASE j - 1 # Len(s)
      <4>1. j \in Nat /\ Len(s) \in Nat /\ Len(h) \in Nat /\ j <= Len(h) + 1 /\ Len(h) <= Len(s) + 1
        BY <2>2, <2>3
      <4>2. j - 1 = Len(h) /\ Len(s) < Len(h)
        BY <3>3, <3>5, <4>1
      <4> QED
        BY <1>4, <2>2, <3>2, <4>2
    <3> QED
      BY <3>4, <3>5
  <2> QED
    BY <2>4, <2>5
<1> HIDE DEF T, V, H, N, b
<1>7. ASSUME n <= b PROVE T[n - 1] \notin {dot, space}
  <2>1. n \in 1..b /\ n \in 1..b + 1 - 1
    BY <1>3, <1>5, <1>7
  <2> QED
    BY <1>2, <1>3, <1>5, <2>1
<1>8. ASSUME n = b + 1 PROVE T[n - 1] \notin {dot, space}
  <2>1. n - 1 = b /\ b \in 1..b + 1 - 1
    BY <1>3, <1>8
  <2>2. T[b] = V[b]
    BY <1>2, <2>1
  <2> QED
    BY <1>3, <2>1, <2>2
<1>9. ASSUME n > b + 1 PROVE T[n - 1] \notin {dot, space}
  <2>0. n \in 2..Len(T) /\ b \in Nat
    BY <1>3, <1>5
  <2>1. n \in b + 1 + 1..Len(T)
    BY <1>9, <2>0
  <2>2. PICK k \in 1..N : \E j \in 1..Len(H[k]) + 1 : n = Off(m, k) + j
    BY <1>2, <2>1
  <2> QED
    BY <1>6, <2>2
<1>10. T[n - 1] \notin {dot, space}
  <2>1. b \in Nat /\ n \in Nat
    BY <1>2, <1>3, <1>5
  <2>2. n <= b \/ n = b + 1 \/ n > b + 1
    BY <2>1
  <2> QED
    BY <1>7, <1>8, <1>9, <2>2
<1> QED
  BY <1>10 DEF T

(***************************************************************************)
(* The parser, which looks for the end of the header byte after byte,      *)
(* sees it at the end of what hms_msg_print_header wrote and nowhere       *)
(* before, whatever follows; what it cuts off is the text of the message.  *)
(***************************************************************************)
THEOREM HeaderEndFound ==
  ASSUME NEW m, IsMessage(m), m.verb # NULL, NEW s \in Seq(Tokens),
         \A i \in 1..Len(s) : i <= Len(print_header(m)) => s[i] = print_header(m)[i]
  PROVE  LET H == print_header(m) IN
         /\ H \in Seq(Tokens) /\ Len(H) \in Nat /\ Len(H) > 2
         /\ \A n \in 1..Len(s) : n <= Len(H) => (Terminated(s, n) <=> n = Len(H))
         /\ Len(s) >= Len(H) =>
              /\ Max({i \in 1..Len(H) : s[i] = dot}) = Len(H) - 1
              /\ SubSeq(s, 1, Len(H) - 2) = TextOf(m)
<1> DEFINE H == print_header(m)
           T == TextOf(m)
           t == Len(T)
<1>1. H = T \o <<dot, newline>> /\ T \in Seq(Tokens) /\ <<dot, newline>> \in Seq(Tokens)
  <2>0. dot \in Tokens /\ newline \in Tokens
    BY TokensDiffer
  <2> HIDE DEF H, T
  <2>1. <<dot, newline>> \in Seq(Tokens)
    BY <2>0
  <2> QED
    BY <2>1, Parts DEF H, T
<1>2. t \in Nat /\ t >= 1
  <2>1. /\ Len(VerbLine(m)) + 1 \in 1..Len(TextOf(m)) /\ Len(TextOf(m)) \in Nat
        /\ VerbLine(m) \in Seq(Tokens)
    BY TextLines, Parts
  <2> QED
    BY <2>1
<1>3. \A n \in 2..t : T[n] = newline => T[n - 1] \notin {dot, space}
  BY NoPeriodEnds
<1>4. \A i \in 1..Len(s) : i <= Len(H) => s[i] = H[i]
  OBVIOUS
<1> HIDE DEF H, T
<1>5. /\ H \in Seq(Tokens) /\ Len(H) = t + 2
      /\ \A i \in 1..t : H[i] = T[i]
      /\ H[t + 1] = dot /\ H[t + 2] = newline
  <2> DEFINE e == <<dot, newline>>
  <2>1. Len(e) = 2 /\ e[1] = dot /\ e[2] = newline
    OBVIOUS
  <2> HIDE DEF e
  <2>2. /\ H \in Seq(Tokens) /\ Len(H) = Len(T) + Len(e)
        /\ \A i \in 1..Len(T) : H[i] = T[i]
        /\ \A i \in 1..Len(e) : H[Len(T) + i] = e[i]
    <3>1. e \in Seq(Tokens) /\ H = T \o e
      BY <1>1 DEF e
    <3> QED
      BY <1>1, <3>1, TwoParts
  <2>3. 1 \in 1..Len(e) /\ 2 \in 1..Len(e)
    BY <2>1
  <2> QED
    BY <2>1, <2>2, <2>3
<1> HIDE DEF t
<1>6. Len(s) \in Nat /\ DOMAIN s = 1..Len(s) /\ dot # newline /\ space # newline /\ dot # space
  <2>1. dot # newline /\ space # newline /\ dot # space
    BY TokensDiffer
  <2> QED
    BY <2>1
<1>7. ASSUME NEW n \in 1..Len(s), n <= Len(H), Terminated(s, n)
      PROVE  n = Len(H)
  <2>1. s[n] = newline
    BY <1>7 DEF Terminated
  <2>2. PICK i \in 1..n - 1 : s[i] = dot /\ \A j \in i + 1..n - 1 : s[j] = space
    BY <1>7 DEF Terminated
  <2>3. i \in Nat /\ i >= 1 /\ i <= n - 1 /\ n \in Nat /\ n <= t + 2 /\ n <= Len(s)
    BY <1>2, <1>5, <1>6, <1>7, <2>2
  <2>4. n >= 2 /\ n - 1 \in 1..Len(s) /\ n - 1 <= Len(H) /\ n \in 1..Len(s)
    BY <1>2, <1>5, <1>6, <2>3
  <2>5. s[n - 1] \in {dot, space}
    <3>1. CASE i = n - 1
      BY <2>2, <3>1
    <3>2. CASE i # n - 1
      <4>1. n - 1 \in i + 1..n - 1
        BY <2>3, <3>2
      <4> QED
        BY <2>2, <4>1
    <3> QED
      BY <3>1, <3>2
  <2>6. H[n] = newline /\ H[n - 1] \in {dot, space}
    BY <1>4, <1>7, <2>1, <2>4, <2>5
  <2>7. n # t + 1
    BY <1>5, <1>6, <2>6
  <2>8. ~(n <= t)
    <3> SUFFICES ASSUME n <= t PROVE FALSE
      OBVIOUS
    <3>1. n \in 2..t /\ n \in 1..t /\ n - 1 \in 1..t
      BY <1>2, <2>3, <2>4
    <3>2. T[n] = newline /\ T[n - 1] \in {dot, space}
      BY <1>5, <2>6, <3>1
    <3> QED
      BY <1>3, <3>1, <3>2
  <2> QED
    BY <1>2, <1>5, <2>3, <2>7, <2>8
<1>8. ASSUME Len(s) >= Len(H)
      PROVE  /\ Terminated(s, Len(H))
             /\ Max({i \in 1..Len(H) : s[i] = dot}) = Len(H) - 1
             /\ SubSeq(s, 1, Len(H) - 2) = T
  <2>1. /\ Len(H) \in 1..Len(s) /\ Len(H) - 1 \in 1..Len(s) /\ Len(H) - 1 <= Len(H)
        /\ Len(H) - 1 \in 1..Len(H) /\ Len(H) = t + 2 /\ Len(H) - 1 = t + 1 /\ Len(H) - 2 = t
        /\ t \in 1..Len(s) /\ Len(H) \in Nat /\ Len(H) <= Len(H)
    BY <1>2, <1>5, <1>6, <1>8
  <2>2. s[Len(H)] = newline /\ s[Len(H) - 1] = dot
    BY <1>4, <1>5, <2>1
  <2>3. Terminated(s, Len(H))
    <3>1. \A j \in Len(H) - 1 + 1..Len(H) - 1 : FALSE
      BY <2>1
    <3>2. Len(H) - 1 \in 1..Len(H) - 1
      BY <1>2, <2>1
    <3> QED
      BY <2>2, <3>1, <3>2 DEF Terminated
  <2>4. Max({i \in 1..Len(H) : s[i] = dot}) = Len(H) - 1
    <3> DEFINE S == {i \in 1..Len(H) : s[i] = dot}
    <3>1. S \in SUBSET Nat /\ Len(H) - 1 \in S
      BY <2>1, <2>2
    <3>2. \A i \in S : i <= Len(H) - 1
      BY <1>6, <2>1, <2>2
    <3> HIDE DEF S
    <3>3. Max(S) = Len(H) - 1
      BY <3>1, <3>2, MaxIs
    <3> QED
      BY <3>3 DEF S
  <2>5. SubSeq(s, 1, t) = T
    <3>0. \A i \in 1..t : i \in 1..Len(s) /\ i <= Len(H)
      BY <1>6, <2>1
    <3>1. \A i \in 1..t : s[i] = T[i]
      BY <1>4, <1>5, <3>0
    <3>2. /\ SubSeq(s, 1, t) \in Seq(Tokens) /\ Len(SubSeq(s, 1, t)) = t
          /\ \A i \in 1..t : SubSeq(s, 1, t)[i] = s[i]
      BY <1>2, <2>1
    <3>3. Len(T) = t /\ T \in Seq(Tokens)
      BY <1>1 DEF t
    <3> DEFINE q == SubSeq(s, 1, t)
    <3> HIDE DEF q
    <3>4. q \in Seq(Tokens) /\ Len(q) = t /\ \A i \in 1..t : q[i] = T[i]
      BY <3>1, <3>2 DEF q
    <3>5. q = T
      BY <3>3, <3>4, SeqEqual
    <3> QED
      BY <3>5 DEF q
  <2> QED
    BY <2>1, <2>3, <2>4, <2>5
<1>9. Len(H) \in Nat /\ Len(H) > 2
  BY <1>2, <1>5
<1>10. \A n \in 1..Len(s) : n <= Len(H) => (Terminated(s, n) <=> n = Len(H))
  <2> SUFFICES ASSUME NEW n \in 1..Len(s), n <= Len(H)
               PROVE  Terminated(s, n) <=> n = Len(H)
    OBVIOUS
  <2>1. n = Len(H) => Len(s) >= Len(H)
    BY <1>6
  <2> QED
    BY <1>7, <1>8, <2>1
<1> QED
  BY <1>5, <1>8, <1>9, <1>10 DEF H, T
===========================================================================
