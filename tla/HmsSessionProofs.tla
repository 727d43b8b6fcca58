------------------------- MODULE HmsSessionProofs -------------------------
(***************************************************************************)
(* The proofs about a session: an inductive invariant says which tokens    *)
(* are on their way in each direction, and that what the parser makes of   *)
(* them are the messages that were sent and the replies that are due.      *)
(***************************************************************************)
EXTENDS HmsSession, HmsHeaderProofs

(* The message that the parser makes *)

(* A header that is alone in its text is Content-Length by its first       *)
(* token.                                                                  *)
LEMMA IsLengthAlone ==
  ASSUME NEW s \in Seq(Tokens), s # <<>>, s[1] # space, s[1] # newline
  PROVE  /\ IsLength(s, 1) <=> s[1].text = "Content-Length:n"
         /\ LengthOf(s, 1) = s[1].n
<1>1. Len(s) \in Nat /\ Len(s) >= 1 /\ DOMAIN s = 1..Len(s)
  BY EmptySeq
<1>2. 1 \in Line(s, 1) /\ Line(s, 1) \in SUBSET 1..Len(s)
  <2>1. 1 \in 1..Len(s) /\ \A k \in 1..1 : k = 1
    BY <1>1
  <2> QED
    BY <1>1, <2>1 DEF Line
<1>3. 1 \in Words(s, 1) /\ Words(s, 1) \in SUBSET 1..Len(s)
  BY <1>2 DEF Words
<1>4. Min(Words(s, 1)) = 1
  <2>1. Words(s, 1) \in SUBSET Nat /\ \A i \in Words(s, 1) : 1 <= i
    BY <1>1, <1>3
  <2> QED
    BY <1>3, <2>1, MinIs
<1> QED
  BY <1>3, <1>4 DEF IsLength, LengthOf

(* The length that Content-Length gives is that of the body. *)
LEMMA BodyLenIs ==
  ASSUME NEW m, IsMessage(m), m.verb # NULL,
         NEW msg, msg.named_headers = [i \in DOMAIN m.named_headers |-> Stripped(m.named_headers[i])]
  PROVE  BodyLen(msg) = Len(m.body)
<1> DEFINE H == m.named_headers
           N == Len(H)
           S == msg.named_headers
           length == <<Length(Len(m.body))>>
           I == {i \in 1..Len(S) : IsLength(S[i], 1)}
<1>1. H \in Seq(Seq(Tokens)) /\ m.body \in Seq(Tokens)
  BY Parts
<1>2. S = [i \in 1..N |-> Stripped(H[i])] /\ N \in Nat
  BY <1>1
<1>3. ASSUME NEW i \in 1..N
      PROVE  /\ IsLength(S[i], 1) <=> H[i] = length
             /\ H[i] = length => LengthOf(S[i], 1) = Len(m.body) /\ m.body # <<>>
  <2> DEFINE h == H[i]
             s == Stripped(h)
  <2>1. /\ s \in Seq(Tokens) /\ s # <<>> /\ Len(s) \in Nat /\ Len(s) >= 1
        /\ \A j \in 1..Len(s) : s[j] = h[j] /\ s[j] # newline
        /\ s[1] # space
        /\ s[1].text = "Content-Length:n" <=> h = length
        /\ h = length => m.body # <<>> /\ s[1].n = Len(m.body)
    <3>1. /\ s \in Seq(Tokens) /\ s # <<>> /\ Len(s) \in Nat /\ Len(s) >= 1
          /\ \A j \in 1..Len(s) : s[j] = h[j] /\ s[j] # newline
      BY StrippedLines
    <3>2. /\ s[1] # space
          /\ s[1].text = "Content-Length:n" <=> h = length
          /\ h = length => m.body # <<>> /\ s[1].n = Len(m.body)
      BY StrippedLines
    <3> HIDE DEF h, s, length
    <3> QED
      BY <3>1, <3>2
  <2>2. S[i] = s
    BY <1>2
  <2> HIDE DEF h, s, length, S, H
  <2>3. s[1] # newline
    <3>1. 1 \in 1..Len(s)
      BY <2>1
    <3> QED
      BY <2>1, <3>1
  <2>4. /\ IsLength(s, 1) <=> s[1].text = "Content-Length:n"
        /\ LengthOf(s, 1) = s[1].n
    BY <2>1, <2>3, IsLengthAlone
  <2> QED
    BY <2>1, <2>2, <2>4 DEF h
<1>4. Len(S) = N
  BY <1>2
<1>5. BodyLen(msg) = LET i == IF I # {} THEN Min(I) ELSE 0
                     IN  IF i = 0 THEN 0 ELSE LengthOf(S[i], 1)
  BY DEF BodyLen, SelectInSeq
<1>6. /\ \A k, l \in 1..N : H[k] = length /\ H[l] = length => k = l
      /\ m.body # <<>> => \E k \in 1..N : H[k] = length
  BY OneLength
<1>7. m.body = <<>> <=> Len(m.body) = 0
  BY <1>1, EmptySeq
<1> HIDE DEF S, H, N, length
<1>8. I = {i \in 1..N : H[i] = length}
  BY <1>3, <1>4
<1>9. CASE m.body = <<>>
  <2>1. I = {}
    BY <1>3, <1>8, <1>9
  <2> HIDE DEF I
  <2> QED
    BY <1>5, <1>7, <1>9, <2>1
<1>10. CASE m.body # <<>>
  <2>1. PICK k \in 1..N : H[k] = length
    BY <1>6, <1>10
  <2>2. I = {k}
    BY <1>6, <1>8, <2>1
  <2>3. LengthOf(S[k], 1) = Len(m.body)
    BY <1>3, <2>1
  <2> HIDE DEF I
  <2>4. I \in SUBSET Nat /\ k \in I /\ k # 0 /\ \A y \in I : k <= y
    BY <1>2, <2>2
  <2>5. Min(I) = k
    BY <2>4, MinIs
  <2> QED
    BY <1>5, <2>2, <2>3, <2>4, <2>5
<1> QED
  BY <1>9, <1>10

(* What the parser makes of a message's header. *)
LEMMA ParsedIs ==
  ASSUME NEW m, IsMessage(m), m.verb # NULL
  PROVE  /\ HeaderParses(TextOf(m))
         /\ ParsedMsg(TextOf(m)) = [Clean(m) EXCEPT !.body = <<>>]
         /\ \A b : BodyLen([Clean(m) EXCEPT !.body = b]) = Len(m.body)
<1> DEFINE T == TextOf(m)
           named == [i \in DOMAIN m.named_headers |-> Stripped(m.named_headers[i])]
           verb == IF m.verb = <<>> THEN NULL ELSE m.verb
<1>1. HeaderParses(T) /\ ParsedVerb(T) = verb /\ ParsedHeaders(T) = m.headers
      /\ ParsedNamedHeaders(T) = named
  BY HeaderReadBack
<1>2. m = [verb |-> m.verb, headers |-> m.headers, named_headers |-> m.named_headers,
           body |-> m.body]
  BY DEF IsMessage, MessageType
<1>7. Clean(m) = [m EXCEPT !.verb = verb, !.named_headers = named]
  BY <1>2 DEF Clean
<1> HIDE DEF T, verb, named
<1>3. Clean(m) = [verb |-> verb, headers |-> m.headers, named_headers |-> named, body |-> m.body]
  BY <1>2, <1>7
<1>4. \A b : [Clean(m) EXCEPT !.body = b]
               = [verb |-> verb, headers |-> m.headers, named_headers |-> named, body |-> b]
  BY <1>3
<1>5. ParsedMsg(T) = [Clean(m) EXCEPT !.body = <<>>]
  BY <1>1, <1>4 DEF ParsedMsg
<1>6. \A b : BodyLen([Clean(m) EXCEPT !.body = b]) = Len(m.body)
  <2> TAKE b
  <2>1. [Clean(m) EXCEPT !.body = b].named_headers
          = [i \in DOMAIN m.named_headers |-> Stripped(m.named_headers[i])]
    BY <1>4 DEF named
  <2> QED
    BY <2>1, BodyLenIs
<1> QED
  BY <1>1, <1>5, <1>6 DEF T

-----------------------------------------------------------------------------
(* What follows the first elements of a sequence *)

(* The first n elements of a sequence, and those that follow. *)
LEMMA AfterIs ==
  ASSUME NEW S, NEW s \in Seq(S), NEW n \in 0..Len(s)
  PROVE  /\ After(s, n) \in Seq(S) /\ Len(After(s, n)) = Len(s) - n
         /\ \A i \in 1..Len(s) - n : After(s, n)[i] = s[n + i]
         /\ SubSeq(s, 1, n) \in Seq(S) /\ Len(SubSeq(s, 1, n)) = n
         /\ \A i \in 1..n : SubSeq(s, 1, n)[i] = s[i]
<1>1. n \in Nat /\ Len(s) \in Nat /\ n <= Len(s)
  OBVIOUS
<1>2. \A i \in n + 1..Len(s) : s[i] \in S
  OBVIOUS
<1>3. After(s, n) \in Seq(S) /\ Len(After(s, n)) = Len(s) - n
  <2>1. /\ SubSeq(s, n + 1, Len(s)) \in Seq(S)
        /\ Len(SubSeq(s, n + 1, Len(s))) = IF n + 1 <= Len(s) THEN Len(s) - (n + 1) + 1 ELSE 0
    BY <1>1, <1>2, SubSeqProperties
  <2> QED
    BY <1>1, <2>1 DEF After
<1>4. \A i \in 1..Len(s) - n : After(s, n)[i] = s[n + i]
  <2> SUFFICES ASSUME NEW i \in 1..Len(s) - n PROVE After(s, n)[i] = s[n + i]
    OBVIOUS
  <2>1. \A j \in 1..Len(s) - (n + 1) + 1 : SubSeq(s, n + 1, Len(s))[j] = s[n + 1 + j - 1]
    BY <1>1, <1>2, SubSeqProperties
  <2>2. i \in 1..Len(s) - (n + 1) + 1 /\ n + 1 + i - 1 = n + i
    BY <1>1
  <2>3. SubSeq(s, n + 1, Len(s))[i] = s[n + 1 + i - 1]
    BY <2>1, <2>2
  <2> QED
    BY <2>2, <2>3 DEF After
<1>5. /\ SubSeq(s, 1, n) \in Seq(S) /\ Len(SubSeq(s, 1, n)) = n
      /\ \A i \in 1..n : SubSeq(s, 1, n)[i] = s[i]
  BY <1>1
<1> QED
  BY <1>3, <1>4, <1>5

(* Nothing is taken off, or everything. *)
LEMMA AfterNone ==
  ASSUME NEW S, NEW s \in Seq(S)
  PROVE  After(s, 0) = s /\ After(s, Len(s)) = <<>>
<1>1. 0 \in 0..Len(s) /\ Len(s) \in 0..Len(s) /\ Len(s) \in Nat
  OBVIOUS
<1>2. After(s, 0) \in Seq(S) /\ Len(After(s, 0)) = Len(s)
      /\ \A i \in 1..Len(s) : After(s, 0)[i] = s[0 + i]
  <2>1. Len(s) - 0 = Len(s)
    BY <1>1
  <2> QED
    BY <1>1, <2>1, AfterIs
<1>3. After(s, 0) = s
  <2> DEFINE q == After(s, 0)
  <2> HIDE DEF q
  <2>1. q \in Seq(S) /\ Len(q) = Len(s) /\ \A i \in 1..Len(q) : q[i] = s[i]
    BY <1>1, <1>2 DEF q
  <2>2. q = s
    BY <2>1, SeqEqual
  <2> QED
    BY <2>2 DEF q
<1>4. After(s, Len(s)) \in Seq(S) /\ Len(After(s, Len(s))) = 0
  <2>1. Len(s) - Len(s) = 0
    BY <1>1
  <2> QED
    BY <1>1, <2>1, AfterIs
<1> QED
  BY <1>3, <1>4, EmptySeq

(* The first elements and those that follow make the sequence. *)
LEMMA SplitAt ==
  ASSUME NEW S, NEW s \in Seq(S), NEW n \in 0..Len(s)
  PROVE  SubSeq(s, 1, n) \o After(s, n) = s
<1> DEFINE a == SubSeq(s, 1, n)
           b == After(s, n)
<1>1. /\ b \in Seq(S) /\ Len(b) = Len(s) - n
      /\ \A i \in 1..Len(s) - n : b[i] = s[n + i]
      /\ a \in Seq(S) /\ Len(a) = n
      /\ \A i \in 1..n : a[i] = s[i]
  BY AfterIs
<1> HIDE DEF a, b
<1>2. /\ a \o b \in Seq(S) /\ Len(a \o b) = Len(a) + Len(b)
      /\ \A i \in 1..Len(a) : (a \o b)[i] = a[i]
      /\ \A i \in 1..Len(b) : (a \o b)[Len(a) + i] = b[i]
  BY <1>1, TwoParts
<1>3. n \in Nat /\ Len(s) \in Nat /\ n <= Len(s)
  OBVIOUS
<1> DEFINE q == a \o b
<1> HIDE DEF q
<1>4. q \in Seq(S) /\ Len(q) = Len(s)
  BY <1>1, <1>2, <1>3 DEF q
<1>5. \A i \in 1..Len(s) : q[i] = s[i]
  <2> SUFFICES ASSUME NEW i \in 1..Len(s) PROVE q[i] = s[i]
    OBVIOUS
  <2>1. CASE i <= n
    <3>1. i \in 1..n
      BY <1>3, <2>1
    <3> QED
      BY <1>1, <1>2, <3>1 DEF q
  <2>2. CASE ~(i <= n)
    <3>1. i - n \in 1..Len(s) - n /\ n + (i - n) = i
      BY <1>3, <2>2
    <3>2. q[n + (i - n)] = b[i - n]
      BY <1>1, <1>2, <3>1 DEF q
    <3>3. b[i - n] = s[n + (i - n)]
      BY <1>1, <3>1
    <3> QED
      BY <3>1, <3>2, <3>3
  <2> QED
    BY <2>1, <2>2
<1>6. q = s
  BY <1>4, <1>5, SeqEqual
<1> QED
  BY <1>6 DEF q, a, b

(* The pieces of what one loop over short sends has sent. *)
LEMMA PieceSent ==
  ASSUME NEW S, NEW s \in Seq(S), NEW t \in Seq(S), NEW n \in 0..Len(t)
  PROVE  (s \o SubSeq(t, 1, n)) \o After(t, n) = s \o t
<1> DEFINE a == SubSeq(t, 1, n)
           b == After(t, n)
<1>1. a \in Seq(S) /\ b \in Seq(S) /\ a \o b = t
  BY AfterIs, SplitAt
<1> HIDE DEF a, b
<1>2. (s \o a) \o b = s \o (a \o b)
  <2>1. a \in Seq(S) /\ b \in Seq(S)
    BY <1>1
  <2> QED
    BY <2>1, ConcatAssociative, SMTT(60)
<1> QED
  BY <1>1, <1>2 DEF a, b

(* Two ways to cut the same sequence. *)
LEMMA TwoCuts ==
  ASSUME NEW S, NEW s \in Seq(S), NEW t \in Seq(S), NEW u \in Seq(S), NEW v \in Seq(S),
         s \o t = u \o v
  PROVE  /\ \A i \in 1..Len(s) : i <= Len(u) => s[i] = u[i]
         /\ Len(u) <= Len(s) => After(s, Len(u)) \o t = v
         /\ s = <<>> /\ t = <<>> => u = <<>> /\ v = <<>>
<1>1. \A i \in 1..Len(s) : i <= Len(u) => s[i] = u[i]
  <2> SUFFICES ASSUME NEW i \in 1..Len(s), i <= Len(u) PROVE s[i] = u[i]
    OBVIOUS
  <2>1. \A j \in 1..Len(s) : (s \o t)[j] = s[j]
    BY TwoParts
  <2>2. \A j \in 1..Len(u) : (u \o v)[j] = u[j]
    BY TwoParts
  <2>3. i \in 1..Len(u)
    OBVIOUS
  <2> QED
    BY <2>1, <2>2, <2>3
<1>2. ASSUME Len(u) <= Len(s)
      PROVE  After(s, Len(u)) \o t = v
  <2> DEFINE n == Len(u)
             a == SubSeq(s, 1, n)
             b == After(s, n)
  <2>1. n \in 0..Len(s)
    BY <1>2
  <2>2. /\ b \in Seq(S) /\ a \in Seq(S) /\ Len(a) = n
        /\ \A i \in 1..n : a[i] = s[i]
    BY <2>1, AfterIs
  <2>3. a \o b = s
    BY <2>1, SplitAt
  <2> HIDE DEF a, b
  <2>4. a = u
    <3>1. \A i \in 1..Len(a) : a[i] = u[i]
      BY <1>1, <2>1, <2>2
    <3> QED
      BY <2>2, <3>1, SeqEqual
  <2>5. u \o (b \o t) = u \o v
    <3>0. b \in Seq(S)
      BY <2>2
    <3>1. (u \o b) \o t = u \o (b \o t)
      BY <3>0, Regrouped, SMTT(60)
    <3> QED
      BY <2>3, <2>4, <3>1
  <2>6. b \o t \in Seq(S)
    BY <2>2, TwoParts
  <2> DEFINE w == b \o t
  <2> HIDE DEF w
  <2>7. w \in Seq(S) /\ u \o w = u \o v
    BY <2>5, <2>6 DEF w
  <2>8. w = v
    BY <2>7, ConcatSimplifications
  <2> QED
    BY <2>8 DEF w, b
<1>3. ASSUME s = <<>>, t = <<>>
      PROVE  u = <<>> /\ v = <<>>
  <2>1. Len(s \o t) = 0
    BY <1>3
  <2>2. Len(u \o v) = Len(u) + Len(v) /\ Len(u) \in Nat /\ Len(v) \in Nat
    BY TwoParts
  <2>3. Len(u) = 0 /\ Len(v) = 0
    BY <2>1, <2>2
  <2> QED
    BY <2>3, EmptySeq
<1> QED
  BY <1>1, <1>2, <1>3

(* The next element is taken off. *)
LEMMA AfterNext ==
  ASSUME NEW S, NEW s \in Seq(S), NEW n \in 0..Len(s) - 1
  PROVE  /\ After(s, n) = <<s[n + 1]>> \o After(s, n + 1)
         /\ SubSeq(s, 1, n + 1) = Append(SubSeq(s, 1, n), s[n + 1])
<1>1. n + 1 \in 1..Len(s) /\ Len(s) \in n + 1..Len(s) /\ n + 1 \in 1..n + 1 /\ n + 1 - 1 = n
      /\ 1 \in 1..Len(s) /\ n + 1 \in 1..Len(s) /\ Len(s) \in Nat
  OBVIOUS
<1>2. SubSeq(s, n + 1, Len(s)) = <<s[n + 1]>> \o SubSeq(s, n + 1 + 1, Len(s))
  BY <1>1, SubSeqRecursiveFirst
<1>3. SubSeq(s, 1, n + 1) = SubSeq(s, 1, n + 1 - 1) \o <<s[n + 1]>>
  BY <1>1, SubSeqRecursiveSecond
<1>4. SubSeq(s, 1, n) \in Seq(S) /\ s[n + 1] \in S
  BY <1>1, AfterIs
<1>5. SubSeq(s, 1, n) \o <<s[n + 1]>> = Append(SubSeq(s, 1, n), s[n + 1])
  <2> DEFINE a == SubSeq(s, 1, n)
             e == s[n + 1]
  <2> HIDE DEF a, e
  <2>1. a \in Seq(S) /\ e \in S
    BY <1>4 DEF a, e
  <2>2. a \o <<e>> = Append(a, e)
    BY <2>1
  <2> QED
    BY <2>2 DEF a, e
<1> QED
  BY <1>1, <1>2, <1>3, <1>5 DEF After

-----------------------------------------------------------------------------
(* What is sent of several messages, and what is answered to them *)

(* The messages whose header is read back. *)
Readable == {m \in MessageType : IsMessage(m) /\ m.verb # NULL}

(* The replies of _hms_default_handle. *)
ReplySet == {Msg("ERROR", <<>>), Msg("PONG", <<>>), InfoReply}

(* The text of a message is its header and its body. *)
LEMMA WireType ==
  ASSUME NEW m \in Readable
  PROVE  /\ print_header(m) \in Seq(Tokens) /\ m.body \in Seq(Tokens)
         /\ Wire(m) \in Seq(Tokens) /\ Wire(m) = print_header(m) \o m.body
<1>1. IsMessage(m) /\ m.verb # NULL
  BY DEF Readable
<1>2. /\ m.body \in Seq(Tokens) /\ TextOf(m) \in Seq(Tokens)
      /\ print_header(m) = TextOf(m) \o <<dot, newline>>
  BY <1>1, Parts
<1>3. dot \in Tokens /\ newline \in Tokens
  BY TokensDiffer
<1>4. <<dot, newline>> \in Seq(Tokens)
  BY <1>3
<1>5. print_header(m) \in Seq(Tokens)
  BY <1>2, <1>4, TwoParts
<1>6. Wire(m) = print_header(m) \o m.body
  BY DEF Wire
<1>7. Wire(m) \in Seq(Tokens)
  BY <1>2, <1>5, <1>6, TwoParts
<1> QED
  BY <1>2, <1>5, <1>6, <1>7

(* What is made of the elements of a sequence, one after the other. *)
Each(F, ss) == [i \in DOMAIN ss |-> F[ss[i]]]

(* F makes a sequence over S of an element of M. *)
Makes(F, M, S) == F \in [M -> Seq(S)]

(* What is made of a concatenation is the concatenation of what is made. *)
LEMMA EachConcat ==
  ASSUME NEW S, NEW M, NEW F, Makes(F, M, S), NEW ss \in Seq(M), NEW tt \in Seq(M)
  PROVE  /\ FlattenSeq(Each(F, ss)) \in Seq(S)
         /\ FlattenSeq(Each(F, ss \o tt)) = FlattenSeq(Each(F, ss)) \o FlattenSeq(Each(F, tt))
<1> DEFINE W(ms) == Each(F, ms)
<1>1. ASSUME NEW ms \in Seq(M)
      PROVE  /\ W(ms) \in Seq(Seq(S)) /\ Len(W(ms)) = Len(ms)
             /\ \A i \in 1..Len(ms) : W(ms)[i] = F[ms[i]]
  <2>1. \A i \in 1..Len(ms) : F[ms[i]] \in Seq(S)
    BY DEF Makes
  <2>2. DOMAIN ms = 1..Len(ms) /\ Len(ms) \in Nat
    OBVIOUS
  <2> DEFINE T == Seq(S)
             n == Len(ms)
             w == W(ms)
  <2>3. w = [i \in 1..n |-> F[ms[i]]]
    BY <2>2 DEF Each
  <2>4. n \in Nat /\ \A i \in 1..n : F[ms[i]] \in T
    BY <2>1, <2>2
  <2> HIDE DEF T, n, w
  <2>5. w \in Seq(T) /\ Len(w) = n /\ \A i \in 1..n : w[i] = F[ms[i]]
    BY <2>3, <2>4
  <2> QED
    BY <2>5 DEF T, n, w
<1>2. ss \o tt \in Seq(M)
  BY TwoParts
<1>3. W(ss \o tt) = W(ss) \o W(tt)
  <2> DEFINE T == Seq(S)
             a == W(ss)
             b == W(tt)
             c == W(ss \o tt)
             u == ss \o tt
  <2>1. /\ a \in Seq(T) /\ Len(a) = Len(ss) /\ \A i \in 1..Len(ss) : a[i] = F[ss[i]]
    BY <1>1
  <2>2. /\ b \in Seq(T) /\ Len(b) = Len(tt) /\ \A i \in 1..Len(tt) : b[i] = F[tt[i]]
    BY <1>1
  <2>3. /\ c \in Seq(T) /\ Len(c) = Len(u) /\ \A i \in 1..Len(u) : c[i] = F[u[i]]
    BY <1>1, <1>2
  <2>4. /\ Len(u) = Len(ss) + Len(tt)
        /\ \A i \in 1..Len(ss) : u[i] = ss[i]
        /\ \A i \in 1..Len(tt) : u[Len(ss) + i] = tt[i]
    BY TwoParts
  <2> HIDE DEF T, a, b, c, u
  <2>5. /\ a \o b \in Seq(T) /\ Len(a \o b) = Len(ss) + Len(tt)
        /\ \A i \in 1..Len(ss) : (a \o b)[i] = a[i]
        /\ \A i \in 1..Len(tt) : (a \o b)[Len(ss) + i] = b[i]
    <3>1. a \in Seq(T) /\ b \in Seq(T)
      BY <2>1, <2>2
    <3>2. /\ a \o b \in Seq(T) /\ Len(a \o b) = Len(a) + Len(b)
          /\ \A i \in 1..Len(a) : (a \o b)[i] = a[i]
          /\ \A i \in 1..Len(b) : (a \o b)[Len(a) + i] = b[i]
      BY <3>1, TwoParts
    <3>3. Len(a) = Len(ss) /\ Len(b) = Len(tt)
      BY <2>1, <2>2
    <3> QED
      BY <3>2, <3>3
  <2> DEFINE d == a \o b
  <2> HIDE DEF d
  <2>6. \A i \in 1..Len(c) : c[i] = d[i]
    <3> SUFFICES ASSUME NEW i \in 1..Len(c) PROVE c[i] = d[i]
      OBVIOUS
    <3>1. CASE i <= Len(ss)
      <4>1. i \in 1..Len(ss) /\ i \in 1..Len(u)
        BY <2>3, <2>4, <3>1
      <4> QED
        <5>1. c[i] = F[u[i]] /\ u[i] = ss[i]
          BY <2>3, <2>4, <4>1
        <5>2. d[i] = a[i] /\ a[i] = F[ss[i]]
          BY <2>1, <2>5, <4>1 DEF d
        <5> QED
          BY <5>1, <5>2
    <3>2. CASE ~(i <= Len(ss))
      <4> DEFINE j == i - Len(ss)
      <4>1. j \in 1..Len(tt) /\ Len(ss) + j = i /\ i \in 1..Len(u)
        BY <2>3, <2>4, <3>2
      <4> HIDE DEF j
      <4>2. c[i] = F[u[Len(ss) + j]]
        BY <2>3, <4>1
      <4>3. u[Len(ss) + j] = tt[j] /\ d[Len(ss) + j] = b[j] /\ b[j] = F[tt[j]]
        BY <2>2, <2>4, <2>5, <4>1 DEF d
      <4> QED
        BY <4>1, <4>2, <4>3
    <3> QED
      BY <3>1, <3>2
  <2>7. d \in Seq(T) /\ Len(c) = Len(d)
    BY <2>3, <2>4, <2>5 DEF d
  <2>8. c = d
    BY <2>3, <2>6, <2>7, SeqEqual
  <2> QED
    BY <2>8 DEF a, b, c, d, u
<1>4. W(ss) \in Seq(Seq(S)) /\ W(tt) \in Seq(Seq(S))
  BY <1>1
<1> HIDE DEF W
<1>5. FlattenSeq(W(ss) \o W(tt)) = FlattenSeq(W(ss)) \o FlattenSeq(W(tt))
  BY <1>4, FlattenConcat
<1>6. FlattenSeq(W(ss)) \in Seq(S)
  BY <1>4, FlattenType
<1> QED
  BY <1>3, <1>5, <1>6 DEF W

(* The text of messages is that of the first ones and that of the others. *)
LEMMA WiresConcat ==
  ASSUME NEW ss \in Seq(Readable), NEW tt \in Seq(Readable)
  PROVE  Wires(ss) \in Seq(Tokens) /\ Wires(ss \o tt) = Wires(ss) \o Wires(tt)
<1> DEFINE F == [m \in Readable |-> Wire(m)]
<1>1. Makes(F, Readable, Tokens)
  BY WireType DEF Makes
<1>2. ASSUME NEW ms \in Seq(Readable)
      PROVE  Wires(ms) = FlattenSeq(Each(F, ms))
  <2>1. \A i \in DOMAIN ms : F[ms[i]] = Wire(ms[i])
    OBVIOUS
  <2> HIDE DEF F
  <2>2. Each(F, ms) = [i \in DOMAIN ms |-> Wire(ms[i])]
    BY <2>1 DEF Each
  <2> QED
    BY <2>2 DEF Wires
<1>3. ss \o tt \in Seq(Readable)
  BY TwoParts
<1> HIDE DEF F
<1>4. /\ FlattenSeq(Each(F, ss)) \in Seq(Tokens)
      /\ FlattenSeq(Each(F, ss \o tt)) = FlattenSeq(Each(F, ss)) \o FlattenSeq(Each(F, tt))
  BY <1>1, EachConcat
<1> QED
  BY <1>2, <1>3, <1>4

(* The text of one message, and of none. *)
LEMMA WiresOne ==
  ASSUME NEW m \in Readable
  PROVE  Wires(<<m>>) = Wire(m) /\ <<m>> \in Seq(Readable) /\ Wires(<<>>) = <<>>
<1>1. [i \in DOMAIN <<m>> |-> Wire(<<m>>[i])] = <<Wire(m)>>
  OBVIOUS
<1>2. Wire(m) \in Seq(Tokens)
  BY WireType
<1>3. FlattenSeq(<<Wire(m)>>) = Wire(m)
  BY <1>2, FlattenOne
<1>4. Wires(<<m>>) = Wire(m)
  BY <1>1, <1>3 DEF Wires
<1>5. [i \in DOMAIN <<>> |-> Wire(<<>>[i])] = <<>>
  OBVIOUS
<1>6. Wires(<<>>) = <<>>
  BY <1>5, FlattenEmpty DEF Wires
<1> QED
  BY <1>4, <1>6

(* The text of the next message comes first. *)
LEMMA WiresNext ==
  ASSUME NEW ms \in Seq(Readable), NEW n \in 0..Len(ms) - 1
  PROVE  /\ ms[n + 1] \in Readable
         /\ Wires(After(ms, n)) = Wire(ms[n + 1]) \o Wires(After(ms, n + 1))
         /\ Wires(After(ms, n + 1)) \in Seq(Tokens)
<1>1. n + 1 \in 0..Len(ms) /\ n + 1 \in 1..Len(ms)
  OBVIOUS
<1>2. ms[n + 1] \in Readable /\ After(ms, n + 1) \in Seq(Readable)
  BY <1>1, AfterIs
<1>3. After(ms, n) = <<ms[n + 1]>> \o After(ms, n + 1)
  BY AfterNext
<1> DEFINE m == ms[n + 1]
           rest == After(ms, n + 1)
<1> HIDE DEF m, rest
<1>4. m \in Readable /\ rest \in Seq(Readable) /\ After(ms, n) = <<m>> \o rest
  BY <1>2, <1>3 DEF m, rest
<1>5. Wires(<<m>> \o rest) = Wires(<<m>>) \o Wires(rest) /\ Wires(<<m>>) = Wire(m)
  BY <1>4, WiresOne, WiresConcat
<1>6. Wires(rest) \in Seq(Tokens)
  BY <1>4, WiresConcat
<1> QED
  BY <1>4, <1>5, <1>6 DEF m, rest

(* The text of one more message comes last. *)
LEMMA WiresLast ==
  ASSUME NEW ms \in Seq(Readable), NEW m \in Readable, NEW n \in 0..Len(ms)
  PROVE  /\ Wires(After(Append(ms, m), n)) = Wires(After(ms, n)) \o Wire(m)
         /\ Wires(After(ms, n)) \in Seq(Tokens)
<1>1. Append(ms, m) \in Seq(Readable) /\ Append(ms, m) = ms \o <<m>> /\ <<m>> \in Seq(Readable)
      /\ n \in 0..Len(Append(ms, m)) /\ Len(Append(ms, m)) = Len(ms) + 1
  <2>1. Append(ms, m) \in Seq(Readable) /\ Len(Append(ms, m)) = Len(ms) + 1
        /\ n \in 0..Len(Append(ms, m))
    OBVIOUS
  <2>2. Append(ms, m) = ms \o <<m>> /\ <<m>> \in Seq(Readable)
    OBVIOUS
  <2> QED
    BY <2>1, <2>2
<1>2. /\ After(ms, n) \in Seq(Readable) /\ SubSeq(ms, 1, n) \in Seq(Readable)
      /\ Len(SubSeq(ms, 1, n)) = n /\ SubSeq(ms, 1, n) \o After(ms, n) = ms
  BY AfterIs, SplitAt
<1>3. After(Append(ms, m), n) = After(ms, n) \o <<m>>
  <2> DEFINE a == SubSeq(ms, 1, n)
             b == After(ms, n)
             c == Append(ms, m)
  <2> HIDE DEF a, b, c
  <2>1. /\ a \in Seq(Readable) /\ b \in Seq(Readable) /\ a \o b = ms /\ Len(a) = n
        /\ <<m>> \in Seq(Readable) /\ b \o <<m>> \in Seq(Readable)
        /\ c \in Seq(Readable) /\ c = ms \o <<m>> /\ Len(a) <= Len(c)
    <3>1. /\ a \in Seq(Readable) /\ b \in Seq(Readable) /\ a \o b = ms /\ Len(a) = n
          /\ <<m>> \in Seq(Readable) /\ c \in Seq(Readable) /\ c = ms \o <<m>> /\ n <= Len(c)
      BY <1>1, <1>2 DEF a, b, c
    <3>2. b \o <<m>> \in Seq(Readable)
      BY <3>1, TwoParts
    <3> QED
      BY <3>1, <3>2
  <2>2. (a \o b) \o <<m>> = a \o (b \o <<m>>)
    <3>1. a \in Seq(Readable) /\ b \in Seq(Readable) /\ <<m>> \in Seq(Readable)
      BY <2>1
    <3> QED
      BY <3>1, ConcatAssociative, SMTT(60)
  <2>3. c \o <<>> = a \o (b \o <<m>>)
    <3>1. c \o <<>> = c
      BY <2>1, ConcatEmptySeq
    <3> QED
      BY <2>1, <2>2, <3>1
  <2>4. <<>> \in Seq(Readable)
    OBVIOUS
  <2> DEFINE d == b \o <<m>>
  <2> HIDE DEF d
  <2>5. /\ c \in Seq(Readable) /\ <<>> \in Seq(Readable) /\ a \in Seq(Readable)
        /\ d \in Seq(Readable) /\ c \o <<>> = a \o d /\ Len(a) <= Len(c)
    BY <2>1, <2>3, <2>4 DEF d
  <2>6. After(c, Len(a)) \o <<>> = d
    BY <2>5, TwoCuts
  <2>7. After(c, n) \in Seq(Readable)
    BY <1>1, AfterIs DEF c
  <2>8. After(c, n) \o <<>> = After(c, n)
    BY <2>7, ConcatEmptySeq
  <2> QED
    BY <2>1, <2>6, <2>8 DEF b, c, d
<1>4. Wires(After(ms, n) \o <<m>>) = Wires(After(ms, n)) \o Wires(<<m>>)
      /\ Wires(After(ms, n)) \in Seq(Tokens)
  BY <1>1, <1>2, WiresConcat
<1> QED
  BY <1>3, <1>4, WiresOne

(* There is one reply to a message at most. *)
LEMMA DueIs ==
  ASSUME NEW msg
  PROVE  Due(msg) \in Seq(ReplySet) /\ Len(Due(msg)) <= 1
<1>1. Reply(msg) # NULL => Reply(msg) \in ReplySet
  BY DEF Reply, ReplySet
<1> DEFINE reply == Reply(msg)
<1> HIDE DEF reply
<1>2. reply \in ReplySet => <<reply>> \in Seq(ReplySet) /\ Len(<<reply>>) = 1
  OBVIOUS
<1>3. <<>> \in Seq(ReplySet) /\ Len(<<>>) = 0
  OBVIOUS
<1>4. Due(msg) = <<>> \/ (Reply(msg) # NULL /\ Due(msg) = <<Reply(msg)>>)
  BY DEF Due
<1>5. CASE Due(msg) = <<>>
  BY <1>3, <1>5
<1>6. CASE Reply(msg) # NULL /\ Due(msg) = <<Reply(msg)>>
  <2>1. reply \in ReplySet /\ Due(msg) = <<reply>>
    BY <1>1, <1>6 DEF reply
  <2> QED
    BY <1>2, <2>1
<1> QED
  BY <1>4, <1>5, <1>6

(* The answers to messages are those to the first ones and to the others. *)
LEMMA AnswersConcat ==
  ASSUME NEW S, NEW ss \in Seq(S), NEW tt \in Seq(S)
  PROVE  Answers(ss) \in Seq(ReplySet) /\ Answers(ss \o tt) = Answers(ss) \o Answers(tt)
<1> DEFINE F == [m \in S |-> Due(AsReceived(m))]
<1>1. Makes(F, S, ReplySet)
  BY DueIs DEF Makes
<1>2. ASSUME NEW ms \in Seq(S)
      PROVE  Answers(ms) = FlattenSeq(Each(F, ms))
  <2>1. \A i \in DOMAIN ms : F[ms[i]] = Due(AsReceived(ms[i]))
    OBVIOUS
  <2> HIDE DEF F
  <2>2. Each(F, ms) = [i \in DOMAIN ms |-> Due(AsReceived(ms[i]))]
    BY <2>1 DEF Each
  <2> QED
    BY <2>2 DEF Answers
<1>3. ss \o tt \in Seq(S)
  BY TwoParts
<1> HIDE DEF F
<1>4. /\ FlattenSeq(Each(F, ss)) \in Seq(ReplySet)
      /\ FlattenSeq(Each(F, ss \o tt)) = FlattenSeq(Each(F, ss)) \o FlattenSeq(Each(F, tt))
  BY <1>1, EachConcat
<1> QED
  BY <1>2, <1>3, <1>4

(* The answers to one message, and to none. *)
LEMMA AnswersOne ==
  ASSUME NEW m
  PROVE  Answers(<<m>>) = Due(AsReceived(m)) /\ Answers(<<>>) = <<>>
<1>1. [i \in DOMAIN <<m>> |-> Due(AsReceived(<<m>>[i]))] = <<Due(AsReceived(m))>>
  OBVIOUS
<1>2. FlattenSeq(<<Due(AsReceived(m))>>) = Due(AsReceived(m))
  BY DueIs, FlattenOne
<1>3. [i \in DOMAIN <<>> |-> Due(AsReceived(<<>>[i]))] = <<>>
  OBVIOUS
<1> QED
  BY <1>1, <1>2, <1>3, FlattenEmpty DEF Answers

(* The answer to one more message comes last. *)
LEMMA AnswersNext ==
  ASSUME NEW S, NEW ms \in Seq(S), NEW n \in 0..Len(ms) - 1
  PROVE  /\ Answers(SubSeq(ms, 1, n)) \in Seq(ReplySet)
         /\ Answers(SubSeq(ms, 1, n + 1))
              = Answers(SubSeq(ms, 1, n)) \o Due(AsReceived(ms[n + 1]))
<1> DEFINE a == SubSeq(ms, 1, n)
           m == ms[n + 1]
<1>1. SubSeq(ms, 1, n + 1) = Append(a, m)
  BY AfterNext
<1>2. a \in Seq(S) /\ m \in S
  <2>1. n \in 0..Len(ms) /\ n + 1 \in 1..Len(ms)
    OBVIOUS
  <2> QED
    BY <2>1, AfterIs
<1> HIDE DEF a, m
<1>3. Append(a, m) = a \o <<m>> /\ <<m>> \in Seq(S)
  BY <1>2
<1>4. Answers(a \o <<m>>) = Answers(a) \o Answers(<<m>>) /\ Answers(a) \in Seq(ReplySet)
  BY <1>2, <1>3, AnswersConcat
<1> QED
  BY <1>1, <1>3, <1>4, AnswersOne DEF a, m

(* The answers to the first messages are the first answers. *)
LEMMA AnswersPrefix ==
  ASSUME NEW S, NEW ms \in Seq(S), NEW n \in 0..Len(ms)
  PROVE  LET R == Answers(SubSeq(ms, 1, n)) IN
         /\ R \in Seq(ReplySet) /\ Answers(ms) \in Seq(ReplySet)
         /\ Len(R) <= Len(Answers(ms)) /\ \A i \in 1..Len(R) : Answers(ms)[i] = R[i]
<1> DEFINE a == SubSeq(ms, 1, n)
           b == After(ms, n)
<1>1. a \in Seq(S) /\ b \in Seq(S) /\ a \o b = ms
  BY AfterIs, SplitAt
<1> HIDE DEF a, b
<1>2. /\ Answers(a) \in Seq(ReplySet) /\ Answers(b) \in Seq(ReplySet)
      /\ Answers(ms) = Answers(a) \o Answers(b)
  BY <1>1, AnswersConcat
<1> DEFINE c == Answers(a)
           d == Answers(b)
<1> HIDE DEF c, d
<1>3. /\ c \o d \in Seq(ReplySet) /\ Len(c \o d) = Len(c) + Len(d)
      /\ \A i \in 1..Len(c) : (c \o d)[i] = c[i]
      /\ Len(c) \in Nat /\ Len(d) \in Nat
  <2>1. c \in Seq(ReplySet) /\ d \in Seq(ReplySet)
    BY <1>2 DEF c, d
  <2> QED
    BY <2>1, TwoParts
<1>4. Len(c) <= Len(c \o d)
  BY <1>3
<1> QED
  BY <1>2, <1>3, <1>4 DEF a, c, d

-----------------------------------------------------------------------------
(* The replies of _hms_default_handle *)

(* The verbs of the replies are words. *)
LEMMA ReplyWords ==
  ASSUME NEW w \in {"INFO", "PONG", "ERROR"}
  PROVE  IsWord(<<Token(w)>>) /\ <<Token(w)>> \in Seq(Tokens) /\ <<Token(w)>> # NULL
<1> DEFINE t == Token(w)
           s == <<t>>
<1>1. t \in Tokens
  BY RepliesAssumption DEF Tokens
<1>2. t \notin {space, newline, return, dot}
  BY DEF Token, space, newline, return, dot
<1> HIDE DEF t
<1>3. s \in Seq(Tokens) /\ s # <<>> /\ DOMAIN s = {1} /\ Len(s) = 1 /\ s[1] = t
  BY <1>1
<1> HIDE DEF s
<1>4. IsWord(s)
  BY <1>2, <1>3 DEF IsWord
<1>5. s # NULL
  BY <1>3, NullAssumption
<1> QED
  BY <1>3, <1>4, <1>5 DEF s, t

(* The header of the reply to INFO is a line, with a newline of its own. *)
LEMMA LocaltimeIs ==
  /\ Localtime \in Seq(Tokens) /\ Len(Localtime) = 2 /\ Localtime # <<>>
  /\ Stripped(Localtime) = <<keyval>> /\ IsNamedLine(<<keyval>>)
<1>1. keyval \in Tokens /\ newline \in Tokens
  BY TokensDiffer
<1>2. /\ Localtime \in Seq(Tokens) /\ Len(Localtime) = 2 /\ Localtime # <<>>
      /\ Localtime[1] = keyval /\ Localtime[2] = newline
  BY <1>1 DEF Localtime
<1>3. Stripped(Localtime) = <<keyval>>
  <2> DEFINE f == Front(Localtime)
             one == <<keyval>>
  <2>1. Stripped(Localtime) = f
    BY <1>2 DEF Stripped
  <2>2. f \in Seq(Tokens) /\ Len(f) = 1 /\ f[1] = Localtime[1]
    <3>0. Localtime \in Seq(Tokens) /\ Len(Localtime) = 2 /\ Len(Localtime) >= 1
      BY <1>2
    <3>1. f \in Seq(Tokens) /\ Len(f) = Len(Localtime) - 1
          /\ \A j \in 1..Len(Localtime) - 1 : f[j] = Localtime[j]
      BY <3>0, FrontIs
    <3> HIDE DEF f
    <3> QED
      BY <3>0, <3>1
  <2>3. one \in Seq(Tokens) /\ Len(one) = 1 /\ one[1] = keyval
    BY <1>1
  <2> HIDE DEF f, one
  <2>4. Len(f) = Len(one) /\ \A j \in 1..Len(f) : f[j] = one[j]
    BY <1>2, <2>2, <2>3
  <2>5. f = one
    BY <2>2, <2>3, <2>4, SeqEqual
  <2> QED
    BY <2>1, <2>5 DEF one
<1>4. IsNamedLine(<<keyval>>)
  <2> DEFINE one == <<keyval>>
  <2>1. one \in Seq(Tokens) /\ Len(one) = 1 /\ one[1] = keyval /\ one # <<>> /\ DOMAIN one = {1}
    BY <1>1
  <2>2. keyval \notin {newline, return, space, dot} /\ keyval.text # "Content-Length:n"
    BY TokensDiffer
  <2> HIDE DEF one
  <2>3. IsNamedLine(one)
    BY <2>1, <2>2 DEF IsNamedLine
  <2> QED
    BY <2>3 DEF one
<1> QED
  BY <1>2, <1>3, <1>4

(* The texts of the replies are 4 or 7 tokens long. *)
LEMMA MsgIs ==
  ASSUME NEW w \in {"INFO", "PONG", "ERROR"}, NEW named, named \in {<<>>, <<Localtime>>}
  PROVE  /\ Msg(w, named) \in Readable /\ Msg(w, named).body = <<>>
         /\ Len(print_header(Msg(w, named))) <= max_hdr_len
<1> DEFINE m == Msg(w, named)
           verb == <<Token(w)>>
<1>1. /\ m.verb = verb /\ m.headers = <<>> /\ m.named_headers = named /\ m.body = <<>>
      /\ m = [verb |-> verb, headers |-> <<>>, named_headers |-> named, body |-> <<>>]
  BY DEF Msg
<1>2. IsWord(verb) /\ verb \in Seq(Tokens) /\ verb # NULL /\ Len(verb) = 1
  BY ReplyWords
<1>3. named \in Seq(Seq(Tokens))
  <2> DEFINE T == Seq(Tokens)
  <2>1. Localtime \in T
    BY LocaltimeIs
  <2> HIDE DEF T
  <2>2. <<>> \in Seq(T) /\ <<Localtime>> \in Seq(T)
    BY <2>1
  <2> QED
    BY <2>2 DEF T
<1> HIDE DEF m, verb
<1>4. m \in MessageType
  <2> DEFINE T == Seq(Tokens)
  <2>1. <<>> \in Seq(T) /\ named \in Seq(T) /\ verb \in T /\ <<>> \in T
    <3>1. <<>> \in T
      OBVIOUS
    <3>2. named \in Seq(T) /\ verb \in T
      BY <1>2, <1>3
    <3> HIDE DEF T
    <3> QED
      BY <3>1, <3>2
  <2> HIDE DEF T
  <2>2. m \in [verb : T \cup {NULL}, headers : Seq(T), named_headers : Seq(T), body : T]
    BY <1>1, <2>1
  <2> QED
    BY <2>2 DEF MessageType, T
<1>5. \A i \in DOMAIN named : named[i] # <<>> /\ IsNamedLine(Stripped(named[i]))
  <2> SUFFICES ASSUME NEW i \in DOMAIN named
               PROVE  named[i] # <<>> /\ IsNamedLine(Stripped(named[i]))
    OBVIOUS
  <2>1. named[i] = Localtime
    BY <1>1
  <2> QED
    BY <2>1, LocaltimeIs
<1>6. IsMessage(m)
  BY <1>1, <1>2, <1>4, <1>5 DEF IsMessage
<1>7. m \in Readable
  BY <1>1, <1>2, <1>4, <1>6 DEF Readable
<1>8. Len(print_header(m)) <= max_hdr_len
  <2>0. m.verb # NULL
    BY <1>1, <1>2
  <2> DEFINE F == FlattenSeq(Printed(m))
  <2>1. /\ Spaced(m) \in Seq(Seq(Tokens)) /\ Printed(m) \in Seq(Seq(Tokens))
        /\ Len(Spaced(m)) = Len(m.headers) /\ Len(Printed(m)) = Len(m.named_headers)
        /\ F \in Seq(Tokens) /\ TextOf(m) \in Seq(Tokens)
        /\ print_header(m) = TextOf(m) \o <<dot, newline>>
    BY <1>6, <2>0, Parts
  <2>2. FlattenSeq(Spaced(m)) = <<>>
    <3>1. Len(Spaced(m)) = 0
      BY <1>1, <2>1
    <3> QED
      BY <2>1, <3>1, FlattenSeqIs
  <2>3. VerbLine(m) = verb
    <3>1. verb \o <<>> = verb
      BY <1>2, ConcatEmptySeq
    <3> QED
      BY <1>1, <2>2, <3>1 DEF VerbLine
  <2>4. Len(F) \in Nat /\ Len(F) <= 3
    <3>1. CASE named = <<>>
      <4>1. Len(Printed(m)) = 0
        BY <1>1, <2>1, <3>1
      <4>2. F = <<>>
        BY <2>1, <4>1, FlattenSeqIs
      <4> HIDE DEF F
      <4> QED
        BY <4>2
    <3>2. CASE named = <<Localtime>>
      <4> DEFINE line == Append(Localtime, newline)
      <4>1. Printed(m) = <<line>>
        BY <1>1, <3>2 DEF Printed, PrintNamed
      <4>2. line \in Seq(Tokens) /\ Len(line) = 3
        <5>1. newline \in Tokens
          BY TokensDiffer
        <5>2. Localtime \in Seq(Tokens) /\ Len(Localtime) = 2
          BY LocaltimeIs
        <5>3. /\ Append(Localtime, newline) \in Seq(Tokens)
              /\ Len(Append(Localtime, newline)) = Len(Localtime) + 1
          BY <5>1, <5>2, AppendProperties
        <5> QED
          BY <5>2, <5>3
      <4> HIDE DEF line
      <4>3. F = line
        BY <4>1, <4>2, FlattenOne
      <4> HIDE DEF F
      <4>4. Len(F) = 3
        BY <4>2, <4>3
      <4> QED
        BY <4>4 DEF F
    <3> QED
      BY <3>1, <3>2
  <2> HIDE DEF F
  <2>5. Len(TextOf(m)) = Len(verb) + 1 + Len(F)
    <3>1. newline \in Tokens
      BY TokensDiffer
    <3>2. TextOf(m) = verb \o <<newline>> \o F
      BY <2>3 DEF TextOf, F
    <3>3. verb \in Seq(Tokens) /\ F \in Seq(Tokens)
      BY <1>2, <2>1 DEF F
    <3>4. Len(verb \o <<newline>> \o F) = Len(verb) + 1 + Len(F)
      BY <3>1, <3>3, ThreeParts
    <3> QED
      BY <3>2, <3>4
  <2>6. Len(print_header(m)) = Len(TextOf(m)) + 2
    <3>0. dot \in Tokens /\ newline \in Tokens
      BY TokensDiffer
    <3> DEFINE e == <<dot, newline>>
    <3>1. e \in Seq(Tokens) /\ Len(e) = 2
      BY <3>0
    <3> HIDE DEF e
    <3>2. Len(TextOf(m) \o e) = Len(TextOf(m)) + Len(e)
      BY <2>1, <3>1, TwoParts
    <3> QED
      BY <2>1, <3>1, <3>2 DEF e
  <2>7. Len(print_header(m)) <= 7
    BY <1>2, <2>4, <2>5, <2>6
  <2>8. Len(print_header(m)) \in Nat
    BY <1>2, <2>4, <2>5, <2>6
  <2> QED
    BY <2>7, <2>8, RepliesAssumption, BoundsAssumption
<1> QED
  BY <1>1, <1>7, <1>8 DEF m

(* The replies are read back, have no body, and fit in a header. *)
LEMMA RepliesAre ==
  ASSUME NEW reply \in ReplySet
  PROVE  /\ reply \in Readable /\ reply.body = <<>>
         /\ Len(print_header(reply)) <= max_hdr_len
         /\ AsReceived(reply).body = <<>>
<1>1. \/ reply = Msg("ERROR", <<>>) \/ reply = Msg("PONG", <<>>)
      \/ reply = Msg("INFO", <<Localtime>>)
  BY DEF ReplySet, InfoReply
<1>2. /\ reply \in Readable /\ reply.body = <<>>
      /\ Len(print_header(reply)) <= max_hdr_len
  <2>1. CASE reply = Msg("ERROR", <<>>)
    BY <2>1, MsgIs
  <2>2. CASE reply = Msg("PONG", <<>>)
    BY <2>2, MsgIs
  <2>3. CASE reply = Msg("INFO", <<Localtime>>)
    BY <2>3, MsgIs
  <2> QED
    BY <1>1, <2>1, <2>2, <2>3
<1>3. AsReceived(reply).body = <<>>
  <2>1. reply \in MessageType
    BY <1>2 DEF Readable
  <2>2. Clean(reply).body = reply.body
    BY <2>1 DEF Clean, MessageType
  <2> QED
    BY <1>2, <2>2 DEF AsReceived
<1> QED
  BY <1>2, <1>3

-----------------------------------------------------------------------------
(* The inductive invariant *)

(* The places of the parties, and what __send_all has to send. *)
States == {"init", "idle", "send", "recv", "closed", "killed", "aborted"}
OutType == [header : Seq(Tokens), body : Seq(Tokens), erred : BOOLEAN]

(* The types of the variables. *)
Types ==
  /\ pc \in [Parties -> States] /\ pc["endpoint"] \in {"init", "recv", "send", "closed"}
  /\ stream \in [Parties -> Seq(Tokens)] /\ \A p \in Parties : Len(stream[p]) <= Room
  /\ out \in [Parties -> OutType]
  /\ DOMAIN pending = Parties
  /\ hang_up \in BOOLEAN /\ result \in {NULL, 0, -1}
  /\ sent \in Seq(Messages \cap Readable) /\ Len(sent) <= MaxMsgs
  /\ received \in Seq({AsReceived(m) : m \in Messages})
  /\ answers \in Seq({AsReceived(reply) : reply \in ReplySet})

(* Only __send_all has something to send, and errs when the peer is gone. *)
Sending ==
  /\ \A p \in Parties : /\ pc[p] \notin {"send", "killed"} => out[p] = Nothing
                        /\ out[p].erred => Gone(Peer(p))
  /\ pc["connector"] = "killed" => Gone("endpoint")
  /\ pc["connector"] = "send" => sent # <<>>
  /\ pc["connector"] = "init" => sent = <<>> /\ pc["endpoint"] = "init"
  /\ out["endpoint"].body = <<>>

(* The handler has a part of the body of the next message in its hands. *)
Reading ==
  /\ pending["connector"] = NULL
  /\ pending["endpoint"] # NULL =>
       LET m == sent[Len(received) + 1]
           k == Len(pending["endpoint"].body)
       IN  /\ pc["endpoint"] = "recv" /\ Len(received) < Len(sent)
           /\ k \in 0..Len(m.body) - 1
           /\ pending["endpoint"] = [Clean(m) EXCEPT !.body = SubSeq(m.body, 1, k)]

(* What was received is what was sent, as far as it goes. *)
Received ==
  /\ Len(received) <= Len(sent)
  /\ \A i \in 1..Len(received) : received[i] = AsReceived(sent[i])

(* What the handler has not read, and what is on its way to it. *)
Unread ==
  IF pending["endpoint"] = NULL THEN Wires(After(sent, Len(received)))
  ELSE After(sent[Len(received) + 1].body, Len(pending["endpoint"].body))
         \o Wires(After(sent, Len(received) + 1))
OnTheWay == stream["endpoint"] \o out["connector"].header \o out["connector"].body

(* What is on its way to the handler is what it has not read, unless one   *)
(* party is gone: then it may be lost.                                     *)
Forward ==
  Gone("endpoint") \/ OnTheWay = Unread \/ (Gone("connector") /\ stream["endpoint"] = <<>>)

(* The replies that are due for what the handler has received. *)
RepliesDue == Answers(SubSeq(sent, 1, Len(received)))

(* So with the replies that are on their way to the client. *)
Backward ==
  \/ Gone("connector")
  \/ stream["connector"] \o out["endpoint"].header = Wires(After(RepliesDue, Len(answers)))
  \/ Gone("endpoint") /\ stream["connector"] = <<>>

(* The client has received the first of the replies that are due. *)
Answered ==
  /\ Len(answers) <= Len(RepliesDue) /\ Len(RepliesDue) <= Len(received)
  /\ \A i \in 1..Len(answers) : answers[i] = AsReceived(RepliesDue[i])

(* The messages after which the handler takes no other. *)
Ends(msg) == ~IsOneOf(msg, Invalid \cup Accepted) /\ (msg.verb = NULL \/ Reply(msg) = NULL)

(* The handler takes no message after one that ends it. *)
Serving ==
  /\ \A i \in 1..Len(received) - 1 : ~Ends(received[i])
  /\ received # <<>> /\ Ends(received[Len(received)]) =>
       pc["endpoint"] = "closed" \/ (pc["endpoint"] = "send" /\ hang_up)

(* The shorter of s and t is the end of the other. *)
SameEnd(s, t) == \A k \in 0..Len(s) - 1 : k < Len(t) => s[Len(s) - k] = t[Len(t) - k]

(* The end of what is on its way is the end of the message being sent. *)
Whole ==
  pc["connector"] = "send" /\ ~out["connector"].erred =>
    SameEnd(OnTheWay, Wire(sent[Len(sent)]))

(* The inductive invariant. *)
SessionInv ==
  /\ Types /\ Sending /\ Reading /\ Received /\ Forward
  /\ Backward /\ Answered /\ Serving /\ Whole

-----------------------------------------------------------------------------
(* A header at the beginning of a stream *)

(* The header of m comes first in stream p and what follows it: a header   *)
(* that is found is that of m, and it is found once it has come.           *)
LEMMA HeaderRead ==
  ASSUME NEW p, NEW m \in Readable, stream[p] \in Seq(Tokens),
         NEW rest \in Seq(Tokens), NEW tail \in Seq(Tokens),
         stream[p] \o rest = print_header(m) \o tail
  PROVE  LET n == Len(print_header(m)) IN
         /\ n \in Nat /\ n > 2
         /\ HeaderEnds(p) # {} =>
              /\ HeaderEnd(p) = n /\ n <= Len(stream[p])
              /\ Text(p) = {TextOf(m)} /\ WellFormed(p)
              /\ After(stream[p], n) \o rest = tail
         /\ n <= Len(stream[p]) /\ n <= max_hdr_len => HeaderEnds(p) # {}
<1> DEFINE s == stream[p]
           H == print_header(m)
           n == Len(H)
           Dots == {i \in 1..n : s[i] = dot}
<1>1. IsMessage(m) /\ m.verb # NULL
  BY DEF Readable
<1>2. H \in Seq(Tokens)
  BY WireType
<1>3. /\ \A i \in 1..Len(s) : i <= Len(H) => s[i] = H[i]
      /\ Len(H) <= Len(s) => After(s, Len(H)) \o rest = tail
  <2>1. s \in Seq(Tokens) /\ s \o rest = H \o tail
    OBVIOUS
  <2> HIDE DEF s, H
  <2> QED
    BY <1>2, <2>1, TwoCuts, ZenonT(60)
<1>4. /\ Len(H) \in Nat /\ Len(H) > 2
      /\ \A i \in 1..Len(s) : i <= Len(H) => (Terminated(s, i) <=> i = Len(H))
      /\ Len(s) >= Len(H) => /\ Max({i \in 1..Len(H) : s[i] = dot}) = Len(H) - 1
                             /\ SubSeq(s, 1, Len(H) - 2) = TextOf(m)
  BY <1>1, <1>3, HeaderEndFound
<1>5. /\ Len(s) \in Nat
      /\ HeaderEnds(p) = {i \in 1..Len(s) : i <= max_hdr_len /\ Terminated(s, i)}
  BY DEF HeaderEnds
<1>6. HeaderParses(TextOf(m))
  BY <1>1, ParsedIs
<1> HIDE DEF s, H
<1>7. max_hdr_len \in Nat
  BY BoundsAssumption
<1>8. ASSUME HeaderEnds(p) # {}
      PROVE  n \in HeaderEnds(p) /\ HeaderEnd(p) = n /\ n <= Len(s)
  <2>1. PICK i \in 1..Len(s) : i <= max_hdr_len /\ Terminated(s, i)
    BY <1>5, <1>8
  <2>2. n <= i
    <3> SUFFICES ASSUME ~(n <= i) PROVE FALSE
      OBVIOUS
    <3>1. i <= n /\ i # n
      BY <1>4, <1>5, <2>1
    <3> QED
      BY <1>4, <2>1, <3>1
  <2>3. n \in 1..Len(s) /\ n <= max_hdr_len
    BY <1>4, <1>5, <1>7, <2>1, <2>2
  <2>4. Terminated(s, n)
    BY <1>4, <2>3
  <2>5. n \in HeaderEnds(p)
    BY <1>5, <2>3, <2>4
  <2>6. \A j \in HeaderEnds(p) : n <= j
    <3> SUFFICES ASSUME NEW j \in 1..Len(s), Terminated(s, j), ~(n <= j) PROVE FALSE
      BY <1>5
    <3>1. j <= n /\ j # n
      BY <1>4, <1>5
    <3> QED
      BY <1>4, <3>1
  <2>7. HeaderEnds(p) \in SUBSET Nat
    BY <1>5
  <2>8. Min(HeaderEnds(p)) = n
    BY <2>5, <2>6, <2>7, MinIs
  <2> QED
    BY <1>4, <1>5, <2>3, <2>5, <2>8 DEF HeaderEnd
<1>9. ASSUME HeaderEnds(p) # {}
      PROVE  Text(p) = {TextOf(m)} /\ WellFormed(p)
  <2>1. HeaderEnd(p) = n /\ n <= Len(s) /\ Len(s) >= n
    BY <1>4, <1>5, <1>8, <1>9
  <2>2. LastDot(p) = n - 1
    BY <1>4, <2>1 DEF LastDot, s
  <2>3. n - 1 - 1 = n - 2
    BY <1>4
  <2>4. Text(p) = {TextOf(m)}
    BY <1>4, <2>1, <2>2, <2>3 DEF Text, s
  <2>5. WellFormed(p)
    BY <1>4, <1>6, <2>1, <2>4 DEF WellFormed
  <2> QED
    BY <2>4, <2>5
<1>10. ASSUME n <= Len(s), n <= max_hdr_len
       PROVE  HeaderEnds(p) # {}
  <2>1. n \in 1..Len(s) /\ n <= n
    BY <1>4, <1>5, <1>10
  <2>2. Terminated(s, n)
    BY <1>4, <2>1
  <2>3. n \in HeaderEnds(p)
    BY <1>5, <1>10, <2>1, <2>2
  <2> QED
    BY <2>3
<1> QED
  BY <1>3, <1>4, <1>8, <1>9, <1>10 DEF s, H

(* An empty stream has no header. *)
LEMMA NothingToRead ==
  ASSUME NEW p, stream[p] = <<>>
  PROVE  HeaderEnds(p) = {}
  BY DEF HeaderEnds

-----------------------------------------------------------------------------
(* What the invariant implies *)

(* The two parties. *)
LEMMA PartiesAre ==
  /\ Parties = {"connector", "endpoint"} /\ "connector" # "endpoint"
  /\ "connector" \in Parties /\ "endpoint" \in Parties
  /\ Peer("connector") = "endpoint" /\ Peer("endpoint") = "connector"
  BY DEF Parties, Peer

(* The tokens on their way are tokens. *)
LEMMA OnTheWayIs ==
  ASSUME Types
  PROVE  /\ stream["endpoint"] \in Seq(Tokens) /\ stream["connector"] \in Seq(Tokens)
         /\ \A p \in Parties : /\ out[p].header \in Seq(Tokens) /\ out[p].body \in Seq(Tokens)
                               /\ out[p].erred \in BOOLEAN /\ stream[p] \in Seq(Tokens)
         /\ OnTheWay \in Seq(Tokens)
         /\ OnTheWay = stream["endpoint"] \o (out["connector"].header \o out["connector"].body)
         /\ out["connector"].header \o out["connector"].body \in Seq(Tokens)
<1>1. /\ stream["endpoint"] \in Seq(Tokens) /\ stream["connector"] \in Seq(Tokens)
      /\ \A p \in Parties : out[p] \in OutType /\ stream[p] \in Seq(Tokens)
  BY PartiesAre DEF Types
<1>2. \A p \in Parties : /\ out[p].header \in Seq(Tokens) /\ out[p].body \in Seq(Tokens)
                         /\ out[p].erred \in BOOLEAN
  BY <1>1 DEF OutType
<1> DEFINE s == stream["endpoint"]
           h == out["connector"].header
           b == out["connector"].body
<1>3. s \in Seq(Tokens) /\ h \in Seq(Tokens) /\ b \in Seq(Tokens)
  BY <1>1, <1>2, PartiesAre
<1> HIDE DEF s, h, b
<1>4. (s \o h) \o b = s \o (h \o b)
  BY <1>3, ConcatAssociative
<1>5. h \o b \in Seq(Tokens) /\ s \o h \in Seq(Tokens)
  BY <1>3, TwoParts
<1>6. (s \o h) \o b \in Seq(Tokens)
  BY <1>3, <1>5, TwoParts
<1> QED
  BY <1>1, <1>2, <1>4, <1>5, <1>6 DEF OnTheWay, s, h, b

-----------------------------------------------------------------------------
(* The steps of __send_all *)

(* send moves a piece of what is to be sent into the stream. *)
LEMMA SendAllIs ==
  ASSUME Types, NEW p \in Parties, NEW n, SendAll(p, n)
  PROVE  /\ stream' \in [Parties -> Seq(Tokens)] /\ \A q \in Parties : Len(stream'[q]) <= Room
         /\ stream'[p] = stream[p]
         /\ out' \in [Parties -> OutType] /\ out'[Peer(p)] = out[Peer(p)]
         /\ out'[p].erred = out[p].erred
         /\ (stream'[Peer(p)] \o out'[p].header) \o out'[p].body
              = (stream[Peer(p)] \o out[p].header) \o out[p].body
         /\ out[p].body = <<>> =>
              /\ out'[p].body = <<>>
              /\ stream'[Peer(p)] \o out'[p].header = stream[Peer(p)] \o out[p].header
<1> DEFINE q == Peer(p)
           s == stream[q]
           t == stream'[q]
           part == Part(p)
           r == Remaining(p)
           h == out[p].header
           b == out[p].body
<1>1. q \in Parties /\ q # p /\ \A x \in Parties : x = p \/ x = q
  BY PartiesAre
<1>2. /\ stream \in [Parties -> Seq(Tokens)] /\ s \in Seq(Tokens)
      /\ out \in [Parties -> OutType] /\ out[p] \in OutType
  BY <1>1 DEF Types
<1>3. h \in Seq(Tokens) /\ b \in Seq(Tokens) /\ out[p].erred \in BOOLEAN
      /\ out[p] = [header |-> h, body |-> b, erred |-> out[p].erred]
  BY <1>2 DEF OutType
<1>4. \/ part = "header" /\ r = h
      \/ h = <<>> /\ part = "body" /\ r = b
  <2>1. part = (IF h # <<>> THEN "header" ELSE "body") /\ r = out[p][part]
    BY DEF Part, Remaining
  <2> HIDE DEF part, r, h, b
  <2>2. out[p]["header"] = h /\ out[p]["body"] = b
    BY <1>3
  <2> QED
    BY <2>1, <2>2
<1>5. r \in Seq(Tokens)
  BY <1>3, <1>4
<1>6. /\ n \in 1..Len(r) /\ Len(s) + n <= Room
      /\ stream' = [stream EXCEPT ![q] = s \o SubSeq(r, 1, n)]
      /\ out' = [out EXCEPT ![p] = [out[p] EXCEPT ![part] = After(r, n)]]
  BY DEF SendAll, Rest, After
<1> HIDE DEF q, s, part, r, h, b
<1>7. n \in 0..Len(r)
  BY <1>5, <1>6
<1>8. /\ After(r, n) \in Seq(Tokens) /\ SubSeq(r, 1, n) \in Seq(Tokens)
      /\ Len(SubSeq(r, 1, n)) = n
  BY <1>5, <1>7, AfterIs
<1> DEFINE piece == SubSeq(r, 1, n)
           left == After(r, n)
<1> HIDE DEF piece, left
<1>9. t = s \o piece
  BY <1>1, <1>2, <1>6 DEF piece
<1>10. piece \in Seq(Tokens) /\ left \in Seq(Tokens) /\ t \in Seq(Tokens) /\ Len(t) = Len(s) + n
  <2>1. piece \in Seq(Tokens) /\ left \in Seq(Tokens) /\ Len(piece) = n
    BY <1>8 DEF piece, left
  <2> QED
    BY <1>2, <1>9, <2>1, TwoParts
<1>11. stream'[p] = stream[p] /\ out'[q] = out[q]
  BY <1>1, <1>2, <1>6
<1>12. stream' \in [Parties -> Seq(Tokens)]
  BY <1>2, <1>6, <1>9, <1>10, <1>1
<1>13. \A x \in Parties : Len(stream'[x]) <= Room
  BY <1>1, <1>6, <1>9, <1>10, <1>11 DEF Types
<1>14. out'[p] = [out[p] EXCEPT ![part] = left]
  BY <1>2, <1>6 DEF left
<1>15. s \o h \in Seq(Tokens)
  BY <1>2, <1>3, TwoParts
<1>16. CASE part = "header" /\ r = h
  <2>1. out'[p] = [header |-> left, body |-> b, erred |-> out[p].erred]
    BY <1>3, <1>14, <1>16
  <2>2. t \o left = s \o h
    BY <1>2, <1>3, <1>7, <1>9, <1>16, PieceSent DEF piece, left
  <2>3. out'[p] \in OutType /\ out'[p].header = left /\ out'[p].body = b
        /\ out'[p].erred = out[p].erred
    BY <1>3, <1>10, <2>1 DEF OutType
  <2>4. out' \in [Parties -> OutType]
    BY <1>1, <1>2, <1>11, <2>3, <1>6
  <2> QED
    BY <1>11, <1>12, <1>13, <2>2, <2>3, <2>4 DEF q, s, h, b
<1>17. CASE h = <<>> /\ part = "body" /\ r = b
  <2>1. out'[p] = [header |-> <<>>, body |-> left, erred |-> out[p].erred]
    BY <1>3, <1>14, <1>17
  <2>2. t \o left = s \o b
    BY <1>2, <1>3, <1>7, <1>9, <1>17, PieceSent, ZenonT(60) DEF piece, left
  <2>3. out'[p] \in OutType /\ out'[p].header = <<>> /\ out'[p].body = left
        /\ out'[p].erred = out[p].erred
    BY <1>3, <1>10, <2>1, <1>17 DEF OutType
  <2>4. out' \in [Parties -> OutType]
    BY <1>1, <1>2, <1>11, <2>3, <1>6
  <2>5. s \o <<>> = s /\ t \o <<>> = t
    BY <1>2, <1>10, ConcatEmptySeq
  <2>6. b # <<>>
    <3> SUFFICES ASSUME b = <<>> PROVE FALSE
      OBVIOUS
    <3>1. Len(r) = 0
      BY <1>17
    <3> QED
      BY <1>6, <3>1
  <2> QED
    BY <1>11, <1>12, <1>13, <1>17, <2>2, <2>3, <2>4, <2>5, <2>6 DEF q, s, h, b
<1> QED
  BY <1>4, <1>16, <1>17 DEF part, r, h, b

(* A send preserves the invariant. *)
LEMMA SendAllKeeps ==
  ASSUME SessionInv, NEW p \in Parties, NEW n, SendAll(p, n)
  PROVE  SessionInv'
<1>1. /\ stream' \in [Parties -> Seq(Tokens)] /\ \A q \in Parties : Len(stream'[q]) <= Room
      /\ stream'[p] = stream[p]
      /\ out' \in [Parties -> OutType] /\ out'[Peer(p)] = out[Peer(p)]
      /\ out'[p].erred = out[p].erred
      /\ (stream'[Peer(p)] \o out'[p].header) \o out'[p].body
           = (stream[Peer(p)] \o out[p].header) \o out[p].body
      /\ out[p].body = <<>> =>
           /\ out'[p].body = <<>>
           /\ stream'[Peer(p)] \o out'[p].header = stream[Peer(p)] \o out[p].header
  BY SendAllIs DEF SessionInv
<1>2. /\ UNCHANGED <<pc, pending, hang_up, result>> /\ UNCHANGED <<sent, received, answers>>
      /\ pc[p] = "send"
  BY DEF SendAll, history
<1>3. \A q \in Parties : Gone(q)' <=> Gone(q)
  BY <1>2 DEF Gone
<1>4. Types'
  BY <1>1, <1>2 DEF SessionInv, Types
<1>5. Sending'
  <2>1. \A q \in Parties : q = p \/ q = Peer(p)
    BY PartiesAre
  <2>2. ASSUME NEW q \in Parties
        PROVE  /\ pc'[q] \notin {"send", "killed"} => out'[q] = Nothing
               /\ out'[q].erred => Gone(Peer(q))'
    <3>1. /\ pc[q] \notin {"send", "killed"} => out[q] = Nothing
          /\ out[q].erred => Gone(Peer(q))
      BY DEF SessionInv, Sending
    <3>2. Peer(q) \in Parties
      BY PartiesAre
    <3>3. Gone(Peer(q))' <=> Gone(Peer(q))
      BY <1>3, <3>2
    <3>4. out'[q].erred = out[q].erred
      BY <1>1, <2>1
    <3>5. q = p \/ out'[q] = out[q]
      BY <1>1, <2>1
    <3> QED
      BY <1>2, <3>1, <3>3, <3>4, <3>5
  <2>3. out'["endpoint"].body = <<>>
    BY <1>1, PartiesAre, <2>1 DEF SessionInv, Sending
  <2>4. /\ pc'["connector"] = "killed" => Gone("endpoint")'
        /\ pc'["connector"] = "send" => sent' # <<>>
        /\ pc'["connector"] = "init" => sent' = <<>> /\ pc'["endpoint"] = "init"
    BY <1>2, <1>3, PartiesAre DEF SessionInv, Sending
  <2> QED
    BY <2>2, <2>3, <2>4 DEF Sending
<1>6. Reading' /\ Received' /\ Answered' /\ Serving'
  BY <1>2 DEF SessionInv, Reading, Received, Answered, Serving, RepliesDue
<1>7. CASE p = "connector"
  <2>1. /\ OnTheWay' = OnTheWay /\ stream'["connector"] = stream["connector"]
        /\ out'["endpoint"] = out["endpoint"]
        /\ out'["connector"].erred = out["connector"].erred
    BY <1>1, <1>7, PartiesAre DEF OnTheWay
  <2>2. ~Gone("connector")
    BY <1>2, <1>7 DEF Gone
  <2>3. Unread' = Unread
    BY <1>2 DEF Unread
  <2>4. Forward'
    BY <1>3, <2>1, <2>2, <2>3, PartiesAre DEF SessionInv, Forward
  <2>5. Backward'
    BY <1>2, <1>3, <2>1, PartiesAre DEF SessionInv, Backward, RepliesDue
  <2>6. Whole'
    BY <1>2, <2>1 DEF SessionInv, Whole
  <2> QED
    BY <1>4, <1>5, <1>6, <2>4, <2>5, <2>6 DEF SessionInv
<1>8. CASE p = "endpoint"
  <2>1. /\ stream'["connector"] \o out'["endpoint"].header
             = stream["connector"] \o out["endpoint"].header
        /\ stream'["endpoint"] = stream["endpoint"] /\ out'["connector"] = out["connector"]
    BY <1>1, <1>8, PartiesAre DEF SessionInv, Sending
  <2>2. OnTheWay' = OnTheWay /\ Unread' = Unread
    BY <1>2, <2>1 DEF OnTheWay, Unread
  <2>3. Forward' /\ Whole'
    BY <1>2, <1>3, <2>1, <2>2, PartiesAre DEF SessionInv, Forward, Whole
  <2>4. ~Gone("endpoint")
    BY <1>2, <1>8 DEF Gone
  <2>5. Backward'
    BY <1>2, <1>3, <2>1, <2>4, PartiesAre DEF SessionInv, Backward, RepliesDue
  <2> QED
    BY <1>4, <1>5, <1>6, <2>3, <2>5 DEF SessionInv
<1> QED
  BY <1>7, <1>8, PartiesAre

(* A step that changes nothing but the parties' places. *)
LEMMA PlacesKeep ==
  ASSUME SessionInv, UNCHANGED <<stream, out, pending, hang_up, history>>,
         result' \in {NULL, 0, -1},
         pc' \in [Parties -> States], pc'["endpoint"] \in {"init", "recv", "send", "closed"},
         \A p \in Parties : Gone(p) => Gone(p)',
         \A p \in Parties : pc[p] \in {"send", "killed"} => pc'[p] \in {"send", "killed"},
         pc'["connector"] = "killed" => Gone("endpoint")',
         pc'["connector"] = "send" => pc["connector"] = "send",
         pc'["connector"] # "init",
         pc["connector"] # "init" => pc'["endpoint"] = pc["endpoint"]
  PROVE  SessionInv'
<1>1. UNCHANGED <<stream, out, pending, hang_up>> /\ UNCHANGED <<sent, received, answers>>
  BY DEF history
<1>2. Types'
  BY <1>1 DEF SessionInv, Types
<1>3. pc["connector"] = "init" => received = <<>> /\ pending["endpoint"] = NULL
  <2> SUFFICES ASSUME pc["connector"] = "init"
               PROVE  received = <<>> /\ pending["endpoint"] = NULL
    OBVIOUS
  <2>1. sent = <<>> /\ pc["endpoint"] = "init"
    BY DEF SessionInv, Sending
  <2>2. Len(received) <= 0
    BY <2>1 DEF SessionInv, Received
  <2>3. received \in Seq({AsReceived(m) : m \in Messages})
    BY DEF SessionInv, Types
  <2>4. received = <<>>
    <3> DEFINE M == {AsReceived(m) : m \in Messages}
    <3> HIDE DEF M
    <3>1. received \in Seq(M)
      BY <2>3 DEF M
    <3> QED
      BY <2>2, <3>1, EmptySeq
  <2>5. pending["endpoint"] = NULL
    BY <2>1 DEF SessionInv, Reading
  <2> QED
    BY <2>4, <2>5
<1>4. Sending'
  <2>1. ASSUME NEW q \in Parties
        PROVE  /\ pc'[q] \notin {"send", "killed"} => out'[q] = Nothing
               /\ out'[q].erred => Gone(Peer(q))'
    <3>1. /\ pc[q] \notin {"send", "killed"} => out[q] = Nothing
          /\ out[q].erred => Gone(Peer(q))
      BY DEF SessionInv, Sending
    <3>2. Peer(q) \in Parties
      BY PartiesAre
    <3> QED
      BY <1>1, <3>1, <3>2
  <2>2. out'["endpoint"].body = <<>> /\ pc'["connector"] = "send" => sent' # <<>>
    BY <1>1 DEF SessionInv, Sending
  <2>3. out'["endpoint"].body = <<>>
    BY <1>1 DEF SessionInv, Sending
  <2> QED
    BY <1>1, <2>1, <2>2, <2>3 DEF Sending
<1>5. Reading'
  BY <1>1, <1>3 DEF SessionInv, Reading
<1>6. Received' /\ Answered'
  BY <1>1 DEF SessionInv, Received, Answered, RepliesDue
<1>7. Serving'
  BY <1>1, <1>3 DEF SessionInv, Serving
<1>8. OnTheWay' = OnTheWay /\ Unread' = Unread
  BY <1>1 DEF OnTheWay, Unread
<1>9. Forward' /\ Backward'
  <2>1. Gone("connector") => Gone("connector")'
    BY PartiesAre
  <2>2. Gone("endpoint") => Gone("endpoint")'
    BY PartiesAre
  <2> QED
    BY <1>1, <1>8, <2>1, <2>2 DEF SessionInv, Forward, Backward, RepliesDue
<1>10. Whole'
  BY <1>1, <1>8 DEF SessionInv, Whole
<1> QED
  BY <1>2, <1>4, <1>5, <1>6, <1>7, <1>9, <1>10 DEF SessionInv

(* So the calls that only begin or end something do, and SIGPIPE. *)
LEMMA PlaceStepsKeep ==
  ASSUME SessionInv,
         \/ Connect \/ (\E ret \in {NULL, -1} : ConnectFails(ret)) \/ ConnectorRecvMsg
         \/ ConnectorDestroy \/ Sigpipe
  PROVE  SessionInv'
<1>1. /\ pc \in [Parties -> States] /\ pc["endpoint"] \in {"init", "recv", "send", "closed"}
      /\ result \in {NULL, 0, -1}
      /\ pc["connector"] = "init" => pc["endpoint"] = "init"
  BY DEF SessionInv, Types, Sending
<1>2. CASE Connect
  <2>1. /\ UNCHANGED <<stream, out, pending, hang_up, history>> /\ result' = result
        /\ pc["connector"] = "init" /\ pc["endpoint"] = "init"
        /\ pc'["connector"] = "idle" /\ pc'["endpoint"] = "recv"
        /\ pc' \in [Parties -> States]
    BY <1>1, <1>2, PartiesAre DEF Connect, States
  <2> QED
    BY <1>1, <2>1, PlacesKeep, PartiesAre DEF Gone
<1>3. CASE \E ret \in {NULL, -1} : ConnectFails(ret)
  <2>1. /\ UNCHANGED <<stream, out, pending, hang_up, history>> /\ result' \in {NULL, 0, -1}
        /\ pc["connector"] = "init"
        /\ pc'["connector"] = "closed" /\ pc'["endpoint"] = pc["endpoint"]
        /\ pc' \in [Parties -> States]
    BY <1>1, <1>3, PartiesAre DEF ConnectFails, States
  <2> QED
    BY <1>1, <2>1, PlacesKeep, PartiesAre DEF Gone
<1>4. CASE ConnectorRecvMsg
  <2>1. /\ UNCHANGED <<stream, out, pending, hang_up, history>> /\ result' = result
        /\ pc["connector"] = "idle"
        /\ pc'["connector"] = "recv" /\ pc'["endpoint"] = pc["endpoint"]
        /\ pc' \in [Parties -> States]
    BY <1>1, <1>4, PartiesAre DEF ConnectorRecvMsg, States
  <2> QED
    BY <1>1, <2>1, PlacesKeep, PartiesAre DEF Gone
<1>5. CASE ConnectorDestroy
  <2>1. /\ UNCHANGED <<stream, out, pending, hang_up, history>> /\ result' = result
        /\ pc["connector"] = "idle"
        /\ pc'["connector"] = "closed" /\ pc'["endpoint"] = pc["endpoint"]
        /\ pc' \in [Parties -> States]
    BY <1>1, <1>5, PartiesAre DEF ConnectorDestroy, States
  <2> QED
    BY <1>1, <2>1, PlacesKeep, PartiesAre DEF Gone
<1>6. CASE Sigpipe
  <2>1. /\ UNCHANGED <<stream, out, pending, hang_up, history>> /\ result' = result
        /\ pc["connector"] = "send" /\ Gone("endpoint")
        /\ pc'["connector"] = "killed" /\ pc'["endpoint"] = pc["endpoint"]
        /\ pc' \in [Parties -> States]
    BY <1>1, <1>6, PartiesAre DEF Sigpipe, States
  <2> QED
    BY <1>1, <2>1, PlacesKeep, PartiesAre DEF Gone
<1> QED
  BY <1>2, <1>3, <1>4, <1>5, <1>6

(* A message that can be sent can be read. *)
LEMMA ReadableMessages ==
  ASSUME NEW msg \in Messages, msg.verb # NULL
  PROVE  msg \in Messages \cap Readable
  BY MessagesAssumption DEF IsMessage, Readable

(* The end of a text that is appended. *)
LEMMA SameEndAppended ==
  ASSUME NEW S, NEW s \in Seq(S), NEW t \in Seq(S)
  PROVE  SameEnd(s \o t, t)
<1> DEFINE u == s \o t
<1>1. /\ Len(u) = Len(s) + Len(t) /\ Len(s) \in Nat /\ Len(t) \in Nat
      /\ \A i \in 1..Len(t) : u[Len(s) + i] = t[i]
  BY TwoParts
<1> HIDE DEF u
<1>2. \A k \in 0..Len(u) - 1 : k < Len(t) => u[Len(u) - k] = t[Len(t) - k]
  <2> SUFFICES ASSUME NEW k \in 0..Len(u) - 1, k < Len(t)
               PROVE  u[Len(u) - k] = t[Len(t) - k]
    OBVIOUS
  <2>1. Len(t) - k \in 1..Len(t) /\ Len(s) + (Len(t) - k) = Len(u) - k
    BY <1>1
  <2> QED
    BY <1>1, <2>1
<1>3. SameEnd(u, t)
  BY <1>2 DEF SameEnd
<1> QED
  BY <1>3 DEF u

(* hms_connector_send_msg begins. *)
LEMMA SendMsgKeeps ==
  ASSUME SessionInv, NEW msg \in Messages, ConnectorSendMsg(msg)
  PROVE  SessionInv'
<1>1. /\ pc["connector"] = "idle" /\ Len(sent) < MaxMsgs
      /\ UNCHANGED <<stream, pending, hang_up, result, received, answers>>
      /\ pc \in [Parties -> States] /\ pc["endpoint"] \in {"init", "recv", "send", "closed"}
      /\ result \in {NULL, 0, -1}
  BY DEF ConnectorSendMsg, SessionInv, Types
<1>2. CASE msg.verb = NULL
  <2>1. UNCHANGED <<out, sent>> /\ pc' = [pc EXCEPT !["connector"] = "aborted"]
    BY <1>2 DEF ConnectorSendMsg
  <2>2. UNCHANGED <<stream, out, pending, hang_up, history>> /\ result' = result
    BY <1>1, <2>1 DEF history
  <2>3. /\ pc'["connector"] = "aborted" /\ pc'["endpoint"] = pc["endpoint"]
        /\ pc' \in [Parties -> States]
    BY <1>1, <2>1, PartiesAre DEF States
  <2> QED
    BY <1>1, <2>2, <2>3, PlacesKeep, PartiesAre DEF Gone
<1>3. CASE msg.verb # NULL
  <2> DEFINE H == print_header(msg)
             B == msg.body
             o == [header |-> H, body |-> B, erred |-> FALSE]
  <2>1. msg \in Messages \cap Readable /\ msg \in Readable
    BY <1>3, ReadableMessages
  <2>2. H \in Seq(Tokens) /\ B \in Seq(Tokens) /\ Wire(msg) \in Seq(Tokens) /\ Wire(msg) = H \o B
    BY <2>1, WireType
  <2>3. /\ pc' = [pc EXCEPT !["connector"] = "send"]
        /\ out' = [out EXCEPT !["connector"] = o] /\ sent' = Append(sent, msg)
    BY <1>3 DEF ConnectorSendMsg, StartSend
  <2> HIDE DEF H, B
  <2>4. /\ pc' \in [Parties -> States] /\ pc'["connector"] = "send"
        /\ pc'["endpoint"] = pc["endpoint"]
        /\ \A q \in Parties : Gone(q)' <=> Gone(q)
    BY <1>1, <2>3, PartiesAre DEF States, Gone
  <2>5. /\ out \in [Parties -> OutType] /\ out["connector"] = Nothing
        /\ sent \in Seq(Messages \cap Readable) /\ Len(sent) \in Nat /\ MaxMsgs \in Nat
        /\ received \in Seq({AsReceived(m) : m \in Messages})
    BY <1>1, PartiesAre, BoundsAssumption DEF SessionInv, Types, Sending
  <2>6. o \in OutType
    BY <2>2 DEF OutType
  <2>7. /\ out' \in [Parties -> OutType] /\ out'["connector"] = o
        /\ out'["endpoint"] = out["endpoint"]
    BY <2>3, <2>5, <2>6, PartiesAre
  <2>8. o.header = H /\ o.body = B /\ o.erred = FALSE
    OBVIOUS
  <2> HIDE DEF o
  <2>9. /\ sent' \in Seq(Messages \cap Readable) /\ Len(sent') = Len(sent) + 1
        /\ \A i \in 1..Len(sent) : sent'[i] = sent[i]
        /\ sent'[Len(sent')] = msg /\ sent' # <<>>
    <3> DEFINE M == Messages \cap Readable
    <3> HIDE DEF M
    <3>1. sent \in Seq(M) /\ msg \in M
      BY <2>1, <2>5 DEF M
    <3>2. /\ sent' \in Seq(M) /\ Len(sent') = Len(sent) + 1
          /\ \A i \in 1..Len(sent) : sent'[i] = sent[i]
          /\ sent'[Len(sent) + 1] = msg /\ sent' # <<>>
      BY <2>3, <3>1
    <3> QED
      BY <3>2 DEF M
  <2>10. Types'
    <3>1. Len(sent') <= MaxMsgs
      BY <1>1, <2>5, <2>9
    <3> QED
      BY <1>1, <2>4, <2>7, <2>9, <3>1 DEF SessionInv, Types
  <2>11. Sending'
    <3>1. ASSUME NEW q \in Parties
          PROVE  /\ pc'[q] \notin {"send", "killed"} => out'[q] = Nothing
                 /\ out'[q].erred => Gone(Peer(q))'
      <4>1. CASE q = "connector"
        BY <2>4, <2>7, <2>8, <4>1
      <4>2. CASE q = "endpoint"
        BY <2>4, <2>7, <4>2, PartiesAre DEF SessionInv, Sending
      <4> QED
        BY <4>1, <4>2, PartiesAre
    <3>2. out'["endpoint"].body = <<>>
      BY <2>7 DEF SessionInv, Sending
    <3> QED
      BY <2>4, <2>9, <3>1, <3>2 DEF Sending
  <2>12. Received'
    <3>1. Len(received) \in Nat /\ Len(received) <= Len(sent)
          /\ \A i \in 1..Len(received) : received[i] = AsReceived(sent[i])
      BY <2>5 DEF SessionInv, Received
    <3>2. Len(received) <= Len(sent')
      BY <2>5, <2>9, <3>1
    <3>3. \A i \in 1..Len(received) : i \in 1..Len(sent)
      BY <2>5, <3>1
    <3> QED
      BY <1>1, <2>9, <3>1, <3>2, <3>3 DEF Received
  <2>13. pending["endpoint"] # NULL =>
           sent'[Len(received) + 1] = sent[Len(received) + 1] /\ Len(received) < Len(sent)
    <3> SUFFICES ASSUME pending["endpoint"] # NULL
                 PROVE  /\ sent'[Len(received) + 1] = sent[Len(received) + 1]
                        /\ Len(received) < Len(sent)
      OBVIOUS
    <3>1. Len(received) < Len(sent) /\ Len(received) \in Nat
      BY <2>5 DEF SessionInv, Reading
    <3>2. Len(received) + 1 \in 1..Len(sent)
      BY <2>5, <3>1
    <3> QED
      BY <2>9, <3>1, <3>2
  <2>14. Reading'
    <3>1. /\ pending'["connector"] = NULL /\ pending' = pending /\ received' = received
          /\ pc'["endpoint"] = pc["endpoint"]
      BY <1>1, <2>4 DEF SessionInv, Reading
    <3> SUFFICES ASSUME pending["endpoint"] # NULL
                 PROVE  Reading'
      BY <3>1 DEF Reading
    <3>2. /\ pc["endpoint"] = "recv" /\ Len(received) < Len(sent)
          /\ Len(pending["endpoint"].body) \in 0..Len(sent[Len(received) + 1].body) - 1
          /\ pending["endpoint"] = [Clean(sent[Len(received) + 1]) EXCEPT !.body =
                 SubSeq(sent[Len(received) + 1].body, 1, Len(pending["endpoint"].body))]
      BY DEF SessionInv, Reading
    <3>3. Len(received) < Len(sent')
      <4>1. Len(received) \in Nat
        BY <2>5
      <4> QED
        BY <2>5, <2>9, <3>2, <4>1
    <3> QED
      BY <2>13, <3>1, <3>2, <3>3 DEF Reading
  <2>15. SubSeq(sent', 1, Len(received)) = SubSeq(sent, 1, Len(received))
    <3> DEFINE M == Messages \cap Readable
               r == Len(received)
    <3>1. sent \in Seq(M) /\ sent' \in Seq(M) /\ r \in 0..Len(sent) /\ r \in 0..Len(sent')
          /\ Len(sent) \in Nat
      BY <2>5, <2>9 DEF SessionInv, Received
    <3> HIDE DEF M, r
    <3>2. /\ SubSeq(sent, 1, r) \in Seq(M) /\ Len(SubSeq(sent, 1, r)) = r
          /\ \A i \in 1..r : SubSeq(sent, 1, r)[i] = sent[i]
      BY <3>1, AfterIs
    <3>3. /\ SubSeq(sent', 1, r) \in Seq(M) /\ Len(SubSeq(sent', 1, r)) = r
          /\ \A i \in 1..r : SubSeq(sent', 1, r)[i] = sent'[i]
      BY <3>1, AfterIs
    <3>4. \A i \in 1..r : sent'[i] = sent[i]
      BY <2>9, <3>1
    <3> DEFINE a == SubSeq(sent, 1, r)
               b == SubSeq(sent', 1, r)
    <3> HIDE DEF a, b
    <3>5. /\ a \in Seq(M) /\ b \in Seq(M) /\ Len(b) = Len(a) /\ \A i \in 1..Len(b) : b[i] = a[i]
      BY <3>2, <3>3, <3>4 DEF a, b
    <3>6. b = a
      BY <3>5, SeqEqual
    <3> QED
      BY <3>6 DEF a, b, r
  <2>16. Answered' /\ RepliesDue' = RepliesDue
    BY <1>1, <2>15 DEF SessionInv, Answered, RepliesDue
  <2>17. Serving'
    BY <1>1, <2>4 DEF SessionInv, Serving
  <2>18. Backward'
    BY <1>1, <2>4, <2>7, <2>16, PartiesAre DEF SessionInv, Backward
  <2>19. /\ stream["endpoint"] \in Seq(Tokens) /\ OnTheWay = stream["endpoint"]
         /\ OnTheWay' = stream["endpoint"] \o Wire(msg)
    <3> DEFINE s == stream["endpoint"]
    <3>1. s \in Seq(Tokens)
      BY PartiesAre DEF SessionInv, Types
    <3> HIDE DEF s
    <3>2. s \o <<>> = s /\ (s \o <<>>) \o <<>> = s /\ (s \o H) \o B = s \o (H \o B)
      BY <2>2, <3>1, ConcatEmptySeq, ConcatAssociative
    <3>3. Nothing.header = <<>> /\ Nothing.body = <<>>
      BY DEF Nothing
    <3>4. OnTheWay = (s \o <<>>) \o <<>>
      BY <2>5, <3>3 DEF OnTheWay, s
    <3>5. OnTheWay' = (s \o H) \o B
      BY <1>1, <2>7, <2>8 DEF OnTheWay, s
    <3> QED
      BY <2>2, <3>1, <3>2, <3>4, <3>5 DEF s
  <2>20. Unread' = Unread \o Wire(msg)
    <3> DEFINE M == Messages \cap Readable
               r == Len(received)
    <3>1. sent \in Seq(Readable) /\ r \in 0..Len(sent)
      BY <2>5 DEF SessionInv, Received
    <3> HIDE DEF M, r
    <3>2. CASE pending["endpoint"] = NULL
      <4>1. Wires(After(Append(sent, msg), r)) = Wires(After(sent, r)) \o Wire(msg)
        BY <2>1, <3>1, WiresLast
      <4> QED
        BY <1>1, <2>3, <3>2, <4>1 DEF Unread, r
    <3>3. CASE pending["endpoint"] # NULL
      <4> DEFINE k == Len(pending["endpoint"].body)
                 m == sent[r + 1]
                 a == After(m.body, k)
                 w == Wires(After(sent, r + 1))
      <4>1. r < Len(sent) /\ sent'[r + 1] = m /\ k \in 0..Len(m.body) - 1
        BY <2>13, <3>3 DEF SessionInv, Reading, r
      <4>2. r + 1 \in 0..Len(sent) /\ r + 1 \in 1..Len(sent)
        BY <3>1, <4>1
      <4>3. m \in Readable
        BY <3>1, <4>2
      <4>4. m.body \in Seq(Tokens)
        BY <4>3, WireType
      <4>5. a \in Seq(Tokens)
        <5> HIDE DEF m, k
        <5>1. k \in 0..Len(m.body)
          BY <4>1, <4>4
        <5> QED
          BY <4>4, <5>1, AfterIs
      <4>6. Wires(After(Append(sent, msg), r + 1)) = w \o Wire(msg) /\ w \in Seq(Tokens)
        BY <2>1, <3>1, <4>2, WiresLast
      <4>7. Unread = a \o w /\ Unread' = a \o Wires(After(sent', r + 1))
        BY <1>1, <3>3, <4>1 DEF Unread, r
      <4> HIDE DEF a, w, k, m
      <4>8. (a \o w) \o Wire(msg) = a \o (w \o Wire(msg))
        <5>1. a \in Seq(Tokens) /\ w \in Seq(Tokens) /\ Wire(msg) \in Seq(Tokens)
          BY <2>2, <4>5, <4>6
        <5> QED
          BY <5>1, ConcatAssociative, SMTT(60)
      <4> QED
        BY <2>3, <4>6, <4>7, <4>8
    <3> QED
      BY <3>2, <3>3
  <2>21. Forward'
    <3>1. ~Gone("connector")
      BY <1>1 DEF Gone
    <3>2. Gone("endpoint") \/ OnTheWay = Unread
      BY <3>1 DEF SessionInv, Forward
    <3> QED
      BY <2>4, <2>19, <2>20, <3>2, PartiesAre DEF Forward
  <2>22. Whole'
    BY <2>2, <2>9, <2>19, SameEndAppended DEF Whole
  <2> QED
    BY <2>10, <2>11, <2>12, <2>14, <2>16, <2>17, <2>18, <2>21, <2>22 DEF SessionInv
<1> QED
  BY <1>2, <1>3

(* A send fails: the peer is gone, and nothing need arrive any more. *)
LEMMA SendFailsKeeps ==
  ASSUME SessionInv, NEW p \in Parties, SendAllFails(p)
  PROVE  SessionInv'
<1> DEFINE o == out[p]
           part == Part(p)
           b == BrokenPart(p)
<1>1. /\ pc[p] = "send" /\ Remaining(p) # <<>> /\ Gone(Peer(p))
      /\ out' = [out EXCEPT ![p] = b]
      /\ UNCHANGED <<pc, stream, pending, hang_up, result>>
      /\ UNCHANGED <<sent, received, answers>>
  BY DEF SendAllFails, history
<1>2. out \in [Parties -> OutType] /\ o \in OutType
  BY DEF SessionInv, Types
<1>3. /\ o = [header |-> o.header, body |-> o.body, erred |-> o.erred]
      /\ o.header \in Seq(Tokens) /\ o.body \in Seq(Tokens) /\ o.erred \in BOOLEAN
  BY <1>2 DEF OutType
<1>4. part = "header" \/ part = "body"
  BY DEF Part
<1>5. b = [[o EXCEPT ![part] = <<>>] EXCEPT !.erred = TRUE]
  BY DEF BrokenPart, DropPart
<1>6. p = "endpoint" => o.body = <<>>
  BY DEF SessionInv, Sending
<1>7. <<>> \in Seq(Tokens)
  OBVIOUS
<1> HIDE DEF o, part, b
<1>8. b \in OutType /\ b.erred = TRUE /\ (p = "endpoint" => b.body = <<>>)
  <2>1. CASE part = "header"
    <3>1. b = [header |-> <<>>, body |-> o.body, erred |-> TRUE]
      BY <1>3, <1>5, <2>1
    <3> QED
      BY <1>3, <1>6, <1>7, <3>1 DEF OutType
  <2>2. CASE part = "body"
    <3>1. b = [header |-> o.header, body |-> <<>>, erred |-> TRUE]
      BY <1>3, <1>5, <2>2
    <3> QED
      BY <1>3, <1>7, <3>1 DEF OutType
  <2> QED
    BY <1>4, <2>1, <2>2
<1>9. /\ out' \in [Parties -> OutType] /\ out'[p] = b
      /\ \A q \in Parties : q # p => out'[q] = out[q]
  BY <1>1, <1>2, <1>8
<1>10. \A q \in Parties : Gone(q)' <=> Gone(q)
  BY <1>1 DEF Gone
<1>11. Types'
  BY <1>1, <1>9 DEF SessionInv, Types
<1>12. Sending'
  <2>1. ASSUME NEW q \in Parties
        PROVE  /\ pc'[q] \notin {"send", "killed"} => out'[q] = Nothing
               /\ out'[q].erred => Gone(Peer(q))'
    <3>1. /\ pc[q] \notin {"send", "killed"} => out[q] = Nothing
          /\ out[q].erred => Gone(Peer(q))
      BY DEF SessionInv, Sending
    <3>2. Peer(q) \in Parties
      BY PartiesAre
    <3> QED
      BY <1>1, <1>9, <1>10, <3>1, <3>2
  <2>2. out'["endpoint"].body = <<>>
    BY <1>8, <1>9, PartiesAre DEF SessionInv, Sending
  <2>3. /\ pc'["connector"] = "killed" => Gone("endpoint")'
        /\ pc'["connector"] = "send" => sent' # <<>>
        /\ pc'["connector"] = "init" => sent' = <<>> /\ pc'["endpoint"] = "init"
    BY <1>1, <1>10, PartiesAre DEF SessionInv, Sending
  <2> QED
    BY <2>1, <2>2, <2>3 DEF Sending
<1>13. Reading' /\ Received' /\ Answered' /\ Serving'
  BY <1>1 DEF SessionInv, Reading, Received, Answered, Serving, RepliesDue
<1>14. Unread' = Unread /\ RepliesDue' = RepliesDue
  BY <1>1 DEF Unread, RepliesDue
<1>15. CASE p = "connector"
  <2>1. Forward'
    BY <1>1, <1>10, <1>15, PartiesAre DEF Forward
  <2>2. Backward'
    BY <1>1, <1>9, <1>10, <1>14, <1>15, PartiesAre DEF SessionInv, Backward
  <2>3. Whole'
    BY <1>8, <1>9, <1>15 DEF Whole
  <2> QED
    BY <1>11, <1>12, <1>13, <2>1, <2>2, <2>3 DEF SessionInv
<1>16. CASE p = "endpoint"
  <2>1. out'["connector"] = out["connector"]
    BY <1>9, <1>16, PartiesAre
  <2>2. OnTheWay' = OnTheWay
    BY <1>1, <2>1 DEF OnTheWay
  <2>3. Forward' /\ Whole'
    BY <1>1, <1>10, <1>14, <2>1, <2>2, PartiesAre DEF SessionInv, Forward, Whole
  <2>4. Backward'
    BY <1>1, <1>10, <1>16, PartiesAre DEF Backward
  <2> QED
    BY <1>11, <1>12, <1>13, <2>3, <2>4 DEF SessionInv
<1> QED
  BY <1>15, <1>16, PartiesAre

(* Nothing to send. *)
LEMMA NothingIs ==
  Nothing \in OutType /\ Nothing.header = <<>> /\ Nothing.body = <<>> /\ Nothing.erred = FALSE
  BY DEF Nothing, OutType

(* __send_all returns: there is nothing left to send. *)
LEMMA SentKeeps ==
  ASSUME SessionInv, NEW p \in Parties, AllSent(p),
         UNCHANGED <<stream, pending, hang_up, sent, received, answers>>,
         result' \in {NULL, 0, -1},
         out' = [out EXCEPT ![p] = Nothing],
         NEW next, pc' = [pc EXCEPT ![p] = next],
         IF p = "connector" THEN next = "idle"
         ELSE next \in {"recv", "closed"} /\ (hang_up => next = "closed")
  PROVE  SessionInv'
<1>1. pc[p] = "send" /\ out[p].header = <<>> /\ out[p].body = <<>>
  BY DEF AllSent
<1>2. /\ out \in [Parties -> OutType] /\ pc \in [Parties -> States]
      /\ pc["endpoint"] \in {"init", "recv", "send", "closed"}
  BY DEF SessionInv, Types
<1>3. /\ out' \in [Parties -> OutType] /\ out'[p] = Nothing /\ pc'[p] = next
      /\ \A q \in Parties : q # p => out'[q] = out[q] /\ pc'[q] = pc[q]
      /\ \A q \in Parties : out'[q].header = out[q].header /\ out'[q].body = out[q].body
  BY <1>1, <1>2, NothingIs
<1>4. pc' \in [Parties -> States] /\ pc'["endpoint"] \in {"init", "recv", "send", "closed"}
  <2>1. next \in States
    BY PartiesAre DEF States
  <2>2. pc' \in [Parties -> States]
    BY <1>2, <2>1
  <2>3. pc'["endpoint"] \in {"init", "recv", "send", "closed"}
    BY <1>2, <1>3, PartiesAre
  <2> QED
    BY <2>2, <2>3
<1>5. \A q \in Parties : Gone(q) => Gone(q)'
  BY <1>1, <1>3 DEF Gone
<1>6. Types'
  BY <1>3, <1>4 DEF SessionInv, Types
<1>7. Sending'
  <2>1. ASSUME NEW q \in Parties
        PROVE  /\ pc'[q] \notin {"send", "killed"} => out'[q] = Nothing
               /\ out'[q].erred => Gone(Peer(q))'
    <3>1. /\ pc[q] \notin {"send", "killed"} => out[q] = Nothing
          /\ out[q].erred => Gone(Peer(q))
      BY DEF SessionInv, Sending
    <3>2. Peer(q) \in Parties
      BY PartiesAre
    <3> QED
      BY <1>3, <1>5, <3>1, <3>2, NothingIs
  <2>2. out'["endpoint"].body = <<>>
    BY <1>3, PartiesAre DEF SessionInv, Sending
  <2>3. /\ pc'["connector"] = "killed" => Gone("endpoint")'
        /\ pc'["connector"] = "send" => sent' # <<>>
        /\ pc'["connector"] = "init" => sent' = <<>> /\ pc'["endpoint"] = "init"
    BY <1>1, <1>3, <1>5, PartiesAre DEF SessionInv, Sending
  <2> QED
    BY <2>1, <2>2, <2>3 DEF Sending
<1>8. Reading'
  BY <1>1, <1>3, PartiesAre DEF SessionInv, Reading
<1>9. Received' /\ Answered'
  BY DEF SessionInv, Received, Answered, RepliesDue
<1>10. Serving'
  BY <1>1, <1>3, PartiesAre DEF SessionInv, Serving
<1>11. OnTheWay' = OnTheWay /\ Unread' = Unread /\ RepliesDue' = RepliesDue
  BY <1>3, PartiesAre DEF OnTheWay, Unread, RepliesDue
<1>12. Forward' /\ Backward'
  <2>1. Gone("connector") => Gone("connector")'
    BY <1>5, PartiesAre
  <2>2. Gone("endpoint") => Gone("endpoint")'
    BY <1>5, PartiesAre
  <2>3. out'["endpoint"].header = out["endpoint"].header
    BY <1>3, PartiesAre
  <2> QED
    BY <1>11, <2>1, <2>2, <2>3 DEF SessionInv, Forward, Backward
<1>13. Whole'
  BY <1>3, <1>11, PartiesAre DEF SessionInv, Whole
<1> QED
  BY <1>6, <1>7, <1>8, <1>9, <1>10, <1>12, <1>13 DEF SessionInv

(* The two returns of __send_all. *)
LEMMA ReturnsKeep ==
  ASSUME SessionInv, ConnectorSendReturn \/ EndpointSendReturn
  PROVE  SessionInv'
<1>1. result \in {NULL, 0, -1}
  BY DEF SessionInv, Types
<1>2. CASE ConnectorSendReturn
  <2>1. /\ AllSent("connector") /\ UNCHANGED <<stream, pending, hang_up, sent, received, answers>>
        /\ result' \in {NULL, 0, -1}
        /\ out' = [out EXCEPT !["connector"] = Nothing]
        /\ pc' = [pc EXCEPT !["connector"] = "idle"]
    BY <1>2 DEF ConnectorSendReturn, history
  <2> QED
    BY <2>1, SentKeeps, PartiesAre
<1>3. CASE EndpointSendReturn
  <2> DEFINE next == IF hang_up THEN "closed" ELSE "recv"
  <2>1. /\ AllSent("endpoint") /\ UNCHANGED <<stream, pending, hang_up, sent, received, answers>>
        /\ result' = result
        /\ out' = [out EXCEPT !["endpoint"] = Nothing]
        /\ pc' = [pc EXCEPT !["endpoint"] = next]
    BY <1>3 DEF EndpointSendReturn, history
  <2>2. next \in {"recv", "closed"} /\ (hang_up => next = "closed")
    OBVIOUS
  <2> HIDE DEF next
  <2> QED
    BY <1>1, <2>1, <2>2, SentKeeps, PartiesAre
<1> QED
  BY <1>2, <1>3

(* A reset empties a stream whose receiver or sender is gone. *)
LEMMA ResetKeeps ==
  ASSUME SessionInv, NEW p \in Parties, Reset(p)
  PROVE  SessionInv'
<1>1. /\ Gone(Peer(p)) /\ stream' = [stream EXCEPT ![p] = <<>>]
      /\ UNCHANGED <<pc, out, pending, hang_up, result>> /\ UNCHANGED <<sent, received, answers>>
  BY DEF Reset, history
<1>2. stream \in [Parties -> Seq(Tokens)] /\ <<>> \in Seq(Tokens) /\ Len(<<>>) = 0
  BY DEF SessionInv, Types
<1>3. /\ stream' \in [Parties -> Seq(Tokens)] /\ stream'[p] = <<>>
      /\ \A q \in Parties : q # p => stream'[q] = stream[q]
  BY <1>1, <1>2
<1>4. \A q \in Parties : Gone(q)' <=> Gone(q)
  BY <1>1 DEF Gone
<1>5. Types'
  <2>1. Room \in Nat /\ 0 <= Room
    BY BoundsAssumption
  <2>2. \A q \in Parties : Len(stream'[q]) <= Room
    BY <1>2, <1>3, <2>1 DEF SessionInv, Types
  <2> QED
    BY <1>1, <1>3, <2>2 DEF SessionInv, Types
<1>6. Sending'
  <2>1. \A q \in Parties : Peer(q) \in Parties
    BY PartiesAre
  <2> QED
    BY <1>1, <1>4, <2>1, PartiesAre DEF SessionInv, Sending
<1>7. Reading' /\ Received' /\ Answered' /\ Serving'
  BY <1>1 DEF SessionInv, Reading, Received, Answered, Serving, RepliesDue
<1>8. Unread' = Unread /\ RepliesDue' = RepliesDue
  BY <1>1 DEF Unread, RepliesDue
<1>9. CASE p = "endpoint"
  <2>1. /\ Gone("connector") /\ stream'["endpoint"] = <<>>
        /\ stream'["connector"] = stream["connector"]
    BY <1>1, <1>3, <1>9, PartiesAre
  <2>2. Forward'
    BY <1>4, <2>1, PartiesAre DEF Forward
  <2>3. Backward'
    BY <1>4, <2>1, PartiesAre DEF Backward
  <2>4. Whole'
    BY <1>1, <2>1 DEF Whole, Gone
  <2> QED
    BY <1>5, <1>6, <1>7, <2>2, <2>3, <2>4 DEF SessionInv
<1>10. CASE p = "connector"
  <2>1. /\ Gone("endpoint") /\ stream'["connector"] = <<>>
        /\ stream'["endpoint"] = stream["endpoint"]
    BY <1>1, <1>3, <1>10, PartiesAre
  <2>2. OnTheWay' = OnTheWay
    BY <1>1, <2>1 DEF OnTheWay
  <2>3. Forward' /\ Backward'
    BY <1>4, <2>1, PartiesAre DEF Forward, Backward
  <2>4. Whole'
    BY <1>1, <2>2 DEF SessionInv, Whole
  <2> QED
    BY <1>5, <1>6, <1>7, <2>3, <2>4 DEF SessionInv
<1> QED
  BY <1>9, <1>10, PartiesAre

-----------------------------------------------------------------------------
(* The reads of the handler *)

(* Tokens are read off a stream. *)
LEMMA StreamRead ==
  ASSUME Types, NEW p \in Parties, NEW n \in 0..Len(stream[p]),
         stream' = [stream EXCEPT ![p] = After(@, n)]
  PROVE  /\ stream' \in [Parties -> Seq(Tokens)] /\ \A q \in Parties : Len(stream'[q]) <= Room
         /\ stream'[p] = After(stream[p], n)
         /\ \A q \in Parties : q # p => stream'[q] = stream[q]
<1>1. stream \in [Parties -> Seq(Tokens)] /\ \A q \in Parties : Len(stream[q]) <= Room
  BY DEF Types
<1> DEFINE s == stream[p]
           a == After(s, n)
<1>2. s \in Seq(Tokens) /\ Len(s) \in Nat /\ Len(s) <= Room
  BY <1>1
<1> HIDE DEF s
<1>3. a \in Seq(Tokens) /\ Len(a) = Len(s) - n /\ n \in 0..Len(s)
  BY <1>2, AfterIs DEF s
<1> HIDE DEF a
<1>4. stream' = [stream EXCEPT ![p] = a]
  BY DEF a, s
<1>5. /\ stream' \in [Parties -> Seq(Tokens)] /\ stream'[p] = a
      /\ \A q \in Parties : q # p => stream'[q] = stream[q]
  BY <1>1, <1>3, <1>4
<1>6. Len(a) <= Room
  BY <1>2, <1>3, BoundsAssumption
<1>7. ASSUME NEW q \in Parties PROVE Len(stream'[q]) <= Room
  BY <1>1, <1>5, <1>6
<1> QED
  BY <1>5, <1>7 DEF a, s

(* What is left of a sequence has the same end. *)
LEMMA EndKept ==
  ASSUME NEW S, NEW s \in Seq(S), NEW x \in Seq(S), NEW t, NEW n \in 0..Len(s),
         SameEnd(s \o x, t)
  PROVE  SameEnd(After(s, n) \o x, t)
<1> DEFINE a == After(s, n)
           L == Len(s) + Len(x)
<1>1. /\ a \in Seq(S) /\ Len(a) = Len(s) - n /\ \A i \in 1..Len(s) - n : a[i] = s[n + i]
  BY AfterIs
<1>2. n \in Nat /\ Len(s) \in Nat /\ Len(x) \in Nat /\ n <= Len(s)
  OBVIOUS
<1> HIDE DEF a
<1>3. /\ Len(a \o x) = Len(a) + Len(x)
      /\ \A i \in 1..Len(a) : (a \o x)[i] = a[i]
      /\ \A i \in 1..Len(x) : (a \o x)[Len(a) + i] = x[i]
  <2>1. a \in Seq(S) /\ x \in Seq(S)
    BY <1>1
  <2> QED
    BY <2>1, TwoParts
<1>4. /\ Len(s \o x) = L
      /\ \A i \in 1..Len(s) : (s \o x)[i] = s[i]
      /\ \A i \in 1..Len(x) : (s \o x)[Len(s) + i] = x[i]
  BY TwoParts
<1> DEFINE y == a \o x
           z == s \o x
<1> HIDE DEF y, z
<1>5. SUFFICES ASSUME NEW k \in 0..Len(y) - 1, k < Len(t)
               PROVE  y[Len(y) - k] = t[Len(t) - k]
  BY DEF SameEnd, y, a
<1>6. /\ Len(y) = L - n /\ Len(z) = L /\ k \in 0..Len(z) - 1
  BY <1>1, <1>2, <1>3, <1>4 DEF y, z
<1>7. z[L - k] = t[Len(t) - k]
  <2>1. SameEnd(z, t) /\ Len(z) = L
    BY <1>6 DEF z
  <2> HIDE DEF L
  <2>2. z[Len(z) - k] = t[Len(t) - k]
    BY <1>5, <1>6, <2>1 DEF SameEnd
  <2> QED
    BY <2>1, <2>2
<1>8. y[L - n - k] = z[L - k]
  <2>1. CASE k < Len(x)
    <3> DEFINE i == Len(x) - k
    <3>1. i \in 1..Len(x) /\ Len(a) + i = L - n - k /\ Len(s) + i = L - k
      BY <1>1, <1>2, <1>5, <1>6, <2>1
    <3> HIDE DEF i, L
    <3>2. y[Len(a) + i] = x[i] /\ z[Len(s) + i] = x[i]
      BY <1>3, <1>4, <3>1 DEF y, z
    <3> QED
      BY <3>1, <3>2
  <2>2. CASE ~(k < Len(x))
    <3> DEFINE i == L - n - k
    <3>1. i \in 1..Len(a) /\ n + i = L - k /\ i \in 1..Len(s) - n /\ n + i \in 1..Len(s)
      BY <1>1, <1>2, <1>5, <1>6, <2>2
    <3> HIDE DEF i, L
    <3>2. y[i] = a[i] /\ a[i] = s[n + i] /\ z[n + i] = s[n + i]
      BY <1>1, <1>3, <1>4, <3>1 DEF y, z
    <3> QED
      BY <3>1, <3>2 DEF i
  <2> QED
    BY <2>1, <2>2
<1> QED
  BY <1>6, <1>7, <1>8

(* What a read of the handler leaves on its way. *)
LEMMA EndpointRead ==
  ASSUME SessionInv, NEW n \in 0..Len(stream["endpoint"]),
         stream' = [stream EXCEPT !["endpoint"] = After(@, n)],
         UNCHANGED sent, out'["connector"] = out["connector"], pc'["connector"] = pc["connector"]
  PROVE  /\ OnTheWay' = After(stream["endpoint"], n)
                          \o (out["connector"].header \o out["connector"].body)
         /\ Whole'
<1> DEFINE s == stream["endpoint"]
           x == out["connector"].header \o out["connector"].body
           a == After(s, n)
<1>1. /\ s \in Seq(Tokens) /\ x \in Seq(Tokens) /\ OnTheWay = s \o x
      /\ out["connector"].header \in Seq(Tokens) /\ out["connector"].body \in Seq(Tokens)
  BY OnTheWayIs, PartiesAre DEF SessionInv
<1>2. stream'["endpoint"] = a
  BY StreamRead, PartiesAre DEF SessionInv
<1>3. a \in Seq(Tokens)
  BY <1>1, AfterIs
<1>4. OnTheWay' = (a \o out["connector"].header) \o out["connector"].body
  BY <1>2 DEF OnTheWay
<1> HIDE DEF s, a
<1>5. OnTheWay' = a \o x
  <2> DEFINE h == out["connector"].header
             b == out["connector"].body
  <2>1. h \in Seq(Tokens) /\ b \in Seq(Tokens)
    BY <1>1
  <2> HIDE DEF h, b
  <2>2. (a \o h) \o b = a \o (h \o b)
    BY <1>3, <2>1, ConcatAssociative, SMTT(60)
  <2> QED
    BY <1>4, <2>2 DEF h, b
<1> HIDE DEF x
<1>6. Whole'
  <2> SUFFICES ASSUME pc["connector"] = "send", ~out["connector"].erred
               PROVE  SameEnd(OnTheWay', Wire(sent[Len(sent)]))
    BY DEF Whole
  <2>1. SameEnd(s \o x, Wire(sent[Len(sent)]))
    BY <1>1 DEF SessionInv, Whole
  <2>2. s \in Seq(Tokens) /\ x \in Seq(Tokens) /\ n \in 0..Len(s)
    BY <1>1 DEF s
  <2>3. SameEnd(a \o x, Wire(sent[Len(sent)]))
    BY <2>1, <2>2, EndKept DEF a
  <2> QED
    BY <1>5, <2>3
<1> QED
  BY <1>5, <1>6 DEF s, a, x

(* What the handler does with a message. *)
LEMMA DeliversIs ==
  ASSUME Types, Sending, NEW msg, EndpointDelivers(msg), pc["endpoint"] = "recv"
  PROVE  /\ received' = Append(received, msg) /\ UNCHANGED <<result, sent, answers>>
         /\ pc' \in [Parties -> States] /\ pc'["connector"] = pc["connector"]
         /\ pc'["endpoint"] \in {"recv", "send", "closed"}
         /\ hang_up' \in BOOLEAN
         /\ out' \in [Parties -> OutType] /\ out'["connector"] = out["connector"]
         /\ out'["endpoint"].erred = FALSE /\ out'["endpoint"].body = <<>>
         /\ pc'["endpoint"] # "send" => out'["endpoint"] = Nothing
         /\ \/ Due(msg) = <<>> /\ out'["endpoint"].header = <<>>
            \/ \E reply \in ReplySet : /\ Due(msg) = <<reply>>
                                       /\ out'["endpoint"].header = print_header(reply)
         /\ Ends(msg) => pc'["endpoint"] = "closed" \/ (pc'["endpoint"] = "send" /\ hang_up')
<1> DEFINE hit == IsOneOf(msg, Invalid \cup Accepted)
           reply == Reply(msg)
<1>1. /\ received' = Append(received, msg) /\ UNCHANGED <<result, sent, answers>>
      /\ pc \in [Parties -> States] /\ hang_up \in BOOLEAN /\ out \in [Parties -> OutType]
      /\ out["endpoint"] = Nothing
  BY PartiesAre DEF EndpointDelivers, Types, Sending
<1>2. hit <=> (IsOneOf(msg, Invalid) \/ IsOneOf(msg, Accepted))
  BY DEF IsOneOf
<1>3. Due(msg) = IF hit \/ reply = NULL THEN <<>> ELSE <<reply>>
  BY DEF Due
<1>4. Ends(msg) <=> ~hit /\ (msg.verb = NULL \/ reply = NULL)
  BY DEF Ends
<1>5. \/ /\ hit /\ UNCHANGED <<out, hang_up>>
         /\ \E next \in {"recv", "closed"} : pc' = [pc EXCEPT !["endpoint"] = next]
      \/ /\ ~hit /\ reply = NULL /\ hang_up' = TRUE /\ UNCHANGED out
         /\ pc' = [pc EXCEPT !["endpoint"] = "closed"]
      \/ /\ ~hit /\ reply # NULL /\ hang_up' = (msg.verb = NULL)
         /\ pc' = [pc EXCEPT !["endpoint"] = "send"]
         /\ StartSend("endpoint", reply)
  <2> HIDE DEF hit, reply
  <2>1. CASE IsOneOf(msg, Invalid)
    BY <1>2, <2>1 DEF EndpointDelivers
  <2>2. CASE ~IsOneOf(msg, Invalid) /\ IsOneOf(msg, Accepted)
    BY <1>2, <2>2 DEF EndpointDelivers
  <2>3. CASE ~IsOneOf(msg, Invalid) /\ ~IsOneOf(msg, Accepted)
    <3>1. ~hit
      BY <1>2, <2>3
    <3>2. CASE reply = NULL
      BY <2>3, <3>1, <3>2 DEF EndpointDelivers, reply
    <3>3. CASE reply # NULL
      BY <2>3, <3>1, <3>3 DEF EndpointDelivers, reply
    <3> QED
      BY <3>2, <3>3
  <2> QED
    BY <2>1, <2>2, <2>3
<1>6. reply # NULL => reply \in ReplySet
  BY DEF Reply, ReplySet
<1> HIDE DEF hit, reply
<1>7. ASSUME hit, UNCHANGED <<out, hang_up>>,
             NEW next \in {"recv", "closed"}, pc' = [pc EXCEPT !["endpoint"] = next]
      PROVE  /\ pc' \in [Parties -> States] /\ pc'["connector"] = pc["connector"]
             /\ pc'["endpoint"] \in {"recv", "closed"} /\ out' = out /\ hang_up' = hang_up
  BY <1>1, <1>7, PartiesAre DEF States
<1>8. CASE hit
  <2>1. /\ UNCHANGED <<out, hang_up>>
        /\ \E next \in {"recv", "closed"} : pc' = [pc EXCEPT !["endpoint"] = next]
    BY <1>5, <1>8
  <2>2. /\ pc' \in [Parties -> States] /\ pc'["connector"] = pc["connector"]
        /\ pc'["endpoint"] \in {"recv", "closed"} /\ out' = out /\ hang_up' = hang_up
    BY <1>7, <1>8, <2>1
  <2>3. Due(msg) = <<>> /\ ~Ends(msg)
    BY <1>3, <1>4, <1>8
  <2> QED
    BY <1>1, <2>2, <2>3, NothingIs
<1>9. CASE ~hit /\ reply = NULL
  <2>1. /\ hang_up' = TRUE /\ out' = out /\ pc' = [pc EXCEPT !["endpoint"] = "closed"]
    BY <1>5, <1>9
  <2>2. /\ pc' \in [Parties -> States] /\ pc'["connector"] = pc["connector"]
        /\ pc'["endpoint"] = "closed"
    BY <1>1, <2>1, PartiesAre DEF States
  <2>3. Due(msg) = <<>>
    BY <1>3, <1>9
  <2> QED
    BY <1>1, <2>1, <2>2, <2>3, NothingIs
<1>10. CASE ~hit /\ reply # NULL
  <2> DEFINE o == [header |-> print_header(reply), body |-> <<>>, erred |-> FALSE]
  <2>1. reply \in ReplySet /\ reply.body = <<>> /\ print_header(reply) \in Seq(Tokens)
    BY <1>6, <1>10, RepliesAre, WireType
  <2>2. /\ hang_up' = (msg.verb = NULL) /\ pc' = [pc EXCEPT !["endpoint"] = "send"]
        /\ out' = [out EXCEPT !["endpoint"] = o]
    BY <1>5, <1>10, <2>1 DEF StartSend
  <2>3. o \in OutType /\ o.header = print_header(reply) /\ o.body = <<>> /\ o.erred = FALSE
    BY <2>1 DEF OutType
  <2> HIDE DEF o
  <2>4. /\ pc' \in [Parties -> States] /\ pc'["connector"] = pc["connector"]
        /\ pc'["endpoint"] = "send"
    BY <1>1, <2>2, PartiesAre DEF States
  <2>5. /\ out' \in [Parties -> OutType] /\ out'["connector"] = out["connector"]
        /\ out'["endpoint"] = o
    BY <1>1, <2>2, <2>3, PartiesAre
  <2>6. Due(msg) = <<reply>>
    BY <1>3, <1>10
  <2>7. Ends(msg) => hang_up'
    BY <1>4, <1>10, <2>2
  <2>8. hang_up' \in BOOLEAN
    BY <2>2
  <2>9. \E r \in ReplySet : Due(msg) = <<r>> /\ out'["endpoint"].header = print_header(r)
    BY <2>1, <2>3, <2>5, <2>6
  <2> QED
    BY <1>1, <2>3, <2>4, <2>5, <2>7, <2>8, <2>9
<1> QED
  BY <1>8, <1>9, <1>10

(* The handler has read the whole of the next message. *)
LEMMA EndpointGets ==
  ASSUME SessionInv, pc["endpoint"] = "recv", Len(received) < Len(sent),
         NEW msg, msg = AsReceived(sent[Len(received) + 1]), EndpointDelivers(msg),
         NEW n \in 0..Len(stream["endpoint"]),
         stream' = [stream EXCEPT !["endpoint"] = After(@, n)],
         DOMAIN pending' = Parties, pending'["endpoint"] = NULL, pending'["connector"] = NULL,
         After(stream["endpoint"], n) \o (out["connector"].header \o out["connector"].body)
           = Wires(After(sent, Len(received) + 1))
  PROVE  SessionInv'
<1> DEFINE r == Len(received)
           RD == RepliesDue
           a == Len(answers)
<1>1. /\ received' = Append(received, msg) /\ UNCHANGED <<result, sent, answers>>
      /\ pc' \in [Parties -> States] /\ pc'["connector"] = pc["connector"]
      /\ pc'["endpoint"] \in {"recv", "send", "closed"}
      /\ hang_up' \in BOOLEAN
      /\ out' \in [Parties -> OutType] /\ out'["connector"] = out["connector"]
      /\ out'["endpoint"].erred = FALSE /\ out'["endpoint"].body = <<>>
      /\ pc'["endpoint"] # "send" => out'["endpoint"] = Nothing
      /\ \/ Due(msg) = <<>> /\ out'["endpoint"].header = <<>>
         \/ \E reply \in ReplySet : /\ Due(msg) = <<reply>>
                                    /\ out'["endpoint"].header = print_header(reply)
      /\ Ends(msg) => pc'["endpoint"] = "closed" \/ (pc'["endpoint"] = "send" /\ hang_up')
  BY DeliversIs DEF SessionInv
<1>2. /\ stream' \in [Parties -> Seq(Tokens)] /\ \A q \in Parties : Len(stream'[q]) <= Room
      /\ stream'["connector"] = stream["connector"]
  BY StreamRead, PartiesAre DEF SessionInv
<1>3. /\ OnTheWay' = Wires(After(sent, r + 1)) /\ Whole'
  BY <1>1, EndpointRead
<1>4. /\ sent \in Seq(Messages \cap Readable) /\ received \in Seq({AsReceived(m) : m \in Messages})
      /\ r \in Nat /\ Len(sent) \in Nat /\ r < Len(sent) /\ r + 1 \in 1..Len(sent)
      /\ r \in 0..Len(sent) - 1 /\ Len(sent) <= MaxMsgs
      /\ answers \in Seq({AsReceived(reply) : reply \in ReplySet}) /\ a \in Nat
      /\ result \in {NULL, 0, -1}
  BY DEF SessionInv, Types
<1>5. sent[r + 1] \in Messages /\ msg \in {AsReceived(m) : m \in Messages}
  <2> DEFINE M == Messages \cap Readable
  <2> HIDE DEF M
  <2>1. sent \in Seq(M) /\ r + 1 \in 1..Len(sent)
    BY <1>4 DEF M
  <2>2. sent[r + 1] \in M
    BY <2>1
  <2> QED
    BY <2>2 DEF M
<1>6. /\ received' \in Seq({AsReceived(m) : m \in Messages}) /\ Len(received') = r + 1
      /\ \A i \in 1..r : received'[i] = received[i]
      /\ received'[r + 1] = msg /\ received' # <<>>
  <2> DEFINE R == {AsReceived(m) : m \in Messages}
  <2> HIDE DEF R
  <2>1. received \in Seq(R) /\ msg \in R
    BY <1>4, <1>5 DEF R
  <2>2. /\ received' \in Seq(R) /\ Len(received') = r + 1
        /\ \A i \in 1..r : received'[i] = received[i]
        /\ received'[r + 1] = msg /\ received' # <<>>
    BY <1>1, <2>1
  <2> QED
    BY <2>2 DEF R
<1>7. Gone("connector")' <=> Gone("connector")
  BY <1>1 DEF Gone
<1>8. Types'
  BY <1>1, <1>2, <1>4, <1>6 DEF Types
<1>9. Sending'
  <2>1. ASSUME NEW q \in Parties
        PROVE  /\ pc'[q] \notin {"send", "killed"} => out'[q] = Nothing
               /\ out'[q].erred => Gone(Peer(q))'
    <3>1. CASE q = "connector"
      <4>1. ~Gone("endpoint")
        BY DEF Gone
      <4> QED
        BY <1>1, <3>1, <4>1, PartiesAre DEF SessionInv, Sending
    <3>2. CASE q = "endpoint"
      BY <1>1, <3>2
    <3> QED
      BY <3>1, <3>2, PartiesAre
  <2>2. pc["connector"] # "init" /\ pc["connector"] # "killed"
    BY DEF SessionInv, Sending, Gone
  <2> QED
    BY <1>1, <2>1, <2>2 DEF SessionInv, Sending
<1>10. Reading'
  BY DEF Reading
<1>11. Received'
  <2>1. Len(received') <= Len(sent')
    BY <1>1, <1>4, <1>6
  <2>2. ASSUME NEW i \in 1..Len(received') PROVE received'[i] = AsReceived(sent'[i])
    <3>1. CASE i = r + 1
      BY <1>1, <1>6, <3>1
    <3>2. CASE i # r + 1
      <4>1. i \in 1..r
        BY <1>4, <1>6, <3>2
      <4> QED
        BY <1>1, <1>6, <4>1 DEF SessionInv, Received
    <3> QED
      BY <3>1, <3>2
  <2> QED
    BY <2>1, <2>2 DEF Received
<1>12. Forward'
  <2>1. Unread' = Wires(After(sent, r + 1))
    BY <1>1, <1>6 DEF Unread
  <2> QED
    BY <1>3, <2>1 DEF Forward
<1>13. RD \in Seq(ReplySet) /\ RepliesDue' = RD \o Due(msg)
  <2> DEFINE M == Messages \cap Readable
  <2> HIDE DEF M, r
  <2>1. sent \in Seq(M) /\ r \in 0..Len(sent) - 1
    BY <1>4 DEF M, r
  <2>2. /\ Answers(SubSeq(sent, 1, r)) \in Seq(ReplySet)
        /\ Answers(SubSeq(sent, 1, r + 1))
             = Answers(SubSeq(sent, 1, r)) \o Due(AsReceived(sent[r + 1]))
    BY <2>1, AnswersNext
  <2>3. RepliesDue' = Answers(SubSeq(sent, 1, r + 1))
    BY <1>1, <1>6 DEF RepliesDue
  <2> QED
    BY <2>2, <2>3 DEF RepliesDue, r
<1>14. /\ a <= Len(RD) /\ Len(RD) <= r /\ \A i \in 1..a : answers[i] = AsReceived(RD[i])
  BY DEF SessionInv, Answered
<1> DEFINE D == Due(msg)
<1>15. D \in Seq(ReplySet) /\ Len(D) <= 1
  BY DueIs
<1> HIDE DEF RD, D, a
<1>16. /\ Len(RD \o D) = Len(RD) + Len(D) /\ \A i \in 1..Len(RD) : (RD \o D)[i] = RD[i]
  <2>1. RD \in Seq(ReplySet) /\ D \in Seq(ReplySet)
    BY <1>13, <1>15
  <2> QED
    BY <2>1, TwoParts
<1>17. Answered'
  <2>1. Len(RD) \in Nat /\ Len(D) \in Nat
    BY <1>13, <1>15
  <2>2. a <= Len(RD \o D) /\ Len(RD \o D) <= Len(received')
    BY <1>4, <1>6, <1>14, <1>15, <1>16, <2>1
  <2>3. ASSUME NEW i \in 1..a PROVE answers[i] = AsReceived((RD \o D)[i])
    <3>1. i \in 1..Len(RD)
      BY <1>4, <1>14, <2>1
    <3> QED
      BY <1>14, <1>16, <3>1
  <2> QED
    BY <1>1, <1>13, <2>2, <2>3 DEF Answered, D, a
<1>18. Backward'
  <2> SUFFICES ASSUME ~Gone("connector")
               PROVE  stream'["connector"] \o out'["endpoint"].header
                        = Wires(After(RD \o D, a))
    BY <1>1, <1>7, <1>13 DEF Backward, D, a
  <2> DEFINE c == stream["connector"]
  <2>1. c \o <<>> = Wires(After(RD, a)) /\ c \in Seq(Tokens)
    <3>1. ~Gone("endpoint")
      BY DEF Gone
    <3>2. out["endpoint"] = Nothing
      BY PartiesAre DEF SessionInv, Sending
    <3>3. c \o out["endpoint"].header = Wires(After(RD, a))
      BY <3>1 DEF SessionInv, Backward, RD, a
    <3> QED
      BY <3>2, <3>3, NothingIs, PartiesAre DEF SessionInv, Types
  <2> HIDE DEF c
  <2>2. c = Wires(After(RD, a))
    BY <2>1, ConcatEmptySeq
  <2>3. CASE D = <<>> /\ out'["endpoint"].header = <<>>
    <3>1. RD \o <<>> = RD
      BY <1>13, ConcatEmptySeq
    <3> QED
      BY <1>2, <2>1, <2>3, <3>1 DEF c
  <2>4. ASSUME NEW reply \in ReplySet, D = <<reply>>,
               out'["endpoint"].header = print_header(reply)
        PROVE  stream'["connector"] \o out'["endpoint"].header = Wires(After(RD \o D, a))
    <3>1. reply \in Readable /\ reply.body = <<>>
      BY <2>4, RepliesAre
    <3>2. print_header(reply) \in Seq(Tokens) /\ Wire(reply) = print_header(reply) \o <<>>
      BY <3>1, WireType
    <3>3. Wire(reply) = print_header(reply)
      BY <3>2, ConcatEmptySeq
    <3>4. RD \in Seq(Readable)
      <4>1. ReplySet \subseteq Readable
        BY RepliesAre
      <4> QED
        BY <1>13, <4>1
    <3>5. RD \o <<reply>> = Append(RD, reply)
      BY <3>1, <3>4
    <3>6. a \in 0..Len(RD)
      BY <1>4, <1>13, <1>14 DEF a
    <3>7. Wires(After(Append(RD, reply), a)) = Wires(After(RD, a)) \o Wire(reply)
      BY <3>1, <3>4, <3>6, WiresLast
    <3> QED
      BY <1>2, <2>2, <2>4, <3>3, <3>5, <3>7 DEF c
  <2> QED
    BY <1>1, <2>3, <2>4 DEF D
<1>19. Serving'
  <2>1. \A i \in 1..r : ~Ends(received[i])
    <3>1. received # <<>> => ~Ends(received[r])
      BY DEF SessionInv, Serving
    <3>2. \A i \in 1..r - 1 : ~Ends(received[i])
      BY DEF SessionInv, Serving
    <3> SUFFICES ASSUME NEW i \in 1..r PROVE ~Ends(received[i])
      OBVIOUS
    <3>3. CASE i = r
      <4>1. received # <<>>
        BY <1>4, <3>3
      <4> QED
        BY <3>1, <3>3, <4>1
    <3>4. CASE i # r
      <4>1. i \in 1..r - 1
        BY <1>4, <3>4
      <4> QED
        BY <3>2, <4>1
    <3> QED
      BY <3>3, <3>4
  <2>2. Ends(msg)' <=> Ends(msg)
    BY DEF Ends, IsOneOf, Reply
  <2>3. ASSUME NEW i \in 1..Len(received') - 1 PROVE ~Ends(received'[i])
    <3>1. i \in 1..r
      BY <1>4, <1>6
    <3> QED
      BY <1>6, <2>1, <3>1
  <2>4. Ends(received'[Len(received')]) =>
           pc'["endpoint"] = "closed" \/ (pc'["endpoint"] = "send" /\ hang_up')
    BY <1>1, <1>6
  <2> QED
    BY <2>3, <2>4 DEF Serving
<1> QED
  BY <1>3, <1>8, <1>9, <1>10, <1>11, <1>12, <1>17, <1>18, <1>19 DEF SessionInv

(* The handler has read a part of the next message. *)
LEMMA EndpointHolds ==
  ASSUME SessionInv, pc["endpoint"] = "recv", Len(received) < Len(sent),
         NEW m, m = sent[Len(received) + 1], NEW k \in 0..Len(m.body) - 1,
         NEW n \in 0..Len(stream["endpoint"]),
         UNCHANGED <<pc, out, hang_up, result, sent, received, answers>>,
         stream' = [stream EXCEPT !["endpoint"] = After(@, n)],
         DOMAIN pending' = Parties, pending'["connector"] = NULL,
         pending'["endpoint"] = [Clean(m) EXCEPT !.body = SubSeq(m.body, 1, k)],
         pending'["endpoint"] # NULL, Len(pending'["endpoint"].body) = k,
         After(stream["endpoint"], n) \o (out["connector"].header \o out["connector"].body)
           = After(m.body, k) \o Wires(After(sent, Len(received) + 1))
  PROVE  SessionInv'
<1>1. /\ stream' \in [Parties -> Seq(Tokens)] /\ \A q \in Parties : Len(stream'[q]) <= Room
      /\ stream'["connector"] = stream["connector"]
  BY StreamRead, PartiesAre DEF SessionInv
<1>2. /\ OnTheWay' = After(m.body, k) \o Wires(After(sent, Len(received) + 1)) /\ Whole'
  BY EndpointRead
<1>3. Types'
  BY <1>1 DEF SessionInv, Types
<1>4. \A p : Gone(p)' <=> Gone(p)
  BY DEF Gone
<1>5. Sending'
  <2>1. \A q \in Parties : Peer(q) \in Parties
    BY PartiesAre
  <2> QED
    BY <1>4, <2>1, PartiesAre DEF SessionInv, Sending
<1>6. Reading'
  BY DEF Reading
<1>7. Received' /\ Answered' /\ Serving' /\ RepliesDue' = RepliesDue
  BY DEF SessionInv, Received, Answered, Serving, RepliesDue
<1>8. Unread' = After(m.body, k) \o Wires(After(sent, Len(received) + 1))
  BY DEF Unread
<1>9. Forward' /\ Backward'
  BY <1>1, <1>2, <1>4, <1>7, <1>8, PartiesAre DEF SessionInv, Forward, Backward
<1> QED
  BY <1>2, <1>3, <1>5, <1>6, <1>7, <1>9 DEF SessionInv

(* A message that is read, with the part b of its body. *)
LEMMA CleanIs ==
  ASSUME NEW m \in Readable
  PROVE  /\ Clean(m).body = m.body /\ [Clean(m) EXCEPT !.body = m.body] = Clean(m)
         /\ \A b \in Seq(Tokens) :
              LET msg == [Clean(m) EXCEPT !.body = b] IN
              /\ msg # NULL /\ msg.body = b /\ Missing(msg) = Len(m.body) - Len(b)
<1>1. IsMessage(m) /\ m.verb # NULL
  BY DEF Readable
<1>2. /\ m \in MessageType /\ m.named_headers \in Seq(Seq(Tokens))
      /\ m.headers \in Seq(Seq(Tokens)) /\ m.verb \in Seq(Tokens) /\ m.body \in Seq(Tokens)
  BY <1>1, Parts DEF Readable
<1> DEFINE N == m.named_headers
           C == [i \in DOMAIN N |-> Stripped(N[i])]
           v == IF m.verb = <<>> THEN NULL ELSE m.verb
           T == Seq(Tokens)
<1>3. Clean(m) = [verb |-> v, headers |-> m.headers, named_headers |-> C, body |-> m.body]
  <2>1. m = [verb |-> m.verb, headers |-> m.headers, named_headers |-> N, body |-> m.body]
    BY <1>2 DEF MessageType
  <2>2. Clean(m) = [m EXCEPT !.verb = v, !.named_headers = C]
    BY <2>1 DEF Clean
  <2> HIDE DEF v, C
  <2> QED
    BY <2>1, <2>2
<1>4. ASSUME NEW i \in 1..Len(N) PROVE Stripped(N[i]) \in T
  <2> DEFINE h == N[i]
  <2>1. h \in Seq(Tokens) /\ h # <<>>
    <3>1. h \in Seq(Tokens)
      BY <1>2
    <3>2. h # <<>> \/ h = <<Length(Len(m.body))>>
      <4>1. \A j \in DOMAIN m.named_headers :
               \/ m.named_headers[j] # <<>> /\ IsNamedLine(Stripped(m.named_headers[j]))
               \/ m.body # <<>> /\ m.named_headers[j] = <<Length(Len(m.body))>>
        BY <1>1 DEF IsMessage
      <4>2. i \in DOMAIN m.named_headers
        BY <1>2
      <4> QED
        BY <4>1, <4>2
    <3>3. <<Length(Len(m.body))>> # <<>>
      OBVIOUS
    <3> QED
      BY <3>1, <3>2, <3>3
  <2> HIDE DEF h
  <2>2. Len(h) \in Nat /\ Len(h) >= 1
    BY <2>1
  <2>3. Front(h) \in Seq(Tokens)
    BY <2>1, <2>2, FrontIs
  <2>4. Stripped(h) \in Seq(Tokens)
    BY <2>1, <2>3 DEF Stripped
  <2> QED
    BY <2>4 DEF h
<1>5. C \in Seq(T)
  <2>1. N \in Seq(T) /\ DOMAIN N = 1..Len(N) /\ Len(N) \in Nat
    BY <1>2
  <2>2. C = [i \in 1..Len(N) |-> Stripped(N[i])]
    BY <2>1
  <2> HIDE DEF N, C, T
  <2> QED
    BY <1>4, <2>1, <2>2
<1>6. v \in Seq(Tokens) \cup {NULL}
  BY <1>2
<1>7. ASSUME NEW b \in Seq(Tokens), NEW msg, msg = [Clean(m) EXCEPT !.body = b]
      PROVE  msg # NULL /\ msg.body = b /\ Missing(msg) = Len(m.body) - Len(b)
  <2>1. msg = [verb |-> v, headers |-> m.headers, named_headers |-> C, body |-> b]
    <3> HIDE DEF v, C
    <3> QED
      BY <1>3, <1>7
  <2>2. msg \in MessageType
    <3> HIDE DEF v, C
    <3> QED
      BY <1>2, <1>5, <1>6, <2>1 DEF MessageType, T
  <2>3. msg # NULL
    BY <2>2, NullAssumption
  <2>4. msg.body = b
    BY <2>1
  <2>5. BodyLen(msg) = Len(m.body)
    BY <1>1, <1>7, ParsedIs
  <2> QED
    BY <2>3, <2>4, <2>5 DEF Missing
<1> HIDE DEF v, C
<1>8. Clean(m).body = m.body /\ [Clean(m) EXCEPT !.body = m.body] = Clean(m)
  BY <1>3
<1> QED
  BY <1>7, <1>8

(* The handler has something to read: the message that it reads has been sent. *)
LEMMA EndpointReads ==
  ASSUME SessionInv, pc["endpoint"] = "recv", stream["endpoint"] # <<>>
  PROVE  LET m == sent[Len(received) + 1]
             x == out["connector"].header \o out["connector"].body
         IN  /\ Len(received) \in Nat /\ Len(received) < Len(sent)
             /\ m \in Messages /\ m \in Readable
             /\ Wires(After(sent, Len(received) + 1)) \in Seq(Tokens)
             /\ x \in Seq(Tokens) /\ stream["endpoint"] \in Seq(Tokens)
             /\ stream["endpoint"] \o x = Unread
             /\ Wires(After(sent, Len(received)))
                  = print_header(m) \o (m.body \o Wires(After(sent, Len(received) + 1)))
<1> DEFINE m == sent[Len(received) + 1]
           r == Len(received)
           W == Wires(After(sent, r + 1))
           x == out["connector"].header \o out["connector"].body
           s == stream["endpoint"]
<1>1. /\ s \in Seq(Tokens) /\ x \in Seq(Tokens) /\ OnTheWay = s \o x
  BY OnTheWayIs, PartiesAre DEF SessionInv
<1>2. OnTheWay = Unread
  BY DEF SessionInv, Forward, Gone
<1>3. sent \in Seq(Messages \cap Readable) /\ sent \in Seq(Readable) /\ r \in Nat
      /\ Len(sent) \in Nat /\ r <= Len(sent)
  BY DEF SessionInv, Types, Received
<1>4. r < Len(sent)
  <2>1. CASE pending["endpoint"] # NULL
    BY <2>1 DEF SessionInv, Reading
  <2>2. CASE pending["endpoint"] = NULL
    <3> SUFFICES ASSUME r = Len(sent) PROVE FALSE
      BY <1>3
    <3>1. After(sent, r) = <<>>
      BY <1>3, AfterNone
    <3>2. Unread = <<>>
      <4>2. [i \in DOMAIN <<>> |-> Wire(<<>>[i])] = <<>>
        OBVIOUS
      <4>3. Wires(<<>>) = <<>>
        BY <4>2, FlattenEmpty DEF Wires
      <4> QED
        BY <2>2, <3>1, <4>3 DEF Unread
    <3> HIDE DEF s, x
    <3>3. s \o x = <<>>
      BY <1>1, <1>2, <3>2
    <3>4. Len(s \o x) = Len(s) + Len(x) /\ Len(s) \in Nat /\ Len(x) \in Nat
      BY <1>1, TwoParts
    <3>5. Len(s) = 0
      BY <3>3, <3>4
    <3>6. s = <<>>
      BY <1>1, <3>5, EmptySeq
    <3> QED
      BY <3>6 DEF s
  <2> QED
    BY <2>1, <2>2
<1>5. m \in Messages /\ m \in Readable
  <2> DEFINE M == Messages \cap Readable
  <2> HIDE DEF M
  <2>1. sent \in Seq(M) /\ r + 1 \in 1..Len(sent)
    BY <1>3, <1>4 DEF M
  <2>2. sent[r + 1] \in M
    BY <2>1
  <2> QED
    BY <2>2 DEF M
<1>6. Wires(After(sent, r)) = Wire(m) \o W /\ W \in Seq(Tokens)
  <2> HIDE DEF r
  <2>1. r \in 0..Len(sent) - 1
    BY <1>3, <1>4
  <2>2. Wires(After(sent, r)) = Wire(sent[r + 1]) \o W /\ W \in Seq(Tokens)
    BY <1>3, <2>1, WiresNext
  <2> QED
    BY <2>2 DEF r
<1>7. print_header(m) \in Seq(Tokens) /\ m.body \in Seq(Tokens) /\ Wire(m) = print_header(m) \o m.body
  BY <1>5, WireType
<1>8. Wires(After(sent, r)) = print_header(m) \o (m.body \o W)
  <2> DEFINE h == print_header(m)
             b == m.body
  <2>1. h \in Seq(Tokens) /\ b \in Seq(Tokens) /\ W \in Seq(Tokens)
    BY <1>6, <1>7
  <2> HIDE DEF h, b, W
  <2>2. (h \o b) \o W = h \o (b \o W)
    BY <2>1, ConcatAssociative, SMTT(60)
  <2> QED
    BY <1>6, <1>7, <2>2 DEF h, b
<1> QED
  BY <1>1, <1>2, <1>3, <1>4, <1>5, <1>6, <1>8

(* The handler reads a header. *)
LEMMA EndpointHeaderKeeps ==
  ASSUME SessionInv, RecvHeader("endpoint")
  PROVE  SessionInv'
<1> DEFINE m == sent[Len(received) + 1]
           r == Len(received)
           W == Wires(After(sent, r + 1))
           x == out["connector"].header \o out["connector"].body
           s == stream["endpoint"]
           H == print_header(m)
           n == Len(H)
           q == [Clean(m) EXCEPT !.body = <<>>]
<1>1. /\ pc["endpoint"] = "recv" /\ pending["endpoint"] = NULL /\ HeaderEnds("endpoint") # {}
      /\ stream' = [stream EXCEPT !["endpoint"] = After(@, HeaderEnd("endpoint"))]
  BY DEF RecvHeader
<1>2. s # <<>>
  BY <1>1, NothingToRead
<1>3. /\ r \in Nat /\ r < Len(sent)
      /\ m \in Messages /\ m \in Readable /\ W \in Seq(Tokens)
      /\ x \in Seq(Tokens) /\ s \in Seq(Tokens) /\ s \o x = Unread
      /\ Wires(After(sent, r)) = H \o (m.body \o W)
  BY <1>1, <1>2, EndpointReads
<1>4. m.body \in Seq(Tokens)
  BY <1>3, WireType
<1>5. m.body \o W \in Seq(Tokens)
  BY <1>3, <1>4, TwoParts
<1>6. s \o x = H \o (m.body \o W)
  BY <1>1, <1>3 DEF Unread
<1>7. /\ n \in Nat /\ HeaderEnd("endpoint") = n /\ n <= Len(s)
      /\ Text("endpoint") = {TextOf(m)} /\ After(s, n) \o x = m.body \o W
  <2> DEFINE tail == m.body \o W
  <2> HIDE DEF tail, x, m
  <2>1. s \o x = print_header(m) \o tail /\ tail \in Seq(Tokens) /\ m \in Readable
        /\ x \in Seq(Tokens) /\ s \in Seq(Tokens)
    BY <1>3, <1>5, <1>6 DEF tail, m, x
  <2>2. /\ Len(print_header(m)) \in Nat
        /\ HeaderEnd("endpoint") = Len(print_header(m)) /\ Len(print_header(m)) <= Len(s)
        /\ Text("endpoint") = {TextOf(m)} /\ After(s, Len(print_header(m))) \o x = tail
    <3>1. /\ m \in Readable /\ stream["endpoint"] \in Seq(Tokens) /\ x \in Seq(Tokens)
          /\ tail \in Seq(Tokens) /\ stream["endpoint"] \o x = print_header(m) \o tail
      BY <2>1
    <3> DEFINE p == "endpoint"
               k == Len(print_header(m))
    <3> HIDE DEF s, p
    <3>3. /\ m \in Readable /\ stream[p] \in Seq(Tokens) /\ x \in Seq(Tokens)
          /\ tail \in Seq(Tokens) /\ stream[p] \o x = print_header(m) \o tail
      BY <3>1 DEF p
    <3>4. /\ k \in Nat /\ k > 2
          /\ HeaderEnds(p) # {} =>
               /\ HeaderEnd(p) = k /\ k <= Len(stream[p])
               /\ Text(p) = {TextOf(m)} /\ WellFormed(p)
               /\ After(stream[p], k) \o x = tail
          /\ k <= Len(stream[p]) /\ k <= max_hdr_len => HeaderEnds(p) # {}
      BY <3>3, HeaderRead
    <3>2. /\ Len(print_header(m)) \in Nat
          /\ HeaderEnds("endpoint") # {} =>
              /\ HeaderEnd("endpoint") = Len(print_header(m))
              /\ Len(print_header(m)) <= Len(stream["endpoint"])
              /\ Text("endpoint") = {TextOf(m)}
              /\ After(stream["endpoint"], Len(print_header(m))) \o x = tail
      BY <3>4 DEF p
    <3> QED
      BY <1>1, <3>2 DEF s
  <2> QED
    BY <2>2 DEF tail
<1>8. /\ Clean(m).body = m.body /\ [Clean(m) EXCEPT !.body = m.body] = Clean(m)
      /\ q # NULL /\ q.body = <<>> /\ Missing(q) = Len(m.body)
  <2>1. <<>> \in Seq(Tokens) /\ Len(<<>>) = 0 /\ Len(m.body) \in Nat
    BY <1>4
  <2>2. Missing(q) = Len(m.body) - Len(<<>>)
    BY <1>3, <2>1, CleanIs
  <2>3. Missing(q) = Len(m.body)
    BY <2>1, <2>2
  <2> QED
    BY <1>3, <2>1, <2>3, CleanIs
<1>9. ParsedMsg(TextOf(m)) = q
  BY <1>3, ParsedIs DEF Readable
<1>10. \/ Missing(q) = 0 /\ Delivers("endpoint", q) /\ UNCHANGED pending
       \/ /\ Missing(q) > 0 /\ pending' = [pending EXCEPT !["endpoint"] = q]
          /\ UNCHANGED <<pc, out, hang_up, result, history>>
  <2> HIDE DEF q, m
  <2>1. {ParsedMsg(text) : text \in Text("endpoint")} = {q}
    BY <1>7, <1>9
  <2> QED
    <3>1. \E msg \in {ParsedMsg(text) : text \in Text("endpoint")} :
            \/ Missing(msg) = 0 /\ Delivers("endpoint", msg) /\ UNCHANGED pending
            \/ /\ Missing(msg) > 0 /\ pending' = [pending EXCEPT !["endpoint"] = msg]
               /\ UNCHANGED <<pc, out, hang_up, result, history>>
      BY DEF RecvHeader
    <3> QED
      BY <2>1, <3>1
<1>11. n \in 0..Len(s) /\ stream' = [stream EXCEPT !["endpoint"] = After(@, n)]
  <2> HIDE DEF n
  <2>1. n \in 0..Len(s)
    BY <1>3, <1>7
  <2>2. stream' = [stream EXCEPT !["endpoint"] = After(@, n)]
    BY <1>1, <1>7
  <2> QED
    BY <2>1, <2>2
<1>12. DOMAIN pending = Parties /\ pending["connector"] = NULL
  BY DEF SessionInv, Types, Reading
<1>13. CASE Missing(q) = 0 /\ Delivers("endpoint", q) /\ UNCHANGED pending
  <2>1. m.body = <<>>
    BY <1>4, <1>8, <1>13, EmptySeq
  <2>2. q = AsReceived(m)
    BY <1>8, <2>1 DEF AsReceived
  <2>3. EndpointDelivers(q)
    BY <1>13 DEF Delivers
  <2>4. After(s, n) \o x = W
    <3>1. <<>> \o W = W
      BY <1>3, ConcatEmptySeq
    <3> QED
      BY <1>7, <2>1, <3>1
  <2> HIDE DEF q, n, W, x
  <2>5. After(s, n) \o (out["connector"].header \o out["connector"].body)
          = Wires(After(sent, Len(received) + 1))
    BY <2>4, SMTT(60) DEF W, x
  <2> QED
    BY <1>1, <1>3, <1>11, <1>12, <1>13, <2>2, <2>3, <2>5, EndpointGets
<1>14. CASE /\ Missing(q) > 0 /\ pending' = [pending EXCEPT !["endpoint"] = q]
            /\ UNCHANGED <<pc, out, hang_up, result, history>>
  <2>1. 0 \in 0..Len(m.body) - 1 /\ Len(m.body) \in Nat
    BY <1>4, <1>8, <1>14
  <2>2. q = [Clean(m) EXCEPT !.body = SubSeq(m.body, 1, 0)]
    <3>1. SubSeq(m.body, 1, 0) = <<>>
      BY <1>4
    <3> QED
      BY <3>1
  <2>3. After(m.body, 0) = m.body
    BY <1>4, AfterNone
  <2>4. /\ DOMAIN pending' = Parties /\ pending'["connector"] = NULL /\ pending'["endpoint"] = q
    <3> HIDE DEF q
    <3> QED
      BY <1>12, <1>14, PartiesAre
  <2>5. UNCHANGED <<sent, received, answers>>
    BY <1>14 DEF history
  <2>6. Len(q.body) = 0
    BY <1>8
  <2>7. After(s, n) \o x = After(m.body, 0) \o W
    BY <1>7, <2>3
  <2> HIDE DEF q, n, m
  <2>8. m = sent[Len(received) + 1]
    BY DEF m
  <2>9. n \in 0..Len(stream["endpoint"])
    BY <1>11
  <2>10. stream' = [stream EXCEPT !["endpoint"] = After(@, n)] /\ pc["endpoint"] = "recv"
         /\ Len(received) < Len(sent) /\ UNCHANGED <<pc, out, hang_up, result, sent, received, answers>>
    BY <1>1, <1>3, <1>11, <1>14, <2>5
  <2>11. /\ pending'["endpoint"] = [Clean(m) EXCEPT !.body = SubSeq(m.body, 1, 0)]
         /\ pending'["endpoint"] # NULL /\ Len(pending'["endpoint"].body) = 0
    BY <1>8, <2>2, <2>4, <2>6
  <2>12. After(stream["endpoint"], n) \o (out["connector"].header \o out["connector"].body)
           = After(m.body, 0) \o Wires(After(sent, Len(received) + 1))
    BY <2>7
  <2> QED
    BY <2>1, <2>4, <2>8, <2>9, <2>10, <2>11, <2>12, EndpointHolds
<1> QED
  BY <1>10, <1>13, <1>14

-----------------------------------------------------------------------------
(* The reads of a body *)

(* Two pieces of a sequence, one after the other. *)
LEMMA Pieces ==
  ASSUME NEW S, NEW s \in Seq(S), NEW k \in 0..Len(s), NEW w \in 0..Len(s) - k
  PROVE  /\ SubSeq(s, 1, k) \o SubSeq(After(s, k), 1, w) = SubSeq(s, 1, k + w)
         /\ After(After(s, k), w) = After(s, k + w)
         /\ SubSeq(s, 1, Len(s)) = s
<1> DEFINE n == k + w
           b == After(s, k)
           a == SubSeq(s, 1, k)
           c == SubSeq(s, 1, n)
           d == After(s, n)
           e == SubSeq(b, 1, w)
           f == After(b, w)
<1>1. k \in Nat /\ w \in Nat /\ Len(s) \in Nat /\ n \in Nat /\ n = k + w /\ n <= Len(s)
  OBVIOUS
<1>2. n \in 0..Len(s)
  BY <1>1
<1> HIDE DEF n
<1>3. /\ a \in Seq(S) /\ Len(a) = k /\ \A i \in 1..k : a[i] = s[i]
      /\ b \in Seq(S) /\ Len(b) = Len(s) - k /\ \A i \in 1..Len(s) - k : b[i] = s[k + i]
  BY AfterIs
<1>4. /\ c \in Seq(S) /\ Len(c) = n /\ \A i \in 1..n : c[i] = s[i]
      /\ d \in Seq(S) /\ Len(d) = Len(s) - n /\ \A i \in 1..Len(s) - n : d[i] = s[n + i]
  BY <1>2, AfterIs
<1> HIDE DEF a, b, c, d
<1>5. b \in Seq(S) /\ w \in 0..Len(b)
  BY <1>1, <1>3
<1>6. /\ e \in Seq(S) /\ Len(e) = w /\ \A i \in 1..w : e[i] = b[i]
      /\ f \in Seq(S) /\ Len(f) = Len(b) - w /\ \A i \in 1..Len(b) - w : f[i] = b[w + i]
  BY <1>5, AfterIs
<1> HIDE DEF e, f
<1>7. a \o e = c
  <2>1. a \in Seq(S) /\ e \in Seq(S)
    BY <1>3, <1>6
  <2>2. /\ a \o e \in Seq(S) /\ Len(a \o e) = Len(a) + Len(e)
        /\ \A i \in 1..Len(a) : (a \o e)[i] = a[i]
        /\ \A i \in 1..Len(e) : (a \o e)[Len(a) + i] = e[i]
    BY <2>1, TwoParts
  <2> DEFINE g == a \o e
  <2> HIDE DEF g
  <2>3. g \in Seq(S) /\ Len(g) = n
    BY <1>1, <1>3, <1>6, <2>2 DEF g
  <2>4. ASSUME NEW i \in 1..Len(g) PROVE g[i] = c[i]
    <3>1. CASE i <= k
      <4>1. i \in 1..k /\ i \in 1..n
        BY <1>1, <2>3, <3>1
      <4> QED
        BY <1>3, <1>4, <2>2, <4>1 DEF g
    <3>2. CASE ~(i <= k)
      <4> DEFINE j == i - k
      <4>1. j \in 1..w /\ j \in 1..Len(s) - k /\ k + j = i /\ i \in 1..n
        BY <1>1, <2>3, <3>2
      <4> HIDE DEF j
      <4>2. g[k + j] = e[j] /\ e[j] = b[j] /\ b[j] = s[k + j] /\ c[i] = s[i]
        BY <1>3, <1>4, <1>6, <2>2, <4>1 DEF g
      <4> QED
        BY <4>1, <4>2
    <3> QED
      BY <3>1, <3>2
  <2>5. g = c
    BY <1>4, <2>3, <2>4, SeqEqual
  <2> QED
    BY <2>5 DEF g
<1>8. f = d
  <2>1. Len(f) = Len(d)
    BY <1>1, <1>3, <1>4, <1>6
  <2>2. ASSUME NEW i \in 1..Len(f) PROVE f[i] = d[i]
    <3>1. i \in 1..Len(b) - w /\ w + i \in 1..Len(s) - k /\ i \in 1..Len(s) - n
          /\ k + (w + i) = n + i
      BY <1>1, <1>3, <1>6
    <3>2. f[i] = b[w + i] /\ b[w + i] = s[k + (w + i)] /\ d[i] = s[n + i]
      BY <1>3, <1>4, <1>6, <3>1
    <3> QED
      BY <3>1, <3>2
  <2> QED
    BY <1>4, <1>6, <2>1, <2>2, SeqEqual
<1>9. SubSeq(s, 1, Len(s)) = s
  <2> DEFINE g == SubSeq(s, 1, Len(s))
  <2>1. Len(s) \in 0..Len(s)
    BY <1>1
  <2>2. g \in Seq(S) /\ Len(g) = Len(s) /\ \A i \in 1..Len(s) : g[i] = s[i]
    BY <2>1, AfterIs
  <2> HIDE DEF g
  <2>3. g = s
    BY <2>2, SeqEqual
  <2> QED
    BY <2>3 DEF g
<1> QED
  BY <1>7, <1>8, <1>9 DEF a, b, c, d, e, f, n

(* The first elements of a part are read, and the rest stays. *)
LEMMA SplitConcat ==
  ASSUME NEW S, NEW b \in Seq(S), NEW rest \in Seq(S), NEW w \in 0..Len(b)
  PROVE  /\ b \o rest = SubSeq(b, 1, w) \o (After(b, w) \o rest)
         /\ After(b, w) \o rest \in Seq(S)
<1> DEFINE u == SubSeq(b, 1, w)
           a == After(b, w)
<1>1. u \in Seq(S) /\ a \in Seq(S)
  BY AfterIs
<1>2. u \o a = b
  BY SplitAt
<1> HIDE DEF u, a
<1>3. (u \o a) \o rest = u \o (a \o rest)
  BY <1>1, ConcatAssociative, SMTT(60)
<1>4. a \o rest \in Seq(S)
  BY <1>1, TwoParts
<1> QED
  BY <1>2, <1>3, <1>4 DEF u, a

(* The handler reads a piece of a body. *)
LEMMA EndpointBodyKeeps ==
  ASSUME SessionInv, RecvBody("endpoint")
  PROVE  SessionInv'
<1> DEFINE m == sent[Len(received) + 1]
           r == Len(received)
           W == Wires(After(sent, r + 1))
           x == out["connector"].header \o out["connector"].body
           s == stream["endpoint"]
           P == pending["endpoint"]
           k == Len(P.body)
           B == After(m.body, k)
           w == Wanted("endpoint")
           q == [P EXCEPT !.body = @ \o SubSeq(s, 1, w)]
           L == Len(m.body)
           b == SubSeq(m.body, 1, k + w)
<1>1. /\ pc["endpoint"] = "recv" /\ P # NULL /\ s # <<>>
      /\ stream' = [stream EXCEPT !["endpoint"] = After(@, w)]
      /\ \/ /\ BodyComplete(q) /\ EndpointDelivers(SetBody(q))
            /\ pending' = [pending EXCEPT !["endpoint"] = NULL]
         \/ /\ ~BodyComplete(q) /\ pending' = [pending EXCEPT !["endpoint"] = q]
            /\ UNCHANGED <<pc, out, hang_up, result, history>>
  <2> HIDE DEF w
  <2>1. RecvBody("endpoint")
    OBVIOUS
  <2> QED
    BY <2>1 DEF RecvBody, Delivers, w
<1>2. /\ r \in Nat /\ r < Len(sent)
      /\ m \in Messages /\ m \in Readable /\ W \in Seq(Tokens)
      /\ x \in Seq(Tokens) /\ s \in Seq(Tokens) /\ s \o x = Unread
  BY <1>1, EndpointReads
<1>3. m.body \in Seq(Tokens) /\ L \in Nat
  BY <1>2, WireType
<1>4. /\ k \in 0..L - 1 /\ P = [Clean(m) EXCEPT !.body = SubSeq(m.body, 1, k)]
  BY <1>1 DEF SessionInv, Reading
<1>5. s \o x = B \o W
  BY <1>1, <1>2 DEF Unread
<1> HIDE DEF s, x, W, P, k, m, L
<1>6. k \in 0..Len(m.body) /\ k \in Nat /\ Len(m.body) = L
  BY <1>3, <1>4 DEF L
<1>7. B \in Seq(Tokens) /\ Len(B) = L - k /\ SubSeq(m.body, 1, k) \in Seq(Tokens)
      /\ Len(SubSeq(m.body, 1, k)) = k
  <2>1. m.body \in Seq(Tokens) /\ k \in 0..Len(m.body)
    BY <1>3, <1>6
  <2> QED
    BY <1>6, <2>1, AfterIs
<1>8. Missing(P) = L - k
  <2>1. Missing(P) = Len(m.body) - Len(SubSeq(m.body, 1, k))
    BY <1>2, <1>4, <1>7, CleanIs
  <2> QED
    BY <1>6, <1>7, <2>1
<1>9. w \in 0..Len(s) /\ w \in Nat /\ w <= Len(s) /\ w <= L - k
  <2>1. w = Min({L - k, Len(s)})
    BY <1>8 DEF Wanted, P, s
  <2>2. L - k \in Nat /\ Len(s) \in Nat
    BY <1>2, <1>3, <1>4
  <2> DEFINE u == L - k
             v == Len(s)
  <2> HIDE DEF u, v, w
  <2>3. {u, v} \in SUBSET Nat /\ {u, v} # {} /\ w = Min({u, v})
    BY <2>1, <2>2 DEF u, v
  <2>4. w \in {u, v} /\ w <= u /\ w <= v
    BY <2>3, LeastElement
  <2> QED
    BY <2>2, <2>4 DEF u, v
<1> HIDE DEF w
<1>10. w \in 0..Len(B)
  BY <1>7, <1>9
<1>11. /\ SubSeq(s, 1, w) = SubSeq(B, 1, w) /\ After(s, w) \o x = After(B, w) \o W
  <2> HIDE DEF B
  <2>1. /\ s \in Seq(Tokens) /\ x \in Seq(Tokens) /\ B \in Seq(Tokens) /\ W \in Seq(Tokens)
        /\ w \in 0..Len(B) /\ w <= Len(s)
    BY <1>2, <1>7, <1>9, <1>10
  <2> DEFINE u == SubSeq(B, 1, w)
             tail == After(B, w) \o W
             g == SubSeq(s, 1, w)
  <2>2. u \in Seq(Tokens) /\ Len(u) = w
    BY <2>1, AfterIs
  <2>3. B \o W = u \o tail /\ tail \in Seq(Tokens)
    BY <2>1, SplitConcat
  <2>4. g \in Seq(Tokens) /\ Len(g) = w /\ \A i \in 1..w : g[i] = s[i]
    BY <1>9, <2>1, AfterIs
  <2> HIDE DEF u, tail, g
  <2>5. s \o x = u \o tail
    BY <1>5, <2>3
  <2>6. u \in Seq(Tokens) /\ tail \in Seq(Tokens) /\ s \in Seq(Tokens) /\ x \in Seq(Tokens)
    BY <2>1, <2>2, <2>3
  <2>7. /\ \A i \in 1..Len(s) : i <= Len(u) => s[i] = u[i]
        /\ Len(u) <= Len(s) => After(s, Len(u)) \o x = tail
    BY <2>5, <2>6, TwoCuts
  <2>8. \A i \in 1..Len(g) : g[i] = u[i]
    BY <1>9, <2>2, <2>4, <2>7
  <2>9. g = u
    BY <2>2, <2>4, <2>8, SeqEqual
  <2>10. After(s, w) \o x = tail
    BY <1>9, <2>2, <2>7
  <2> QED
    BY <2>9, <2>10 DEF g, u, tail
<1>12. /\ SubSeq(m.body, 1, k) \o SubSeq(B, 1, w) = b
       /\ After(B, w) = After(m.body, k + w) /\ SubSeq(m.body, 1, L) = m.body
       /\ b \in Seq(Tokens) /\ Len(b) = k + w /\ k + w \in Nat /\ k + w <= L
  <2>1. m.body \in Seq(Tokens) /\ k \in 0..Len(m.body) /\ w \in 0..Len(m.body) - k
        /\ k + w \in 0..Len(m.body)
    BY <1>3, <1>4, <1>6, <1>9
  <2>2. /\ SubSeq(m.body, 1, k) \o SubSeq(B, 1, w) = b
        /\ After(B, w) = After(m.body, k + w) /\ SubSeq(m.body, 1, L) = m.body
    BY <1>6, <2>1, Pieces
  <2>3. b \in Seq(Tokens) /\ Len(b) = k + w
    BY <2>1, AfterIs
  <2> QED
    BY <1>6, <2>1, <2>2, <2>3
<1>13. q = [Clean(m) EXCEPT !.body = b]
  <2> DEFINE a == SubSeq(m.body, 1, k)
             d == SubSeq(s, 1, w)
  <2>1. P = [Clean(m) EXCEPT !.body = a] /\ P.body = a
    <3>1. P = [Clean(m) EXCEPT !.body = a]
      BY <1>4
    <3>2. a \in Seq(Tokens)
      BY <1>7
    <3> HIDE DEF a
    <3> QED
      BY <1>2, <3>1, <3>2, CleanIs
  <2>2. a \o d = b
    BY <1>11, <1>12
  <2> HIDE DEF a, d, b
  <2>3. q = [P EXCEPT !.body = a \o d]
    BY <2>1 DEF d
  <2> QED
    BY <2>1, <2>2, <2>3
<1>14. q # NULL /\ q.body = b /\ Missing(q) = L - (k + w)
  <2> HIDE DEF b, q
  <2> QED
    BY <1>2, <1>6, <1>12, <1>13, CleanIs
<1>15. w \in 0..Len(stream["endpoint"]) /\ stream' = [stream EXCEPT !["endpoint"] = After(@, w)]
  BY <1>1, <1>9 DEF s
<1>16. DOMAIN pending = Parties /\ pending["connector"] = NULL
  BY DEF SessionInv, Types, Reading
<1> HIDE DEF q, b
<1>17. CASE BodyComplete(q) /\ EndpointDelivers(SetBody(q))
            /\ pending' = [pending EXCEPT !["endpoint"] = NULL]
  <2>1. k + w = L
    BY <1>3, <1>12, <1>14, <1>17 DEF BodyComplete
  <2>2. q = Clean(m)
    <3>1. b = m.body
      BY <1>12, <2>1 DEF b
    <3> QED
      BY <1>2, <1>13, <3>1, CleanIs
  <2>3. m.body # <<>>
    BY <1>3, <1>4, <1>6
  <2>4. SetBody(q) = AsReceived(m)
    BY <2>2, <2>3 DEF AsReceived
  <2>5. After(s, w) \o x = W
    <3>1. After(B, w) = <<>>
      <4>1. After(B, w) = After(m.body, Len(m.body))
        BY <1>6, <1>12, <2>1
      <4> QED
        BY <1>3, <4>1, AfterNone
    <3>2. <<>> \o W = W
      BY <1>2, ConcatEmptySeq
    <3> QED
      BY <1>11, <3>1, <3>2
  <2>6. /\ DOMAIN pending' = Parties /\ pending'["connector"] = NULL
        /\ pending'["endpoint"] = NULL
    BY <1>16, <1>17, PartiesAre
  <2>7. After(stream["endpoint"], w) \o (out["connector"].header \o out["connector"].body)
          = Wires(After(sent, Len(received) + 1))
    BY <2>5 DEF s, x, W, r
  <2>8. SetBody(q) = AsReceived(sent[Len(received) + 1]) /\ Len(received) < Len(sent)
        /\ EndpointDelivers(SetBody(q)) /\ pc["endpoint"] = "recv"
    BY <1>1, <1>2, <1>17, <2>4, SMTT(60) DEF m, r
  <2> QED
    BY <1>15, <2>6, <2>7, <2>8, EndpointGets
<1>18. CASE /\ ~BodyComplete(q) /\ pending' = [pending EXCEPT !["endpoint"] = q]
            /\ UNCHANGED <<pc, out, hang_up, result, history>>
  <2> DEFINE j == k + w
  <2>1. j \in 0..Len(m.body) - 1
    BY <1>3, <1>6, <1>12, <1>14, <1>18 DEF BodyComplete
  <2>2. /\ DOMAIN pending' = Parties /\ pending'["connector"] = NULL
        /\ pending'["endpoint"] = q
    BY <1>16, <1>18, PartiesAre
  <2>3. /\ pending'["endpoint"] = [Clean(m) EXCEPT !.body = SubSeq(m.body, 1, j)]
        /\ pending'["endpoint"] # NULL /\ Len(pending'["endpoint"].body) = j
    BY <1>12, <1>13, <1>14, <2>2 DEF b
  <2>4. After(stream["endpoint"], w) \o (out["connector"].header \o out["connector"].body)
          = After(m.body, j) \o Wires(After(sent, Len(received) + 1))
    BY <1>11, <1>12 DEF s, x, W, r
  <2>5. m = sent[Len(received) + 1] /\ Len(received) < Len(sent) /\ pc["endpoint"] = "recv"
        /\ UNCHANGED <<pc, out, hang_up, result, sent, received, answers>>
    BY <1>1, <1>2, <1>18 DEF m, r, history
  <2> HIDE DEF j
  <2> QED
    BY <1>15, <2>1, <2>2, <2>3, <2>4, <2>5, EndpointHolds
<1> QED
  BY <1>1, <1>17, <1>18

-----------------------------------------------------------------------------
(* The reads of the client *)

(* The client has something to read: it is a reply that is due. *)
LEMMA ConnectorReads ==
  ASSUME SessionInv, pc["connector"] = "recv", stream["connector"] # <<>>
  PROVE  LET m == RepliesDue[Len(answers) + 1]
             W == Wires(After(RepliesDue, Len(answers) + 1))
         IN  /\ Len(answers) \in Nat /\ Len(answers) < Len(RepliesDue)
             /\ RepliesDue \in Seq(ReplySet)
             /\ m \in ReplySet /\ m \in Readable /\ m.body = <<>>
             /\ Len(print_header(m)) <= max_hdr_len
             /\ W \in Seq(Tokens) /\ stream["connector"] \in Seq(Tokens)
             /\ out["endpoint"].header \in Seq(Tokens)
             /\ stream["connector"] \o out["endpoint"].header = print_header(m) \o W
<1> DEFINE c == stream["connector"]
           y == out["endpoint"].header
           R == RepliesDue
           a == Len(answers)
           m == R[a + 1]
           W == Wires(After(R, a + 1))
<1>1. c \in Seq(Tokens) /\ y \in Seq(Tokens)
  BY OnTheWayIs, PartiesAre DEF SessionInv
<1>2. c \o y = Wires(After(R, a))
  BY DEF SessionInv, Backward, Gone
<1>3. R \in Seq(ReplySet) /\ a \in Nat /\ a <= Len(R)
  <2>1. sent \in Seq(Messages \cap Readable) /\ Len(received) \in 0..Len(sent)
    BY DEF SessionInv, Types, Received
  <2> DEFINE M == Messages \cap Readable
             r == Len(received)
  <2> HIDE DEF M, r
  <2>2. sent \in Seq(M) /\ r \in 0..Len(sent)
    BY <2>1 DEF M, r
  <2>3. Answers(SubSeq(sent, 1, r)) \in Seq(ReplySet)
    BY <2>2, AnswersPrefix
  <2>4. a \in Nat /\ a <= Len(R)
    BY DEF SessionInv, Types, Answered
  <2> QED
    BY <2>3, <2>4 DEF RepliesDue, r
<1>4. ReplySet \subseteq Readable
  BY RepliesAre
<1>5. R \in Seq(Readable) /\ Len(R) \in Nat
  BY <1>3, <1>4
<1> HIDE DEF R, a
<1>6. a < Len(R)
  <2> SUFFICES ASSUME a = Len(R) PROVE FALSE
    BY <1>3, <1>5
  <2>1. After(R, a) = <<>>
    BY <1>5, AfterNone
  <2>2. [i \in DOMAIN <<>> |-> Wire(<<>>[i])] = <<>>
    OBVIOUS
  <2>3. Wires(<<>>) = <<>>
    BY <2>2, FlattenEmpty DEF Wires
  <2> HIDE DEF c, y
  <2>4. c \o y = <<>>
    BY <1>2, <2>1, <2>3
  <2>5. Len(c \o y) = Len(c) + Len(y) /\ Len(c) \in Nat /\ Len(y) \in Nat
    BY <1>1, TwoParts
  <2>6. Len(c) = 0
    BY <2>4, <2>5
  <2>7. c = <<>>
    BY <1>1, <2>6, EmptySeq
  <2> QED
    BY <2>7 DEF c
<1>7. a \in 0..Len(R) - 1 /\ a + 1 \in 1..Len(R)
  BY <1>3, <1>5, <1>6
<1>8. m \in ReplySet
  BY <1>3, <1>7
<1>9. m \in Readable /\ m.body = <<>> /\ Len(print_header(m)) <= max_hdr_len
  BY <1>8, RepliesAre
<1>10. Wires(After(R, a)) = Wire(m) \o W /\ W \in Seq(Tokens)
  BY <1>5, <1>7, WiresNext
<1>11. Wire(m) = print_header(m)
  <2>1. print_header(m) \in Seq(Tokens) /\ Wire(m) = print_header(m) \o <<>>
    BY <1>9, WireType
  <2> QED
    BY <2>1, ConcatEmptySeq
<1>12. c \o y = print_header(m) \o W
  BY <1>2, <1>10, <1>11
<1> QED
  BY <1>1, <1>3, <1>6, <1>8, <1>9, <1>10, <1>12 DEF R, a

(* What the client reads is the header of the reply that is due next. *)
LEMMA ConnectorHeaderRead ==
  ASSUME SessionInv, pc["connector"] = "recv", stream["connector"] # <<>>
  PROVE  LET m == RepliesDue[Len(answers) + 1]
             n == Len(print_header(m))
         IN
         /\ n \in Nat
         /\ HeaderEnds("connector") # {} =>
              /\ HeaderEnd("connector") = n /\ n <= Len(stream["connector"])
              /\ Text("connector") = {TextOf(m)} /\ WellFormed("connector")
              /\ After(stream["connector"], n) \o out["endpoint"].header
                   = Wires(After(RepliesDue, Len(answers) + 1))
         /\ max_hdr_len <= Len(stream["connector"]) => HeaderEnds("connector") # {}
<1> DEFINE p == "connector"
           m == RepliesDue[Len(answers) + 1]
           c == stream["connector"]
           y == out["endpoint"].header
           W == Wires(After(RepliesDue, Len(answers) + 1))
           k == Len(print_header(m))
<1>1. /\ m \in Readable /\ k <= max_hdr_len
      /\ W \in Seq(Tokens) /\ c \in Seq(Tokens) /\ y \in Seq(Tokens)
      /\ c \o y = print_header(m) \o W
  BY ConnectorReads
<1>2. c = stream[p]
  OBVIOUS
<1> HIDE DEF p, m, c, y, W
<1>3. /\ m \in Readable /\ stream[p] \in Seq(Tokens) /\ y \in Seq(Tokens)
      /\ W \in Seq(Tokens) /\ stream[p] \o y = print_header(m) \o W
  BY <1>1, <1>2
<1>4. /\ k \in Nat /\ k > 2
      /\ HeaderEnds(p) # {} =>
           /\ HeaderEnd(p) = k /\ k <= Len(stream[p])
           /\ Text(p) = {TextOf(m)} /\ WellFormed(p)
           /\ After(stream[p], k) \o y = W
      /\ k <= Len(stream[p]) /\ k <= max_hdr_len => HeaderEnds(p) # {}
  BY <1>3, HeaderRead
<1>5. max_hdr_len <= Len(stream[p]) => HeaderEnds(p) # {}
  <2>1. max_hdr_len \in Nat /\ Len(stream[p]) \in Nat
    BY <1>3, BoundsAssumption
  <2>2. k \in Nat /\ k <= max_hdr_len
    BY <1>1, <1>4
  <2>3. max_hdr_len <= Len(stream[p]) => k <= Len(stream[p])
    BY <2>1, <2>2
  <2> QED
    BY <1>4, <2>2, <2>3
<1> QED
  BY <1>4, <1>5 DEF p, m, y, W

(* The client reads a header. *)
LEMMA ConnectorHeaderKeeps ==
  ASSUME SessionInv, RecvHeader("connector")
  PROVE  SessionInv'
<1> DEFINE m == RepliesDue[Len(answers) + 1]
           R == RepliesDue
           a == Len(answers)
           c == stream["connector"]
           n == Len(print_header(m))
           q == [Clean(m) EXCEPT !.body = <<>>]
<1>1. /\ pc["connector"] = "recv" /\ HeaderEnds("connector") # {}
      /\ stream' = [stream EXCEPT !["connector"] = After(@, HeaderEnd("connector"))]
      /\ \E msg \in {ParsedMsg(text) : text \in Text("connector")} :
           \/ Missing(msg) = 0 /\ ConnectorDelivers(msg) /\ UNCHANGED pending
           \/ Missing(msg) > 0
  BY DEF RecvHeader, Delivers
<1>2. c # <<>>
  BY <1>1, NothingToRead
<1>3. /\ a \in Nat /\ a < Len(R) /\ R \in Seq(ReplySet)
      /\ m \in ReplySet /\ m \in Readable /\ m.body = <<>> /\ c \in Seq(Tokens)
  BY <1>1, <1>2, ConnectorReads
<1>4. /\ n \in Nat /\ HeaderEnd("connector") = n /\ n <= Len(c)
      /\ Text("connector") = {TextOf(m)}
      /\ After(c, n) \o out["endpoint"].header = Wires(After(R, a + 1))
  BY <1>1, <1>2, ConnectorHeaderRead
<1>5. /\ Clean(m).body = m.body /\ [Clean(m) EXCEPT !.body = m.body] = Clean(m)
      /\ Missing(q) = 0
  <2>1. <<>> \in Seq(Tokens) /\ Len(<<>>) = 0
    OBVIOUS
  <2>2. Missing(q) = Len(m.body) - Len(<<>>)
    BY <1>3, <2>1, CleanIs
  <2>3. Missing(q) = 0
    BY <1>3, <2>1, <2>2
  <2> QED
    BY <1>3, <2>3, CleanIs
<1>6. q = AsReceived(m)
  BY <1>3, <1>5 DEF AsReceived
<1>7. ParsedMsg(TextOf(m)) = q
  BY <1>3, ParsedIs DEF Readable
<1>8. ConnectorDelivers(q) /\ UNCHANGED pending
  <2> HIDE DEF q, m
  <2>1. {ParsedMsg(text) : text \in Text("connector")} = {q}
    BY <1>4, <1>7
  <2> QED
    BY <1>1, <1>5, <2>1
<1> HIDE DEF q, n
<1>9. /\ answers' = Append(answers, AsReceived(m)) /\ result' = 0
      /\ pc' = [pc EXCEPT !["connector"] = "idle"]
      /\ UNCHANGED <<out, hang_up, sent, received, pending>>
  BY <1>6, <1>8 DEF ConnectorDelivers
<1>10. n \in 0..Len(stream["connector"])
       /\ stream' = [stream EXCEPT !["connector"] = After(@, n)]
  <2>1. n \in 0..Len(c)
    BY <1>3, <1>4
  <2> QED
    BY <1>1, <1>4, <2>1
<1>11. /\ stream' \in [Parties -> Seq(Tokens)] /\ \A p \in Parties : Len(stream'[p]) <= Room
       /\ stream'["connector"] = After(c, n) /\ stream'["endpoint"] = stream["endpoint"]
  BY <1>10, StreamRead, PartiesAre DEF SessionInv
<1>12. /\ pc \in [Parties -> States] /\ pc' \in [Parties -> States] /\ pc'["connector"] = "idle"
       /\ pc'["endpoint"] = pc["endpoint"]
       /\ answers \in Seq({AsReceived(reply) : reply \in ReplySet})
  BY <1>9, PartiesAre DEF SessionInv, Types, States
<1>13. /\ answers' \in Seq({AsReceived(reply) : reply \in ReplySet}) /\ Len(answers') = a + 1
       /\ \A i \in 1..a : answers'[i] = answers[i]
       /\ answers'[a + 1] = AsReceived(m)
  <2> DEFINE T == {AsReceived(reply) : reply \in ReplySet}
             e == AsReceived(m)
  <2>1. e \in T /\ answers \in Seq(T) /\ answers' = Append(answers, e)
    BY <1>3, <1>9, <1>12
  <2> HIDE DEF T, e
  <2>2. /\ answers' \in Seq(T) /\ Len(answers') = a + 1
        /\ \A i \in 1..a : answers'[i] = answers[i] /\ answers'[a + 1] = e
        /\ answers'[a + 1] = e
    BY <2>1
  <2> QED
    BY <2>2 DEF T, e
<1>14. Types'
  BY <1>9, <1>11, <1>12, <1>13 DEF SessionInv, Types
<1>15. \A p \in Parties : Gone(p)' <=> Gone(p)
  BY <1>1, <1>12, PartiesAre DEF Gone
<1>16. Sending'
  <2>1. \A p \in Parties : Peer(p) \in Parties
    BY PartiesAre
  <2>2. ASSUME NEW p \in Parties
        PROVE  /\ pc'[p] \notin {"send", "killed"} => out'[p] = Nothing
               /\ out'[p].erred => Gone(Peer(p))'
    <3>1. pc[p] \notin {"send", "killed"} => out[p] = Nothing
      BY DEF SessionInv, Sending
    <3>2. out[p].erred => Gone(Peer(p))'
      BY <1>15, <2>1 DEF SessionInv, Sending
    <3>3. pc'[p] = pc[p] \/ pc[p] = "recv"
      BY <1>1, <1>12, PartiesAre
    <3> QED
      BY <1>9, <3>1, <3>2, <3>3
  <2> QED
    BY <1>9, <1>12, <2>2 DEF SessionInv, Sending
<1>17. Reading' /\ Received' /\ Serving' /\ RepliesDue' = R
  BY <1>9, <1>12 DEF SessionInv, Reading, Received, Serving, RepliesDue
<1>18. Forward'
  <2>1. OnTheWay' = OnTheWay /\ Unread' = Unread
    BY <1>9, <1>11 DEF OnTheWay, Unread
  <2> QED
    BY <1>11, <1>15, <2>1, PartiesAre DEF SessionInv, Forward
<1>19. Backward'
  BY <1>4, <1>9, <1>11, <1>13, <1>17 DEF Backward
<1>20. Answered'
  <2>1. a <= Len(R) /\ Len(R) <= Len(received) /\ \A i \in 1..a : answers[i] = AsReceived(R[i])
    BY DEF SessionInv, Answered
  <2>2. Len(R) \in Nat
    BY <1>3
  <2> HIDE DEF R
  <2>3. a + 1 <= Len(R)
    BY <1>3, <2>2
  <2>4. ASSUME NEW i \in 1..a + 1 PROVE answers'[i] = AsReceived(R[i])
    <3>1. CASE i = a + 1
      BY <1>13, <3>1 DEF R
    <3>2. CASE i # a + 1
      <4>1. i \in 1..a
        BY <1>3, <3>2
      <4> QED
        BY <1>13, <2>1, <4>1
    <3> QED
      BY <3>1, <3>2
  <2> QED
    BY <1>9, <1>13, <1>17, <2>1, <2>3, <2>4 DEF Answered
<1>21. Whole'
  BY <1>12 DEF Whole
<1> QED
  BY <1>14, <1>16, <1>17, <1>18, <1>19, <1>20, <1>21 DEF SessionInv

-----------------------------------------------------------------------------
(* Reads that fail, and the invariant as a whole *)

(* What hms_msg_parse has taken off the stream when it fails. *)
LEMMA FailedRead ==
  ASSUME Types, NEW p \in Parties, RecvFails(p)
  PROVE  \E n \in 0..Len(stream[p]) :
           /\ stream' = [stream EXCEPT ![p] = After(@, n)]
           /\ BadHeader(p) \/ TooLong(p) \/ (Truncated(p) /\ n = Len(stream[p]))
<1> DEFINE s == stream[p]
<1>1. s \in Seq(Tokens) /\ Len(s) \in Nat
  BY DEF Types
<1>2. stream' = [stream EXCEPT ![p] = CASE BadHeader(p) -> After(s, HeaderEnd(p))
                                        [] TooLong(p)   -> After(s, max_hdr_len)
                                        [] OTHER        -> <<>>]
      /\ (BadHeader(p) \/ TooLong(p) \/ Truncated(p))
  BY DEF RecvFails
<1>3. ~(BadHeader(p) /\ TooLong(p))
  BY DEF BadHeader, TooLong
<1>4. CASE BadHeader(p)
  <2>1. HeaderEnds(p) # {} /\ HeaderEnds(p) \in SUBSET Nat
        /\ \A n \in HeaderEnds(p) : n \in 0..Len(s)
    <3>1. HeaderEnds(p) # {}
      BY <1>4 DEF BadHeader
    <3>2. HeaderEnds(p) \subseteq DOMAIN s
      BY DEF HeaderEnds
    <3>3. DOMAIN s = 1..Len(s)
      BY <1>1
    <3> QED
      BY <1>1, <3>1, <3>2, <3>3
  <2>2. HeaderEnd(p) \in HeaderEnds(p)
    BY <2>1, LeastElement DEF HeaderEnd
  <2>3. HeaderEnd(p) \in 0..Len(s)
    BY <2>1, <2>2
  <2>4. stream' = [stream EXCEPT ![p] = After(@, HeaderEnd(p))]
    BY <1>2, <1>3, <1>4
  <2> QED
    BY <1>4, <2>3, <2>4
<1>5. CASE TooLong(p)
  <2>1. max_hdr_len \in 0..Len(s)
    BY <1>1, <1>5, BoundsAssumption DEF TooLong
  <2>2. stream' = [stream EXCEPT ![p] = After(@, max_hdr_len)]
    BY <1>2, <1>3, <1>5
  <2> QED
    BY <1>5, <2>1, <2>2
<1>6. CASE ~BadHeader(p) /\ ~TooLong(p)
  <2>1. After(s, Len(s)) = <<>> /\ Len(s) \in 0..Len(s)
    BY <1>1, AfterNone
  <2>2. stream' = [stream EXCEPT ![p] = <<>>]
    BY <1>2, <1>6
  <2>3. stream' = [stream EXCEPT ![p] = After(@, Len(s))]
    BY <2>1, <2>2
  <2> QED
    BY <1>2, <1>6, <2>1, <2>3
<1> QED
  BY <1>4, <1>5, <1>6

(* The client fails to read a header: the handler is gone. *)
LEMMA ConnectorFailsKeeps ==
  ASSUME SessionInv, RecvFails("connector")
  PROVE  SessionInv'
<1> DEFINE c == stream["connector"]
<1>1. /\ pc["connector"] = "recv" /\ pc' = [pc EXCEPT !["connector"] = "idle"]
      /\ result' = -1 /\ pending' = [pending EXCEPT !["connector"] = NULL]
      /\ UNCHANGED <<out, hang_up, sent, received, answers>>
  BY DEF RecvFails, history
<1>2. PICK n \in 0..Len(c) :
        /\ stream' = [stream EXCEPT !["connector"] = After(@, n)]
        /\ \/ BadHeader("connector") \/ TooLong("connector")
           \/ Truncated("connector") /\ n = Len(c)
  BY FailedRead, PartiesAre DEF SessionInv
<1>3. /\ pending["connector"] = NULL /\ DOMAIN pending = Parties /\ c \in Seq(Tokens)
      /\ pc \in [Parties -> States] /\ max_hdr_len \in Nat /\ max_hdr_len > 0
  BY PartiesAre, BoundsAssumption DEF SessionInv, Types, Reading
<1>4. ~BadHeader("connector")
  <2> SUFFICES ASSUME BadHeader("connector") PROVE FALSE
    OBVIOUS
  <2>1. HeaderEnds("connector") # {} /\ ~WellFormed("connector")
    BY DEF BadHeader
  <2>2. c # <<>>
    BY <2>1, NothingToRead
  <2> QED
    BY <1>1, <2>1, <2>2, ConnectorHeaderRead
<1>5. ~TooLong("connector")
  <2> SUFFICES ASSUME TooLong("connector") PROVE FALSE
    OBVIOUS
  <2>1. HeaderEnds("connector") = {} /\ max_hdr_len <= Len(c)
    BY <1>3 DEF TooLong
  <2>2. c # <<>>
    BY <1>3, <2>1
  <2> QED
    BY <1>1, <2>1, <2>2, ConnectorHeaderRead
<1>6. Gone("endpoint") /\ n = Len(c)
  BY <1>2, <1>4, <1>5, PartiesAre DEF Truncated
<1>7. /\ stream' \in [Parties -> Seq(Tokens)] /\ \A p \in Parties : Len(stream'[p]) <= Room
      /\ stream'["connector"] = <<>> /\ stream'["endpoint"] = stream["endpoint"]
  <2>1. After(c, n) = <<>>
    BY <1>3, <1>6, AfterNone
  <2> QED
    BY <1>2, <2>1, StreamRead, PartiesAre DEF SessionInv
<1>8. /\ pc' \in [Parties -> States] /\ pc'["connector"] = "idle"
      /\ pc'["endpoint"] = pc["endpoint"]
  BY <1>1, <1>3, PartiesAre DEF States
<1>9. /\ DOMAIN pending' = Parties /\ pending'["connector"] = NULL
      /\ pending'["endpoint"] = pending["endpoint"]
  BY <1>1, <1>3, PartiesAre
<1>10. \A p \in Parties : Gone(p)' <=> Gone(p)
  BY <1>1, <1>8, PartiesAre DEF Gone
<1>11. Types'
  BY <1>1, <1>7, <1>8, <1>9 DEF SessionInv, Types
<1>12. Sending'
  <2>1. \A p \in Parties : Peer(p) \in Parties
    BY PartiesAre
  <2>2. ASSUME NEW p \in Parties
        PROVE  /\ pc'[p] \notin {"send", "killed"} => out'[p] = Nothing
               /\ out'[p].erred => Gone(Peer(p))'
    <3>1. pc[p] \notin {"send", "killed"} => out[p] = Nothing
      BY DEF SessionInv, Sending
    <3>2. out[p].erred => Gone(Peer(p))'
      BY <1>10, <2>1 DEF SessionInv, Sending
    <3>3. pc'[p] = pc[p] \/ pc[p] = "recv"
      BY <1>1, <1>8, PartiesAre
    <3> QED
      BY <1>1, <3>1, <3>2, <3>3
  <2> QED
    BY <1>1, <1>8, <2>2 DEF SessionInv, Sending
<1>13. Reading'
  BY <1>1, <1>8, <1>9 DEF SessionInv, Reading
<1>14. Received' /\ Serving' /\ Answered'
  BY <1>1, <1>8 DEF SessionInv, Received, Serving, Answered, RepliesDue
<1>15. Forward'
  <2>1. OnTheWay' = OnTheWay /\ Unread' = Unread
    BY <1>1, <1>7, <1>9 DEF OnTheWay, Unread
  <2> QED
    BY <1>7, <1>10, <2>1, PartiesAre DEF SessionInv, Forward
<1>16. Backward'
  BY <1>6, <1>7, <1>10, PartiesAre DEF Backward
<1>17. Whole'
  BY <1>8 DEF Whole
<1> QED
  BY <1>11, <1>12, <1>13, <1>14, <1>15, <1>16, <1>17 DEF SessionInv

(* The handler fails to read a message: it closes. *)
LEMMA EndpointFailsKeeps ==
  ASSUME SessionInv, RecvFails("endpoint")
  PROVE  SessionInv'
<1> DEFINE s == stream["endpoint"]
<1>1. /\ pc["endpoint"] = "recv" /\ pc' = [pc EXCEPT !["endpoint"] = "closed"]
      /\ result' = result /\ pending' = [pending EXCEPT !["endpoint"] = NULL]
      /\ UNCHANGED <<out, hang_up, sent, received, answers>>
  BY PartiesAre DEF RecvFails, history
<1>2. PICK n \in 0..Len(s) : stream' = [stream EXCEPT !["endpoint"] = After(@, n)]
  BY FailedRead, PartiesAre DEF SessionInv
<1>3. /\ pending["connector"] = NULL /\ DOMAIN pending = Parties
      /\ pc \in [Parties -> States]
  BY PartiesAre DEF SessionInv, Types, Reading
<1>4. /\ stream' \in [Parties -> Seq(Tokens)] /\ \A p \in Parties : Len(stream'[p]) <= Room
      /\ stream'["connector"] = stream["connector"]
  BY <1>2, StreamRead, PartiesAre DEF SessionInv
<1>5. /\ pc' \in [Parties -> States] /\ pc'["endpoint"] = "closed"
      /\ pc'["connector"] = pc["connector"]
  BY <1>1, <1>3, PartiesAre DEF States
<1>6. /\ DOMAIN pending' = Parties /\ pending'["endpoint"] = NULL
      /\ pending'["connector"] = NULL
  BY <1>1, <1>3, PartiesAre
<1>7. Gone("endpoint")' /\ (Gone("connector")' <=> Gone("connector"))
  BY <1>5 DEF Gone
<1>8. Types'
  BY <1>1, <1>4, <1>5, <1>6 DEF SessionInv, Types
<1>9. Sending'
  <2>1. ASSUME NEW p \in Parties
        PROVE  /\ pc'[p] \notin {"send", "killed"} => out'[p] = Nothing
               /\ out'[p].erred => Gone(Peer(p))'
    <3>1. CASE p = "connector"
      BY <1>1, <1>5, <1>7, <3>1, PartiesAre DEF SessionInv, Sending
    <3>2. CASE p = "endpoint"
      BY <1>1, <1>5, <1>7, <3>2, PartiesAre DEF SessionInv, Sending
    <3> QED
      BY <3>1, <3>2, PartiesAre
  <2>2. pc["connector"] # "init"
    BY <1>1 DEF SessionInv, Sending
  <2> QED
    BY <1>1, <1>5, <1>7, <2>1, <2>2 DEF SessionInv, Sending
<1>10. Reading'
  BY <1>6 DEF Reading
<1>11. Received' /\ Answered' /\ RepliesDue' = RepliesDue
  BY <1>1 DEF SessionInv, Received, Answered, RepliesDue
<1>12. Serving'
  BY <1>1, <1>5 DEF SessionInv, Serving
<1>13. Forward'
  BY <1>7 DEF Forward
<1>14. Backward'
  BY <1>1, <1>4, <1>7, <1>11 DEF SessionInv, Backward, Gone
<1>15. Whole'
  BY <1>1, <1>2, <1>5, EndpointRead
<1> QED
  BY <1>8, <1>9, <1>10, <1>11, <1>12, <1>13, <1>14, <1>15 DEF SessionInv

(* The invariant holds initially. *)
LEMMA SessionInitInv ==
  ASSUME Init
  PROVE  SessionInv
<1>1. /\ pc = [p \in Parties |-> "init"] /\ stream = [p \in Parties |-> <<>>]
      /\ out = [p \in Parties |-> Nothing] /\ pending = [p \in Parties |-> NULL]
      /\ hang_up = FALSE /\ result = NULL
      /\ sent = <<>> /\ received = <<>> /\ answers = <<>>
  BY DEF Init
<1>2. \A p \in Parties : pc[p] = "init" /\ stream[p] = <<>> /\ out[p] = Nothing /\ pending[p] = NULL
  BY <1>1
<1>3. Len(<<>>) = 0 /\ \A S : <<>> \in Seq(S)
  OBVIOUS
<1>4. Types
  <2>1. /\ pc \in [Parties -> States] /\ pc["endpoint"] \in {"init", "recv", "send", "closed"}
    BY <1>1, <1>2, PartiesAre DEF States
  <2>2. stream \in [Parties -> Seq(Tokens)]
    BY <1>1, <1>3
  <2>3. \A p \in Parties : Len(stream[p]) <= Room
    BY <1>2, <1>3, BoundsAssumption
  <2>4. out \in [Parties -> OutType] /\ DOMAIN pending = Parties
    BY <1>1, NothingIs
  <2>5. Len(sent) <= MaxMsgs
    BY <1>1, <1>3, BoundsAssumption
  <2>6. /\ sent \in Seq(Messages \cap Readable)
        /\ received \in Seq({AsReceived(m) : m \in Messages})
        /\ answers \in Seq({AsReceived(reply) : reply \in ReplySet})
    BY <1>1, <1>3
  <2>7. hang_up \in BOOLEAN /\ result \in {NULL, 0, -1}
    BY <1>1
  <2> QED
    BY <2>1, <2>2, <2>3, <2>4, <2>5, <2>6, <2>7 DEF Types
<1>5. Sending
  BY <1>1, <1>2, PartiesAre, NothingIs DEF Sending
<1>6. Reading /\ Received /\ Serving
  BY <1>1, <1>2, <1>3, PartiesAre DEF Reading, Received, Serving
<1>7. Wires(<<>>) = <<>> /\ Answers(<<>>) = <<>>
  <2>1. [i \in DOMAIN <<>> |-> Wire(<<>>[i])] = <<>>
    OBVIOUS
  <2> QED
    BY <2>1, FlattenEmpty, AnswersOne DEF Wires
<1>8. After(<<>>, 0) = <<>> /\ SubSeq(<<>>, 1, 0) = <<>> /\ <<>> \o <<>> = <<>>
  <2>1. <<>> \in Seq(Nat)
    BY <1>3
  <2>2. SubSeq(<<>>, 1, 0) = <<>>
    BY DEF After
  <2> QED
    BY <2>1, <2>2, AfterNone, ConcatEmptySeq
<1>9. RepliesDue = <<>>
  BY <1>1, <1>3, <1>7, <1>8 DEF RepliesDue
<1>10. Answered
  BY <1>1, <1>3, <1>9 DEF Answered
<1>11. Forward
  <2>1. Unread = <<>>
    BY <1>1, <1>2, <1>3, <1>7, <1>8, PartiesAre DEF Unread
  <2>2. OnTheWay = <<>>
    BY <1>2, <1>8, PartiesAre, NothingIs DEF OnTheWay
  <2> QED
    BY <2>1, <2>2 DEF Forward
<1>12. Backward
  BY <1>1, <1>2, <1>3, <1>7, <1>8, <1>9, PartiesAre, NothingIs DEF Backward
<1>13. Whole
  BY <1>2, PartiesAre DEF Whole
<1> QED
  BY <1>4, <1>5, <1>6, <1>10, <1>11, <1>12, <1>13 DEF SessionInv

(* Every step preserves it. *)
LEMMA SessionNextInv ==
  ASSUME SessionInv, [Next]_vars
  PROVE  SessionInv'
<1>1. CASE UNCHANGED vars
  BY <1>1, ZenonT(60) DEF vars, history, SessionInv, Types, Sending, Reading, Received, Forward, Backward,
              Answered, Serving, Whole, Gone, OnTheWay, Unread, RepliesDue
<1>2. ASSUME NEW p \in Parties, Step(p)
      PROVE  SessionInv'
  <2>1. CASE \E n \in 1..Room : SendAll(p, n)
    BY <2>1, SendAllKeeps
  <2>2. CASE SendAllFails(p)
    BY <2>2, SendFailsKeeps
  <2>3. CASE RecvHeader(p)
    BY <2>3, ConnectorHeaderKeeps, EndpointHeaderKeeps, PartiesAre
  <2>4. CASE RecvBody(p)
    <3>1. p # "connector"
      BY <2>4 DEF RecvBody, SessionInv, Reading
    <3> QED
      BY <2>4, <3>1, EndpointBodyKeeps, PartiesAre
  <2>5. CASE RecvFails(p)
    BY <2>5, ConnectorFailsKeeps, EndpointFailsKeeps, PartiesAre
  <2> QED
    BY <1>2, <2>1, <2>2, <2>3, <2>4, <2>5 DEF Step
<1>3. CASE Connect \/ (\E ret \in {NULL, -1} : ConnectFails(ret)) \/ ConnectorRecvMsg
           \/ ConnectorDestroy \/ Sigpipe
  BY <1>3, PlaceStepsKeep
<1>4. CASE \E msg \in Messages : ConnectorSendMsg(msg)
  BY <1>4, SendMsgKeeps
<1>5. CASE ConnectorStep \/ EndpointStep
  BY <1>2, <1>5, ReturnsKeep, PartiesAre DEF ConnectorStep, EndpointStep
<1>6. CASE \E p \in Parties : Reset(p)
  BY <1>6, ResetKeeps
<1> QED
  BY <1>1, <1>3, <1>4, <1>5, <1>6, SMTT(60) DEF Next

(***************************************************************************)
(* The invariant of a session holds in every state: for any messages a     *)
(* client can send, any verdicts of the user's handler, any size of the    *)
(* connection and any length of the session.                               *)
(***************************************************************************)
THEOREM SessionInvariance == Spec => []SessionInv
<1>1. Init => SessionInv
  BY SessionInitInv
<1>2. SessionInv /\ [Next]_vars => SessionInv'
  BY SessionNextInv
<1> QED
  BY <1>1, <1>2, PTL DEF Spec

-----------------------------------------------------------------------------
(* What the invariant says *)

(* A sequence with the last elements of another is a suffix of it. *)
LEMMA SuffixIs ==
  ASSUME NEW S, NEW s \in Seq(S), NEW t \in Seq(S), Len(s) <= Len(t),
         \A k \in 0..Len(s) - 1 : s[Len(s) - k] = t[Len(t) - k]
  PROVE  IsSuffix(s, t)
<1> DEFINE a == Reverse(s)
           b == Reverse(t)
           n == Len(s)
           m == Len(t)
<1>1. n \in Nat /\ m \in Nat /\ n <= m
  OBVIOUS
<1>2. /\ a \in Seq(S) /\ Len(a) = n /\ \A i \in 1..n : a[i] = s[(n - i) + 1]
  <2>1. \A i \in 1..n : s[(n - i) + 1] \in S
    <3> SUFFICES ASSUME NEW i \in 1..n PROVE s[(n - i) + 1] \in S
      OBVIOUS
    <3>1. (n - i) + 1 \in 1..Len(s)
      BY <1>1
    <3> QED
      BY <3>1
  <2>2. a = [i \in 1..n |-> s[(n - i) + 1]]
    BY DEF Reverse
  <2> HIDE DEF n, a
  <2> QED
    BY <1>1, <2>1, <2>2
<1>3. /\ b \in Seq(S) /\ Len(b) = m /\ \A i \in 1..m : b[i] = t[(m - i) + 1]
  <2>1. \A i \in 1..m : t[(m - i) + 1] \in S
    <3> SUFFICES ASSUME NEW i \in 1..m PROVE t[(m - i) + 1] \in S
      OBVIOUS
    <3>1. (m - i) + 1 \in 1..Len(t)
      BY <1>1
    <3> QED
      BY <3>1
  <2>2. b = [i \in 1..m |-> t[(m - i) + 1]]
    BY DEF Reverse
  <2> HIDE DEF m, b
  <2> QED
    BY <1>1, <2>1, <2>2
<1> HIDE DEF a, b
<1>4. n \in 0..Len(a) /\ n \in 0..Len(b)
  BY <1>1, <1>2, <1>3
<1> DEFINE c == SubSeq(a, 1, n)
           d == SubSeq(b, 1, n)
<1>5. c \in Seq(S) /\ Len(c) = n /\ \A i \in 1..n : c[i] = a[i]
  <2> HIDE DEF n
  <2> QED
    BY <1>2, <1>4, AfterIs
<1>6. d \in Seq(S) /\ Len(d) = n /\ \A i \in 1..n : d[i] = b[i]
  <2> HIDE DEF n
  <2> QED
    BY <1>3, <1>4, AfterIs
<1> HIDE DEF c, d
<1>7. ASSUME NEW i \in 1..Len(c) PROVE c[i] = d[i]
  <2> DEFINE k == i - 1
  <2>1. k \in 0..n - 1 /\ i \in 1..n /\ i \in 1..m /\ (n - i) + 1 = n - k /\ (m - i) + 1 = m - k
    BY <1>1, <1>5
  <2>2. s[n - k] = t[m - k]
    BY <2>1
  <2> HIDE DEF n, m, k
  <2>3. c[i] = s[n - k] /\ d[i] = t[m - k]
    BY <1>2, <1>3, <1>5, <1>6, <2>1
  <2> QED
    BY <2>2, <2>3
<1>8. c = d
  BY <1>5, <1>6, <1>7, SeqEqual
<1> QED
  BY <1>1, <1>2, <1>3, <1>8 DEF IsSuffix, IsPrefix, a, b, c, d

(* Of two sequences with the same end one is a suffix of the other. *)
LEMMA SameEndSuffix ==
  ASSUME NEW S, NEW s \in Seq(S), NEW t \in Seq(S), SameEnd(s, t)
  PROVE  IsSuffix(s, t) \/ IsSuffix(t, s)
<1>1. Len(s) \in Nat /\ Len(t) \in Nat
  OBVIOUS
<1>2. \A k \in 0..Len(s) - 1 : k < Len(t) => s[Len(s) - k] = t[Len(t) - k]
  BY DEF SameEnd
<1>3. CASE Len(s) <= Len(t)
  <2>1. \A k \in 0..Len(s) - 1 : s[Len(s) - k] = t[Len(t) - k]
    BY <1>1, <1>2, <1>3, SMTT(60)
  <2> QED
    BY <1>3, <2>1, SuffixIs
<1>4. CASE Len(t) <= Len(s)
  <2>1. ASSUME NEW k \in 0..Len(t) - 1
        PROVE  t[Len(t) - k] = s[Len(s) - k]
    <3>1. k \in 0..Len(s) - 1 /\ k < Len(t)
      BY <1>1, <1>4
    <3> QED
      BY <1>2, <3>1
  <2> QED
    BY <1>4, <2>1, SuffixIs
<1> QED
  BY <1>1, <1>3, <1>4

(* The invariant has the types of the variables. *)
LEMMA TypesAre ==
  ASSUME SessionInv
  PROVE  TypeOK
<1>1. Types /\ Reading /\ Received /\ Answered
  BY DEF SessionInv
<1>2. pending["connector"] = NULL
  BY <1>1 DEF Reading
<1>3. pending["endpoint"] = NULL \/ Missing(pending["endpoint"]) > 0
  <2> SUFFICES ASSUME pending["endpoint"] # NULL
               PROVE  Missing(pending["endpoint"]) > 0
    OBVIOUS
  <2> DEFINE m == sent[Len(received) + 1]
             k == Len(pending["endpoint"].body)
             b == SubSeq(m.body, 1, k)
             M == Messages \cap Readable
  <2>1. /\ Len(received) < Len(sent) /\ k \in 0..Len(m.body) - 1
        /\ pending["endpoint"] = [Clean(m) EXCEPT !.body = b]
        /\ Len(received) \in Nat /\ Len(sent) \in Nat /\ sent \in Seq(M)
    BY <1>1 DEF Reading, Types
  <2>2. m \in Readable
    <3>1. Len(received) + 1 \in 1..Len(sent)
      BY <2>1
    <3> HIDE DEF M
    <3>2. m \in M
      BY <2>1, <3>1
    <3> QED
      BY <3>2 DEF M
  <2> HIDE DEF m, k
  <2>3. m.body \in Seq(Tokens) /\ Len(m.body) \in Nat
    BY <2>2, WireType
  <2>4. k \in 0..Len(m.body)
    BY <2>1, <2>3
  <2>5. b \in Seq(Tokens) /\ Len(b) = k
    BY <2>3, <2>4, AfterIs
  <2> HIDE DEF b
  <2>6. Missing(pending["endpoint"]) = Len(m.body) - Len(b)
    BY <2>1, <2>2, <2>5, CleanIs
  <2> QED
    BY <2>1, <2>3, <2>5, <2>6
<1>4. ASSUME NEW p \in Parties
      PROVE  /\ stream[p] \in Seq(Tokens) /\ Len(stream[p]) <= Room
             /\ out[p] \in [header : Seq(Tokens), body : Seq(Tokens), erred : BOOLEAN]
             /\ pending[p] = NULL \/ Missing(pending[p]) > 0
  BY <1>1, <1>2, <1>3, PartiesAre DEF Types, OutType
<1>5. /\ Len(received) <= Len(sent) /\ Len(answers) <= Len(received)
  <2>1. Len(answers) <= Len(RepliesDue) /\ Len(RepliesDue) <= Len(received)
        /\ Len(received) <= Len(sent)
    BY <1>1 DEF Answered, Received
  <2>2. Len(RepliesDue) \in Nat
    <3> DEFINE M == Messages \cap Readable
               r == Len(received)
    <3>1. sent \in Seq(M) /\ r \in 0..Len(sent)
      BY <1>1 DEF Types, Received
    <3> HIDE DEF M, r
    <3>2. Answers(SubSeq(sent, 1, r)) \in Seq(ReplySet)
      BY <3>1, AnswersPrefix
    <3> QED
      BY <3>2 DEF RepliesDue, r
  <2>3. Len(answers) \in Nat /\ Len(received) \in Nat
    BY <1>1 DEF Types
  <2> QED
    BY <2>1, <2>2, <2>3
<1>6. sent \in Seq(Messages) /\ Len(sent) <= MaxMsgs
  BY <1>1 DEF Types
<1>7. /\ pc["connector"] \in {"init", "idle", "send", "recv", "closed", "killed", "aborted"}
      /\ pc["endpoint"] \in {"init", "recv", "send", "closed"}
      /\ hang_up \in BOOLEAN /\ result \in {NULL, 0, -1}
  BY <1>1, PartiesAre DEF Types, States
<1> QED
  BY <1>4, <1>5, <1>6, <1>7 DEF TypeOK

(* It has what was received. *)
LEMMA DeliveredIs ==
  ASSUME SessionInv
  PROVE  DeliveredAsSent
<1>1. /\ received \in Seq({AsReceived(m) : m \in Messages}) /\ Len(received) <= Len(sent)
      /\ \A i \in 1..Len(received) : received[i] = AsReceived(sent[i])
      /\ sent \in Seq(Messages \cap Readable)
  BY DEF SessionInv, Types, Received
<1>2. DOMAIN received = 1..Len(received) /\ Len(received) \in Nat /\ Len(sent) \in Nat
  BY <1>1
<1> QED
  BY <1>1, <1>2 DEF DeliveredAsSent

(* What is left after the header and a part of the body. *)
LEMMA AfterHeader ==
  ASSUME NEW S, NEW h \in Seq(S), NEW b \in Seq(S), NEW rest \in Seq(S), NEW k \in 0..Len(b)
  PROVE  After(h \o (b \o rest), Len(h) + k) = After(b, k) \o rest
<1> DEFINE c == SubSeq(b, 1, k)
           d == After(b, k) \o rest
           z == h \o (b \o rest)
<1>1. c \in Seq(S) /\ Len(c) = k
  BY AfterIs
<1>2. b \o rest = c \o d /\ d \in Seq(S)
  BY SplitConcat
<1> HIDE DEF c, d
<1> HIDE DEF z
<1>3. (h \o c) \o d = h \o (c \o d)
  <2>1. c \in Seq(S) /\ d \in Seq(S)
    BY <1>1, <1>2
  <2>2. \A x \in Seq(S), y \in Seq(S) : (h \o x) \o y = h \o (x \o y)
    BY ConcatAssociative, SMTT(60)
  <2> QED
    BY <2>1, <2>2
<1>4. h \o c \in Seq(S) /\ Len(h \o c) = Len(h) + Len(c)
  BY <1>1, TwoParts
<1> DEFINE u == h \o c
<1> HIDE DEF u
<1>5. z = u \o d /\ u \in Seq(S) /\ Len(u) = Len(h) + k
  BY <1>1, <1>2, <1>3, <1>4 DEF u, z
<1>6. u \in Seq(S) /\ d \in Seq(S)
  BY <1>2, <1>5
<1>7. u \o d \in Seq(S) /\ Len(u \o d) = Len(u) + Len(d) /\ Len(u) \in Nat /\ Len(d) \in Nat
  BY <1>6, TwoParts
<1>8. z \in Seq(S) /\ Len(u) <= Len(z) /\ Len(u) \in 0..Len(z)
  BY <1>5, <1>7
<1>9. z \o <<>> = u \o d /\ <<>> \in Seq(S)
  <2>1. z \in Seq(S)
    BY <1>8
  <2>2. z \o <<>> = z
    BY <2>1, ConcatEmptySeq
  <2> QED
    BY <1>5, <2>2
<1>10. After(z, Len(u)) \o <<>> = d
  <2>1. z \in Seq(S) /\ <<>> \in Seq(S) /\ u \in Seq(S) /\ d \in Seq(S) /\ Len(u) <= Len(z)
    BY <1>6, <1>8
  <2> QED
    BY <1>9, <2>1, TwoCuts
<1>11. After(z, Len(u)) \in Seq(S)
  BY <1>8, AfterIs
<1>12. After(z, Len(u)) = d
  BY <1>10, <1>11, ConcatEmptySeq
<1> QED
  BY <1>5, <1>12 DEF d, z

(* What is on its way begins where the parser reads on. *)
LEMMA InStepIs ==
  ASSUME SessionInv
  PROVE  InStep
<1> SUFFICES ASSUME ~Gone("connector"), ~Gone("endpoint")
             PROVE  OnTheWay = After(Wires(After(sent, Len(received))), TakenSoFar)
  BY DEF InStep, OnTheWay
<1>1. OnTheWay = Unread
  BY DEF SessionInv, Forward
<1> DEFINE r == Len(received)
           m == sent[r + 1]
           Z == Wires(After(sent, r))
           W == Wires(After(sent, r + 1))
<1>2. sent \in Seq(Readable) /\ r \in 0..Len(sent) /\ Len(sent) \in Nat /\ r \in Nat
  BY DEF SessionInv, Types, Received
<1> HIDE DEF r
<1>3. CASE pending["endpoint"] = NULL
  <2>1. After(sent, r) \in Seq(Readable)
    BY <1>2, AfterIs
  <2>2. Z \in Seq(Tokens)
    <3>1. <<>> \in Seq(Readable)
      OBVIOUS
    <3> QED
      BY <2>1, <3>1, WiresConcat
  <2> HIDE DEF Z
  <2>3. After(Z, 0) = Z
    BY <2>2, AfterNone
  <2>4. Unread = Z /\ TakenSoFar = 0
    BY <1>3 DEF Unread, TakenSoFar, Z, r
  <2> QED
    BY <1>1, <2>3, <2>4 DEF Z, r
<1>4. CASE pending["endpoint"] # NULL
  <2> DEFINE k == Len(pending["endpoint"].body)
             h == print_header(m)
             b == m.body
  <2>1. r < Len(sent) /\ k \in 0..Len(b) - 1
    BY <1>4 DEF SessionInv, Reading, r
  <2>2. r \in 0..Len(sent) - 1
    BY <1>2, <2>1
  <2>3. m \in Readable /\ Z = Wire(m) \o W /\ W \in Seq(Tokens)
    BY <1>2, <2>2, WiresNext
  <2>4. h \in Seq(Tokens) /\ b \in Seq(Tokens) /\ Wire(m) = h \o b
    BY <2>3, WireType
  <2>5. Unread = After(b, k) \o W /\ TakenSoFar = Len(h) + k
    BY <1>4 DEF Unread, TakenSoFar, r
  <2> HIDE DEF Z, W, k, h, b
  <2>6. Z = h \o (b \o W)
    <3>1. h \in Seq(Tokens) /\ b \in Seq(Tokens) /\ W \in Seq(Tokens)
      BY <2>3, <2>4
    <3>2. (h \o b) \o W = h \o (b \o W)
      BY <3>1, ConcatAssociative
    <3> QED
      BY <2>3, <2>4, <3>2
  <2>7. After(h \o (b \o W), Len(h) + k) = After(b, k) \o W
    <3>1. h \in Seq(Tokens) /\ b \in Seq(Tokens) /\ W \in Seq(Tokens) /\ k \in 0..Len(b)
      BY <2>1, <2>3, <2>4
    <3> QED
      BY <3>1, AfterHeader
  <2> QED
    BY <1>1, <2>5, <2>6, <2>7 DEF Z, r
<1> QED
  BY <1>3, <1>4

(***************************************************************************)
(* The variables of a session have their types, and neither direction of   *)
(* the connection holds more than its room.                                *)
(***************************************************************************)
THEOREM SessionTypeCorrect == Spec => []TypeOK
<1>1. SessionInv => TypeOK
  BY TypesAre
<1> QED
  BY <1>1, SessionInvariance, PTL

(***************************************************************************)
(* The handler receives what hms_connector_send_msg was called with:       *)
(* each message whole, in order, none twice, however the two loops of      *)
(* __send_all and the parser's reads cut the stream.                       *)
(***************************************************************************)
THEOREM DeliveryCorrect == Spec => []DeliveredAsSent
<1>1. SessionInv => DeliveredAsSent
  BY DeliveredIs
<1> QED
  BY <1>1, SessionInvariance, PTL

(***************************************************************************)
(* The parser and the sender are in step: while the connection is up,      *)
(* what is on its way is the rest of the messages from the very place      *)
(* where hms_msg_parse reads on.                                           *)
(***************************************************************************)
THEOREM InStepCorrect == Spec => []InStep
<1>1. SessionInv => InStep
  BY InStepIs
<1> QED
  BY <1>1, SessionInvariance, PTL

-----------------------------------------------------------------------------
(* Answers, waiting, and the result of a send *)

(* The answers are the first of those due to all that was sent. *)
LEMMA AnswersAreInOrder ==
  ASSUME SessionInv
  PROVE  AnswersInOrder
<1> DEFINE M == Messages \cap Readable
           r == Len(received)
           A == Answers(sent)
           R == RepliesDue
<1>1. sent \in Seq(M) /\ r \in 0..Len(sent) /\ r \in Nat
  BY DEF SessionInv, Types, Received
<1>2. /\ R \in Seq(ReplySet) /\ A \in Seq(ReplySet)
      /\ Len(R) <= Len(A) /\ \A i \in 1..Len(R) : A[i] = R[i]
  <2> HIDE DEF M, r
  <2>1. LET Q == Answers(SubSeq(sent, 1, r)) IN
        /\ Q \in Seq(ReplySet) /\ Answers(sent) \in Seq(ReplySet)
        /\ Len(Q) <= Len(Answers(sent)) /\ \A i \in 1..Len(Q) : Answers(sent)[i] = Q[i]
    BY <1>1, AnswersPrefix
  <2>2. R = Answers(SubSeq(sent, 1, r))
    BY DEF RepliesDue, r
  <2> QED
    BY <2>1, <2>2
<1>3. /\ Len(answers) <= Len(R) /\ \A i \in 1..Len(answers) : answers[i] = AsReceived(R[i])
      /\ answers \in Seq({AsReceived(reply) : reply \in ReplySet})
  BY DEF SessionInv, Types, Answered
<1>4. /\ Len(R) \in Nat /\ Len(A) \in Nat /\ Len(answers) \in Nat
      /\ DOMAIN answers = 1..Len(answers)
  BY <1>2, <1>3
<1> HIDE DEF R, A
<1>5. Len(answers) <= Len(A)
  BY <1>2, <1>3, <1>4
<1>6. ASSUME NEW i \in DOMAIN answers PROVE answers[i] = AsReceived(A[i])
  <2>1. i \in 1..Len(answers) /\ i \in 1..Len(R)
    BY <1>3, <1>4
  <2> QED
    BY <1>2, <1>3, <2>1
<1>7. ASSUME NEW i \in 1..Len(received) - 1
      PROVE  \/ IsOneOf(received[i], Invalid \cup Accepted)
             \/ received[i].verb # NULL /\ Reply(received[i]) # NULL
  BY DEF SessionInv, Serving, Ends
<1> QED
  BY <1>5, <1>6, <1>7 DEF AnswersInOrder, A

(* There is something to read of a message. *)
LEMMA WireSome ==
  ASSUME NEW m \in Readable, NEW rest \in Seq(Tokens)
  PROVE  Wire(m) \o rest # <<>>
<1>1. /\ TextOf(m) \in Seq(Tokens) /\ print_header(m) = TextOf(m) \o <<dot, newline>>
  BY Parts DEF Readable
<1>2. dot \in Tokens /\ newline \in Tokens
  BY TokensDiffer
<1>3. <<dot, newline>> \in Seq(Tokens) /\ Len(<<dot, newline>>) = 2
  BY <1>2
<1> DEFINE t == TextOf(m)
           e == <<dot, newline>>
           H == print_header(m)
           w == Wire(m)
<1>4. /\ t \in Seq(Tokens) /\ e \in Seq(Tokens) /\ H = t \o e /\ Len(e) = 2
  BY <1>1, <1>3
<1>5. H \in Seq(Tokens) /\ m.body \in Seq(Tokens) /\ w \in Seq(Tokens) /\ w = H \o m.body
  BY WireType
<1> HIDE DEF t, e, H, w
<1>6. Len(t \o e) = Len(t) + Len(e) /\ Len(t) \in Nat
  <2>1. t \in Seq(Tokens) /\ e \in Seq(Tokens)
    BY <1>4
  <2> QED
    BY <2>1, TwoParts
<1>7. Len(H \o m.body) = Len(H) + Len(m.body) /\ Len(m.body) \in Nat
  <2>1. H \in Seq(Tokens) /\ m.body \in Seq(Tokens)
    BY <1>5
  <2> QED
    BY <2>1, TwoParts
<1>8. Len(w \o rest) = Len(w) + Len(rest) /\ Len(rest) \in Nat
  <2>1. w \in Seq(Tokens) /\ rest \in Seq(Tokens)
    BY <1>5
  <2> QED
    BY <2>1, TwoParts
<1>9. Len(w \o rest) > 0
  <2> DEFINE lt == Len(t)
             lb == Len(m.body)
             lr == Len(rest)
             lw == Len(w \o rest)
  <2>1. Len(H) = lt + 2
    BY <1>4, <1>6
  <2>2. Len(w) = Len(H) + lb
    BY <1>5, <1>7
  <2>3. lw = ((lt + 2) + lb) + lr
    BY <1>8, <2>1, <2>2
  <2>4. lt \in Nat /\ lb \in Nat /\ lr \in Nat
    BY <1>6, <1>7, <1>8
  <2> HIDE DEF lt, lb, lr, lw
  <2>5. lw > 0
    BY <2>3, <2>4
  <2> QED
    BY <2>5 DEF lw
<1>10. Len(<<>>) = 0
  OBVIOUS
<1> QED
  BY <1>9, <1>10 DEF w

(* A header that has come is complete, or it is too long. *)
LEMMA HeaderComes ==
  ASSUME NEW p, NEW m \in Readable, NEW tail \in Seq(Tokens), stream[p] \in Seq(Tokens),
         stream[p] = print_header(m) \o tail
  PROVE  HeaderEnds(p) # {} \/ Len(stream[p]) >= max_hdr_len
<1> DEFINE e == <<>>
           H == print_header(m)
           s == stream[p]
           k == Len(print_header(m))
<1>1. s \o e = s /\ e \in Seq(Tokens)
  BY ConcatEmptySeq
<1>2. H \in Seq(Tokens)
  BY WireType
<1>3. Len(H \o tail) = Len(H) + Len(tail) /\ Len(H) \in Nat /\ Len(tail) \in Nat
  BY <1>2, TwoParts
<1> HIDE DEF e
<1>4. /\ m \in Readable /\ stream[p] \in Seq(Tokens) /\ e \in Seq(Tokens)
      /\ tail \in Seq(Tokens) /\ stream[p] \o e = print_header(m) \o tail
  BY <1>1
<1>5. /\ k \in Nat /\ k > 2
      /\ HeaderEnds(p) # {} =>
           /\ HeaderEnd(p) = k /\ k <= Len(stream[p])
           /\ Text(p) = {TextOf(m)} /\ WellFormed(p)
           /\ After(stream[p], k) \o e = tail
      /\ k <= Len(stream[p]) /\ k <= max_hdr_len => HeaderEnds(p) # {}
  BY <1>4, HeaderRead
<1>6. max_hdr_len \in Nat /\ Len(s) \in Nat /\ Len(s) = k + Len(tail)
  BY <1>3, BoundsAssumption
<1> HIDE DEF k, s
<1>7. k <= Len(s) /\ (k <= max_hdr_len \/ Len(s) >= max_hdr_len)
  BY <1>3, <1>5, <1>6
<1> QED
  BY <1>5, <1>7 DEF s

(* A client that waits for an answer has had all that are due so far. *)
LEMMA ConnectorWaits ==
  ASSUME SessionInv, pc["connector"] = "recv", Waits("connector"), out["endpoint"].header = <<>>
  PROVE  Len(answers) = Len(RepliesDue)
<1>1. /\ HeaderEnds("connector") = {} /\ ~(Len(stream["connector"]) >= max_hdr_len)
      /\ ~Gone("endpoint")
  BY PartiesAre DEF Waits, SessionInv, Reading, TooLong
<1> DEFINE c == stream["connector"]
           R == RepliesDue
           a == Len(answers)
           m == R[a + 1]
           W == Wires(After(R, a + 1))
<1>2. CASE c # <<>>
  <2>1. /\ m \in Readable /\ W \in Seq(Tokens) /\ c \in Seq(Tokens)
        /\ c \o <<>> = print_header(m) \o W
    BY <1>2, ConnectorReads
  <2>2. c = print_header(m) \o W
    BY <2>1, ConcatEmptySeq
  <2>3. m \in Readable /\ W \in Seq(Tokens) /\ stream["connector"] \in Seq(Tokens)
        /\ stream["connector"] = print_header(m) \o W
    BY <2>1, <2>2
  <2> HIDE DEF m, W
  <2>4. HeaderEnds("connector") # {} \/ Len(stream["connector"]) >= max_hdr_len
    BY <2>3, HeaderComes
  <2> QED
    BY <1>1, <2>4
<1>3. CASE c = <<>>
  <2>1. R \in Seq(Readable) /\ a \in Nat /\ a <= Len(R) /\ Len(R) \in Nat
    <3> DEFINE M == Messages \cap Readable
               r == Len(received)
    <3>1. sent \in Seq(M) /\ r \in 0..Len(sent) /\ a \in Nat /\ a <= Len(R)
      BY DEF SessionInv, Types, Received, Answered
    <3> HIDE DEF M, r
    <3>2. Answers(SubSeq(sent, 1, r)) \in Seq(ReplySet)
      BY <3>1, AnswersPrefix
    <3>3. ReplySet \subseteq Readable
      BY RepliesAre
    <3>4. R \in Seq(ReplySet)
      BY <3>2 DEF RepliesDue, r
    <3> QED
      BY <3>1, <3>3, <3>4
  <2>2. Wires(After(R, a)) = <<>>
    <3>1. c \o out["endpoint"].header = Wires(After(R, a))
      BY <1>1 DEF SessionInv, Backward, Gone
    <3>2. <<>> \o <<>> = <<>>
      OBVIOUS
    <3> QED
      BY <1>3, <3>1, <3>2
  <2> SUFFICES ASSUME a < Len(R) PROVE FALSE
    BY <2>1
  <2>3. a \in 0..Len(R) - 1
    BY <2>1
  <2> HIDE DEF R, a
  <2>4. m \in Readable /\ Wires(After(R, a)) = Wire(m) \o W /\ W \in Seq(Tokens)
    BY <2>1, <2>3, WiresNext
  <2> QED
    BY <2>2, <2>4, WireSome
<1> QED
  BY <1>2, <1>3

(* A handler that waits while nothing is being sent has received all. *)
LEMMA EndpointWaits ==
  ASSUME SessionInv, pc["endpoint"] = "recv", Waits("endpoint"), out["connector"] = Nothing
  PROVE  Len(received) = Len(sent)
<1> DEFINE s == stream["endpoint"]
           r == Len(received)
           m == sent[r + 1]
           W == Wires(After(sent, r + 1))
<1>1. ~Gone("connector") /\ ~Gone("endpoint")
  BY PartiesAre DEF Waits, Gone
<1>2. s \in Seq(Tokens) /\ OnTheWay = s /\ OnTheWay = Unread
  <2>1. s \in Seq(Tokens) /\ OnTheWay = (s \o <<>>) \o <<>>
    BY PartiesAre, NothingIs DEF SessionInv, Types, OnTheWay
  <2> HIDE DEF s
  <2>2. s \o <<>> = s
    BY <2>1, ConcatEmptySeq
  <2> QED
    BY <1>1, <2>1, <2>2 DEF SessionInv, Forward
<1>3. sent \in Seq(Readable) /\ r \in Nat /\ Len(sent) \in Nat /\ r <= Len(sent)
  BY DEF SessionInv, Types, Received
<1> SUFFICES ASSUME r < Len(sent) PROVE FALSE
  BY <1>3
<1>4. r \in 0..Len(sent) - 1
  BY <1>3
<1> HIDE DEF r
<1>5. /\ m \in Readable /\ Wires(After(sent, r)) = Wire(m) \o W /\ W \in Seq(Tokens)
  BY <1>3, <1>4, WiresNext
<1>6. m.body \in Seq(Tokens) /\ Len(m.body) \in Nat
  BY <1>5, WireType
<1>7. CASE pending["endpoint"] = NULL
  <2>1. s = Wire(m) \o W
    BY <1>2, <1>5, <1>7 DEF Unread, r
  <2>2. s # <<>>
    BY <1>5, <2>1, WireSome
  <2>3. /\ Wires(After(sent, r)) = print_header(m) \o (m.body \o W)
    BY <2>2, EndpointReads DEF r
  <2>4. s = print_header(m) \o (m.body \o W)
    BY <1>5, <2>1, <2>3
  <2> DEFINE tail == m.body \o W
  <2>5. tail \in Seq(Tokens)
    BY <1>5, <1>6, TwoParts
  <2> HIDE DEF tail, m
  <2>6. m \in Readable /\ tail \in Seq(Tokens) /\ stream["endpoint"] \in Seq(Tokens)
        /\ stream["endpoint"] = print_header(m) \o tail
    BY <1>2, <1>5, <2>4, <2>5 DEF tail
  <2>7. HeaderEnds("endpoint") # {} \/ Len(stream["endpoint"]) >= max_hdr_len
    BY <2>6, HeaderComes
  <2>8. HeaderEnds("endpoint") = {} /\ ~TooLong("endpoint")
    BY <1>7 DEF Waits
  <2> QED
    BY <1>7, <2>7, <2>8 DEF TooLong
<1>8. CASE pending["endpoint"] # NULL
  <2> DEFINE k == Len(pending["endpoint"].body)
             b == After(m.body, k)
  <2>1. s = <<>> /\ s = b \o W /\ k \in 0..Len(m.body) - 1
    BY <1>2, <1>8 DEF Waits, Unread, SessionInv, Reading, r
  <2> HIDE DEF m, k, s, W
  <2>2. k \in 0..Len(m.body) /\ Len(m.body) - k > 0
    BY <1>6, <2>1
  <2>3. b \in Seq(Tokens) /\ Len(b) = Len(m.body) - k
    BY <1>6, <2>2, AfterIs
  <2> HIDE DEF b
  <2>4. Len(b \o W) = Len(b) + Len(W) /\ Len(W) \in Nat
    <3>1. b \in Seq(Tokens) /\ W \in Seq(Tokens)
      BY <1>5, <2>3
    <3> QED
      BY <3>1, TwoParts
  <2>5. Len(b \o W) > 0
    BY <2>2, <2>3, <2>4
  <2>6. Len(<<>>) = 0
    OBVIOUS
  <2>7. b \o W = <<>>
    BY <2>1
  <2> QED
    BY <2>5, <2>6, <2>7
<1> QED
  BY <1>7, <1>8

(* If both wait, both have read everything, or both directions are full. *)
LEMMA WaitsAre ==
  ASSUME SessionInv
  PROVE  WaitsOnlyForClient
<1> SUFFICES ASSUME Waits("connector"), Waits("endpoint")
             PROVE  \/ pc["connector"] = "recv" /\ ~AnswerDue
                    \/ pc["connector"] = "send" /\ pc["endpoint"] = "send"
  BY DEF WaitsOnlyForClient
<1>1. /\ max_hdr_len \in Nat /\ max_hdr_len > 0 /\ Room \in Nat /\ Room >= max_hdr_len
      /\ stream["connector"] \in Seq(Tokens) /\ stream["endpoint"] \in Seq(Tokens)
      /\ pending["connector"] = NULL /\ Len(<<>>) = 0
  BY PartiesAre, BoundsAssumption DEF SessionInv, Types, Reading
<1>2. \A p \in Parties :
        \/ pc[p] = "send" /\ Len(stream[Peer(p)]) = Room
        \/ /\ pc[p] = "recv"
           /\ \/ pending[p] = NULL /\ Len(stream[p]) < max_hdr_len
              \/ pending[p] # NULL /\ stream[p] = <<>>
  <2> SUFFICES ASSUME NEW p \in Parties
               PROVE  \/ pc[p] = "send" /\ Len(stream[Peer(p)]) = Room
                      \/ /\ pc[p] = "recv"
                         /\ \/ pending[p] = NULL /\ Len(stream[p]) < max_hdr_len
                            \/ pending[p] # NULL /\ stream[p] = <<>>
    OBVIOUS
  <2>1. Waits(p) /\ Len(stream[p]) \in Nat
    BY <1>1, PartiesAre
  <2> QED
    BY <1>1, <2>1 DEF Waits, TooLong
<1>3. \/ pc["connector"] = "send" /\ Len(stream["endpoint"]) = Room
      \/ pc["connector"] = "recv" /\ Len(stream["connector"]) < max_hdr_len
  BY <1>1, <1>2, PartiesAre
<1>4. \/ pc["endpoint"] = "send" /\ Len(stream["connector"]) = Room
      \/ pc["endpoint"] = "recv" /\ Len(stream["endpoint"]) < max_hdr_len
  BY <1>1, <1>2, PartiesAre
<1>5. CASE pc["connector"] = "send"
  <2>1. Len(stream["endpoint"]) = Room
    BY <1>3, <1>5
  <2>2. pc["endpoint"] = "send"
    BY <1>1, <1>4, <2>1
  <2> QED
    BY <1>5, <2>2
<1>6. CASE pc["connector"] = "recv"
  <2>1. Len(stream["connector"]) < max_hdr_len
    BY <1>3, <1>6
  <2>2. pc["endpoint"] = "recv"
    BY <1>1, <1>4, <2>1
  <2>3. out["connector"] = Nothing /\ out["endpoint"] = Nothing
    BY <1>6, <2>2, PartiesAre DEF SessionInv, Sending
  <2>4. Len(answers) = Len(RepliesDue)
    BY <1>6, <2>3, ConnectorWaits, NothingIs
  <2>5. Len(received) = Len(sent)
    BY <2>2, <2>3, EndpointWaits
  <2>6. SubSeq(sent, 1, Len(sent)) = sent
    <3> DEFINE M == Messages \cap Readable
    <3>1. sent \in Seq(M)
      BY DEF SessionInv, Types
    <3> HIDE DEF M
    <3>2. 0 \in 0..Len(sent) /\ 0 \in 0..Len(sent) - 0
      BY <3>1
    <3> QED
      BY <3>1, <3>2, Pieces
  <2>7. ~AnswerDue
    <3>1. SubSeq(sent, 1, Len(received)) = sent
      BY <2>5, <2>6
    <3>2. Len(Answers(sent)) = Len(answers)
      BY <2>4, <3>1 DEF RepliesDue
    <3>3. Len(answers) \in Nat
      BY DEF SessionInv, Types
    <3> QED
      BY <3>2, <3>3 DEF AnswerDue
  <2> QED
    BY <1>6, <2>7
<1> QED
  BY <1>3, <1>5, <1>6

(* What hms_connector_send_msg returns. *)
LEMMA SendReturns ==
  ASSUME SessionInv, ConnectorSendReturn
  PROVE  LET msg == sent[Len(sent)] IN
         /\ result' = 0 => \/ IsSuffix(stream["endpoint"], Wire(msg))
                           \/ IsSuffix(Wire(msg), stream["endpoint"])
         /\ ~Gone("endpoint") => (result' = -1 <=> msg.body = <<>>)
<1> DEFINE msg == sent[Len(sent)]
           s == stream["endpoint"]
           w == Wire(msg)
<1>1. /\ pc["connector"] = "send"
      /\ out["connector"].header = <<>> /\ out["connector"].body = <<>>
      /\ result' = IF out["connector"].erred \/ msg.body = <<>> THEN -1 ELSE 0
  BY DEF ConnectorSendReturn, AllSent
<1>2. out["connector"].erred \in BOOLEAN /\ s \in Seq(Tokens)
  BY OnTheWayIs, PartiesAre DEF SessionInv
<1>3. ~Gone("endpoint") => ~out["connector"].erred
  BY PartiesAre DEF SessionInv, Sending
<1>4. ASSUME result' = 0
      PROVE  IsSuffix(s, w) \/ IsSuffix(w, s)
  <2>1. ~out["connector"].erred
    BY <1>1, <1>4
  <2>2. SameEnd(OnTheWay, w)
    BY <1>1, <2>1 DEF SessionInv, Whole
  <2>3. OnTheWay = s
    <3>1. OnTheWay = (s \o <<>>) \o <<>>
      BY <1>1 DEF OnTheWay
    <3> HIDE DEF s
    <3>2. s \o <<>> = s
      BY <1>2, ConcatEmptySeq
    <3> QED
      BY <3>1, <3>2
  <2>4. w \in Seq(Tokens)
    <3>1. sent \in Seq(Readable) /\ sent # <<>>
      BY <1>1 DEF SessionInv, Types, Sending
    <3>2. Len(sent) \in 1..Len(sent)
      BY <3>1
    <3>3. msg \in Readable
      BY <3>1, <3>2
    <3> QED
      BY <3>3, WireType
  <2> HIDE DEF s, w
  <2> QED
    BY <1>2, <2>2, <2>3, <2>4, SameEndSuffix
<1>5. ~Gone("endpoint") => (result' = -1 <=> msg.body = <<>>)
  BY <1>1, <1>3
<1> QED
  BY <1>4, <1>5

(* Only hms_connector_send_msg returns from its sending. *)
LEMMA OnlySendReturns ==
  ASSUME SessionInv, [Next]_vars, pc["connector"] = "send", pc'["connector"] = "idle"
  PROVE  ConnectorSendReturn
<1>1. pc \in [Parties -> States]
  BY DEF SessionInv, Types
<1>2. pc' # pc
  OBVIOUS
<1>3. ~UNCHANGED vars
  BY <1>2 DEF vars
<1>4. ~Connect /\ ~(\E ret \in {NULL, -1} : ConnectFails(ret)) /\ ~ConnectorRecvMsg
      /\ ~ConnectorDestroy /\ ~(\E msg \in Messages : ConnectorSendMsg(msg))
  BY DEF Connect, ConnectFails, ConnectorRecvMsg, ConnectorDestroy, ConnectorSendMsg
<1>5. ~Sigpipe
  BY <1>1, PartiesAre DEF Sigpipe
<1>6. ~(\E p \in Parties : Reset(p))
  BY <1>2 DEF Reset
<1>7. ASSUME NEW p \in Parties, NEW msg, EndpointDelivers(msg)
      PROVE  FALSE
  <2>1. pc'["connector"] = pc["connector"]
    BY <1>1, <1>7, PartiesAre DEF EndpointDelivers
  <2> QED
    BY <2>1
<1>8. ASSUME NEW p \in Parties, pc[p] = "recv"
      PROVE  p = "endpoint"
  BY <1>8, PartiesAre
<1>9. ASSUME NEW p \in Parties, Step(p)
      PROVE  FALSE
  <2>1. ~(\E n \in 1..Room : SendAll(p, n)) /\ ~SendAllFails(p)
    BY <1>2 DEF SendAll, SendAllFails
  <2>2. ASSUME NEW msg, p = "endpoint", Delivers(p, msg) PROVE FALSE
    BY <1>7, <2>2, PartiesAre DEF Delivers
  <2>3. ~RecvHeader(p)
    <3> SUFFICES ASSUME RecvHeader(p) PROVE FALSE
      OBVIOUS
    <3>1. p = "endpoint"
      BY <1>8 DEF RecvHeader
    <3>2. \E msg : Delivers(p, msg) \/ UNCHANGED pc
      BY DEF RecvHeader
    <3> QED
      BY <1>2, <2>2, <3>1, <3>2
  <2>4. ~RecvBody(p)
    <3> SUFFICES ASSUME RecvBody(p) PROVE FALSE
      OBVIOUS
    <3>1. p = "endpoint"
      BY <1>8 DEF RecvBody
    <3>2. \E msg : Delivers(p, msg) \/ UNCHANGED pc
      BY DEF RecvBody
    <3> QED
      BY <1>2, <2>2, <3>1, <3>2
  <2>5. ~RecvFails(p)
    <3> SUFFICES ASSUME RecvFails(p) PROVE FALSE
      OBVIOUS
    <3>1. p = "endpoint" /\ pc' = [pc EXCEPT ![p] = "closed"]
      BY <1>8, PartiesAre DEF RecvFails
    <3> QED
      BY <1>1, <3>1, PartiesAre
  <2> QED
    BY <1>9, <2>1, <2>3, <2>4, <2>5 DEF Step
<1>10. ~EndpointSendReturn
  BY <1>1, PartiesAre DEF EndpointSendReturn
<1> QED
  BY <1>3, <1>4, <1>5, <1>6, <1>9, <1>10, PartiesAre DEF Next, ConnectorStep, EndpointStep

(***************************************************************************)
(* The n-th answer hms_connector_recv_msg returns is the answer to the     *)
(* n-th message that has one, and the handler stops at a message           *)
(* _hms_default_handle does not know.                                      *)
(***************************************************************************)
THEOREM AnswersCorrect == Spec => []AnswersInOrder
<1>1. SessionInv => AnswersInOrder
  BY AnswersAreInOrder
<1> QED
  BY <1>1, SessionInvariance, PTL

(***************************************************************************)
(* Client and handler wait for each other only when the client waits for   *)
(* an answer that is not due, or when both __send_all find both            *)
(* directions full.                                                        *)
(***************************************************************************)
THEOREM WaitsCorrect == Spec => []WaitsOnlyForClient
<1>1. SessionInv => WaitsOnlyForClient
  BY WaitsAre
<1> QED
  BY <1>1, SessionInvariance, PTL

(***************************************************************************)
(* hms_connector_send_msg returns 0 only if the message is in the stream   *)
(* without a gap; while the handler is there it returns -1 for the         *)
(* messages without a body and for no other.                               *)
(***************************************************************************)
THEOREM SendResultCorrect == Spec => SendResult
<1>1. SessionInv /\ [Next]_vars =>
        [pc["connector"] = "send" /\ pc'["connector"] = "idle" =>
           LET msg == sent[Len(sent)] IN
           /\ result' = 0 => \/ IsSuffix(stream["endpoint"], Wire(msg))
                             \/ IsSuffix(Wire(msg), stream["endpoint"])
           /\ ~Gone("endpoint") => (result' = -1 <=> msg.body = <<>>)]_vars
  BY OnlySendReturns, SendReturns
<1> QED
  BY <1>1, SessionInvariance, PTL DEF Spec, SendResult
===========================================================================
