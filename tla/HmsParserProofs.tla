--------------------------- MODULE HmsParserProofs ---------------------------
(***************************************************************************)
(* Theorems about HmsParser, for a header buffer of any size and a peer    *)
(* that sends any tokens, in pieces of any size.                           *)
(***************************************************************************)
EXTENDS HmsParser, SeqLemmas, FiniteSetTheorems

Messages == [verb : Seq(Tokens) \cup {NULL}, num_headers : Nat,
             content_length : Lengths \cup {NULL}, content_len : Nat]

(* After n tokens, the last that is not a space is the period at i. *)
PeriodLast(i, n) ==
  /\ i \in 1..n
  /\ buffer[i] = dot
  /\ \A j \in i + 1..n : buffer[j] = space

(* What dot_seen and dot_ptr remember of the header read so far. *)
DotMarks ==
  /\ pc = "header" /\ dot_seen => PeriodLast(dot_ptr, Len(buffer))
  /\ pc = "header" /\ ~dot_seen => \A i \in 1..Len(buffer) : ~PeriodLast(i, Len(buffer))
  /\ pc \in {"parse", "read_body", "ok"} =>
       /\ Len(buffer) > 0
       /\ buffer[Len(buffer)] = newline
       /\ PeriodLast(dot_ptr, Len(buffer) - 1)

(* Nothing is read after the newline that ends the header. *)
EndsOnce == \A n \in DOMAIN buffer : Terminated(buffer, n) => n = Len(buffer) /\ pc # "header"

(* How much of the message is there in each phase. *)
BodyWay ==
  /\ pc \in {"header", "parse"} => msg = NULL /\ body_len = 0 /\ read_in = 0
  /\ pc = "read_body" =>
       /\ msg \in Messages
       /\ (body_len < 0 /\ read_in = 0) \/ read_in < body_len
  /\ pc = "ok" =>
       /\ msg \in Messages
       /\ read_in = body_len
       /\ msg.content_len = body_len
       /\ msg.content_length = (IF body_len = 0 THEN NULL ELSE body_len)
  /\ pc = "aborted" => body_len = -1
  /\ pc = "failed" => msg = NULL
  /\ read_in # 0 => read_in <= body_len

(* The inductive invariant. *)
ParserInv == TypeOK /\ DotMarks /\ EndsOnce /\ BodyWay

-----------------------------------------------------------------------------
(* The text of a header *)

(* The tokens that the parser tells apart are tokens, and differ. *)
LEMMA TokensDiffer ==
  /\ dot \in Tokens /\ space \in Tokens /\ newline \in Tokens
  /\ dot # space /\ dot # newline /\ space # newline
BY DEF Tokens, Token, dot, space, newline

(* A token that reads "Content-Length:n" has one of the lengths. *)
LEMMA LengthToken ==
  ASSUME NEW k \in Tokens, k.text = "Content-Length:n"
  PROVE  k.n \in Lengths
<1>0. \A x : Token(x).text = x
  BY DEF Token
<1>1. CASE k \in {dot, newline, space, return, keyval}
  <2>1. k.text \in {".", "\n", " ", "\r", "key:val"}
    BY <1>0, <1>1, Zenon DEF dot, newline, space, return, keyval
  <2> QED
    BY <2>1, Zenon
<1>2. CASE k \in {Token(w) : w \in WordTexts}
  <2>1. k.text \in WordTexts
    BY <1>0, <1>2, Zenon
  <2> QED
    BY <2>1, WordsAssumption DEF WordsAssumption
<1>3. CASE k \in {Length(n) : n \in Lengths}
  BY <1>3 DEF Length
<1> QED
  BY <1>1, <1>2, <1>3 DEF Tokens

(* The places of lines and words are places of the text. *)
LEMMA PlacesInText ==
  ASSUME NEW t \in Seq(Tokens)
  PROVE  /\ LengthLines(t) \subseteq 1..Len(t)
         /\ VerbWords(t) \subseteq 1..Len(t)
         /\ \A i : Words(t, i) \subseteq 1..Len(t)
<1>1. DOMAIN t = 1..Len(t)
  OBVIOUS
<1>2. \A i : Words(t, i) \subseteq 1..Len(t)
  BY <1>1 DEF Words, Line
<1>3. LengthLines(t) \subseteq 1..Len(t)
  BY <1>1 DEF LengthLines, NamedLines, Lines
<1> QED
  BY <1>2, <1>3 DEF VerbWords

(* A word is a text. *)
LEMMA WordType ==
  ASSUME NEW t \in Seq(Tokens), NEW j \in VerbWords(t)
  PROVE  WordAt(t, j) \in Seq(Tokens)
<1> DEFINE W == {k \in DOMAIN t : k >= j /\ \A l \in j..k : t[l] \notin {space, newline}}
<1>1. j \in 1..Len(t) /\ DOMAIN t = 1..Len(t) /\ Len(t) \in Nat
  BY PlacesInText
<1>2. t[j] # space /\ t[j] # newline
  <2>1. PICK i \in Lines(t) : j \in Words(t, i)
    BY DEF VerbWords, NamedLines
  <2>2. i \in Nat /\ j >= i /\ \A k \in i..j : t[k] # newline
    BY <1>1, <2>1 DEF Words, Line, Lines
  <2> QED
    BY <1>1, <2>1, <2>2 DEF Words
<1>3. j \in W
  BY <1>1, <1>2
<1>4. W \in SUBSET (0..Len(t))
  BY <1>1
<1>5. Max(W) \in W
  BY <1>1, <1>3, <1>4, GreatestElement
<1>6. Max(W) \in 1..Len(t) /\ Max(W) >= j
  BY <1>1, <1>5
<1>7. WordAt(t, j) = SubSeq(t, j, Max(W))
  BY DEF WordAt
<1> HIDE DEF W
<1> QED
  BY <1>1, <1>6, <1>7

(* The verb and the number of un-named headers have their types. *)
LEMMA VerbLineType ==
  ASSUME NEW t \in Seq(Tokens)
  PROVE  /\ ParsedVerb(t) \in Seq(Tokens) \cup {NULL}
         /\ Cardinality(HeaderWords(t)) \in Nat
<1>1. VerbWords(t) \in SUBSET Nat /\ \A j \in VerbWords(t) : j <= Len(t)
  BY PlacesInText
<1>2. ParsedVerb(t) \in Seq(Tokens) \cup {NULL}
  BY <1>1, LeastElement, WordType DEF ParsedVerb
<1>3. HeaderWords(t) \in SUBSET Nat /\ \A j \in HeaderWords(t) : j <= Len(t)
  BY <1>1 DEF HeaderWords
<1>4. IsFiniteSet(HeaderWords(t))
  BY <1>3, FS_BoundedSetOfNaturals
<1> QED
  BY <1>2, <1>4, FS_CardinalityType

(* The last line with Content-Length decides, and says a length that is    *)
(* not 0 if the header parses.                                             *)
LEMMA LengthParsed ==
  ASSUME NEW t \in Seq(Tokens), HeaderParses(t)
  PROVE  \/ ParsedLength(t, NULL) = NULL /\ ParsedLength(t, 0) = 0
         \/ /\ ParsedLength(t, NULL) = ParsedLength(t, 0)
            /\ ParsedLength(t, 0) \in Lengths
            /\ ParsedLength(t, 0) # 0
<1>1. CASE LengthLines(t) = {}
  BY <1>1 DEF ParsedLength
<1>2. CASE LengthLines(t) # {}
  <2> DEFINE i == Max(LengthLines(t))
  <2>1. LengthLines(t) \in SUBSET (0..Len(t)) /\ Len(t) \in Nat
    BY PlacesInText
  <2>2. i \in LengthLines(t)
    BY <1>2, <2>1, GreatestElement
  <2> HIDE DEF i
  <2>3. i \in NamedLines(t) /\ IsLength(t, i)
    BY <2>2 DEF LengthLines
  <2>4. LengthOf(t, i) # 0
    BY <2>3 DEF HeaderParses, ParsesNamedHeader
  <2>5. PICK j \in Words(t, i) : j = Min(Words(t, i)) /\ t[j].text = "Content-Length:n"
    BY <2>3 DEF IsLength
  <2>6. t[j] \in Tokens
    BY <2>5, PlacesInText
  <2>7. LengthOf(t, i) \in Lengths
    BY <2>5, <2>6, LengthToken DEF LengthOf
  <2> QED
    BY <1>2, <2>4, <2>7 DEF ParsedLength, i
<1> QED
  BY <1>1, <1>2

-----------------------------------------------------------------------------
(* The initial state satisfies the invariant. *)
LEMMA ParserInitInv == Init => ParserInv
<1> SUFFICES ASSUME Init PROVE ParserInv
  OBVIOUS
<1>1. buffer = <<>> /\ buffer \in Seq(Tokens) /\ Len(buffer) = 0 /\ DOMAIN buffer = 1..0
  BY DEF Init
<1>2. pc = "header" /\ msg = NULL /\ body_len = 0 /\ read_in = 0 /\ dot_ptr = NULL
  BY DEF Init
<1>3. eof \in BOOLEAN /\ dot_seen \in BOOLEAN /\ ~dot_seen
  BY Zenon DEF Init
<1>4. TypeOK
  BY <1>1, <1>2, <1>3, HeaderAssumption DEF HeaderAssumption, TypeOK
<1>5. DotMarks /\ EndsOnce
  BY <1>1, <1>2, <1>3 DEF DotMarks, EndsOnce
<1>6. BodyWay
  BY <1>2 DEF BodyWay
<1> QED
  BY <1>4, <1>5, <1>6 DEF ParserInv

(* A token is read into the buffer. *)
LEMMA ReadHeaderInv ==
  ASSUME ParserInv, NEW read \in Input, ReadHeader(read)
  PROVE  ParserInv'
<1> USE DEF ParserInv
<1>c. PICK c : c = IF read = return THEN space ELSE read
  OBVIOUS
<1>len. PICK len \in Nat : len = Len(buffer)
  BY DEF TypeOK
<1>1. c \in Tokens /\ len \in Nat /\ buffer \in Seq(Tokens) /\ DOMAIN buffer = 1..len
  BY <1>c, <1>len, InputAssumption, TokensDiffer DEF InputAssumption, TypeOK
<1>2. /\ pc = "header" /\ len < max_hdr_len
      /\ buffer' = Append(buffer, c)
      /\ dot_seen' = DotStillSeen(c)
      /\ pc' = IF dot_seen /\ c = newline THEN "parse" ELSE "header"
      /\ UNCHANGED <<eof, msg, body_len, read_in>>
  BY <1>c, <1>len DEF ReadHeader, room
<1>3. /\ c = dot => dot_ptr' = len + 1
      /\ c # dot /\ DotStillSeen(c) => dot_ptr' = dot_ptr
      /\ c # dot /\ ~DotStillSeen(c) => dot_ptr' = NULL
  BY <1>c, <1>len DEF ReadHeader
<1>4. dot_seen \in BOOLEAN /\ dot_seen' \in BOOLEAN
  BY <1>2 DEF DotStillSeen, TypeOK
<1>5. /\ buffer' \in Seq(Tokens) /\ Len(buffer') = len + 1 /\ DOMAIN buffer' = 1..len + 1
      /\ \A i \in 1..len : buffer'[i] = buffer[i]
      /\ buffer'[len + 1] = c
  BY <1>1, <1>2, <1>len
<1>6. dot_ptr' \in DOMAIN buffer' \cup {NULL}
  BY <1>1, <1>3, <1>5 DEF TypeOK
<1>7. TypeOK'
  BY <1>1, <1>2, <1>4, <1>5, <1>6, HeaderAssumption DEF HeaderAssumption, TypeOK
<1>8. BodyWay'
  BY <1>2 DEF BodyWay
<1>9. \A i \in 1..len, n \in 1..len : PeriodLast(i, n)' <=> PeriodLast(i, n)
  BY <1>1, <1>5 DEF PeriodLast
<1>10. DotMarks'
  <2>1. CASE c = dot
    <3>1. dot_seen' /\ dot_ptr' = len + 1 /\ pc' = "header"
      BY <1>2, <1>3, <2>1, TokensDiffer DEF DotStillSeen
    <3>2. PeriodLast(dot_ptr, Len(buffer))'
      BY <1>1, <1>5, <2>1, <3>1 DEF PeriodLast
    <3> QED
      BY <3>1, <3>2 DEF DotMarks
  <2>2. CASE dot_seen /\ c = space
    <3>1. dot_seen' /\ dot_ptr' = dot_ptr /\ pc' = "header"
      BY <1>2, <1>3, <2>2, TokensDiffer DEF DotStillSeen
    <3>2. PeriodLast(dot_ptr, len)
      BY <1>2, <2>2, <1>len DEF DotMarks
    <3>3. PeriodLast(dot_ptr, Len(buffer))'
      BY <1>1, <1>5, <2>2, <3>1, <3>2 DEF PeriodLast
    <3> QED
      BY <3>1, <3>3 DEF DotMarks
  <2>3. CASE dot_seen /\ c = newline
    <3>1. dot_ptr' = dot_ptr /\ pc' = "parse"
      BY <1>2, <1>3, <2>3, TokensDiffer DEF DotStillSeen
    <3>2. PeriodLast(dot_ptr, len)
      BY <1>2, <2>3, <1>len DEF DotMarks
    <3>3. PeriodLast(dot_ptr, Len(buffer) - 1)'
      BY <1>1, <1>5, <3>1, <3>2 DEF PeriodLast
    <3> QED
      BY <1>1, <1>5, <2>3, <3>1, <3>3 DEF DotMarks
  <2>4. CASE c # dot /\ ~(dot_seen /\ c \in {space, newline})
    <3>1. ~dot_seen' /\ pc' = "header"
      BY <1>2, <2>4 DEF DotStillSeen
    <3>2. ASSUME NEW i \in 1..len + 1, PeriodLast(i, len + 1)' PROVE FALSE
      <4>1. i # len + 1
        BY <1>5, <2>4, <3>2 DEF PeriodLast
      <4>2. i \in 1..len /\ c = space
        BY <1>1, <1>5, <3>2, <4>1 DEF PeriodLast
      <4>3. PeriodLast(i, len)
        BY <1>1, <1>5, <3>2, <4>2 DEF PeriodLast
      <4> QED
        BY <1>2, <2>4, <4>2, <4>3, <1>len DEF DotMarks
    <3> QED
      BY <1>5, <3>1, <3>2 DEF DotMarks
  <2> QED
    BY <2>1, <2>2, <2>3, <2>4
<1>11. EndsOnce'
  <2> SUFFICES ASSUME NEW n \in 1..len + 1, Terminated(buffer, n)'
               PROVE  n = len + 1 /\ pc' # "header"
    BY <1>5 DEF EndsOnce
  <2>1. PICK i \in 1..n - 1 : buffer'[i] = dot /\ \A j \in i + 1..n - 1 : buffer'[j] = space
    BY DEF Terminated
  <2>2. buffer'[n] = newline
    BY DEF Terminated
  <2>3. n = len + 1
    <3> SUFFICES ASSUME n \in 1..len PROVE FALSE
      BY <1>1
    <3>1. Terminated(buffer, n)
      BY <1>1, <1>5, <2>1, <2>2 DEF Terminated
    <3> QED
      BY <1>1, <1>2, <3>1 DEF EndsOnce
  <2>4. PeriodLast(i, len)
    BY <1>1, <1>5, <2>1, <2>3 DEF PeriodLast
  <2>5. dot_seen
    BY <1>1, <1>2, <1>4, <2>1, <2>3, <2>4, <1>len DEF DotMarks
  <2> QED
    BY <1>2, <1>5, <2>2, <2>3, <2>5
<1> QED
  BY <1>7, <1>8, <1>10, <1>11

(* The buffer is parsed. *)
LEMMA ParseHeaderInv ==
  ASSUME ParserInv, ParseHeader
  PROVE  ParserInv'
<1> USE DEF ParserInv, headerVars
<1>1. /\ pc = "parse" /\ HeaderParses(text)
      /\ msg' = [EmptyMsg EXCEPT !.verb = ParsedVerb(text),
                                 !.num_headers = Cardinality(HeaderWords(text)),
                                 !.content_length = ParsedLength(text, NULL)]
      /\ body_len' = ParsedLength(text, 0)
      /\ pc' = IF body_len' = 0 THEN "ok" ELSE "read_body"
      /\ UNCHANGED <<eof, headerVars, read_in>>
  BY DEF ParseHeader
<1>2. text \in Seq(Tokens)
  <2>1. dot_ptr \in 1..Len(buffer) - 1 /\ Len(buffer) \in Nat /\ buffer \in Seq(Tokens)
    BY <1>1 DEF DotMarks, PeriodLast, TypeOK
  <2> QED
    BY <2>1 DEF text
<1> HIDE DEF text
<1>3. /\ ParsedVerb(text) \in Seq(Tokens) \cup {NULL}
      /\ Cardinality(HeaderWords(text)) \in Nat
  BY <1>2, VerbLineType
<1>4. \/ ParsedLength(text, NULL) = NULL /\ ParsedLength(text, 0) = 0
      \/ /\ ParsedLength(text, NULL) = ParsedLength(text, 0)
         /\ ParsedLength(text, 0) \in Lengths
         /\ ParsedLength(text, 0) # 0
  BY <1>1, <1>2, LengthParsed
<1>5. /\ msg' \in Messages
      /\ msg'.content_len = 0
      /\ msg'.content_length = (IF body_len' = 0 THEN NULL ELSE body_len')
  BY <1>1, <1>3, <1>4 DEF EmptyMsg, Messages
<1>6. body_len' \in Lengths \cup {0} /\ body_len' \in Int
  BY <1>1, <1>4, LengthsAssumption DEF LengthsAssumption
<1>7. TypeOK'
  BY <1>1, <1>5, <1>6 DEF TypeOK, Messages
<1>8. DotMarks' /\ EndsOnce'
  BY <1>1 DEF DotMarks, EndsOnce, PeriodLast
<1>9. BodyWay'
  BY <1>1, <1>5, <1>6 DEF BodyWay
<1> QED
  BY <1>7, <1>8, <1>9

(* A piece of the body is read; no more than the body is asked for. *)
LEMMA ReadBodyInv ==
  ASSUME ParserInv, NEW sz \in 1..body_len, ReadBody(sz)
  PROVE  ParserInv'
<1> USE DEF ParserInv, headerVars
<1>1. body_len \in Int /\ read_in \in Nat /\ read_in < body_len /\ body_len \in Lengths
  BY LengthsAssumption DEF LengthsAssumption, ReadBody, TypeOK
<1>2. read_in' = read_in + sz /\ read_in' <= body_len /\ pc = "read_body"
  BY <1>1 DEF ReadBody, Wanted
<1>3. \/ read_in' < body_len /\ pc' = "read_body"
      \/ read_in' = body_len /\ pc' = "ok"
  BY <1>1, <1>2 DEF ReadBody
<1>4. /\ msg' = IF pc' = "ok" THEN [msg EXCEPT !.content_len = body_len, !.content_length = body_len]
                              ELSE msg
      /\ UNCHANGED <<eof, headerVars, body_len>>
  BY DEF ReadBody
<1>5. msg \in Messages
  BY <1>2 DEF BodyWay
<1>6. /\ msg' \in Messages
      /\ pc' = "ok" => msg'.content_len = body_len /\ msg'.content_length = body_len
  <2>1. CASE pc' = "ok"
    <3>1. msg' = [msg EXCEPT !.content_len = body_len, !.content_length = body_len]
      BY <1>4, <2>1
    <3>2. body_len \in Nat
      BY <1>1
    <3> QED
      BY <1>1, <1>5, <3>1, <3>2 DEF Messages
  <2>2. CASE pc' # "ok"
    BY <1>4, <1>5, <2>2
  <2> QED
    BY <2>1, <2>2
<1>7. TypeOK'
  BY <1>1, <1>2, <1>3, <1>4, <1>6 DEF TypeOK, Messages
<1>8. DotMarks' /\ EndsOnce'
  BY <1>2, <1>3, <1>4 DEF DotMarks, EndsOnce, PeriodLast
<1>9. BodyWay'
  BY <1>1, <1>2, <1>3, <1>4, <1>6 DEF BodyWay
<1> QED
  BY <1>7, <1>8, <1>9

(* Every step preserves the invariant. *)
LEMMA ParserNextInv ==
  ASSUME ParserInv, [Next]_vars
  PROVE  ParserInv'
<1> USE DEF ParserInv, headerVars
<1>1. CASE HeaderFails \/ ParseHeaderFails \/ BodyFails \/ NegativeBody
  <2>1. /\ pc' \in {"failed", "aborted"}
        /\ pc' = "aborted" => body_len = -1
        /\ pc' = "failed" => msg' = NULL
        /\ msg' \in {msg, NULL}
        /\ UNCHANGED <<eof, headerVars, body_len, read_in>>
    BY <1>1 DEF HeaderFails, ParseHeaderFails, BodyFails, NegativeBody, BodyWay
  <2>2. TypeOK' /\ BodyWay'
    BY <2>1 DEF TypeOK, BodyWay
  <2>3. DotMarks' /\ EndsOnce'
    BY <2>1 DEF DotMarks, EndsOnce
  <2> QED
    BY <2>2, <2>3
<1>2. CASE PeerCloses
  BY <1>2 DEF PeerCloses, TypeOK, DotMarks, EndsOnce, PeriodLast, BodyWay
<1>3. CASE UNCHANGED vars
  BY <1>3 DEF vars, TypeOK, DotMarks, EndsOnce, PeriodLast, BodyWay
<1> QED
  BY <1>1, <1>2, <1>3, ReadHeaderInv, ParseHeaderInv, ReadBodyInv DEF Next, Parser, Ended

(* The invariant holds in every state of the parser. *)
THEOREM ParserInvariance == Spec => []ParserInv
<1>1. ParserInv /\ [Next]_vars => ParserInv'
  BY ParserNextInv
<1> QED
  BY <1>1, ParserInitInv, PTL DEF Spec

(* The variables keep their types: the header never overruns its buffer.   *)
THEOREM ParserTypeCorrect == Spec => []TypeOK
<1>1. ParserInv => TypeOK
  BY DEF ParserInv
<1> QED
  BY <1>1, ParserInvariance, PTL

(***************************************************************************)
(* The loop of __hms_parse_read_header stops at the first newline after a  *)
(* period and spaces, and marks that period, in whatever the peer sends.   *)
(***************************************************************************)
THEOREM FramingCorrect == Spec => []HeaderFramed
<1>1. ASSUME ParserInv PROVE HeaderFramed
  <2> USE <1>1 DEF ParserInv
  <2>1. ASSUME pc \in {"parse", "read_body", "ok"}
        PROVE  /\ buffer # <<>> /\ Terminated(buffer, Len(buffer))
               /\ dot_ptr # NULL /\ buffer[dot_ptr] = dot
               /\ \A j \in dot_ptr + 1..Len(buffer) - 1 : buffer[j] = space
    <3>1. /\ Len(buffer) > 0 /\ Len(buffer) \in Nat
          /\ buffer[Len(buffer)] = newline
          /\ PeriodLast(dot_ptr, Len(buffer) - 1)
      BY <2>1 DEF DotMarks, TypeOK
    <3>2. buffer # <<>>
      BY <3>1
    <3>3. dot_ptr \in Int /\ dot_ptr # NULL
      BY <3>1, LengthsAssumption DEF LengthsAssumption, PeriodLast
    <3> QED
      BY <3>1, <3>2, <3>3 DEF PeriodLast, Terminated
  <2> QED
    BY <2>1 DEF EndsOnce, HeaderFramed
<1>2. ParserInv => HeaderFramed
  BY <1>1
<1> QED
  BY <1>2, ParserInvariance, PTL

(***************************************************************************)
(* However the body is cut into pieces and whatever becomes of the call,   *)
(* the parser takes no byte of the next message; a delivered message has   *)
(* taken as many as its body has, and a failed call leaves no message.     *)
(***************************************************************************)
THEOREM BodyCountCorrect == Spec => []BodyExact
<1>1. ParserInv => BodyExact
  BY DEF ParserInv, BodyWay, BodyExact
<1> QED
  BY <1>1, ParserInvariance, PTL

(***************************************************************************)
(* A delivered message has Content-Length if and only if it has a body,    *)
(* with its length, whatever lines the header had.                         *)
(***************************************************************************)
THEOREM DeliveredLengthCorrect == Spec => []DeliveredLengthAgrees
<1>1. ParserInv => DeliveredLengthAgrees
  BY DEF ParserInv, BodyWay, DeliveredLengthAgrees
<1> QED
  BY <1>1, ParserInvariance, PTL
=============================================================================
