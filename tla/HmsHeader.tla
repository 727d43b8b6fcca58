------------------------------ MODULE HmsHeader ------------------------------
(***************************************************************************)
(* The text of a message's header: what hms_msg_print_header of hms_msg.c  *)
(* writes, where hms_parser.c sees its end, and what it makes of it.       *)
(*                                                                         *)
(* A text is a sequence of tokens: the characters that the parser tells    *)
(* apart, other words, and the texts "Content-Length:n", of which only the *)
(* number n matters.  Tokens that follow each other make one longer word.  *)
(***************************************************************************)
EXTENDS Integers, Sequences, SequencesExt

CONSTANTS
  Lengths,        \* the numbers n of the texts "Content-Length:n"
  WordTexts,      \* words that are told apart
  NULL

ASSUME LengthsAssumption == Lengths \subseteq Int /\ NULL \notin Int
ASSUME WordsAssumption ==
  WordTexts \cap {".", "\n", " ", "\r", "key:val", "Content-Length:n"} = {}

(* "key:val" stands for words with a colon between them. *)
Token(t) == [text |-> t, n |-> 0]
dot == Token(".")
newline == Token("\n")
space == Token(" ")
return == Token("\r")
keyval == Token("key:val")
Length(n) == [text |-> "Content-Length:n", n |-> n]
Tokens ==
  {dot, newline, space, return, keyval}
    \cup {Token(w) : w \in WordTexts} \cup {Length(n) : n \in Lengths}

-----------------------------------------------------------------------------
(* hms_msg_print_header.  A named header is the text of its key, a colon   *)
(* and its value.                                                          *)

(* mutant: a line without its newline *)
PrintNamedUnended(hdr) == hdr

PrintNamed(hdr) == Append(hdr, newline)

print_header(msg) ==
  msg.verb
    \o FlattenSeq([i \in DOMAIN msg.headers |-> <<space>> \o msg.headers[i]])
    \o <<newline>>
    \o FlattenSeq([i \in DOMAIN msg.named_headers |-> PrintNamed(msg.named_headers[i])])
    \o <<dot, newline>>

-----------------------------------------------------------------------------
(* __hms_parse_read_header: where the header ends *)

(* The first n tokens end with a period, spaces and a newline. *)
Terminated(s, n) ==
  /\ s[n] = newline
  /\ \E i \in 1..n - 1 : s[i] = dot /\ \A j \in i + 1..n - 1 : s[j] = space

-----------------------------------------------------------------------------
(* __hms_parse_header: strtok_r makes lines of the text *)

(* Where the lines begin, empty ones not counted, and the places of a line. *)
Lines(text) == {i \in DOMAIN text : text[i] # newline /\ (i > 1 => text[i - 1] = newline)}
Line(text, i) == {j \in DOMAIN text : j >= i /\ \A k \in i..j : text[k] # newline}

(* Where the words of a line begin, and the word that begins there. *)
Words(text, i) == {j \in Line(text, i) : text[j] # space /\ (j > i => text[j - 1] = space)}
WordAt(text, j) ==
  SubSeq(text, j, Max({k \in DOMAIN text : k >= j /\ \A l \in j..k : text[l] \notin {space, newline}}))

(* The first line has the verb and un-named headers, the others named ones. *)
NamedLines(text) == {i \in Lines(text) : i # Min(Lines(text))}
VerbWords(text) == UNION {Words(text, i) : i \in Lines(text) \ NamedLines(text)}

HasColon(text, i) == \E j \in Line(text, i) : text[j].text \in {"key:val", "Content-Length:n"}

(* The line's key, stripped, is Content-Length; LengthOf is its value. *)
IsLength(text, i) ==
  \E j \in Words(text, i) : j = Min(Words(text, i)) /\ text[j].text = "Content-Length:n"
LengthOf(text, i) == text[Min(Words(text, i))].n

ParsesLengthZero(text, i) == HasColon(text, i)      \* mutant: a length of 0 is taken

(* __hms_parse_named_header *)
ParsesNamedHeader(text, i) == HasColon(text, i) /\ ~(IsLength(text, i) /\ LengthOf(text, i) = 0)

HeaderParses(text) ==
  /\ Lines(text) # {} => VerbWords(text) # {}
  /\ \A i \in NamedLines(text) : ParsesNamedHeader(text, i)

(* Each line with Content-Length replaces what an earlier one said. *)
LengthLines(text) == {i \in NamedLines(text) : IsLength(text, i)}
ParsedLength(text, absent) ==
  IF LengthLines(text) = {} THEN absent ELSE LengthOf(text, Max(LengthLines(text)))

(* A header of empty lines gives a message without a verb. *)
ParsedVerb(text) ==
  IF VerbWords(text) = {} THEN NULL ELSE WordAt(text, Min(VerbWords(text)))

(* The numbers of S in ascending order. *)
Ascending(S) ==
  [k \in 1..Cardinality(S) |-> CHOOSE i \in S : Cardinality({j \in S : j < i}) = k - 1]

(* Each word after the verb is an un-named header. *)
HeaderWords(text) == {j \in VerbWords(text) : j # Min(VerbWords(text))}

ParsedHeaders(text) ==
  LET place == Ascending(HeaderWords(text))
  IN  [k \in DOMAIN place |-> WordAt(text, place[k])]

(* __hms_str_strip takes the white space off both ends of a named header. *)
StrippedLine(text, i) ==
  SubSeq(text, Min(Words(text, i)), Max({j \in Line(text, i) : text[j] # space}))

(* Of several Content-Length lines the last is kept.  Other names are not  *)
(* told apart: hms_msg_add_named_header would keep the last of each, which *)
(* are all where no name occurs twice, as in messages built with the API.  *)
ParsedNamedHeaders(text) ==
  LET kept == {i \in NamedLines(text) : IsLength(text, i) => i = Max(LengthLines(text))}
      place == Ascending(kept)
  IN  [k \in DOMAIN place |-> StrippedLine(text, place[k])]

-----------------------------------------------------------------------------
(* The messages whose header is read back as it was written *)

(* A verb or an un-named header that is read back as it was written. *)
IsWord(s) ==
  /\ s \in Seq(Tokens) /\ s # <<>>
  /\ \A i \in DOMAIN s : s[i] \notin {space, newline, return}
  /\ s[Len(s)] # dot

(* A named header on one line: white space only inside, no period at the   *)
(* end, a colon somewhere, and a key that is not Content-Length.           *)
IsNamedLine(s) ==
  /\ s \in Seq(Tokens) /\ s # <<>>
  /\ \A i \in DOMAIN s : s[i] \notin {newline, return}
  /\ s[1] # space /\ s[1].text # "Content-Length:n"
  /\ s[Len(s)] \notin {space, dot}
  /\ \E i \in DOMAIN s : s[i] = keyval

(* A header without the newline that its text may end with. *)
Stripped(hdr) == IF hdr[Len(hdr)] = newline THEN Front(hdr) ELSE hdr

(* The messages that the functions of hms_msg.c make of such words:        *)
(* hms_msg_set_body adds the one header Content-Length.  A verb may be     *)
(* missing, or empty in a message with nothing else.                       *)
MessageType ==
  [verb : Seq(Tokens) \cup {NULL}, headers : Seq(Seq(Tokens)),
   named_headers : Seq(Seq(Tokens)), body : Seq(Tokens)]
IsMessage(m) ==
  LET length == <<Length(Len(m.body))>> IN
  /\ m \in MessageType
  /\ \/ m.verb = NULL \/ IsWord(m.verb)
     \/ m.verb = <<>> /\ m.headers = <<>> /\ m.named_headers = <<>>
  /\ \A i \in DOMAIN m.headers : IsWord(m.headers[i])
  /\ \A i \in DOMAIN m.named_headers :
       \/ m.named_headers[i] # <<>> /\ IsNamedLine(Stripped(m.named_headers[i]))
       \/ m.body # <<>> /\ m.named_headers[i] = length
  /\ m.body # <<>> =>
       \E i \in DOMAIN m.named_headers :
         \A j \in DOMAIN m.named_headers : m.named_headers[j] = length <=> j = i
=============================================================================
