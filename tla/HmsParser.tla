------------------------------ MODULE HmsParser ------------------------------
(***************************************************************************)
(* hms_msg_parse of src/hms/hms_parser.c: one message is read from a       *)
(* connection whose peer may send anything, in pieces of any size, and     *)
(* close it at any time.                                                   *)
(*                                                                         *)
(* The header is read into buffer as tokens of HmsHeader, one at a time.   *)
(* The bytes of a body are counted.                                        *)
(***************************************************************************)
EXTENDS HmsHeader

CONSTANTS
  Input,          \* the tokens that the peer may send
  max_hdr_len     \* bound: HERMES_MAX_HDR_SIZE, in tokens

ASSUME HeaderAssumption == max_hdr_len \in Nat \ {0}
ASSUME InputAssumption == Input \subseteq Tokens

VARIABLES
  pc,             \* "header", "parse", "read_body", "ok", "failed" or "aborted"
  eof,            \* the peer has closed and all it sent has been read
  buffer,         \* the header read so far
  dot_seen,
  dot_ptr,        \* an index of buffer, or NULL
  msg,            \* the message being built, or NULL
  body_len,       \* what the header says of the body
  read_in         \* how much of the body has been read

headerVars == <<buffer, dot_seen, dot_ptr>>
vars == <<pc, eof, headerVars, msg, body_len, read_in>>

(* hms_msg_create *)
EmptyMsg == [verb |-> NULL, num_headers |-> 0, content_length |-> NULL, content_len |-> 0]

Init ==
  /\ pc = "header"
  /\ eof = FALSE
  /\ buffer = <<>>
  /\ dot_seen = FALSE
  /\ dot_ptr = NULL
  /\ msg = NULL
  /\ body_len = 0
  /\ read_in = 0

PeerCloses ==
  /\ ~eof
  /\ eof' = TRUE
  /\ UNCHANGED <<pc, headerVars, msg, body_len, read_in>>

-----------------------------------------------------------------------------
(* __hms_parse_read_header *)

(* mutant: a period anywhere before the newline ends the header *)
DotSeenForever(c) == dot_seen \/ c = dot

(* A period stays seen over the spaces that follow it. *)
DotStillSeen(c) == c = dot \/ (dot_seen /\ c \in {space, newline})

RoomOffByOne == Len(buffer) <= max_hdr_len      \* mutant

room == Len(buffer) < max_hdr_len

ReadHeader(read) ==
  LET c == IF read = return THEN space ELSE read IN
  /\ pc = "header"
  /\ ~eof /\ room
  /\ buffer' = Append(buffer, c)
  /\ dot_seen' = DotStillSeen(c)
  /\ dot_ptr' = IF c = dot THEN Len(buffer) + 1
                ELSE IF DotStillSeen(c) THEN dot_ptr ELSE NULL
  /\ pc' = IF dot_seen /\ c = newline THEN "parse" ELSE "header"
  /\ UNCHANGED <<eof, msg, body_len, read_in>>

(* mutant: reads on when the peer has closed *)
HeaderEofIgnored ==
  /\ pc = "header"
  /\ \/ ~room /\ pc' = "failed" /\ UNCHANGED <<eof, headerVars, msg, body_len, read_in>>
     \/ room /\ eof /\ UNCHANGED vars

(* The connection ends, or the buffer, before the header does. *)
HeaderFails ==
  /\ pc = "header"
  /\ eof \/ ~room
  /\ pc' = "failed"
  /\ UNCHANGED <<eof, headerVars, msg, body_len, read_in>>

-----------------------------------------------------------------------------
(* __hms_parse_header, on what comes before the period *)

text == SubSeq(buffer, 1, dot_ptr - 1)

ParseHeader ==
  /\ pc = "parse"
  /\ Len(buffer) > 2 /\ HeaderParses(text)
  /\ msg' = [EmptyMsg EXCEPT !.verb = ParsedVerb(text),
                             !.num_headers = Cardinality(HeaderWords(text)),
                             !.content_length = ParsedLength(text, NULL)]
  /\ body_len' = ParsedLength(text, 0)
  /\ pc' = IF body_len' = 0 THEN "ok" ELSE "read_body"
  /\ UNCHANGED <<eof, headerVars, read_in>>

(* Nothing but ".\n", or a line that does not parse: the message is freed. *)
ParseHeaderFails ==
  /\ pc = "parse"
  /\ Len(buffer) <= 2 \/ ~HeaderParses(text)
  /\ pc' = "failed"
  /\ UNCHANGED <<eof, headerVars, msg, body_len, read_in>>

-----------------------------------------------------------------------------
(* __hms_parse_read_body *)

WantedWhole == body_len             \* mutant: asks for the whole body each time

(* What each read asks for. *)
Wanted == body_len - read_in

(* A read gets some of what it asks for; the last one completes the body,  *)
(* and hms_msg_set_body stores it and its length.                          *)
ReadBody(sz) ==
  /\ pc = "read_body"
  /\ ~eof /\ read_in < body_len
  /\ sz \in 1..Wanted
  /\ read_in' = read_in + sz
  /\ pc' = CASE read_in' < body_len -> "read_body"
             [] read_in' = body_len -> "ok"
             [] OTHER -> "aborted"
  /\ msg' = IF pc' = "ok" THEN [msg EXCEPT !.content_len = body_len, !.content_length = body_len]
                          ELSE msg
  /\ UNCHANGED <<eof, headerVars, body_len>>

BodyFails ==
  /\ pc = "read_body"
  /\ eof /\ read_in < body_len
  /\ pc' = "failed"
  /\ msg' = NULL
  /\ UNCHANGED <<eof, headerVars, body_len, read_in>>

(* A negative length: malloc(body_len + 1) fails, except for -1, when      *)
(* nothing is read and assert(read_in == body_len) fails.                  *)
NegativeBody ==
  /\ pc = "read_body"
  /\ body_len < 0
  /\ pc' = IF body_len = -1 THEN "aborted" ELSE "failed"
  /\ msg' = NULL
  /\ UNCHANGED <<eof, headerVars, body_len, read_in>>

-----------------------------------------------------------------------------
Parser ==
  \/ \E c \in Input : ReadHeader(c)
  \/ HeaderFails
  \/ ParseHeader
  \/ ParseHeaderFails
  \/ \E sz \in 1..body_len : ReadBody(sz)
  \/ BodyFails
  \/ NegativeBody

Ended == pc \in {"ok", "failed", "aborted"} /\ UNCHANGED vars

Next == Parser \/ (pc \notin {"ok", "failed", "aborted"} /\ PeerCloses) \/ Ended

Spec == Init /\ [][Next]_vars

(* A read returns at last: the peer goes on sending, or closes. *)
FairSpec == Spec /\ WF_vars(Parser)

-----------------------------------------------------------------------------
(* Properties *)

(* Every variable has its type; the header stays within its buffer. *)
TypeOK ==
  /\ pc \in {"header", "parse", "read_body", "ok", "failed", "aborted"}
  /\ eof \in BOOLEAN
  /\ buffer \in Seq(Tokens) /\ Len(buffer) <= max_hdr_len
  /\ dot_seen \in BOOLEAN
  /\ dot_ptr \in DOMAIN buffer \cup {NULL}
  /\ msg = NULL \/ msg \in [verb : Seq(Tokens) \cup {NULL}, num_headers : Nat,
                            content_length : Lengths \cup {NULL}, content_len : Nat]
  /\ body_len \in Lengths \cup {0}
  /\ read_in \in Nat

(***************************************************************************)
(* The loop that reads a header one byte at a time, with dot_seen and      *)
(* dot_ptr for memory, stops at the first newline that follows a period    *)
(* and spaces, reads nothing after it, and marks that period: so what it   *)
(* leaves unread is the body or the next message.                          *)
(***************************************************************************)
HeaderFramed ==
  /\ \A n \in DOMAIN buffer : Terminated(buffer, n) => n = Len(buffer) /\ pc # "header"
  /\ pc \in {"parse", "read_body", "ok"} =>
       /\ buffer # <<>> /\ Terminated(buffer, Len(buffer))
       /\ dot_ptr # NULL /\ buffer[dot_ptr] = dot
       /\ \A j \in dot_ptr + 1..Len(buffer) - 1 : buffer[j] = space

(***************************************************************************)
(* However the body is cut into pieces, and whatever becomes of the call,  *)
(* no byte of the next message is taken; a message that is delivered has   *)
(* taken as many as its body has.                                          *)
(***************************************************************************)
BodyExact ==
  /\ read_in # 0 => read_in <= body_len
  /\ pc = "ok" => read_in = body_len /\ msg.content_len = body_len
  /\ pc = "failed" => msg = NULL

(***************************************************************************)
(* A delivered message has the header Content-Length if and only if it has *)
(* a body, and with its length, as the assertions of hms_msg_get_body_size *)
(* and hms_msg_get_body demand, whatever lines the peer sent, in whatever  *)
(* order and number.                                                       *)
(***************************************************************************)
DeliveredLengthAgrees ==
  pc = "ok" => msg.content_length = (IF msg.content_len = 0 THEN NULL ELSE msg.content_len)

(* Parsing ends, whatever the peer sends and whenever it closes. *)
ParsingEnds == <>(pc \in {"ok", "failed", "aborted"})

-----------------------------------------------------------------------------
(* What the README says of broken messages, and the parser does not do. *)

(* "The parsing is very strict. It will shutdown the connection": a message *)
(* that is not accepted makes hms_msg_parse fail, and its caller closes the *)
(* connection; assert(read_in == body_len) holds, and the process goes on.  *)
BrokenMessageFails == pc # "aborted"
=============================================================================
