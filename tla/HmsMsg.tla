------------------------------- MODULE HmsMsg -------------------------------
(***************************************************************************)
(* The message object of src/hms/hms_msg.c, from hms_msg_create to         *)
(* hms_msg_destroy, under calls of its API in any order.                   *)
(*                                                                         *)
(* Named headers are kept in a list and looked up with strcasecmp: a key   *)
(* is a name and the case in which it is written.  A value is the number   *)
(* that atoi makes of it (0 if it is not a number), which is all that the  *)
(* code looks at.  A failed hms_assert ends the process.                   *)
(***************************************************************************)
EXTENDS Integers, Sequences, SequencesExt

CONSTANTS
  Verbs,              \* verbs of messages
  Names,              \* names of named headers, without regard to case
  Cases,              \* ways to write a name
  CONTENT_LENGTH,     \* HMS_CONTENT_LENGTH
  CONTENT_CHECKSUM,   \* HMS_CONTENT_CHECKSUM
  UserNames,          \* the names that callers write and delete themselves
  MaxHeaders,         \* bound: un-named headers in a message
  MaxBody,            \* bound: bytes in a body
  NULL

ASSUME RestrictedAssumption ==
  {CONTENT_LENGTH, CONTENT_CHECKSUM} \subseteq Names /\ CONTENT_LENGTH # CONTENT_CHECKSUM
ASSUME CasesAssumption == Cases # {}
ASSUME UserAssumption == UserNames \subseteq Names
ASSUME BoundAssumption == MaxHeaders \in Nat /\ MaxBody \in Nat \ {0}
ASSUME NullAssumption == NULL \notin 0..MaxBody /\ NULL \notin Verbs

VARIABLES
  verb,
  headers, num_headers,
  named_headers, num_named_headers,
  content,            \* TRUE iff content is not NULL
  content_len,
  status              \* "live", "destroyed", or the function whose assertion failed

bodyVars == <<content, content_len>>
namedVars == <<named_headers, num_named_headers>>
headerVars == <<headers, num_headers>>
vars == <<verb, headerVars, namedVars, bodyVars, status>>

Values == 0..MaxBody
Keys == [name : Names, case : Cases]
UserKeys == {k \in Keys : k.name \in UserNames}
ContentLength == [name |-> CONTENT_LENGTH, case |-> CHOOSE c \in Cases : TRUE]
ContentChecksum == [name |-> CONTENT_CHECKSUM, case |-> CHOOSE c \in Cases : TRUE]

(* hms_msg_create *)
Init ==
  /\ verb = NULL
  /\ headers = <<>> /\ num_headers = 0
  /\ named_headers = <<>> /\ num_named_headers = 0
  /\ content = FALSE /\ content_len = 0
  /\ status = "live"

-----------------------------------------------------------------------------
(* The list of named headers *)

SameSpelling(key, l) == key = l     \* mutant: strcmp for strcasecmp

strcasecmp_equal(key, l) == key.name = l.name

(* The place of the first header with the key, 0 if there is none. *)
FindNamed(nhdrs, key) == SelectInSeq(nhdrs, LAMBDA h : strcasecmp_equal(h.key, key))

get_named_header(key) ==
  LET i == FindNamed(named_headers, key) IN
  IF i = 0 THEN NULL ELSE named_headers[i].val

(* hms_msg_del_named_header: removes the first header with the key. *)
DelNamed(nhdrs, key) ==
  LET i == FindNamed(nhdrs, key) IN
  IF i = 0 THEN nhdrs ELSE RemoveAt(nhdrs, i)

(* __hms_create_named_header copies the key, as it is written, and the value. *)
NamedHeader(key, val) == [key |-> key, val |-> val]

AppendNamed(nhdrs, key, val) ==     \* mutant: the old value is not deleted
  Append(nhdrs, NamedHeader(key, val))

(* hms_msg_add_named_header: the old value goes, the new one is put last. *)
AddNamed(nhdrs, key, val) ==
  Append(DelNamed(nhdrs, key), NamedHeader(key, val))

(* mutant: num_named_headers counts additions and not deletions *)
CountAdditions(old, new) == IF Len(new) < Len(old) THEN 0 ELSE 1

(* Each deletion and each addition adjusts num_named_headers. *)
CountChange(old, new) == Len(new) - Len(old)

SetNamed(nhdrs) ==
  /\ named_headers' = nhdrs
  /\ num_named_headers' = num_named_headers + CountChange(named_headers, nhdrs)

(* hms_assert: the process ends in function f if the condition fails; what *)
(* the action assigns otherwise does not matter then.                      *)
Check(f, condition) == status' = IF condition THEN "live" ELSE f

-----------------------------------------------------------------------------
(* Verb and un-named headers *)

SetVerb(v) ==
  /\ status = "live"
  /\ verb' = v
  /\ UNCHANGED <<headerVars, namedVars, bodyVars, status>>

AddHeader(v) ==
  /\ status = "live"
  /\ Len(headers) < MaxHeaders
  /\ headers' = Append(headers, v)
  /\ num_headers' = num_headers + 1
  /\ UNCHANGED <<verb, namedVars, bodyVars, status>>

InBounds(index) == num_headers > 0 /\ index >= 0 /\ index < num_headers

get_header(index) == IF InBounds(index) THEN headers[index + 1] ELSE NULL

(* mutant: no check of the bounds *)
DelHeaderUnchecked(index) ==
  /\ status = "live"
  /\ headers' = RemoveAt(headers, index + 1)
  /\ num_headers' = num_headers - 1
  /\ UNCHANGED <<verb, namedVars, bodyVars, status>>

(* Without effect if the index is out of bounds. *)
DelHeader(index) ==
  /\ status = "live"
  /\ InBounds(index)
  /\ headers' = RemoveAt(headers, index + 1)
  /\ num_headers' = num_headers - 1
  /\ UNCHANGED <<verb, namedVars, bodyVars, status>>

(* The size computed is 0 without a verb, but something is printed then:   *)
(* hms_msg_print_header asserts that the two are equal.                    *)
PrintHeader ==
  /\ status = "live"
  /\ Check("print_header", verb # NULL)
  /\ UNCHANGED <<verb, headerVars, namedVars, bodyVars>>

-----------------------------------------------------------------------------
(* Named headers *)

AddNamedHeader(key, val) ==
  /\ status = "live"
  /\ SetNamed(AddNamed(named_headers, key, val))
  /\ UNCHANGED <<verb, headerVars, bodyVars, status>>

DelNamedHeader(key) ==
  /\ status = "live"
  /\ SetNamed(DelNamed(named_headers, key))
  /\ UNCHANGED <<verb, headerVars, bodyVars, status>>

-----------------------------------------------------------------------------
(* Body *)

(* Content-Length is there and tells the length of the body. *)
LengthMatches == get_named_header(ContentLength) = content_len

GetBodySize ==
  /\ status = "live"
  /\ Check("get_body_size",
           IF get_named_header(ContentLength) # NULL THEN LengthMatches ELSE content_len = 0)
  /\ UNCHANGED <<verb, headerVars, namedVars, bodyVars>>

GetBody ==
  /\ status = "live"
  /\ Check("get_body", content => LengthMatches)
  /\ UNCHANGED <<verb, headerVars, namedVars, bodyVars>>

DelRestricted(nhdrs) == DelNamed(DelNamed(nhdrs, ContentLength), ContentChecksum)

DelBody ==
  /\ status = "live"
  /\ content
  /\ Check("del_body", LengthMatches)
  /\ SetNamed(DelRestricted(named_headers))
  /\ content' = FALSE
  /\ content_len' = 0
  /\ UNCHANGED <<verb, headerVars>>

SetEmptyBody(len) ==     \* mutant: a length of 0 is accepted
  LET cleared == IF content THEN DelRestricted(named_headers) ELSE named_headers IN
  /\ status = "live" /\ len >= 0
  /\ Check("del_body", content => LengthMatches)
  /\ SetNamed(AddNamed(cleared, ContentLength, len))
  /\ content' = TRUE
  /\ content_len' = len
  /\ UNCHANGED <<verb, headerVars>>

(* hms_msg_set_body deletes the old body, stores the new one, and its      *)
(* length.  It asserts first that the length is not 0; a negative one gets *)
(* past that, and malloc, which takes it for a huge one, gives nothing.    *)
SetBody(len) ==
  LET cleared == IF content THEN DelRestricted(named_headers) ELSE named_headers IN
  /\ status = "live"
  /\ \/ /\ len = 0
        /\ status' = "set_body"
        /\ UNCHANGED <<namedVars, bodyVars>>
     \/ /\ len < 0
        /\ status' = IF content => LengthMatches THEN "set_body" ELSE "del_body"
        /\ SetNamed(cleared)
        /\ content' = FALSE
        /\ content_len' = 0
     \/ /\ len > 0
        /\ Check("del_body", content => LengthMatches)
        /\ SetNamed(AddNamed(cleared, ContentLength, len))
        /\ content' = TRUE
        /\ content_len' = len
  /\ UNCHANGED <<verb, headerVars>>

(* hms_msg_destroy takes every list entry off, counting down, and asserts  *)
(* that the counters are 0 at the end.                                     *)
Destroy ==
  /\ status = "live"
  /\ status' = IF num_headers = Len(headers) /\ num_named_headers = Len(named_headers)
               THEN "destroyed" ELSE "destroy"
  /\ verb' = NULL
  /\ headers' = <<>> /\ num_headers' = num_headers - Len(headers)
  /\ named_headers' = <<>> /\ num_named_headers' = num_named_headers - Len(named_headers)
  /\ content' = FALSE /\ content_len' = 0

Ended == status # "live" /\ UNCHANGED vars

Next ==
  \/ \E v \in Verbs : SetVerb(v)
  \/ \E v \in Values : AddHeader(v)
  \/ \E index \in 0..MaxHeaders : DelHeader(index)
  \/ PrintHeader
  \/ \E key \in UserKeys : DelNamedHeader(key) \/ \E val \in Values : AddNamedHeader(key, val)
  \/ GetBodySize \/ GetBody \/ DelBody
  \/ \E len \in -1..MaxBody : SetBody(len)
  \/ Destroy
  \/ Ended

Spec == Init /\ [][Next]_vars

-----------------------------------------------------------------------------
(* Properties *)

(* Every variable has its type. *)
TypeOK ==
  /\ verb \in Verbs \cup {NULL}
  /\ headers \in Seq(Values) /\ Len(headers) <= MaxHeaders
  /\ num_headers \in Nat
  /\ named_headers \in Seq([key : Keys, val : Values])
  /\ num_named_headers \in Nat
  /\ content \in BOOLEAN
  /\ content_len \in 0..MaxBody
  /\ status \in {"live", "destroyed", "print_header", "get_body_size", "get_body",
                 "del_body", "set_body", "destroy"}

(***************************************************************************)
(* The counters agree with the lists, over replacements of named headers,  *)
(* deletions of absent ones and bodies that come and go, so that           *)
(* hms_msg_get_header finds a header at exactly the indices of the list;   *)
(* and no name occurs twice, in whatever case it was written.              *)
(***************************************************************************)
ListsConsistent ==
  /\ num_headers = Len(headers)
  /\ num_named_headers = Len(named_headers)
  /\ \A index \in -1..MaxHeaders : get_header(index) # NULL <=> index \in 0..Len(headers) - 1
  /\ \A i, j \in 1..Len(named_headers) :
       i # j => named_headers[i].key.name # named_headers[j].key.name

(***************************************************************************)
(* As long as callers leave the header Content-Length alone, it is there   *)
(* if and only if there is a body, and tells its length, which is not 0,   *)
(* so the assertions of hms_msg_get_body_size, _get_body and _del_body     *)
(* never fail, also where hms_msg_set_body deletes the old body.  Those of *)
(* hms_msg_set_body itself fail for a length that is not positive, and     *)
(* that of hms_msg_print_header without a verb.                            *)
(***************************************************************************)
BodyMatchesHeader ==
  /\ content <=> content_len # 0
  /\ get_named_header(ContentLength) = (IF content THEN content_len ELSE NULL)
  /\ status \in {"live", "destroyed", "set_body", "print_header"}

(* The message as the map of MsgMap. *)
Map == INSTANCE MsgMap WITH
         fields <- [n \in Names |-> get_named_header([name |-> n, case |-> CHOOSE c \in Cases : TRUE])],
         body_len <- content_len,
         NoValue <- NULL

MapStep == status' # "destroyed" => [Map!Next]_(Map!vars)

(***************************************************************************)
(* The list of named headers, with its deletions, additions and lookups    *)
(* without regard to case, is a map from names to the values last written, *)
(* and a body, its length and Content-Length come and go in one step, as   *)
(* long as the message is not destroyed.                                   *)
(***************************************************************************)
ImplementsMap == Map!Init /\ [][MapStep]_vars
=============================================================================
