------------------------------- MODULE MsgMap -------------------------------
(***************************************************************************)
(* What a message of hms_msg.c means to its users: a map from names, taken *)
(* without regard to case, to values, and a body whose length is kept in   *)
(* the map under CONTENT_LENGTH.                                           *)
(***************************************************************************)
EXTENDS Naturals

CONSTANTS
  Names,              \* names of headers, without regard to case
  Values,             \* values of headers
  CONTENT_LENGTH,
  CONTENT_CHECKSUM,
  NoValue             \* the value of a header that is not there

VARIABLES
  fields,     \* the value of each name
  body_len    \* the length of the body, 0 if there is none

vars == <<fields, body_len>>

Init ==
  /\ fields = [n \in Names |-> NoValue]
  /\ body_len = 0

(* The last value written is the value. *)
Put(n, v) ==
  /\ fields' = [fields EXCEPT ![n] = v]
  /\ UNCHANGED body_len

Drop(n) ==
  /\ fields' = [fields EXCEPT ![n] = NoValue]
  /\ UNCHANGED body_len

(* A body and the header that tells its length come together, and a        *)
(* checksum of an earlier body does not survive it ...                     *)
SetBody(len) ==
  /\ body_len' = len
  /\ fields' = [fields EXCEPT ![CONTENT_LENGTH] = len,
                              ![CONTENT_CHECKSUM] =
                                 IF body_len = 0 THEN fields[CONTENT_CHECKSUM] ELSE NoValue]

(* ... and they go together. *)
DelBody ==
  /\ body_len # 0
  /\ body_len' = 0
  /\ fields' = [fields EXCEPT ![CONTENT_LENGTH] = NoValue, ![CONTENT_CHECKSUM] = NoValue]

Next ==
  \/ \E n \in Names : Drop(n) \/ \E v \in Values : Put(n, v)
  \/ \E len \in Values \ {0} : SetBody(len)
  \/ DelBody

Spec == Init /\ [][Next]_vars
=============================================================================
