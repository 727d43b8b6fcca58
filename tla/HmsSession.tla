----------------------------- MODULE HmsSession -----------------------------
(***************************************************************************)
(* A session of hermes.c: a client that uses an hms_connector, and the     *)
(* handler that serves its connection through an hms_endpoint with the     *)
(* default operations or a user's.                                         *)
(*                                                                         *)
(* The connection is a stream of tokens in each direction, of bounded      *)
(* size.  A message is sent in pieces and read by hms_msg_parse, of which  *)
(* HmsParser has the details: here a header is taken off the stream as     *)
(* soon as it is complete, and a body as it comes.  No text that is sent   *)
(* has a "\r".                                                             *)
(***************************************************************************)
EXTENDS HmsHeader

CONSTANTS
  Messages,       \* the messages that the client may send
  Invalid,        \* those that the user's hms_validate refuses
  Accepted,       \* those that the user's hms_accepts takes
  max_hdr_len,    \* HERMES_MAX_HDR_SIZE, in tokens
  Room,           \* bound: tokens that a direction of the connection holds
  MaxMsgs         \* bound: messages that the client sends

ASSUME BoundsAssumption ==
  /\ max_hdr_len \in Nat \ {0}
  /\ Room \in Nat /\ Room >= max_hdr_len
  /\ MaxMsgs \in Nat \ {0}
ASSUME VerdictsAssumption == Invalid \cup Accepted \subseteq Messages

(* The words of the replies are words, and they fit in a header. *)
ASSUME RepliesAssumption == {"INFO", "PONG", "ERROR"} \subseteq WordTexts /\ max_hdr_len >= 7

ASSUME MessagesAssumption == \A m \in Messages : IsMessage(m)
ASSUME NullAssumption == NULL \notin MessageType /\ NULL \notin Seq(Tokens)

Parties == {"connector", "endpoint"}
Peer(p) == IF p = "connector" THEN "endpoint" ELSE "connector"

VARIABLES
  pc,             \* what each party does
  stream,         \* the tokens on their way to each party
  out,            \* what __send_all has yet to send: header, body, and if it erred
  pending,        \* the message whose body a party is reading, or NULL
  hang_up,        \* the handler's status is not 0
  result,         \* what the last hms_connector_* call returned
  sent,           \* the messages that the client sent, in order
  received,       \* those that the handler received
  answers         \* and those that the client received

history == <<sent, received, answers>>
vars == <<pc, stream, out, pending, hang_up, result, history>>

Nothing == [header |-> <<>>, body |-> <<>>, erred |-> FALSE]

(* A connection is gone when its process closes it or ends. *)
Gone(p) == pc[p] \in {"closed", "killed", "aborted"}

Init ==
  /\ pc = [p \in Parties |-> "init"]
  /\ stream = [p \in Parties |-> <<>>]
  /\ out = [p \in Parties |-> Nothing]
  /\ pending = [p \in Parties |-> NULL]
  /\ hang_up = FALSE
  /\ result = NULL
  /\ sent = <<>> /\ received = <<>> /\ answers = <<>>

(* hms_connector_init, and at the other end accept and hms_endpoint_init *)
Connect ==
  /\ pc["connector"] = "init"
  /\ pc' = [pc EXCEPT !["connector"] = "idle", !["endpoint"] = "recv"]
  /\ UNCHANGED <<stream, out, pending, hang_up, result, history>>

(* Without a host or a socket the result is NULL, without a connection -1. *)
ConnectFails(ret) ==
  /\ pc["connector"] = "init"
  /\ result' = ret
  /\ pc' = [pc EXCEPT !["connector"] = "closed"]
  /\ UNCHANGED <<stream, out, pending, hang_up, history>>

-----------------------------------------------------------------------------
(* hms_connector_send_msg and hms_endpoint_send_msg *)

StartSend(p, msg) ==
  out' = [out EXCEPT ![p] = [header |-> print_header(msg), body |-> msg.body, erred |-> FALSE]]

(* A message without a verb has a header of size 0: hms_assert ends the    *)
(* process.                                                                *)
ConnectorSendMsg(msg) ==
  /\ pc["connector"] = "idle"
  /\ Len(sent) < MaxMsgs
  /\ IF msg.verb = NULL
     THEN /\ pc' = [pc EXCEPT !["connector"] = "aborted"]
          /\ UNCHANGED <<out, sent>>
     ELSE /\ pc' = [pc EXCEPT !["connector"] = "send"]
          /\ StartSend("connector", msg)
          /\ sent' = Append(sent, msg)
  /\ UNCHANGED <<stream, pending, hang_up, result, received, answers>>

(* The part that __send_all is sending. *)
Part(p) == IF out[p].header # <<>> THEN "header" ELSE "body"
Remaining(p) == out[p][Part(p)]

DropPart(p) == [out[p] EXCEPT ![Part(p)] = <<>>]        \* mutant: an error is forgotten
BrokenPart(p) == [DropPart(p) EXCEPT !.erred = TRUE]

RestForgotten(p, n) == <<>>         \* mutant: a short send is taken for a whole one

(* The loop goes on with what send did not take. *)
Rest(p, n) == SubSeq(Remaining(p), n + 1, Len(Remaining(p)))

(* send takes the first n tokens; it waits while there is no room. *)
SendAll(p, n) ==
  /\ pc[p] = "send"
  /\ n \in 1..Len(Remaining(p))
  /\ Len(stream[Peer(p)]) + n <= Room
  /\ stream' = [stream EXCEPT ![Peer(p)] = @ \o SubSeq(Remaining(p), 1, n)]
  /\ out' = [out EXCEPT ![p][Part(p)] = Rest(p, n)]
  /\ UNCHANGED <<pc, pending, hang_up, result, history>>

(* send fails when the peer is gone: the rest of the part is not sent, and *)
(* after a header that failed the body is tried all the same.              *)
SendAllFails(p) ==
  /\ pc[p] = "send"
  /\ Remaining(p) # <<>> /\ Gone(Peer(p))
  /\ out' = [out EXCEPT ![p] = BrokenPart(p)]
  /\ UNCHANGED <<pc, stream, pending, hang_up, result, history>>

(* hermes_init ignores SIGPIPE, hms_connector_init does not: in a program  *)
(* that is only a client, a send to a peer that is gone may be the end.    *)
Sigpipe ==
  /\ pc["connector"] = "send"
  /\ Remaining("connector") # <<>> /\ Gone("endpoint")
  /\ pc' = [pc EXCEPT !["connector"] = "killed"]
  /\ UNCHANGED <<stream, out, pending, hang_up, result, history>>

AllSent(p) == pc[p] = "send" /\ out[p].header = <<>> /\ out[p].body = <<>>

(* The connector reports a failure for a message without a body, too. *)
ConnectorSendReturn ==
  /\ AllSent("connector")
  /\ result' = IF out["connector"].erred \/ sent[Len(sent)].body = <<>> THEN -1 ELSE 0
  /\ pc' = [pc EXCEPT !["connector"] = "idle"]
  /\ out' = [out EXCEPT !["connector"] = Nothing]
  /\ UNCHANGED <<stream, pending, hang_up, history>>

(* mutant: the connection is left open *)
EndpointSendReturnOpen ==
  /\ AllSent("endpoint")
  /\ pc' = [pc EXCEPT !["endpoint"] = "recv"]
  /\ out' = [out EXCEPT !["endpoint"] = Nothing]
  /\ UNCHANGED <<stream, pending, hang_up, result, history>>

(* _hms_default_handle does not look at the result of its reply;           *)
(* _hms_handle_endpoint goes on, or destroys the endpoint.                 *)
EndpointSendReturn ==
  /\ AllSent("endpoint")
  /\ pc' = [pc EXCEPT !["endpoint"] = IF hang_up THEN "closed" ELSE "recv"]
  /\ out' = [out EXCEPT !["endpoint"] = Nothing]
  /\ UNCHANGED <<stream, pending, hang_up, result, history>>

-----------------------------------------------------------------------------
(* hms_msg_parse, on the stream of party p *)

HeaderEnds(p) == {n \in DOMAIN stream[p] : n <= max_hdr_len /\ Terminated(stream[p], n)}
HeaderEnd(p) == Min(HeaderEnds(p))
LastDot(p) == Max({i \in 1..HeaderEnd(p) : stream[p][i] = dot})

(* The header's text, as a set: \E binds it to its value. *)
Text(p) == {SubSeq(stream[p], 1, LastDot(p) - 1)}
WellFormed(p) == HeaderEnd(p) > 2 /\ \E text \in Text(p) : HeaderParses(text)

ParsedMsg(text) ==
  [verb |-> ParsedVerb(text), headers |-> ParsedHeaders(text),
   named_headers |-> ParsedNamedHeaders(text), body |-> <<>>]

(* What Content-Length says, and what of it has not been read. *)
BodyLen(msg) ==
  LET i == SelectInSeq(msg.named_headers, LAMBDA h : IsLength(h, 1)) IN
  IF i = 0 THEN 0 ELSE LengthOf(msg.named_headers[i], 1)
Missing(msg) == BodyLen(msg) - Len(msg.body)

ReadsOnceMore(msg) == Missing(msg) < 0      \* mutant: the loop runs once more

BodyComplete(msg) == Missing(msg) <= 0

(* hms_msg_set_body writes Content-Length again, and so puts it last. *)
SetBody(msg) ==
  [msg EXCEPT !.named_headers =
     Append(RemoveFirstMatch(@, LAMBDA h : IsLength(h, 1)), <<Length(Len(msg.body))>>)]

After(s, n) == SubSeq(s, n + 1, Len(s))

-----------------------------------------------------------------------------
(* What is done with a message that has been read *)

Msg(verb, named) ==
  [verb |-> <<Token(verb)>>, headers |-> <<>>, named_headers |-> named, body |-> <<>>]

(* The text of asctime_r ends with a newline, and hms_msg_add_named_header *)
(* takes it as it is.                                                      *)
Localtime == <<keyval, newline>>

InfoReply == Msg("INFO", <<Localtime>>)

(* The replies of _hms_default_handle. *)
Reply(msg) ==
  CASE msg.verb = NULL            -> Msg("ERROR", <<>>)
    [] msg.verb = <<Token("PING")>> -> Msg("PONG", <<>>)
    [] msg.verb = <<Token("INFO")>> -> InfoReply
    [] OTHER                      -> NULL

IsOneOf(msg, S) == \E m \in S : m.verb = msg.verb

(* hms_connector_recv_msg returns the message. *)
ConnectorDelivers(msg) ==
  /\ answers' = Append(answers, msg)
  /\ result' = 0
  /\ pc' = [pc EXCEPT !["connector"] = "idle"]
  /\ UNCHANGED <<out, hang_up, sent, received>>

(* _hms_handle_endpoint: a message that is not valid is dropped, one that  *)
(* the user accepts goes to the user's handler, which sends nothing and    *)
(* has any status, and the others to _hms_default_handle.                  *)
EndpointDelivers(msg) ==
  /\ received' = Append(received, msg)
  /\ UNCHANGED <<result, sent, answers>>
  /\ \/ /\ IsOneOf(msg, Invalid)
        /\ pc' = [pc EXCEPT !["endpoint"] = "recv"]
        /\ UNCHANGED <<out, hang_up>>
     \/ /\ ~IsOneOf(msg, Invalid) /\ IsOneOf(msg, Accepted)
        /\ \E status \in {"recv", "closed"} : pc' = [pc EXCEPT !["endpoint"] = status]
        /\ UNCHANGED <<out, hang_up>>
     \/ /\ ~IsOneOf(msg, Invalid) /\ ~IsOneOf(msg, Accepted)
        /\ hang_up' = (Reply(msg) = NULL \/ msg.verb = NULL)
        /\ IF Reply(msg) = NULL
           THEN /\ pc' = [pc EXCEPT !["endpoint"] = "closed"]
                /\ UNCHANGED out
           ELSE /\ pc' = [pc EXCEPT !["endpoint"] = "send"]
                /\ StartSend("endpoint", Reply(msg))

Delivers(p, msg) ==
  \/ p = "connector" /\ ConnectorDelivers(msg)
  \/ p = "endpoint" /\ EndpointDelivers(msg)

-----------------------------------------------------------------------------
(* hms_connector_recv_msg and hms_endpoint_recv_msg *)

ConnectorRecvMsg ==
  /\ pc["connector"] = "idle"
  /\ pc' = [pc EXCEPT !["connector"] = "recv"]
  /\ UNCHANGED <<stream, out, pending, hang_up, result, history>>

RecvHeader(p) ==
  /\ pc[p] = "recv" /\ pending[p] = NULL
  /\ HeaderEnds(p) # {} /\ WellFormed(p)
  /\ stream' = [stream EXCEPT ![p] = After(@, HeaderEnd(p))]
  /\ \E msg \in {ParsedMsg(text) : text \in Text(p)} :
       \/ /\ Missing(msg) = 0
          /\ Delivers(p, msg) /\ UNCHANGED pending
       \/ /\ Missing(msg) > 0
          /\ pending' = [pending EXCEPT ![p] = msg]
          /\ UNCHANGED <<pc, out, hang_up, result, history>>

WantedAll(p) == Len(stream[p])      \* mutant: takes whatever has come

(* What one read of the body gets. *)
Wanted(p) == Min({Missing(pending[p]), Len(stream[p])})

RecvBody(p) ==
  /\ pc[p] = "recv" /\ pending[p] # NULL
  /\ stream[p] # <<>>
  /\ stream' = [stream EXCEPT ![p] = After(@, Wanted(p))]
  /\ \E msg \in {[pending[p] EXCEPT !.body = @ \o SubSeq(stream[p], 1, Wanted(p))]} :
       \/ /\ BodyComplete(msg)
          /\ Delivers(p, SetBody(msg)) /\ pending' = [pending EXCEPT ![p] = NULL]
       \/ /\ ~BodyComplete(msg)
          /\ pending' = [pending EXCEPT ![p] = msg]
          /\ UNCHANGED <<pc, out, hang_up, result, history>>

(* The header does not parse, is too long, or the stream ends too soon. *)
BadHeader(p) == pending[p] = NULL /\ HeaderEnds(p) # {} /\ ~WellFormed(p)
TooLong(p) == pending[p] = NULL /\ HeaderEnds(p) = {} /\ Len(stream[p]) >= max_hdr_len
TruncatedIgnored(p) == FALSE        \* mutant: waits on at the end of the stream
Truncated(p) ==
  /\ Gone(Peer(p))
  /\ IF pending[p] = NULL THEN HeaderEnds(p) = {} ELSE stream[p] = <<>>

(* The parser frees the message; the handler destroys the endpoint, while  *)
(* the client learns of it and may call again.                             *)
RecvFails(p) ==
  /\ pc[p] = "recv"
  /\ BadHeader(p) \/ TooLong(p) \/ Truncated(p)
  /\ stream' = [stream EXCEPT ![p] = CASE BadHeader(p) -> After(@, HeaderEnd(p))
                                       [] TooLong(p)   -> After(@, max_hdr_len)
                                       [] OTHER        -> <<>>]
  /\ pending' = [pending EXCEPT ![p] = NULL]
  /\ pc' = [pc EXCEPT ![p] = IF p = "connector" THEN "idle" ELSE "closed"]
  /\ result' = IF p = "connector" THEN -1 ELSE result
  /\ UNCHANGED <<out, hang_up, history>>

-----------------------------------------------------------------------------
ConnectorDestroy ==
  /\ pc["connector"] = "idle"
  /\ pc' = [pc EXCEPT !["connector"] = "closed"]
  /\ UNCHANGED <<stream, out, pending, hang_up, result, history>>

(* A party that closes with unread input resets the connection: what was   *)
(* on its way to the other may be lost.                                    *)
Reset(p) ==
  /\ Gone(Peer(p)) /\ stream[Peer(p)] # <<>>
  /\ stream[p] # <<>>
  /\ stream' = [stream EXCEPT ![p] = <<>>]
  /\ UNCHANGED <<pc, out, pending, hang_up, result, history>>

(* A call that is under way. *)
Step(p) ==
  \/ \E n \in 1..Room : SendAll(p, n)
  \/ SendAllFails(p)
  \/ RecvHeader(p)
  \/ RecvBody(p)
  \/ RecvFails(p)

ConnectorStep == Step("connector") \/ ConnectorSendReturn
EndpointStep == Step("endpoint") \/ EndpointSendReturn

Next ==
  \/ Connect
  \/ \E ret \in {NULL, -1} : ConnectFails(ret)
  \/ \E msg \in Messages : ConnectorSendMsg(msg)
  \/ ConnectorRecvMsg
  \/ ConnectorDestroy
  \/ Sigpipe
  \/ ConnectorStep
  \/ EndpointStep
  \/ \E p \in Parties : Reset(p)

Spec == Init /\ [][Next]_vars

(* Both processes run; no client has to call anything. *)
FairSpec == Spec /\ WF_vars(ConnectorStep) /\ WF_vars(EndpointStep)

-----------------------------------------------------------------------------
(* Properties *)

(* What a message means to the one who receives it: without the white      *)
(* space at the end of a value, with Content-Length last, and a verb that  *)
(* is empty is none.                                                       *)
Clean(msg) ==
  [msg EXCEPT !.verb = IF @ = <<>> THEN NULL ELSE @,
              !.named_headers = [i \in DOMAIN @ |-> Stripped(@[i])]]
AsReceived(msg) == IF msg.body = <<>> THEN Clean(msg) ELSE SetBody(Clean(msg))

(* Every variable has its type; no direction holds more than its room. *)
TypeOK ==
  /\ pc["connector"] \in {"init", "idle", "send", "recv", "closed", "killed", "aborted"}
  /\ pc["endpoint"] \in {"init", "recv", "send", "closed"}
  /\ \A p \in Parties :
       /\ stream[p] \in Seq(Tokens) /\ Len(stream[p]) <= Room
       /\ out[p] \in [header : Seq(Tokens), body : Seq(Tokens), erred : BOOLEAN]
       /\ pending[p] = NULL \/ Missing(pending[p]) > 0
  /\ hang_up \in BOOLEAN
  /\ result \in {NULL, 0, -1}
  /\ sent \in Seq(Messages) /\ Len(sent) <= MaxMsgs
  /\ Len(received) <= Len(sent) /\ Len(answers) <= Len(received)

(***************************************************************************)
(* The handler receives the messages that were sent, each whole, in order  *)
(* and none twice: what hms_msg_print_header writes is what the parser     *)
(* reads, whatever bytes a body has and however the stream is cut.         *)
(***************************************************************************)
DeliveredAsSent ==
  \A i \in DOMAIN received : i <= Len(sent) /\ received[i] = AsReceived(sent[i])

Wire(msg) == print_header(msg) \o msg.body
Wires(msgs) == FlattenSeq([i \in DOMAIN msgs |-> Wire(msgs[i])])

(* The tokens of the message being read that have left the stream. *)
TakenSoFar ==
  IF pending["endpoint"] = NULL THEN 0
  ELSE Len(print_header(sent[Len(received) + 1])) + Len(pending["endpoint"].body)

(***************************************************************************)
(* While the connection is up, what is on its way to the handler, together *)
(* with what __send_all still has, is the text of the messages not yet     *)
(* received, from the very place where the parser reads on: no loop over   *)
(* short sends or short reads loses, repeats or reorders anything.         *)
(***************************************************************************)
InStep ==
  ~(Gone("connector") \/ Gone("endpoint")) =>
    stream["endpoint"] \o out["connector"].header \o out["connector"].body
      = After(Wires(After(sent, Len(received))), TakenSoFar)

(* The answers that are due to a message that is received, none or one,    *)
(* and to the messages msgs that are sent.                                 *)
Due(msg) ==
  IF IsOneOf(msg, Invalid \cup Accepted) \/ Reply(msg) = NULL THEN <<>> ELSE <<Reply(msg)>>
Answers(msgs) == FlattenSeq([i \in DOMAIN msgs |-> Due(AsReceived(msgs[i]))])

(***************************************************************************)
(* The client's n-th answer is the answer to its n-th PING or INFO,        *)
(* messages without an answer not counted, although requests and answers   *)
(* carry nothing that relates them; and once a message had a verb that     *)
(* _hms_default_handle does not know, or none, the handler takes no other. *)
(***************************************************************************)
AnswersInOrder ==
  /\ Len(answers) <= Len(Answers(sent))
  /\ \A i \in DOMAIN answers : answers[i] = AsReceived(Answers(sent)[i])
  /\ \A i \in 1..Len(received) - 1 :
       \/ IsOneOf(received[i], Invalid \cup Accepted)
       \/ received[i].verb # NULL /\ Reply(received[i]) # NULL

(***************************************************************************)
(* When hms_connector_send_msg returns 0, the last message is in the       *)
(* stream without a gap, but for what has been read of it.  While the      *)
(* connection is up it returns -1 for the messages without a body and for  *)
(* no other.                                                               *)
(***************************************************************************)
SendResult ==
  [][pc["connector"] = "send" /\ pc'["connector"] = "idle" =>
       LET msg == sent[Len(sent)] IN
       /\ result' = 0 => \/ IsSuffix(stream["endpoint"], Wire(msg))
                         \/ IsSuffix(Wire(msg), stream["endpoint"])
       /\ ~Gone("endpoint") => (result' = -1 <=> msg.body = <<>>)]_vars

(* The client has sent more that is to be answered than it has had answers. *)
AnswerDue == Len(Answers(sent)) > Len(answers)

(* A party cannot go on: there is no room, or nothing that it can read. *)
Waits(p) ==
  /\ ~Gone(Peer(p))
  /\ \/ pc[p] = "send" /\ Remaining(p) # <<>> /\ Len(stream[Peer(p)]) = Room
     \/ pc[p] = "recv" /\ pending[p] = NULL /\ HeaderEnds(p) = {} /\ ~TooLong(p)
     \/ pc[p] = "recv" /\ pending[p] # NULL /\ stream[p] = <<>>

(***************************************************************************)
(* Client and handler wait for each other in two cases only: the client    *)
(* calls hms_connector_recv_msg when no answer is due, or it goes on       *)
(* sending without reading its answers until both directions are full and  *)
(* both __send_all wait.                                                   *)
(***************************************************************************)
WaitsOnlyForClient ==
  Waits("connector") /\ Waits("endpoint") =>
    \/ pc["connector"] = "recv" /\ ~AnswerDue
    \/ pc["connector"] = "send" /\ pc["endpoint"] = "send"

(* A client that waits for an answer that is due gets one, or learns that  *)
(* the connection is closed.                                               *)
AnswerComes == (pc["connector"] = "recv" /\ AnswerDue) ~> (pc["connector"] # "recv")

(* When the client has gone, the handler ends, whatever it was doing, and  *)
(* with it the use of a thread of the pool.                                *)
HandlerEnds == Gone("connector") ~> (pc["endpoint"] \in {"init", "closed"})
=============================================================================
