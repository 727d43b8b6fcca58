---------------------------- MODULE MCHmsSession ----------------------------
(* Instances of HmsSession for TLC. *)
EXTENDS HmsSession

MCWords == {"PING", "INFO", "BYE", "COPY", "ODD", "PONG", "ERROR", "x"}
MCLengths == {2}

(* A body may look like the end of a header. *)
Body == <<dot, newline>>

Ping == Msg("PING", <<>>)
Info == [Msg("INFO", <<>>) EXCEPT !.headers = <<<<Token("x")>>>>]
Bye == Msg("BYE", <<>>)
Copy == [Msg("COPY", <<<<Length(2)>>, <<keyval>>>>) EXCEPT !.body = Body]
OddPing == [Msg("ODD", <<<<Length(2)>>>>) EXCEPT !.body = Body]
EmptyVerb == [Ping EXCEPT !.verb = <<>>]
NoVerb == [Ping EXCEPT !.verb = NULL]
LongBye == Msg("BYE", <<<<keyval>>, <<keyval>>, <<keyval>>>>)

MCMessages == {Ping, Info, Bye, Copy, OddPing, EmptyVerb, NoVerb, LongBye}
MCInvalid == {OddPing}
MCAccepted == {Copy}
=============================================================================
