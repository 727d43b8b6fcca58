---------------------------- MODULE MCHmsParser ----------------------------
(* Instances of HmsParser for TLC. *)
EXTENDS HmsParser

MCWords == {"word"}
MCLengths == {-1, 0, 2}
MCInput == {dot, newline, return} \cup {Length(n) : n \in Lengths}
MCBroken == {dot, newline, Token("word")} \cup {Length(n) : n \in Lengths}
=============================================================================
