------------------------------ MODULE MCHmsMsg ------------------------------
(* Instances of HmsMsg for TLC. *)
EXTENDS HmsMsg

MCNames == {"Content-Length", "Content-Checksum", "Filename"}
MCUserNames == {"Content-Checksum", "Filename"}
MCCases == {"Xxx", "XXX"}
MCVerbs == {"COPY"}
=============================================================================
