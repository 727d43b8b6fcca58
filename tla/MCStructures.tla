---------------------------- MODULE MCStructures ----------------------------
(***************************************************************************)
(* The three sequential data structures of the library, for TLC.  They do  *)
(* not interact: a behaviour uses one of them, chosen at the beginning.    *)
(***************************************************************************)
EXTENDS HashTab, HmsList, Md5

CONSTANTS a, b, h1, h2, e1, e2, e3

MCKeys == {1, 2, 3, 5}
MCData == {a, b}
MCHash == [k \in MCKeys |-> k % 2]      \* a chain of three, and one of one
MCHeads == {h1, h2}
MCEntries == {e1, e2, e3}
MCPieces == 0..23                       \* up to nearly three blocks of 8

VARIABLE used

vars == <<used, tabVars, listVars, md5Vars>>

Init ==
  /\ used \in {"hashtable.c", "hms_list.h", "md5.c"}
  /\ TabInit
  /\ ListInit
  /\ Md5Init

Next ==
  /\ UNCHANGED used
  /\ \/ used = "hashtable.c" /\ TabNext /\ UNCHANGED <<listVars, md5Vars>>
     \/ used = "hms_list.h" /\ ListNext /\ UNCHANGED <<tabVars, md5Vars>>
     \/ used = "md5.c" /\ Md5Next /\ UNCHANGED <<tabVars, listVars>>

Spec == Init /\ [][Next]_vars
=============================================================================
