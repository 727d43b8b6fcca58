------------------------------- MODULE Lists -------------------------------
(***************************************************************************)
(* What hms_list.h promises: each head stands for a sequence of entries,   *)
(* and a loop over a list meets the entries that were in it when it began. *)
(***************************************************************************)
EXTENDS Sequences, SequencesExt

CONSTANTS
  Heads,
  Entries

VARIABLES
  lists,      \* the sequence of each head
  ahead       \* what a loop under way has not left behind, its current entry first

listsVars == <<lists, ahead>>

ListsInit ==
  /\ lists = [h \in Heads |-> <<>>]
  /\ ahead = <<>>

Without(e) == [h \in Heads |-> SelectSeq(lists[h], LAMBDA x : x # e)]

(* An entry gets a new place, as first or as last of a list. *)
PutFirst(e, h) ==
  /\ lists' = [Without(e) EXCEPT ![h] = <<e>> \o @]
  /\ UNCHANGED ahead

PutLast(e, h) ==
  /\ lists' = [Without(e) EXCEPT ![h] = @ \o <<e>>]
  /\ UNCHANGED ahead

Take(e) ==
  /\ lists' = Without(e)
  /\ UNCHANGED ahead

(* The entries of one list go to the front of another. *)
Join(from, to) ==
  /\ from # to
  /\ lists' = [lists EXCEPT ![to] = lists[from] \o @, ![from] = <<>>]
  /\ UNCHANGED ahead

(* A loop begins with all entries of a list, in one order or the other,    *)
(* and goes from one to the next.                                          *)
Begin(h) ==
  /\ ahead = <<>>
  /\ ahead' \in {lists[h], Reverse(lists[h])}
  /\ UNCHANGED lists

Advance ==
  /\ ahead # <<>>
  /\ ahead' = Tail(ahead)
  /\ UNCHANGED lists

ListsNext ==
  \/ \E e \in Entries : Take(e) \/ \E h \in Heads : PutFirst(e, h) \/ PutLast(e, h)
  \/ \E from, to \in Heads : Join(from, to)
  \/ \E h \in Heads : Begin(h)
  \/ Advance

ListsSpec == ListsInit /\ [][ListsNext]_listsVars
=============================================================================
