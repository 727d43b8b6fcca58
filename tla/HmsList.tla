------------------------------ MODULE HmsList ------------------------------
(***************************************************************************)
(* The intrusive lists of hms_list.h: rings of next and prev pointers that *)
(* run through the heads and the entries of the lists.  The functions are  *)
(* operators from memory to memory, assignment by assignment.  The actions *)
(* are the calls a program may make: it adds an entry that is in no list,  *)
(* takes out one that is, leaves a spliced head alone until it initialises *)
(* it again, and takes out only the current entry of a safe loop.          *)
(***************************************************************************)
EXTENDS Integers, FiniteSets, Sequences

CONSTANTS
  Heads,
  Entries,
  NULL

Nodes == Heads \cup Entries

ASSUME NodesAssumption == NULL \notin Nodes /\ Heads \cap Entries = {}

VARIABLES
  mem,      \* the pointers next and prev of every node
  stale,    \* heads that hms_list_splice left pointing into another list
  loop      \* the loop under way: its macro, head, pos and n

listVars == <<mem, stale, loop>>

NoLoop == [macro |-> "none", head |-> NULL, pos |-> NULL, n |-> NULL]

SetNext(m, x, y) == [m EXCEPT !.next[x] = y]

SetPrev(m, x, y) == [m EXCEPT !.prev[x] = y]

(* HMS_INIT_LIST_HEAD *)
InitHead(m, x) == SetPrev(SetNext(m, x, x), x, x)

ListInit ==
  /\ LET self == [x \in Nodes |-> IF x \in Heads THEN x ELSE NULL]
     IN mem = [next |-> self, prev |-> self]
  /\ stale = {}
  /\ loop = NoLoop

(* mutant: without next->prev = nnew *)
AddBetweenForward(m, new, prev, next) ==
  SetNext(SetPrev(SetNext(m, new, next), new, prev), prev, new)

(* __hms_list_add *)
AddBetween(m, new, prev, next) ==
  SetNext(SetPrev(SetNext(SetPrev(m, next, new), new, next), new, prev), prev, new)

hms_list_add(m, new, head) == AddBetween(m, new, head, m.next[head])

hms_list_add_tail(m, new, head) == AddBetween(m, new, m.prev[head], head)

(* __hms_list_del, for the neighbours of entry *)
Unlink(m, entry) ==
  SetNext(SetPrev(m, m.next[entry], m.prev[entry]), m.prev[entry], m.next[entry])

hms_list_del(m, entry) == SetPrev(SetNext(Unlink(m, entry), entry, NULL), entry, NULL)

hms_list_del_init(m, entry) == InitHead(Unlink(m, entry), entry)

hms_list_move(m, entry, head) == hms_list_add(Unlink(m, entry), entry, head)

hms_list_move_tail(m, entry, head) == hms_list_add_tail(Unlink(m, entry), entry, head)

hms_list_empty(m, head) == m.next[head] = head

(* mutant: without at->prev = last *)
SpliceForward(m, list, head) ==
  LET first == m.next[list]
      last == m.prev[list]
      at == m.next[head]
  IN SetNext(SetNext(SetPrev(m, first, head), head, first), last, at)

(* __hms_list_splice *)
Splice(m, list, head) ==
  LET first == m.next[list]
      last == m.prev[list]
      at == m.next[head]
  IN SetPrev(SetNext(SetNext(SetPrev(m, first, head), head, first), last, at), at, last)

----------------------------------------------------------------------------
NoEntry(e) == mem.next[e] = NULL

InList(e) == mem.next[e] \notin {NULL, e}

Usable(head) == loop = NoLoop /\ head \notin stale

(* An entry that hms_list_del_init left pointing to itself is in no list,  *)
(* and may be added as well as moved.                                      *)
ListAdd(e, head) ==
  /\ Usable(head)
  /\ ~InList(e)
  /\ mem' = hms_list_add(mem, e, head)
  /\ UNCHANGED <<stale, loop>>

ListAddTail(e, head) ==
  /\ Usable(head)
  /\ ~InList(e)
  /\ mem' = hms_list_add_tail(mem, e, head)
  /\ UNCHANGED <<stale, loop>>

(* Outside of a loop any entry may be taken out, in a safe loop the        *)
(* current one.                                                            *)
Removable(e) ==
  /\ ~NoEntry(e)
  /\ loop # NoLoop => loop.macro = "safe" /\ loop.pos = e

ListDel(e) ==
  /\ Removable(e)
  /\ mem' = hms_list_del(mem, e)
  /\ UNCHANGED <<stale, loop>>

ListDelInit(e) ==
  /\ Removable(e)
  /\ mem' = hms_list_del_init(mem, e)
  /\ UNCHANGED <<stale, loop>>

(* A move out of a loop goes to another list than the one looped over. *)
ListMove(e, head) ==
  /\ Removable(e)
  /\ head \notin stale \cup {loop.head}
  /\ mem' = hms_list_move(mem, e, head)
  /\ UNCHANGED <<stale, loop>>

ListMoveTail(e, head) ==
  /\ Removable(e)
  /\ head \notin stale \cup {loop.head}
  /\ mem' = hms_list_move_tail(mem, e, head)
  /\ UNCHANGED <<stale, loop>>

(* The head keeps its pointers to entries that are now in another list. *)
ListSplice(list, head) ==
  /\ list # head
  /\ Usable(list) /\ Usable(head)
  /\ ~hms_list_empty(mem, list)
  /\ mem' = Splice(mem, list, head)
  /\ stale' = stale \cup {list}
  /\ UNCHANGED loop

ListSpliceInit(list, head) ==
  /\ list # head
  /\ Usable(list) /\ Usable(head)
  /\ ~hms_list_empty(mem, list)
  /\ mem' = InitHead(Splice(mem, list, head), list)
  /\ UNCHANGED <<stale, loop>>

(* Both splice functions, given an empty list. *)
ListSpliceEmpty(list, head) ==
  /\ list # head
  /\ Usable(list) /\ Usable(head)
  /\ hms_list_empty(mem, list)
  /\ UNCHANGED listVars

ListInitHead(head) ==
  /\ loop = NoLoop
  /\ head \in stale
  /\ mem' = InitHead(mem, head)
  /\ stale' = stale \ {head}
  /\ UNCHANGED loop

----------------------------------------------------------------------------
Macros == {"for_each", "for_each_prev", "safe"}

FirstPos(macro, head) == IF macro = "for_each_prev" THEN mem.prev[head] ELSE mem.next[head]

LoopBegin(macro, head) ==
  /\ Usable(head)
  /\ FirstPos(macro, head) # head
  /\ LET pos == FirstPos(macro, head)
     IN loop' = [macro |-> macro, head |-> head, pos |-> pos,
                 n |-> IF macro = "safe" THEN mem.next[pos] ELSE NULL]
  /\ UNCHANGED <<mem, stale>>

NextPos ==
  CASE loop.macro = "for_each" -> mem.next[loop.pos]
    [] loop.macro = "for_each_prev" -> mem.prev[loop.pos]
    [] OTHER -> loop.n

LoopStep ==
  /\ loop # NoLoop
  /\ loop' = IF NextPos = loop.head THEN NoLoop
             ELSE [loop EXCEPT !.pos = NextPos,
                               !.n = IF loop.macro = "safe" THEN mem.next[NextPos] ELSE NULL]
  /\ UNCHANGED <<mem, stale>>

ListNext ==
  \/ \E e \in Entries : ListDel(e) \/ ListDelInit(e)
  \/ \E e \in Entries, head \in Heads :
       ListAdd(e, head) \/ ListAddTail(e, head) \/ ListMove(e, head) \/ ListMoveTail(e, head)
  \/ \E list, head \in Heads :
       ListSplice(list, head) \/ ListSpliceInit(list, head) \/ ListSpliceEmpty(list, head)
  \/ \E head \in Heads : ListInitHead(head) \/ \E macro \in Macros : LoopBegin(macro, head)
  \/ LoopStep

ListSpec == ListInit /\ [][ListNext]_listVars

----------------------------------------------------------------------------
(* The nodes of the lists: heads that can be used, entries in a list, and  *)
(* entries that point to themselves.                                       *)
OnRing == {x \in Nodes : x \notin stale /\ mem.next[x] # NULL}

(* Whatever is added, deleted, moved and spliced, next and prev of every   *)
(* node on a ring are nodes on a ring and lead back to it (hms_list.h:     *)
(* 44-52, 87-91, 147-159 each keep both directions); in particular no list *)
(* leads to a deleted entry or to the head that a splice left stale.       *)
RingsIntact ==
  /\ mem \in [next : [Nodes -> Nodes \cup {NULL}], prev : [Nodes -> Nodes \cup {NULL}]]
  /\ \A x \in OnRing :
       /\ mem.next[x] \in OnRing /\ mem.prev[mem.next[x]] = x
       /\ mem.prev[x] \in OnRing /\ mem.next[mem.prev[x]] = x

(* The nodes from x on along the pointers of f, up to head. *)
Path(f, x, head) ==
  LET at[i \in 0..Cardinality(Nodes)] ==
        IF i = 0 THEN x
        ELSE IF at[i - 1] \in {head, NULL} THEN at[i - 1] ELSE f[at[i - 1]]
  IN SelectSeq([i \in 1..Cardinality(Nodes) |-> at[i - 1]], LAMBDA y : y \notin {head, NULL})

L == INSTANCE Lists WITH
       lists <- [head \in Heads |->
                   IF head \in stale THEN <<>> ELSE Path(mem.next, mem.next[head], head)],
       ahead <- IF loop = NoLoop THEN <<>>
                ELSE <<loop.pos>> \o
                     Path(IF loop.macro = "for_each_prev" THEN mem.prev ELSE mem.next,
                          IF loop.macro = "safe" THEN loop.n
                          ELSE IF loop.macro = "for_each" THEN mem.next[loop.pos]
                          ELSE mem.prev[loop.pos], loop.head)

(* The rings stand for sequences: hms_list_add and hms_list_move put an    *)
(* entry first, the tail forms last, a splice puts one sequence before     *)
(* another, and the loops meet each entry once, in order or in reverse,    *)
(* also when a safe loop takes out the entry it is at.                     *)
ImplementsLists == L!ListsSpec
=============================================================================
