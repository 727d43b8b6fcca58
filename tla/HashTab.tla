------------------------------ MODULE HashTab ------------------------------
(***************************************************************************)
(* The chained hash table of hashtable.c.  A chain is the sequence of its  *)
(* nodes; the loops over cur stand as the index at which they stop.  Keys  *)
(* are told apart and ordered as keycmp does, so that two keys it calls    *)
(* equal are one key here.  hashtab_iterate is one step per call, and the  *)
(* table may change between two calls.                                     *)
(***************************************************************************)
EXTENDS Integers, SequencesExt

CONSTANTS
  Keys,                \* integers, in the order of keycmp
  Data,
  NoDatum,             \* NULL as the answer of a search or a deletion
  size,                \* number of slots
  hash_value,          \* the slot of each key
  HASHTAB_MAX_NODES,
  MaxLost              \* bound on the nodes that deletions leave allocated

Slots == 0..(size - 1)

ASSUME HashTabAssumption ==
  /\ Keys \subseteq Int
  /\ size \in Nat \ {0}
  /\ hash_value \in [Keys -> Slots]
  /\ HASHTAB_MAX_NODES \in Nat
  /\ MaxLost \in Nat
  /\ NoDatum \notin Data

VARIABLES
  table,       \* "live", "destroyed", or "undefined" after the use of freed memory
  htable,      \* the chain of each slot
  nel,
  allocated,   \* nodes that malloc gave and free did not take back
  iter,        \* the iterator, its node, and what it stands for
  ret          \* what the last call gave back

tabVars == <<table, htable, nel, allocated, iter, ret>>

Node == [key : Keys, datum : Data]

(* The node under the iterator: in its chain, unlinked with next set to    *)
(* NULL, or freed; "end" when there is no iterator.                        *)
NodeStates == {"linked", "unlinked", "freed", "end"}

NoIterator ==
  [node |-> "end", slot |-> 0, key |-> 0, visited |-> <<>>, kept |-> {}, lost |-> {}]

TabInit ==
  /\ table = "live"
  /\ htable = [i \in Slots |-> <<>>]
  /\ nel = 0
  /\ allocated = 0
  /\ iter = NoIterator
  /\ ret = <<"create", "0">>

chain(key) == htable[hash_value[key]]

KeysOf(c) == {c[i].key : i \in DOMAIN c}

(* The places of the nodes: a slot, and a position in its chain. *)
Places == UNION {{i} \X DOMAIN htable[i] : i \in Slots}

NodeCount == Cardinality(Places)

InTable == UNION {KeysOf(htable[i]) : i \in Slots}

(* mutant: with >= 0 in the place of > 0 *)
StopAfter(c, key) == SelectInSeq(c, LAMBDA n : n.key > key)

(* The first node that is not before key, 0 if there is none. *)
Stop(c, key) == SelectInSeq(c, LAMBDA n : n.key >= key)

(* The node with key, 0 if there is none. *)
PlaceOf(c, key) == SelectInSeq(c, LAMBDA n : n.key = key)

Found(c, key) == Stop(c, key) # 0 /\ c[Stop(c, key)].key = key

----------------------------------------------------------------------------
InsertRefused ==
  /\ nel = HASHTAB_MAX_NODES
  /\ ret' = <<"insert", "-EINVAL">>
  /\ UNCHANGED <<table, htable, nel, allocated, iter>>

InsertExists(key) ==
  /\ nel # HASHTAB_MAX_NODES
  /\ Found(chain(key), key)
  /\ ret' = <<"insert", "-EEXIST">>
  /\ UNCHANGED <<table, htable, nel, allocated, iter>>

(* malloc gives no node. *)
InsertNoMemory(key) ==
  /\ nel # HASHTAB_MAX_NODES
  /\ ~Found(chain(key), key)
  /\ ret' = <<"insert", "-ENOMEM">>
  /\ UNCHANGED <<table, htable, nel, allocated, iter>>

Insert(key, datum) ==
  /\ nel # HASHTAB_MAX_NODES
  /\ ~Found(chain(key), key)
  /\ LET at == Stop(chain(key), key)
         node == [key |-> key, datum |-> datum]
     IN htable' = [htable EXCEPT ![hash_value[key]] =
                      IF at = 0 THEN Append(@, node) ELSE InsertAt(@, at, node)]
  /\ nel' = nel + 1
  /\ allocated' = allocated + 1
  /\ ret' = <<"insert", "0">>
  /\ UNCHANGED <<table, iter>>

(* What the deletion of a node means for an iterator on it, and for what   *)
(* the iteration has been and will be through: the keys that have been in  *)
(* the table since it began, and the slots in which it lost its place.     *)
WithoutNode(key, state) ==
  LET on == iter.node = "linked" /\ iter.key = key
  IN [iter EXCEPT !.kept = @ \ {key},
                  !.node = IF on THEN state ELSE @,
                  !.lost = IF on THEN @ \cup {iter.slot} ELSE @]

DeleteFirst(key) ==
  /\ chain(key) # <<>>
  /\ Head(chain(key)).key = key
  /\ ret' = <<"delete", Head(chain(key)).datum>>
  /\ htable' = [htable EXCEPT ![hash_value[key]] = Tail(@)]
  /\ nel' = nel - 1
  /\ allocated' = allocated - 1
  /\ iter' = WithoutNode(key, "freed")
  /\ UNCHANGED table

(* mutant: without the nel-- of line 114 *)
DeleteLaterUncounted(key) ==
  /\ allocated - nel < MaxLost
  /\ LET at == PlaceOf(chain(key), key)
     IN /\ at > 1
        /\ ret' = <<"delete", chain(key)[at].datum>>
        /\ htable' = [htable EXCEPT ![hash_value[key]] = RemoveAt(@, at)]
  /\ iter' = WithoutNode(key, "unlinked")
  /\ UNCHANGED <<table, nel, allocated>>

(* The node is taken out of the chain and not freed. *)
DeleteLater(key) ==
  /\ allocated - nel < MaxLost
  /\ LET at == PlaceOf(chain(key), key)
     IN /\ at > 1
        /\ ret' = <<"delete", chain(key)[at].datum>>
        /\ htable' = [htable EXCEPT ![hash_value[key]] = RemoveAt(@, at)]
  /\ nel' = nel - 1
  /\ iter' = WithoutNode(key, "unlinked")
  /\ UNCHANGED <<table, allocated>>

DeleteAbsent(key) ==
  /\ key \notin KeysOf(chain(key))
  /\ ret' = <<"delete", NoDatum>>
  /\ UNCHANGED <<table, htable, nel, allocated, iter>>

Search(key) ==
  /\ ret' = <<"search", IF Found(chain(key), key)
                        THEN chain(key)[Stop(chain(key), key)].datum ELSE NoDatum>>
  /\ UNCHANGED <<table, htable, nel, allocated, iter>>

----------------------------------------------------------------------------
(* The nodes in the order in which the loops over slots and chains meet them. *)
AllNodes == FlattenSeq([i \in 1..size |-> htable[i - 1]])

Pairs(nodes) == {<<nodes[i].key, nodes[i].datum>> : i \in DOMAIN nodes}

(* hashtab_map with an apply that fails for the key of bad, if any. *)
Map(bad) ==
  /\ LET failed == SelectInSeq(AllNodes, LAMBDA n : n.key \in bad)
     IN ret' = IF failed = 0 THEN <<"map", "0", Pairs(AllNodes)>>
               ELSE <<"map", "stopped", Pairs(SubSeq(AllNodes, 1, failed))>>
  /\ UNCHANGED <<table, htable, nel, allocated, iter>>

TabPrint ==
  /\ ret' = <<"print", NodeCount>>
  /\ UNCHANGED <<table, htable, nel, allocated, iter>>

Stat ==
  /\ ret' = <<"stat", Cardinality({i \in Slots : htable[i] # <<>>}),
                      Max({Len(htable[i]) : i \in Slots})>>
  /\ UNCHANGED <<table, htable, nel, allocated, iter>>

(* Only the nodes that are still in a chain are freed. *)
TabDestroy ==
  /\ table' = "destroyed"
  /\ allocated' = allocated - NodeCount
  /\ htable' = [i \in Slots |-> <<>>]
  /\ nel' = 0
  /\ iter' = NoIterator
  /\ ret' = <<"destroy">>

----------------------------------------------------------------------------
(* The first call allocates the iterator, and goes on as any other. *)
Current ==
  IF iter.node # "end" THEN iter
  ELSE [node |-> "none", slot |-> 0, key |-> 0, visited |-> <<>>,
        kept |-> InTable, lost |-> {}]

(* mutant: each call goes on with the next slot *)
RestOfNextSlot == IF Current.node = "none" THEN htable[0] ELSE <<>>

(* What follows the node under the iterator in its chain: all of slot 0    *)
(* without a node, nothing for one that has been unlinked.                 *)
Rest ==
  CASE Current.node = "none" -> htable[0]
    [] Current.node = "linked" ->
         LET c == htable[Current.slot]
         IN SubSeq(c, PlaceOf(c, Current.key) + 1, Len(c))
    [] OTHER -> <<>>

(* The slots at which the loop over level can stop, and what it finds there. *)
Ahead(i) == IF i = Current.slot THEN Rest ELSE htable[i]

Levels == {i \in Current.slot..(size - 1) : Ahead(i) # <<>>}

Iterate ==
  /\ iter.node # "freed"
  /\ Levels # {}
  /\ LET level == Min(Levels)
         cur == Head(Ahead(level))
     IN /\ iter' = [Current EXCEPT !.node = "linked", !.slot = level, !.key = cur.key,
                                   !.visited = Append(@, cur.key)]
        /\ ret' = <<"iterate", cur.key, cur.datum>>
  /\ UNCHANGED <<table, htable, nel, allocated>>

IterateEnd ==
  /\ iter.node # "freed"
  /\ Levels = {}
  /\ iter' = NoIterator
  /\ ret' = <<"iterate", NoDatum>>
  /\ UNCHANGED <<table, htable, nel, allocated>>

(* The next of a freed node is read: anything may follow. *)
IterateFreed ==
  /\ iter.node = "freed"
  /\ table' = "undefined"
  /\ ret' = <<"iterate">>
  /\ UNCHANGED <<htable, nel, allocated, iter>>

TabNext ==
  /\ table = "live"
  /\ \/ InsertRefused
     \/ \E key \in Keys :
          \/ InsertExists(key)
          \/ InsertNoMemory(key)
          \/ \E datum \in Data : Insert(key, datum)
          \/ DeleteFirst(key)
          \/ DeleteLater(key)
          \/ DeleteAbsent(key)
          \/ Search(key)
     \/ \E bad \in {{}} \cup {{key} : key \in Keys} : Map(bad)
     \/ TabPrint
     \/ Stat
     \/ TabDestroy
     \/ Iterate
     \/ IterateEnd
     \/ IterateFreed

TabSpec == TabInit /\ [][TabNext]_tabVars

----------------------------------------------------------------------------
(* The table's structure through any sequence of calls, which search,      *)
(* insert and the limit on nodes rely on: every chain is strictly ordered  *)
(* by keycmp and holds only keys of its slot (hashtab_search stops at the  *)
(* first key that is not smaller, hashtable.c:139), and nel is the number  *)
(* of nodes in the chains.  What is allocated beyond these nodes was left  *)
(* behind by the deletion of a node that was not first in its chain.       *)
TableConsistent ==
  /\ table \in {"live", "destroyed", "undefined"}
  /\ iter.node \in NodeStates
  /\ \A i \in Slots :
       /\ htable[i] \in Seq(Node)
       /\ \A j \in DOMAIN htable[i] : hash_value[htable[i][j].key] = i
       /\ \A j, k \in DOMAIN htable[i] : j < k => htable[i][j].key < htable[i][k].key
  /\ nel = NodeCount
  /\ nel <= HASHTAB_MAX_NODES
  /\ allocated - nel \in 0..MaxLost

(* hashtab_iterate, called until it returns NULL while other calls insert  *)
(* and delete in between, returns no key twice, and returns every key that *)
(* was in the table all the time.  If the node under the iterator is       *)
(* deleted, the rest of its chain may be passed over, as its next is NULL, *)
(* and nothing but that: the iteration goes on with the next slot.         *)
IterationComplete ==
  [][/\ IsInjective(iter'.visited)
     /\ ret' = <<"iterate", NoDatum>> =>
          \A key \in iter.kept : key \in ToSet(iter.visited) \/ hash_value[key] \in iter.lost]_tabVars

----------------------------------------------------------------------------
D == INSTANCE Dict WITH
       MaxEntries <- HASHTAB_MAX_NODES,
       answer <- ret,
       dict <- LET nodes == UNION {ToSet(htable[i]) : i \in Slots}
               IN [key \in {node.key : node \in nodes} |->
                     (CHOOSE node \in nodes : node.key = key).datum]

(* The table is the finite map of hashtable.h: a search and a deletion     *)
(* give the datum last inserted under the key or NULL, an insertion is     *)
(* refused exactly when the key is there or the table full, traversals     *)
(* meet every entry once.                                                  *)
ImplementsDict == D!DictSpec
=============================================================================
