-------------------------------- MODULE Dict --------------------------------
(***************************************************************************)
(* What hashtable.h promises of a hash table: a finite map from keys to    *)
(* data that holds a bounded number of entries.  answer is what the last   *)
(* call gave back, with the call's name in front.                          *)
(***************************************************************************)
EXTENDS Naturals, FiniteSets, Functions

CONSTANTS
  Keys,
  Data,
  NoDatum,      \* the NULL of a search that fails
  MaxEntries

VARIABLES
  dict,       \* a function from some keys to data
  answer

dictVars == <<dict, answer>>

Items == {<<k, dict[k]>> : k \in DOMAIN dict}

DictInit ==
  /\ dict = <<>>
  /\ answer = <<"create", "0">>

Full == Cardinality(DOMAIN dict) = MaxEntries

Put(k, d) ==
  \/ /\ answer' = <<"insert", "-EINVAL">>
     /\ Full
     /\ UNCHANGED dict
  \/ /\ answer' = <<"insert", "-EEXIST">>
     /\ ~Full
     /\ k \in DOMAIN dict
     /\ UNCHANGED dict
  \/ /\ answer' = <<"insert", "-ENOMEM">>
     /\ ~Full
     /\ k \notin DOMAIN dict
     /\ UNCHANGED dict
  \/ /\ answer' = <<"insert", "0">>
     /\ ~Full
     /\ k \notin DOMAIN dict
     /\ dict' = [j \in DOMAIN dict \cup {k} |-> IF j = k THEN d ELSE dict[j]]

At(k) == IF k \in DOMAIN dict THEN dict[k] ELSE NoDatum

Take(k) ==
  /\ answer' = <<"delete", At(k)>>
  /\ dict' = Restrict(dict, DOMAIN dict \ {k})

Look(k) ==
  /\ answer' = <<"search", At(k)>>
  /\ UNCHANGED dict

(* A traversal applies its function to every entry once, unless it fails   *)
(* for one.                                                                *)
Traverse ==
  /\ \/ answer' = <<"map", "0", Items>>
     \/ \E seen \in SUBSET Items : seen # {} /\ answer' = <<"map", "stopped", seen>>
  /\ UNCHANGED dict

(* An iteration gives some entry at each call, and NULL in the end; after  *)
(* the entry it stands on has been deleted, it may give nothing at all.    *)
Visit ==
  /\ \/ \E e \in Items : answer' = <<"iterate", e[1], e[2]>>
     \/ answer' = <<"iterate", NoDatum>>
     \/ answer' = <<"iterate">>
  /\ UNCHANGED dict

Count ==
  /\ answer' = <<"print", Cardinality(DOMAIN dict)>>
  /\ UNCHANGED dict

(* The longest of used chains: as long as the average at least, and short  *)
(* enough to leave an entry to each of the others.                         *)
Measure ==
  /\ \E used, longest \in 0..Cardinality(DOMAIN dict) :
       /\ used * longest >= Cardinality(DOMAIN dict)
       /\ dict # <<>> => used >= 1 /\ used + longest - 1 <= Cardinality(DOMAIN dict)
       /\ answer' = <<"stat", used, longest>>
  /\ UNCHANGED dict

Drop ==
  /\ answer' = <<"destroy">>
  /\ dict' = <<>>

DictNext ==
  \/ \E k \in Keys : Take(k) \/ Look(k) \/ \E d \in Data : Put(k, d)
  \/ Traverse
  \/ Visit
  \/ Count
  \/ Measure
  \/ Drop

DictSpec == DictInit /\ [][DictNext]_dictVars
=============================================================================
