-------------------------- MODULE StructureProofs --------------------------
(***************************************************************************)
(* The proofs about the sequential data structures of the library: the     *)
(* intrusive lists, the hash table and the MD5 context.                    *)
(***************************************************************************)
EXTENDS HmsList, HashTab, Md5, SeqLemmas, FiniteSetTheorems

-----------------------------------------------------------------------------
(***************************************************************************)
(* The rings of hms_list.h stay rings, for any number of heads and entries *)
(* and any sequence of the calls that a program may make.                  *)
(***************************************************************************)

Memory == [next : [Nodes -> Nodes \cup {NULL}], prev : [Nodes -> Nodes \cup {NULL}]]

(* In memory m the nodes of S form rings. *)
Rings(m, S) ==
  /\ m \in Memory
  /\ S \subseteq Nodes
  /\ \A x \in S :
       /\ m.next[x] \in S /\ m.prev[m.next[x]] = x
       /\ m.prev[x] \in S /\ m.next[m.prev[x]] = x

(* No ring has two heads: each node has an owner, which is that of the     *)
(* node after it, and a head owns itself.  Without it hms_list_splice      *)
(* could tear a ring apart.                                                *)
Owns(m, S, own) ==
  /\ own \in [S -> Nodes]
  /\ \A x \in S : own[m.next[x]] = own[x]
  /\ \A x \in S \cap Heads : own[x] = x

(* The memory is sound on S. *)
Linked(m, S) == Rings(m, S) /\ \E own : Owns(m, S, own)

(* The inductive invariant. *)
ListInv ==
  /\ Linked(mem, OnRing)
  /\ stale \subseteq Heads
  /\ \A h \in Heads : mem.next[h] # NULL

-----------------------------------------------------------------------------
(* Operators on memory *)

(* A node put between two neighbours. *)
LEMMA AddBetweenMemory ==
  ASSUME NEW m \in Memory, NEW e \in Nodes, NEW p \in Nodes, NEW n \in Nodes, e # p, e # n
  PROVE  /\ AddBetween(m, e, p, n) \in Memory
         /\ \A z \in Nodes : AddBetween(m, e, p, n).next[z] =
              IF z = p THEN e ELSE IF z = e THEN n ELSE m.next[z]
         /\ \A z \in Nodes : AddBetween(m, e, p, n).prev[z] =
              IF z = e THEN p ELSE IF z = n THEN e ELSE m.prev[z]
BY DEF AddBetween, Memory, SetNext, SetPrev

(* The ring closes behind a node that is taken out; its own pointers stay. *)
LEMMA UnlinkMemory ==
  ASSUME NEW m \in Memory, NEW e \in Nodes, m.next[e] \in Nodes, m.prev[e] \in Nodes
  PROVE  /\ Unlink(m, e) \in Memory
         /\ \A z \in Nodes : Unlink(m, e).next[z] = IF z = m.prev[e] THEN m.next[e] ELSE m.next[z]
         /\ \A z \in Nodes : Unlink(m, e).prev[z] = IF z = m.next[e] THEN m.prev[e] ELSE m.prev[z]
BY DEF Unlink, Memory, SetNext, SetPrev

(* A head, or an entry, that points to itself. *)
LEMMA InitHeadMemory ==
  ASSUME NEW m \in Memory, NEW x \in Nodes
  PROVE  /\ InitHead(m, x) \in Memory
         /\ \A z \in Nodes : InitHead(m, x).next[z] = IF z = x THEN x ELSE m.next[z]
         /\ \A z \in Nodes : InitHead(m, x).prev[z] = IF z = x THEN x ELSE m.prev[z]
BY DEF InitHead, Memory, SetNext, SetPrev

(* The four assignments of a splice, to different pointers. *)
LEMMA SpliceMemory ==
  ASSUME NEW m \in Memory, NEW l \in Nodes, NEW h \in Nodes,
         m.next[l] \in Nodes, m.prev[l] \in Nodes, m.next[h] \in Nodes,
         m.next[l] # m.next[h], m.prev[l] # h
  PROVE  /\ Splice(m, l, h) \in Memory
         /\ \A z \in Nodes : Splice(m, l, h).next[z] =
              IF z = h THEN m.next[l] ELSE IF z = m.prev[l] THEN m.next[h] ELSE m.next[z]
         /\ \A z \in Nodes : Splice(m, l, h).prev[z] =
              IF z = m.next[l] THEN h ELSE IF z = m.next[h] THEN m.prev[l] ELSE m.prev[z]
BY DEF Splice, Memory, SetNext, SetPrev

(* hms_list_del clears the pointers of the node as well. *)
LEMMA DelMemory ==
  ASSUME NEW m \in Memory, NEW e \in Nodes, m.next[e] \in Nodes, m.prev[e] \in Nodes
  PROVE  /\ hms_list_del(m, e) \in Memory
         /\ \A z \in Nodes : hms_list_del(m, e).next[z] = IF z = e THEN NULL ELSE Unlink(m, e).next[z]
         /\ \A z \in Nodes : hms_list_del(m, e).prev[z] = IF z = e THEN NULL ELSE Unlink(m, e).prev[z]
<1>1. Unlink(m, e) \in Memory
  BY UnlinkMemory
<1> QED
  BY <1>1 DEF hms_list_del, Memory, SetNext, SetPrev

-----------------------------------------------------------------------------
(* What the operators do to rings *)

(* Only the pointers of the nodes on the rings matter. *)
LEMMA LinkedFrame ==
  ASSUME NEW m, NEW S, Linked(m, S), NEW m2 \in Memory,
         \A x \in S : m2.next[x] = m.next[x] /\ m2.prev[x] = m.prev[x]
  PROVE  Linked(m2, S)
<1>1. Rings(m2, S)
  BY DEF Linked, Rings
<1>2. PICK own : Owns(m, S, own)
  BY DEF Linked
<1>3. Owns(m2, S, own)
  BY <1>2 DEF Owns
<1> QED
  BY <1>1, <1>3 DEF Linked

(* Taking out any node of a ring leaves rings. *)
LEMMA LinkedUnlink ==
  ASSUME NEW m, NEW S, Linked(m, S), NEW e \in S
  PROVE  Linked(Unlink(m, e), S \ {e})
<1> DEFINE u == Unlink(m, e)
<1>1. /\ m \in Memory /\ S \subseteq Nodes /\ e \in Nodes
      /\ m.next[e] \in S /\ m.prev[e] \in S
      /\ m.next[e] \in Nodes /\ m.prev[e] \in Nodes
  BY DEF Linked, Rings
<1>2. \A x \in S :
        /\ m.next[x] \in S /\ m.prev[m.next[x]] = x
        /\ m.prev[x] \in S /\ m.next[m.prev[x]] = x
  BY DEF Linked, Rings
<1>3. /\ u \in Memory
      /\ \A z \in Nodes : u.next[z] = IF z = m.prev[e] THEN m.next[e] ELSE m.next[z]
      /\ \A z \in Nodes : u.prev[z] = IF z = m.next[e] THEN m.prev[e] ELSE m.prev[z]
  BY <1>1, UnlinkMemory
<1> HIDE DEF u
<1>4. ASSUME NEW x \in S \ {e}
      PROVE  /\ u.next[x] \in S \ {e} /\ u.prev[u.next[x]] = x
             /\ u.prev[x] \in S \ {e} /\ u.next[u.prev[x]] = x
  BY <1>1, <1>2, <1>3, SMTT(60)
<1>5. Rings(u, S \ {e})
  BY <1>1, <1>3, <1>4 DEF Rings
<1>6. PICK own : Owns(m, S, own)
  BY DEF Linked
<1>7. Owns(u, S \ {e}, [x \in S \ {e} |-> own[x]])
  BY <1>1, <1>2, <1>3, <1>4, <1>6 DEF Owns
<1> QED
  BY <1>5, <1>7 DEF Linked, u

(* An entry that points to itself is a ring of its own. *)
LEMMA LinkedWithout ==
  ASSUME NEW m, NEW S, Linked(m, S), NEW e, e \in S => m.next[e] = e
  PROVE  Linked(m, S \ {e})
<1>1. CASE e \notin S
  <2>1. S \ {e} = S
    BY <1>1
  <2> QED
    BY <2>1
<1>2. CASE e \in S
  <2>1. Rings(m, S \ {e})
    BY <1>2 DEF Linked, Rings
  <2>2. PICK own : Owns(m, S, own)
    BY DEF Linked
  <2>3. Owns(m, S \ {e}, [x \in S \ {e} |-> own[x]])
    BY <2>1, <2>2 DEF Owns, Rings
  <2> QED
    BY <2>1, <2>3 DEF Linked
<1> QED
  BY <1>1, <1>2

(* A node of no ring may be put behind any node of a ring. *)
LEMMA LinkedAdd ==
  ASSUME NEW m, NEW S, Linked(m, S), NEW e \in Entries, e \notin S, NEW p \in S
  PROVE  /\ Linked(AddBetween(m, e, p, m.next[p]), S \cup {e})
         /\ \A z \in Nodes : AddBetween(m, e, p, m.next[p]).next[z] = NULL
                               <=> z # e /\ m.next[z] = NULL
<1> DEFINE n == m.next[p]
           a == AddBetween(m, e, p, n)
<1>1. /\ m \in Memory /\ S \subseteq Nodes /\ e \in Nodes /\ p \in Nodes
      /\ n \in S /\ n \in Nodes /\ e # p /\ e # n
  BY DEF Linked, Rings, Nodes
<1>2. \A x \in S :
        /\ m.next[x] \in S /\ m.prev[m.next[x]] = x
        /\ m.prev[x] \in S /\ m.next[m.prev[x]] = x
  BY DEF Linked, Rings
<1>3. m.prev[n] = p
  BY <1>2
<1>0. n = m.next[p]
  OBVIOUS
<1> HIDE DEF n
<1>4. /\ a \in Memory
      /\ \A z \in Nodes : a.next[z] = IF z = p THEN e ELSE IF z = e THEN n ELSE m.next[z]
      /\ \A z \in Nodes : a.prev[z] = IF z = e THEN p ELSE IF z = n THEN e ELSE m.prev[z]
  BY <1>1, AddBetweenMemory
<1> HIDE DEF a
<1>5. ASSUME NEW x \in S \cup {e}
      PROVE  /\ a.next[x] \in S \cup {e} /\ a.prev[a.next[x]] = x
             /\ a.prev[x] \in S \cup {e} /\ a.next[a.prev[x]] = x
  BY <1>1, <1>2, <1>3, <1>4, <1>0
<1>6. Rings(a, S \cup {e})
  BY <1>1, <1>4, <1>5 DEF Rings
<1>7. PICK own : Owns(m, S, own)
  BY DEF Linked
<1>8. Owns(a, S \cup {e}, [x \in S \cup {e} |-> IF x = e THEN own[p] ELSE own[x]])
  BY <1>1, <1>2, <1>4, <1>5, <1>7, <1>0, NodesAssumption DEF Owns
<1>9. \A z \in Nodes : a.next[z] = NULL <=> z # e /\ m.next[z] = NULL
  BY <1>0, <1>1, <1>4, NodesAssumption
<1> QED
  BY <1>0, <1>6, <1>8, <1>9 DEF Linked, a

(* A node of no ring may be made a ring of its own. *)
LEMMA LinkedSelf ==
  ASSUME NEW m, NEW S, Linked(m, S), NEW y \in Nodes, y \notin S
  PROVE  Linked(InitHead(m, y), S \cup {y})
<1> DEFINE i == InitHead(m, y)
<1>1. m \in Memory /\ S \subseteq Nodes
  BY DEF Linked, Rings
<1>2. /\ i \in Memory
      /\ \A z \in Nodes : i.next[z] = IF z = y THEN y ELSE m.next[z]
      /\ \A z \in Nodes : i.prev[z] = IF z = y THEN y ELSE m.prev[z]
  BY <1>1, InitHeadMemory
<1> HIDE DEF i
<1>3. Rings(i, S \cup {y})
  BY <1>1, <1>2 DEF Linked, Rings
<1>4. PICK own : Owns(m, S, own)
  BY DEF Linked
<1>5. Owns(i, S \cup {y}, [x \in S \cup {y} |-> IF x = y THEN y ELSE own[x]])
  BY <1>1, <1>2, <1>3, <1>4 DEF Owns, Linked, Rings
<1> QED
  BY <1>3, <1>5 DEF Linked, i

(* A splice joins the ring of one head, without that head, to the ring of  *)
(* another: the two rings differ because each head owns its ring.          *)
LEMMA LinkedSplice ==
  ASSUME NEW m, NEW S, Linked(m, S), NEW l \in S \cap Heads, NEW h \in S \cap Heads,
         l # h, m.next[l] # l
  PROVE  /\ Linked(Splice(m, l, h), S \ {l})
         /\ \A z \in Nodes : Splice(m, l, h).next[z] = NULL <=> m.next[z] = NULL
<1> DEFINE s == Splice(m, l, h)
<1>1. m \in Memory /\ S \subseteq Nodes /\ l \in Nodes /\ h \in Nodes
  BY DEF Linked, Rings, Nodes
<1>2. \A x \in S :
        /\ m.next[x] \in S /\ m.prev[m.next[x]] = x
        /\ m.prev[x] \in S /\ m.next[m.prev[x]] = x
  BY DEF Linked, Rings
<1>3. PICK own : Owns(m, S, own)
  BY DEF Linked
<1>4. /\ own[m.next[l]] = l /\ own[m.prev[l]] = l /\ own[m.next[h]] = h
      /\ own[l] = l /\ own[h] = h
  BY <1>2, <1>3 DEF Owns
<1>5. /\ m.next[l] \in Nodes /\ m.prev[l] \in Nodes /\ m.next[h] \in Nodes
      /\ m.next[l] # m.next[h] /\ m.prev[l] # h /\ m.prev[l] # l /\ m.next[h] # l
  BY <1>1, <1>2, <1>4
<1>6. /\ s \in Memory
      /\ \A z \in Nodes : s.next[z] =
           IF z = h THEN m.next[l] ELSE IF z = m.prev[l] THEN m.next[h] ELSE m.next[z]
      /\ \A z \in Nodes : s.prev[z] =
           IF z = m.next[l] THEN h ELSE IF z = m.next[h] THEN m.prev[l] ELSE m.prev[z]
  BY <1>1, <1>5, SpliceMemory
<1> HIDE DEF s
<1>7. ASSUME NEW x \in S \ {l}
      PROVE  /\ s.next[x] \in S \ {l} /\ s.prev[s.next[x]] = x
             /\ s.prev[x] \in S \ {l} /\ s.next[s.prev[x]] = x
  <2>1. s.next[x] \in S \ {l} /\ s.prev[s.next[x]] = x
    BY <1>1, <1>2, <1>5, <1>6
  <2>2. s.prev[x] \in S \ {l} /\ s.next[s.prev[x]] = x
    BY <1>1, <1>2, <1>5, <1>6
  <2> QED
    BY <2>1, <2>2
<1>8. Rings(s, S \ {l})
  BY <1>1, <1>6, <1>7 DEF Rings
<1>9. Owns(s, S \ {l}, [x \in S \ {l} |-> IF own[x] = l THEN h ELSE own[x]])
  <2> DEFINE o == [x \in S \ {l} |-> IF own[x] = l THEN h ELSE own[x]]
  <2>1. o \in [S \ {l} -> Nodes]
    BY <1>1, <1>3 DEF Owns
  <2>2. \A x \in S \ {l} : o[x] = IF own[x] = l THEN h ELSE own[x]
    OBVIOUS
  <2> HIDE DEF o
  <2>3. ASSUME NEW x \in S \ {l} PROVE o[s.next[x]] = o[x]
    <3>1. own[m.next[x]] = own[x]
      BY <1>3 DEF Owns
    <3> QED
      BY <1>1, <1>2, <1>4, <1>5, <1>6, <1>7, <2>2, <3>1
  <2>4. ASSUME NEW x \in (S \ {l}) \cap Heads PROVE o[x] = x
    BY <1>3, <2>2 DEF Owns
  <2>5. Owns(s, S \ {l}, o)
    BY <2>1, <2>3, <2>4 DEF Owns
  <2> QED
    BY <2>5 DEF o
<1>10. \A z \in Nodes : s.next[z] = NULL <=> m.next[z] = NULL
  BY <1>1, <1>2, <1>5, <1>6, NodesAssumption
<1> QED
  BY <1>8, <1>9, <1>10 DEF Linked, s

-----------------------------------------------------------------------------
(* The calls *)

(* What an action needs of the invariant: the head it uses is on a ring,   *)
(* and so is every entry that has a neighbour.                             *)
LEMMA OnRingFacts ==
  ASSUME ListInv
  PROVE  /\ mem \in Memory /\ OnRing \subseteq Nodes
         /\ \A x \in Nodes : x \in OnRing <=> x \notin stale /\ mem.next[x] # NULL
         /\ \A h \in Heads \ stale : h \in OnRing
         /\ \A e \in Entries : ~NoEntry(e) => e \in OnRing
         /\ \A x \in OnRing : mem.next[x] \in OnRing /\ mem.prev[x] \in OnRing
         /\ \A x \in OnRing : mem.next[mem.prev[x]] = x
         /\ NULL \notin OnRing
BY NodesAssumption DEF ListInv, Linked, Rings, OnRing, Nodes, NoEntry

(* A call keeps the invariant when the new memory is sound on the nodes    *)
(* that the new state counts as on a ring.                                 *)
LEMMA ListInvFrom ==
  ASSUME NEW S, Linked(mem', S), stale' \subseteq Heads,
         \A h \in Heads : mem'.next[h] # NULL,
         S \subseteq Nodes,
         \A x \in Nodes : x \in S <=> x \notin stale' /\ mem'.next[x] # NULL
  PROVE  ListInv'
<1>1. OnRing' = S
  BY DEF OnRing
<1> QED
  BY <1>1 DEF ListInv

(* hms_list_add and hms_list_add_tail, of an entry that is in no list *)
LEMMA ListAddInv ==
  ASSUME ListInv, NEW e \in Entries, NEW head \in Heads,
         ListAdd(e, head) \/ ListAddTail(e, head)
  PROVE  ListInv'
<1> DEFINE S == OnRing \ {e}
<1>1. e \in Nodes /\ head \in Nodes /\ e # head /\ head \in OnRing /\ e \notin stale
  BY OnRingFacts, NodesAssumption DEF Nodes, ListAdd, ListAddTail, Usable, ListInv
<1>2. e \in OnRing => mem.next[e] = e
  BY OnRingFacts DEF ListAdd, ListAddTail, InList
<1>3. Linked(mem, S)
  BY <1>2, LinkedWithout DEF ListInv
<1>4. /\ head \in S /\ mem.next[head] \in S /\ mem.prev[head] \in S
      /\ mem.next[mem.prev[head]] = head
  BY <1>1, <1>3 DEF Linked, Rings
<1>5. PICK p \in S : mem' = AddBetween(mem, e, p, mem.next[p])
  <2>1. CASE ListAdd(e, head)
    BY <1>4, <2>1 DEF ListAdd, hms_list_add
  <2>2. CASE ListAddTail(e, head)
    BY <1>4, <2>2 DEF ListAddTail, hms_list_add_tail
  <2> QED
    BY <2>1, <2>2
<1>6. /\ Linked(mem', S \cup {e})
      /\ \A z \in Nodes : mem'.next[z] = NULL <=> z # e /\ mem.next[z] = NULL
  <2>1. e \notin S
    OBVIOUS
  <2>2. PICK u : u = mem
    OBVIOUS
  <2>3. Linked(u, S) /\ mem' = AddBetween(u, e, p, u.next[p])
    BY <1>3, <1>5, <2>2
  <2> HIDE DEF S
  <2>4. /\ Linked(mem', S \cup {e})
        /\ \A z \in Nodes : mem'.next[z] = NULL <=> z # e /\ u.next[z] = NULL
    BY <2>1, <2>3, LinkedAdd
  <2> QED
    BY <2>2, <2>4
<1>7. stale' = stale
  BY DEF ListAdd, ListAddTail
<1>8. \A x \in Nodes : x \in S \cup {e} <=> x \notin stale' /\ mem'.next[x] # NULL
  <2>1. \A x \in Nodes : x \in OnRing <=> x \notin stale /\ mem.next[x] # NULL
    BY OnRingFacts
  <2> QED
    BY <1>1, <1>6, <1>7, <2>1
<1>9. \A h \in Heads : mem'.next[h] # NULL
  BY <1>6 DEF ListInv, Nodes
<1>10. S \cup {e} \subseteq Nodes
  BY <1>1, OnRingFacts
<1>11. stale' \subseteq Heads
  BY <1>7 DEF ListInv
<1> HIDE DEF S
<1> QED
  BY <1>6, <1>8, <1>9, <1>10, <1>11, ListInvFrom

(* The memory after __hms_list_del, for an entry on a ring *)
LEMMA UnlinkEntry ==
  ASSUME ListInv, NEW e \in Entries, Removable(e)
  PROVE  /\ e \in Nodes /\ e \in OnRing /\ e \notin stale /\ e \notin Heads
         /\ mem.next[e] \in Nodes /\ mem.prev[e] \in Nodes
         /\ Linked(Unlink(mem, e), OnRing \ {e})
         /\ \A z \in Nodes : Unlink(mem, e).next[z] = NULL <=> mem.next[z] = NULL
<1>1. e \in Nodes /\ e \in OnRing /\ e \notin stale /\ e \notin Heads
  BY OnRingFacts, NodesAssumption DEF Removable, Nodes, ListInv
<1>2. mem.next[e] \in Nodes /\ mem.prev[e] \in Nodes
  BY <1>1, OnRingFacts
<1>3. Linked(Unlink(mem, e), OnRing \ {e})
  BY <1>1, LinkedUnlink DEF ListInv
<1>4. \A z \in Nodes : Unlink(mem, e).next[z] =
        IF z = mem.prev[e] THEN mem.next[e] ELSE mem.next[z]
  BY <1>1, <1>2, OnRingFacts, UnlinkMemory
<1>5. mem.next[mem.prev[e]] # NULL /\ mem.next[e] # NULL
  BY <1>1, OnRingFacts
<1> QED
  BY <1>1, <1>2, <1>3, <1>4, <1>5

(* hms_list_del *)
LEMMA ListDelInv ==
  ASSUME ListInv, NEW e \in Entries, ListDel(e)
  PROVE  ListInv'
<1>1. Removable(e) /\ mem' = hms_list_del(mem, e) /\ stale' = stale
  BY DEF ListDel
<1>2. /\ mem' \in Memory
      /\ \A z \in Nodes : mem'.next[z] = IF z = e THEN NULL ELSE Unlink(mem, e).next[z]
      /\ \A z \in Nodes : mem'.prev[z] = IF z = e THEN NULL ELSE Unlink(mem, e).prev[z]
  <2>1. mem \in Memory /\ e \in Nodes /\ mem.next[e] \in Nodes /\ mem.prev[e] \in Nodes
    BY <1>1, UnlinkEntry, OnRingFacts
  <2> QED
    BY <1>1, <2>1, DelMemory
<1>3. OnRing \ {e} \subseteq Nodes
  BY OnRingFacts
<1>4. Linked(mem', OnRing \ {e})
  <2>1. \A x \in OnRing \ {e} : /\ mem'.next[x] = Unlink(mem, e).next[x]
                                /\ mem'.prev[x] = Unlink(mem, e).prev[x]
    BY <1>2, <1>3
  <2>2. Linked(Unlink(mem, e), OnRing \ {e})
    BY <1>1, UnlinkEntry
  <2> QED
    BY <1>2, <2>1, <2>2, LinkedFrame
<1>5. \A x \in Nodes : x \in OnRing \ {e} <=> x \notin stale' /\ mem'.next[x] # NULL
  <2>1. \A z \in Nodes : Unlink(mem, e).next[z] = NULL <=> mem.next[z] = NULL
    BY <1>1, UnlinkEntry
  <2>2. \A x \in Nodes : x \in OnRing <=> x \notin stale /\ mem.next[x] # NULL
    BY OnRingFacts
  <2> QED
    BY <1>1, <1>2, <2>1, <2>2
<1>6. \A h \in Heads : mem'.next[h] # NULL
  BY <1>1, <1>2, UnlinkEntry, ZenonT(60) DEF ListInv, Nodes
<1>7. stale' \subseteq Heads
  BY <1>1 DEF ListInv
<1> QED
  BY <1>3, <1>4, <1>5, <1>6, <1>7, ListInvFrom

(* hms_list_del_init *)
LEMMA ListDelInitInv ==
  ASSUME ListInv, NEW e \in Entries, ListDelInit(e)
  PROVE  ListInv'
<1>1. Removable(e) /\ mem' = InitHead(Unlink(mem, e), e) /\ stale' = stale
  BY DEF ListDelInit, hms_list_del_init
<1>2. /\ Unlink(mem, e) \in Memory /\ e \in Nodes
      /\ \A z \in Nodes : mem'.next[z] = IF z = e THEN e ELSE Unlink(mem, e).next[z]
  <2>1. Unlink(mem, e) \in Memory /\ e \in Nodes
    BY <1>1, UnlinkEntry DEF Linked, Rings
  <2> QED
    BY <1>1, <2>1, InitHeadMemory
<1>3. Linked(mem', (OnRing \ {e}) \cup {e})
  BY <1>1, <1>2, UnlinkEntry, LinkedSelf
<1>4. (OnRing \ {e}) \cup {e} = OnRing
  BY <1>1, UnlinkEntry
<1>5. \A x \in Nodes : x \in OnRing <=> x \notin stale' /\ mem'.next[x] # NULL
  <2>1. \A z \in Nodes : Unlink(mem, e).next[z] = NULL <=> mem.next[z] = NULL
    BY <1>1, UnlinkEntry
  <2>2. \A x \in Nodes : x \in OnRing <=> x \notin stale /\ mem.next[x] # NULL
    BY OnRingFacts
  <2>3. e # NULL /\ mem.next[e] # NULL
    BY <1>1, <1>2, UnlinkEntry, NodesAssumption
  <2> QED
    BY <1>1, <1>2, <2>1, <2>2, <2>3
<1>6. \A h \in Heads : mem'.next[h] # NULL
  BY <1>1, <1>2, UnlinkEntry DEF ListInv, Nodes
<1>7. stale' \subseteq Heads /\ OnRing \subseteq Nodes
  BY <1>1, OnRingFacts DEF ListInv
<1> QED
  BY <1>3, <1>4, <1>5, <1>6, <1>7, ListInvFrom

(* hms_list_move and hms_list_move_tail: out of one ring, into another or  *)
(* into the same one                                                       *)
LEMMA ListMoveInv ==
  ASSUME ListInv, NEW e \in Entries, NEW head \in Heads,
         ListMove(e, head) \/ ListMoveTail(e, head)
  PROVE  ListInv'
<1> DEFINE S == OnRing \ {e}
           u == Unlink(mem, e)
<1>1. Removable(e) /\ head \notin stale /\ stale' = stale
  BY DEF ListMove, ListMoveTail
<1>2. Linked(u, S) /\ head \in S /\ S \subseteq Nodes /\ e \in Nodes
  BY <1>1, UnlinkEntry, OnRingFacts
<1>3. \A z \in Nodes : u.next[z] = NULL <=> mem.next[z] = NULL
  BY <1>1, UnlinkEntry
<1>4. u.prev[head] \in S /\ u.next[u.prev[head]] = head
  BY <1>2 DEF Linked, Rings
<1>5. PICK p \in S : mem' = AddBetween(u, e, p, u.next[p])
  <2>1. CASE ListMove(e, head)
    BY <1>2, <2>1 DEF ListMove, hms_list_move, hms_list_add
  <2>2. CASE ListMoveTail(e, head)
    BY <1>4, <2>2 DEF ListMoveTail, hms_list_move_tail, hms_list_add_tail
  <2> QED
    BY <2>1, <2>2
<1> HIDE DEF u
<1>6. /\ Linked(mem', S \cup {e})
      /\ \A z \in Nodes : mem'.next[z] = NULL <=> z # e /\ u.next[z] = NULL
  <2>1. e \notin S
    OBVIOUS
  <2> HIDE DEF S
  <2> QED
    BY <1>2, <1>5, <2>1, LinkedAdd
<1>7. \A x \in Nodes : x \in S \cup {e} <=> x \notin stale' /\ mem'.next[x] # NULL
  <2>1. \A x \in Nodes : x \in OnRing <=> x \notin stale /\ mem.next[x] # NULL
    BY OnRingFacts
  <2>2. e \in OnRing
    BY <1>1, UnlinkEntry
  <2> QED
    BY <1>1, <1>3, <1>6, <2>1, <2>2
<1>8. \A h \in Heads : mem'.next[h] # NULL
  BY <1>3, <1>6 DEF ListInv, Nodes
<1>9. S \cup {e} \subseteq Nodes /\ stale' \subseteq Heads
  BY <1>1, <1>2 DEF ListInv
<1> HIDE DEF S
<1> QED
  BY <1>6, <1>7, <1>8, <1>9, ListInvFrom

(* The memory after __hms_list_splice, for two usable heads *)
LEMMA SpliceHeads ==
  ASSUME ListInv, NEW list \in Heads, NEW head \in Heads, list # head,
         list \notin stale, head \notin stale, ~hms_list_empty(mem, list)
  PROVE  /\ list \in Nodes /\ list \in OnRing
         /\ Linked(Splice(mem, list, head), OnRing \ {list})
         /\ \A z \in Nodes : Splice(mem, list, head).next[z] = NULL <=> mem.next[z] = NULL
<1>1. list \in OnRing /\ head \in OnRing /\ list \in Nodes /\ head \in Nodes
  BY OnRingFacts
<1>2. Linked(mem, OnRing) /\ mem.next[list] # list
  BY DEF ListInv, hms_list_empty
<1>3. list \in OnRing \cap Heads /\ head \in OnRing \cap Heads
  BY <1>1
<1>4. /\ Linked(Splice(mem, list, head), OnRing \ {list})
      /\ \A z \in Nodes : Splice(mem, list, head).next[z] = NULL <=> mem.next[z] = NULL
  BY <1>2, <1>3, LinkedSplice
<1> QED
  BY <1>1, <1>4

(* hms_list_splice leaves its head off the rings. *)
LEMMA ListSpliceInv ==
  ASSUME ListInv, NEW list \in Heads, NEW head \in Heads, ListSplice(list, head)
  PROVE  ListInv'
<1>1. /\ list # head /\ list \notin stale /\ head \notin stale /\ ~hms_list_empty(mem, list)
      /\ mem' = Splice(mem, list, head) /\ stale' = stale \cup {list}
  BY DEF ListSplice, Usable
<1>2. /\ list \in Nodes /\ list \in OnRing
      /\ Linked(mem', OnRing \ {list})
      /\ \A z \in Nodes : mem'.next[z] = NULL <=> mem.next[z] = NULL
  BY <1>1, SpliceHeads
<1>3. \A x \in Nodes : x \in OnRing \ {list} <=> x \notin stale' /\ mem'.next[x] # NULL
  BY <1>1, <1>2, OnRingFacts
<1>4. \A h \in Heads : mem'.next[h] # NULL
  BY <1>2 DEF ListInv, Nodes
<1>5. stale' \subseteq Heads /\ OnRing \ {list} \subseteq Nodes
  BY <1>1, OnRingFacts DEF ListInv
<1> QED
  BY <1>2, <1>3, <1>4, <1>5, ListInvFrom

(* hms_list_splice_init makes its head a ring again. *)
LEMMA ListSpliceInitInv ==
  ASSUME ListInv, NEW list \in Heads, NEW head \in Heads, ListSpliceInit(list, head)
  PROVE  ListInv'
<1>1. /\ list # head /\ list \notin stale /\ head \notin stale /\ ~hms_list_empty(mem, list)
      /\ mem' = InitHead(Splice(mem, list, head), list) /\ stale' = stale
  BY DEF ListSpliceInit, Usable
<1> DEFINE s == Splice(mem, list, head)
<1>2. /\ list \in Nodes /\ list \in OnRing /\ Linked(s, OnRing \ {list})
      /\ \A z \in Nodes : s.next[z] = NULL <=> mem.next[z] = NULL
  BY <1>1, SpliceHeads
<1>3. mem' = InitHead(s, list)
  BY <1>1
<1> HIDE DEF s
<1>4. Linked(mem', (OnRing \ {list}) \cup {list})
  BY <1>2, <1>3, LinkedSelf
<1>5. (OnRing \ {list}) \cup {list} = OnRing
  BY <1>2
<1>6. \A z \in Nodes : mem'.next[z] = IF z = list THEN list ELSE s.next[z]
  <2>1. s \in Memory
    BY <1>2 DEF Linked, Rings
  <2> QED
    BY <1>2, <1>3, <2>1, InitHeadMemory
<1>7. \A x \in Nodes : x \in OnRing <=> x \notin stale' /\ mem'.next[x] # NULL
  BY <1>1, <1>2, <1>6, OnRingFacts, NodesAssumption
<1>8. \A h \in Heads : mem'.next[h] # NULL
  BY <1>2, <1>6, NodesAssumption DEF ListInv, Nodes
<1>9. stale' \subseteq Heads /\ OnRing \subseteq Nodes
  BY <1>1, OnRingFacts DEF ListInv
<1> QED
  BY <1>4, <1>5, <1>7, <1>8, <1>9, ListInvFrom

(* HMS_INIT_LIST_HEAD, of a head that a splice left stale *)
LEMMA ListInitHeadInv ==
  ASSUME ListInv, NEW head \in Heads, ListInitHead(head)
  PROVE  ListInv'
<1>1. head \in stale /\ mem' = InitHead(mem, head) /\ stale' = stale \ {head}
  BY DEF ListInitHead
<1>2. head \in Nodes /\ head \notin OnRing /\ mem \in Memory
  BY <1>1, OnRingFacts DEF Nodes
<1>3. Linked(mem', OnRing \cup {head})
  BY <1>1, <1>2, LinkedSelf DEF ListInv
<1>4. \A z \in Nodes : mem'.next[z] = IF z = head THEN head ELSE mem.next[z]
  BY <1>1, <1>2, InitHeadMemory
<1>5. \A x \in Nodes : x \in OnRing \cup {head} <=> x \notin stale' /\ mem'.next[x] # NULL
  BY <1>1, <1>2, <1>4, OnRingFacts, NodesAssumption
<1>6. \A h \in Heads : mem'.next[h] # NULL
  BY <1>2, <1>4, NodesAssumption DEF ListInv, Nodes
<1>7. stale' \subseteq Heads /\ OnRing \cup {head} \subseteq Nodes
  BY <1>1, <1>2, OnRingFacts DEF ListInv
<1> QED
  BY <1>3, <1>5, <1>6, <1>7, ListInvFrom

-----------------------------------------------------------------------------
(* Every list starts empty, each head a ring of its own. *)
LEMMA ListInitInv == ListInit => ListInv
<1> SUFFICES ASSUME ListInit PROVE ListInv
  OBVIOUS
<1>1. /\ mem \in Memory /\ stale = {}
      /\ \A x \in Nodes : mem.next[x] = IF x \in Heads THEN x ELSE NULL
      /\ \A x \in Nodes : mem.prev[x] = IF x \in Heads THEN x ELSE NULL
  BY DEF ListInit, Memory
<1>2. OnRing = Heads /\ Heads \subseteq Nodes
  BY <1>1, NodesAssumption DEF OnRing, Nodes
<1>3. Rings(mem, Heads)
  BY <1>1, <1>2 DEF Rings
<1>4. Owns(mem, Heads, [x \in Heads |-> x])
  BY <1>1, <1>2 DEF Owns
<1>5. Linked(mem, OnRing)
  BY <1>2, <1>3, <1>4 DEF Linked
<1> QED
  BY <1>1, <1>2, <1>5, NodesAssumption DEF ListInv

(* Every call of the list functions and every loop step keeps ListInv. *)
LEMMA ListNextInv == ListInv /\ [ListNext]_listVars => ListInv'
<1> SUFFICES ASSUME ListInv, [ListNext]_listVars PROVE ListInv'
  OBVIOUS
<1>1. ASSUME NEW e \in Entries, ListDel(e) \/ ListDelInit(e) PROVE ListInv'
  BY <1>1, ListDelInv, ListDelInitInv
<1>2. ASSUME NEW e \in Entries, NEW head \in Heads,
             ListAdd(e, head) \/ ListAddTail(e, head) \/ ListMove(e, head) \/ ListMoveTail(e, head)
      PROVE  ListInv'
  BY <1>2, ListAddInv, ListMoveInv
<1>3. ASSUME NEW list \in Heads, NEW head \in Heads,
             ListSplice(list, head) \/ ListSpliceInit(list, head)
      PROVE  ListInv'
  BY <1>3, ListSpliceInv, ListSpliceInitInv
<1>4. ASSUME NEW head \in Heads, ListInitHead(head) PROVE ListInv'
  BY <1>4, ListInitHeadInv
<1>5. ASSUME UNCHANGED <<mem, stale>> PROVE ListInv'
  BY <1>5 DEF ListInv, OnRing
<1>6. ASSUME NEW list \in Heads, NEW head \in Heads, ListSpliceEmpty(list, head) PROVE ListInv'
  BY <1>5, <1>6 DEF ListSpliceEmpty, listVars
<1>7. ASSUME NEW head \in Heads, NEW macro \in Macros, LoopBegin(macro, head) PROVE ListInv'
  BY <1>5, <1>7 DEF LoopBegin
<1>8. ASSUME LoopStep PROVE ListInv'
  BY <1>5, <1>8 DEF LoopStep
<1>9. ASSUME UNCHANGED listVars PROVE ListInv'
  BY <1>5, <1>9 DEF listVars
<1> QED
  BY <1>1, <1>2, <1>3, <1>4, <1>6, <1>7, <1>8, <1>9 DEF ListNext

(* ListInv holds in every state of a program that uses the lists. *)
THEOREM ListInvariance == ListSpec => []ListInv
BY ListInitInv, ListNextInv, PTL DEF ListSpec

(* For any number of heads and entries, the next and prev pointers of the  *)
(* nodes on the rings lead to nodes on the rings and back, after any       *)
(* sequence of adds, deletes, moves and splices of hms_list.h.             *)
THEOREM RingsCorrect == ListSpec => []RingsIntact
<1>1. ListInv => RingsIntact
  BY DEF ListInv, Linked, Rings, Memory, RingsIntact
<1> QED
  BY <1>1, ListInvariance, PTL

-----------------------------------------------------------------------------
(***************************************************************************)
(* The hash table keeps its structure, for any number of slots, keys and   *)
(* data, any hash function and any limit on the nodes; and an iteration    *)
(* meets every key that stays in the table, once.                          *)
(***************************************************************************)

(* A chain as the functions of hashtable.c build it: ordered by keycmp. *)
Ordered(c) ==
  /\ c \in Seq(Node)
  /\ \A j, k \in 1..Len(c) : j < k => c[j].key < c[k].key

-----------------------------------------------------------------------------
(* Chains *)

(* The keys of a chain are integers. *)
LEMMA ChainKeys ==
  ASSUME NEW c \in Seq(Node)
  PROVE  /\ DOMAIN c = 1..Len(c) /\ Len(c) \in Nat
         /\ \A j \in 1..Len(c) : c[j] \in Node /\ c[j].key \in Keys /\ c[j].key \in Int
                                 /\ c[j].key \in KeysOf(c)
         /\ \A k \in KeysOf(c) : k \in Keys /\ k \in Int /\ \E j \in 1..Len(c) : c[j].key = k
<1>1. DOMAIN c = 1..Len(c) /\ Len(c) \in Nat /\ \A j \in 1..Len(c) : c[j] \in Node
  OBVIOUS
<1>2. \A n \in Node : n.key \in Keys /\ n.key \in Int
  BY HashTabAssumption DEF Node
<1>3. \A k : k \in KeysOf(c) <=> \E j \in 1..Len(c) : c[j].key = k
  BY <1>1 DEF KeysOf
<1> QED
  BY <1>1, <1>2, <1>3

(* Where the loop of a search or an insertion stops. *)
LEMMA StopPlace ==
  ASSUME NEW c \in Seq(Node), NEW key \in Keys
  PROVE  /\ Stop(c, key) \in 0..Len(c)
         /\ Stop(c, key) = 0 => \A j \in 1..Len(c) : c[j].key < key
         /\ Stop(c, key) # 0 =>
              /\ c[Stop(c, key)].key >= key
              /\ \A j \in 1..Len(c) : j < Stop(c, key) => c[j].key < key
<1> DEFINE I == {i \in 1..Len(c) : c[i].key >= key}
<1>1. Stop(c, key) = IF I # {} THEN Min(I) ELSE 0
  BY DEF Stop, SelectInSeq
<1>2. I \in SUBSET Nat
  OBVIOUS
<1>3. I # {} => Min(I) \in I /\ \A n \in I : Min(I) <= n
  BY <1>2, LeastElement
<1>4. \A j \in 1..Len(c) : c[j].key \in Int
  BY ChainKeys
<1>5. key \in Int
  BY HashTabAssumption
<1>6. CASE I = {}
  BY <1>1, <1>4, <1>5, <1>6
<1>7. CASE I # {}
  <2> DEFINE at == Min(I)
  <2>1. at \in I /\ \A n \in I : at <= n
    BY <1>3, <1>7
  <2>2. Stop(c, key) = at
    BY <1>1, <1>7
  <2> HIDE DEF at
  <2>3. at \in 1..Len(c) /\ c[at].key >= key
    BY <2>1
  <2>4. ASSUME NEW j \in 1..Len(c), j < at PROVE c[j].key < key
    BY <1>4, <1>5, <2>1, <2>3, <2>4
  <2> QED
    BY <2>2, <2>3, <2>4
<1> QED
  BY <1>6, <1>7

(* Where the loop of a deletion or of an iterator finds a key. *)
LEMMA FindPlace ==
  ASSUME NEW c \in Seq(Node), NEW key
  PROVE  /\ PlaceOf(c, key) \in 0..Len(c)
         /\ PlaceOf(c, key) # 0 => c[PlaceOf(c, key)].key = key
         /\ PlaceOf(c, key) = 0 => key \notin KeysOf(c)
<1> DEFINE I == {i \in 1..Len(c) : c[i].key = key}
<1>1. PlaceOf(c, key) = IF I # {} THEN Min(I) ELSE 0
  BY DEF PlaceOf, SelectInSeq
<1>2. I \in SUBSET Nat
  OBVIOUS
<1>3. I # {} => Min(I) \in I /\ \A n \in I : Min(I) <= n
  BY <1>2, LeastElement
<1>4. I = {} => key \notin KeysOf(c)
  BY DEF KeysOf
<1> QED
  BY <1>1, <1>3, <1>4

(* The chain after an insertion *)
Inserted(c, key, node) ==
  LET at == Stop(c, key) IN IF at = 0 THEN Append(c, node) ELSE InsertAt(c, at, node)

(* A key that is not in the chain is put where the order wants it. *)
LEMMA InsertedChain ==
  ASSUME NEW c, Ordered(c), NEW key \in Keys, NEW node \in Node, node.key = key, ~Found(c, key)
  PROVE  /\ Ordered(Inserted(c, key, node))
         /\ Len(Inserted(c, key, node)) = Len(c) + 1
         /\ KeysOf(Inserted(c, key, node)) = KeysOf(c) \cup {key}
<1> DEFINE at == Stop(c, key)
           r == Inserted(c, key, node)
<1>1. c \in Seq(Node) /\ \A j, k \in 1..Len(c) : j < k => c[j].key < c[k].key
  BY DEF Ordered
<1>2. /\ at \in 0..Len(c)
      /\ at = 0 => \A j \in 1..Len(c) : c[j].key < key
      /\ at # 0 => /\ c[at].key >= key
                   /\ \A j \in 1..Len(c) : j < at => c[j].key < key
  BY <1>1, StopPlace
<1>3. at # 0 => c[at].key # key
  BY DEF Found
<1>4. r = IF at = 0 THEN Append(c, node) ELSE InsertAt(c, at, node)
  BY DEF Inserted
<1> HIDE DEF at, r
<1> DEFINE p == IF at = 0 THEN Len(c) + 1 ELSE at
<1>5. /\ r \in Seq(Node) /\ Len(r) = Len(c) + 1 /\ p \in 1..Len(c) + 1
      /\ \A j \in 1..Len(c) + 1 : r[j] = IF j < p THEN c[j] ELSE IF j = p THEN node ELSE c[j - 1]
  <2>1. CASE at = 0
    BY <1>1, <1>4, <2>1
  <2>2. CASE at # 0
    <3>1. at \in 1..Len(c) /\ r = InsertAt(c, at, node)
      BY <1>2, <1>4, <2>2
    <3>2. /\ r \in Seq(Node) /\ Len(r) = Len(c) + 1
          /\ \A j \in 1..Len(c) + 1 : r[j] =
               IF j < at THEN c[j] ELSE IF j = at THEN node ELSE c[j - 1]
      BY <1>1, <3>1, InsertAtMovesOthers
    <3>3. p = at /\ at \in 1..Len(c) + 1
      BY <1>1, <2>2, <3>1
    <3> QED
      BY <3>2, <3>3
  <2> QED
    BY <2>1, <2>2
<1>6. /\ \A j \in 1..Len(c) : j < p => c[j].key < key
      /\ \A j \in 1..Len(c) : j >= p => key < c[j].key
  <2>1. \A j \in 1..Len(c) : c[j].key \in Int
    BY <1>1, ChainKeys
  <2>2. key \in Int
    BY HashTabAssumption
  <2> QED
    BY <1>1, <1>2, <1>3, <2>1, <2>2
<1> HIDE DEF p
<1>7. ASSUME NEW j \in 1..Len(r), NEW k \in 1..Len(r), j < k
      PROVE  r[j].key < r[k].key
  <2>1. Len(c) \in Nat /\ \A i \in 1..Len(c) : c[i].key \in Int
    BY <1>1, ChainKeys
  <2>2. CASE k < p
    BY <1>1, <1>5, <1>7, <2>1, <2>2
  <2>3. CASE k = p
    BY <1>5, <1>6, <1>7, <2>1, <2>3
  <2>4. CASE k > p /\ j < p
    <3>1. r[j] = c[j] /\ r[k] = c[k - 1] /\ j \in 1..Len(c) /\ k - 1 \in 1..Len(c) /\ j < k - 1
      BY <1>5, <1>7, <2>1, <2>4
    <3> QED
      BY <1>1, <3>1
  <2>5. CASE k > p /\ j = p
    <3>1. r[j] = node /\ r[k] = c[k - 1] /\ k - 1 \in 1..Len(c) /\ k - 1 >= p
      BY <1>5, <1>7, <2>1, <2>5
    <3> QED
      BY <1>6, <3>1
  <2>6. CASE k > p /\ j > p
    <3>1. /\ r[j] = c[j - 1] /\ r[k] = c[k - 1]
          /\ j - 1 \in 1..Len(c) /\ k - 1 \in 1..Len(c) /\ j - 1 < k - 1
      BY <1>5, <1>7, <2>1, <2>6
    <3> QED
      BY <1>1, <3>1
  <2> QED
    BY <1>5, <2>1, <2>2, <2>3, <2>4, <2>5, <2>6
<1>8. KeysOf(r) = KeysOf(c) \cup {key}
  <2>1. \A k \in KeysOf(r) : k \in KeysOf(c) \cup {key}
    <3>0. \A k \in KeysOf(r) : \E j \in 1..Len(r) : r[j].key = k
      BY <1>5 DEF KeysOf
    <3> SUFFICES ASSUME NEW j \in 1..Len(r) PROVE r[j].key \in KeysOf(c) \cup {key}
      BY <3>0
    <3>1. CASE j < p
      <4>1. j \in 1..Len(c) /\ r[j] = c[j]
        BY <1>1, <1>5, <3>1
      <4> QED
        BY <1>1, <4>1, ChainKeys
    <3>2. CASE j = p
      BY <1>5, <3>2
    <3>3. CASE j > p
      <4>1. j - 1 \in 1..Len(c) /\ r[j] = c[j - 1]
        BY <1>1, <1>5, <3>3
      <4> QED
        BY <1>1, <4>1, ChainKeys
    <3> QED
      BY <1>5, <3>1, <3>2, <3>3
  <2>2. \A k \in KeysOf(c) : k \in KeysOf(r)
    <3> SUFFICES ASSUME NEW j \in 1..Len(c) PROVE c[j].key \in KeysOf(r)
      BY <1>1, ChainKeys
    <3>1. CASE j < p
      <4>1. j \in 1..Len(r) /\ r[j] = c[j]
        BY <1>1, <1>5, <3>1
      <4> QED
        BY <1>5, <4>1, ChainKeys
    <3>2. CASE j >= p
      <4>1. j + 1 \in 1..Len(r) /\ r[j + 1] = c[j]
        BY <1>1, <1>5, <3>2
      <4> QED
        BY <1>5, <4>1, ChainKeys
    <3> QED
      BY <1>5, <3>1, <3>2
  <2>3. key \in KeysOf(r)
    BY <1>5, ChainKeys
  <2> QED
    BY <2>1, <2>2, <2>3
<1>9. Ordered(r)
  BY <1>5, <1>7 DEF Ordered
<1> QED
  BY <1>5, <1>8, <1>9 DEF r

(* The chain without its node at position at *)
LEMMA RemovedChain ==
  ASSUME NEW c, Ordered(c), NEW at \in 1..Len(c)
  PROVE  /\ Ordered(RemoveAt(c, at))
         /\ Len(RemoveAt(c, at)) = Len(c) - 1
         /\ KeysOf(RemoveAt(c, at)) = KeysOf(c) \ {c[at].key}
<1> DEFINE r == RemoveAt(c, at)
<1>1. c \in Seq(Node) /\ \A j, k \in 1..Len(c) : j < k => c[j].key < c[k].key
  BY DEF Ordered
<1>2. /\ r \in Seq(Node) /\ Len(r) = Len(c) - 1
      /\ \A j \in 1..Len(c) - 1 : r[j] = IF j < at THEN c[j] ELSE c[j + 1]
  BY <1>1, RemoveAtKeepsOthers
<1>3. Len(c) \in Nat /\ \A i \in 1..Len(c) : c[i].key \in Int
  BY <1>1, ChainKeys
<1> HIDE DEF r
<1>4. ASSUME NEW j \in 1..Len(r), NEW k \in 1..Len(r), j < k
      PROVE  r[j].key < r[k].key
  <2>1. CASE k < at
    <3>1. r[j] = c[j] /\ r[k] = c[k] /\ j \in 1..Len(c) /\ k \in 1..Len(c)
      BY <1>2, <1>3, <1>4, <2>1, SMTT(60)
    <3> QED
      BY <1>1, <1>4, <3>1
  <2>2. CASE k >= at /\ j < at
    <3>0. j \in 1..Len(c) - 1 /\ k \in 1..Len(c) - 1 /\ ~(k < at)
      BY <1>2, <1>4, <2>2
    <3>1. r[j] = c[j] /\ r[k] = c[k + 1] /\ j \in 1..Len(c) /\ k + 1 \in 1..Len(c) /\ j < k + 1
      BY <1>2, <1>3, <1>4, <2>2, <3>0
    <3> QED
      BY <1>1, <3>1
  <2>3. CASE j >= at
    <3>1. /\ r[j] = c[j + 1] /\ r[k] = c[k + 1]
          /\ j + 1 \in 1..Len(c) /\ k + 1 \in 1..Len(c) /\ j + 1 < k + 1
      BY <1>2, <1>3, <1>4, <2>3
    <3> QED
      BY <1>1, <3>1
  <2> QED
    BY <1>2, <1>3, <2>1, <2>2, <2>3
<1>5. Ordered(r)
  BY <1>2, <1>4 DEF Ordered
<1>6. \A j \in 1..Len(c) : c[j].key = c[at].key => j = at
  BY <1>1, <1>3
<1>7. ASSUME NEW j \in 1..Len(r) PROVE r[j].key \in KeysOf(c) \ {c[at].key}
  <2>1. CASE j < at
    <3>1. j \in 1..Len(c) /\ r[j] = c[j]
      BY <1>2, <1>3, <2>1
    <3> QED
      BY <1>1, <1>6, <2>1, <3>1, ChainKeys
  <2>2. CASE j >= at
    <3>1. j + 1 \in 1..Len(c) /\ r[j] = c[j + 1] /\ j + 1 # at
      BY <1>2, <1>3, <2>2
    <3> QED
      BY <1>1, <1>6, <3>1, ChainKeys
  <2> QED
    BY <1>2, <1>3, <2>1, <2>2
<1>8. ASSUME NEW j \in 1..Len(c), c[j].key # c[at].key PROVE c[j].key \in KeysOf(r)
  <2>1. CASE j < at
    <3>1. j \in 1..Len(r) /\ r[j] = c[j]
      BY <1>2, <1>3, <2>1
    <3> QED
      BY <1>2, <3>1, ChainKeys
  <2>2. CASE j > at
    <3>1. j - 1 \in 1..Len(r) /\ r[j - 1] = c[j]
      BY <1>2, <1>3, <2>2
    <3> QED
      BY <1>2, <3>1, ChainKeys
  <2>3. j # at
    BY <1>8
  <2> QED
    BY <1>3, <2>1, <2>2, <2>3
<1>9. KeysOf(r) = KeysOf(c) \ {c[at].key}
  <2>1. \A k \in KeysOf(r) : k \in KeysOf(c) \ {c[at].key}
    BY <1>2, <1>7, ChainKeys
  <2>2. \A k \in KeysOf(c) \ {c[at].key} : k \in KeysOf(r)
    BY <1>1, <1>8, ChainKeys
  <2> QED
    BY <2>1, <2>2
<1> QED
  BY <1>2, <1>5, <1>9 DEF r

(* hashtab_delete of the first node *)
LEMMA TailChain ==
  ASSUME NEW c, Ordered(c), c # <<>>
  PROVE  /\ Ordered(Tail(c))
         /\ Len(Tail(c)) = Len(c) - 1
         /\ KeysOf(Tail(c)) = KeysOf(c) \ {Head(c).key}
         /\ Len(c) >= 1
<1>1. c \in Seq(Node) /\ Len(c) \in Nat /\ Len(c) >= 1
  BY DEF Ordered
<1>2. Tail(c) \in Seq(Node) /\ Len(Tail(c)) = Len(c) - 1
  BY <1>1
<1>3. /\ RemoveAt(c, 1) \in Seq(Node) /\ Len(RemoveAt(c, 1)) = Len(c) - 1
      /\ \A j \in 1..Len(c) - 1 : RemoveAt(c, 1)[j] = c[j + 1]
  <2>1. 1 \in 1..Len(c)
    BY <1>1
  <2> QED
    BY <1>1, <2>1, RemoveAtKeepsOthers
<1>4. \A j \in 1..Len(c) - 1 : Tail(c)[j] = c[j + 1]
  BY <1>1
<1>5. Tail(c) = RemoveAt(c, 1)
  BY <1>1, <1>2, <1>3, <1>4
<1>6. Head(c) = c[1]
  BY <1>1
<1>7. /\ Ordered(RemoveAt(c, 1)) /\ Len(RemoveAt(c, 1)) = Len(c) - 1
      /\ KeysOf(RemoveAt(c, 1)) = KeysOf(c) \ {c[1].key}
  <2>1. 1 \in 1..Len(c)
    BY <1>1
  <2> QED
    BY <2>1, RemovedChain
<1> QED
  BY <1>1, <1>5, <1>6, <1>7

(* The first node of a chain has its least key. *)
LEMMA HeadChain ==
  ASSUME NEW c, Ordered(c), c # <<>>
  PROVE  Head(c) \in Node /\ Head(c).key \in KeysOf(c) /\ \A k \in KeysOf(c) : Head(c).key <= k
<1>1. c \in Seq(Node) /\ Len(c) \in Nat /\ Len(c) >= 1 /\ Head(c) = c[1]
  BY DEF Ordered
<1>2. \A j \in 1..Len(c) : c[j].key \in Int /\ (j # 1 => c[1].key < c[j].key)
  BY <1>1, ChainKeys DEF Ordered
<1>3. \A j \in 1..Len(c) : c[1].key <= c[j].key
  BY <1>1, <1>2
<1> QED
  BY <1>1, <1>3, ChainKeys

(* What follows a key in its chain: exactly the nodes with greater keys. *)
LEMMA RestChain ==
  ASSUME NEW c, Ordered(c), NEW at \in 1..Len(c)
  PROVE  LET rest == SubSeq(c, at + 1, Len(c))
         IN /\ Ordered(rest)
            /\ KeysOf(rest) = {k \in KeysOf(c) : c[at].key < k}
<1> DEFINE rest == SubSeq(c, at + 1, Len(c))
<1>1. c \in Seq(Node) /\ \A j, k \in 1..Len(c) : j < k => c[j].key < c[k].key
  BY DEF Ordered
<1>2. Len(c) \in Nat /\ \A i \in 1..Len(c) : c[i].key \in Int
  BY <1>1, ChainKeys
<1>3. /\ rest \in Seq(Node) /\ Len(rest) = Len(c) - at
      /\ \A j \in 1..Len(c) - at : rest[j] = c[at + j]
  BY <1>1
<1> HIDE DEF rest
<1>4. ASSUME NEW j \in 1..Len(rest), NEW k \in 1..Len(rest), j < k
      PROVE  rest[j].key < rest[k].key
  <2>1. /\ rest[j] = c[at + j] /\ rest[k] = c[at + k]
        /\ at + j \in 1..Len(c) /\ at + k \in 1..Len(c) /\ at + j < at + k
    BY <1>2, <1>3, <1>4
  <2> QED
    BY <1>1, <2>1
<1>5. ASSUME NEW j \in 1..Len(rest) PROVE rest[j].key \in KeysOf(c) /\ c[at].key < rest[j].key
  <2>1. rest[j] = c[at + j] /\ at + j \in 1..Len(c) /\ at < at + j
    BY <1>2, <1>3
  <2> QED
    BY <1>1, <2>1, ChainKeys
<1>6. ASSUME NEW j \in 1..Len(c), c[at].key < c[j].key PROVE c[j].key \in KeysOf(rest)
  <2>1. at < j
    <3>1. ~(j < at) /\ j # at
      BY <1>1, <1>2, <1>6
    <3> QED
      BY <1>2, <3>1
  <2>2. j - at \in 1..Len(rest) /\ rest[j - at] = c[j]
    BY <1>2, <1>3, <2>1
  <2> QED
    BY <1>3, <2>2, ChainKeys
<1>7. KeysOf(rest) = {k \in KeysOf(c) : c[at].key < k}
  <2>1. \A k \in KeysOf(rest) : k \in KeysOf(c) /\ c[at].key < k
    BY <1>3, <1>5, ChainKeys
  <2>2. \A k \in KeysOf(c) : c[at].key < k => k \in KeysOf(rest)
    BY <1>1, <1>6, ChainKeys
  <2> QED
    BY <2>1, <2>2
<1>8. Ordered(rest)
  BY <1>3, <1>4 DEF Ordered
<1> QED
  BY <1>7, <1>8 DEF rest

-----------------------------------------------------------------------------
(* Chains and places *)

ChainsOK(h) ==
  /\ h \in [Slots -> Seq(Node)]
  /\ \A i \in Slots : Ordered(h[i]) /\ \A k \in KeysOf(h[i]) : hash_value[k] = i

PlacesOf(h) == UNION {{i} \X DOMAIN h[i] : i \in Slots}

(* Every key has a slot, and an order. *)
LEMMA SlotOfKey == \A key \in Keys : hash_value[key] \in Slots /\ key \in Int
BY HashTabAssumption

Replaced(h, s, c) == [h EXCEPT ![s] = c]

(* One chain replaced by another *)
LEMMA ReplacedChain ==
  ASSUME NEW h, ChainsOK(h), NEW s \in Slots, NEW c, Ordered(c),
         \A k \in KeysOf(c) : hash_value[k] = s
  PROVE  /\ ChainsOK(Replaced(h, s, c))
         /\ Replaced(h, s, c)[s] = c
         /\ \A i \in Slots : i # s => Replaced(h, s, c)[i] = h[i]
<1> DEFINE h2 == Replaced(h, s, c)
<1>1. c \in Seq(Node) /\ h \in [Slots -> Seq(Node)]
  BY DEF Ordered, ChainsOK
<1>2. h2 \in [Slots -> Seq(Node)] /\ \A i \in Slots : h2[i] = IF i = s THEN c ELSE h[i]
  BY <1>1 DEF Replaced
<1> HIDE DEF h2
<1>3. ASSUME NEW i \in Slots PROVE Ordered(h2[i]) /\ \A k \in KeysOf(h2[i]) : hash_value[k] = i
  <2>1. CASE i = s
    BY <1>2, <2>1
  <2>2. CASE i # s
    BY <1>2, <2>2 DEF ChainsOK
  <2> QED
    BY <2>1, <2>2
<1> QED
  BY <1>2, <1>3 DEF ChainsOK, h2

(* A place is a slot and a position in its chain. *)
LEMMA PlacesMembers ==
  ASSUME NEW h, ChainsOK(h)
  PROVE  \A x : x \in PlacesOf(h) <=> \E i \in Slots : \E j \in 1..Len(h[i]) : x = <<i, j>>
<1>1. \A i \in Slots : DOMAIN h[i] = 1..Len(h[i])
  BY ChainKeys DEF ChainsOK
<1>2. \A x : x \in PlacesOf(h) <=> \E i \in Slots : x \in {i} \X DOMAIN h[i]
  BY DEF PlacesOf
<1>3. \A x, i : x \in {i} \X DOMAIN h[i] <=> \E j \in DOMAIN h[i] : x = <<i, j>>
  OBVIOUS
<1> QED
  BY <1>1, <1>2, <1>3

(* A chain that grows by a node adds a place. *)
LEMMA PlacesGrow ==
  ASSUME NEW h, ChainsOK(h), NEW h2, ChainsOK(h2), NEW s \in Slots,
         \A i \in Slots : i # s => h2[i] = h[i],
         Len(h2[s]) = Len(h[s]) + 1,
         IsFiniteSet(PlacesOf(h))
  PROVE  IsFiniteSet(PlacesOf(h2)) /\ Cardinality(PlacesOf(h2)) = Cardinality(PlacesOf(h)) + 1
<1> DEFINE n == Len(h[s]) + 1
<1>1. Len(h[s]) \in Nat
  BY DEF ChainsOK
<1>2. \A j : j \in 1..Len(h2[s]) <=> j \in 1..Len(h[s]) \/ j = n
  BY <1>1
<1>3. n \notin 1..Len(h[s])
  BY <1>1
<1> HIDE DEF n
<1>4. \A x : x \in PlacesOf(h2) <=> x \in PlacesOf(h) \/ x = <<s, n>>
  <2>1. ASSUME NEW i \in Slots, NEW j PROVE j \in 1..Len(h2[i]) <=> j \in 1..Len(h[i]) \/ (i = s /\ j = n)
    BY <1>2
  <2> QED
    BY <2>1, PlacesMembers
<1>5. <<s, n>> \notin PlacesOf(h)
  <2> SUFFICES ASSUME NEW i \in Slots, NEW j \in 1..Len(h[i]), <<s, n>> = <<i, j>> PROVE FALSE
    BY PlacesMembers
  <2> QED
    BY <1>3
<1>6. PlacesOf(h2) = PlacesOf(h) \cup {<<s, n>>}
  BY <1>4
<1> QED
  BY <1>5, <1>6, FS_AddElement

(* A chain that loses a node loses its last place. *)
LEMMA PlacesShrink ==
  ASSUME NEW h, ChainsOK(h), NEW h2, ChainsOK(h2), NEW s \in Slots,
         \A i \in Slots : i # s => h2[i] = h[i],
         Len(h2[s]) = Len(h[s]) - 1,
         IsFiniteSet(PlacesOf(h))
  PROVE  /\ IsFiniteSet(PlacesOf(h2)) /\ Cardinality(PlacesOf(h2)) = Cardinality(PlacesOf(h)) - 1
<1>1. Len(h[s]) \in Nat /\ Len(h2[s]) \in Nat
  BY DEF ChainsOK
<1>2. Len(h[s]) = Len(h2[s]) + 1
  BY <1>1
<1>3. \A x : x \in PlacesOf(h2) => x \in PlacesOf(h)
  <2>1. \A i \in Slots : \A j \in 1..Len(h2[i]) : j \in 1..Len(h[i])
    BY <1>1, <1>2
  <2> QED
    BY <2>1, PlacesMembers
<1>4. IsFiniteSet(PlacesOf(h2))
  <2>1. PlacesOf(h2) \in SUBSET PlacesOf(h)
    BY <1>3
  <2> QED
    BY <2>1, FS_Subset
<1>5. Cardinality(PlacesOf(h)) = Cardinality(PlacesOf(h2)) + 1
  BY <1>2, <1>4, PlacesGrow
<1>6. Cardinality(PlacesOf(h2)) \in Nat
  BY <1>4, FS_CardinalityType
<1> QED
  BY <1>4, <1>5, <1>6

-----------------------------------------------------------------------------
(* The inductive invariant *)

(* The order in which an iteration meets the keys: by slot, and by key     *)
(* within a slot.                                                          *)
Before(j, k) == hash_value[j] < hash_value[k] \/ (hash_value[j] = hash_value[k] /\ j < k)

Held(k, h) == k \in KeysOf(h[hash_value[k]])

Iterator ==
  [node : NodeStates, slot : Slots, key : Keys \cup {0}, visited : Seq(Keys),
   kept : SUBSET Keys, lost : SUBSET Slots]

(* The keys visited come in the order of Before, up to the one under the   *)
(* iterator.                                                               *)
VisitedInOrder(it) ==
  /\ \A i, j \in 1..Len(it.visited) : i < j => Before(it.visited[i], it.visited[j])
  /\ it.node # "end" =>
       /\ it.key \in Keys /\ hash_value[it.key] = it.slot
       /\ \A i \in 1..Len(it.visited) : it.visited[i] = it.key \/ Before(it.visited[i], it.key)

(* The keys that stayed in the table and are not visited yet lie ahead of  *)
(* the iterator, but for the slots in which its node was deleted.          *)
KeptAhead(it, h) ==
  it.node # "end" =>
    /\ it.node # "linked" => it.slot \in it.lost
    /\ \A k \in it.kept :
         /\ Held(k, h)
         /\ hash_value[k] \in it.lost \/ k \in ToSet(it.visited) \/ Before(it.key, k)

IterOK(it, h) ==
  /\ it \in Iterator
  /\ it.node = "end" => it = NoIterator
  /\ it.node = "linked" => Held(it.key, h)
  /\ VisitedInOrder(it)
  /\ KeptAhead(it, h)

(* nel counts the nodes; what is allocated and not counted is lost. *)
Counted(h, n, a) ==
  /\ IsFiniteSet(PlacesOf(h))
  /\ n = Cardinality(PlacesOf(h))
  /\ n <= HASHTAB_MAX_NODES
  /\ a \in Int /\ a - n \in 0..MaxLost

TabInv ==
  /\ table \in {"live", "destroyed", "undefined"}
  /\ ChainsOK(htable)
  /\ Counted(htable, nel, allocated)
  /\ IterOK(iter, htable)

(* The counters are numbers. *)
LEMMA CountIsNat == ASSUME NEW h, NEW n, NEW a, Counted(h, n, a) PROVE n \in Nat /\ a \in Int
BY FS_CardinalityType DEF Counted

(* Between two iterations there is nothing to say of the iterator. *)
LEMMA NoIteratorOK == ASSUME NEW h PROVE IterOK(NoIterator, h)
<1>1. NoIterator \in Iterator
  <2>1. 0 \in Slots
    BY HashTabAssumption DEF Slots
  <2> QED
    BY <2>1 DEF NoIterator, Iterator, NodeStates
<1>2. NoIterator.node = "end" /\ NoIterator.visited = <<>>
  BY DEF NoIterator
<1>3. VisitedInOrder(NoIterator)
  BY <1>2 DEF VisitedInOrder
<1>4. KeptAhead(NoIterator, h)
  BY <1>2 DEF KeptAhead
<1> QED
  BY <1>1, <1>2, <1>3, <1>4 DEF IterOK

(* A table without nodes *)
LEMMA EmptyTable ==
  ASSUME NEW h, h = [i \in Slots |-> <<>>]
  PROVE  ChainsOK(h) /\ IsFiniteSet(PlacesOf(h)) /\ Cardinality(PlacesOf(h)) = 0
<1>1. \A i \in Slots : h[i] = <<>>
  OBVIOUS
<1>2. Ordered(<<>>) /\ KeysOf(<<>>) = {}
  BY DEF Ordered, KeysOf
<1>3. ChainsOK(h)
  BY <1>1, <1>2 DEF ChainsOK
<1>4. PlacesOf(h) = {}
  <2>1. \A i \in Slots : 1..Len(h[i]) = {}
    BY <1>1
  <2> QED
    BY <1>3, <2>1, PlacesMembers
<1> QED
  BY <1>3, <1>4, FS_EmptySet

(* hashtab_create *)
LEMMA TabInitInv == TabInit => TabInv
<1> SUFFICES ASSUME TabInit PROVE TabInv
  OBVIOUS
<1>1. ChainsOK(htable) /\ IsFiniteSet(PlacesOf(htable)) /\ Cardinality(PlacesOf(htable)) = 0
  BY EmptyTable DEF TabInit
<1>2. Counted(htable, nel, allocated)
  BY <1>1, HashTabAssumption DEF TabInit, Counted
<1>3. IterOK(iter, htable)
  BY NoIteratorOK DEF TabInit
<1> QED
  BY <1>1, <1>2, <1>3 DEF TabInit, TabInv

(* Where all keys stay in the table, the iterator stays sound. *)
LEMMA IterGrow ==
  ASSUME NEW it, NEW h, IterOK(it, h), NEW h2, \A k \in Keys : Held(k, h) => Held(k, h2)
  PROVE  IterOK(it, h2)
<1>1. it.node = "linked" => it.key \in Keys
  BY DEF IterOK, VisitedInOrder
<1>2. it.kept \subseteq Keys
  BY DEF IterOK, Iterator
<1>3. KeptAhead(it, h2)
  BY <1>2 DEF IterOK, KeptAhead
<1> QED
  BY <1>1, <1>3 DEF IterOK

(* hashtab_insert of a new key *)
LEMMA InsertInv ==
  ASSUME TabInv, NEW key \in Keys, NEW datum \in Data, Insert(key, datum)
  PROVE  TabInv'
<1> DEFINE s == hash_value[key]
           node == [key |-> key, datum |-> datum]
           c == Inserted(htable[s], key, node)
<1>1. ChainsOK(htable) /\ Counted(htable, nel, allocated) /\ IterOK(iter, htable)
  BY DEF TabInv
<1>2. s \in Slots /\ Ordered(htable[s]) /\ \A k \in KeysOf(htable[s]) : hash_value[k] = s
  BY <1>1, SlotOfKey DEF ChainsOK
<1>3. node \in Node /\ node.key = key
  BY DEF Node
<1>4. /\ nel # HASHTAB_MAX_NODES /\ ~Found(htable[s], key)
      /\ nel' = nel + 1 /\ allocated' = allocated + 1 /\ table' = table /\ iter' = iter
  BY DEF Insert, chain
<1>5. htable' = Replaced(htable, s, c)
  BY <1>1 DEF Insert, chain, Inserted, ChainsOK, Replaced
<1> HIDE DEF node
<1>6. /\ Ordered(c) /\ Len(c) = Len(htable[s]) + 1 /\ KeysOf(c) = KeysOf(htable[s]) \cup {key}
  BY <1>2, <1>3, <1>4, InsertedChain
<1> HIDE DEF c
<1>7. /\ ChainsOK(htable') /\ htable'[s] = c
      /\ \A i \in Slots : i # s => htable'[i] = htable[i]
  <2>1. \A k \in KeysOf(c) : hash_value[k] = s
    BY <1>2, <1>6
  <2> HIDE DEF s
  <2> QED
    BY <1>1, <1>2, <1>5, <1>6, <2>1, ReplacedChain
<1>8. Counted(htable', nel', allocated')
  <2>1. IsFiniteSet(PlacesOf(htable')) /\ Cardinality(PlacesOf(htable')) = Cardinality(PlacesOf(htable)) + 1
    <3>1. Len(htable'[s]) = Len(htable[s]) + 1 /\ \A i \in Slots : i # s => htable'[i] = htable[i]
      BY <1>2, <1>6, <1>7
    <3>2. IsFiniteSet(PlacesOf(htable))
      BY <1>1 DEF Counted
    <3> HIDE DEF s
    <3> QED
      BY <1>1, <1>2, <1>7, <3>1, <3>2, PlacesGrow
  <2>2. nel \in Nat /\ allocated \in Int
    BY <1>1, CountIsNat
  <2> QED
    BY <1>1, <1>4, <2>1, <2>2, HashTabAssumption DEF Counted
<1>9. IterOK(iter', htable')
  <2>1. \A k \in Keys : Held(k, htable) => Held(k, htable')
    BY <1>6, <1>7, SlotOfKey DEF Held
  <2>2. PICK h2 : h2 = htable'
    OBVIOUS
  <2>3. IterOK(iter, h2)
    BY <1>1, <2>1, <2>2, IterGrow
  <2> QED
    BY <1>4, <2>2, <2>3
<1> QED
  BY <1>4, <1>7, <1>8, <1>9 DEF TabInv

(* What the deletion of a node leaves of the iterator *)
LEMMA WithoutNodeFields ==
  ASSUME iter \in Iterator, NEW key \in Keys, NEW state \in {"freed", "unlinked"}
  PROVE  LET r == WithoutNode(key, state)
         IN /\ r \in Iterator
            /\ r.slot = iter.slot /\ r.key = iter.key /\ r.visited = iter.visited
            /\ r.kept = iter.kept \ {key}
            /\ iter.node = "linked" /\ iter.key = key => r.node = state /\ r.lost = iter.lost \cup {iter.slot}
            /\ ~(iter.node = "linked" /\ iter.key = key) => r.node = iter.node /\ r.lost = iter.lost
<1> DEFINE on == iter.node = "linked" /\ iter.key = key
<1>1. CASE on
  <2>1. WithoutNode(key, state) =
          [iter EXCEPT !.kept = @ \ {key}, !.node = state, !.lost = @ \cup {iter.slot}]
    BY <1>1 DEF WithoutNode, Iterator
  <2>2. /\ iter.kept \ {key} \in SUBSET Keys
        /\ iter.lost \cup {iter.slot} \in SUBSET Slots
        /\ state \in NodeStates
    BY DEF Iterator, NodeStates
  <2>3. /\ iter = [node |-> iter.node, slot |-> iter.slot, key |-> iter.key,
                    visited |-> iter.visited, kept |-> iter.kept, lost |-> iter.lost]
        /\ iter.slot \in Slots /\ iter.key \in Keys \cup {0} /\ iter.visited \in Seq(Keys)
    BY DEF Iterator
  <2>4. WithoutNode(key, state) =
          [node |-> state, slot |-> iter.slot, key |-> iter.key, visited |-> iter.visited,
           kept |-> iter.kept \ {key}, lost |-> iter.lost \cup {iter.slot}]
    BY <2>1, <2>3
  <2>5. WithoutNode(key, state) \in Iterator
    BY <2>2, <2>3, <2>4 DEF Iterator
  <2> QED
    BY <1>1, <2>4, <2>5
<1>2. CASE ~on
  <2>1. WithoutNode(key, state) = [iter EXCEPT !.kept = @ \ {key}]
    BY <1>2 DEF WithoutNode, Iterator
  <2> QED
    BY <1>2, <2>1 DEF Iterator
<1> QED
  BY <1>1, <1>2

(* A deletion that keeps every other key keeps the iterator sound. *)
LEMMA IterDelete ==
  ASSUME NEW h, IterOK(iter, h), NEW key \in Keys, NEW state \in {"freed", "unlinked"},
         NEW h2, \A k \in Keys \ {key} : Held(k, h) => Held(k, h2)
  PROVE  IterOK(WithoutNode(key, state), h2)
<1> DEFINE r == WithoutNode(key, state)
<1>1. iter \in Iterator
  BY DEF IterOK
<1>2. /\ r \in Iterator
      /\ r.slot = iter.slot /\ r.key = iter.key /\ r.visited = iter.visited
      /\ r.kept = iter.kept \ {key}
      /\ iter.node = "linked" /\ iter.key = key => r.node = state /\ r.lost = iter.lost \cup {iter.slot}
      /\ ~(iter.node = "linked" /\ iter.key = key) => r.node = iter.node /\ r.lost = iter.lost
  BY <1>1, WithoutNodeFields
<1>3. r.node = "end" <=> iter.node = "end"
  BY <1>2
<1>4. r.node = "end" => r = NoIterator
  <2>1. SUFFICES ASSUME iter.node = "end" PROVE r = NoIterator
    BY <1>3
  <2>2. iter = NoIterator
    BY <2>1 DEF IterOK
  <2>3. r.node = iter.node /\ r.lost = iter.lost /\ r.kept = iter.kept
    BY <1>2, <2>1, <2>2 DEF NoIterator
  <2> HIDE DEF r
  <2>4. r = iter
    BY <1>1, <1>2, <2>3 DEF Iterator
  <2> QED
    BY <2>2, <2>4
<1> HIDE DEF r
<1>5. VisitedInOrder(r)
  BY <1>2, <1>3 DEF IterOK, VisitedInOrder
<1>6. r.node = "linked" => Held(r.key, h2)
  <2> SUFFICES ASSUME r.node = "linked" PROVE Held(r.key, h2)
    OBVIOUS
  <2>1. iter.node = "linked" /\ iter.key # key
    BY <1>2
  <2>2. iter.key \in Keys /\ Held(iter.key, h)
    BY <2>1 DEF IterOK, VisitedInOrder
  <2> QED
    BY <1>2, <2>1, <2>2
<1>7. KeptAhead(r, h2)
  <2> SUFFICES ASSUME r.node # "end"
               PROVE  /\ r.node # "linked" => r.slot \in r.lost
                      /\ \A k \in r.kept :
                           /\ Held(k, h2)
                           /\ \/ hash_value[k] \in r.lost
                              \/ k \in ToSet(r.visited) \/ Before(r.key, k)
    BY DEF KeptAhead
  <2>1. iter.node # "end"
    BY <1>3
  <2>2. /\ iter.lost \subseteq r.lost
        /\ iter.node # "linked" => r.node = iter.node /\ r.lost = iter.lost
        /\ r.node # "linked" => iter.node # "linked" \/ iter.slot \in r.lost
    BY <1>2
  <2>3. /\ iter.node # "linked" => iter.slot \in iter.lost
        /\ \A k \in iter.kept :
             /\ Held(k, h)
             /\ hash_value[k] \in iter.lost \/ k \in ToSet(iter.visited) \/ Before(iter.key, k)
    BY <2>1 DEF IterOK, KeptAhead
  <2>4. iter.kept \subseteq Keys
    BY <1>1 DEF Iterator
  <2> QED
    BY <1>2, <2>2, <2>3, <2>4
<1> QED
  BY <1>2, <1>4, <1>5, <1>6, <1>7 DEF IterOK, r

(* Both deletions of hashtab_delete: a chain loses the node of key. *)
LEMMA DeleteInv ==
  ASSUME TabInv, NEW key \in Keys, NEW state \in {"freed", "unlinked"},
         NEW s, s = hash_value[key], NEW c, Ordered(c),
         Len(c) = Len(htable[s]) - 1, KeysOf(c) = KeysOf(htable[s]) \ {key},
         htable' = Replaced(htable, s, c), nel' = nel - 1, table' = table,
         iter' = WithoutNode(key, state),
         allocated' \in Int, allocated' - nel' \in 0..MaxLost
  PROVE  TabInv'
<1>1. ChainsOK(htable) /\ Counted(htable, nel, allocated) /\ IterOK(iter, htable)
  BY DEF TabInv
<1>2. s \in Slots /\ \A k \in KeysOf(c) : hash_value[k] = s
  BY <1>1, SlotOfKey DEF ChainsOK
<1>3. /\ ChainsOK(htable') /\ htable'[s] = c
      /\ \A i \in Slots : i # s => htable'[i] = htable[i]
  BY <1>1, <1>2, ReplacedChain
<1>4. Counted(htable', nel', allocated')
  <2>1. IsFiniteSet(PlacesOf(htable')) /\ Cardinality(PlacesOf(htable')) = Cardinality(PlacesOf(htable)) - 1
    <3>1. Len(htable'[s]) = Len(htable[s]) - 1
      BY <1>3
    <3>2. IsFiniteSet(PlacesOf(htable))
      BY <1>1 DEF Counted
    <3> QED
      BY <1>1, <1>2, <1>3, <3>1, <3>2, PlacesShrink
  <2>2. nel \in Nat
    BY <1>1, CountIsNat
  <2> QED
    BY <1>1, <2>1, <2>2, HashTabAssumption DEF Counted
<1>5. IterOK(iter', htable')
  <2>1. \A k \in Keys \ {key} : Held(k, htable) => Held(k, htable')
    BY <1>3, SlotOfKey DEF Held
  <2> QED
    BY <1>1, <2>1, IterDelete
<1> QED
  BY <1>3, <1>4, <1>5 DEF TabInv

(* hashtab_delete of the first node, which is freed *)
LEMMA DeleteFirstInv ==
  ASSUME TabInv, NEW key \in Keys, DeleteFirst(key)
  PROVE  TabInv'
<1> DEFINE s == hash_value[key]
           c == Tail(htable[s])
<1>1. ChainsOK(htable) /\ Counted(htable, nel, allocated) /\ s \in Slots
  BY SlotOfKey DEF TabInv
<1>2. Ordered(htable[s]) /\ htable[s] # <<>> /\ Head(htable[s]).key = key
  BY <1>1 DEF ChainsOK, DeleteFirst, chain
<1>3. htable' = Replaced(htable, s, c)
  BY <1>1 DEF DeleteFirst, chain, ChainsOK, Replaced
<1>4. Ordered(c) /\ Len(c) = Len(htable[s]) - 1 /\ KeysOf(c) = KeysOf(htable[s]) \ {key}
  BY <1>2, TailChain
<1>5. /\ nel' = nel - 1 /\ table' = table /\ allocated' = allocated - 1
      /\ iter' = WithoutNode(key, "freed")
  BY DEF DeleteFirst
<1>6. allocated' \in Int /\ allocated' - nel' \in 0..MaxLost
  <2>1. nel \in Nat /\ allocated \in Int
    BY <1>1, CountIsNat
  <2> QED
    BY <1>1, <1>5, <2>1 DEF Counted
<1> HIDE DEF c
<1> QED
  BY <1>3, <1>4, <1>5, <1>6, DeleteInv

(* The other path of hashtab_delete: the node stays allocated. *)
LEMMA DeleteLaterInv ==
  ASSUME TabInv, NEW key \in Keys, DeleteLater(key)
  PROVE  TabInv'
<1> DEFINE s == hash_value[key]
           at == PlaceOf(htable[s], key)
           c == RemoveAt(htable[s], at)
<1>1. ChainsOK(htable) /\ Counted(htable, nel, allocated) /\ s \in Slots
  BY SlotOfKey DEF TabInv
<1>2. Ordered(htable[s]) /\ htable[s] \in Seq(Node)
  BY <1>1 DEF ChainsOK
<1>3. at > 1 /\ htable' = Replaced(htable, s, c)
  BY <1>1 DEF DeleteLater, chain, ChainsOK, Replaced
<1>4. at \in 1..Len(htable[s]) /\ htable[s][at].key = key
  <2>1. at \in 0..Len(htable[s]) /\ (at # 0 => htable[s][at].key = key)
    BY <1>2, FindPlace
  <2> HIDE DEF at
  <2> QED
    BY <1>2, <1>3, <2>1
<1> HIDE DEF at
<1>5. Ordered(c) /\ Len(c) = Len(htable[s]) - 1 /\ KeysOf(c) = KeysOf(htable[s]) \ {key}
  BY <1>2, <1>4, RemovedChain
<1>6. /\ nel' = nel - 1 /\ table' = table /\ allocated' = allocated
      /\ iter' = WithoutNode(key, "unlinked") /\ allocated - nel < MaxLost
  BY DEF DeleteLater
<1>7. allocated' \in Int /\ allocated' - nel' \in 0..MaxLost
  <2>1. nel \in Nat /\ allocated \in Int
    BY <1>1, CountIsNat
  <2> QED
    BY <1>1, <1>6, <2>1, HashTabAssumption DEF Counted
<1> HIDE DEF c
<1> QED
  BY <1>3, <1>5, <1>6, <1>7, DeleteInv

-----------------------------------------------------------------------------
(* hashtab_iterate *)

(* The keys that the iteration has not passed *)
Follows(k) == Current.node = "none" \/ Before(Current.key, k)

(* The slots are the numbers below size, 0 among them. *)
LEMMA SlotArith == /\ \A i \in Slots : i \in Nat /\ i <= size - 1
                   /\ size \in Nat
                   /\ 0 \in Slots
                   /\ \A i \in Slots : i..(size - 1) \subseteq Slots
BY HashTabAssumption DEF Slots

(* The iterator that a call goes on with *)
LEMMA CurrentFacts ==
  ASSUME TabInv, iter.node # "freed"
  PROVE  /\ Current.slot \in Slots
         /\ Current.node \in {"none", "linked", "unlinked"}
         /\ Current.node = "none" <=> iter.node = "end"
         /\ Current.node = "none" => /\ Current.slot = 0 /\ Current.visited = <<>>
                                     /\ Current.kept = InTable /\ Current.lost = {}
         /\ Current.node # "none" =>
              Current = iter /\ Current.key \in Keys /\ hash_value[Current.key] = Current.slot
         /\ Current.node = "linked" => Held(Current.key, htable)
<1>1. iter \in Iterator /\ IterOK(iter, htable)
  BY DEF TabInv, IterOK
<1>2. CASE iter.node = "end"
  <2>1. Current = [node |-> "none", slot |-> 0, key |-> 0, visited |-> <<>>,
                   kept |-> InTable, lost |-> {}]
    BY <1>2 DEF Current
  <2> QED
    BY <1>2, <2>1, SlotArith
<1>3. CASE iter.node # "end"
  <2>1. Current = iter
    BY <1>3 DEF Current
  <2>2. iter.node \in {"linked", "unlinked"} /\ iter.slot \in Slots
    BY <1>1, <1>3 DEF Iterator, NodeStates
  <2>3. iter.key \in Keys /\ hash_value[iter.key] = iter.slot
    BY <1>1, <1>3 DEF IterOK, VisitedInOrder
  <2> QED
    BY <1>1, <1>3, <2>1, <2>2, <2>3 DEF IterOK
<1> QED
  BY <1>2, <1>3

(* The rest of the chain under the iterator *)
LEMMA RestKeys ==
  ASSUME TabInv, iter.node # "freed"
  PROVE  /\ Ordered(Rest)
         /\ \A k \in KeysOf(Rest) : k \in KeysOf(htable[Current.slot]) /\ Follows(k)
         /\ Current.node # "unlinked" =>
              \A k \in KeysOf(htable[Current.slot]) : Follows(k) => k \in KeysOf(Rest)
<1> DEFINE c == htable[Current.slot]
<1>1. ChainsOK(htable) /\ Current.slot \in Slots
  BY CurrentFacts DEF TabInv
<1>2. Ordered(c) /\ c \in Seq(Node) /\ \A k \in KeysOf(c) : hash_value[k] = Current.slot
  BY <1>1 DEF ChainsOK
<1>3. CASE Current.node = "none"
  <2>1. Rest = c
    BY <1>3, CurrentFacts DEF Rest
  <2> QED
    BY <1>2, <1>3, <2>1 DEF Follows
<1>4. CASE Current.node = "linked"
  <2> DEFINE at == PlaceOf(c, Current.key)
  <2>1. Rest = SubSeq(c, at + 1, Len(c))
    BY <1>4 DEF Rest
  <2>2. Current.key \in KeysOf(c) /\ hash_value[Current.key] = Current.slot
    BY <1>4, CurrentFacts DEF Held
  <2>3. at \in 1..Len(c) /\ c[at].key = Current.key
    <3>1. /\ at \in 0..Len(c) /\ at # 0 /\ c[at].key = Current.key
      BY <1>2, <2>2, FindPlace
    <3> HIDE DEF at
    <3> QED
      BY <1>2, <3>1
  <2> HIDE DEF at, c
  <2>4. Ordered(Rest) /\ KeysOf(Rest) = {k \in KeysOf(c) : Current.key < k}
    BY <1>2, <2>1, <2>3, RestChain
  <2>5. \A k \in KeysOf(c) : Follows(k) <=> Current.key < k
    <3> SUFFICES ASSUME NEW k \in KeysOf(c) PROVE Follows(k) <=> Current.key < k
      OBVIOUS
    <3>1. hash_value[k] = hash_value[Current.key] /\ hash_value[k] \in Nat
      BY <1>1, <1>2, <2>2, SlotArith
    <3> QED
      BY <1>4, <3>1 DEF Follows, Before
  <2> QED
    BY <2>4, <2>5 DEF c
<1>5. CASE Current.node = "unlinked"
  <2>1. Rest = <<>>
    BY <1>5 DEF Rest
  <2> QED
    BY <1>5, <2>1 DEF Ordered, KeysOf
<1> QED
  BY <1>3, <1>4, <1>5, CurrentFacts

(* What the loop over level finds at slot i *)
LEMMA AheadKeys ==
  ASSUME TabInv, iter.node # "freed", NEW i \in Slots, i >= Current.slot
  PROVE  /\ Ordered(Ahead(i))
         /\ \A k \in KeysOf(Ahead(i)) : k \in KeysOf(htable[i]) /\ Follows(k)
         /\ Current.node # "unlinked" \/ i # Current.slot =>
              \A k \in KeysOf(htable[i]) : Follows(k) => k \in KeysOf(Ahead(i))
<1>1. CASE i = Current.slot
  BY <1>1, RestKeys DEF Ahead
<1>2. CASE i # Current.slot
  <2>1. Ahead(i) = htable[i]
    BY <1>2 DEF Ahead
  <2>2. Ordered(htable[i]) /\ \A k \in KeysOf(htable[i]) : hash_value[k] = i
    BY DEF TabInv, ChainsOK
  <2>3. ASSUME NEW k \in KeysOf(htable[i]) PROVE Follows(k)
    <3>1. CASE Current.node = "none"
      BY <3>1 DEF Follows
    <3>2. CASE Current.node # "none"
      <4>1. hash_value[Current.key] = Current.slot /\ Current.slot \in Slots
        BY <3>2, CurrentFacts
      <4>2. hash_value[Current.key] < hash_value[k]
        BY <1>2, <2>2, <4>1, SlotArith
      <4> QED
        BY <4>2 DEF Follows, Before
    <3> QED
      BY <3>1, <3>2
  <2> QED
    BY <2>1, <2>2, <2>3
<1> QED
  BY <1>1, <1>2

(* A chain with a key has a node. *)
LEMMA ChainNotEmpty == ASSUME NEW c, NEW k \in KeysOf(c) PROVE c # <<>>
BY DEF KeysOf

(* A key in the table that the iteration has not passed is found at its    *)
(* slot, unless the node under the iterator was taken out of that slot.    *)
LEMMA FollowsFound ==
  ASSUME TabInv, iter.node # "freed", NEW k \in Keys, Held(k, htable), Follows(k),
         Current.node # "unlinked" \/ hash_value[k] # Current.slot
  PROVE  hash_value[k] \in Levels /\ k \in KeysOf(Ahead(hash_value[k]))
<1> DEFINE i == hash_value[k]
<1>1. i \in Slots /\ i \in Nat /\ i <= size - 1 /\ Current.slot \in Nat
  BY SlotOfKey, SlotArith, CurrentFacts
<1>2. i >= Current.slot
  <2>1. CASE Current.node = "none"
    BY <1>1, <2>1, CurrentFacts
  <2>2. CASE Current.node # "none"
    <3>1. hash_value[Current.key] = Current.slot
      BY <2>2, CurrentFacts
    <3> QED
      BY <1>1, <2>2, <3>1 DEF Follows, Before
  <2> QED
    BY <2>1, <2>2
<1>3. k \in KeysOf(Ahead(i))
  BY <1>1, <1>2, AheadKeys DEF Held
<1>4. Ahead(i) # <<>>
  BY <1>3, ChainNotEmpty
<1>5. i \in Current.slot..(size - 1)
  <2>1. size - 1 \in Int
    BY SlotArith
  <2> HIDE DEF i
  <2> QED
    BY <1>1, <1>2, <2>1
<1> QED
  BY <1>3, <1>4, <1>5 DEF Levels

(* The node that a call gives is the first that the iteration has not passed. *)
LEMMA IterateFinds ==
  ASSUME TabInv, iter.node # "freed", Levels # {}
  PROVE  LET level == Min(Levels)
             cur == Head(Ahead(level))
         IN /\ level \in Slots /\ cur \in Node /\ cur.key \in Keys /\ hash_value[cur.key] = level
            /\ Held(cur.key, htable) /\ Follows(cur.key)
            /\ \A k \in Keys :
                 /\ Held(k, htable) /\ Follows(k)
                 /\ Current.node # "unlinked" \/ hash_value[k] # Current.slot
                 => k = cur.key \/ Before(cur.key, k)
<1> DEFINE level == Min(Levels)
           cur == Head(Ahead(level))
<1>1. Current.slot \in Slots /\ Current.slot \in Nat
  BY CurrentFacts, SlotArith
<1>2. Levels \in SUBSET Nat /\ Levels \subseteq Slots /\ \A i \in Levels : i >= Current.slot /\ Ahead(i) # <<>>
  <2>1. Current.slot..(size - 1) \subseteq Slots
    BY <1>1, SlotArith
  <2>2. \A i \in Current.slot..(size - 1) : i >= Current.slot
    BY <1>1, SlotArith
  <2> QED
    BY <2>1, <2>2, SlotArith DEF Levels
<1>3. level \in Levels /\ \A i \in Levels : level <= i
  BY <1>2, LeastElement
<1> HIDE DEF level
<1>4. level \in Slots /\ level >= Current.slot /\ Ahead(level) # <<>>
  BY <1>2, <1>3
<1>5. /\ Ordered(Ahead(level))
      /\ \A k \in KeysOf(Ahead(level)) : k \in KeysOf(htable[level]) /\ Follows(k)
  BY <1>4, AheadKeys
<1>6. cur \in Node /\ cur.key \in KeysOf(Ahead(level)) /\ \A k \in KeysOf(Ahead(level)) : cur.key <= k
  BY <1>4, <1>5, HeadChain
<1> HIDE DEF cur
<1>7. cur.key \in KeysOf(htable[level]) /\ Follows(cur.key)
  BY <1>5, <1>6
<1>8. hash_value[cur.key] = level
  BY <1>4, <1>7 DEF TabInv, ChainsOK
<1>9. cur.key \in Keys
  BY <1>6 DEF Node
<1>10. Held(cur.key, htable)
  BY <1>7, <1>8 DEF Held
<1>11. ASSUME NEW k \in Keys, Held(k, htable), Follows(k),
              Current.node # "unlinked" \/ hash_value[k] # Current.slot
       PROVE  k = cur.key \/ Before(cur.key, k)
  <2>1. hash_value[k] \in Levels /\ k \in KeysOf(Ahead(hash_value[k]))
    BY <1>11, FollowsFound
  <2>2. level <= hash_value[k] /\ hash_value[k] \in Nat /\ level \in Nat
    BY <1>2, <1>3, <2>1
  <2>3. CASE hash_value[k] = level
    <3>1. cur.key <= k
      BY <1>6, <2>1, <2>3
    <3>2. cur.key \in Int /\ k \in Int
      BY <1>9, SlotOfKey
    <3> QED
      BY <1>8, <2>3, <3>1, <3>2 DEF Before
  <2>4. CASE hash_value[k] # level
    BY <1>8, <2>2, <2>4 DEF Before
  <2> QED
    BY <2>3, <2>4
<1> QED
  BY <1>4, <1>6, <1>7, <1>8, <1>9, <1>10, <1>11 DEF level, cur

(* Before is a strict order on the keys. *)
LEMMA BeforeOrder ==
  /\ \A j, k, l \in Keys : Before(j, k) /\ Before(k, l) => Before(j, l)
  /\ \A k \in Keys : ~Before(k, k)
<1>1. \A k \in Keys : hash_value[k] \in Int /\ k \in Int
  BY SlotOfKey, SlotArith
<1> QED
  BY <1>1 DEF Before

(* The keys in the table *)
LEMMA InTableHeld ==
  ASSUME TabInv
  PROVE  InTable \subseteq Keys /\ \A k \in InTable : Held(k, htable)
<1> SUFFICES ASSUME NEW i \in Slots, NEW k \in KeysOf(htable[i]) PROVE k \in Keys /\ Held(k, htable)
  BY DEF InTable
<1>1. htable[i] \in Seq(Node) /\ hash_value[k] = i
  BY DEF TabInv, ChainsOK
<1> QED
  BY <1>1, ChainKeys DEF Held

(* A call that finds a node: the iterator moves on to it. *)
LEMMA IterateInv == ASSUME TabInv, Iterate PROVE TabInv'
<1> DEFINE level == Min(Levels)
           cur == Head(Ahead(level))
<1>1. iter.node # "freed" /\ Levels # {}
  BY DEF Iterate
<1>2. /\ level \in Slots /\ cur.key \in Keys /\ hash_value[cur.key] = level
      /\ Held(cur.key, htable) /\ Follows(cur.key)
      /\ \A k \in Keys :
           /\ Held(k, htable) /\ Follows(k)
           /\ Current.node # "unlinked" \/ hash_value[k] # Current.slot
           => k = cur.key \/ Before(cur.key, k)
  BY <1>1, IterateFinds
<1>3. UNCHANGED <<table, htable, nel, allocated>>
  BY DEF Iterate
<1>4. iter' = [Current EXCEPT !.node = "linked", !.slot = level, !.key = cur.key,
                              !.visited = Append(@, cur.key)]
  BY DEF Iterate
<1> HIDE DEF level, cur
<1>5. PICK key : key = cur.key
  OBVIOUS
<1> DEFINE seen == Current.visited
<1>6. /\ seen \in Seq(Keys) /\ Current.kept \subseteq Keys /\ Current.lost \in SUBSET Slots
      /\ DOMAIN Current = {"node", "slot", "key", "visited", "kept", "lost"}
  <2>1. CASE iter.node = "end"
    BY <2>1, CurrentFacts, InTableHeld DEF Current
  <2>2. CASE iter.node # "end"
    <3>1. Current = iter /\ iter \in Iterator
      BY <2>2 DEF Current, TabInv, IterOK
    <3> QED
      BY <3>1 DEF Iterator
  <2> QED
    BY <2>1, <2>2
<1>7. /\ iter'.node = "linked" /\ iter'.slot = level /\ iter'.key = key
      /\ iter'.visited = Append(seen, key)
      /\ iter'.kept = Current.kept /\ iter'.lost = Current.lost
      /\ iter' \in Iterator
  <2>1. Current = [node |-> Current.node, slot |-> Current.slot, key |-> Current.key,
                   visited |-> seen, kept |-> Current.kept, lost |-> Current.lost]
    <3>1. CASE iter.node = "end"
      BY <3>1 DEF Current
    <3>2. CASE iter.node # "end"
      <4>1. Current = iter /\ iter \in Iterator
        BY <3>2 DEF Current, TabInv, IterOK
      <4> QED
        BY <4>1 DEF Iterator
    <3> QED
      BY <3>1, <3>2
  <2>2. iter' = [node |-> "linked", slot |-> level, key |-> key,
                 visited |-> Append(seen, key), kept |-> Current.kept, lost |-> Current.lost]
    BY <1>4, <1>5, <2>1
  <2> QED
    BY <1>2, <1>5, <1>6, <2>2 DEF Iterator, NodeStates
<1> HIDE DEF seen
<1>8. \A i \in 1..Len(seen) : Before(seen[i], key)
  <2>1. CASE iter.node = "end"
    <3>1. seen = <<>>
      BY <1>1, <2>1, CurrentFacts DEF seen
    <3> QED
      BY <3>1
  <2>2. CASE iter.node # "end"
    <3>1. Current = iter /\ Current.node # "none"
      BY <1>1, <2>2, CurrentFacts
    <3>2. iter.key \in Keys /\ \A i \in 1..Len(seen) : seen[i] = iter.key \/ Before(seen[i], iter.key)
      BY <2>2, <3>1 DEF TabInv, IterOK, VisitedInOrder, seen
    <3>3. Before(iter.key, key)
      BY <1>2, <1>5, <3>1 DEF Follows
    <3>4. \A i \in 1..Len(seen) : seen[i] \in Keys
      BY <1>6 DEF seen
    <3> QED
      BY <1>2, <1>5, <3>2, <3>3, <3>4, BeforeOrder
  <2> QED
    BY <2>1, <2>2
<1>9. \A i, j \in 1..Len(seen) : i < j => Before(seen[i], seen[j])
  <2>1. CASE iter.node = "end"
    <3>1. seen = <<>>
      BY <1>1, <2>1, CurrentFacts DEF seen
    <3> QED
      BY <3>1
  <2>2. CASE iter.node # "end"
    <3>1. Current = iter
      BY <2>2 DEF Current
    <3> QED
      BY <3>1 DEF TabInv, IterOK, VisitedInOrder, seen
  <2> QED
    BY <2>1, <2>2
<1>10. VisitedInOrder(iter')
  <2> DEFINE v == Append(seen, key)
  <2>1. seen \in Seq(Keys) /\ key \in Keys
    BY <1>2, <1>5, <1>6 DEF seen
  <2>2. /\ Len(v) = Len(seen) + 1 /\ Len(seen) \in Nat
        /\ \A i \in 1..Len(seen) : v[i] = seen[i]
        /\ v[Len(seen) + 1] = key
    BY <2>1
  <2> HIDE DEF v
  <2>3. ASSUME NEW i \in 1..Len(v), NEW j \in 1..Len(v), i < j PROVE Before(v[i], v[j])
    <3>1. i \in 1..Len(seen)
      BY <2>2, <2>3
    <3>2. CASE j = Len(seen) + 1
      BY <1>8, <2>2, <3>1, <3>2
    <3>3. CASE j # Len(seen) + 1
      <4>1. j \in 1..Len(seen)
        BY <2>2, <3>3
      <4> QED
        BY <1>9, <2>2, <2>3, <3>1, <4>1
    <3> QED
      BY <3>2, <3>3
  <2>4. ASSUME NEW i \in 1..Len(v) PROVE v[i] = key \/ Before(v[i], key)
    <3>1. CASE i = Len(seen) + 1
      BY <2>2, <3>1
    <3>2. CASE i # Len(seen) + 1
      <4>1. i \in 1..Len(seen)
        BY <2>2, <3>2
      <4> QED
        BY <1>8, <2>2, <4>1
    <3> QED
      BY <3>1, <3>2
  <2>5. iter'.visited = v /\ iter'.key = key /\ key \in Keys /\ hash_value[key] = iter'.slot
    BY <1>2, <1>5, <1>7 DEF v
  <2> QED
    BY <2>3, <2>4, <2>5 DEF VisitedInOrder
<1>11. KeptAhead(iter', htable')
  <2> SUFFICES ASSUME NEW k \in Current.kept
               PROVE  /\ Held(k, htable)
                      /\ hash_value[k] \in Current.lost \/ k \in ToSet(iter'.visited) \/ Before(key, k)
    BY <1>3, <1>7 DEF KeptAhead
  <2>1. /\ Current.node = "unlinked" => Current.slot \in Current.lost
        /\ Held(k, htable)
        /\ hash_value[k] \in Current.lost \/ k \in ToSet(seen) \/ Follows(k)
    <3>1. CASE iter.node = "end"
      <4>1. Current.node = "none" /\ k \in InTable
        BY <1>1, <3>1, CurrentFacts
      <4> QED
        BY <4>1, InTableHeld DEF Follows
    <3>2. CASE iter.node # "end"
      <4>1. Current = iter /\ Current.node # "none"
        BY <1>1, <3>2, CurrentFacts
      <4>2. /\ iter.node # "linked" => iter.slot \in iter.lost
            /\ Held(k, htable)
            /\ hash_value[k] \in iter.lost \/ k \in ToSet(iter.visited) \/ Before(iter.key, k)
        BY <3>2, <4>1 DEF TabInv, IterOK, KeptAhead
      <4> QED
        BY <4>1, <4>2 DEF Follows, seen
    <3> QED
      BY <3>1, <3>2
  <2>2. \A x : x \in ToSet(iter'.visited) <=> x \in ToSet(seen) \/ x = key
    <3>1. seen \in Seq(Keys) /\ key \in Keys
      BY <1>2, <1>5, <1>6 DEF seen
    <3>2. \A x : x \in ToSet(Append(seen, key)) <=> x \in ToSet(seen) \/ x = key
      <4>1. /\ DOMAIN Append(seen, key) = 1..Len(seen) + 1 /\ DOMAIN seen = 1..Len(seen)
            /\ Len(seen) \in Nat
            /\ \A i \in 1..Len(seen) : Append(seen, key)[i] = seen[i]
            /\ Append(seen, key)[Len(seen) + 1] = key
        BY <3>1
      <4> QED
        BY <4>1 DEF ToSet
    <3> QED
      BY <1>7, <3>2
  <2>3. k \in Keys
    BY <1>6
  <2> QED
    BY <1>2, <1>5, <2>1, <2>2, <2>3
<1>12. IterOK(iter', htable')
  BY <1>2, <1>3, <1>5, <1>7, <1>10, <1>11 DEF IterOK
<1> QED
  BY <1>3, <1>12 DEF TabInv

-----------------------------------------------------------------------------
(* Every call of hashtable.c keeps TabInv. *)
LEMMA TabNextInv == TabInv /\ [TabNext]_tabVars => TabInv'
<1> SUFFICES ASSUME TabInv, [TabNext]_tabVars PROVE TabInv'
  OBVIOUS
<1>1. ASSUME UNCHANGED <<htable, nel, allocated, iter>>, table' \in {table, "undefined"}
      PROVE  TabInv'
  BY <1>1 DEF TabInv
<1>2. ASSUME UNCHANGED <<table, htable, nel, allocated>>, iter' = NoIterator PROVE TabInv'
  BY <1>2, NoIteratorOK DEF TabInv
<1>3. ASSUME InsertRefused PROVE TabInv'
  BY <1>1, <1>3 DEF InsertRefused
<1>4. ASSUME NEW key \in Keys, InsertExists(key) \/ InsertNoMemory(key) PROVE TabInv'
  BY <1>1, <1>4 DEF InsertExists, InsertNoMemory
<1>5. ASSUME NEW key \in Keys, NEW datum \in Data, Insert(key, datum) PROVE TabInv'
  BY <1>5, InsertInv
<1>6. ASSUME NEW key \in Keys, DeleteFirst(key) PROVE TabInv'
  BY <1>6, DeleteFirstInv
<1>7. ASSUME NEW key \in Keys, DeleteLater(key) PROVE TabInv'
  BY <1>7, DeleteLaterInv
<1>8. ASSUME NEW key \in Keys, DeleteAbsent(key) \/ Search(key) PROVE TabInv'
  BY <1>1, <1>8 DEF DeleteAbsent, Search
<1>9. ASSUME NEW bad, Map(bad) PROVE TabInv'
  BY <1>1, <1>9 DEF Map
<1>10. ASSUME TabPrint \/ Stat PROVE TabInv'
  BY <1>1, <1>10 DEF TabPrint, Stat
<1>11. ASSUME TabDestroy PROVE TabInv'
  <2>1. /\ table' = "destroyed" /\ htable' = [i \in Slots |-> <<>>] /\ nel' = 0
        /\ allocated' = allocated - NodeCount /\ iter' = NoIterator
    BY <1>11 DEF TabDestroy
  <2>2. /\ ChainsOK(htable') /\ IsFiniteSet(PlacesOf(htable'))
        /\ Cardinality(PlacesOf(htable')) = 0
    BY <2>1, EmptyTable
  <2>3. Counted(htable', nel', allocated')
    <3>1. nel \in Nat /\ allocated \in Int /\ allocated - nel \in 0..MaxLost
      BY CountIsNat DEF TabInv, Counted
    <3>2. NodeCount = nel
      BY DEF NodeCount, Places, PlacesOf, TabInv, Counted
    <3> QED
      BY <2>1, <2>2, <3>1, <3>2, HashTabAssumption DEF Counted
  <2> QED
    BY <2>1, <2>2, <2>3, NoIteratorOK DEF TabInv
<1>12. ASSUME Iterate PROVE TabInv'
  BY <1>12, IterateInv
<1>13. ASSUME IterateEnd PROVE TabInv'
  BY <1>2, <1>13 DEF IterateEnd
<1>14. ASSUME IterateFreed PROVE TabInv'
  BY <1>1, <1>14 DEF IterateFreed
<1>15. ASSUME UNCHANGED tabVars PROVE TabInv'
  BY <1>1, <1>15 DEF tabVars
<1> QED
  BY <1>3, <1>4, <1>5, <1>6, <1>7, <1>8, <1>9, <1>10, <1>11, <1>12, <1>13, <1>14, <1>15 DEF TabNext

(* TabInv holds in every state of a table. *)
THEOREM TabInvariance == TabSpec => []TabInv
BY TabInitInv, TabNextInv, PTL DEF TabSpec

(* For any slots, keys and hash function: the chains stay strictly ordered *)
(* and hold only keys of their slots, nel is the number of nodes and never *)
(* passes HASHTAB_MAX_NODES, and destroying the table frees all nodes but  *)
(* the ones that hashtab_delete unlinked without free.                     *)
THEOREM TableCorrect == TabSpec => []TableConsistent
<1>1. TabInv => TableConsistent
  <2> SUFFICES ASSUME TabInv PROVE TableConsistent
    OBVIOUS
  <2>1. iter.node \in NodeStates
    BY DEF TabInv, IterOK, Iterator
  <2>2. ASSUME NEW i \in Slots
        PROVE  /\ htable[i] \in Seq(Node)
               /\ \A j \in DOMAIN htable[i] : hash_value[htable[i][j].key] = i
               /\ \A j, k \in DOMAIN htable[i] : j < k => htable[i][j].key < htable[i][k].key
    <3>1. Ordered(htable[i]) /\ \A k \in KeysOf(htable[i]) : hash_value[k] = i
      BY DEF TabInv, ChainsOK
    <3>2. htable[i] \in Seq(Node) /\ DOMAIN htable[i] = 1..Len(htable[i])
      BY <3>1, ChainKeys DEF Ordered
    <3> QED
      BY <3>1, <3>2 DEF Ordered, KeysOf
  <2>3. nel = NodeCount
    BY DEF NodeCount, Places, PlacesOf, TabInv, Counted
  <2> QED
    BY <2>1, <2>2, <2>3 DEF TabInv, Counted, TableConsistent
<1> QED
  BY <1>1, TabInvariance, PTL

(* No key is visited twice. *)
LEMMA VisitedOnce == ASSUME NEW it, NEW h, IterOK(it, h) PROVE IsInjective(it.visited)
<1>1. it.visited \in Seq(Keys)
  BY DEF IterOK, Iterator
<1>2. DOMAIN it.visited = 1..Len(it.visited) /\ Len(it.visited) \in Nat
  BY <1>1
<1>3. ASSUME NEW i \in 1..Len(it.visited), NEW j \in 1..Len(it.visited), i < j
      PROVE  it.visited[i] # it.visited[j]
  <2>1. Before(it.visited[i], it.visited[j])
    BY <1>3 DEF IterOK, VisitedInOrder
  <2>2. it.visited[i] \in Keys
    BY <1>1
  <2> QED
    BY <2>1, <2>2, BeforeOrder
<1>4. ASSUME NEW i \in 1..Len(it.visited), NEW j \in 1..Len(it.visited),
             it.visited[i] = it.visited[j]
      PROVE  i = j
  <2>1. ~(i < j) /\ ~(j < i)
    BY <1>3, <1>4
  <2> QED
    BY <1>2, <2>1
<1> QED
  BY <1>2, <1>4 DEF IsInjective

(* An iteration that ends has met every key that stayed in the table, but  *)
(* in the slots where its node was deleted.                                *)
LEMMA EndMeetsAll ==
  ASSUME TabInv, IterateEnd
  PROVE  \A k \in iter.kept : k \in ToSet(iter.visited) \/ hash_value[k] \in iter.lost
<1>1. iter.node # "freed" /\ Levels = {}
  BY DEF IterateEnd
<1>2. CASE iter.node = "end"
  <2>1. iter.kept = {}
    BY <1>2 DEF TabInv, IterOK, NoIterator
  <2> QED
    BY <2>1
<1>3. CASE iter.node # "end"
  <2>1. Current = iter
    BY <1>3 DEF Current
  <2>2. /\ iter.kept \subseteq Keys
        /\ iter.node # "linked" => iter.slot \in iter.lost
        /\ \A k \in iter.kept :
             /\ Held(k, htable)
             /\ hash_value[k] \in iter.lost \/ k \in ToSet(iter.visited) \/ Before(iter.key, k)
    BY <1>3 DEF TabInv, IterOK, KeptAhead, Iterator
  <2> SUFFICES ASSUME NEW k \in iter.kept, Before(iter.key, k), hash_value[k] \notin iter.lost
               PROVE  FALSE
    BY <2>2
  <2>3. Follows(k)
    BY <2>1 DEF Follows
  <2>4. Current.node # "unlinked" \/ hash_value[k] # Current.slot
    BY <2>1, <2>2
  <2> QED
    BY <1>1, <2>2, <2>3, <2>4, FollowsFound
<1> QED
  BY <1>2, <1>3

(* Only the last call of an iteration gives NULL. *)
LEMMA OnlyIterateEnds ==
  ASSUME TabNext, ret' = <<"iterate", NoDatum>>
  PROVE  IterateEnd
<1>1. \A x : <<"insert", x>> # <<"iterate", NoDatum>>
  OBVIOUS
<1>2. \A x : <<"delete", x>> # <<"iterate", NoDatum>>
  OBVIOUS
<1>3. \A x : <<"search", x>> # <<"iterate", NoDatum>>
  OBVIOUS
<1>4. \A x, y : <<"map", x, y>> # <<"iterate", NoDatum>> /\ <<"stat", x, y>> # <<"iterate", NoDatum>>
  OBVIOUS
<1>5. \A x : <<"print", x>> # <<"iterate", NoDatum>>
  OBVIOUS
<1>6. <<"destroy">> # <<"iterate", NoDatum>> /\ <<"iterate">> # <<"iterate", NoDatum>>
  OBVIOUS
<1>7. \A x, y : <<"iterate", x, y>> # <<"iterate", NoDatum>>
  OBVIOUS
<1>8. ~InsertRefused /\ \A key \in Keys : ~InsertExists(key) /\ ~InsertNoMemory(key)
  BY <1>1, Zenon DEF InsertRefused, InsertExists, InsertNoMemory
<1>9. \A key \in Keys, datum \in Data : ~Insert(key, datum)
  BY <1>1, Zenon DEF Insert
<1>10. \A key \in Keys : ~DeleteFirst(key) /\ ~DeleteAbsent(key) /\ ~Search(key)
  BY <1>2, <1>3, Zenon DEF DeleteFirst, DeleteAbsent, Search
<1>11. \A key \in Keys : ~DeleteLater(key)
  BY <1>2, Zenon DEF DeleteLater
<1>12. \A bad : ~Map(bad)
  BY <1>4, Zenon DEF Map
<1>13. ~TabPrint /\ ~Stat /\ ~TabDestroy /\ ~IterateFreed
  BY <1>4, <1>5, <1>6, Zenon DEF TabPrint, Stat, TabDestroy, IterateFreed
<1>14. ~Iterate
  BY <1>7, Zenon DEF Iterate
<1> QED
  BY <1>8, <1>9, <1>10, <1>11, <1>12, <1>13, <1>14 DEF TabNext

(* For any table, and whatever is inserted and deleted between the calls,  *)
(* hashtab_iterate gives no key twice, and has given every key that stayed *)
(* in the table when it gives NULL: all that may be missing is in chains   *)
(* from which the node under the iterator was deleted.                     *)
THEOREM IterationCorrect == TabSpec => IterationComplete
<1>1. ASSUME TabInv, TabInv', [TabNext]_tabVars
      PROVE  [/\ IsInjective(iter'.visited)
              /\ ret' = <<"iterate", NoDatum>> =>
                   \A key \in iter.kept : key \in ToSet(iter.visited) \/ hash_value[key] \in iter.lost]_tabVars
  <2> SUFFICES ASSUME TabNext
               PROVE  /\ IsInjective(iter'.visited)
                      /\ ret' = <<"iterate", NoDatum>> =>
                           \A key \in iter.kept : key \in ToSet(iter.visited) \/ hash_value[key] \in iter.lost
    BY <1>1
  <2>1. IsInjective(iter'.visited)
    <3>1. IterOK(iter', htable')
      BY <1>1 DEF TabInv
    <3> QED
      BY <3>1, VisitedOnce
  <2>2. ASSUME ret' = <<"iterate", NoDatum>>
        PROVE  \A key \in iter.kept : key \in ToSet(iter.visited) \/ hash_value[key] \in iter.lost
    BY <1>1, <2>2, OnlyIterateEnds, EndMeetsAll
  <2> QED
    BY <2>1, <2>2
<1> QED
  BY <1>1, TabInvariance, PTL DEF TabSpec, IterationComplete

-----------------------------------------------------------------------------
(* A hash table as a map: the nodes in its chains *)

NodesIn(h) == UNION {ToSet(h[i]) : i \in Slots}

(* No two nodes have the same key. *)
Functional(nodes) == \A m, n \in nodes : m.key = n.key => m = n

DictFrom(nodes) ==
  [key \in {node.key : node \in nodes} |-> (CHOOSE node \in nodes : node.key = key).datum]

(* The map gives the datum of the node with the key. *)
LEMMA DictAt ==
  ASSUME NEW N, Functional(N)
  PROVE  /\ DOMAIN DictFrom(N) = {n.key : n \in N}
         /\ \A n \in N : DictFrom(N)[n.key] = n.datum
<1>1. ASSUME NEW n \in N PROVE DictFrom(N)[n.key] = n.datum
  <2> DEFINE m == CHOOSE node \in N : node.key = n.key
  <2>1. m \in N /\ m.key = n.key
    OBVIOUS
  <2>2. m = n
    BY <2>1 DEF Functional
  <2>3. n.key \in {node.key : node \in N}
    OBVIOUS
  <2>4. DictFrom(N)[n.key] = m.datum
    BY <2>3 DEF DictFrom
  <2> QED
    BY <2>2, <2>4
<1> QED
  BY <1>1 DEF DictFrom

(* One node more *)
LEMMA DictGrows ==
  ASSUME NEW N, NEW node, Functional(N \cup {node})
  PROVE  DictFrom(N \cup {node})
           = [j \in DOMAIN DictFrom(N) \cup {node.key} |->
                IF j = node.key THEN node.datum ELSE DictFrom(N)[j]]
<1> DEFINE M == N \cup {node}
           f == DictFrom(M)
           g == DictFrom(N)
<1>1. /\ DOMAIN f = {n.key : n \in M} /\ \A n \in M : f[n.key] = n.datum
  BY DictAt
<1>2. /\ DOMAIN g = {n.key : n \in N} /\ \A n \in N : g[n.key] = n.datum
  <2>1. Functional(N)
    BY DEF Functional
  <2> QED
    BY <2>1, DictAt
<1>3. f = [j \in DOMAIN f |-> f[j]]
  BY DEF DictFrom
<1> HIDE DEF f, g
<1>4. DOMAIN f = DOMAIN g \cup {node.key}
  BY <1>1, <1>2
<1>5. ASSUME NEW j \in DOMAIN f
      PROVE  f[j] = IF j = node.key THEN node.datum ELSE g[j]
  BY <1>1, <1>2
<1>6. f = [j \in DOMAIN g \cup {node.key} |-> IF j = node.key THEN node.datum ELSE g[j]]
  BY <1>3, <1>4, <1>5
<1> QED
  BY <1>6 DEF f, g

(* The node with a key taken out *)
LEMMA DictShrinks ==
  ASSUME NEW N, Functional(N), NEW key
  PROVE  DictFrom({n \in N : n.key # key}) = Restrict(DictFrom(N), DOMAIN DictFrom(N) \ {key})
<1> DEFINE M == {n \in N : n.key # key}
           f == DictFrom(M)
           g == DictFrom(N)
<1>1. /\ DOMAIN f = {n.key : n \in M} /\ \A n \in M : f[n.key] = n.datum
  <2>1. Functional(M)
    BY DEF Functional
  <2> HIDE DEF M
  <2> QED
    BY <2>1, DictAt
<1>2. /\ DOMAIN g = {n.key : n \in N} /\ \A n \in N : g[n.key] = n.datum
  BY DictAt
<1>3. f = [j \in DOMAIN f |-> f[j]]
  BY DEF DictFrom
<1> HIDE DEF f, g
<1>4. DOMAIN f = DOMAIN g \ {key}
  BY <1>1, <1>2
<1>5. ASSUME NEW j \in DOMAIN f
      PROVE  f[j] = g[j]
  BY <1>1, <1>2
<1>6. f = [j \in DOMAIN g \ {key} |-> g[j]]
  BY <1>3, <1>4, <1>5
<1> QED
  BY <1>6 DEF f, g, Restrict

(* The nodes in the chains *)
LEMMA NodesAre ==
  ASSUME NEW h, ChainsOK(h)
  PROVE  /\ \A n : n \in NodesIn(h) <=> \E i \in Slots : \E j \in 1..Len(h[i]) : n = h[i][j]
         /\ NodesIn(h) \subseteq Node
         /\ \A n \in NodesIn(h) : n.key \in Keys /\ n \in ToSet(h[hash_value[n.key]])
         /\ Functional(NodesIn(h))
<1>1. ASSUME NEW i \in Slots
      PROVE  /\ Ordered(h[i]) /\ h[i] \in Seq(Node) /\ DOMAIN h[i] = 1..Len(h[i])
             /\ \A j \in 1..Len(h[i]) : h[i][j] \in Node /\ h[i][j].key \in Keys
                                        /\ hash_value[h[i][j].key] = i
  <2>1. Ordered(h[i]) /\ \A k \in KeysOf(h[i]) : hash_value[k] = i
    BY DEF ChainsOK
  <2>2. h[i] \in Seq(Node)
    BY <2>1 DEF Ordered
  <2> QED
    BY <2>1, <2>2, ChainKeys
<1>2. \A n : n \in NodesIn(h) <=> \E i \in Slots : \E j \in 1..Len(h[i]) : n = h[i][j]
  <2>1. ASSUME NEW n, NEW i \in Slots
        PROVE  n \in ToSet(h[i]) <=> \E j \in 1..Len(h[i]) : n = h[i][j]
    <3>1. DOMAIN h[i] = 1..Len(h[i])
      BY <1>1
    <3> QED
      BY <3>1 DEF ToSet
  <2>2. \A n : n \in NodesIn(h) <=> \E i \in Slots : n \in ToSet(h[i])
    BY DEF NodesIn
  <2> QED
    BY <2>1, <2>2
<1>3. ASSUME NEW n \in NodesIn(h)
      PROVE  n \in Node /\ n.key \in Keys /\ n \in ToSet(h[hash_value[n.key]])
  <2>1. PICK i \in Slots : \E j \in 1..Len(h[i]) : n = h[i][j]
    BY <1>2
  <2>2. PICK j \in 1..Len(h[i]) : n = h[i][j]
    BY <2>1
  <2>3. n \in Node /\ n.key \in Keys /\ hash_value[n.key] = i
    BY <1>1, <2>2
  <2>4. n \in ToSet(h[i])
    BY <1>1, <2>2 DEF ToSet
  <2> QED
    BY <2>3, <2>4
<1>4. ASSUME NEW m \in NodesIn(h), NEW n \in NodesIn(h), m.key = n.key
      PROVE  m = n
  <2> DEFINE i == hash_value[m.key]
             c == h[i]
  <2>1. i \in Slots
    BY <1>3, SlotOfKey
  <2>2. m \in ToSet(c) /\ n \in ToSet(c)
    BY <1>3, <1>4
  <2>3. Ordered(c) /\ c \in Seq(Node) /\ DOMAIN c = 1..Len(c)
    BY <1>1, <2>1
  <2> HIDE DEF c
  <2>4. PICK j \in 1..Len(c) : m = c[j]
    BY <2>2, <2>3 DEF ToSet
  <2>5. PICK k \in 1..Len(c) : n = c[k]
    BY <2>2, <2>3 DEF ToSet
  <2>6. j < k => c[j].key < c[k].key
    BY <2>3 DEF Ordered
  <2>7. k < j => c[k].key < c[j].key
    BY <2>3 DEF Ordered
  <2>8. c[j].key \in Int /\ c[j].key = c[k].key
    BY <1>4, <2>3, <2>4, <2>5, ChainKeys
  <2>9. j = k
    BY <2>6, <2>7, <2>8
  <2> QED
    BY <2>4, <2>5, <2>9
<1> QED
  BY <1>2, <1>3, <1>4 DEF Functional

(* As many keys as places *)
LEMMA CountIs ==
  ASSUME NEW h, ChainsOK(h), IsFiniteSet(PlacesOf(h))
  PROVE  LET f == DictFrom(NodesIn(h)) IN
         IsFiniteSet(DOMAIN f) /\ Cardinality(DOMAIN f) = Cardinality(PlacesOf(h))
<1> DEFINE P == PlacesOf(h)
           K == {n.key : n \in NodesIn(h)}
           F == [x \in P |-> h[x[1]][x[2]].key]
<1>1. \A x : x \in P <=> \E i \in Slots : \E j \in 1..Len(h[i]) : x = <<i, j>>
  BY PlacesMembers
<1>2. /\ \A n : n \in NodesIn(h) <=> \E i \in Slots : \E j \in 1..Len(h[i]) : n = h[i][j]
      /\ Functional(NodesIn(h))
  BY NodesAre
<1>3. ASSUME NEW i \in Slots, NEW j \in 1..Len(h[i])
      PROVE  <<i, j>> \in P /\ F[<<i, j>>] = h[i][j].key /\ h[i][j].key \in K
  BY <1>1, <1>2
<1>4. F \in [P -> K]
  <2>1. ASSUME NEW x \in P PROVE F[x] \in K
    <3>1. PICK i \in Slots : \E j \in 1..Len(h[i]) : x = <<i, j>>
      BY <1>1
    <3>2. PICK j \in 1..Len(h[i]) : x = <<i, j>>
      BY <3>1
    <3> QED
      BY <1>3, <3>2
  <2> QED
    BY <2>1
<1>5. \A k \in K : \E x \in P : F[x] = k
  <2> SUFFICES ASSUME NEW n \in NodesIn(h) PROVE \E x \in P : F[x] = n.key
    OBVIOUS
  <2>1. PICK i \in Slots : \E j \in 1..Len(h[i]) : n = h[i][j]
    BY <1>2
  <2>2. PICK j \in 1..Len(h[i]) : n = h[i][j]
    BY <2>1
  <2> QED
    BY <1>3, <2>2
<1>6. ASSUME NEW x \in P, NEW y \in P, F[x] = F[y] PROVE x = y
  <2>1. PICK i \in Slots : \E j \in 1..Len(h[i]) : x = <<i, j>>
    BY <1>1
  <2>2. PICK j \in 1..Len(h[i]) : x = <<i, j>>
    BY <2>1
  <2>3. PICK k \in Slots : \E l \in 1..Len(h[k]) : y = <<k, l>>
    BY <1>1
  <2>4. PICK l \in 1..Len(h[k]) : y = <<k, l>>
    BY <2>3
  <2>5. h[i][j].key = h[k][l].key
    BY <1>3, <1>6, <2>2, <2>4
  <2>6. /\ Ordered(h[i]) /\ Ordered(h[k])
        /\ h[i][j].key \in KeysOf(h[i]) /\ h[k][l].key \in KeysOf(h[k])
        /\ h[i][j].key \in Int
    BY ChainKeys DEF ChainsOK, Ordered
  <2>7. i = k
    BY <2>5, <2>6 DEF ChainsOK
  <2>8. j < l => h[i][j].key < h[i][l].key
    BY <2>6, <2>7 DEF Ordered
  <2>9. l < j => h[i][l].key < h[i][j].key
    BY <2>6, <2>7 DEF Ordered
  <2>10. j = l
    BY <2>5, <2>6, <2>7, <2>8, <2>9
  <2> QED
    BY <2>2, <2>4, <2>7, <2>10
<1> HIDE DEF F, K, P
<1>7. F \in Bijection(P, K)
  BY <1>4, <1>5, <1>6 DEF Bijection, Injection, Surjection, IsInjective
<1>8. IsFiniteSet(K) /\ Cardinality(K) = Cardinality(P)
  <2>1. IsFiniteSet(P) /\ ExistsBijection(P, K)
    BY <1>7 DEF ExistsBijection, P
  <2> QED
    BY <2>1, FS_Bijection
<1>9. DOMAIN DictFrom(NodesIn(h)) = K
  BY <1>2, DictAt DEF K
<1> QED
  BY <1>8, <1>9 DEF P

-----------------------------------------------------------------------------
(* The nodes of a chain that is changed *)

(* An insertion adds its node. *)
LEMMA InsertedNodes ==
  ASSUME NEW c, Ordered(c), NEW key \in Keys, NEW node \in Node
  PROVE  ToSet(Inserted(c, key, node)) = ToSet(c) \cup {node}
<1> DEFINE at == Stop(c, key)
           r == Inserted(c, key, node)
<1>1. c \in Seq(Node) /\ DOMAIN c = 1..Len(c) /\ Len(c) \in Nat /\ at \in 0..Len(c)
  BY StopPlace DEF Ordered
<1>2. r = IF at = 0 THEN Append(c, node) ELSE InsertAt(c, at, node)
  BY DEF Inserted
<1>3. CASE at = 0
  <2>1. /\ r = Append(c, node) /\ DOMAIN r = 1..Len(c) + 1
        /\ r[Len(c) + 1] = node /\ \A i \in 1..Len(c) : r[i] = c[i]
    BY <1>1, <1>2, <1>3
  <2> HIDE DEF r
  <2>2. \A n : (\E i \in 1..Len(c) + 1 : n = r[i]) <=> (\E i \in 1..Len(c) : n = c[i]) \/ n = node
    <3>1. \A i : i \in 1..Len(c) + 1 <=> i \in 1..Len(c) \/ i = Len(c) + 1
      BY <1>1
    <3> QED
      BY <2>1, <3>1
  <2>3. \A n : n \in ToSet(r) <=> n \in ToSet(c) \/ n = node
    BY <1>1, <2>1, <2>2 DEF ToSet
  <2> QED
    BY <2>3 DEF r
<1>4. CASE at # 0
  <2> HIDE DEF at
  <2>1. at \in 1..Len(c)
    BY <1>1, <1>4
  <2>2. /\ r \in Seq(Node) /\ Len(r) = Len(c) + 1
        /\ \A j \in 1..Len(c) + 1 : r[j] = IF j < at THEN c[j] ELSE IF j = at THEN node ELSE c[j - 1]
    <3>1. r = InsertAt(c, at, node)
      BY <1>2, <1>4
    <3>2. /\ InsertAt(c, at, node) \in Seq(Node) /\ Len(InsertAt(c, at, node)) = Len(c) + 1
          /\ \A j \in 1..Len(c) + 1 : InsertAt(c, at, node)[j] =
               IF j < at THEN c[j] ELSE IF j = at THEN node ELSE c[j - 1]
      <4>1. c \in Seq(Node)
        BY <1>1
      <4> QED
        BY <2>1, <4>1, InsertAtMovesOthers
    <3> HIDE DEF r
    <3> QED
      BY <3>1, <3>2
  <2> HIDE DEF r
  <2>3. DOMAIN r = 1..Len(c) + 1
    BY <2>2
  <2>4. ASSUME NEW j \in 1..Len(c) + 1
        PROVE  r[j] = node \/ \E i \in 1..Len(c) : r[j] = c[i]
    <3>1. CASE j < at
      <4>1. j \in 1..Len(c) /\ r[j] = c[j]
        BY <1>1, <2>1, <2>2, <3>1
      <4> QED
        BY <4>1
    <3>2. CASE j = at
      BY <2>1, <2>2, <3>2
    <3>3. CASE j > at
      <4>1. j - 1 \in 1..Len(c) /\ r[j] = c[j - 1]
        BY <1>1, <2>1, <2>2, <3>3
      <4> QED
        BY <4>1
    <3> QED
      BY <1>1, <2>1, <3>1, <3>2, <3>3
  <2>5. r[at] = node /\ at \in 1..Len(c) + 1
    BY <1>1, <2>1, <2>2
  <2>6. ASSUME NEW i \in 1..Len(c)
        PROVE  \E j \in 1..Len(c) + 1 : r[j] = c[i]
    <3>1. CASE i < at
      <4>1. i \in 1..Len(c) + 1 /\ r[i] = c[i]
        BY <1>1, <2>1, <2>2, <3>1
      <4> QED
        BY <4>1
    <3>2. CASE ~(i < at)
      <4>1. i + 1 \in 1..Len(c) + 1 /\ r[i + 1] = c[i]
        <5>1. i + 1 \in 1..Len(c) + 1 /\ ~(i + 1 < at) /\ i + 1 # at /\ i + 1 - 1 = i
          BY <1>1, <2>1, <3>2
        <5> QED
          BY <2>2, <5>1
      <4> QED
        BY <4>1
    <3> QED
      BY <3>1, <3>2
  <2>7. \A n : (\E j \in 1..Len(c) + 1 : n = r[j]) <=> (\E i \in 1..Len(c) : n = c[i]) \/ n = node
    BY <2>4, <2>5, <2>6
  <2>8. \A n : n \in ToSet(r) <=> n \in ToSet(c) \/ n = node
    BY <1>1, <2>3, <2>7 DEF ToSet
  <2> QED
    BY <2>8 DEF r
<1> QED
  BY <1>3, <1>4

(* A removal takes out the node with its key. *)
LEMMA RemovedNodes ==
  ASSUME NEW c, Ordered(c), NEW at \in 1..Len(c)
  PROVE  ToSet(RemoveAt(c, at)) = {n \in ToSet(c) : n.key # c[at].key}
<1> DEFINE r == RemoveAt(c, at)
<1>1. /\ c \in Seq(Node) /\ DOMAIN c = 1..Len(c) /\ Len(c) \in Nat
      /\ \A j \in 1..Len(c) : c[j].key \in Int
      /\ \A j, k \in 1..Len(c) : j < k => c[j].key < c[k].key
  BY ChainKeys, SMTT(60) DEF Ordered
<1>2. /\ r \in Seq(Node) /\ Len(r) = Len(c) - 1
      /\ \A j \in 1..Len(c) - 1 : r[j] = IF j < at THEN c[j] ELSE c[j + 1]
  BY <1>1, RemoveAtKeepsOthers, ZenonT(60)
<1> HIDE DEF r
<1>3. DOMAIN r = 1..Len(c) - 1
  BY <1>2
<1>4. ASSUME NEW j \in 1..Len(c) - 1
      PROVE  \E i \in 1..Len(c) : i # at /\ r[j] = c[i]
  <2>1. CASE j < at
    <3>1. j \in 1..Len(c) /\ j # at /\ r[j] = c[j]
      BY <1>1, <1>2, <2>1
    <3> QED
      BY <3>1
  <2>2. CASE ~(j < at)
    <3>1. j + 1 \in 1..Len(c) /\ j + 1 # at /\ r[j] = c[j + 1]
      BY <1>1, <1>2, <2>2
    <3> QED
      BY <3>1
  <2> QED
    BY <2>1, <2>2
<1>5. ASSUME NEW i \in 1..Len(c), i # at
      PROVE  \E j \in 1..Len(c) - 1 : r[j] = c[i]
  <2>1. CASE i < at
    <3>1. i \in 1..Len(c) - 1 /\ r[i] = c[i]
      BY <1>1, <1>2, <2>1
    <3> QED
      BY <3>1
  <2>2. CASE ~(i < at)
    <3>1. i - 1 \in 1..Len(c) - 1 /\ ~(i - 1 < at) /\ i - 1 + 1 = i
      BY <1>1, <1>5, <2>2
    <3>2. r[i - 1] = c[i]
      BY <1>2, <3>1
    <3> QED
      BY <3>1, <3>2
  <2> QED
    BY <2>1, <2>2
<1>6. ASSUME NEW i \in 1..Len(c) PROVE i # at <=> c[i].key # c[at].key
  BY <1>1
<1>7. \A n : (\E j \in 1..Len(c) - 1 : n = r[j])
                <=> (\E i \in 1..Len(c) : n = c[i]) /\ n.key # c[at].key
  <2>1. ASSUME NEW j \in 1..Len(c) - 1
        PROVE  (\E i \in 1..Len(c) : r[j] = c[i]) /\ r[j].key # c[at].key
    BY <1>4, <1>6
  <2>2. ASSUME NEW i \in 1..Len(c), c[i].key # c[at].key
        PROVE  \E j \in 1..Len(c) - 1 : c[i] = r[j]
    BY <1>5, <1>6, <2>2
  <2> QED
    BY <2>1, <2>2
<1>8. \A n : n \in ToSet(r) <=> n \in ToSet(c) /\ n.key # c[at].key
  <2>1. \A n : n \in ToSet(r) <=> \E j \in 1..Len(c) - 1 : n = r[j]
    BY <1>3 DEF ToSet
  <2>2. \A n : n \in ToSet(c) <=> \E i \in 1..Len(c) : n = c[i]
    BY <1>1 DEF ToSet
  <2> QED
    BY <1>7, <2>1, <2>2, ZenonT(60)
<1> QED
  BY <1>8 DEF r

(* The table after an insertion, and after a deletion *)
LEMMA TableNodes ==
  ASSUME NEW h, ChainsOK(h), NEW s \in Slots, NEW h2, \A i \in Slots : i # s => h2[i] = h[i]
  PROVE  /\ \A node : ToSet(h2[s]) = ToSet(h[s]) \cup {node} => NodesIn(h2) = NodesIn(h) \cup {node}
         /\ \A key : ToSet(h2[s]) = {n \in ToSet(h[s]) : n.key # key} /\ hash_value[key] = s
                       => NodesIn(h2) = {n \in NodesIn(h) : n.key # key}
<1>1. ASSUME NEW i \in Slots, NEW n \in ToSet(h[i]) PROVE hash_value[n.key] = i
  <2>1. Ordered(h[i]) /\ \A k \in KeysOf(h[i]) : hash_value[k] = i
    BY DEF ChainsOK
  <2>2. h[i] \in Seq(Node) /\ DOMAIN h[i] = 1..Len(h[i])
    BY <2>1 DEF Ordered
  <2>3. PICK j \in 1..Len(h[i]) : n = h[i][j]
    BY <2>2 DEF ToSet
  <2> QED
    BY <2>1, <2>2, <2>3, ChainKeys
<1>2. \A n : /\ n \in NodesIn(h) <=> \E i \in Slots : n \in ToSet(h[i])
             /\ n \in NodesIn(h2) <=> \E i \in Slots : n \in ToSet(h2[i])
  BY DEF NodesIn
<1>3. ASSUME NEW node, ToSet(h2[s]) = ToSet(h[s]) \cup {node}
      PROVE  NodesIn(h2) = NodesIn(h) \cup {node}
  <2>1. \A n : n \in NodesIn(h2) <=> n \in NodesIn(h) \/ n = node
    <3>1. ASSUME NEW i \in Slots, NEW n
          PROVE  n \in ToSet(h2[i]) <=> n \in ToSet(h[i]) \/ (i = s /\ n = node)
      BY <1>3
    <3>2. TAKE n
    <3>3. (\E i \in Slots : n \in ToSet(h2[i])) <=> (\E i \in Slots : n \in ToSet(h[i])) \/ n = node
      BY <3>1
    <3> QED
      BY <1>2, <3>3
  <2> QED
    BY <2>1
<1>4. ASSUME NEW key, ToSet(h2[s]) = {n \in ToSet(h[s]) : n.key # key}, hash_value[key] = s
      PROVE  NodesIn(h2) = {n \in NodesIn(h) : n.key # key}
  <2>1. \A n : n \in NodesIn(h2) <=> n \in NodesIn(h) /\ n.key # key
    <3>1. ASSUME NEW i \in Slots, NEW n
          PROVE  n \in ToSet(h2[i]) <=> n \in ToSet(h[i]) /\ n.key # key
      <4>1. CASE i = s
        BY <1>4, <4>1
      <4>2. CASE i # s
        BY <1>1, <1>4, <4>2
      <4> QED
        BY <4>1, <4>2
    <3>2. TAKE n
    <3>3. (\E i \in Slots : n \in ToSet(h2[i])) <=> (\E i \in Slots : n \in ToSet(h[i])) /\ n.key # key
      BY <3>1
    <3> QED
      BY <1>2, <3>3
  <2> QED
    BY <2>1
<1> QED
  BY <1>3, <1>4

-----------------------------------------------------------------------------
(* What the map says of the chains *)

Contents(h) == DictFrom(NodesIn(h))

(* The keys of the map and its data, as the functions of the table see them *)
LEMMA ContentsAre ==
  ASSUME NEW h, ChainsOK(h)
  PROVE  /\ DOMAIN Contents(h) \subseteq Keys
         /\ \A key \in Keys : key \in DOMAIN Contents(h) <=> key \in KeysOf(h[hash_value[key]])
         /\ \A n \in NodesIn(h) : n.key \in DOMAIN Contents(h) /\ Contents(h)[n.key] = n.datum
         /\ \A i \in Slots : \A j \in 1..Len(h[i]) : h[i][j] \in NodesIn(h)
         /\ \A k \in DOMAIN Contents(h) : \E n \in NodesIn(h) : n.key = k /\ Contents(h)[k] = n.datum
<1> DEFINE f == Contents(h)
<1>1. /\ \A n : n \in NodesIn(h) <=> \E i \in Slots : \E j \in 1..Len(h[i]) : n = h[i][j]
      /\ \A n \in NodesIn(h) : n.key \in Keys /\ n \in ToSet(h[hash_value[n.key]])
      /\ Functional(NodesIn(h))
  BY NodesAre
<1>2. DOMAIN f = {n.key : n \in NodesIn(h)} /\ \A n \in NodesIn(h) : f[n.key] = n.datum
  BY <1>1, DictAt DEF Contents
<1> HIDE DEF f
<1>3. ASSUME NEW k \in DOMAIN f PROVE \E n \in NodesIn(h) : n.key = k /\ f[k] = n.datum
  BY <1>2
<1>4. ASSUME NEW key \in Keys PROVE key \in DOMAIN f <=> key \in KeysOf(h[hash_value[key]])
  <2> DEFINE c == h[hash_value[key]]
  <2>1. hash_value[key] \in Slots
    BY SlotOfKey
  <2>2. c \in Seq(Node) /\ DOMAIN c = 1..Len(c)
    BY <2>1, ChainKeys DEF ChainsOK
  <2>3. ASSUME NEW n \in NodesIn(h), n.key = key PROVE key \in KeysOf(c)
    <3>1. n \in ToSet(c)
      BY <1>1, <2>3
    <3> HIDE DEF c
    <3>2. PICK j \in DOMAIN c : n = c[j]
      BY <3>1 DEF ToSet
    <3> QED
      BY <2>3, <3>2 DEF KeysOf
  <2>4. ASSUME NEW j \in 1..Len(c), c[j].key = key PROVE key \in DOMAIN f
    <3>1. c[j] \in NodesIn(h)
      BY <1>1, <2>1
    <3> QED
      BY <1>2, <2>4, <3>1
  <2>5. key \in DOMAIN f <=> \E n \in NodesIn(h) : n.key = key
    BY <1>2
  <2>6. key \in KeysOf(c) => \E j \in 1..Len(c) : c[j].key = key
    BY <2>2, ChainKeys
  <2> HIDE DEF c
  <2>7. key \in KeysOf(c) <=> key \in DOMAIN f
    BY <2>3, <2>4, <2>5, <2>6
  <2> QED
    BY <2>7 DEF c
<1>5. DOMAIN f \subseteq Keys
  BY <1>1, <1>2
<1>6. \A n \in NodesIn(h) : n.key \in DOMAIN f /\ f[n.key] = n.datum
  BY <1>2
<1>7. \A i \in Slots : \A j \in 1..Len(h[i]) : h[i][j] \in NodesIn(h)
  BY <1>1
<1> QED
  BY <1>3, <1>4, <1>5, <1>6, <1>7 DEF f

(* A search finds a key that is in the chain. *)
LEMMA FoundIs ==
  ASSUME NEW c, Ordered(c), NEW key \in Keys
  PROVE  /\ Found(c, key) <=> key \in KeysOf(c)
         /\ Found(c, key) => Stop(c, key) \in 1..Len(c) /\ c[Stop(c, key)].key = key
<1> DEFINE at == Stop(c, key)
<1>1. /\ at \in 0..Len(c)
      /\ at = 0 => \A j \in 1..Len(c) : c[j].key < key
      /\ at # 0 => /\ c[at].key >= key
                   /\ \A j \in 1..Len(c) : j < at => c[j].key < key
  BY StopPlace DEF Ordered
<1>2. /\ Len(c) \in Nat /\ \A j \in 1..Len(c) : c[j].key \in Int /\ c[j].key \in KeysOf(c)
      /\ \A k \in KeysOf(c) : \E j \in 1..Len(c) : c[j].key = k
  BY ChainKeys DEF Ordered
<1>3. \A j, k \in 1..Len(c) : j < k => c[j].key < c[k].key
  BY DEF Ordered
<1>4. key \in Int
  BY SlotOfKey
<1>5. Found(c, key) <=> at # 0 /\ c[at].key = key
  BY DEF Found
<1> HIDE DEF at
<1>6. Found(c, key) => at \in 1..Len(c) /\ c[at].key = key
  BY <1>1, <1>2, <1>5
<1>7. Found(c, key) => key \in KeysOf(c)
  BY <1>2, <1>6
<1>8. ASSUME NEW j \in 1..Len(c), c[j].key = key PROVE Found(c, key)
  <2>1. at # 0 /\ at \in 1..Len(c)
    BY <1>1, <1>2, <1>4, <1>8
  <2>2. ~(j < at)
    BY <1>1, <1>4, <1>8, <2>1
  <2>3. ~(at < j)
    <3>1. c[at].key >= key /\ c[at].key \in Int
      BY <1>1, <1>2, <2>1
    <3> QED
      BY <1>3, <1>4, <1>8, <2>1, <3>1
  <2>4. at = j
    BY <2>1, <2>2, <2>3
  <2> QED
    BY <1>5, <1>8, <2>1, <2>4
<1>9. Found(c, key) <=> key \in KeysOf(c)
  BY <1>2, <1>7, <1>8
<1> QED
  BY <1>6, <1>9 DEF at

(* The map has as many entries as nel says. *)
LEMMA EntriesCounted ==
  ASSUME TabInv
  PROVE  /\ IsFiniteSet(DOMAIN Contents(htable)) /\ Cardinality(DOMAIN Contents(htable)) = nel
         /\ nel = NodeCount
         /\ nel \in Nat
<1>1. ChainsOK(htable) /\ Counted(htable, nel, allocated)
  BY DEF TabInv
<1>2. IsFiniteSet(PlacesOf(htable)) /\ nel = Cardinality(PlacesOf(htable))
  BY <1>1 DEF Counted
<1>3. nel = NodeCount
  BY <1>2 DEF NodeCount, Places, PlacesOf
<1>4. LET f == DictFrom(NodesIn(htable)) IN
      IsFiniteSet(DOMAIN f) /\ Cardinality(DOMAIN f) = Cardinality(PlacesOf(htable))
  BY <1>1, <1>2, CountIs
<1> QED
  BY <1>1, <1>2, <1>3, <1>4, CountIsNat DEF Contents

-----------------------------------------------------------------------------
(* Each call as a step of the map *)

(* The cardinality of Dict is that of the table's module. *)
LEMMA SameCount == ASSUME NEW S PROVE D!Cardinality(S) = Cardinality(S)
BY DEF D!Cardinality, Cardinality

(* The map is full when the counter says so. *)
LEMMA FullIs == ASSUME TabInv PROVE D!Full <=> nel = HASHTAB_MAX_NODES
<1>1. D!Cardinality(DOMAIN Contents(htable)) = nel
  BY EntriesCounted, SameCount
<1>2. D!Full <=> D!Cardinality(DOMAIN Contents(htable)) = HASHTAB_MAX_NODES
  BY DEF D!Full, Contents, DictFrom, NodesIn
<1> QED
  BY <1>1, <1>2

(* hashtab_insert *)
LEMMA InsertPuts ==
  ASSUME TabInv, NEW key \in Keys, NEW datum \in Data, Insert(key, datum)
  PROVE  D!Put(key, datum)
<1> DEFINE f == Contents(htable)
           g == Contents(htable')
           s == hash_value[key]
           c == htable[s]
           node == [key |-> key, datum |-> datum]
<1>1. ChainsOK(htable) /\ s \in Slots /\ Ordered(c)
  BY SlotOfKey DEF TabInv, ChainsOK
<1>2. nel # HASHTAB_MAX_NODES /\ ~Found(c, key) /\ ret' = <<"insert", "0">>
  BY DEF Insert, chain
<1>3. htable' = Replaced(htable, s, Inserted(c, key, node))
  BY <1>1 DEF Insert, chain, ChainsOK, Replaced, Inserted
<1>4. node \in Node /\ node.key = key /\ node.datum = datum
  BY DEF Node
<1>5. /\ Ordered(Inserted(c, key, node))
      /\ \A k \in KeysOf(Inserted(c, key, node)) : hash_value[k] = s
  <2>1. /\ Ordered(Inserted(c, key, node))
        /\ KeysOf(Inserted(c, key, node)) = KeysOf(c) \cup {key}
    <3> HIDE DEF node, c
    <3> QED
      BY <1>1, <1>2, <1>4, InsertedChain
  <2> QED
    BY <1>1, <2>1 DEF ChainsOK
<1>6. /\ ChainsOK(htable') /\ htable'[s] = Inserted(c, key, node)
      /\ \A i \in Slots : i # s => htable'[i] = htable[i]
  <2> HIDE DEF node, c, s
  <2> QED
    BY <1>1, <1>3, <1>5, ReplacedChain
<1>7. NodesIn(htable') = NodesIn(htable) \cup {node}
  <2>1. ToSet(htable'[s]) = ToSet(htable[s]) \cup {node}
    <3> HIDE DEF node, s
    <3> QED
      BY <1>1, <1>4, <1>6, InsertedNodes
  <2> HIDE DEF node, s
  <2> QED
    BY <1>1, <1>6, <2>1, TableNodes
<1>8. g = [j \in DOMAIN f \cup {key} |-> IF j = key THEN datum ELSE f[j]]
  <2>1. Functional(NodesIn(htable) \cup {node})
    BY <1>6, <1>7, NodesAre
  <2> HIDE DEF node
  <2>2. DictFrom(NodesIn(htable) \cup {node})
           = [j \in DOMAIN DictFrom(NodesIn(htable)) \cup {node.key} |->
                IF j = node.key THEN node.datum ELSE DictFrom(NodesIn(htable))[j]]
    BY <2>1, DictGrows
  <2> QED
    BY <1>4, <1>7, <2>2 DEF Contents
<1>9. key \notin DOMAIN f
  BY <1>1, <1>2, FoundIs, ContentsAre
<1>10. ~D!Full
  BY <1>2, FullIs
<1> HIDE DEF s, c, node
<1> QED
  BY <1>2, <1>8, <1>9, <1>10 DEF D!Put, Contents, DictFrom, NodesIn

(* An insertion that is refused *)
LEMMA RefusalsPut ==
  ASSUME TabInv, NEW key \in Keys, NEW datum \in Data,
         InsertRefused \/ InsertExists(key) \/ InsertNoMemory(key)
  PROVE  D!Put(key, datum)
<1> DEFINE f == Contents(htable)
           c == htable[hash_value[key]]
<1>1. ChainsOK(htable) /\ hash_value[key] \in Slots /\ Ordered(c)
  BY SlotOfKey DEF TabInv, ChainsOK
<1>2. D!Full <=> nel = HASHTAB_MAX_NODES
  BY FullIs
<1>3. key \in DOMAIN f <=> Found(c, key)
  BY <1>1, FoundIs, ContentsAre
<1> HIDE DEF c, f
<1>4. htable' = htable
  BY DEF InsertRefused, InsertExists, InsertNoMemory
<1>5. \/ ret' = <<"insert", "-EINVAL">> /\ D!Full
      \/ ret' = <<"insert", "-EEXIST">> /\ ~D!Full /\ key \in DOMAIN f
      \/ ret' = <<"insert", "-ENOMEM">> /\ ~D!Full /\ key \notin DOMAIN f
  BY <1>2, <1>3 DEF InsertRefused, InsertExists, InsertNoMemory, chain, c
<1>6. Contents(htable') = Contents(htable)
  BY <1>4
<1> QED
  BY <1>5, <1>6 DEF f, D!Put, Contents, DictFrom, NodesIn

(* A deletion of the node at a place of its chain *)
LEMMA DeleteTakes ==
  ASSUME TabInv, NEW key \in Keys, NEW c, Ordered(c), NEW at \in 1..Len(htable[hash_value[key]]),
         htable[hash_value[key]][at].key = key,
         ToSet(c) = {n \in ToSet(htable[hash_value[key]]) : n.key # key},
         KeysOf(c) \subseteq KeysOf(htable[hash_value[key]]),
         htable' = Replaced(htable, hash_value[key], c),
         ret' = <<"delete", htable[hash_value[key]][at].datum>>
  PROVE  D!Take(key)
<1> DEFINE f == Contents(htable)
           g == Contents(htable')
           s == hash_value[key]
<1>1. ChainsOK(htable) /\ s \in Slots
  BY SlotOfKey DEF TabInv
<1>2. \A k \in KeysOf(c) : hash_value[k] = s
  BY <1>1 DEF ChainsOK
<1>3. /\ htable'[s] = c
      /\ \A i \in Slots : i # s => htable'[i] = htable[i]
  <2> HIDE DEF s
  <2> QED
    BY <1>1, <1>2, ReplacedChain DEF s
<1>4. NodesIn(htable') = {n \in NodesIn(htable) : n.key # key}
  BY <1>1, <1>3, TableNodes
<1>5. g = Restrict(f, DOMAIN f \ {key})
  <2>1. Functional(NodesIn(htable))
    BY <1>1, NodesAre
  <2> QED
    BY <1>4, <2>1, DictShrinks DEF Contents
<1>6. key \in DOMAIN f /\ f[key] = htable[s][at].datum
  <2>1. htable[s][at] \in NodesIn(htable)
    BY <1>1, ContentsAre
  <2> QED
    BY <1>1, <2>1, ContentsAre
<1>7. ret' = <<"delete", IF key \in DOMAIN f THEN f[key] ELSE NoDatum>>
  BY <1>6
<1> HIDE DEF s
<1> QED
  BY <1>5, <1>7 DEF D!Take, D!At, D!Restrict, Restrict, Contents, DictFrom, NodesIn

(* hashtab_delete *)
LEMMA DeletesTake ==
  ASSUME TabInv, NEW key \in Keys, DeleteFirst(key) \/ DeleteLater(key) \/ DeleteAbsent(key)
  PROVE  D!Take(key)
<1> DEFINE s == hash_value[key]
<1>1. ChainsOK(htable) /\ s \in Slots
  BY SlotOfKey DEF TabInv
<1>2. Ordered(htable[s]) /\ htable[s] \in Seq(Node)
  BY <1>1 DEF ChainsOK
<1>3. CASE DeleteFirst(key)
  <2> DEFINE c == Tail(htable[s])
  <2>1. htable[s] # <<>> /\ Head(htable[s]).key = key /\ ret' = <<"delete", Head(htable[s]).datum>>
    BY <1>3 DEF DeleteFirst, chain
  <2>2. htable' = Replaced(htable, s, c)
    BY <1>1, <1>3 DEF DeleteFirst, chain, ChainsOK, Replaced
  <2>3. Ordered(c) /\ KeysOf(c) \subseteq KeysOf(htable[s])
    BY <1>2, <2>1, TailChain
  <2>4. 1 \in 1..Len(htable[s]) /\ Head(htable[s]) = htable[s][1]
    BY <1>2, <2>1
  <2>5. c = RemoveAt(htable[s], 1)
    <3> DEFINE q == htable[s]
    <3>1. /\ RemoveAt(q, 1) \in Seq(Node) /\ Len(RemoveAt(q, 1)) = Len(q) - 1
          /\ \A j \in 1..Len(q) - 1 : RemoveAt(q, 1)[j] = IF j < 1 THEN q[j] ELSE q[j + 1]
      BY <1>2, <2>4, RemoveAtKeepsOthers
    <3> HIDE DEF q
    <3>2. q \in Seq(Node) /\ q # <<>> /\ Len(q) \in Nat
      BY <1>2, <2>1 DEF q
    <3>3. /\ Tail(q) \in Seq(Node) /\ Len(Tail(q)) = Len(q) - 1
          /\ \A j \in 1..Len(q) - 1 : Tail(q)[j] = q[j + 1]
      BY <3>2
    <3>4. \A j \in 1..Len(q) - 1 : ~(j < 1)
      BY <3>2
    <3>5. \A j \in 1..Len(Tail(q)) : Tail(q)[j] = RemoveAt(q, 1)[j]
      BY <3>1, <3>3, <3>4
    <3>6. Tail(q) = RemoveAt(q, 1)
      BY <3>1, <3>3, <3>5, SeqEqual
    <3> QED
      BY <3>6 DEF q
  <2>6. ToSet(c) = {n \in ToSet(htable[s]) : n.key # key}
    BY <1>2, <2>1, <2>4, <2>5, RemovedNodes
  <2> HIDE DEF c
  <2> QED
    BY <2>1, <2>2, <2>3, <2>4, <2>6, DeleteTakes
<1>4. CASE DeleteLater(key)
  <2> DEFINE at == PlaceOf(htable[s], key)
             c == RemoveAt(htable[s], at)
  <2>1. at > 1 /\ htable' = Replaced(htable, s, c) /\ ret' = <<"delete", htable[s][at].datum>>
    BY <1>1, <1>4 DEF DeleteLater, chain, ChainsOK, Replaced
  <2>2. at \in 1..Len(htable[s]) /\ htable[s][at].key = key
    <3>1. at \in 0..Len(htable[s]) /\ (at # 0 => htable[s][at].key = key)
      BY <1>2, FindPlace
    <3> HIDE DEF at
    <3> QED
      BY <1>2, <2>1, <3>1
  <2> HIDE DEF at
  <2>3. Ordered(c) /\ KeysOf(c) \subseteq KeysOf(htable[s])
    BY <1>2, <2>2, RemovedChain
  <2>4. ToSet(c) = {n \in ToSet(htable[s]) : n.key # key}
    BY <1>2, <2>2, RemovedNodes
  <2> HIDE DEF c
  <2> QED
    BY <2>1, <2>2, <2>3, <2>4, DeleteTakes
<1>5. CASE DeleteAbsent(key)
  <2> DEFINE f == Contents(htable)
  <2>1. key \notin DOMAIN f
    BY <1>1, <1>5, ContentsAre DEF DeleteAbsent, chain
  <2>2. htable' = htable /\ ret' = <<"delete", NoDatum>>
    BY <1>5 DEF DeleteAbsent
  <2>3. Restrict(f, DOMAIN f \ {key}) = f
    <3>1. DOMAIN f \ {key} = DOMAIN f
      BY <2>1
    <3>2. f = [k \in DOMAIN f |-> f[k]]
      BY DEF Contents, DictFrom
    <3> HIDE DEF f
    <3> QED
      BY <3>1, <3>2 DEF Restrict
  <2>4. ret' = <<"delete", IF key \in DOMAIN f THEN f[key] ELSE NoDatum>>
    BY <2>1, <2>2
  <2>5. Contents(htable') = Restrict(f, DOMAIN f \ {key})
    BY <2>2, <2>3
  <2> QED
    BY <2>4, <2>5 DEF D!Take, D!At, D!Restrict, Restrict, Contents, DictFrom, NodesIn
<1> QED
  BY <1>3, <1>4, <1>5

(* hashtab_search *)
LEMMA SearchLooks ==
  ASSUME TabInv, NEW key \in Keys, Search(key)
  PROVE  D!Look(key)
<1> DEFINE f == Contents(htable)
           c == htable[hash_value[key]]
<1>1. ChainsOK(htable) /\ hash_value[key] \in Slots /\ Ordered(c)
  BY SlotOfKey DEF TabInv, ChainsOK
<1>2. key \in DOMAIN f <=> Found(c, key)
  BY <1>1, FoundIs, ContentsAre
<1>3. Found(c, key) => f[key] = c[Stop(c, key)].datum
  <2> SUFFICES ASSUME Found(c, key) PROVE f[key] = c[Stop(c, key)].datum
    OBVIOUS
  <2>1. Stop(c, key) \in 1..Len(c) /\ c[Stop(c, key)].key = key
    BY <1>1, FoundIs
  <2>2. c[Stop(c, key)] \in NodesIn(htable)
    BY <1>1, <2>1, ContentsAre
  <2> QED
    BY <1>1, <2>1, <2>2, ContentsAre
<1>4. ret' = <<"search", IF key \in DOMAIN f THEN f[key] ELSE NoDatum>>
  <2>1. ret' = <<"search", IF Found(c, key) THEN c[Stop(c, key)].datum ELSE NoDatum>>
    BY DEF Search, chain
  <2> HIDE DEF f, c
  <2> QED
    BY <1>2, <1>3, <2>1
<1>5. htable' = htable
  BY DEF Search
<1> HIDE DEF c
<1> QED
  BY <1>4, <1>5 DEF D!Look, D!At, Contents, DictFrom, NodesIn

-----------------------------------------------------------------------------
(* All nodes, in the order of a traversal *)

LEMMA AllNodesAre ==
  ASSUME NEW h, ChainsOK(h)
  PROVE  LET all == FlattenSeq([i \in 1..size |-> h[i - 1]])
         IN  /\ all \in Seq(Node)
             /\ \A n : n \in NodesIn(h) <=> \E i \in 1..Len(all) : n = all[i]
<1> DEFINE ss == [i \in 1..size |-> h[i - 1]]
           all == FlattenSeq(ss)
<1>1. size \in Nat /\ \A i \in 1..size : i - 1 \in Slots
  BY HashTabAssumption DEF Slots
<1>2. \A i \in Slots : i + 1 \in 1..size /\ i + 1 - 1 = i
  BY HashTabAssumption DEF Slots
<1>3. ss \in Seq(Seq(Node)) /\ Len(ss) = size /\ \A i \in 1..size : ss[i] = h[i - 1]
  BY <1>1 DEF ChainsOK
<1>4. \A i \in Slots : Len(h[i]) \in Nat
  BY DEF ChainsOK
<1>5. \A n : n \in NodesIn(h) <=> \E i \in Slots : \E j \in 1..Len(h[i]) : n = h[i][j]
  BY NodesAre
<1> HIDE DEF ss
<1>6. all \in Seq(Node)
  BY <1>3, FlattenType
<1>7. ASSUME NEW n \in NodesIn(h) PROVE \E i \in 1..Len(all) : n = all[i]
  <2>1. PICK k \in Slots : \E j \in 1..Len(h[k]) : n = h[k][j]
    BY <1>5
  <2>2. PICK j \in 1..Len(h[k]) : n = h[k][j]
    BY <2>1
  <2>3. k + 1 \in 1..Len(ss) /\ ss[k + 1] = h[k]
    <3> DEFINE m == k + 1
    <3>1. m \in 1..size /\ m - 1 = k
      BY HashTabAssumption DEF Slots
    <3> HIDE DEF m
    <3>2. m \in 1..Len(ss) /\ ss[m] = h[m - 1]
      BY <1>3, <3>1
    <3> QED
      BY <3>1, <3>2 DEF m
  <2> DEFINE at == LengthBefore(ss, k + 1)
  <2>4. /\ at \in Nat /\ at + Len(ss[k + 1]) <= Len(all)
        /\ \A l \in 1..Len(ss[k + 1]) : all[at + l] = ss[k + 1][l]
    <3> DEFINE m == k + 1
    <3>1. ss \in Seq(Seq(Node)) /\ m \in 1..Len(ss)
      BY <1>3, <2>3
    <3> HIDE DEF m
    <3>2. /\ LengthBefore(ss, m) \in Nat
          /\ LengthBefore(ss, m) + Len(ss[m]) <= Len(FlattenSeq(ss))
          /\ \A l \in 1..Len(ss[m]) : FlattenSeq(ss)[LengthBefore(ss, m) + l] = ss[m][l]
      BY <3>1, FlattenAt
    <3> QED
      BY <3>2 DEF m
  <2>5. Len(all) \in Nat
    BY <1>6
  <2> HIDE DEF at, all
  <2>6. at + j \in 1..Len(all) /\ all[at + j] = n
    BY <1>4, <2>2, <2>3, <2>4, <2>5
  <2> QED
    BY <2>6
<1>8. ASSUME NEW i \in 1..Len(all) PROVE all[i] \in NodesIn(h)
  <2>1. PICK k \in 1..Len(ss) : \E j \in 1..Len(ss[k]) : i = LengthBefore(ss, k) + j
    BY <1>3, FlattenFrom
  <2>2. PICK j \in 1..Len(ss[k]) : i = LengthBefore(ss, k) + j
    BY <2>1
  <2>3. all[i] = ss[k][j]
    <3>1. ss \in Seq(Seq(Node))
      BY <1>3
    <3>2. \A l \in 1..Len(ss[k]) : FlattenSeq(ss)[LengthBefore(ss, k) + l] = ss[k][l]
      BY <3>1, FlattenAt
    <3> QED
      BY <2>2, <3>2
  <2>4. k - 1 \in Slots /\ ss[k] = h[k - 1]
    BY <1>1, <1>3
  <2> HIDE DEF all
  <2> QED
    BY <1>5, <2>2, <2>3, <2>4
<1> HIDE DEF all
<1>9. \A n : n \in NodesIn(h) <=> \E i \in 1..Len(all) : n = all[i]
  BY <1>7, <1>8
<1> QED
  BY <1>6, <1>9 DEF all, ss

(* hashtab_map *)
LEMMA MapTraverses ==
  ASSUME TabInv, NEW bad, Map(bad)
  PROVE  D!Traverse
<1> DEFINE f == Contents(htable)
           I == {<<k, f[k]>> : k \in DOMAIN f}
           N == NodesIn(htable)
<1>1. ChainsOK(htable)
  BY DEF TabInv
<1>2. AllNodes \in Seq(Node) /\ \A n : n \in N <=> \E i \in 1..Len(AllNodes) : n = AllNodes[i]
  <2>1. LET all == FlattenSeq([i \in 1..size |-> htable[i - 1]])
        IN  /\ all \in Seq(Node)
            /\ \A n : n \in N <=> \E i \in 1..Len(all) : n = all[i]
    BY <1>1, AllNodesAre
  <2> QED
    BY <2>1 DEF AllNodes
<1>3. /\ \A n \in N : n.key \in DOMAIN f /\ f[n.key] = n.datum
      /\ \A k \in DOMAIN f : \E n \in N : n.key = k /\ f[k] = n.datum
  BY <1>1, ContentsAre
<1> HIDE DEF N, f
<1> DEFINE all == AllNodes
<1>4. all \in Seq(Node) /\ DOMAIN all = 1..Len(all) /\ Len(all) \in Nat
  BY <1>2
<1> HIDE DEF all
<1>5. ASSUME NEW i \in 1..Len(all) PROVE <<all[i].key, all[i].datum>> \in I
  <2>1. all[i] \in N
    BY <1>2 DEF all
  <2> QED
    BY <1>3, <2>1
<1>6. ASSUME NEW e \in I PROVE \E i \in 1..Len(all) : e = <<all[i].key, all[i].datum>>
  <2>1. PICK k \in DOMAIN f : e = <<k, f[k]>>
    OBVIOUS
  <2>2. PICK n \in N : n.key = k /\ f[k] = n.datum
    BY <1>3
  <2>3. PICK i \in 1..Len(all) : n = all[i]
    BY <1>2 DEF all
  <2> QED
    BY <2>1, <2>2, <2>3
<1>7. Pairs(all) = I
  <2> HIDE DEF I
  <2>1. \A e : e \in Pairs(all) <=> \E i \in 1..Len(all) : e = <<all[i].key, all[i].datum>>
    BY <1>4 DEF Pairs
  <2> QED
    BY <1>5, <1>6, <2>1
<1>8. ASSUME NEW m \in 1..Len(all)
      PROVE  Pairs(SubSeq(all, 1, m)) \in SUBSET I /\ Pairs(SubSeq(all, 1, m)) # {}
  <2> DEFINE q == SubSeq(all, 1, m)
  <2>1. DOMAIN q = 1..m /\ \A i \in 1..m : q[i] = all[i] /\ i \in 1..Len(all)
    BY <1>4
  <2>2. 1 \in 1..m
    BY <1>4
  <2> HIDE DEF q, I
  <2>3. \A e : e \in Pairs(q) <=> \E i \in 1..m : e = <<q[i].key, q[i].datum>>
    BY <2>1 DEF Pairs
  <2>4. \A e \in Pairs(q) : e \in I
    BY <1>5, <2>1, <2>3
  <2>5. Pairs(q) # {}
    BY <2>2, <2>3
  <2> QED
    BY <2>4, <2>5 DEF q
<1>9. \/ ret' = <<"map", "0", Pairs(all)>>
      \/ \E m \in 1..Len(all) : ret' = <<"map", "stopped", Pairs(SubSeq(all, 1, m))>>
  <2> DEFINE F == {i \in 1..Len(all) : all[i].key \in bad}
             failed == IF F # {} THEN Min(F) ELSE 0
  <2>1. ret' = IF failed = 0 THEN <<"map", "0", Pairs(all)>>
               ELSE <<"map", "stopped", Pairs(SubSeq(all, 1, failed))>>
    BY DEF Map, SelectInSeq, all
  <2>2. failed # 0 => failed \in 1..Len(all)
    <3>1. F \in SUBSET Nat
      OBVIOUS
    <3>2. F # {} => Min(F) \in F
      BY <3>1, LeastElement
    <3> QED
      BY <3>2
  <2> HIDE DEF failed
  <2> QED
    BY <2>1, <2>2
<1>10. \/ ret' = <<"map", "0", I>>
       \/ \E seen \in SUBSET I : seen # {} /\ ret' = <<"map", "stopped", seen>>
  <2> HIDE DEF I
  <2> QED
    BY <1>7, <1>8, <1>9
<1>11. Contents(htable') = Contents(htable)
  BY DEF Map
<1>12. I = D!Items
  BY DEF D!Items, f, Contents, DictFrom, NodesIn
<1> HIDE DEF I
<1> QED
  BY <1>10, <1>11, <1>12 DEF D!Traverse, Contents, DictFrom, NodesIn

(* hashtab_print *)
LEMMA PrintCounts ==
  ASSUME TabInv, TabPrint
  PROVE  D!Count
<1>1. D!Cardinality(DOMAIN Contents(htable)) = NodeCount
  BY EntriesCounted, SameCount
<1>2. ret' = <<"print", D!Cardinality(DOMAIN Contents(htable))>>
  BY <1>1 DEF TabPrint
<1>3. Contents(htable') = Contents(htable)
  BY DEF TabPrint
<1> QED
  BY <1>2, <1>3 DEF D!Count, Contents, DictFrom, NodesIn

(* A map without entries *)
LEMMA NoEntries ==
  ASSUME NEW h
  PROVE  /\ h = [i \in Slots |-> <<>>] => Contents(h) = <<>>
         /\ Contents(h) # <<>> => DOMAIN Contents(h) # {}
<1>1. ASSUME DOMAIN Contents(h) = {} PROVE Contents(h) = <<>>
  <2>1. Contents(h) = [k \in {} |-> Contents(h)[k]]
    BY <1>1 DEF Contents, DictFrom
  <2>2. \A g : g = [k \in {} |-> g[k]] => g = <<>>
    OBVIOUS
  <2> QED
    BY <2>1, <2>2
<1>2. ASSUME h = [i \in Slots |-> <<>>] PROVE DOMAIN Contents(h) = {}
  <2>1. NodesIn(h) = {}
    <3>1. \A i \in Slots : ToSet(h[i]) = {}
      BY <1>2 DEF ToSet
    <3> QED
      BY <3>1 DEF NodesIn
  <2> QED
    BY <2>1 DEF Contents, DictFrom
<1> QED
  BY <1>1, <1>2

(* hashtab_destroy *)
LEMMA DestroyDrops ==
  ASSUME TabDestroy
  PROVE  D!Drop
<1>1. Contents(htable') = <<>> /\ ret' = <<"destroy">>
  BY NoEntries DEF TabDestroy
<1> QED
  BY <1>1 DEF D!Drop, Contents, DictFrom, NodesIn

(* What the loop over level finds are nodes of the table. *)
LEMMA AheadNodes ==
  ASSUME TabInv, iter.node # "freed", Levels # {}
  PROVE  Head(Ahead(Min(Levels))) \in NodesIn(htable)
<1> DEFINE i == Min(Levels)
           c == htable[i]
<1>1. i \in Levels /\ i \in Slots
  <2>1. Levels \in SUBSET Nat
    <3>1. Current.slot \in Nat
      BY CurrentFacts, SlotArith
    <3>2. size - 1 \in Int
      BY SlotArith
    <3> QED
      BY <3>1, <3>2 DEF Levels
  <2>2. i \in Levels
    BY <2>1, LeastElement
  <2>3. i \in Slots
    BY IterateFinds
  <2> QED
    BY <2>2, <2>3
<1>2. Ahead(i) # <<>>
  BY <1>1 DEF Levels
<1> HIDE DEF i
<1>3. c \in Seq(Node)
  BY <1>1 DEF TabInv, ChainsOK
<1>4. \/ Ahead(i) = c
      \/ \E at \in 1..Len(c) : Ahead(i) = SubSeq(c, at + 1, Len(c))
  <2>1. CASE i # Current.slot
    BY <2>1 DEF Ahead
  <2>2. CASE i = Current.slot
    <3>1. Ahead(i) = Rest
      BY <2>2 DEF Ahead
    <3>2. CASE Current.node = "none"
      BY <2>2, <3>1, <3>2, CurrentFacts DEF Rest
    <3>3. CASE Current.node = "linked"
      <4> DEFINE at == PlaceOf(c, Current.key)
      <4>1. Rest = SubSeq(c, at + 1, Len(c))
        BY <2>2, <3>3 DEF Rest
      <4>2. at \in 0..Len(c) /\ at # 0
        <5>1. Current.key \in KeysOf(c)
          BY <2>2, <3>3, CurrentFacts DEF Held
        <5>2. at \in 0..Len(c) /\ (at = 0 => Current.key \notin KeysOf(c))
          BY <1>3, FindPlace
        <5> QED
          BY <5>1, <5>2
      <4> HIDE DEF at, c
      <4>3. at \in 1..Len(c)
        BY <1>3, <4>2
      <4> QED
        BY <3>1, <4>1, <4>3
    <3>4. CASE Current.node = "unlinked"
      BY <1>2, <3>1, <3>4 DEF Rest
    <3> QED
      BY <3>2, <3>3, <3>4, CurrentFacts
  <2> QED
    BY <2>1, <2>2
<1>5. \E j \in 1..Len(c) : Head(Ahead(i)) = c[j]
  <2> HIDE DEF c
  <2>1. CASE Ahead(i) = c
    <3>1. 1 \in 1..Len(c) /\ Head(c) = c[1]
      BY <1>2, <1>3, <2>1
    <3> QED
      BY <2>1, <3>1
  <2>2. ASSUME NEW at \in 1..Len(c), Ahead(i) = SubSeq(c, at + 1, Len(c))
        PROVE  \E j \in 1..Len(c) : Head(Ahead(i)) = c[j]
    <3> DEFINE q == SubSeq(c, at + 1, Len(c))
    <3>1. q \in Seq(Node) /\ Len(q) = Len(c) - at /\ \A j \in 1..Len(c) - at : q[j] = c[at + j]
      BY <1>3
    <3>2. q # <<>>
      BY <1>2, <2>2
    <3> HIDE DEF q
    <3>3. Head(q) = q[1] /\ 1 \in 1..Len(c) - at
      BY <1>3, <3>1, <3>2
    <3>4. at + 1 \in 1..Len(c)
      BY <1>3, <3>3
    <3>5. Head(q) = c[at + 1]
      BY <3>1, <3>3
    <3> QED
      BY <2>2, <3>4, <3>5 DEF q
  <2> QED
    BY <1>4, <2>1, <2>2
<1>6. ChainsOK(htable)
  BY DEF TabInv
<1>7. \A j \in 1..Len(c) : c[j] \in NodesIn(htable)
  BY <1>1, <1>6, ContentsAre
<1> QED
  BY <1>5, <1>7 DEF i

(* hashtab_iterate *)
LEMMA IterateVisits ==
  ASSUME TabInv, Iterate \/ IterateEnd \/ IterateFreed
  PROVE  D!Visit
<1> DEFINE f == Contents(htable)
           I == {<<k, f[k]>> : k \in DOMAIN f}
<1>1. I = D!Items
  BY DEF D!Items, Contents, DictFrom, NodesIn
<1>2. Contents(htable') = Contents(htable)
  BY DEF Iterate, IterateEnd, IterateFreed
<1>3. \/ \E e \in I : ret' = <<"iterate", e[1], e[2]>>
      \/ ret' = <<"iterate", NoDatum>>
      \/ ret' = <<"iterate">>
  <2>1. CASE Iterate
    <3> DEFINE cur == Head(Ahead(Min(Levels)))
    <3>1. cur \in NodesIn(htable) /\ ret' = <<"iterate", cur.key, cur.datum>>
      BY <2>1, AheadNodes DEF Iterate
    <3>2. cur.key \in DOMAIN f /\ f[cur.key] = cur.datum
      BY <3>1, ContentsAre DEF TabInv
    <3> HIDE DEF cur, f
    <3>3. <<cur.key, cur.datum>> \in I
      BY <3>2
    <3> DEFINE e == <<cur.key, cur.datum>>
    <3>4. e[1] = cur.key /\ e[2] = cur.datum
      OBVIOUS
    <3> HIDE DEF e, I
    <3>5. e \in I /\ ret' = <<"iterate", e[1], e[2]>>
      BY <3>1, <3>3, <3>4 DEF e
    <3> QED
      BY <3>5
  <2>2. CASE IterateEnd
    BY <2>2 DEF IterateEnd
  <2>3. CASE IterateFreed
    BY <2>3 DEF IterateFreed
  <2> QED
    BY <2>1, <2>2, <2>3
<1> HIDE DEF I
<1> QED
  BY <1>1, <1>2, <1>3 DEF D!Visit, Contents, DictFrom, NodesIn

-----------------------------------------------------------------------------
(* hashtab_stat *)

(* How many chains have nodes, and how long the longest of them is, *)
(* against the number of nodes in all of them *)
LEMMA LongestChain ==
  ASSUME NEW h, ChainsOK(h), IsFiniteSet(PlacesOf(h)), NEW n, n = Cardinality(PlacesOf(h))
  PROVE  LET used == Cardinality({i \in Slots : h[i] # <<>>})
             longest == Max({Len(h[i]) : i \in Slots})
         IN  /\ used \in 0..n /\ longest \in 0..n
             /\ used * longest >= n
             /\ n # 0 => used >= 1 /\ used + longest - 1 <= n
<1> DEFINE U == {i \in Slots : h[i] # <<>>}
           lens == {Len(h[i]) : i \in Slots}
           P == PlacesOf(h)
<1>1. \A x : x \in P <=> \E i \in Slots : \E j \in 1..Len(h[i]) : x = <<i, j>>
  BY PlacesMembers
<1>2. ASSUME NEW i \in Slots
      PROVE  /\ Len(h[i]) \in Nat
             /\ i \in U <=> Len(h[i]) >= 1
             /\ h[i] = <<>> <=> Len(h[i]) = 0
  <2>1. h[i] \in Seq(Node)
    BY DEF ChainsOK
  <2> QED
    BY <2>1, EmptySeq
<1>3. n \in Nat
  BY FS_CardinalityType
<1>4. IsFiniteSet(U) /\ IsFiniteSet(Slots)
  <2>1. IsFiniteSet(Slots)
    <3>1. 0 \in Int /\ size - 1 \in Int
      BY HashTabAssumption
    <3> QED
      BY <3>1, FS_Interval DEF Slots
  <2>2. U \in SUBSET Slots
    OBVIOUS
  <2> HIDE DEF U
  <2> QED
    BY <2>1, <2>2, FS_Subset
<1> HIDE DEF P, U
(* A chain is no longer than all of them. *)
<1>5. ASSUME NEW i \in Slots
      PROVE  /\ {i} \X (1..Len(h[i])) \in SUBSET P
             /\ IsFiniteSet({i} \X (1..Len(h[i])))
             /\ Cardinality({i} \X (1..Len(h[i]))) = Len(h[i])
             /\ Len(h[i]) \in 0..n
  <2> DEFINE A == {i} \X (1..Len(h[i]))
  <2>1. A \in SUBSET P
    <3>1. \A x \in A : \E j \in 1..Len(h[i]) : x = <<i, j>>
      OBVIOUS
    <3> QED
      BY <1>1, <3>1
  <2>2. /\ IsFiniteSet({i}) /\ Cardinality({i}) = 1
        /\ IsFiniteSet(1..Len(h[i])) /\ Cardinality(1..Len(h[i])) = Len(h[i])
    <3>1. IsFiniteSet({i}) /\ Cardinality({i}) = 1
      BY FS_Singleton
    <3>2. /\ IsFiniteSet(1..Len(h[i]))
          /\ Cardinality(1..Len(h[i])) = IF 1 > Len(h[i]) THEN 0 ELSE Len(h[i]) - 1 + 1
      BY <1>2, FS_Interval
    <3> QED
      BY <1>2, <3>1, <3>2
  <2>3. IsFiniteSet(A) /\ Cardinality(A) = Len(h[i])
    <3>1. IsFiniteSet(A) /\ Cardinality(A) = Cardinality({i}) * Cardinality(1..Len(h[i]))
      BY <2>2, FS_Product
    <3> QED
      BY <1>2, <2>2, <3>1
  <2> HIDE DEF A
  <2>4. Cardinality(A) <= n
    BY <2>1, FS_Subset DEF P
  <2>5. Len(h[i]) \in 0..n
    BY <1>2, <1>3, <2>3, <2>4
  <2> QED
    BY <2>1, <2>3, <2>5 DEF A
(* Each chain with nodes has a first one. *)
<1>6. /\ U \X {1} \in SUBSET P
      /\ IsFiniteSet(U \X {1}) /\ Cardinality(U \X {1}) = Cardinality(U)
      /\ Cardinality(U) \in 0..n
  <2> DEFINE B == U \X {1}
  <2>1. B \in SUBSET P
    <3>1. \A i \in U : i \in Slots /\ 1 \in 1..Len(h[i])
      <4>1. \A i \in U : i \in Slots
        BY DEF U
      <4> QED
        BY <1>2, <4>1
    <3>2. \A x \in B : \E i \in U : x = <<i, 1>>
      OBVIOUS
    <3> QED
      BY <1>1, <3>1, <3>2
  <2>2. IsFiniteSet({1}) /\ Cardinality({1}) = 1
    BY FS_Singleton
  <2>3. Cardinality(U) \in Nat
    BY <1>4, FS_CardinalityType
  <2>4. IsFiniteSet(B) /\ Cardinality(B) = Cardinality(U)
    <3>1. IsFiniteSet(B) /\ Cardinality(B) = Cardinality(U) * Cardinality({1})
      BY <1>4, <2>2, FS_Product
    <3> QED
      BY <2>2, <2>3, <3>1
  <2> HIDE DEF B
  <2>5. Cardinality(B) <= n
    BY <2>1, FS_Subset DEF P
  <2> QED
    BY <1>3, <2>1, <2>3, <2>4, <2>5 DEF B
<1>7. lens \in SUBSET (0..n) /\ lens # {}
  <2>1. 0 \in Slots
    BY SlotArith
  <2> QED
    BY <1>5, <2>1
<1>8. Max(lens) \in lens /\ \A k \in lens : k <= Max(lens)
  BY <1>3, <1>7, GreatestElement
<1> DEFINE longest == Max(lens)
<1>9. PICK m \in Slots : longest = Len(h[m])
  BY <1>8
<1>10. \A i \in Slots : Len(h[i]) <= longest
  BY <1>8
<1>11. longest \in 0..n /\ longest \in Nat
  BY <1>2, <1>5, <1>9
<1> HIDE DEF longest, lens
(* All nodes are at a place below the longest in a chain with nodes. *)
<1>12. Cardinality(U) * longest >= n
  <2> DEFINE C == U \X (1..longest)
  <2>1. P \in SUBSET C
    <3>1. ASSUME NEW i \in Slots, NEW j \in 1..Len(h[i]) PROVE <<i, j>> \in C
      <4>1. i \in U
        BY <1>2
      <4>2. j \in 1..longest
        BY <1>2, <1>10, <1>11
      <4> QED
        BY <4>1, <4>2
    <3> QED
      BY <1>1, <3>1
  <2>2. IsFiniteSet(1..longest) /\ Cardinality(1..longest) = longest
    <3>1. /\ IsFiniteSet(1..longest)
          /\ Cardinality(1..longest) = IF 1 > longest THEN 0 ELSE longest - 1 + 1
      BY <1>11, FS_Interval
    <3> QED
      BY <1>11, <3>1
  <2>3. IsFiniteSet(C) /\ Cardinality(C) = Cardinality(U) * longest
    BY <1>4, <2>2, FS_Product
  <2>4. Cardinality(U) * longest \in Nat
    <3>1. Cardinality(U) \in Nat
      BY <1>3, <1>6
    <3> QED
      BY <1>11, <3>1
  <2> HIDE DEF C
  <2>5. Cardinality(P) <= Cardinality(C)
    BY <2>1, <2>3, FS_Subset
  <2> QED
    BY <1>3, <2>3, <2>4, <2>5 DEF P
(* The longest chain, and the first nodes of the others *)
<1>13. ASSUME n # 0 PROVE Cardinality(U) >= 1 /\ Cardinality(U) + longest - 1 <= n
  <2> DEFINE A == {m} \X (1..Len(h[m]))
             B == U \X {1}
             k == Cardinality(U)
  <2>0. k \in Nat
    BY <1>3, <1>6
  <2>1. k # 0
    <3> SUFFICES ASSUME k = 0 PROVE FALSE
      OBVIOUS
    <3>1. k * longest = 0
      BY <1>11
    <3> HIDE DEF k
    <3> QED
      BY <1>3, <1>12, <1>13, <3>1 DEF k
  <2>2. longest >= 1
    <3> SUFFICES ASSUME longest = 0 PROVE FALSE
      BY <1>11
    <3>1. k * longest = 0
      BY <2>0
    <3> HIDE DEF k
    <3> QED
      BY <1>3, <1>12, <1>13, <3>1 DEF k
  <2>3. A \cap B = {<<m, 1>>}
    <3>1. m \in U /\ 1 \in 1..Len(h[m])
      BY <1>2, <1>9, <1>11, <2>2
    <3>2. \A x : x \in A \cap B <=> x = <<m, 1>>
      BY <3>1
    <3> QED
      BY <3>2
  <2>4. /\ IsFiniteSet(A) /\ IsFiniteSet(B) /\ Cardinality(A) = longest /\ Cardinality(B) = k
        /\ A \cup B \in SUBSET P
    BY <1>5, <1>6, <1>9
  <2> HIDE DEF A, B, k
  <2>5. Cardinality(A \cup B) = longest + k - Cardinality(A \cap B)
    BY <2>4, FS_Union
  <2>6. Cardinality(A \cap B) = 1
    BY <2>3, FS_Singleton
  <2>7. Cardinality(A \cup B) <= n
    BY <2>4, FS_Subset DEF P
  <2>8. longest + k - 1 <= n
    BY <2>5, <2>6, <2>7
  <2> QED
    BY <1>11, <2>0, <2>1, <2>8 DEF k
<1> QED
  BY <1>6, <1>11, <1>12, <1>13 DEF U, lens, longest

LEMMA StatMeasures ==
  ASSUME TabInv, Stat
  PROVE  D!Measure
<1> DEFINE f == Contents(htable)
           used == Cardinality({i \in Slots : htable[i] # <<>>})
           longest == Max({Len(htable[i]) : i \in Slots})
<1>1. IsFiniteSet(PlacesOf(htable)) /\ nel = Cardinality(PlacesOf(htable)) /\ ChainsOK(htable)
  BY DEF TabInv, Counted
<1>2. /\ used \in 0..nel /\ longest \in 0..nel
      /\ used * longest >= nel
      /\ nel # 0 => used >= 1 /\ used + longest - 1 <= nel
  BY <1>1, LongestChain
<1>3. D!Cardinality(DOMAIN f) = nel /\ IsFiniteSet(DOMAIN f) /\ Cardinality(DOMAIN f) = nel
  BY EntriesCounted, SameCount
<1>4. f # <<>> => nel # 0
  <2>1. f # <<>> => DOMAIN f # {}
    BY NoEntries
  <2>2. nel = 0 => DOMAIN f = {}
    BY <1>3, FS_EmptySet
  <2> QED
    BY <2>1, <2>2
<1>5. ret' = <<"stat", used, longest>>
  BY DEF Stat
<1> HIDE DEF used, longest, f
<1> DEFINE c == D!Cardinality(DOMAIN f)
<1>6. c = nel
  BY <1>3
<1> HIDE DEF c
<1>7. \E u, l \in 0..c :
        /\ u * l >= c
        /\ f # <<>> => u >= 1 /\ u + l - 1 <= c
        /\ ret' = <<"stat", u, l>>
  BY <1>2, <1>4, <1>5, <1>6
<1>8. Contents(htable') = Contents(htable)
  BY DEF Stat
<1> QED
  BY <1>7, <1>8 DEF D!Measure, c, f, Contents, DictFrom, NodesIn

-----------------------------------------------------------------------------
(* The refinement *)

LEMMA TabInitDict == TabInit => D!DictInit
<1> SUFFICES ASSUME TabInit PROVE D!DictInit
  OBVIOUS
<1>1. Contents(htable) = <<>> /\ ret = <<"create", "0">>
  BY NoEntries DEF TabInit
<1> QED
  BY <1>1 DEF D!DictInit, Contents, DictFrom, NodesIn

(* A call is a step of the map, for a program that has a key and a datum. *)
LEMMA TabNextDict ==
  ASSUME Keys # {}, Data # {}, TabInv, [TabNext]_tabVars
  PROVE  [D!DictNext]_(D!dictVars)
<1>1. CASE UNCHANGED tabVars
  <2>1. Contents(htable') = Contents(htable) /\ ret' = ret
    BY <1>1 DEF tabVars
  <2> QED
    BY <2>1 DEF D!dictVars, Contents, DictFrom, NodesIn
<1>2. ASSUME NEW key \in Keys, NEW datum \in Data,
             InsertRefused \/ InsertExists(key) \/ InsertNoMemory(key) \/ Insert(key, datum)
      PROVE  D!DictNext
  <2>1. D!Put(key, datum)
    BY <1>2, InsertPuts, RefusalsPut
  <2> QED
    BY <2>1 DEF D!DictNext
<1>3. ASSUME NEW key \in Keys, DeleteFirst(key) \/ DeleteLater(key) \/ DeleteAbsent(key)
      PROVE  D!DictNext
  BY <1>3, DeletesTake DEF D!DictNext
<1>4. ASSUME NEW key \in Keys, Search(key) PROVE D!DictNext
  BY <1>4, SearchLooks DEF D!DictNext
<1>5. ASSUME NEW bad, Map(bad) PROVE D!DictNext
  BY <1>5, MapTraverses DEF D!DictNext
<1>6. CASE TabPrint
  BY <1>6, PrintCounts DEF D!DictNext
<1>7. CASE Stat
  BY <1>7, StatMeasures DEF D!DictNext
<1>8. CASE TabDestroy
  BY <1>8, DestroyDrops DEF D!DictNext
<1>9. CASE Iterate \/ IterateEnd \/ IterateFreed
  BY <1>9, IterateVisits DEF D!DictNext
<1>10. CASE TabNext
  <2>1. PICK key \in Keys, datum \in Data : TRUE
    OBVIOUS
  <2> QED
    BY <1>2, <1>3, <1>4, <1>5, <1>6, <1>7, <1>8, <1>9, <1>10, <2>1 DEF TabNext
<1> QED
  BY <1>1, <1>10

(* For any slots, keys, data, hash function and limit on the nodes, there  *)
(* being a key and a datum: every call of hashtable.c does to the table,   *)
(* and answers, what the finite map of Dict allows.                        *)
THEOREM DictImplemented ==
  ASSUME Keys # {}, Data # {}
  PROVE  TabSpec => ImplementsDict
<1>1. TabInv /\ [TabNext]_tabVars => [D!DictNext]_(D!dictVars)
  BY TabNextDict
<1> QED
  BY <1>1, TabInitDict, TabInvariance, PTL DEF TabSpec, ImplementsDict, D!DictSpec

-----------------------------------------------------------------------------
(***************************************************************************)
(* md5.c hands the padded input to process_block, for any block size, word *)
(* size and range of a word, and however the input is cut into pieces.     *)
(***************************************************************************)

Bytes == {"input", "padding", "size"} \X Nat

Context == [md_total : Nat \X Nat, md_buffer : Seq(Bytes), blocks : Seq(Bytes)]

(* The number n in two words. *)
CountOf(n) == <<n % (MAX_MD5_UINT32 + 1), (n \div (MAX_MD5_UINT32 + 1)) % (MAX_MD5_UINT32 + 1)>>

(* The context m has taken in the bytes s: process_block was given whole   *)
(* blocks of them, the rest, a block at most, is in the buffer, and        *)
(* md_total counts what process_block was given.                           *)
Taken(m, s) ==
  /\ m \in Context
  /\ m.blocks \o m.md_buffer = s
  /\ Len(m.blocks) % MD5_BLOCK_SIZE = 0
  /\ Len(m.md_buffer) <= MD5_BLOCK_SIZE
  /\ m.md_total = CountOf(Len(m.blocks))

(* The inductive invariant. *)
Md5Inv ==
  /\ fed \in Nat
  /\ finished \in BOOLEAN
  /\ ~finished => Taken(md5, Input(0, fed))
  /\ finished => md5.blocks = PaddedInput(fed) /\ Len(md5.blocks) % MD5_BLOCK_SIZE = 0

-----------------------------------------------------------------------------
(* Arithmetic *)

(* A number is made of its quotient and its remainder. *)
LEMMA DivMod ==
  ASSUME NEW a \in Nat, NEW b \in Nat \ {0}
  PROVE  /\ a \div b \in Nat /\ a % b \in 0..b - 1
         /\ a = (a \div b) * b + (a % b)
<1>1. a \div b \in Nat /\ a % b \in 0..b - 1
  OBVIOUS
<1>2. a % b = a - b * (a \div b)
  OBVIOUS
<1> DEFINE q == a \div b
           r == a % b
<1>3. q \in Nat /\ r \in Nat /\ r = a - b * q
  BY <1>1, <1>2
<1> HIDE DEF q, r
<1>4. a = q * b + r
  BY <1>3
<1> QED
  BY <1>1, <1>4 DEF q, r

(* No others are. *)
LEMMA DivModUnique ==
  ASSUME NEW b \in Nat \ {0}, NEW q \in Nat, NEW r \in 0..b - 1
  PROVE  (q * b + r) % b = r /\ (q * b + r) \div b = q
OBVIOUS

(* Multiples of b are the numbers with no remainder. *)
LEMMA Multiple ==
  ASSUME NEW a \in Nat, NEW b \in Nat \ {0}
  PROVE  a % b = 0 <=> \E q \in Nat : a = q * b
<1>1. ASSUME a % b = 0 PROVE a = (a \div b) * b /\ a \div b \in Nat
  <2> DEFINE q == a \div b
  <2>1. q \in Nat /\ a = q * b + 0
    BY <1>1, DivMod
  <2> HIDE DEF q
  <2>2. a = q * b
    BY <2>1
  <2> QED
    BY <2>1, <2>2 DEF q
<1>2. ASSUME NEW q \in Nat, a = q * b PROVE a % b = 0
  <2>1. (q * b + 0) % b = 0
    BY DivModUnique
  <2> QED
    BY <1>2, <2>1
<1> QED
  BY <1>1, <1>2

(* A sum of multiples is a multiple. *)
LEMMA SumOfMultiples ==
  ASSUME NEW a \in Nat, NEW c \in Nat, NEW b \in Nat \ {0}, a % b = 0, c % b = 0
  PROVE  (a + c) % b = 0
<1>1. PICK p \in Nat : a = p * b
  BY Multiple
<1>2. PICK q \in Nat : c = q * b
  BY Multiple
<1>3. a + c = (p + q) * b /\ p + q \in Nat /\ a + c \in Nat
  BY <1>1, <1>2
<1> QED
  BY <1>3, Multiple

(* What exceeds a multiple can be taken off. *)
LEMMA WholeMultiple ==
  ASSUME NEW a \in Nat, NEW b \in Nat \ {0}
  PROVE  a - (a % b) \in Nat /\ (a - (a % b)) % b = 0
<1> DEFINE q == a \div b
           r == a % b
<1>1. q \in Nat /\ r \in 0..b - 1 /\ a = q * b + r
  BY DivMod
<1> HIDE DEF q, r
<1>2. a - r = q * b /\ q * b \in Nat
  BY <1>1
<1>3. (a - r) % b = 0
  BY <1>1, <1>2, Multiple
<1> QED
  BY <1>2, <1>3 DEF r

(* What the assumptions say of the sizes. *)
LEMMA Sizes ==
  /\ MD5_BLOCK_SIZE \in Nat \ {0} /\ WordSize \in Nat
  /\ MAX_MD5_UINT32 \in Nat /\ MAX_MD5_UINT32 + 1 \in Nat \ {0}
  /\ 2 * WordSize < MD5_BLOCK_SIZE
BY Md5Assumption

(* The two words are counted up with the carry. *)
LEMMA CountIsExact ==
  ASSUME NEW n \in Nat, NEW len \in 0..MAX_MD5_UINT32
  PROVE  CountBytes(CountOf(n), len) = CountOf(n + len)
<1> DEFINE b == MAX_MD5_UINT32 + 1
           q == n \div b
           r == n % b
           q1 == q \div b
           q0 == q % b
<1>1. b \in Nat \ {0}
  BY Sizes
<1>2. q \in Nat /\ r \in 0..b - 1 /\ n = q * b + r
  BY <1>1, DivMod
<1>3. q1 \in Nat /\ q0 \in 0..b - 1 /\ q = q1 * b + q0
  BY <1>1, <1>2, DivMod
<1>4. CountOf(n) = <<r, q0>>
  BY DEF CountOf
<1>5. CountBytes(<<r, q0>>, len) =
        IF r > b - 1 - len THEN <<r - (b - len), (q0 + 1) % b>> ELSE <<r + len, q0>>
  <2>1. MAX_MD5_UINT32 = b - 1
    BY Sizes
  <2> HIDE DEF b, r, q0
  <2>2. MAX_MD5_UINT32 + 1 = b
    BY DEF b
  <2> QED
    BY <2>1, <2>2 DEF CountBytes
<1>6. CountOf(n + len) = <<(n + len) % b, ((n + len) \div b) % b>>
  BY DEF CountOf
<1>7. len \in Nat /\ len < b
  BY Sizes
<1> HIDE DEF b, q, r, q1, q0
<1>8. CASE r > b - 1 - len
  <2>1. n + len = (q + 1) * b + (r + len - b) /\ r + len - b \in 0..b - 1 /\ q + 1 \in Nat
    BY <1>1, <1>2, <1>7, <1>8
  <2>2. (n + len) % b = r + len - b /\ (n + len) \div b = q + 1
    BY <1>1, <2>1, DivModUnique, ZenonT(60)
  <2>3. (q + 1) % b = (q0 + 1) % b
    <3>1. CASE q0 + 1 < b
      <4>1. q + 1 = q1 * b + (q0 + 1) /\ q0 + 1 \in 0..b - 1
        BY <1>1, <1>3, <3>1
      <4>2. q0 + 1 = 0 * b + (q0 + 1)
        BY <1>1, <1>3
      <4>3. (q1 * b + (q0 + 1)) % b = q0 + 1
        BY <1>1, <1>3, <4>1, DivModUnique
      <4>4. (0 * b + (q0 + 1)) % b = q0 + 1
        BY <1>1, <4>1, DivModUnique
      <4> QED
        BY <4>1, <4>2, <4>3, <4>4
    <3>2. CASE q0 + 1 = b
      <4>1. q + 1 = (q1 + 1) * b /\ q + 1 \in Nat /\ q1 + 1 \in Nat
        BY <1>1, <1>3, <3>2
      <4>2. q0 + 1 = 1 * b /\ q0 + 1 \in Nat
        BY <1>1, <1>3, <3>2
      <4>3. (q + 1) % b = 0
        BY <1>1, <4>1, Multiple
      <4>4. (q0 + 1) % b = 0
        BY <1>1, <4>2, Multiple
      <4> QED
        BY <4>3, <4>4
    <3> QED
      BY <1>1, <1>3, <3>1, <3>2
  <2>4. r + len - b = r - (b - len)
    BY <1>1, <1>2, <1>7
  <2> QED
    BY <1>4, <1>5, <1>6, <1>8, <2>2, <2>3, <2>4
<1>9. CASE ~(r > b - 1 - len)
  <2>1. n + len = q * b + (r + len) /\ r + len \in 0..b - 1
    BY <1>1, <1>2, <1>7, <1>9
  <2>2. (q * b + (r + len)) % b = r + len /\ (q * b + (r + len)) \div b = q
    BY <1>1, <1>2, <2>1, DivModUnique
  <2> QED
    BY <1>4, <1>5, <1>6, <1>9, <2>1, <2>2 DEF q0
<1> QED
  BY <1>8, <1>9

(* The two words shifted by three bits are the count in bits. *)
LEMMA BitsAreExact ==
  ASSUME NEW n \in Nat
  PROVE  /\ LowBits(CountOf(n)) = (8 * n) % (MAX_MD5_UINT32 + 1)
         /\ HighBits(CountOf(n)) =
              ((8 * n) \div (MAX_MD5_UINT32 + 1)) % (MAX_MD5_UINT32 + 1)
<1> DEFINE b == MAX_MD5_UINT32 + 1
           q == n \div b
           r == n % b
           q1 == q \div b
           q0 == q % b
           c == b \div 8
           s == r \div c
           t == r % c
<1>1. b \in Nat \ {0}
  BY Sizes
<1>2. q \in Nat /\ r \in 0..b - 1 /\ n = q * b + r
  BY <1>1, DivMod
<1>3. q1 \in Nat /\ q0 \in 0..b - 1 /\ q = q1 * b + q0
  BY <1>1, <1>2, DivMod
<1>4. c \in Nat \ {0} /\ b = 8 * c
  <2>1. b % 8 = 0
    BY Md5Assumption
  <2> QED
    BY <1>1, <2>1
<1>5. s \in Nat /\ t \in 0..c - 1 /\ r = s * c + t
  <2>1. r \in Nat
    BY <1>1, <1>2
  <2> HIDE DEF c, r
  <2> QED
    BY <1>4, <2>1, DivMod
<1>6. LowBits(CountOf(n)) = t * 8 /\ HighBits(CountOf(n)) = ((q0 * 8) % b) + s
  BY DEF CountOf, LowBits, HighBits
<1> HIDE DEF b, q, r, q1, q0, c, s, t
<1>7. s < 8
  <2>1. ASSUME s >= 8 PROVE FALSE
    <3>1. s * c >= 8 * c
      BY <1>4, <1>5, <2>1
    <3> QED
      BY <1>2, <1>4, <1>5, <3>1
  <2> QED
    BY <1>5, <2>1
<1>8. (8 * n) % b = t * 8 /\ (8 * n) \div b = 8 * q + s
  <2>1. 8 * n = (8 * q + s) * b + t * 8
    <3>1. s * b = 8 * (s * c) /\ s * c \in Nat
      <4>1. s * (8 * c) = 8 * (s * c) /\ s * c \in Nat
        BY <1>4, <1>5
      <4> QED
        BY <1>4, <4>1
    <3>2. 8 * r = s * b + t * 8
      BY <1>4, <1>5, <3>1
    <3>3. (8 * q + s) * b = 8 * (q * b) + s * b /\ q * b \in Nat /\ s * b \in Nat
      BY <1>1, <1>2, <1>5
    <3>4. 8 * n = 8 * (q * b) + 8 * r
      BY <1>1, <1>2, <3>3
    <3>5. t * 8 \in Nat
      BY <1>4, <1>5
    <3> DEFINE x == q * b
               y == s * b
               z == t * 8
    <3>6. x \in Nat /\ y \in Nat /\ z \in Nat /\ 8 * n = 8 * x + (y + z)
      BY <3>2, <3>3, <3>4, <3>5
    <3>7. (8 * q + s) * b = 8 * x + y
      BY <3>3
    <3> HIDE DEF x, y, z
    <3>8. 8 * n = (8 * x + y) + z
      BY <3>6
    <3> QED
      BY <3>7, <3>8 DEF z
  <2>2. t * 8 \in 0..b - 1 /\ 8 * q + s \in Nat
    BY <1>2, <1>4, <1>5
  <2>3. ((8 * q + s) * b + t * 8) % b = t * 8 /\ ((8 * q + s) * b + t * 8) \div b = 8 * q + s
    BY <1>1, <2>2, DivModUnique
  <2> QED
    BY <2>1, <2>3
<1>9. (8 * q + s) % b = ((q0 * 8) % b) + s
  <2> DEFINE u == q0 \div c
             v == q0 % c
  <2>1. u \in Nat /\ v \in 0..c - 1 /\ q0 = u * c + v
    BY <1>3, <1>4, DivMod
  <2> HIDE DEF u, v
  <2>2. q0 * 8 = u * b + v * 8 /\ v * 8 \in 0..b - 1
    BY <1>4, <2>1
  <2>3. (u * b + v * 8) % b = v * 8
    BY <1>1, <2>1, <2>2, DivModUnique
  <2>4. 8 * q + s = (8 * q1 + u) * b + (v * 8 + s) /\ 8 * q1 + u \in Nat
    <3>1. 8 * q = (8 * q1) * b + q0 * 8
      BY <1>1, <1>3
    <3> QED
      BY <1>1, <1>3, <1>5, <2>1, <2>2, <3>1
  <2>5. v * 8 + s \in 0..b - 1
    BY <1>4, <1>5, <1>7, <2>1
  <2>6. ((8 * q1 + u) * b + (v * 8 + s)) % b = v * 8 + s
    BY <1>1, <2>4, <2>5, DivModUnique
  <2> QED
    BY <2>2, <2>3, <2>4, <2>6
<1>10. MAX_MD5_UINT32 + 1 = b
  BY DEF b
<1> QED
  BY <1>6, <1>8, <1>9, <1>10

(* The padding makes the whole a number of blocks, with no more zeros than *)
(* that takes: whatever is in the buffer, md5_finish pads as RFC 1321 has  *)
(* it for the whole input.                                                 *)
LEMMA PadIsExact ==
  ASSUME NEW k \in Nat, k % MD5_BLOCK_SIZE = 0, NEW bytes \in 0..MD5_BLOCK_SIZE
  PROVE  LET room == k + bytes + 1 + 2 * WordSize
         IN /\ Pad(bytes) \in Nat \ {0}
            /\ Pad(bytes) = 1 + ((MD5_BLOCK_SIZE - (room % MD5_BLOCK_SIZE)) % MD5_BLOCK_SIZE)
            /\ (k + (bytes + Pad(bytes) + 2 * WordSize)) % MD5_BLOCK_SIZE = 0
<1> DEFINE b == MD5_BLOCK_SIZE
           w == 2 * WordSize
           p == Pad(bytes)
           room == k + bytes + 1 + w
<1>1. b \in Nat \ {0} /\ w \in Nat /\ w < b /\ bytes \in 0..b
  BY Sizes
<1>2. PICK j \in Nat : k = j * b
  BY <1>1, Multiple
<1>3. p = IF b - w - bytes <= 0 THEN b - w - bytes + b ELSE b - w - bytes
  BY DEF Pad
<1> HIDE DEF b, w, p
<1>4. p \in 1..b
  BY <1>1, <1>3
<1>5. PICK i \in Nat \ {0} : k + (bytes + p + w) = i * b
  <2>1. CASE b - w - bytes <= 0
    <3>1. bytes + p + w = 2 * b
      BY <1>1, <1>3, <2>1
    <3>2. k + (bytes + p + w) = (j + 2) * b
      BY <1>1, <1>2, <3>1
    <3> QED
      BY <3>2
  <2>2. CASE ~(b - w - bytes <= 0)
    <3>1. bytes + p + w = b
      BY <1>1, <1>3, <2>2
    <3>2. k + (bytes + p + w) = (j + 1) * b
      BY <1>1, <1>2, <3>1
    <3> QED
      BY <3>2
  <2> QED
    BY <2>1, <2>2
<1>6. room = i * b - (p - 1) /\ room \in Nat
  BY <1>1, <1>4, <1>5
<1>7. p - 1 = (b - (room % b)) % b
  <2> HIDE DEF room
  <2>1. CASE p = 1
    <3>1. room = i * b
      BY <1>1, <1>6, <2>1
    <3>2. room % b = 0
      BY <1>1, <1>6, <3>1, Multiple
    <3>3. (1 * b + 0) % b = 0
      BY <1>1, DivModUnique
    <3>4. b - (room % b) = 1 * b + 0
      BY <1>1, <3>2
    <3> QED
      BY <2>1, <3>3, <3>4
  <2>2. CASE p # 1
    <3>1. room = (i - 1) * b + (b - (p - 1)) /\ i - 1 \in Nat /\ b - (p - 1) \in 0..b - 1
      BY <1>1, <1>4, <1>6, <2>2
    <3>2. ((i - 1) * b + (b - (p - 1))) % b = b - (p - 1)
      BY <1>1, <3>1, DivModUnique
    <3>3. b - (room % b) = p - 1
      BY <1>1, <1>4, <3>1, <3>2
    <3>4. p - 1 \in 0..b - 1
      BY <1>1, <1>4
    <3>5. (0 * b + (p - 1)) % b = p - 1
      BY <1>1, <3>4, DivModUnique
    <3>6. 0 * b + (p - 1) = p - 1
      BY <1>1, <3>4
    <3> QED
      BY <3>3, <3>5, <3>6
  <2> QED
    BY <2>1, <2>2
<1>8. (k + (bytes + p + w)) % b = 0
  <2>1. k + (bytes + p + w) \in Nat
    BY <1>1, <1>4
  <2> QED
    BY <1>1, <1>5, <2>1, Multiple
<1>9. p = 1 + ((b - (room % b)) % b)
  BY <1>4, <1>7
<1> QED
  BY <1>4, <1>8, <1>9 DEF b, w, p

-----------------------------------------------------------------------------
(* Bytes *)

(* Bytes put together. *)
LEMMA ConcatBytes ==
  ASSUME NEW s \in Seq(Bytes), NEW t \in Seq(Bytes)
  PROVE  /\ s \o t \in Seq(Bytes) /\ Len(s \o t) = Len(s) + Len(t)
         /\ s \o <<>> = s /\ <<>> \o s = s
BY ConcatProperties, ConcatEmptySeq

(* Bytes put together in two ways. *)
LEMMA RegroupBytes ==
  ASSUME NEW s \in Seq(Bytes), NEW t \in Seq(Bytes), NEW u \in Seq(Bytes)
  PROVE  (s \o t) \o u = s \o (t \o u)
BY ConcatAssociative

(* The bytes that are made up are bytes. *)
LEMMA MadeOfBytes ==
  /\ \A from, len \in Nat : Input(from, len) \in Seq(Bytes) /\ Len(Input(from, len)) = len
  /\ \A pad \in Nat : Padding(pad) \in Seq(Bytes) /\ Len(Padding(pad)) = pad
  /\ \A value \in Nat : SizeWord(value) \in Seq(Bytes) /\ Len(SizeWord(value)) = WordSize
<1>1. ASSUME NEW from \in Nat, NEW len \in Nat
      PROVE  Input(from, len) \in Seq(Bytes) /\ Len(Input(from, len)) = len
  BY DEF Input, Bytes
<1>2. ASSUME NEW pad \in Nat PROVE Padding(pad) \in Seq(Bytes) /\ Len(Padding(pad)) = pad
  BY DEF Padding, Bytes
<1>3. ASSUME NEW value \in Nat
      PROVE  SizeWord(value) \in Seq(Bytes) /\ Len(SizeWord(value)) = WordSize
  BY Sizes DEF SizeWord, Bytes
<1> QED
  BY <1>1, <1>2, <1>3

(* A piece of the input continues the one before. *)
LEMMA InputContinues ==
  ASSUME NEW n \in Nat, NEW len \in Nat
  PROVE  Input(0, n) \o Input(n, len) = Input(0, n + len)
<1> DEFINE s == Input(0, n)
           t == Input(n, len)
           u == Input(0, n + len)
<1>1. /\ s \in Seq(Bytes) /\ Len(s) = n
      /\ t \in Seq(Bytes) /\ Len(t) = len
      /\ u \in Seq(Bytes) /\ Len(u) = n + len
  BY MadeOfBytes
<1>2. \A i \in 1..n : s[i] = u[i]
  BY DEF Input
<1>3. \A i \in n + 1..n + len : t[i - n] = u[i]
  BY DEF Input
<1> HIDE DEF s, t, u
<1>4. /\ s \o t \in Seq(Bytes) /\ Len(s \o t) = n + len
      /\ \A i \in 1..n + len : (s \o t)[i] = IF i <= n THEN s[i] ELSE t[i - n]
  BY <1>1, ConcatProperties
<1>5. \A i \in 1..n + len : (s \o t)[i] = u[i]
  BY <1>2, <1>3, <1>4
<1>6. s \o t = u
  BY <1>1, <1>4, <1>5, SeqEqual, SMTT(60)
<1> QED
  BY <1>6 DEF s, t, u

(* Bytes cut in two are the two together. *)
LEMMA CutBytes ==
  ASSUME NEW s \in Seq(Bytes), NEW k \in 0..Len(s)
  PROVE  /\ SubSeq(s, 1, k) \in Seq(Bytes) /\ Len(SubSeq(s, 1, k)) = k
         /\ SubSeq(s, k + 1, Len(s)) \in Seq(Bytes) /\ Len(SubSeq(s, k + 1, Len(s))) = Len(s) - k
         /\ SubSeq(s, 1, k) \o SubSeq(s, k + 1, Len(s)) = s
<1>1. Len(s) \in Nat /\ \A i \in 1..Len(s) : s[i] \in Bytes
  BY LenProperties, ElementOfSeq
<1>2. SubSeq(s, 1, k) \in Seq(Bytes) /\ Len(SubSeq(s, 1, k)) = k
  <2>1. \A i \in 1..k : s[i] \in Bytes
    BY <1>1
  <2>2. 1 \in Int /\ k \in Int
    BY <1>1
  <2> QED
    BY <1>1, <2>1, <2>2, SubSeqProperties
<1>3. SubSeq(s, k + 1, Len(s)) \in Seq(Bytes) /\ Len(SubSeq(s, k + 1, Len(s))) = Len(s) - k
  <2>1. \A i \in k + 1..Len(s) : s[i] \in Bytes
    BY <1>1
  <2>2. k + 1 \in Int /\ Len(s) \in Int
    BY <1>1
  <2> QED
    BY <1>1, <2>1, <2>2, SubSeqProperties
<1>4. SubSeq(s, 1, k) \o SubSeq(s, k + 1, Len(s)) = SubSeq(s, 1, Len(s))
  <2>1. 1 \in 1..Len(s) + 1 /\ k \in 1 - 1..Len(s) /\ Len(s) \in k..Len(s)
    BY <1>1
  <2> QED
    BY <2>1, ConcatAdjacentSubSeq
<1>5. SubSeq(s, 1, Len(s)) = s
  BY SubSeqFull
<1> QED
  BY <1>2, <1>3, <1>4, <1>5

(* The whole blocks and what is left are the bytes. *)
LEMMA WholeAndLeft ==
  ASSUME NEW s \in Seq(Bytes)
  PROVE  /\ Whole(s) \in Seq(Bytes) /\ Left(s) \in Seq(Bytes)
         /\ Whole(s) \o Left(s) = s
         /\ Len(Whole(s)) % MD5_BLOCK_SIZE = 0 /\ Len(Whole(s)) <= Len(s)
         /\ Len(Left(s)) = Len(s) % MD5_BLOCK_SIZE /\ Len(Left(s)) < MD5_BLOCK_SIZE
<1> DEFINE r == Len(s) % MD5_BLOCK_SIZE
           k == Len(s) - r
<1>1. Len(s) \in Nat
  BY LenProperties
<1>2. r \in Nat /\ r < MD5_BLOCK_SIZE /\ k \in Nat /\ k % MD5_BLOCK_SIZE = 0
  <2>1. r \in 0..MD5_BLOCK_SIZE - 1
    BY <1>1, Sizes, DivMod
  <2>2. k \in Nat /\ k % MD5_BLOCK_SIZE = 0
    BY <1>1, Sizes, WholeMultiple
  <2> QED
    BY <2>1, <2>2, Sizes
<1>3. Whole(s) = SubSeq(s, 1, k)
  BY DEF Whole
<1> HIDE DEF r
<1>4. k \in 0..Len(s)
  BY <1>1, <1>2
<1> HIDE DEF k
<1>5. Len(Whole(s)) = k /\ Whole(s) \in Seq(Bytes)
  BY <1>3, <1>4, CutBytes
<1>6. Left(s) = SubSeq(s, k + 1, Len(s))
  BY <1>5 DEF Left
<1>7. Left(s) \in Seq(Bytes) /\ Len(Left(s)) = Len(s) - k /\ Whole(s) \o Left(s) = s
  BY <1>3, <1>4, <1>6, CutBytes
<1>8. Len(Left(s)) = r /\ Len(Whole(s)) <= Len(s)
  BY <1>1, <1>2, <1>4, <1>5, <1>7 DEF k
<1> QED
  BY <1>2, <1>5, <1>7, <1>8 DEF r

-----------------------------------------------------------------------------
(* Steps *)

(* A count is a pair of numbers. *)
LEMMA CountType == ASSUME NEW n \in Nat PROVE CountOf(n) \in Nat \X Nat
<1> DEFINE b == MAX_MD5_UINT32 + 1
           q == n \div b
<1>1. b \in Nat \ {0}
  BY Sizes
<1>2. q \in Nat /\ n % b \in Nat
  BY <1>1, DivMod
<1>3. q % b \in Nat
  <2> HIDE DEF q
  <2> QED
    BY <1>1, <1>2, DivMod
<1>4. CountOf(n) = <<n % b, q % b>>
  BY DEF CountOf
<1> QED
  BY <1>2, <1>3, <1>4

(* Whole blocks given to process_block are counted. *)
LEMMA BlocksTaken ==
  ASSUME NEW m \in Context, Len(m.blocks) % MD5_BLOCK_SIZE = 0,
         m.md_total = CountOf(Len(m.blocks)),
         NEW bytes \in Seq(Bytes), Len(bytes) % MD5_BLOCK_SIZE = 0, Len(bytes) <= MAX_MD5_UINT32
  PROVE  /\ process_block(m, bytes) \in Context
         /\ process_block(m, bytes).blocks = m.blocks \o bytes
         /\ process_block(m, bytes).md_buffer = m.md_buffer
         /\ process_block(m, bytes).md_total = CountOf(Len(m.blocks \o bytes))
         /\ Len(m.blocks \o bytes) % MD5_BLOCK_SIZE = 0
<1>1. m.blocks \in Seq(Bytes) /\ m.md_buffer \in Seq(Bytes)
  BY DEF Context
<1>2. Len(m.blocks) \in Nat /\ Len(bytes) \in Nat
  BY <1>1, LenProperties
<1>3. m.blocks \o bytes \in Seq(Bytes) /\ Len(m.blocks \o bytes) = Len(m.blocks) + Len(bytes)
  BY <1>1, ConcatProperties
<1>4. CountBytes(m.md_total, Len(bytes)) = CountOf(Len(m.blocks) + Len(bytes))
  <2>1. Len(bytes) \in 0..MAX_MD5_UINT32
    BY <1>2, Sizes
  <2> QED
    BY <1>2, <2>1, CountIsExact
<1>5. process_block(m, bytes) =
        [m EXCEPT !.md_total = CountOf(Len(m.blocks \o bytes)), !.blocks = m.blocks \o bytes]
  BY <1>3, <1>4 DEF process_block
<1>6. CountOf(Len(m.blocks \o bytes)) \in Nat \X Nat
  <2>1. Len(m.blocks \o bytes) \in Nat
    BY <1>2, <1>3
  <2> QED
    BY <2>1, CountType
<1>7. (Len(m.blocks) + Len(bytes)) % MD5_BLOCK_SIZE = 0
  BY <1>2, Sizes, SumOfMultiples
<1> DEFINE c == CountOf(Len(m.blocks \o bytes))
           z == m.blocks \o bytes
<1>8. process_block(m, bytes) = [m EXCEPT !.md_total = c, !.blocks = z]
  BY <1>5
<1>9. c \in Nat \X Nat /\ z \in Seq(Bytes)
  BY <1>3, <1>6
<1> HIDE DEF c, z
<1>10. /\ process_block(m, bytes) \in Context
       /\ process_block(m, bytes).blocks = z
       /\ process_block(m, bytes).md_buffer = m.md_buffer
       /\ process_block(m, bytes).md_total = c
  BY <1>8, <1>9 DEF Context
<1> QED
  BY <1>3, <1>7, <1>10 DEF c, z

(* How much of a piece goes into the buffer. *)
LEMMA HowMuchFits ==
  ASSUME NEW m \in Context, Len(m.md_buffer) <= MD5_BLOCK_SIZE,
         NEW len \in Nat, MD5_BLOCK_SIZE + len <= MAX_MD5_UINT32
  PROVE  /\ Add(m, len) \in 0..len
         /\ Len(m.md_buffer) + Add(m, len) <= 2 * MD5_BLOCK_SIZE
         /\ Add(m, len) # len =>
              \/ Len(m.md_buffer) = 0 /\ Add(m, len) = 0
              \/ Len(m.md_buffer) + Add(m, len) = 2 * MD5_BLOCK_SIZE
<1> DEFINE i == Len(m.md_buffer)
           b == MAX_MD5_UINT32 + 1
<1>1. i \in Nat /\ i <= MD5_BLOCK_SIZE
  BY LenProperties DEF Context
<1>2. b \in Nat \ {0} /\ i + len \in 0..b - 1
  BY <1>1, Sizes
<1>3. (i + len) % b = i + len
  <2> HIDE DEF i, b
  <2>1. (0 * b + (i + len)) % b = i + len
    BY <1>2, DivModUnique
  <2>2. 0 * b + (i + len) = i + len
    BY <1>1, <1>2
  <2> QED
    BY <2>1, <2>2
<1>4. Add(m, len) = IF i = 0 THEN 0
                    ELSE IF (i + len) % b > 2 * MD5_BLOCK_SIZE THEN 2 * MD5_BLOCK_SIZE - i ELSE len
  BY DEF Add
<1>5. MD5_BLOCK_SIZE \in Nat
  BY Sizes
<1> HIDE DEF i, b
<1>6. /\ Add(m, len) \in 0..len
      /\ i + Add(m, len) <= 2 * MD5_BLOCK_SIZE
      /\ Add(m, len) # len => (i = 0 /\ Add(m, len) = 0) \/ i + Add(m, len) = 2 * MD5_BLOCK_SIZE
  BY <1>1, <1>3, <1>4, <1>5
<1> QED
  BY <1>6 DEF i

(* The buffer takes what fits.  If something does not, it is empty after   *)
(* that.                                                                   *)
LEMMA BufferFilled ==
  ASSUME NEW m, NEW s, Taken(m, s), NEW bytes \in Seq(Bytes),
         MD5_BLOCK_SIZE + Len(bytes) <= MAX_MD5_UINT32
  PROVE  /\ Taken(FillBuffer(m, bytes), s \o SubSeq(bytes, 1, Add(m, Len(bytes))))
         /\ Add(m, Len(bytes)) # Len(bytes) => FillBuffer(m, bytes).md_buffer = <<>>
<1> DEFINE a == Add(m, Len(bytes))
           piece == SubSeq(bytes, 1, a)
           buffer == m.md_buffer \o piece
<1>1. /\ m \in Context /\ m.blocks \in Seq(Bytes) /\ m.md_buffer \in Seq(Bytes)
      /\ m.blocks \o m.md_buffer = s
  BY DEF Taken, Context
<1>2. Len(bytes) \in Nat /\ Len(m.md_buffer) \in Nat /\ Len(m.md_buffer) <= MD5_BLOCK_SIZE
  BY <1>1, LenProperties DEF Taken
<1>3. /\ a \in 0..Len(bytes)
      /\ Len(m.md_buffer) + a <= 2 * MD5_BLOCK_SIZE
      /\ a # Len(bytes) =>
           \/ Len(m.md_buffer) = 0 /\ a = 0
           \/ Len(m.md_buffer) + a = 2 * MD5_BLOCK_SIZE
  BY <1>1, <1>2, HowMuchFits
<1> HIDE DEF a
<1>4. piece \in Seq(Bytes) /\ Len(piece) = a
  BY <1>3, CutBytes
<1> HIDE DEF piece
<1>5. buffer \in Seq(Bytes) /\ Len(buffer) = Len(m.md_buffer) + a
  BY <1>1, <1>4, ConcatBytes
<1>6. m.blocks \o buffer = s \o piece
  <2>1. (m.blocks \o m.md_buffer) \o piece = m.blocks \o (m.md_buffer \o piece)
    BY <1>1, <1>4, RegroupBytes, ZenonT(60)
  <2> QED
    BY <1>1, <2>1, Zenon
<1>7. FillBuffer(m, bytes) =
        IF Len(buffer) > MD5_BLOCK_SIZE
        THEN [process_block(m, Whole(buffer)) EXCEPT !.md_buffer = Left(buffer)]
        ELSE [m EXCEPT !.md_buffer = buffer]
  BY DEF FillBuffer, piece, a
<1> HIDE DEF buffer
<1>8. CASE Len(buffer) > MD5_BLOCK_SIZE
  <2> DEFINE w == Whole(buffer)
             l == Left(buffer)
             p == process_block(m, w)
  <2>1. /\ w \in Seq(Bytes) /\ l \in Seq(Bytes) /\ w \o l = buffer
        /\ Len(w) % MD5_BLOCK_SIZE = 0 /\ Len(w) <= Len(buffer)
        /\ Len(l) = Len(buffer) % MD5_BLOCK_SIZE /\ Len(l) < MD5_BLOCK_SIZE
    BY <1>5, WholeAndLeft
  <2>2. Len(w) <= MAX_MD5_UINT32
    <3>1. Len(w) \in Nat
      BY <2>1, LenProperties
    <3> QED
      BY <1>2, <1>3, <1>5, <2>1, <3>1, Sizes
  <2> HIDE DEF w, l
  <2>3. /\ p \in Context /\ p.blocks = m.blocks \o w
        /\ p.md_total = CountOf(Len(m.blocks \o w))
        /\ Len(m.blocks \o w) % MD5_BLOCK_SIZE = 0
    BY <2>1, <2>2, BlocksTaken DEF Taken
  <2>4. FillBuffer(m, bytes) = [p EXCEPT !.md_buffer = l]
    BY <1>7, <1>8 DEF w, l
  <2> HIDE DEF p
  <2> DEFINE f == FillBuffer(m, bytes)
  <2>5. f \in Context /\ f.blocks = p.blocks /\ f.md_total = p.md_total /\ f.md_buffer = l
    BY <2>1, <2>3, <2>4 DEF Context
  <2>6. (m.blocks \o w) \o l = s \o piece
    <3>1. (m.blocks \o w) \o l = m.blocks \o (w \o l)
      BY <1>1, <2>1, RegroupBytes, ZenonT(60)
    <3> QED
      BY <1>6, <2>1, <3>1, Zenon
  <2>7. Len(l) <= MD5_BLOCK_SIZE
    BY <2>1, LenProperties, Sizes
  <2> HIDE DEF f
  <2>8. Taken(f, s \o piece)
    BY <2>3, <2>5, <2>6, <2>7 DEF Taken
  <2>9. a # Len(bytes) => f.md_buffer = <<>>
    <3> SUFFICES ASSUME a # Len(bytes) PROVE l = <<>>
      BY <2>5
    <3>1. Len(buffer) = 2 * MD5_BLOCK_SIZE /\ Len(buffer) \in Nat
      BY <1>2, <1>3, <1>5, <1>8, Sizes
    <3>2. Len(buffer) % MD5_BLOCK_SIZE = 0
      BY <3>1, Sizes, Multiple
    <3> QED
      BY <2>1, <3>2, EmptySeq
  <2> QED
    BY <2>8, <2>9 DEF f, a, piece
<1>9. CASE ~(Len(buffer) > MD5_BLOCK_SIZE)
  <2> DEFINE f == FillBuffer(m, bytes)
  <2>1. f = [m EXCEPT !.md_buffer = buffer]
    BY <1>7, <1>9
  <2>2. f \in Context /\ f.blocks = m.blocks /\ f.md_total = m.md_total /\ f.md_buffer = buffer
    BY <1>1, <1>5, <2>1 DEF Context
  <2> HIDE DEF f
  <2>3. Len(buffer) \in Nat /\ Len(buffer) <= MD5_BLOCK_SIZE
    BY <1>2, <1>3, <1>5, <1>9, Sizes
  <2>4. Taken(f, s \o piece)
    BY <1>6, <2>2, <2>3 DEF Taken
  <2>5. a # Len(bytes) => f.md_buffer = <<>>
    <3> SUFFICES ASSUME a # Len(bytes) PROVE buffer = <<>>
      BY <2>2
    <3>1. Len(buffer) = 0
      BY <1>2, <1>3, <1>5, <2>3, Sizes
    <3> QED
      BY <1>5, <3>1, EmptySeq
  <2> QED
    BY <2>4, <2>5 DEF f, a, piece
<1> QED
  BY <1>8, <1>9

(* Whole blocks of the rest go to process_block, what is left of it into   *)
(* the buffer, which overwrites nothing.                                   *)
LEMMA RestTaken ==
  ASSUME NEW m, NEW s, Taken(m, s), NEW rest \in Seq(Bytes), Len(rest) <= MAX_MD5_UINT32,
         rest # <<>> => m.md_buffer = <<>>
  PROVE  Taken(KeepRest(TakeBlocks(m, rest), rest), s \o rest)
<1>1. /\ m \in Context /\ m.blocks \in Seq(Bytes) /\ m.md_buffer \in Seq(Bytes)
      /\ m.blocks \o m.md_buffer = s
  BY DEF Taken, Context
<1>2. s \in Seq(Bytes) /\ (m.md_buffer = <<>> => s = m.blocks)
  BY <1>1, ConcatBytes
<1>3. Len(rest) \in Nat /\ MD5_BLOCK_SIZE \in Nat \ {0}
  BY LenProperties, Sizes
<1>4. CASE rest = <<>>
  <2>1. Len(rest) = 0
    BY <1>4
  <2>2. ~(Len(rest) > MD5_BLOCK_SIZE)
    BY <1>3, <2>1
  <2>3. KeepRest(TakeBlocks(m, rest), rest) = m
    BY <1>4, <2>2 DEF KeepRest, TakeBlocks
  <2>4. s \o rest = s
    BY <1>2, <1>4, ConcatBytes
  <2> QED
    BY <2>3, <2>4
<1>5. CASE rest # <<>> /\ ~(Len(rest) > MD5_BLOCK_SIZE)
  <2> DEFINE f == KeepRest(TakeBlocks(m, rest), rest)
  <2>1. f = [m EXCEPT !.md_buffer = rest]
    BY <1>5 DEF KeepRest, TakeBlocks
  <2>2. f \in Context /\ f.blocks = m.blocks /\ f.md_total = m.md_total /\ f.md_buffer = rest
    BY <1>1, <2>1 DEF Context
  <2> HIDE DEF f
  <2>3. Len(rest) <= MD5_BLOCK_SIZE
    BY <1>3, <1>5
  <2>4. Taken(f, s \o rest)
    BY <1>2, <1>5, <2>2, <2>3 DEF Taken
  <2> QED
    BY <2>4 DEF f
<1>6. CASE rest # <<>> /\ Len(rest) > MD5_BLOCK_SIZE
  <2> DEFINE w == Whole(rest)
             l == Left(rest)
             p == process_block(m, w)
             f == KeepRest(TakeBlocks(m, rest), rest)
  <2>1. /\ w \in Seq(Bytes) /\ l \in Seq(Bytes) /\ w \o l = rest
        /\ Len(w) % MD5_BLOCK_SIZE = 0 /\ Len(w) <= Len(rest)
        /\ Len(l) < MD5_BLOCK_SIZE
    BY WholeAndLeft
  <2>2. Len(w) <= MAX_MD5_UINT32
    <3>1. Len(w) \in Nat
      BY <2>1, LenProperties
    <3> QED
      BY <1>3, <2>1, <3>1, Sizes
  <2>3. f = IF l # <<>> THEN [p EXCEPT !.md_buffer = l] ELSE p
    BY <1>6 DEF KeepRest, TakeBlocks
  <2> HIDE DEF w, l
  <2>4. /\ p \in Context /\ p.blocks = m.blocks \o w /\ p.md_buffer = m.md_buffer
        /\ p.md_total = CountOf(Len(m.blocks \o w))
        /\ Len(m.blocks \o w) % MD5_BLOCK_SIZE = 0
    BY <2>1, <2>2, BlocksTaken DEF Taken
  <2> HIDE DEF p, f
  <2>5. f \in Context /\ f.blocks = p.blocks /\ f.md_total = p.md_total /\ f.md_buffer = l
    <3>1. CASE l # <<>>
      BY <2>1, <2>3, <2>4, <3>1 DEF Context
    <3>2. CASE l = <<>>
      BY <1>6, <2>3, <2>4, <3>2
    <3> QED
      BY <3>1, <3>2
  <2>6. (m.blocks \o w) \o l = s \o rest
    <3>1. (m.blocks \o w) \o l = m.blocks \o (w \o l)
      BY <1>1, <2>1, RegroupBytes, ZenonT(60)
    <3> QED
      BY <1>2, <1>6, <2>1, <3>1, Zenon
  <2>7. Len(l) <= MD5_BLOCK_SIZE
    BY <1>3, <2>1, LenProperties
  <2>8. Taken(f, s \o rest)
    BY <2>4, <2>5, <2>6, <2>7 DEF Taken
  <2> QED
    BY <2>8 DEF f
<1> QED
  BY <1>4, <1>5, <1>6

(* A call of md5_process takes in its piece. *)
LEMMA PieceTaken ==
  ASSUME NEW m, NEW s, Taken(m, s), NEW bytes \in Seq(Bytes),
         MD5_BLOCK_SIZE + Len(bytes) <= MAX_MD5_UINT32
  PROVE  Taken(md5_process(m, bytes), s \o bytes)
<1> DEFINE a == Add(m, Len(bytes))
           head == SubSeq(bytes, 1, a)
           rest == SubSeq(bytes, a + 1, Len(bytes))
           f == FillBuffer(m, bytes)
<1>1. m \in Context /\ m.blocks \o m.md_buffer = s /\ s \in Seq(Bytes)
  BY ConcatBytes DEF Taken, Context
<1>2. Len(bytes) \in Nat /\ MD5_BLOCK_SIZE \in Nat /\ MAX_MD5_UINT32 \in Nat
  BY LenProperties, Sizes
<1>3. a \in 0..Len(bytes)
  BY <1>1, <1>2, HowMuchFits DEF Taken
<1>4. Taken(f, s \o head) /\ (a # Len(bytes) => f.md_buffer = <<>>)
  BY BufferFilled
<1>5. md5_process(m, bytes) = KeepRest(TakeBlocks(f, rest), rest)
  BY DEF md5_process
<1> HIDE DEF a, f
<1>6. /\ head \in Seq(Bytes)
      /\ rest \in Seq(Bytes) /\ Len(rest) = Len(bytes) - a
      /\ head \o rest = bytes
  BY <1>3, CutBytes
<1> HIDE DEF head, rest
<1>7. Len(rest) <= MAX_MD5_UINT32
  BY <1>2, <1>3, <1>6
<1>8. rest # <<>> => f.md_buffer = <<>>
  <2>1. ASSUME rest # <<>> PROVE a # Len(bytes)
    <3>1. Len(rest) \in Nat \ {0}
      BY <1>6, <2>1, EmptySeq
    <3> QED
      BY <1>2, <1>6, <3>1
  <2> QED
    BY <1>4, <2>1
<1>9. Taken(KeepRest(TakeBlocks(f, rest), rest), (s \o head) \o rest)
  BY <1>4, <1>6, <1>7, <1>8, RestTaken
<1>10. (s \o head) \o rest = s \o bytes
  <2>1. (s \o head) \o rest = s \o (head \o rest)
    BY <1>1, <1>6, RegroupBytes, ZenonT(60)
  <2> QED
    BY <1>6, <2>1, Zenon
<1> QED
  BY <1>5, <1>9, <1>10

(* md5_finish gives process_block the rest of the padded input. *)
LEMMA FinishPads ==
  ASSUME NEW m, NEW n \in Nat, Taken(m, Input(0, n))
  PROVE  /\ md5_finish(m).blocks = PaddedInput(n)
         /\ Len(md5_finish(m).blocks) % MD5_BLOCK_SIZE = 0
<1> DEFINE k == Len(m.blocks)
           bytes == Len(m.md_buffer)
           b == MAX_MD5_UINT32 + 1
           pad == Padding(Pad(bytes))
           low == SizeWord((8 * n) % b)
           high == SizeWord(((8 * n) \div b) % b)
           last == ((m.md_buffer \o pad) \o low) \o high
<1>1. /\ m \in Context /\ m.blocks \in Seq(Bytes) /\ m.md_buffer \in Seq(Bytes)
      /\ m.blocks \o m.md_buffer = Input(0, n)
      /\ k % MD5_BLOCK_SIZE = 0 /\ bytes <= MD5_BLOCK_SIZE /\ m.md_total = CountOf(k)
  BY DEF Taken, Context
<1>2. k \in Nat /\ bytes \in Nat /\ k + bytes = n
  <2>1. Len(Input(0, n)) = n
    BY MadeOfBytes
  <2>2. Len(m.blocks \o m.md_buffer) = k + bytes
    BY <1>1, ConcatBytes
  <2> QED
    BY <1>1, <2>1, <2>2, LenProperties
<1>3. CountBytes(m.md_total, bytes) = CountOf(n)
  <2>1. bytes \in 0..MAX_MD5_UINT32
    BY <1>1, <1>2, Sizes, Md5Assumption
  <2> QED
    BY <1>1, <1>2, <2>1, CountIsExact
<1>4. LowBits(CountOf(n)) = (8 * n) % b /\ HighBits(CountOf(n)) = ((8 * n) \div b) % b
  BY BitsAreExact
<1>5. md5_finish(m).blocks = m.blocks \o last
  <2> DEFINE total == CountBytes(m.md_total, bytes)
  <2>1. md5_finish(m) = process_block([m EXCEPT !.md_total = total],
           ((m.md_buffer \o pad) \o SizeWord(LowBits(total))) \o SizeWord(HighBits(total)))
    BY DEF md5_finish
  <2>2. md5_finish(m) = process_block([m EXCEPT !.md_total = CountOf(n)], last)
    BY <1>3, <1>4, <2>1
  <2> HIDE DEF total, last
  <2>3. [m EXCEPT !.md_total = CountOf(n)].blocks = m.blocks
    BY <1>1 DEF Context
  <2>4. DOMAIN [m EXCEPT !.md_total = CountOf(n)] = {"md_total", "md_buffer", "blocks"}
    BY <1>1 DEF Context
  <2> DEFINE mm == [m EXCEPT !.md_total = CountOf(n)]
  <2>5. mm.blocks = m.blocks /\ DOMAIN mm = {"md_total", "md_buffer", "blocks"}
    BY <2>3, <2>4
  <2> HIDE DEF mm
  <2>6. process_block(mm, last).blocks = mm.blocks \o last
    BY <2>5 DEF process_block
  <2> QED
    BY <2>2, <2>5, <2>6 DEF mm
<1>6. /\ Pad(bytes) \in Nat
      /\ Pad(bytes) = 1 + ((MD5_BLOCK_SIZE - ((n + 1 + 2 * WordSize) % MD5_BLOCK_SIZE))
                             % MD5_BLOCK_SIZE)
      /\ (k + (bytes + Pad(bytes) + 2 * WordSize)) % MD5_BLOCK_SIZE = 0
  <2>1. bytes \in 0..MD5_BLOCK_SIZE
    BY <1>1, <1>2, Sizes
  <2> HIDE DEF k, bytes
  <2> QED
    BY <1>1, <1>2, <2>1, PadIsExact
<1>7. PaddedInput(n) = ((Input(0, n) \o pad) \o low) \o high
  BY <1>6 DEF PaddedInput
<1>8. /\ pad \in Seq(Bytes) /\ Len(pad) = Pad(bytes)
      /\ low \in Seq(Bytes) /\ Len(low) = WordSize
      /\ high \in Seq(Bytes) /\ Len(high) = WordSize
  <2> DEFINE e == 8 * n
             q == e \div b
  <2>1. b \in Nat \ {0} /\ e \in Nat
    BY Sizes
  <2>2. e % b \in Nat /\ q \in Nat
    <3> HIDE DEF b, e
    <3>1. e % b \in 0..b - 1 /\ e \div b \in Nat
      BY <2>1, DivMod
    <3> QED
      BY <2>1, <3>1
  <2>3. q % b \in Nat
    <3> HIDE DEF q, b
    <3> QED
      BY <2>1, <2>2, DivMod DEF q
  <2> QED
    BY <1>6, <2>2, <2>3, MadeOfBytes
<1>9. WordSize \in Nat /\ Pad(bytes) \in Nat
  BY <1>6, Sizes
<1> HIDE DEF k, bytes, b, pad, low, high
<1> DEFINE x == m.blocks
           y == m.md_buffer
<1>10. x \in Seq(Bytes) /\ y \in Seq(Bytes) /\ x \o y = Input(0, n) /\ k = Len(x) /\ bytes = Len(y)
  BY <1>1 DEF k, bytes
<1> HIDE DEF x, y
<1>11. /\ y \o pad \in Seq(Bytes) /\ Len(y \o pad) = bytes + Len(pad)
       /\ (y \o pad) \o low \in Seq(Bytes)
       /\ Len((y \o pad) \o low) = (bytes + Len(pad)) + Len(low)
       /\ ((y \o pad) \o low) \o high \in Seq(Bytes)
       /\ Len(((y \o pad) \o low) \o high) = ((bytes + Len(pad)) + Len(low)) + Len(high)
  <2>1. y \o pad \in Seq(Bytes) /\ Len(y \o pad) = bytes + Len(pad)
    BY <1>8, <1>10, ConcatBytes
  <2>2. (y \o pad) \o low \in Seq(Bytes) /\ Len((y \o pad) \o low) = Len(y \o pad) + Len(low)
    BY <1>8, <2>1, ConcatBytes
  <2>3. /\ ((y \o pad) \o low) \o high \in Seq(Bytes)
        /\ Len(((y \o pad) \o low) \o high) = Len((y \o pad) \o low) + Len(high)
    BY <1>8, <2>2, ConcatBytes
  <2> QED
    BY <2>1, <2>2, <2>3, Zenon
<1>12. x \o (((y \o pad) \o low) \o high) = (((x \o y) \o pad) \o low) \o high
  <2> DEFINE u == y \o pad
             v == u \o low
  <2>1. u \in Seq(Bytes) /\ v \in Seq(Bytes)
    BY <1>11, Zenon
  <2>2. (x \o y) \o pad = x \o u
    BY <1>8, <1>10, RegroupBytes, ZenonT(60)
  <2> HIDE DEF u
  <2>3. (x \o u) \o low = x \o v
    BY <1>8, <1>10, <2>1, RegroupBytes, ZenonT(60)
  <2> HIDE DEF v
  <2>4. (x \o v) \o high = x \o (v \o high)
    BY <1>8, <1>10, <2>1, RegroupBytes, ZenonT(60)
  <2> QED
    BY <2>2, <2>3, <2>4, Zenon DEF u, v
<1>13. md5_finish(m).blocks = PaddedInput(n)
  BY <1>5, <1>7, <1>10, <1>12, Zenon DEF x, y
<1>14. Len(md5_finish(m).blocks) % MD5_BLOCK_SIZE = 0
  <2>1. Len(x \o (((y \o pad) \o low) \o high)) = k + (((bytes + Len(pad)) + Len(low)) + Len(high))
    BY <1>10, <1>11, ConcatBytes
  <2>2. ((bytes + Len(pad)) + Len(low)) + Len(high) = bytes + Pad(bytes) + 2 * WordSize
    BY <1>2, <1>8, <1>9
  <2>3. md5_finish(m).blocks = x \o (((y \o pad) \o low) \o high)
    BY <1>5 DEF x, y
  <2> QED
    BY <1>6, <2>1, <2>2, <2>3
<1> QED
  BY <1>13, <1>14

-----------------------------------------------------------------------------
(* A new context has taken in nothing. *)
LEMMA NothingTaken == Taken(md5_init, Input(0, 0))
<1>1. Input(0, 0) = <<>>
  <2>1. Input(0, 0) \in Seq(Bytes) /\ Len(Input(0, 0)) = 0
    BY MadeOfBytes
  <2> QED
    BY <2>1, EmptySeq
<1>2. CountOf(0) = <<0, 0>>
  <2> DEFINE b == MAX_MD5_UINT32 + 1
  <2>1. b \in Nat \ {0}
    BY Sizes
  <2>2. 0 % b = 0 /\ 0 \div b = 0
    <3> HIDE DEF b
    <3>1. (0 * b + 0) % b = 0 /\ (0 * b + 0) \div b = 0
      BY <2>1, DivModUnique
    <3> QED
      BY <2>1, <3>1
  <2> QED
    BY <2>2 DEF CountOf
<1>3. 0 % MD5_BLOCK_SIZE = 0
  <2>1. 0 = 0 * MD5_BLOCK_SIZE
    BY Sizes
  <2> QED
    BY <2>1, Sizes, Multiple
<1>4. md5_init \in Context /\ md5_init.md_total = <<0, 0>> /\ md5_init.md_buffer = <<>>
        /\ md5_init.blocks = <<>>
  BY DEF md5_init, Context
<1>5. <<>> \o <<>> = <<>> /\ Len(<<>>) = 0
  BY ConcatEmptySeq, EmptySeq
<1> QED
  BY <1>1, <1>2, <1>3, <1>4, <1>5, Sizes DEF Taken

(* A piece of the input is taken in. *)
LEMMA InputTaken ==
  ASSUME NEW m, NEW n \in Nat, Taken(m, Input(0, n)), NEW len \in Pieces
  PROVE  len \in Nat /\ Taken(md5_process(m, Input(n, len)), Input(0, n + len))
<1>1. len \in Nat /\ MD5_BLOCK_SIZE + len <= MAX_MD5_UINT32
  BY Md5Assumption
<1>2. Input(n, len) \in Seq(Bytes) /\ Len(Input(n, len)) = len
  BY <1>1, MadeOfBytes
<1>3. Taken(md5_process(m, Input(n, len)), Input(0, n) \o Input(n, len))
  BY <1>1, <1>2, PieceTaken
<1> QED
  BY <1>1, <1>3, InputContinues

(* The inductive invariant holds in every reachable state. *)
THEOREM Md5Invariance == Md5Spec => []Md5Inv
<1>1. Md5Init => Md5Inv
  <2>1. 0 \in Nat
    OBVIOUS
  <2> QED
    BY <2>1, NothingTaken, Zenon DEF Md5Init, Md5Inv
<1>2. ASSUME Md5Inv, [Md5Next]_md5Vars PROVE Md5Inv'
  <2>1. ASSUME NEW len \in Pieces, Md5Process(len) PROVE Md5Inv'
    BY <1>2, <2>1, InputTaken DEF Md5Inv, Md5Process
  <2>2. ASSUME NEW len \in Pieces, Md5Buffer(len) PROVE Md5Inv'
    <3>1. len \in Nat /\ Taken(md5_process(md5_init, Input(0, len)), Input(0, 0 + len))
      BY NothingTaken, InputTaken
    <3>2. 0 + len = len
      BY <3>1
    <3>3. /\ md5_finish(md5_process(md5_init, Input(0, len))).blocks = PaddedInput(len)
          /\ Len(md5_finish(md5_process(md5_init, Input(0, len))).blocks) % MD5_BLOCK_SIZE = 0
      BY <3>1, <3>2, FinishPads
    <3> QED
      BY <1>2, <2>2, <3>1, <3>3 DEF Md5Inv, Md5Buffer
  <2>3. CASE Md5Finish
    BY <1>2, <2>3, FinishPads DEF Md5Inv, Md5Finish
  <2>4. CASE Md5Again
    BY <2>4, NothingTaken DEF Md5Inv, Md5Again
  <2>5. CASE UNCHANGED md5Vars
    BY <1>2, <2>5 DEF Md5Inv, md5Vars
  <2> QED
    BY <1>2, <2>1, <2>2, <2>3, <2>4, <2>5 DEF Md5Next
<1>3. Md5Inv /\ [Md5Next]_md5Vars => Md5Inv'
  BY <1>2
<1> QED
  BY <1>1, <1>3, PTL DEF Md5Spec

(***************************************************************************)
(* However md5_process is given an input, what md5_finish and md5_buffer   *)
(* have given to process_block is the input, padded as RFC 1321 has it,    *)
(* with its length in bits; before that, no byte of it is lost, doubled or *)
(* out of order, and the buffer holds a block at most.                     *)
(***************************************************************************)
THEOREM DigestCorrect == Md5Spec => []DigestsInput
<1>1. Md5Inv => DigestsInput
  BY DEF Md5Inv, DigestsInput, Taken
<1> QED
  BY <1>1, Md5Invariance, PTL
=============================================================================
