---------------------------- MODULE HmsMsgProofs ----------------------------
(***************************************************************************)
(* Theorems about HmsMsg, for any names, bounds and sequence of calls: the *)
(* list of named headers is a map, and the body agrees with its header.    *)
(***************************************************************************)
EXTENDS HmsMsg, SeqLemmas

NamedHeaders == [key : Keys, val : Values]

(* No name occurs twice, in whatever case. *)
NamesDiffer(nhdrs) ==
  \A i, j \in 1..Len(nhdrs) : i # j => nhdrs[i].key.name # nhdrs[j].key.name

(* A list of named headers as __hms_add_named_header and                   *)
(* hms_msg_del_named_header build it.                                      *)
NamedList(nhdrs) == nhdrs \in Seq(NamedHeaders) /\ NamesDiffer(nhdrs)

(* The value of a name in such a list. *)
ValueIn(nhdrs, key) ==
  LET i == FindNamed(nhdrs, key) IN IF i = 0 THEN NULL ELSE nhdrs[i].val

(* The inductive invariant: the counters count the lists, names are        *)
(* unique, and a body is never empty.                                      *)
MsgInv ==
  /\ TypeOK
  /\ num_headers = Len(headers)
  /\ num_named_headers = Len(named_headers)
  /\ NamesDiffer(named_headers)
  /\ content <=> content_len # 0
  /\ status # "destroy"

-----------------------------------------------------------------------------
(* Operators on the list *)

(* The lookup finds the first header with the name, if there is one. *)
LEMMA FindNamedFirst ==
  ASSUME NEW nhdrs \in Seq(NamedHeaders), NEW key \in Keys
  PROVE  /\ FindNamed(nhdrs, key) \in 0..Len(nhdrs)
         /\ FindNamed(nhdrs, key) # 0 => nhdrs[FindNamed(nhdrs, key)].key.name = key.name
         /\ FindNamed(nhdrs, key) = 0 => \A i \in 1..Len(nhdrs) : nhdrs[i].key.name # key.name
<1> DEFINE I == {i \in 1..Len(nhdrs) : nhdrs[i].key.name = key.name}
<1>1. FindNamed(nhdrs, key) = IF I # {} THEN Min(I) ELSE 0
  BY DEF FindNamed, SelectInSeq, strcasecmp_equal
<1>2. I \in SUBSET Nat /\ 0 \notin I
  OBVIOUS
<1>3. I # {} => Min(I) \in I
  BY <1>2, LeastElement
<1> QED
  BY <1>1, <1>2, <1>3

(* The empty list has no value for any name. *)
LEMMA EmptyHasNone ==
  ASSUME NEW key \in Keys
  PROVE  ValueIn(<<>>, key) = NULL
<1> DEFINE e == <<>>
<1>1. e \in Seq(NamedHeaders) /\ Len(e) = 0
  OBVIOUS
<1> HIDE DEF e
<1>2. FindNamed(e, key) \in 0..Len(e)
  BY <1>1, FindNamedFirst
<1>3. FindNamed(e, key) = 0
  BY <1>1, <1>2
<1> QED
  BY <1>3 DEF ValueIn, e

(* Where a name occurs once, the lookup finds that place. *)
LEMMA FindNamedUnique ==
  ASSUME NEW nhdrs, NamedList(nhdrs), NEW key \in Keys, NEW i \in 1..Len(nhdrs),
         nhdrs[i].key.name = key.name
  PROVE  FindNamed(nhdrs, key) = i
<1>1. nhdrs \in Seq(NamedHeaders)
  BY DEF NamedList
<1>2. FindNamed(nhdrs, key) \in 1..Len(nhdrs)
      /\ nhdrs[FindNamed(nhdrs, key)].key.name = key.name
  BY <1>1, FindNamedFirst
<1> QED
  BY <1>2 DEF NamedList, NamesDiffer

(* hms_msg_del_named_header removes the name and leaves the other values. *)
LEMMA DelNamedRemoves ==
  ASSUME NEW nhdrs, NamedList(nhdrs), NEW key \in Keys
  PROVE  /\ NamedList(DelNamed(nhdrs, key))
         /\ Len(DelNamed(nhdrs, key)) <= Len(nhdrs)
         /\ \A i \in 1..Len(DelNamed(nhdrs, key)) : DelNamed(nhdrs, key)[i].key.name # key.name
         /\ \A k \in Keys :
              ValueIn(DelNamed(nhdrs, key), k) =
                IF k.name = key.name THEN NULL ELSE ValueIn(nhdrs, k)
<1> DEFINE p == FindNamed(nhdrs, key)
           new == DelNamed(nhdrs, key)
<1>0. nhdrs \in Seq(NamedHeaders) /\ Len(nhdrs) \in Nat
  BY DEF NamedList
<1>1. /\ p \in 0..Len(nhdrs)
      /\ p # 0 => nhdrs[p].key.name = key.name
      /\ p = 0 => \A i \in 1..Len(nhdrs) : nhdrs[i].key.name # key.name
  BY <1>0, FindNamedFirst
<1>2. /\ new = IF p = 0 THEN nhdrs ELSE RemoveAt(nhdrs, p)
  BY DEF DelNamed
<1> HIDE DEF p, new
<1>3. CASE p = 0
  <2>1. new = nhdrs
    BY <1>2, <1>3
  <2>2. \A k \in Keys : k.name = key.name => ValueIn(nhdrs, k) = NULL
    <3> SUFFICES ASSUME NEW k \in Keys, k.name = key.name PROVE FindNamed(nhdrs, k) = 0
      BY DEF ValueIn
    <3> QED
      BY <1>0, <1>1, <1>3, FindNamedFirst
  <2> QED
    BY <1>0, <1>1, <1>3, <2>1, <2>2 DEF new
<1>4. CASE p # 0
  <2>1. /\ new \in Seq(NamedHeaders)
        /\ Len(new) = Len(nhdrs) - 1
        /\ \A j \in 1..Len(new) : new[j] = IF j < p THEN nhdrs[j] ELSE nhdrs[j + 1]
    <3>1. p \in 1..Len(nhdrs) /\ new = RemoveAt(nhdrs, p)
      BY <1>0, <1>1, <1>2, <1>4
    <3>2. /\ RemoveAt(nhdrs, p) \in Seq(NamedHeaders)
          /\ Len(RemoveAt(nhdrs, p)) = Len(nhdrs) - 1
          /\ \A j \in 1..Len(nhdrs) - 1 :
               RemoveAt(nhdrs, p)[j] = IF j < p THEN nhdrs[j] ELSE nhdrs[j + 1]
      BY <1>0, <3>1, RemoveAtKeepsOthers
    <3> QED
      BY <3>1, <3>2
  <2>2. NamesDiffer(new)
    <3> SUFFICES ASSUME NEW i \in 1..Len(new), NEW j \in 1..Len(new), i # j
                 PROVE  new[i].key.name # new[j].key.name
      BY DEF NamesDiffer
    <3> DEFINE f(n) == IF n < p THEN n ELSE n + 1
    <3>1. f(i) \in 1..Len(nhdrs) /\ f(j) \in 1..Len(nhdrs) /\ f(i) # f(j)
      BY <1>0, <1>1, <2>1
    <3>2. new[i] = nhdrs[f(i)] /\ new[j] = nhdrs[f(j)]
      BY <2>1
    <3> QED
      BY <3>1, <3>2 DEF NamedList, NamesDiffer
  <2>3. \A j \in 1..Len(new) : new[j].key.name # key.name
    <3> SUFFICES ASSUME NEW j \in 1..Len(new) PROVE new[j].key.name # key.name
      OBVIOUS
    <3> DEFINE f == IF j < p THEN j ELSE j + 1
    <3>1. f \in 1..Len(nhdrs) /\ f # p /\ p \in 1..Len(nhdrs)
      BY <1>0, <1>1, <1>4, <2>1
    <3>2. new[j] = nhdrs[f]
      BY <2>1
    <3> QED
      BY <1>1, <1>4, <3>1, <3>2 DEF NamedList, NamesDiffer
  <2>4. NamedList(new)
    BY <2>1, <2>2 DEF NamedList
  <2>5. ASSUME NEW k \in Keys
        PROVE  ValueIn(new, k) = IF k.name = key.name THEN NULL ELSE ValueIn(nhdrs, k)
    <3>1. CASE k.name = key.name
      <4>1. FindNamed(new, k) = 0
        BY <2>1, <2>3, <3>1, FindNamedFirst
      <4> QED
        BY <3>1, <4>1 DEF ValueIn
    <3>2. CASE k.name # key.name /\ FindNamed(nhdrs, k) = 0
      <4>1. \A j \in 1..Len(new) : new[j].key.name # k.name
        <5> SUFFICES ASSUME NEW j \in 1..Len(new) PROVE new[j].key.name # k.name
          OBVIOUS
        <5> DEFINE f == IF j < p THEN j ELSE j + 1
        <5>1. f \in 1..Len(nhdrs) /\ new[j] = nhdrs[f]
          BY <1>0, <1>1, <1>4, <2>1
        <5> QED
          BY <1>0, <3>2, <5>1, FindNamedFirst
      <4>2. FindNamed(new, k) = 0
        BY <2>1, <4>1, FindNamedFirst
      <4> QED
        BY <3>2, <4>2 DEF ValueIn
    <3>3. CASE k.name # key.name /\ FindNamed(nhdrs, k) # 0
      <4> DEFINE q == FindNamed(nhdrs, k)
                 f == IF q < p THEN q ELSE q - 1
      <4>1. q \in 1..Len(nhdrs) /\ nhdrs[q].key.name = k.name /\ q # p
        BY <1>0, <1>1, <1>4, <3>3, FindNamedFirst
      <4> HIDE DEF q
      <4>2. f \in 1..Len(new) /\ new[f] = nhdrs[q]
        BY <1>0, <1>1, <1>4, <2>1, <4>1
      <4>3. FindNamed(new, k) = f
        BY <2>4, <4>1, <4>2, FindNamedUnique
      <4> QED
        BY <3>3, <4>1, <4>2, <4>3 DEF ValueIn, q
    <3> QED
      BY <3>1, <3>2, <3>3
  <2> QED
    BY <1>0, <2>1, <2>3, <2>4, <2>5 DEF new
<1> QED
  BY <1>3, <1>4

(* hms_msg_add_named_header gives the name its value, and no other name one. *)
LEMMA AddNamedPuts ==
  ASSUME NEW nhdrs, NamedList(nhdrs), NEW key \in Keys, NEW val \in Values
  PROVE  /\ NamedList(AddNamed(nhdrs, key, val))
         /\ \A k \in Keys :
              ValueIn(AddNamed(nhdrs, key, val), k) =
                IF k.name = key.name THEN val ELSE ValueIn(nhdrs, k)
<1> DEFINE old == DelNamed(nhdrs, key)
           hdr == NamedHeader(key, val)
           new == AddNamed(nhdrs, key, val)
<1>1. /\ NamedList(old)
      /\ \A i \in 1..Len(old) : old[i].key.name # key.name
      /\ \A k \in Keys : ValueIn(old, k) = IF k.name = key.name THEN NULL ELSE ValueIn(nhdrs, k)
  BY DelNamedRemoves
<1>2. hdr \in NamedHeaders /\ hdr.key = key /\ hdr.val = val
  BY DEF NamedHeader, NamedHeaders
<1>3. new = Append(old, hdr)
  BY DEF AddNamed
<1>4. old \in Seq(NamedHeaders) /\ NamesDiffer(old)
  BY <1>1 DEF NamedList
<1> HIDE DEF old, hdr, new
<1>5. /\ new \in Seq(NamedHeaders) /\ Len(new) = Len(old) + 1
      /\ \A i \in 1..Len(old) : new[i] = old[i]
      /\ new[Len(new)] = hdr
      /\ Len(old) \in Nat
  BY <1>2, <1>3, <1>4
<1>6. NamesDiffer(new)
  <2> SUFFICES ASSUME NEW i \in 1..Len(new), NEW j \in 1..Len(new), i < j
               PROVE  new[i].key.name # new[j].key.name
    BY <1>5 DEF NamesDiffer
  <2>1. i \in 1..Len(old) /\ new[i] = old[i]
    BY <1>5
  <2>2. CASE j = Len(new)
    BY <1>1, <1>2, <1>5, <2>1, <2>2
  <2>3. CASE j \in 1..Len(old)
    BY <1>4, <1>5, <2>1, <2>3 DEF NamesDiffer
  <2> QED
    BY <1>5, <2>2, <2>3
<1>7. NamedList(new)
  BY <1>5, <1>6 DEF NamedList
<1>8. ASSUME NEW k \in Keys
      PROVE  ValueIn(new, k) = IF k.name = key.name THEN val ELSE ValueIn(nhdrs, k)
  <2>1. CASE k.name = key.name
    <3>1. FindNamed(new, k) = Len(new) /\ Len(new) # 0
      BY <1>2, <1>5, <1>7, <2>1, FindNamedUnique
    <3> QED
      BY <1>2, <1>5, <2>1, <3>1 DEF ValueIn
  <2>2. CASE k.name # key.name /\ FindNamed(old, k) = 0
    <3>1. \A i \in 1..Len(old) : old[i].key.name # k.name
      BY <1>4, <2>2, FindNamedFirst
    <3>2. \A i \in 1..Len(new) : new[i].key.name # k.name
      BY <1>2, <1>5, <2>2, <3>1
    <3>3. FindNamed(new, k) = 0
      BY <1>5, <3>2, FindNamedFirst
    <3> QED
      BY <1>1, <2>2, <3>3 DEF ValueIn
  <2>3. CASE k.name # key.name /\ FindNamed(old, k) # 0
    <3>1. FindNamed(old, k) \in 1..Len(old) /\ old[FindNamed(old, k)].key.name = k.name
      BY <1>4, <2>3, FindNamedFirst
    <3>2. FindNamed(new, k) = FindNamed(old, k)
      BY <1>5, <1>7, <3>1, FindNamedUnique
    <3> QED
      BY <1>1, <1>5, <2>3, <3>1, <3>2 DEF ValueIn
  <2> QED
    BY <2>1, <2>2, <2>3
<1> QED
  BY <1>7, <1>8 DEF new

(* The restricted names, each in some case. *)
LEMMA RestrictedKeys ==
  /\ ContentLength \in Keys /\ ContentLength.name = CONTENT_LENGTH
  /\ ContentChecksum \in Keys /\ ContentChecksum.name = CONTENT_CHECKSUM
  /\ \A n \in Names : [name |-> n, case |-> CHOOSE c \in Cases : TRUE] \in Keys
<1>1. (CHOOSE c \in Cases : TRUE) \in Cases
  BY CasesAssumption DEF CasesAssumption
<1> QED
  BY <1>1, RestrictedAssumption DEF RestrictedAssumption, Keys, ContentLength, ContentChecksum

(* hms_msg_del_body deletes both headers of the body. *)
LEMMA DelRestrictedRemoves ==
  ASSUME NEW nhdrs, NamedList(nhdrs)
  PROVE  /\ NamedList(DelRestricted(nhdrs))
         /\ \A k \in Keys :
              ValueIn(DelRestricted(nhdrs), k) =
                IF k.name \in {CONTENT_LENGTH, CONTENT_CHECKSUM} THEN NULL ELSE ValueIn(nhdrs, k)
<1> DEFINE mid == DelNamed(nhdrs, ContentLength)
<1>1. /\ NamedList(mid)
      /\ \A k \in Keys : ValueIn(mid, k) = IF k.name = CONTENT_LENGTH THEN NULL ELSE ValueIn(nhdrs, k)
  BY RestrictedKeys, DelNamedRemoves, ZenonT(60)
<1> HIDE DEF mid
<1>2. /\ NamedList(DelNamed(mid, ContentChecksum))
      /\ \A k \in Keys :
           ValueIn(DelNamed(mid, ContentChecksum), k) =
             IF k.name = CONTENT_CHECKSUM THEN NULL ELSE ValueIn(mid, k)
  BY <1>1, RestrictedKeys, DelNamedRemoves, ZenonT(60)
<1>3. DelRestricted(nhdrs) = DelNamed(mid, ContentChecksum)
  BY DEF DelRestricted, mid
<1> QED
  BY <1>1, <1>2, <1>3

(* The list that hms_msg_set_body leaves. *)
LEMMA SetBodyHeaders ==
  ASSUME NEW nhdrs, NamedList(nhdrs), NEW len \in Values, NEW clears \in BOOLEAN
  PROVE  LET cleared == IF clears THEN DelRestricted(nhdrs) ELSE nhdrs
             new == AddNamed(cleared, ContentLength, len)
         IN  /\ NamedList(new)
             /\ \A k \in Keys :
                  ValueIn(new, k) =
                    IF k.name = CONTENT_LENGTH THEN len
                    ELSE IF clears /\ k.name = CONTENT_CHECKSUM THEN NULL
                    ELSE ValueIn(nhdrs, k)
<1> DEFINE cleared == IF clears THEN DelRestricted(nhdrs) ELSE nhdrs
<1>1. /\ NamedList(cleared)
      /\ \A k \in Keys :
           ValueIn(cleared, k) =
             IF clears /\ k.name \in {CONTENT_LENGTH, CONTENT_CHECKSUM} THEN NULL
             ELSE ValueIn(nhdrs, k)
  BY DelRestrictedRemoves
<1> HIDE DEF cleared
<1>2. /\ NamedList(AddNamed(cleared, ContentLength, len))
      /\ \A k \in Keys :
           ValueIn(AddNamed(cleared, ContentLength, len), k) =
             IF k.name = CONTENT_LENGTH THEN len ELSE ValueIn(cleared, k)
  BY <1>1, RestrictedKeys, AddNamedPuts
<1> QED
  BY <1>1, <1>2 DEF cleared

-----------------------------------------------------------------------------
(* The invariant *)

(* What the invariant says of the list of named headers. *)
LEMMA InvNamedList ==
  ASSUME MsgInv
  PROVE  NamedList(named_headers) /\ \A k \in Keys : get_named_header(k) = ValueIn(named_headers, k)
BY DEF MsgInv, TypeOK, NamedList, NamedHeaders, get_named_header, ValueIn

(* The outcomes of hms_msg_set_body for the lengths it may be given. *)
LEMMA SetBodyOutcome ==
  ASSUME NEW len, SetBody(len)
  PROVE  LET cleared == IF content THEN DelRestricted(named_headers) ELSE named_headers
         IN  \/ /\ len = 0 /\ status' = "set_body"
                /\ UNCHANGED <<namedVars, bodyVars>>
             \/ /\ len < 0 /\ SetNamed(cleared)
                /\ ~content' /\ content' \in BOOLEAN /\ content_len' = 0
                /\ status' = IF content => LengthMatches THEN "set_body" ELSE "del_body"
             \/ /\ len > 0 /\ SetNamed(AddNamed(cleared, ContentLength, len))
                /\ content' /\ content' \in BOOLEAN /\ content_len' = len
                /\ Check("del_body", content => LengthMatches)
BY Zenon DEF SetBody

(* Deletions and additions keep the list and its counter together. *)
LEMMA SetNamedCounts ==
  ASSUME MsgInv, NEW nhdrs, NamedList(nhdrs), SetNamed(nhdrs)
  PROVE  /\ named_headers' = nhdrs
         /\ named_headers' \in Seq([key : Keys, val : Values])
         /\ num_named_headers' = Len(named_headers')
         /\ num_named_headers' \in Nat
         /\ NamesDiffer(named_headers)'
<1>1. nhdrs \in Seq(NamedHeaders) /\ named_headers \in Seq(NamedHeaders)
  BY DEF MsgInv, TypeOK, NamedList, NamedHeaders
<1>2. Len(nhdrs) \in Nat /\ Len(named_headers) \in Nat /\ num_named_headers = Len(named_headers)
  BY <1>1 DEF MsgInv
<1> QED
  BY <1>1, <1>2 DEF SetNamed, CountChange, NamedList, NamesDiffer, NamedHeaders

(* The list after each of the actions that change it. *)
LEMMA NamedListAfter ==
  ASSUME MsgInv
  PROVE  /\ \A key \in Keys : DelNamedHeader(key) =>
              NamedList(DelNamed(named_headers, key)) /\ SetNamed(DelNamed(named_headers, key))
         /\ \A key \in Keys, val \in Values : AddNamedHeader(key, val) =>
              /\ NamedList(AddNamed(named_headers, key, val))
              /\ SetNamed(AddNamed(named_headers, key, val))
         /\ DelBody => NamedList(DelRestricted(named_headers)) /\ SetNamed(DelRestricted(named_headers))
<1>1. NamedList(named_headers)
  BY InvNamedList
<1> QED
  BY <1>1, DelNamedRemoves, AddNamedPuts, DelRestrictedRemoves
     DEF DelNamedHeader, AddNamedHeader, DelBody

(* hms_msg_create establishes the invariant. *)
LEMMA MsgInitInv == Init => MsgInv
<1> SUFFICES ASSUME Init PROVE MsgInv
  OBVIOUS
<1>1. Len(<<>>) = 0 /\ <<>> \in Seq(Values) /\ <<>> \in Seq([key : Keys, val : Values])
  OBVIOUS
<1>2. content \in BOOLEAN /\ (content <=> content_len # 0) /\ content_len \in 0..MaxBody
  <2>1. ~content /\ content \in BOOLEAN
    BY Zenon DEF Init
  <2>2. content_len = 0 /\ content_len \in 0..MaxBody
    BY BoundAssumption DEF BoundAssumption, Init
  <2> QED
    BY <2>1, <2>2
<1>3. TypeOK
  BY <1>1, <1>2, BoundAssumption DEF BoundAssumption, Init, TypeOK
<1>4. NamesDiffer(named_headers)
  BY <1>1 DEF Init, NamesDiffer
<1> QED
  BY <1>1, <1>2, <1>3, <1>4 DEF Init, MsgInv

(* Each call preserves it. *)
LEMMA MsgNextInv ==
  ASSUME MsgInv, [Next]_vars
  PROVE  MsgInv'
<1> USE BoundAssumption DEF BoundAssumption, MsgInv, headerVars, namedVars, bodyVars, Check
<1>1. ASSUME NEW v \in Verbs, SetVerb(v) PROVE MsgInv'
  BY <1>1 DEF SetVerb, TypeOK, NamesDiffer
<1>2. ASSUME NEW v \in Values, AddHeader(v) PROVE MsgInv'
  <2>1. headers' \in Seq(Values) /\ Len(headers') = Len(headers) + 1
    BY <1>2 DEF AddHeader, TypeOK
  <2> QED
    BY <1>2, <2>1 DEF AddHeader, TypeOK, NamesDiffer
<1>3. ASSUME NEW index \in 0..MaxHeaders, DelHeader(index) PROVE MsgInv'
  <2>1. index + 1 \in 1..Len(headers) /\ headers \in Seq(Values)
    BY <1>3 DEF DelHeader, InBounds, TypeOK
  <2>2. headers' \in Seq(Values) /\ Len(headers') = Len(headers) - 1
    BY <1>3, <2>1, RemoveAtKeepsOthers DEF DelHeader
  <2> QED
    BY <1>3, <2>1, <2>2 DEF DelHeader, TypeOK, NamesDiffer
<1>4. CASE PrintHeader \/ GetBodySize \/ GetBody
  BY <1>4 DEF PrintHeader, GetBodySize, GetBody, TypeOK, NamesDiffer
<1>5. ASSUME NEW key \in UserKeys,
             DelNamedHeader(key) \/ \E val \in Values : AddNamedHeader(key, val)
      PROVE  MsgInv'
  <2>1. key \in Keys
    BY DEF UserKeys
  <2>2. PICK nhdrs : NamedList(nhdrs) /\ SetNamed(nhdrs)
    BY <1>5, <2>1, NamedListAfter
  <2>3. /\ named_headers' \in Seq([key : Keys, val : Values])
        /\ num_named_headers' = Len(named_headers') /\ num_named_headers' \in Nat
        /\ NamesDiffer(named_headers)'
    BY <2>2, SetNamedCounts
  <2> QED
    BY <1>5, <2>3 DEF DelNamedHeader, AddNamedHeader, TypeOK
<1>6. CASE DelBody
  <2>1. /\ named_headers' \in Seq([key : Keys, val : Values])
        /\ num_named_headers' = Len(named_headers') /\ num_named_headers' \in Nat
        /\ NamesDiffer(named_headers)'
    BY <1>6, NamedListAfter, SetNamedCounts
  <2>2. content' \in BOOLEAN /\ (content' <=> content_len' # 0) /\ content_len' \in 0..MaxBody
    <3>1. ~content' /\ content' \in BOOLEAN
      BY <1>6, Zenon DEF DelBody
    <3>2. content_len' = 0 /\ content_len' \in 0..MaxBody
      BY <1>6, BoundAssumption DEF BoundAssumption, DelBody
    <3> QED
      BY <3>1, <3>2
  <2> QED
    BY <1>6, <2>1, <2>2 DEF DelBody, TypeOK
<1>7. ASSUME NEW len \in -1..MaxBody, SetBody(len) PROVE MsgInv'
  <2>1. /\ len < 0 \/ len = 0 \/ (len > 0 /\ len \in Values)
        /\ content \in BOOLEAN /\ NamedList(named_headers)
    BY InvNamedList, BoundAssumption DEF BoundAssumption, Values, TypeOK
  <2>2. CASE len = 0
    BY <1>7, <2>2 DEF SetBody, TypeOK, NamesDiffer
  <2>3. CASE len # 0
    <3>1. PICK nhdrs : NamedList(nhdrs) /\ SetNamed(nhdrs)
      <4>1. CASE len < 0
        BY <1>7, <2>1, <4>1, DelRestrictedRemoves DEF SetBody
      <4>2. CASE len > 0
        BY <1>7, <2>1, <4>2, SetBodyHeaders DEF SetBody
      <4> QED
        BY <2>1, <2>3, <4>1, <4>2
    <3>2. /\ named_headers' \in Seq([key : Keys, val : Values])
          /\ num_named_headers' = Len(named_headers') /\ num_named_headers' \in Nat
          /\ NamesDiffer(named_headers)'
      BY <3>1, SetNamedCounts
    <3>3. /\ content' \in BOOLEAN /\ (content' <=> content_len' # 0)
          /\ content_len' \in 0..MaxBody
      <4>1. CASE len < 0
        BY <1>7, <4>1, SetBodyOutcome, BoundAssumption DEF BoundAssumption
      <4>2. CASE len > 0
        BY <1>7, <4>2, SetBodyOutcome
      <4> QED
        BY <2>1, <2>3, <4>1, <4>2
    <3>4. status' \in {"live", "del_body", "set_body"}
      BY <1>7, <2>3 DEF SetBody, Check
    <3> QED
      BY <1>7, <3>2, <3>3, <3>4 DEF SetBody, TypeOK
  <2> QED
    BY <2>2, <2>3
<1>8. CASE Destroy
  <2>1. Len(<<>>) = 0 /\ <<>> \in Seq(Values) /\ <<>> \in Seq([key : Keys, val : Values])
    OBVIOUS
  <2>2. Len(headers) \in Nat /\ Len(named_headers) \in Nat
    BY DEF TypeOK
  <2>3. content' \in BOOLEAN /\ (content' <=> content_len' # 0) /\ content_len' \in 0..MaxBody
    <3>1. ~content' /\ content' \in BOOLEAN
      BY <1>8, Zenon DEF Destroy
    <3>2. content_len' = 0 /\ content_len' \in 0..MaxBody
      BY <1>8, BoundAssumption DEF BoundAssumption, Destroy
    <3> QED
      BY <3>1, <3>2
  <2>4. /\ headers' = <<>> /\ num_headers' = 0
        /\ named_headers' = <<>> /\ num_named_headers' = 0
        /\ status' = "destroyed" /\ verb' = NULL
    BY <1>8, <2>2 DEF Destroy
  <2>5. TypeOK'
    BY <2>1, <2>3, <2>4 DEF TypeOK
  <2>6. NamesDiffer(named_headers)'
    BY <2>1, <2>4 DEF NamesDiffer
  <2> QED
    BY <2>1, <2>3, <2>4, <2>5, <2>6
<1>9. CASE UNCHANGED vars
  BY <1>9 DEF vars, TypeOK, NamesDiffer
<1> QED
  BY <1>1, <1>2, <1>3, <1>4, <1>5, <1>6, <1>7, <1>8, <1>9 DEF Next, Ended

(* The invariant holds in every state of a message. *)
THEOREM MsgInvariance == Spec => []MsgInv
<1>1. MsgInv /\ [Next]_vars => MsgInv'
  BY MsgNextInv
<1> QED
  BY <1>1, MsgInitInv, PTL DEF Spec

(* The variables of a message keep their types. *)
THEOREM MsgTypeCorrect == Spec => []TypeOK
<1>1. MsgInv => TypeOK
  BY DEF MsgInv
<1> QED
  BY <1>1, MsgInvariance, PTL

(***************************************************************************)
(* The counters of headers and named headers agree with their lists,       *)
(* hms_msg_get_header finds a header at exactly the indices of the list,   *)
(* and no name occurs twice.                                               *)
(***************************************************************************)
THEOREM ListsCorrect == Spec => []ListsConsistent
<1>1. ASSUME MsgInv PROVE ListsConsistent
  <2> USE <1>1 DEF MsgInv
  <2>1. ASSUME NEW index \in -1..MaxHeaders
        PROVE  get_header(index) # NULL <=> index \in 0..Len(headers) - 1
    <3>1. headers \in Seq(Values) /\ Len(headers) \in Nat /\ num_headers = Len(headers)
      BY DEF TypeOK
    <3>2. InBounds(index) <=> index \in 0..Len(headers) - 1
      BY <3>1, BoundAssumption DEF BoundAssumption, InBounds
    <3>3. index \in 0..Len(headers) - 1 => headers[index + 1] \in Values
      BY <3>1, BoundAssumption DEF BoundAssumption
    <3> QED
      BY <3>2, <3>3, NullAssumption DEF NullAssumption, get_header, Values
  <2> QED
    BY <2>1 DEF ListsConsistent, NamesDiffer
<1>2. MsgInv => ListsConsistent
  BY <1>1
<1> QED
  BY <1>2, MsgInvariance, PTL

-----------------------------------------------------------------------------
(* The body *)

(* Content-Length tells the length of the body, and no assertion that it   *)
(* does has failed.                                                        *)
BodyInv ==
  /\ MsgInv
  /\ ValueIn(named_headers, ContentLength) = (IF content THEN content_len ELSE NULL)
  /\ status \in {"live", "destroyed", "set_body", "print_header"}

(* Under the invariant the assertions on the length of the body hold. *)
LEMMA LengthTold ==
  ASSUME BodyInv
  PROVE  /\ content => LengthMatches
         /\ get_named_header(ContentLength) # NULL <=> content
         /\ ~content => content_len = 0
<1>1. get_named_header(ContentLength) = IF content THEN content_len ELSE NULL
  BY RestrictedKeys, InvNamedList DEF BodyInv
<1>2. content_len \in 0..MaxBody /\ content_len # NULL
  BY NullAssumption DEF NullAssumption, BodyInv, MsgInv, TypeOK
<1>3. content => LengthMatches
  BY <1>1 DEF LengthMatches
<1>4. get_named_header(ContentLength) # NULL <=> content
  BY <1>1, <1>2, Zenon
<1>5. ~content => content_len = 0
  BY DEF BodyInv, MsgInv
<1> QED
  BY <1>3, <1>4, <1>5

(* A call preserves the agreement of body and header if callers leave      *)
(* Content-Length alone.                                                   *)
LEMMA BodyNextInv ==
  ASSUME CONTENT_LENGTH \notin UserNames, BodyInv, [Next]_vars
  PROVE  BodyInv'
<1> USE DEF BodyInv, headerVars, namedVars, bodyVars
<1>0. MsgInv'
  BY MsgNextInv
<1>1. NamedList(named_headers) /\ ContentLength \in Keys /\ ContentLength.name = CONTENT_LENGTH
  BY InvNamedList, RestrictedKeys
<1>2. CASE UNCHANGED <<namedVars, bodyVars, status>>
  BY <1>0, <1>2
<1>3. CASE PrintHeader \/ GetBodySize \/ GetBody
  <2>1. UNCHANGED <<namedVars, bodyVars>>
    BY <1>3 DEF PrintHeader, GetBodySize, GetBody
  <2>2. status' \in {"live", "print_header"}
    <3>1. CASE PrintHeader
      BY <3>1 DEF PrintHeader, Check
    <3>2. CASE GetBodySize
      BY <3>2, LengthTold DEF GetBodySize, Check
    <3>3. CASE GetBody
      BY <3>3, LengthTold DEF GetBody, Check
    <3> QED
      BY <1>3, <3>1, <3>2, <3>3
  <2> QED
    BY <1>0, <2>1, <2>2
<1>4. ASSUME NEW key \in UserKeys,
             DelNamedHeader(key) \/ \E val \in Values : AddNamedHeader(key, val)
      PROVE  BodyInv'
  <2>1. key \in Keys /\ key.name # CONTENT_LENGTH
    BY DEF UserKeys
  <2>2. ValueIn(named_headers', ContentLength) = ValueIn(named_headers, ContentLength)
    <3>1. CASE DelNamedHeader(key)
      BY <1>1, <2>1, <3>1, DelNamedRemoves DEF DelNamedHeader, SetNamed
    <3>2. ASSUME NEW val \in Values, AddNamedHeader(key, val)
          PROVE  ValueIn(named_headers', ContentLength) = ValueIn(named_headers, ContentLength)
      BY <1>1, <2>1, <3>2, AddNamedPuts DEF AddNamedHeader, SetNamed
    <3> QED
      BY <1>4, <3>1, <3>2
  <2>3. UNCHANGED <<bodyVars, status>>
    BY <1>4 DEF DelNamedHeader, AddNamedHeader
  <2> QED
    BY <1>0, <2>2, <2>3
<1>5. CASE DelBody
  <2>1. ValueIn(named_headers', ContentLength) = NULL
    BY <1>1, <1>5, DelRestrictedRemoves DEF DelBody, SetNamed
  <2>2. ~content' /\ status' = "live"
    BY <1>5, LengthTold DEF DelBody, Check
  <2> QED
    BY <1>0, <2>1, <2>2
<1>6. ASSUME NEW len \in -1..MaxBody, SetBody(len) PROVE BodyInv'
  <2>1. content \in BOOLEAN /\ len \in Int /\ len <= MaxBody /\ MaxBody \in Int
    BY BoundAssumption DEF BoundAssumption, MsgInv, TypeOK
  <2>2. CASE len = 0
    BY <1>0, <1>6, <2>2 DEF SetBody
  <2>3. CASE len < 0
    <3>1. ValueIn(named_headers', ContentLength) = NULL
      <4>1. named_headers' = IF content THEN DelRestricted(named_headers) ELSE named_headers
        BY <1>6, <2>1, <2>3 DEF SetBody, SetNamed
      <4>2. CASE content
        BY <1>1, <4>1, <4>2, DelRestrictedRemoves
      <4>3. CASE ~content
        BY <4>1, <4>3
      <4> QED
        BY <4>2, <4>3
    <3>2. ~content' /\ status' = "set_body"
      BY <1>6, <2>1, <2>3, LengthTold DEF SetBody
    <3> QED
      BY <1>0, <3>1, <3>2
  <2>4. CASE len > 0
    <3>1. len \in Values
      BY <2>1, <2>4 DEF Values
    <3>2. ValueIn(named_headers', ContentLength) = len
      BY <1>1, <1>6, <2>1, <2>4, <3>1, SetBodyHeaders DEF SetBody, SetNamed
    <3>3. content' /\ content_len' = len /\ status' = "live"
      BY <1>6, <2>1, <2>4, LengthTold DEF SetBody, Check
    <3> QED
      BY <1>0, <3>2, <3>3
  <2> QED
    BY <2>1, <2>2, <2>3, <2>4
<1>7. CASE Destroy
  <2>1. status' = "destroyed" /\ ~content' /\ named_headers' = <<>>
    BY <1>7 DEF Destroy, MsgInv
  <2> QED
    BY <1>0, <1>1, <2>1, EmptyHasNone
<1>8. CASE \/ \E v \in Verbs : SetVerb(v)
           \/ \E v \in Values : AddHeader(v)
           \/ \E index \in 0..MaxHeaders : DelHeader(index)
  BY <1>2, <1>8 DEF SetVerb, AddHeader, DelHeader
<1> QED
  BY <1>2, <1>3, <1>4, <1>5, <1>6, <1>7, <1>8 DEF Next, Ended, vars

(***************************************************************************)
(* When callers leave Content-Length alone, it is there if and only if     *)
(* there is a body, which is never empty, and tells its length: the        *)
(* assertions of hms_msg_get_body_size, _get_body and _del_body never      *)
(* fail, also where hms_msg_set_body deletes the old body.  The only ones  *)
(* that can fail are those on the length that hms_msg_set_body is given,   *)
(* and that of hms_msg_print_header without a verb.                        *)
(***************************************************************************)
THEOREM BodyCorrect ==
  ASSUME CONTENT_LENGTH \notin UserNames
  PROVE  Spec => []BodyMatchesHeader
<1>1. ASSUME Init PROVE BodyInv
  <2>1. ValueIn(<<>>, ContentLength) = NULL
    BY RestrictedKeys, EmptyHasNone
  <2> QED
    BY <1>1, <2>1, MsgInitInv DEF Init, BodyInv
<1>2. BodyInv /\ [Next]_vars => BodyInv'
  BY BodyNextInv
<1>3. ASSUME BodyInv PROVE BodyMatchesHeader
  BY <1>3, RestrictedKeys, InvNamedList DEF BodyInv, BodyMatchesHeader, MsgInv
<1>4. (Init => BodyInv) /\ (BodyInv => BodyMatchesHeader)
  BY <1>1, <1>3
<1> QED
  BY <1>2, <1>4, PTL DEF Spec

-----------------------------------------------------------------------------
(* The message as a map *)

(* The map that a list of named headers stands for. *)
FieldsOf(nhdrs) ==
  [n \in Names |-> ValueIn(nhdrs, [name |-> n, case |-> CHOOSE c \in Cases : TRUE])]

(* Values of the same list, under keys in any case. *)
LEMMA FieldsAt ==
  ASSUME NEW nhdrs, NEW n \in Names
  PROVE  /\ FieldsOf(nhdrs)[n] = ValueIn(nhdrs, [name |-> n, case |-> CHOOSE c \in Cases : TRUE])
         /\ [name |-> n, case |-> CHOOSE c \in Cases : TRUE] \in Keys
         /\ [name |-> n, case |-> CHOOSE c \in Cases : TRUE].name = n
BY RestrictedKeys DEF FieldsOf

(* A call changes the map as MsgMap says, or not at all. *)
LEMMA MapStepOfCall ==
  ASSUME MsgInv, [Next]_vars, status' # "destroyed"
  PROVE  [Map!Next]_(Map!vars)
<1> DEFINE key(n) == [name |-> n, case |-> CHOOSE c \in Cases : TRUE]
           before == [n \in Names |-> get_named_header(key(n))]
           after == [n \in Names |-> get_named_header(key(n))']
<1> USE DEF headerVars, namedVars, bodyVars
<1>0. MsgInv'
  BY MsgNextInv
<1>1. /\ NamedList(named_headers)
      /\ before = FieldsOf(named_headers)
      /\ after = FieldsOf(named_headers')
  <2>1. \A n \in Names : key(n) \in Keys
    BY RestrictedKeys
  <2>2. \A n \in Names : get_named_header(key(n)) = ValueIn(named_headers, key(n))
    BY DEF get_named_header, ValueIn
  <2>3. \A n \in Names : get_named_header(key(n))' = ValueIn(named_headers', key(n))
    BY DEF get_named_header, ValueIn
  <2> QED
    BY <2>2, <2>3, InvNamedList DEF FieldsOf
<1>2. \A n \in Names :
        /\ before[n] = ValueIn(named_headers, key(n))
        /\ after[n] = ValueIn(named_headers', key(n))
        /\ key(n) \in Keys /\ key(n).name = n
  BY <1>1, FieldsAt
<1>3. /\ before = [n \in Names |-> before[n]]
      /\ after = [n \in Names |-> after[n]]
  OBVIOUS
<1>4. CASE UNCHANGED <<named_headers, content_len>>
  <2>1. after = before
    BY <1>1, <1>4
  <2> QED
    BY <1>4, <2>1 DEF Map!vars
<1>5. ASSUME NEW k \in UserKeys, DelNamedHeader(k) PROVE Map!Next
  <2>1. k \in Keys /\ k.name \in Names
    BY DEF UserKeys, Keys
  <2>2. \A n \in Names : after[n] = IF n = k.name THEN NULL ELSE before[n]
    <3>1. named_headers' = DelNamed(named_headers, k)
      BY <1>5 DEF DelNamedHeader, SetNamed
    <3>2. \A m \in Keys :
            ValueIn(named_headers', m) =
              IF m.name = k.name THEN NULL ELSE ValueIn(named_headers, m)
      BY <1>1, <2>1, <3>1, DelNamedRemoves
    <3> HIDE DEF before, after, key
    <3> QED
      BY <1>2, <3>2
  <2> HIDE DEF before, after
  <2>3. after = [before EXCEPT ![k.name] = NULL]
    BY <1>3, <2>1, <2>2
  <2>4. Map!Drop(k.name)
    BY <1>5, <2>3 DEF Map!Drop, DelNamedHeader, before, after
  <2> QED
    BY <2>1, <2>4 DEF Map!Next
<1>6. ASSUME NEW k \in UserKeys, NEW val \in Values, AddNamedHeader(k, val) PROVE Map!Next
  <2>1. k \in Keys /\ k.name \in Names
    BY DEF UserKeys, Keys
  <2>2. \A n \in Names : after[n] = IF n = k.name THEN val ELSE before[n]
    BY <1>1, <1>2, <1>6, <2>1, AddNamedPuts DEF AddNamedHeader, SetNamed
  <2> HIDE DEF before, after
  <2>3. after = [before EXCEPT ![k.name] = val]
    BY <1>3, <2>1, <2>2
  <2>4. Map!Put(k.name, val)
    BY <1>6, <2>3 DEF Map!Put, AddNamedHeader, before, after
  <2> QED
    BY <2>1, <2>4 DEF Map!Next
<1>7. CASE DelBody
  <2>1. \A n \in Names :
          after[n] = IF n \in {CONTENT_LENGTH, CONTENT_CHECKSUM} THEN NULL ELSE before[n]
    BY <1>1, <1>2, <1>7, DelRestrictedRemoves DEF DelBody, SetNamed
  <2> HIDE DEF before, after
  <2>2. after = [before EXCEPT ![CONTENT_LENGTH] = NULL, ![CONTENT_CHECKSUM] = NULL]
    BY <1>3, <2>1
  <2>3. content_len # 0 /\ content_len' = 0
    BY <1>7 DEF DelBody, MsgInv
  <2> QED
    BY <2>2, <2>3 DEF Map!DelBody, Map!Next, before, after
<1>11. ASSUME NEW len \in -1..MaxBody, SetBody(len), len <= 0 PROVE Map!Next \/ UNCHANGED Map!vars
  <2>1. CASE len = 0 \/ ~content
    <3>1. UNCHANGED <<named_headers, content_len>>
      BY <1>11, <2>1 DEF SetBody, SetNamed, MsgInv
    <3> QED
      BY <1>4, <3>1
  <2>2. CASE len # 0 /\ content
    <3>1. named_headers' = DelRestricted(named_headers) /\ content_len' = 0
      <4>1. len \in Int /\ ~(len > 0)
        BY <1>11
      <4> QED
        BY <1>11, <2>2, <4>1, SetBodyOutcome, Zenon DEF SetNamed
    <3>2. \A n \in Names :
            after[n] = IF n \in {CONTENT_LENGTH, CONTENT_CHECKSUM} THEN NULL ELSE before[n]
      BY <1>1, <1>2, <3>1, DelRestrictedRemoves
    <3>3. content_len # 0
      BY <2>2 DEF MsgInv
    <3> HIDE DEF before, after
    <3>4. after = [before EXCEPT ![CONTENT_LENGTH] = NULL, ![CONTENT_CHECKSUM] = NULL]
      BY <1>3, <3>2
    <3> QED
      BY <3>1, <3>3, <3>4 DEF Map!DelBody, Map!Next, before, after
  <2> QED
    BY <2>1, <2>2
<1>8. ASSUME NEW len \in 1..MaxBody, SetBody(len) PROVE Map!Next
  <2>1. len \in Values \ {0} /\ content \in BOOLEAN /\ (content <=> content_len # 0)
    BY DEF Values, MsgInv, TypeOK
  <2>2. \A n \in Names :
          after[n] = IF n = CONTENT_LENGTH THEN len
                     ELSE IF content /\ n = CONTENT_CHECKSUM THEN NULL ELSE before[n]
    BY <1>1, <1>2, <1>8, <2>1, SetBodyHeaders DEF SetBody, SetNamed
  <2> HIDE DEF before, after
  <2>3. after = [before EXCEPT ![CONTENT_LENGTH] = len,
                               ![CONTENT_CHECKSUM] =
                                  IF content_len = 0 THEN before[CONTENT_CHECKSUM] ELSE NULL]
    BY <1>3, <2>1, <2>2, RestrictedAssumption DEF RestrictedAssumption
  <2>4. content_len' = len
    BY <1>8 DEF SetBody
  <2>5. Map!SetBody(len)
    BY <2>3, <2>4 DEF Map!SetBody, before, after
  <2> QED
    BY <2>1, <2>5 DEF Map!Next
<1>9. CASE \/ \E v \in Verbs : SetVerb(v)
           \/ \E v \in Values : AddHeader(v)
           \/ \E index \in 0..MaxHeaders : DelHeader(index)
           \/ PrintHeader \/ GetBodySize \/ GetBody \/ UNCHANGED vars
  BY <1>4, <1>9 DEF SetVerb, AddHeader, DelHeader, PrintHeader, GetBodySize, GetBody, vars
<1>10. ~Destroy
  BY DEF Destroy, MsgInv
<1> QED
  <2>1. ASSUME NEW len \in -1..MaxBody PROVE len <= 0 \/ len \in 1..MaxBody
    BY BoundAssumption DEF BoundAssumption
  <2> QED
    BY <1>5, <1>6, <1>7, <1>8, <1>9, <1>10, <1>11, <2>1 DEF Next, Ended

(***************************************************************************)
(* The list of named headers is a map from names, without regard to case,  *)
(* to the values last written, and a body comes and goes together with the *)
(* entries that describe it; callers may even write Content-Length.        *)
(***************************************************************************)
THEOREM MapImplemented == Spec => ImplementsMap
<1>1. ASSUME Init PROVE Map!Init
  <2>1. \A n \in Names :
          get_named_header([name |-> n, case |-> CHOOSE c \in Cases : TRUE]) = NULL
    BY <1>1, RestrictedKeys, EmptyHasNone DEF Init, get_named_header, ValueIn
  <2> QED
    BY <1>1, <2>1 DEF Init, Map!Init
<1>2. MsgInv /\ [Next]_vars => [MapStep]_vars
  BY MapStepOfCall DEF MapStep
<1>3. Init => Map!Init
  BY <1>1
<1> QED
  BY <1>2, <1>3, MsgInvariance, PTL DEF Spec, ImplementsMap
=============================================================================
