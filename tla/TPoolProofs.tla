---------------------------- MODULE TPoolProofs ----------------------------
(***************************************************************************)
(* Theorems about TPool, for any number of workers, calls and destroyers,  *)
(* any max_queue_size and both values of do_not_block_when_full: its       *)
(* invariants, and that it implements WorkQueue.                           *)
(***************************************************************************)
EXTENDS TPool, TLAPS

(* Only a pool that makes its callers wait has waiting callers. *)
WaitersBlock ==
  \A c \in Calls : call_pc[c] \in {"wait", "woken"} => ~do_not_block_when_full

(* A destroyer with finish set finds no node to free, and all executed     *)
(* nodes freed by the workers.                                             *)
NothingToFree ==
  \A d \in Destroyers : finish[d] /\ destroy_pc[d] \in ShuttingDown =>
    /\ queue = <<>>
    /\ queue_head = NULL
    /\ \A c \in done : heap[c] = "freed"

(* The inductive invariant. *)
Inv ==
  /\ TypeOK
  /\ ListIntact
  /\ NodeOwnership
  /\ NoLostWakeup
  /\ OneDestroyer
  /\ WaitersBlock
  /\ NothingToFree

-----------------------------------------------------------------------------
(* A sequence is empty if and only if its length is zero. *)
LEMMA EmptySeq ==
  ASSUME NEW S, NEW s \in Seq(S)
  PROVE  (Len(s) = 0) <=> (s = <<>>)
OBVIOUS

(* The initial state satisfies the invariant. *)
LEMMA InitInv == Init => Inv
<1> SUFFICES ASSUME Init PROVE Inv
  OBVIOUS
<1> USE DEF Init
<1>1. TypeOK
  <2>1. cur_queue_size \in 0..max_queue_size
    BY SizeAssumption DEF SizeAssumption
  <2>2. queue \in Seq(Calls)
    OBVIOUS
  <2> QED
    BY <2>1, <2>2, Zenon DEF TypeOK, CallStates, WorkerStates, DestroyStates, Pointers
<1>2. ListIntact
  BY DEF ListIntact
<1>3. NodeOwnership
  BY DEF NodeOwnership, InQueue, Holds
<1>4. NoLostWakeup
  BY DEF NoLostWakeup
<1>5. OneDestroyer
  BY DEF OneDestroyer, Closing, ShuttingDown, Freeing
<1>6. WaitersBlock /\ NothingToFree
  BY DEF WaitersBlock, NothingToFree, ShuttingDown
<1> QED
  BY <1>1, <1>2, <1>3, <1>4, <1>5, <1>6 DEF Inv

(* A step of a call that only moves that call, and not to its end. *)
LEMMA CallMoves ==
  ASSUME Inv, NEW c \in Calls, NEW p \in CallStates \ {"ok"},
         call_pc[c] # "ok",
         p = "wait" => full /\ ~shutdown,
         p \in {"wait", "woken"} => ~do_not_block_when_full,
         call_pc' = [call_pc EXCEPT ![c] = p],
         UNCHANGED <<workers, destroyers, list, flags, heap, done>>
  PROVE  Inv'
<1> USE DEF Inv, workers, destroyers, list, flags
<1>1. TypeOK'
  BY DEF TypeOK
<1>2. ListIntact'
  BY DEF ListIntact, Freeing
<1>3. NodeOwnership'
  BY DEF NodeOwnership, InQueue, Holds, Freeing, TypeOK
<1>4. NoLostWakeup'
  BY DEF NoLostWakeup, TypeOK, full
<1>5. OneDestroyer'
  BY DEF OneDestroyer, Closing, ShuttingDown, Freeing
<1>6. WaitersBlock'
  BY DEF WaitersBlock, TypeOK
<1>7. NothingToFree'
  BY DEF NothingToFree
<1> QED
  BY <1>1, <1>2, <1>3, <1>4, <1>5, <1>6, <1>7

(* A step of a worker that only moves that worker, and runs nothing. *)
LEMMA WorkerMoves ==
  ASSUME Inv, NEW w \in Workers, NEW p \in WorkerStates \ {"run"},
         worker_pc[w] \in {"check", "wait"},
         p = "wait" => cur_queue_size = 0 /\ ~shutdown,
         worker_pc' = [worker_pc EXCEPT ![w] = p],
         UNCHANGED <<call_pc, my_workp, destroyers, list, flags, heap, done>>
  PROVE  Inv'
<1> USE DEF Inv, destroyers, list, flags
<1>1. TypeOK'
  BY DEF TypeOK
<1>2. ListIntact'
  BY DEF ListIntact, Freeing
<1>3. NodeOwnership'
  <2>1. \A v \in Workers, c \in Calls : Holds(v, c)' <=> Holds(v, c)
    BY DEF Holds, TypeOK
  <2>2. \A v \in Workers : worker_pc'[v] = "run" <=> worker_pc[v] = "run"
    BY DEF TypeOK
  <2> QED
    BY <2>1, <2>2 DEF NodeOwnership, InQueue, Freeing
<1>4. NoLostWakeup'
  BY DEF NoLostWakeup, TypeOK, full
<1>5. OneDestroyer'
  BY DEF OneDestroyer, Closing, ShuttingDown, Freeing
<1>6. WaitersBlock'
  BY DEF WaitersBlock
<1>7. NothingToFree'
  BY DEF NothingToFree
<1> QED
  BY <1>1, <1>2, <1>3, <1>4, <1>5, <1>6, <1>7

(* A step of a destroyer that only moves that destroyer, and neither       *)
(* closes the pool nor ends a broadcast.                                   *)
LEMMA DestroyerMoves ==
  ASSUME Inv, NEW d \in Destroyers, NEW p \in DestroyStates,
         destroy_pc[d] \notin {"wake_workers", "wake_callers"},
         destroy_pc[d] \in {"free", "done", "undefined"} => p \in {"free", "done", "undefined"},
         p # "drain",
         p \in Closing => destroy_pc[d] \in Closing,
         p = "drain_woken" => destroy_pc[d] \in {"drain", "drain_woken"},
         p \in ShuttingDown => destroy_pc[d] \in ShuttingDown,
         p \in {"free", "done", "undefined"} =>
             shutdown /\ \A w \in Workers : worker_pc[w] = "exited",
         destroy_pc' = [destroy_pc EXCEPT ![d] = p],
         UNCHANGED <<call_pc, workers, finish, list, flags, heap, done>>
  PROVE  Inv'
<1> USE DEF Inv, workers, list, flags
<1>1. TypeOK'
  BY DEF TypeOK
<1>0. Freeing => Freeing'
  BY DEF Freeing, TypeOK
<1>2. ListIntact'
  BY <1>0 DEF ListIntact
<1>3. NodeOwnership'
  BY <1>0 DEF NodeOwnership, InQueue, Holds
<1>4. NoLostWakeup'
  BY DEF NoLostWakeup, TypeOK, full
<1>5. OneDestroyer'
  BY <1>0 DEF OneDestroyer, Closing, ShuttingDown, Freeing, TypeOK
<1>6. WaitersBlock'
  BY DEF WaitersBlock
<1>7. NothingToFree'
  BY DEF NothingToFree, TypeOK
<1> QED
  BY <1>1, <1>2, <1>3, <1>4, <1>5, <1>6, <1>7

(* tpool_add_work puts a new node at the end of the list. *)
LEMMA AddEnqueueInv ==
  ASSUME Inv, NEW c \in Calls, AddEnqueue(c)
  PROVE  Inv'
<1> USE DEF Inv, destroyers, flags
<1>a. ~shutdown /\ ~queue_closed /\ ~Freeing /\ ~Freeing'
  BY DEF AddEnqueue, closed, OneDestroyer, Freeing, ShuttingDown
<1>b. call_pc[c] \in {"call", "woken"}
  BY DEF AddEnqueue, AtLoop
<1>c. ~InQueue(c) /\ c \notin done /\ \A w \in Workers : ~Holds(w, c)
  BY <1>b DEF NodeOwnership
<1>d. cur_queue_size \in Nat /\ cur_queue_size < max_queue_size
  BY SizeAssumption DEF SizeAssumption, AddEnqueue, full, TypeOK
<1>e. /\ queue \in Seq(Calls)
      /\ Len(queue) \in Nat
      /\ queue' = Append(queue, c)
      /\ Len(queue') = Len(queue) + 1
      /\ queue'[Len(queue) + 1] = c
      /\ \A i \in 1..Len(queue) : queue'[i] = queue[i] /\ queue[i] \in Calls
  BY DEF AddEnqueue, TypeOK
<1>f. \A w \in Workers :
        /\ (worker_pc'[w] = "run") <=> (worker_pc[w] = "run")
        /\ worker_pc'[w] # "wait"
  <2>1. CASE cur_queue_size = 0
    BY <2>1 DEF AddEnqueue, LinkAtTail, wake_queue_not_empty, TypeOK
  <2>2. CASE cur_queue_size # 0
    <3>1. UNCHANGED worker_pc
      BY <2>2 DEF AddEnqueue, LinkAtTail
    <3> QED
      BY <2>2, <3>1 DEF NoLostWakeup
  <2> QED
    BY <2>1, <2>2
<1>1. TypeOK'
  <2>1. worker_pc' \in [Workers -> WorkerStates]
    BY DEF AddEnqueue, LinkAtTail, wake_queue_not_empty, TypeOK, WorkerStates
  <2>2. next' \in [Calls -> Pointers] /\ queue_head' \in Pointers /\ queue_tail' \in Pointers
    <3>1. CASE cur_queue_size = 0
      BY <3>1 DEF AddEnqueue, LinkAtTail, TypeOK, Pointers
    <3>2. CASE cur_queue_size # 0
      <4>1. /\ next' = [next EXCEPT ![c] = NULL, ![queue_tail] = c]
            /\ queue_head' = queue_head /\ queue_tail' = c
        BY <3>2 DEF AddEnqueue, LinkAtTail
      <4> QED
        BY <4>1 DEF TypeOK, Pointers
    <3> QED
      BY <3>1, <3>2
  <2>3. cur_queue_size' \in 0..max_queue_size
    BY <1>d, SizeAssumption DEF SizeAssumption, AddEnqueue
  <2>4. heap' \in [Calls -> {"none", "live", "freed"}] /\ call_pc' \in [Calls -> CallStates]
    BY DEF AddEnqueue, TypeOK, CallStates
  <2>5. queue' \in Seq(Calls)
    BY <1>e
  <2> QED
    BY <2>1, <2>2, <2>3, <2>4, <2>5 DEF AddEnqueue, TypeOK
<1>2. ListIntact'
  <2>1. cur_queue_size' = Len(queue')
    BY <1>e DEF AddEnqueue, ListIntact
  <2>2. \A i, j \in 1..Len(queue') : i # j => queue'[i] # queue'[j]
    BY <1>c, <1>e DEF ListIntact, InQueue
  <2>3. CASE cur_queue_size = 0
    BY <2>1, <2>2, <2>3, <1>a, <1>e DEF ListIntact, AddEnqueue, LinkAtTail
  <2>4. CASE cur_queue_size # 0
    <3>1. Len(queue) # 0 /\ queue # <<>> /\ queue' # <<>>
      BY <2>4, <1>e DEF ListIntact
    <3>2. queue_tail = queue[Len(queue)] /\ queue_head = queue[1]
      BY <3>1, <1>a DEF ListIntact
    <3>3. queue_head' = queue'[1] /\ queue_tail' = queue'[Len(queue')]
      BY <3>1, <3>2, <2>4, <1>e DEF AddEnqueue, LinkAtTail
    <3>4. ASSUME NEW i \in 1..Len(queue') - 1
          PROVE  next'[queue'[i]] = queue'[i + 1]
      <4>1. /\ next' = [next EXCEPT ![c] = NULL, ![queue_tail] = c]
            /\ next \in [Calls -> Pointers]
        BY <2>4 DEF AddEnqueue, LinkAtTail, TypeOK
      <4>2. i \in 1..Len(queue) /\ queue[i] # c
        BY <1>c, <1>e, <3>4 DEF InQueue
      <4>3. CASE i = Len(queue)
        BY <4>1, <4>2, <4>3, <1>e, <3>2
      <4>4. CASE i # Len(queue)
        <5>1. queue[i] # queue_tail
          BY <4>2, <4>4, <3>2, <1>e DEF ListIntact
        <5>2. next[queue[i]] = queue[i + 1]
          BY <4>2, <4>4, <1>a, <1>e DEF ListIntact
        <5> QED
          BY <5>1, <5>2, <4>1, <4>2, <4>4, <1>e
      <4> QED
        BY <4>3, <4>4
    <3> QED
      BY <2>1, <2>2, <3>1, <3>3, <3>4 DEF ListIntact
  <2> QED
    BY <2>3, <2>4
<1>3. NodeOwnership'
  <2>1. \A b \in Calls : InQueue(b)' <=> InQueue(b) \/ b = c
    BY <1>e DEF InQueue
  <2>2. \A w \in Workers, b \in Calls : Holds(w, b)' <=> Holds(w, b)
    <3>1. UNCHANGED my_workp
      BY DEF AddEnqueue
    <3> QED
      BY <3>1, <1>f DEF Holds
  <2>3. /\ \A b \in Calls : b # c => call_pc'[b] = call_pc[b] /\ heap'[b] = heap[b]
        /\ call_pc'[c] = "ok" /\ heap'[c] = "live"
        /\ UNCHANGED <<done, my_workp>>
    BY DEF AddEnqueue, TypeOK
  <2> QED
    BY <2>1, <2>2, <2>3, <1>a, <1>c, <1>f DEF NodeOwnership
<1>4. NoLostWakeup'
  <2>1. \A b \in Calls : call_pc'[b] # "wait"
    BY DEF AddEnqueue, NoLostWakeup, TypeOK
  <2>2. cur_queue_size' # 0 /\ UNCHANGED destroy_pc
    BY <1>d DEF AddEnqueue
  <2> QED
    BY <2>1, <2>2, <1>f DEF NoLostWakeup
<1>5. OneDestroyer'
  BY <1>a DEF OneDestroyer, AddEnqueue, Closing, ShuttingDown, Freeing
<1>6. WaitersBlock'
  BY DEF WaitersBlock, AddEnqueue, TypeOK
<1>7. NothingToFree'
  BY <1>a DEF NothingToFree, AddEnqueue, OneDestroyer
<1> QED
  BY <1>1, <1>2, <1>3, <1>4, <1>5, <1>6, <1>7

(* A worker takes the node at the head of the list. *)
LEMMA WorkerDequeueInv ==
  ASSUME Inv, NEW w \in Workers, WorkerDequeue(w)
  PROVE  Inv'
<1> USE DEF Inv, flags
<1>a. ~shutdown /\ ~Freeing
  BY DEF WorkerDequeue, OneDestroyer, Freeing, ShuttingDown
<1>b. cur_queue_size \in Nat /\ cur_queue_size # 0 /\ cur_queue_size = Len(queue)
  BY SizeAssumption DEF SizeAssumption, WorkerDequeue, TypeOK, ListIntact
<1>c. /\ queue \in Seq(Calls) /\ queue # <<>>
      /\ queue' = Tail(queue) /\ queue' \in Seq(Calls)
      /\ Len(queue') = Len(queue) - 1
      /\ \A i \in 1..Len(queue') : queue'[i] = queue[i + 1]
      /\ \A i \in 1..Len(queue) : queue[i] \in Calls
  BY <1>b DEF WorkerDequeue, Dequeue, TypeOK
<1>d. /\ queue_head = queue[1] /\ queue_head \in Calls
      /\ queue_tail = queue[Len(queue)]
  BY <1>a, <1>b, <1>c DEF ListIntact
<1>e. \A d \in Destroyers :
        /\ destroy_pc[d] # "drain" => destroy_pc'[d] = destroy_pc[d]
        /\ destroy_pc[d] = "drain" => destroy_pc'[d] \in {"drain", "drain_woken"}
        /\ destroy_pc'[d] = "drain" => cur_queue_size' # 0
  BY DEF WorkerDequeue, Dequeue, signal_queue_empty, TypeOK
<1>f. ~Freeing'
  BY <1>a, <1>e DEF Freeing
<1>g. \A c \in Calls :
        /\ call_pc[c] # "wait" => call_pc'[c] = call_pc[c]
        /\ call_pc[c] = "wait" => call_pc'[c] = "woken"
  <2>1. (\E c \in Calls : call_pc[c] = "wait") => wakes_callers
    BY <1>b DEF NoLostWakeup, WaitersBlock, full, wakes_callers
  <2> QED
    BY <2>1 DEF WorkerDequeue, Dequeue, wake_queue_not_full, TypeOK
<1>1. TypeOK'
  <2>1. worker_pc' \in [Workers -> WorkerStates] /\ my_workp' \in [Workers -> Pointers]
    BY <1>d DEF WorkerDequeue, Dequeue, TypeOK, WorkerStates, Pointers
  <2>2. queue_head' \in Pointers /\ queue_tail' \in Pointers
    BY <1>d DEF WorkerDequeue, Dequeue, TypeOK, Pointers
  <2>3. cur_queue_size' \in 0..max_queue_size
    BY <1>b, SizeAssumption DEF SizeAssumption, WorkerDequeue, Dequeue, TypeOK
  <2>4. call_pc' \in [Calls -> CallStates]
    BY DEF WorkerDequeue, Dequeue, wake_queue_not_full, TypeOK, CallStates
  <2>5. destroy_pc' \in [Destroyers -> DestroyStates]
    BY DEF WorkerDequeue, Dequeue, signal_queue_empty, TypeOK, DestroyStates
  <2> QED
    BY <2>1, <2>2, <2>3, <2>4, <2>5, <1>c DEF WorkerDequeue, Dequeue, TypeOK
<1>2. ListIntact'
  <2>1. cur_queue_size' = Len(queue')
    BY <1>b, <1>c DEF WorkerDequeue, Dequeue
  <2>2. \A i, j \in 1..Len(queue') : i # j => queue'[i] # queue'[j]
    BY <1>b, <1>c DEF ListIntact
  <2>a. (cur_queue_size' = 0) <=> (queue' = <<>>)
    BY <2>1, <1>c, EmptySeq
  <2>3. queue_head' = (IF queue' = <<>> THEN NULL ELSE queue'[1])
    <3>1. CASE cur_queue_size' = 0
      BY <3>1, <2>a DEF WorkerDequeue, Dequeue
    <3>2. CASE cur_queue_size' # 0
      <4>1. queue' # <<>> /\ 1 \in 1..Len(queue') /\ 1 \in 1..Len(queue) - 1
        BY <3>2, <2>a, <2>1, <1>b, <1>c
      <4>2. next[queue[1]] = queue[2]
        BY <4>1, <1>a DEF ListIntact
      <4> QED
        BY <4>1, <4>2, <3>2, <1>c, <1>d DEF WorkerDequeue, Dequeue
    <3> QED
      BY <3>1, <3>2
  <2>4. queue_tail' = (IF queue' = <<>> THEN NULL ELSE queue'[Len(queue')])
    <3>1. CASE cur_queue_size' = 0
      BY <3>1, <2>a DEF WorkerDequeue, Dequeue
    <3>2. CASE cur_queue_size' # 0
      <4>1. Len(queue') \in 1..Len(queue') /\ queue'[Len(queue')] = queue[Len(queue)]
        BY <3>2, <2>1, <1>b, <1>c
      <4> QED
        BY <4>1, <3>2, <2>a, <1>d DEF WorkerDequeue, Dequeue
    <3> QED
      BY <3>1, <3>2
  <2>5. \A i \in 1..Len(queue') - 1 : next'[queue'[i]] = queue'[i + 1]
    BY <1>a, <1>b, <1>c DEF ListIntact, WorkerDequeue, Dequeue
  <2> QED
    BY <2>1, <2>2, <2>3, <2>4, <2>5 DEF ListIntact
<1>3. NodeOwnership'
  <2>1. InQueue(queue_head)
    BY <1>b, <1>d DEF InQueue
  <2>2. \A c \in Calls : InQueue(c)' <=> InQueue(c) /\ c # queue_head
    <3>1. \A i \in 2..Len(queue) : queue[i] # queue[1]
      BY <1>b DEF ListIntact
    <3>2. ASSUME NEW c \in Calls, InQueue(c)'
          PROVE  InQueue(c) /\ c # queue_head
      <4>1. PICK i \in 1..Len(queue') : queue'[i] = c
        BY <3>2 DEF InQueue
      <4>2. i + 1 \in 2..Len(queue) /\ queue[i + 1] = c
        BY <4>1, <1>b, <1>c
      <4> QED
        BY <4>2, <3>1, <1>b, <1>d DEF InQueue
    <3>3. ASSUME NEW c \in Calls, InQueue(c), c # queue_head
          PROVE  InQueue(c)'
      <4>1. PICK i \in 1..Len(queue) : queue[i] = c
        BY <3>3 DEF InQueue
      <4>2. i - 1 \in 1..Len(queue') /\ queue'[i - 1] = c
        BY <4>1, <3>3, <1>b, <1>c, <1>d
      <4> QED
        BY <4>2 DEF InQueue
    <3> QED
      BY <3>2, <3>3
  <2>3. \A v \in Workers, c \in Calls :
          Holds(v, c)' <=> Holds(v, c) \/ (v = w /\ c = queue_head)
    BY DEF Holds, WorkerDequeue, Dequeue, TypeOK
  <2>4. /\ \A c \in Calls : call_pc'[c] = "ok" <=> call_pc[c] = "ok"
        /\ \A v \in Workers : v # w => worker_pc'[v] = worker_pc[v] /\ my_workp'[v] = my_workp[v]
        /\ my_workp'[w] = queue_head
        /\ UNCHANGED <<heap, done>>
    BY <1>g DEF WorkerDequeue, Dequeue, TypeOK
  <2> QED
    BY <2>1, <2>2, <2>3, <2>4, <1>a, <1>d, <1>f DEF NodeOwnership
<1>4. NoLostWakeup'
  <2>1. \A v \in Workers : worker_pc'[v] # "wait"
    BY <1>b DEF NoLostWakeup, WorkerDequeue, Dequeue, TypeOK
  <2> QED
    BY <2>1, <1>e, <1>g DEF NoLostWakeup
<1>5. OneDestroyer'
  BY <1>a, <1>e, <1>f DEF OneDestroyer, WorkerDequeue, Dequeue, Closing, ShuttingDown
<1>6. WaitersBlock'
  BY <1>g DEF WaitersBlock
<1>7. NothingToFree'
  BY <1>a, <1>e DEF NothingToFree, WorkerDequeue, Dequeue, OneDestroyer, ShuttingDown
<1> QED
  BY <1>1, <1>2, <1>3, <1>4, <1>5, <1>6, <1>7

(* A worker comes back from a routine and frees its node. *)
LEMMA WorkerRunReturnInv ==
  ASSUME Inv, NEW w \in Workers, WorkerRunReturn(w)
  PROVE  Inv'
<1> USE DEF Inv, destroyers, list, flags
<1>a. /\ my_workp[w] \in Calls /\ Holds(w, my_workp[w])
      /\ worker_pc[w] = "run"
  BY DEF WorkerRunReturn, NodeOwnership, Holds
<1>b. ~Freeing /\ ~Freeing'
  BY <1>a DEF WorkerRunReturn, OneDestroyer, Freeing
<1>c. /\ \A v \in Workers : v # w => worker_pc'[v] = worker_pc[v] /\ my_workp'[v] = my_workp[v]
      /\ worker_pc'[w] = "check" /\ my_workp'[w] = NULL
      /\ \A c \in Calls : c # my_workp[w] => heap'[c] = heap[c]
      /\ heap'[my_workp[w]] = "freed"
      /\ done' = done \cup {my_workp[w]}
  BY <1>a DEF WorkerRunReturn, TypeOK
<1>1. TypeOK'
  BY <1>a DEF WorkerRunReturn, TypeOK, WorkerStates, Pointers
<1>2. ListIntact'
  BY <1>b DEF ListIntact, WorkerRunReturn
<1>3. NodeOwnership'
  <2>1. \A c \in Calls : InQueue(c)' <=> InQueue(c)
    BY DEF InQueue, WorkerRunReturn
  <2>2. \A v \in Workers, c \in Calls : Holds(v, c)' <=> Holds(v, c) /\ v # w
    BY <1>c DEF Holds
  <2>3. \A c \in Calls : Holds(w, c) => c = my_workp[w]
    BY DEF Holds
  <2>4. UNCHANGED call_pc
    BY DEF WorkerRunReturn
  <2> QED
    BY <2>1, <2>2, <2>3, <2>4, <1>a, <1>b, <1>c DEF NodeOwnership
<1>4. NoLostWakeup'
  BY <1>c DEF NoLostWakeup, WorkerRunReturn, full
<1>5. OneDestroyer'
  BY <1>b DEF OneDestroyer, WorkerRunReturn, Closing, ShuttingDown
<1>6. WaitersBlock'
  BY DEF WaitersBlock, WorkerRunReturn
<1>7. NothingToFree'
  BY <1>a, <1>c DEF NothingToFree, WorkerRunReturn, TypeOK
<1> QED
  BY <1>1, <1>2, <1>3, <1>4, <1>5, <1>6, <1>7

(* tpool_destroy is entered. *)
LEMMA EnterDestroyInv ==
  ASSUME Inv, NEW d \in Destroyers, NEW f \in BOOLEAN, EnterDestroy(d, f)
  PROVE  Inv'
<1> USE DEF Inv, workers, list, flags
<1>a. /\ \A e \in Destroyers : e # d => destroy_pc'[e] = destroy_pc[e] /\ finish'[e] = finish[e]
      /\ destroy_pc[d] = "idle" /\ destroy_pc'[d] = "call"
  BY DEF EnterDestroy, TypeOK
<1>b. Freeing' <=> Freeing
  BY <1>a DEF Freeing
<1>1. TypeOK'
  BY DEF EnterDestroy, TypeOK, DestroyStates
<1>2. ListIntact'
  BY <1>b DEF ListIntact, EnterDestroy
<1>3. NodeOwnership'
  BY <1>b DEF NodeOwnership, EnterDestroy, InQueue, Holds
<1>4. NoLostWakeup'
  BY <1>a DEF NoLostWakeup, EnterDestroy, full
<1>5. OneDestroyer'
  BY <1>a, <1>b DEF OneDestroyer, EnterDestroy, Closing, ShuttingDown
<1>6. WaitersBlock'
  BY DEF WaitersBlock, EnterDestroy
<1>7. NothingToFree'
  BY <1>a DEF NothingToFree, EnterDestroy, ShuttingDown
<1> QED
  BY <1>1, <1>2, <1>3, <1>4, <1>5, <1>6, <1>7

(* tpool_destroy closes the queue, waits for it to drain, or shuts down. *)
LEMMA DrainOrShutdownInv ==
  ASSUME Inv, NEW d \in Destroyers,
         \/ destroy_pc[d] = "drain_woken" /\ UNCHANGED queue_closed
         \/ destroy_pc[d] = "call" /\ ~closed /\ queue_closed' = TRUE,
         DrainOrShutdown(d),
         UNCHANGED <<call_pc, workers, finish, list, pool_freed, heap, done>>
  PROVE  Inv'
<1> USE DEF Inv, workers, list
<1>a. queue_closed' /\ ~shutdown /\ ~Freeing /\ ~pool_freed
  BY DEF OneDestroyer, closed, Freeing, Closing, ShuttingDown
<1>b. \A e \in Destroyers : e # d => destroy_pc'[e] = destroy_pc[e] /\ destroy_pc[e] \notin Closing
  BY DEF DrainOrShutdown, TypeOK, OneDestroyer, Closing, closed
<1>c. \/ /\ destroy_pc'[d] = "drain" /\ finish[d] /\ cur_queue_size # 0 /\ shutdown' = FALSE
      \/ /\ destroy_pc'[d] = "wake_workers" /\ ~(finish[d] /\ cur_queue_size # 0) /\ shutdown' = TRUE
  BY <1>a DEF DrainOrShutdown, TypeOK
<1>d. ~Freeing'
  BY <1>a, <1>b, <1>c DEF Freeing
<1>1. TypeOK'
  <2>1. queue_closed' \in BOOLEAN /\ shutdown' \in BOOLEAN
    BY <1>c DEF TypeOK
  <2>2. destroy_pc' \in [Destroyers -> DestroyStates]
    BY DEF DrainOrShutdown, TypeOK, DestroyStates
  <2> QED
    BY <2>1, <2>2 DEF TypeOK
<1>2. ListIntact'
  BY <1>a DEF ListIntact
<1>3. NodeOwnership'
  BY <1>a DEF NodeOwnership, InQueue, Holds
<1>4. NoLostWakeup'
  BY <1>a, <1>b, <1>c DEF NoLostWakeup, full, Closing
<1>5. OneDestroyer'
  <2>1. \A e \in Destroyers : destroy_pc'[e] = "undefined" => destroy_pc[e] = "undefined"
    BY <1>b, <1>c
  <2> QED
    BY <2>1, <1>a, <1>b, <1>c, <1>d DEF OneDestroyer, Closing, ShuttingDown
<1>6. WaitersBlock'
  BY DEF WaitersBlock
<1>7. NothingToFree'
  <2> SUFFICES ASSUME NEW e \in Destroyers, finish[e], destroy_pc'[e] \in ShuttingDown
               PROVE  queue = <<>> /\ queue_head = NULL /\ \A c \in done : heap[c] = "freed"
    BY DEF NothingToFree
  <2>1. e = d /\ cur_queue_size = 0
    BY <1>b, <1>c DEF Closing, ShuttingDown
  <2>2. queue = <<>> /\ queue_head = NULL
    BY <2>1, <1>a, EmptySeq DEF ListIntact, TypeOK
  <2> QED
    BY <2>2, <1>a DEF NodeOwnership, TypeOK
<1> QED
  BY <1>1, <1>2, <1>3, <1>4, <1>5, <1>6, <1>7

(* The broadcast on queue_not_empty wakes every sleeping worker. *)
LEMMA BroadcastNotEmptyInv ==
  ASSUME Inv, NEW d \in Destroyers, BroadcastNotEmpty(d)
  PROVE  Inv'
<1> USE DEF Inv, list, flags
<1>a. /\ \A e \in Destroyers : e # d => destroy_pc'[e] = destroy_pc[e]
      /\ destroy_pc[d] = "wake_workers" /\ destroy_pc'[d] = "wake_callers"
  BY DEF BroadcastNotEmpty, TypeOK
<1>b. Freeing' <=> Freeing
  BY <1>a DEF Freeing
<1>c. \A w \in Workers :
        /\ worker_pc[w] # "wait" => worker_pc'[w] = worker_pc[w]
        /\ worker_pc[w] = "wait" => worker_pc'[w] = "check"
  BY DEF BroadcastNotEmpty, wake_queue_not_empty
<1>1. TypeOK'
  BY DEF BroadcastNotEmpty, wake_queue_not_empty, TypeOK, DestroyStates, WorkerStates
<1>2. ListIntact'
  BY <1>b DEF ListIntact, BroadcastNotEmpty
<1>3. NodeOwnership'
  <2>1. \A w \in Workers, c \in Calls : Holds(w, c)' <=> Holds(w, c)
    BY <1>c DEF Holds, BroadcastNotEmpty
  <2>2. \A c \in Calls : InQueue(c)' <=> InQueue(c)
    BY DEF InQueue, BroadcastNotEmpty
  <2> QED
    BY <2>1, <2>2, <1>b, <1>c DEF NodeOwnership, BroadcastNotEmpty
<1>4. NoLostWakeup'
  BY <1>a, <1>c DEF NoLostWakeup, BroadcastNotEmpty, full
<1>5. OneDestroyer'
  BY <1>a, <1>b, <1>c DEF OneDestroyer, BroadcastNotEmpty, Closing, ShuttingDown
<1>6. WaitersBlock'
  BY DEF WaitersBlock, BroadcastNotEmpty
<1>7. NothingToFree'
  BY <1>a DEF NothingToFree, BroadcastNotEmpty, ShuttingDown
<1> QED
  BY <1>1, <1>2, <1>3, <1>4, <1>5, <1>6, <1>7

(* The broadcast on queue_not_full wakes every blocked caller. *)
LEMMA BroadcastNotFullInv ==
  ASSUME Inv, NEW d \in Destroyers, BroadcastNotFull(d)
  PROVE  Inv'
<1> USE DEF Inv, workers, list, flags
<1>a. /\ \A e \in Destroyers : e # d => destroy_pc'[e] = destroy_pc[e]
      /\ destroy_pc[d] = "wake_callers" /\ destroy_pc'[d] = "join"
  BY DEF BroadcastNotFull, TypeOK
<1>b. Freeing' <=> Freeing
  BY <1>a DEF Freeing
<1>c. \A c \in Calls :
        /\ call_pc[c] # "wait" => call_pc'[c] = call_pc[c]
        /\ call_pc[c] = "wait" => call_pc'[c] = "woken"
  BY DEF BroadcastNotFull, wake_queue_not_full
<1>1. TypeOK'
  BY DEF BroadcastNotFull, wake_queue_not_full, TypeOK, DestroyStates, CallStates
<1>2. ListIntact'
  BY <1>b DEF ListIntact, BroadcastNotFull
<1>3. NodeOwnership'
  <2>1. \A c \in Calls : (call_pc'[c] = "ok") <=> (call_pc[c] = "ok")
    BY <1>c
  <2> QED
    BY <2>1, <1>b DEF NodeOwnership, BroadcastNotFull, InQueue, Holds
<1>4. NoLostWakeup'
  BY <1>a, <1>c DEF NoLostWakeup, BroadcastNotFull, full
<1>5. OneDestroyer'
  BY <1>a, <1>b DEF OneDestroyer, BroadcastNotFull, Closing, ShuttingDown
<1>6. WaitersBlock'
  BY <1>c DEF WaitersBlock, BroadcastNotFull
<1>7. NothingToFree'
  BY <1>a DEF NothingToFree, BroadcastNotFull, ShuttingDown
<1> QED
  BY <1>1, <1>2, <1>3, <1>4, <1>5, <1>6, <1>7

(* One round of the loop that frees nodes, or the end of tpool_destroy. *)
LEMMA FreeInv ==
  ASSUME Inv, NEW d \in Destroyers, FreeNode(d) \/ FreePool(d)
  PROVE  Inv'
<1> USE DEF Inv, workers, list, flags
<1>a. /\ \A e \in Destroyers : e # d => destroy_pc'[e] = destroy_pc[e]
      /\ destroy_pc[d] = "free" /\ destroy_pc'[d] \in {"free", "done", "undefined"}
      /\ UNCHANGED <<call_pc, worker_pc, my_workp, finish, queue, cur_queue_size,
                     queue_closed, shutdown, done>>
  BY DEF FreeNode, FreePool, TypeOK
<1>b. Freeing /\ Freeing'
  BY <1>a DEF Freeing
<1>c. \A w \in Workers : worker_pc[w] = "exited" /\ worker_pc'[w] = "exited"
  BY <1>a, <1>b DEF OneDestroyer
<1>1. TypeOK'
  <2>1. CASE FreeNode(d)
    <3>1. queue_head' \in Pointers
      BY <2>1 DEF FreeNode, ReadNext, TypeOK, Pointers
    <3>2. heap' \in [Calls -> {"none", "live", "freed"}]
      BY <2>1 DEF FreeNode, TypeOK
    <3>3. destroy_pc' \in [Destroyers -> DestroyStates]
      BY <2>1 DEF FreeNode, TypeOK, DestroyStates
    <3> QED
      BY <2>1, <3>1, <3>2, <3>3 DEF FreeNode, TypeOK
  <2>2. CASE FreePool(d)
    BY <2>2 DEF FreePool, TypeOK, DestroyStates
  <2> QED
    BY <2>1, <2>2
<1>2. ListIntact'
  BY <1>a, <1>b DEF ListIntact
<1>3. NodeOwnership'
  BY <1>a, <1>b, <1>c DEF NodeOwnership, InQueue, Holds
<1>4. NoLostWakeup'
  BY <1>a DEF NoLostWakeup, full
<1>5. OneDestroyer'
  BY <1>a, <1>b, <1>c DEF OneDestroyer, Closing, ShuttingDown
<1>6. WaitersBlock'
  BY <1>a DEF WaitersBlock
<1>7. NothingToFree'
  <2> SUFFICES ASSUME NEW e \in Destroyers, finish[e], destroy_pc'[e] \in ShuttingDown
               PROVE  queue = <<>> /\ queue_head' = NULL /\ \A c \in done : heap'[c] = "freed"
    BY <1>a DEF NothingToFree
  <2>1. destroy_pc[e] \in ShuttingDown
    BY <1>a DEF ShuttingDown
  <2>2. queue = <<>> /\ queue_head = NULL /\ \A c \in done : heap[c] = "freed"
    BY <2>1 DEF NothingToFree
  <2> QED
    BY <2>2 DEF FreeNode, FreePool
<1> QED
  BY <1>1, <1>2, <1>3, <1>4, <1>5, <1>6, <1>7

-----------------------------------------------------------------------------
(* Every step of the pool preserves the invariant. *)
LEMMA NextInv ==
  ASSUME Inv, [Next]_vars
  PROVE  Inv'
<1>1. ASSUME NEW c \in Calls, StartCall(c) PROVE Inv'
  BY <1>1, CallMoves DEF StartCall, CallStates
<1>2. ASSUME NEW c \in Calls, CallStep(c) PROVE Inv'
  <2>1. CASE AddRefuse(c)
    BY <2>1, CallMoves DEF AddRefuse, refuses_full, AtLoop, CallStates
  <2>2. CASE AddWait(c)
    <3>1. full /\ ~shutdown /\ call_pc[c] \in {"call", "woken"} /\ ~do_not_block_when_full
      BY <2>2 DEF AddWait, AtLoop, refuses_full, closed, Inv, WaitersBlock
    <3> QED
      BY <2>2, <3>1, CallMoves DEF AddWait, CallStates
  <2>3. CASE AddEnqueue(c)
    BY <2>3, AddEnqueueInv
  <2>4. CASE AddUseAfterFree(c)
    BY <2>4, CallMoves DEF AddUseAfterFree, CallStates
  <2> QED
    BY <1>2, <2>1, <2>2, <2>3, <2>4 DEF CallStep
<1>3. ASSUME NEW w \in Workers, WorkerStep(w) PROVE Inv'
  <2>1. CASE WorkerSleep(w)
    BY <2>1, WorkerMoves DEF WorkerSleep, WorkerStates
  <2>2. CASE WorkerExit(w)
    BY <2>2, WorkerMoves DEF WorkerExit, WorkerStates
  <2>3. CASE WorkerDequeue(w)
    BY <2>3, WorkerDequeueInv
  <2>4. CASE WorkerRunReturn(w)
    BY <2>4, WorkerRunReturnInv
  <2> QED
    BY <1>3, <2>1, <2>2, <2>3, <2>4 DEF WorkerStep
<1>4. ASSUME NEW d \in Destroyers, NEW f \in BOOLEAN, StartDestroy(d, f) PROVE Inv'
  BY <1>4, EnterDestroyInv DEF StartDestroy
<1>5. ASSUME NEW d \in Destroyers, DestroyStep(d) PROVE Inv'
  <2>1. CASE DestroyReturn(d)
    BY <2>1, DestroyerMoves DEF DestroyReturn, DestroyStates, Closing, ShuttingDown
  <2>2. CASE DestroyClose(d)
    BY <2>2, DrainOrShutdownInv DEF DestroyClose
  <2>3. CASE DestroyRecheck(d)
    BY <2>3, DrainOrShutdownInv DEF DestroyRecheck
  <2>4. CASE BroadcastNotEmpty(d)
    BY <2>4, BroadcastNotEmptyInv
  <2>5. CASE BroadcastNotFull(d)
    BY <2>5, BroadcastNotFullInv
  <2>6. CASE Join(d)
    <3>1. shutdown /\ destroy_pc[d] = "join"
      BY <2>6 DEF Join, Inv, OneDestroyer, ShuttingDown
    <3> QED
      BY <2>6, <3>1, DestroyerMoves DEF Join, DestroyStates, Closing, ShuttingDown
  <2>7. CASE FreeNode(d)
    BY <2>7, FreeInv
  <2>8. CASE FreePool(d)
    BY <2>8, FreeInv
  <2>9. CASE DestroyUseAfterFree(d)
    <3>1. Freeing
      BY <2>9 DEF DestroyUseAfterFree, Inv, OneDestroyer
    <3>2. shutdown /\ \A w \in Workers : worker_pc[w] = "exited"
      BY <3>1 DEF Inv, OneDestroyer, Freeing, ShuttingDown
    <3> QED
      BY <2>9, <3>2, DestroyerMoves DEF DestroyUseAfterFree, DestroyStates, Closing, ShuttingDown
  <2> QED
    BY <1>5, <2>1, <2>2, <2>3, <2>4, <2>5, <2>6, <2>7, <2>8, <2>9 DEF DestroyStep
<1>6. ASSUME SpuriousWakeup PROVE Inv'
  <2>1. ASSUME NEW w \in Workers, worker_pc[w] = "wait",
               worker_pc' = [worker_pc EXCEPT ![w] = "check"],
               UNCHANGED <<call_pc, my_workp, destroyers, list, flags, heap, done>>
        PROVE  Inv'
    BY <2>1, WorkerMoves DEF WorkerStates
  <2>2. ASSUME NEW c \in Calls, call_pc[c] = "wait",
               call_pc' = [call_pc EXCEPT ![c] = "woken"],
               UNCHANGED <<workers, destroyers, list, flags, heap, done>>
        PROVE  Inv'
    <3>1. ~do_not_block_when_full
      BY <2>2 DEF Inv, WaitersBlock
    <3> QED
      BY <2>2, <3>1, CallMoves DEF CallStates
  <2>3. ASSUME NEW d \in Destroyers, destroy_pc[d] = "drain",
               destroy_pc' = [destroy_pc EXCEPT ![d] = "drain_woken"],
               UNCHANGED <<call_pc, workers, finish, list, flags, heap, done>>
        PROVE  Inv'
    BY <2>3, DestroyerMoves DEF DestroyStates, Closing, ShuttingDown
  <2> QED
    BY <1>6, <2>1, <2>2, <2>3 DEF SpuriousWakeup
<1>7. ASSUME UNCHANGED vars PROVE Inv'
  BY <1>7 DEF vars, workers, destroyers, list, flags, Inv, TypeOK, ListIntact, NodeOwnership,
     NoLostWakeup, OneDestroyer, WaitersBlock, NothingToFree, InQueue, Holds, Freeing, full
<1> QED
  BY <1>1, <1>2, <1>3, <1>4, <1>5, <1>6, <1>7 DEF Next, Ended

(* The invariant holds in every reachable state of the pool. *)
THEOREM Invariance == Spec => []Inv
<1>1. Init => Inv
  BY InitInv
<1>2. Inv /\ [Next]_vars => Inv'
  BY NextInv
<1> QED
  BY <1>1, <1>2, PTL DEF Spec

(* The variables keep their types; cur_queue_size never leaves             *)
(* 0..max_queue_size, whatever the interleaving of callers and workers.    *)
THEOREM TypeCorrect == Spec => []TypeOK
<1>1. Inv => TypeOK
  BY DEF Inv
<1> QED
  BY <1>1, Invariance, PTL

(* The linked list of tpool_add_work and tpool_thread is always well formed. *)
THEOREM ListCorrect == Spec => []ListIntact
<1>1. Inv => ListIntact
  BY DEF Inv
<1> QED
  BY <1>1, Invariance, PTL

(* Each accepted node is queued, executed by one worker, or executed and freed. *)
THEOREM OwnershipCorrect == Spec => []NodeOwnership
<1>1. Inv => NodeOwnership
  BY DEF Inv
<1> QED
  BY <1>1, Invariance, PTL

(* No thread sleeps on a condition variable when what it waits for holds. *)
THEOREM WakeupCorrect == Spec => []NoLostWakeup
<1>1. Inv => NoLostWakeup
  BY DEF Inv
<1> QED
  BY <1>1, Invariance, PTL

(* One tpool_destroy closes the pool, and it frees it after all workers left. *)
THEOREM DestroyCorrect == Spec => []OneDestroyer
<1>1. Inv => OneDestroyer
  BY DEF Inv
<1> QED
  BY <1>1, Invariance, PTL

(* The invariant holds what tpool_destroy(pool, 1) promises. *)
LEMMA InvFinish ==
  ASSUME Inv
  PROVE  FinishDrains
<1> SUFFICES ASSUME NEW d \in Destroyers, finish[d]
             PROVE  /\ destroy_pc[d] \in ShuttingDown => queue = <<>>
                    /\ destroy_pc[d] = "done" =>
                         \A c \in Calls : call_pc[c] = "ok" => c \in done /\ heap[c] = "freed"
  BY DEF FinishDrains
<1>1. destroy_pc[d] \in ShuttingDown => queue = <<>>
  BY DEF Inv, NothingToFree
<1>2. ASSUME destroy_pc[d] = "done", NEW c \in Calls, call_pc[c] = "ok"
      PROVE  c \in done /\ heap[c] = "freed"
  <2>1. Freeing /\ destroy_pc[d] \in ShuttingDown
    BY <1>2 DEF Freeing, ShuttingDown
  <2>2. ~InQueue(c)
    BY <1>1, <2>1 DEF InQueue
  <2>3. \A w \in Workers : ~Holds(w, c)
    BY <2>1 DEF Inv, OneDestroyer, Holds
  <2>4. c \in done
    BY <1>2, <2>2, <2>3 DEF Inv, NodeOwnership
  <2> QED
    BY <2>1, <2>4 DEF Inv, NothingToFree
<1> QED
  BY <1>1, <1>2

(* tpool_destroy(pool, 1) returns with all accepted work executed and freed. *)
THEOREM FinishCorrect == Spec => []FinishDrains
<1>1. Inv => FinishDrains
  BY InvFinish
<1> QED
  BY <1>1, Invariance, PTL

-----------------------------------------------------------------------------
(* The refinement: the pool's steps, seen through the mapping of TPool, are *)
(* steps of the bounded FIFO queue.                                         *)

(* The abstract state at a concrete step, and after it. *)
USE DEF WQ!Queued, WQ!vars

(* A node on its way to a decision of tpool_add_work is nowhere yet. *)
LEMMA FreshCall ==
  ASSUME Inv, NEW c \in Calls, call_pc[c] \in {"call", "woken"}
  PROVE  c \notin WQ!Queued \cup running \cup done \cup refused
<1>1. ~InQueue(c) /\ c \notin done /\ \A w \in Workers : ~Holds(w, c)
  BY DEF Inv, NodeOwnership
<1>2. c \notin WQ!Queued
  BY <1>1 DEF InQueue
<1>3. c \notin running
  BY <1>1 DEF running, Holds
<1> QED
  BY <1>1, <1>2, <1>3 DEF refused

(* The set of running items changes only with the workers that run. *)
LEMMA SameRunning ==
  ASSUME UNCHANGED my_workp,
         \A w \in Workers : (worker_pc'[w] = "run") <=> (worker_pc[w] = "run")
  PROVE  UNCHANGED running
BY DEF running

(* The set of refused items changes only with the calls that returned -1. *)
LEMMA SameRefused ==
  ASSUME \A c \in Calls : (call_pc'[c] = "refused") <=> (call_pc[c] = "refused")
  PROVE  UNCHANGED refused
BY DEF refused

(* The phase changes only with the two flags. *)
LEMMA SamePhase ==
  ASSUME UNCHANGED <<shutdown, queue_closed>>
  PROVE  UNCHANGED phase
BY DEF phase

-----------------------------------------------------------------------------
(* tpool_add_work: returning -1 is a Refuse ... *)
LEMMA RefuseRefines ==
  ASSUME Inv, NEW c \in Calls, AddRefuse(c)
  PROVE  WQ!Refuse(c)
<1>1. /\ call_pc[c] \in {"call", "woken"}
      /\ call_pc' = [call_pc EXCEPT ![c] = "refused"]
      /\ UNCHANGED <<worker_pc, my_workp, queue, done, shutdown, queue_closed>>
  BY DEF AddRefuse, refuses_full, AtLoop, workers, list, flags
<1>2. phase # "open" \/ (do_not_block_when_full /\ Len(queue) = max_queue_size)
  BY DEF AddRefuse, refuses_full, full, closed, phase, Inv, ListIntact
<1>3. refused' = refused \cup {c}
  BY <1>1 DEF refused, Inv, TypeOK
<1>4. UNCHANGED <<queue, running, done, phase>>
  BY <1>1, SameRunning, SamePhase
<1> QED
  BY <1>1, <1>2, <1>3, <1>4, FreshCall DEF WQ!Refuse

(* ... and putting the node into the list is an Accept. *)
LEMMA EnqueueRefines ==
  ASSUME Inv, NEW c \in Calls, AddEnqueue(c)
  PROVE  WQ!Accept(c)
<1>1. call_pc[c] \in {"call", "woken"}
  BY DEF AddEnqueue, AtLoop
<1>2. phase = "open" /\ UNCHANGED phase
  BY SamePhase DEF AddEnqueue, closed, phase, flags
<1>3. Len(queue) < max_queue_size
  BY SizeAssumption DEF SizeAssumption, AddEnqueue, full, Inv, ListIntact, TypeOK
<1>4. UNCHANGED running
  <2>1. \A w \in Workers : (worker_pc'[w] = "run") <=> (worker_pc[w] = "run")
    <3>1. CASE cur_queue_size = 0
      BY <3>1 DEF AddEnqueue, LinkAtTail, wake_queue_not_empty
    <3>2. CASE cur_queue_size # 0
      BY <3>2 DEF AddEnqueue, LinkAtTail
    <3> QED
      BY <3>1, <3>2
  <2> QED
    BY <2>1, SameRunning DEF AddEnqueue
<1>5. UNCHANGED refused
  <2>1. \A b \in Calls : (call_pc'[b] = "refused") <=> (call_pc[b] = "refused")
    BY <1>1 DEF AddEnqueue, Inv, TypeOK
  <2> QED
    BY <2>1, SameRefused
<1>6. queue' = Append(queue, c) /\ UNCHANGED done
  BY DEF AddEnqueue
<1> QED
  BY <1>1, <1>2, <1>3, <1>4, <1>5, <1>6, FreshCall DEF WQ!Accept

(* tpool_thread: taking the node at the head is a Start ... *)
LEMMA DequeueRefines ==
  ASSUME Inv, NEW w \in Workers, WorkerDequeue(w)
  PROVE  WQ!Start
<1>1. ~Freeing /\ ~shutdown
  BY DEF WorkerDequeue, Inv, OneDestroyer, Freeing, ShuttingDown
<1>2. queue # <<>>
  BY EmptySeq DEF WorkerDequeue, Inv, ListIntact, TypeOK
<1>3. queue_head = Head(queue)
  BY <1>1, <1>2 DEF Inv, ListIntact, TypeOK
<1>4. running' = running \cup {Head(queue)}
  <2>1. /\ my_workp'[w] = Head(queue) /\ worker_pc'[w] = "run" /\ worker_pc[w] = "check"
        /\ \A v \in Workers : v # w => my_workp'[v] = my_workp[v] /\ worker_pc'[v] = worker_pc[v]
    BY <1>3 DEF WorkerDequeue, Dequeue, Inv, TypeOK
  <2> QED
    BY <2>1 DEF running
<1>5. UNCHANGED refused
  <2>1. \A c \in Calls : (call_pc'[c] = "refused") <=> (call_pc[c] = "refused")
    BY DEF WorkerDequeue, Dequeue, wake_queue_not_full
  <2> QED
    BY <2>1, SameRefused
<1>6. queue' = Tail(queue) /\ UNCHANGED <<done, phase>>
  BY SamePhase DEF WorkerDequeue, Dequeue, flags
<1>7. phase # "stopped"
  BY <1>1 DEF phase
<1> QED
  BY <1>2, <1>4, <1>5, <1>6, <1>7 DEF WQ!Start

(* ... and the return of its routine is a Finish. *)
LEMMA RunReturnRefines ==
  ASSUME Inv, NEW w \in Workers, WorkerRunReturn(w)
  PROVE  \E c \in Calls : WQ!Finish(c)
<1>1. my_workp[w] \in Calls /\ worker_pc[w] = "run" /\ Holds(w, my_workp[w])
  BY DEF WorkerRunReturn, Inv, NodeOwnership, Holds
<1>2. my_workp[w] \in running
  BY <1>1 DEF running
<1>3. running' = running \ {my_workp[w]}
  <2>1. /\ worker_pc'[w] = "check"
        /\ \A v \in Workers : v # w => my_workp'[v] = my_workp[v] /\ worker_pc'[v] = worker_pc[v]
    BY DEF WorkerRunReturn, Inv, TypeOK
  <2>2. \A v \in Workers : worker_pc[v] = "run" /\ v # w => my_workp[v] # my_workp[w]
    BY <1>1 DEF Inv, NodeOwnership, Holds
  <2> QED
    BY <2>1, <2>2 DEF running
<1>4. /\ done' = done \cup {my_workp[w]}
      /\ UNCHANGED <<queue, refused, phase>>
  BY SamePhase, SameRefused DEF WorkerRunReturn, list, flags
<1> QED
  BY <1>1, <1>2, <1>3, <1>4 DEF WQ!Finish

(* tpool_destroy: closing and shutting down are Close, StopDrained, StopNow. *)
LEMMA DestroyRefines ==
  ASSUME Inv, NEW d \in Destroyers, DestroyClose(d) \/ DestroyRecheck(d)
  PROVE  \/ WQ!Close \/ WQ!StopNow \/ WQ!StopDrained
         \/ UNCHANGED WQ!vars
<1>1. UNCHANGED <<queue, running, done, refused>>
  BY SameRunning, SameRefused DEF DestroyClose, DestroyRecheck, workers, list
<1>2. queue_closed' = TRUE /\ shutdown \in BOOLEAN /\ queue_closed \in BOOLEAN
  BY DEF DestroyClose, DestroyRecheck, Inv, OneDestroyer, TypeOK, Closing
<1>3. CASE DestroyClose(d)
  <2>1. phase = "open"
    BY <1>3 DEF DestroyClose, closed, phase
  <2>2. phase' \in {"draining", "stopped"}
    BY <1>2 DEF phase
  <2> QED
    BY <2>1, <2>2, <1>1 DEF WQ!Close, WQ!StopNow
<1>4. CASE DestroyRecheck(d)
  <2>1. queue_closed /\ ~shutdown /\ finish[d]
    BY <1>4 DEF DestroyRecheck, Inv, OneDestroyer, Closing
  <2>2. phase = "draining"
    BY <2>1 DEF phase
  <2>3. CASE cur_queue_size # 0
    <3>1. shutdown' = FALSE
      BY <1>4, <2>1, <2>3 DEF DestroyRecheck, DrainOrShutdown
    <3> QED
      BY <3>1, <1>1, <1>2, <2>2 DEF phase
  <2>4. CASE cur_queue_size = 0
    <3>1. shutdown' = TRUE
      BY <1>4, <2>4 DEF DestroyRecheck, DrainOrShutdown
    <3>2. queue = <<>>
      BY <2>4, EmptySeq DEF Inv, ListIntact, TypeOK
    <3>3. phase' = "stopped"
      BY <3>1 DEF phase
    <3> QED
      BY <3>2, <3>3, <1>1, <2>2 DEF WQ!StopDrained
  <2> QED
    BY <2>3, <2>4
<1> QED
  BY <1>3, <1>4

(* Every other step of the pool is invisible in the abstract queue. *)
LEMMA Stutters ==
  ASSUME Inv, UNCHANGED <<my_workp, queue, done, shutdown, queue_closed>>,
         \A w \in Workers : (worker_pc'[w] = "run") <=> (worker_pc[w] = "run"),
         \A c \in Calls : (call_pc'[c] = "refused") <=> (call_pc[c] = "refused")
  PROVE  UNCHANGED WQ!vars
BY SameRunning, SameRefused, SamePhase

(* Each step of the pool is a step of the abstract queue, or a stutter. *)
LEMMA StepRefines ==
  ASSUME Inv, [Next]_vars
  PROVE  [WQ!Next]_WQ!vars
<1> USE DEF workers, destroyers, list, flags
<1>1. ASSUME NEW c \in Calls, StartCall(c) PROVE UNCHANGED WQ!vars
  BY <1>1, Stutters DEF StartCall, Inv, TypeOK
<1>2. ASSUME NEW c \in Calls, CallStep(c) PROVE [WQ!Next]_WQ!vars
  <2>1. CASE AddRefuse(c)
    BY <2>1, RefuseRefines DEF WQ!Next
  <2>2. CASE AddEnqueue(c)
    BY <2>2, EnqueueRefines DEF WQ!Next
  <2>3. CASE AddWait(c)
    BY <2>3, Stutters DEF AddWait, AtLoop, Inv, TypeOK
  <2>4. CASE AddUseAfterFree(c)
    BY <2>4, Stutters DEF AddUseAfterFree, Inv, TypeOK
  <2> QED
    BY <1>2, <2>1, <2>2, <2>3, <2>4 DEF CallStep
<1>3. ASSUME NEW w \in Workers, WorkerStep(w) PROVE [WQ!Next]_WQ!vars
  <2>1. CASE WorkerSleep(w)
    BY <2>1, Stutters DEF WorkerSleep, Inv, TypeOK
  <2>2. CASE WorkerExit(w)
    BY <2>2, Stutters DEF WorkerExit, Inv, TypeOK
  <2>3. CASE WorkerDequeue(w)
    BY <2>3, DequeueRefines DEF WQ!Next
  <2>4. CASE WorkerRunReturn(w)
    BY <2>4, RunReturnRefines DEF WQ!Next
  <2> QED
    BY <1>3, <2>1, <2>2, <2>3, <2>4 DEF WorkerStep
<1>4. ASSUME NEW d \in Destroyers, NEW f \in BOOLEAN, StartDestroy(d, f)
      PROVE  UNCHANGED WQ!vars
  BY <1>4, Stutters DEF StartDestroy, EnterDestroy
<1>5. ASSUME NEW d \in Destroyers, DestroyStep(d) PROVE [WQ!Next]_WQ!vars
  <2>1. CASE DestroyClose(d) \/ DestroyRecheck(d)
    BY <2>1, DestroyRefines DEF WQ!Next
  <2>2. CASE BroadcastNotEmpty(d)
    BY <2>2, Stutters DEF BroadcastNotEmpty, wake_queue_not_empty
  <2>3. CASE BroadcastNotFull(d)
    BY <2>3, Stutters DEF BroadcastNotFull, wake_queue_not_full
  <2>4. CASE DestroyReturn(d) \/ Join(d) \/ DestroyUseAfterFree(d)
    BY <2>4, Stutters DEF DestroyReturn, Join, DestroyUseAfterFree
  <2>5. CASE FreeNode(d) \/ FreePool(d)
    BY <2>5, Stutters DEF FreeNode, FreePool
  <2> QED
    BY <1>5, <2>1, <2>2, <2>3, <2>4, <2>5 DEF DestroyStep
<1>6. ASSUME SpuriousWakeup PROVE UNCHANGED WQ!vars
  BY <1>6, Stutters DEF SpuriousWakeup, Inv, TypeOK
<1>7. ASSUME UNCHANGED vars PROVE UNCHANGED WQ!vars
  BY <1>7, Stutters DEF vars
<1> QED
  BY <1>1, <1>2, <1>3, <1>4, <1>5, <1>6, <1>7 DEF Next, Ended

(***************************************************************************)
(* The pool is a bounded FIFO queue of work: items start in the order in   *)
(* which they were accepted, each at most once and none after the stop; a  *)
(* closed queue accepts nothing; a queue closed in order to drain stops    *)
(* only when it is empty; and tpool_add_work refuses only when the queue   *)
(* is closed or, for callers that do not wait, full.                       *)
(***************************************************************************)
THEOREM Refinement == Spec => ImplementsWorkQueue
<1>1. Init => WQ!Init
  BY DEF Init, WQ!Init, running, refused, phase
<1>2. Inv /\ [Next]_vars => [WQ!Next]_WQ!vars
  BY StepRefines
<1> QED
  BY <1>1, <1>2, Invariance, PTL DEF Spec, WQ!Spec, ImplementsWorkQueue
=============================================================================
