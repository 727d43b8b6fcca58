------------------------------- MODULE TPool -------------------------------
(***************************************************************************)
(* The thread pool of src/tpool/tpool.c.                                   *)
(*                                                                         *)
(* A process of the model is a thread inside one of the pool's functions:  *)
(* a worker in tpool_thread, a caller in tpool_add_work, a destroyer in    *)
(* tpool_destroy.  A call of tpool_add_work is identified with the work    *)
(* node it allocates.  All fields of the pool are accessed with            *)
(* queue_lock held, so the code between taking the lock (or waking up with *)
(* it) and releasing it (or going to sleep) is one action; what            *)
(* tpool_destroy does after releasing the lock is several.                 *)
(***************************************************************************)
EXTENDS Integers, Sequences, FiniteSets

CONSTANTS
  Workers,                  \* the threads created by tpool_init
  Calls,                    \* calls of tpool_add_work, and their work nodes
  Destroyers,               \* calls of tpool_destroy
  max_queue_size,
  do_not_block_when_full,
  NULL

ASSUME SizeAssumption == max_queue_size \in Nat
ASSUME ModeAssumption == do_not_block_when_full \in BOOLEAN
ASSUME NullAssumption == NULL \notin Calls

VARIABLES
  call_pc,          \* where each call of tpool_add_work is
  worker_pc,        \* where each worker is
  my_workp,         \* the node each worker is executing
  destroy_pc,       \* where each call of tpool_destroy is
  finish,           \* its argument: TRUE iff finish == 1
  queue_head, queue_tail, next,     \* the linked list of work nodes
  cur_queue_size, queue_closed, shutdown,
  heap,             \* "none", "live" or "freed" for each work node
  pool_freed,       \* free(tpool) has been executed
  queue,            \* auxiliary: the contents of the list, as a sequence
  done              \* auxiliary: the nodes whose routine has returned

list == <<queue_head, queue_tail, next, cur_queue_size, queue>>
flags == <<queue_closed, shutdown, pool_freed>>
workers == <<worker_pc, my_workp>>
destroyers == <<destroy_pc, finish>>
vars == <<call_pc, workers, destroyers, list, flags, heap, done>>

Pointers == Calls \cup {NULL}
CallStates == {"idle", "call", "wait", "woken", "ok", "refused", "undefined"}
WorkerStates == {"check", "wait", "run", "exited"}
DestroyStates == {"idle", "call", "drain", "drain_woken", "wake_workers",
                  "wake_callers", "join", "free", "done", "returned",
                  "undefined"}

(***************************************************************************)
(* tpool_init: every field is set before the first thread is created, and  *)
(* the caller gets the pool only after that.                               *)
(***************************************************************************)
Init ==
  /\ call_pc = [c \in Calls |-> "idle"]
  /\ worker_pc = [w \in Workers |-> "check"]
  /\ my_workp = [w \in Workers |-> NULL]
  /\ destroy_pc = [d \in Destroyers |-> "idle"]
  /\ finish = [d \in Destroyers |-> FALSE]
  /\ queue_head = NULL
  /\ queue_tail = NULL
  /\ next = [c \in Calls |-> NULL]
  /\ cur_queue_size = 0
  /\ queue_closed = FALSE
  /\ shutdown = FALSE
  /\ heap = [c \in Calls |-> "none"]
  /\ pool_freed = FALSE
  /\ queue = <<>>
  /\ done = {}

-----------------------------------------------------------------------------
(* Condition variables: the sleepers of each, woken. *)

NoBroadcastNotEmpty == worker_pc    \* mutant: sleeping workers are not told
NoBroadcastNotFull == call_pc       \* mutant: blocked callers are not told
NoSignalEmpty == destroy_pc         \* mutant: the destroyer is not told

wake_queue_not_empty ==
  [w \in Workers |-> IF worker_pc[w] = "wait" THEN "check" ELSE worker_pc[w]]

wake_queue_not_full ==
  [c \in Calls |-> IF call_pc[c] = "wait" THEN "woken" ELSE call_pc[c]]

(* At most one destroyer waits for queue_empty, so a signal wakes them all. *)
signal_queue_empty ==
  [d \in Destroyers |->
     IF destroy_pc[d] = "drain" THEN "drain_woken" ELSE destroy_pc[d]]

(* POSIX lets pthread_cond_wait return with nobody having signalled. *)
SpuriousWakeup ==
  \/ /\ \E w \in Workers :
          /\ worker_pc[w] = "wait"
          /\ worker_pc' = [worker_pc EXCEPT ![w] = "check"]
     /\ UNCHANGED <<call_pc, my_workp, destroyers, list, flags, heap, done>>
  \/ /\ \E c \in Calls :
          /\ call_pc[c] = "wait"
          /\ call_pc' = [call_pc EXCEPT ![c] = "woken"]
     /\ UNCHANGED <<workers, destroyers, list, flags, heap, done>>
  \/ /\ \E d \in Destroyers :
          /\ destroy_pc[d] = "drain"
          /\ destroy_pc' = [destroy_pc EXCEPT ![d] = "drain_woken"]
     /\ UNCHANGED <<call_pc, workers, finish, list, flags, heap, done>>

-----------------------------------------------------------------------------
(* tpool_add_work *)

FullOffByOne == cur_queue_size = max_queue_size + 1     \* mutant
ClosedIfShutdown == shutdown                            \* mutant: ignores queue_closed

full == cur_queue_size = max_queue_size
closed == shutdown \/ queue_closed

(* The application calls while it still has a pool; the call then races    *)
(* for queue_lock.                                                         *)
StartCall(c) ==
  /\ call_pc[c] = "idle"
  /\ ~pool_freed
  /\ call_pc' = [call_pc EXCEPT ![c] = "call"]
  /\ UNCHANGED <<workers, destroyers, list, flags, heap, done>>

(* mutant: refuses one item too early *)
RefusesFullEarly(c) ==
  call_pc[c] = "call" /\ do_not_block_when_full /\ cur_queue_size >= max_queue_size - 1

(* No space, and callers do not wait: tested once, before the loop. *)
refuses_full(c) ==
  call_pc[c] = "call" /\ do_not_block_when_full /\ full

(* Past that test: at the condition of the while loop. *)
AtLoop(c) ==
  /\ ~pool_freed
  /\ call_pc[c] \in {"call", "woken"}
  /\ ~refuses_full(c)

AddWait(c) ==
  /\ AtLoop(c)
  /\ full /\ ~closed
  /\ call_pc' = [call_pc EXCEPT ![c] = "wait"]
  /\ UNCHANGED <<workers, destroyers, list, flags, heap, done>>

(* The two early returns: the queue is full, or the pool closes. *)
AddRefuse(c) ==
  /\ ~pool_freed
  /\ refuses_full(c) \/ (AtLoop(c) /\ closed)
  /\ call_pc' = [call_pc EXCEPT ![c] = "refused"]
  /\ UNCHANGED <<workers, destroyers, list, flags, heap, done>>

(* mutant: the old tail is not linked to the new node *)
LinkTailOnly(c) ==
  /\ queue_tail' = c
  /\ queue_head' = IF cur_queue_size = 0 THEN c ELSE queue_head
  /\ next' = [next EXCEPT ![c] = NULL]
  /\ worker_pc' = IF cur_queue_size = 0 THEN wake_queue_not_empty ELSE worker_pc

(* The new node becomes the tail; if it is alone, also the head. *)
LinkAtTail(c) ==
  /\ queue_tail' = c
  /\ \/ /\ cur_queue_size = 0
        /\ queue_head' = c
        /\ next' = [next EXCEPT ![c] = NULL]
        /\ worker_pc' = wake_queue_not_empty
     \/ /\ cur_queue_size # 0
        /\ next' = [next EXCEPT ![c] = NULL, ![queue_tail] = c]
        /\ UNCHANGED <<queue_head, worker_pc>>

AddEnqueue(c) ==
  /\ AtLoop(c)
  /\ ~full /\ ~closed
  /\ heap' = [heap EXCEPT ![c] = "live"]
  /\ LinkAtTail(c)
  /\ cur_queue_size' = cur_queue_size + 1
  /\ queue' = Append(queue, c)
  /\ call_pc' = [call_pc EXCEPT ![c] = "ok"]
  /\ UNCHANGED <<my_workp, destroyers, flags, done>>

(* A call that takes queue_lock, or is woken, after free(tpool): it reads  *)
(* freed memory, and nothing is known of it from then on.                  *)
AddUseAfterFree(c) ==
  /\ call_pc[c] \in {"call", "woken"}
  /\ pool_freed
  /\ call_pc' = [call_pc EXCEPT ![c] = "undefined"]
  /\ UNCHANGED <<workers, destroyers, list, flags, heap, done>>

-----------------------------------------------------------------------------
(* tpool_thread *)

WorkerSleep(w) ==
  /\ worker_pc[w] = "check"
  /\ cur_queue_size = 0 /\ ~shutdown
  /\ worker_pc' = [worker_pc EXCEPT ![w] = "wait"]
  /\ UNCHANGED <<call_pc, my_workp, destroyers, list, flags, heap, done>>

(* A worker that sees shutdown leaves, whatever the queue still holds. *)
WorkerExit(w) ==
  /\ worker_pc[w] = "check"
  /\ shutdown
  /\ worker_pc' = [worker_pc EXCEPT ![w] = "exited"]
  /\ UNCHANGED <<call_pc, my_workp, destroyers, list, flags, heap, done>>

(* mutant: off by one *)
WakesCallersNever == ~do_not_block_when_full /\ cur_queue_size - 1 = max_queue_size

(* The dequeue in progress makes room in a full queue. *)
wakes_callers ==
  ~do_not_block_when_full /\ cur_queue_size - 1 = max_queue_size - 1

Dequeue(w) ==
  /\ worker_pc' = [worker_pc EXCEPT ![w] = "run"]
  /\ my_workp' = [my_workp EXCEPT ![w] = queue_head]
  /\ cur_queue_size' = cur_queue_size - 1
  /\ queue_head' = IF cur_queue_size' = 0 THEN NULL ELSE next[queue_head]
  /\ queue_tail' = IF cur_queue_size' = 0 THEN NULL ELSE queue_tail
  /\ call_pc' = IF wakes_callers THEN wake_queue_not_full ELSE call_pc
  /\ destroy_pc' = IF cur_queue_size' = 0 THEN signal_queue_empty ELSE destroy_pc
  /\ queue' = Tail(queue)
  /\ UNCHANGED <<next, finish, flags, heap, done>>

(* mutant: work is started although the pool has been shut down *)
WorkerDequeueAlways(w) ==
  /\ worker_pc[w] = "check"
  /\ cur_queue_size # 0
  /\ Dequeue(w)

WorkerDequeue(w) ==
  /\ worker_pc[w] = "check"
  /\ cur_queue_size # 0 /\ ~shutdown
  /\ Dequeue(w)

(* mutant: the node is not freed *)
WorkerRunReturnLeaks(w) ==
  /\ worker_pc[w] = "run"
  /\ worker_pc' = [worker_pc EXCEPT ![w] = "check"]
  /\ done' = done \cup {my_workp[w]}
  /\ my_workp' = [my_workp EXCEPT ![w] = NULL]
  /\ UNCHANGED <<call_pc, destroyers, list, flags, heap>>

(* The routine returns, the node is freed, and the worker goes round. *)
WorkerRunReturn(w) ==
  /\ worker_pc[w] = "run"
  /\ worker_pc' = [worker_pc EXCEPT ![w] = "check"]
  /\ heap' = [heap EXCEPT ![my_workp[w]] = "freed"]
  /\ done' = done \cup {my_workp[w]}
  /\ my_workp' = [my_workp EXCEPT ![w] = NULL]
  /\ UNCHANGED <<call_pc, destroyers, list, flags>>

-----------------------------------------------------------------------------
(* tpool_destroy *)

EnterDestroy(d, f) ==
  /\ destroy_pc[d] = "idle"
  /\ destroy_pc' = [destroy_pc EXCEPT ![d] = "call"]
  /\ finish' = [finish EXCEPT ![d] = f]
  /\ UNCHANGED <<call_pc, workers, list, flags, heap, done>>

StartDestroy(d, f) == ~pool_freed /\ EnterDestroy(d, f)

(* A shutdown is already in progress. *)
DestroyReturn(d) ==
  /\ destroy_pc[d] = "call"
  /\ ~pool_freed
  /\ closed
  /\ destroy_pc' = [destroy_pc EXCEPT ![d] = "returned"]
  /\ UNCHANGED <<call_pc, workers, finish, list, flags, heap, done>>

(* mutant: one wakeup is taken to mean that the queue is empty *)
DrainOnce(d) ==
  LET waits == finish[d] /\ cur_queue_size # 0 /\ destroy_pc[d] = "call" IN
  /\ destroy_pc' = [destroy_pc EXCEPT ![d] = IF waits THEN "drain" ELSE "wake_workers"]
  /\ shutdown' = (shutdown \/ ~waits)

(* The loop that waits for queue_empty, and shutdown = 1 after it. *)
DrainOrShutdown(d) ==
  LET waits == finish[d] /\ cur_queue_size # 0 IN
  /\ destroy_pc' = [destroy_pc EXCEPT ![d] = IF waits THEN "drain" ELSE "wake_workers"]
  /\ shutdown' = (shutdown \/ ~waits)

DestroyClose(d) ==
  /\ destroy_pc[d] = "call"
  /\ ~pool_freed
  /\ ~closed
  /\ queue_closed' = TRUE
  /\ DrainOrShutdown(d)
  /\ UNCHANGED <<call_pc, workers, finish, list, pool_freed, heap, done>>

DestroyRecheck(d) ==
  /\ destroy_pc[d] = "drain_woken"
  /\ DrainOrShutdown(d)
  /\ UNCHANGED <<call_pc, workers, finish, list, queue_closed, pool_freed, heap, done>>

BroadcastNotEmpty(d) ==
  /\ destroy_pc[d] = "wake_workers"
  /\ worker_pc' = wake_queue_not_empty
  /\ destroy_pc' = [destroy_pc EXCEPT ![d] = "wake_callers"]
  /\ UNCHANGED <<call_pc, my_workp, finish, list, flags, heap, done>>

BroadcastNotFull(d) ==
  /\ destroy_pc[d] = "wake_callers"
  /\ call_pc' = wake_queue_not_full
  /\ destroy_pc' = [destroy_pc EXCEPT ![d] = "join"]
  /\ UNCHANGED <<workers, finish, list, flags, heap, done>>

(* The loop of pthread_join returns when every worker has exited. *)
Join(d) ==
  /\ destroy_pc[d] = "join"
  /\ \A w \in Workers : worker_pc[w] = "exited"
  /\ destroy_pc' = [destroy_pc EXCEPT ![d] = "free"]
  /\ UNCHANGED <<call_pc, workers, finish, list, flags, heap, done>>

(* What reading n->next may yield: anything once n has been freed. *)
ReadNext(n) == IF heap[n] = "live" THEN {next[n]} ELSE Pointers

(* One round of the loop that frees the abandoned nodes.  The node freed   *)
(* is the successor of the head, which then becomes the head; freeing what *)
(* is not a live block is undefined.                                       *)
FreeNode(d) ==
  /\ destroy_pc[d] = "free"
  /\ queue_head # NULL
  /\ \E p \in ReadNext(queue_head) :
       /\ queue_head' = p
       /\ \/ /\ p = NULL
             /\ UNCHANGED <<heap, destroy_pc>>
          \/ /\ p # NULL
             /\ heap[p] = "live"
             /\ heap' = [heap EXCEPT ![p] = "freed"]
             /\ UNCHANGED destroy_pc
          \/ /\ p # NULL
             /\ heap[p] # "live"
             /\ destroy_pc' = [destroy_pc EXCEPT ![d] = "undefined"]
             /\ UNCHANGED heap
  /\ UNCHANGED <<call_pc, workers, finish, queue_tail, next, cur_queue_size,
                 queue, flags, done>>

FreePool(d) ==
  /\ destroy_pc[d] = "free"
  /\ queue_head = NULL
  /\ pool_freed' = TRUE
  /\ destroy_pc' = [destroy_pc EXCEPT ![d] = "done"]
  /\ UNCHANGED <<call_pc, workers, finish, list, queue_closed, shutdown, heap, done>>

DestroyUseAfterFree(d) ==
  /\ destroy_pc[d] = "call"
  /\ pool_freed
  /\ destroy_pc' = [destroy_pc EXCEPT ![d] = "undefined"]
  /\ UNCHANGED <<call_pc, workers, finish, list, flags, heap, done>>

-----------------------------------------------------------------------------
CallStep(c) ==
  \/ AddWait(c)
  \/ AddRefuse(c)
  \/ AddEnqueue(c)
  \/ AddUseAfterFree(c)

WorkerStep(w) ==
  \/ WorkerSleep(w)
  \/ WorkerExit(w)
  \/ WorkerDequeue(w)
  \/ WorkerRunReturn(w)

DestroyStep(d) ==
  \/ DestroyReturn(d)
  \/ DestroyClose(d)
  \/ DestroyRecheck(d)
  \/ BroadcastNotEmpty(d)
  \/ BroadcastNotFull(d)
  \/ Join(d)
  \/ FreeNode(d)
  \/ FreePool(d)
  \/ DestroyUseAfterFree(d)

(* The pool is gone and no thread is inside one of its functions. *)
Ended ==
  /\ \E d \in Destroyers : destroy_pc[d] \in {"done", "undefined"}
  /\ \A d \in Destroyers : destroy_pc[d] \in {"idle", "done", "returned", "undefined"}
  /\ \A c \in Calls : call_pc[c] \in {"idle", "ok", "refused", "undefined"}
  /\ UNCHANGED vars

Next ==
  \/ \E c \in Calls : StartCall(c) \/ CallStep(c)
  \/ \E w \in Workers : WorkerStep(w)
  \/ \E d \in Destroyers : (\E f \in BOOLEAN : StartDestroy(d, f)) \/ DestroyStep(d)
  \/ SpuriousWakeup
  \/ Ended

Spec == Init /\ [][Next]_vars

(***************************************************************************)
(* Every thread inside the pool keeps running: it is scheduled, it gets    *)
(* queue_lock when it waits for it, and the routines return.  Starting     *)
(* calls and spurious wakeups are not promised.                            *)
(***************************************************************************)
Fairness ==
  /\ \A c \in Calls : WF_vars(CallStep(c))
  /\ \A w \in Workers : WF_vars(WorkerStep(w))
  /\ \A d \in Destroyers : WF_vars(DestroyStep(d))

FairSpec == Spec /\ Fairness

-----------------------------------------------------------------------------
(* Properties *)

(* Every variable has its type. *)
TypeOK ==
  /\ call_pc \in [Calls -> CallStates]
  /\ worker_pc \in [Workers -> WorkerStates]
  /\ my_workp \in [Workers -> Pointers]
  /\ destroy_pc \in [Destroyers -> DestroyStates]
  /\ finish \in [Destroyers -> BOOLEAN]
  /\ queue_head \in Pointers
  /\ queue_tail \in Pointers
  /\ next \in [Calls -> Pointers]
  /\ cur_queue_size \in 0..max_queue_size
  /\ queue_closed \in BOOLEAN
  /\ shutdown \in BOOLEAN
  /\ heap \in [Calls -> {"none", "live", "freed"}]
  /\ pool_freed \in BOOLEAN
  /\ queue \in Seq(Calls)
  /\ done \in SUBSET Calls

InQueue(c) == \E i \in 1..Len(queue) : queue[i] = c
Holds(w, c) == worker_pc[w] = "run" /\ my_workp[w] = c

(* Closing the pool: from queue_closed = 1 to the end of tpool_destroy. *)
ShuttingDown == {"wake_workers", "wake_callers", "join", "free", "done"}
Closing == {"drain", "drain_woken"} \cup ShuttingDown
Freeing == \E d \in Destroyers : destroy_pc[d] \in {"free", "done", "undefined"}

(***************************************************************************)
(* The linked list: as long as no destroyer is past its joins, queue_head, *)
(* queue_tail, the next pointers and cur_queue_size describe the same      *)
(* sequence of distinct nodes, across the special cases of the empty queue *)
(* and of the last node in tpool_add_work and tpool_thread.                *)
(***************************************************************************)
ListIntact ==
  /\ cur_queue_size = Len(queue)
  /\ \A i, j \in 1..Len(queue) : i # j => queue[i] # queue[j]
  /\ ~Freeing =>
       /\ queue_head = (IF queue = <<>> THEN NULL ELSE queue[1])
       /\ queue_tail = (IF queue = <<>> THEN NULL ELSE queue[Len(queue)])
       /\ \A i \in 1..Len(queue) - 1 : next[queue[i]] = queue[i + 1]

(***************************************************************************)
(* A node whose call returned 1 is in exactly one place: in the queue,     *)
(* with one worker, or executed.  It is allocated while it is queued or    *)
(* held, so no routine is called through a freed node, and it is freed     *)
(* once it has been executed.  No other node is anywhere.                  *)
(***************************************************************************)
NodeOwnership ==
  /\ \A c \in Calls :
       /\ call_pc[c] = "ok" <=> InQueue(c) \/ c \in done \/ \E w \in Workers : Holds(w, c)
       /\ ~(InQueue(c) /\ c \in done)
       /\ \A w \in Workers : Holds(w, c) =>
            /\ ~InQueue(c)
            /\ c \notin done
            /\ heap[c] = "live"
            /\ \A v \in Workers : Holds(v, c) => v = w
       /\ InQueue(c) /\ ~Freeing => heap[c] = "live"
       /\ c \in done /\ ~Freeing => heap[c] = "freed"
  /\ \A w \in Workers : worker_pc[w] = "run" => my_workp[w] \in Calls

(***************************************************************************)
(* Nobody sleeps on a condition that has become true: the signals sent     *)
(* only when the queue stops being empty, stops being full or becomes      *)
(* empty, and the two broadcasts that tpool_destroy sends after releasing  *)
(* queue_lock, miss no sleeper.                                            *)
(***************************************************************************)
NoLostWakeup ==
  /\ \A w \in Workers : worker_pc[w] = "wait" =>
       /\ cur_queue_size = 0
       /\ shutdown => \E d \in Destroyers : destroy_pc[d] = "wake_workers"
  /\ \A c \in Calls : call_pc[c] = "wait" =>
       /\ full
       /\ shutdown => \E d \in Destroyers : destroy_pc[d] \in {"wake_workers", "wake_callers"}
  /\ \A d \in Destroyers : destroy_pc[d] = "drain" => cur_queue_size # 0

(***************************************************************************)
(* At most one tpool_destroy gets past the test of queue_closed, it has    *)
(* the pool to itself when it frees it, and the flags tell how far it is.  *)
(***************************************************************************)
OneDestroyer ==
  /\ \A d, e \in Destroyers :
       destroy_pc[d] \in Closing /\ destroy_pc[e] \in Closing => d = e
  /\ \A d \in Destroyers :
       /\ destroy_pc[d] \in Closing => queue_closed
       /\ destroy_pc[d] \in {"drain", "drain_woken"} => finish[d] /\ ~shutdown
       /\ destroy_pc[d] \in ShuttingDown => shutdown
       /\ destroy_pc[d] = "undefined" => shutdown
  /\ shutdown => queue_closed
  /\ pool_freed => Freeing
  /\ Freeing => \A w \in Workers : worker_pc[w] = "exited"

(***************************************************************************)
(* tpool_destroy(pool, 1) keeps its promise: when it has stopped the pool, *)
(* nothing is left in the queue, and when it returns, every accepted work  *)
(* item has been executed and its node has been freed.                     *)
(***************************************************************************)
FinishDrains ==
  \A d \in Destroyers : finish[d] =>
    /\ destroy_pc[d] \in ShuttingDown => queue = <<>>
    /\ destroy_pc[d] = "done" =>
         \A c \in Calls : call_pc[c] = "ok" => c \in done /\ heap[c] = "freed"

(***************************************************************************)
(* The pool implements the bounded FIFO queue of WorkQueue.                *)
(***************************************************************************)
running == {my_workp[w] : w \in {v \in Workers : worker_pc[v] = "run"}}
refused == {c \in Calls : call_pc[c] = "refused"}
phase == IF shutdown THEN "stopped" ELSE IF queue_closed THEN "draining" ELSE "open"

WQ == INSTANCE WorkQueue WITH
        Items <- Calls,
        Capacity <- max_queue_size,
        RefusesFull <- do_not_block_when_full

ImplementsWorkQueue == WQ!Spec

(* Accepted work is executed, unless a tpool_destroy stops the pool. *)
AcceptedWorkRuns ==
  \A c \in Calls : call_pc[c] = "ok" ~> (c \in done \/ shutdown)

(* A caller blocked on a full queue, and any other, returns. *)
CallsReturn ==
  \A c \in Calls :
    call_pc[c] = "call" ~> call_pc[c] \in {"ok", "refused", "undefined"}

(* A tpool_destroy that closed the pool gets all workers to exit; with     *)
(* finish set it returns.                                                  *)
DestroyEnds ==
  \A d \in Destroyers :
    /\ destroy_pc[d] \in Closing ~> destroy_pc[d] \in {"done", "undefined"}
    /\ (destroy_pc[d] \in Closing /\ finish[d]) ~> destroy_pc[d] = "done"

-----------------------------------------------------------------------------
(* What comments of tpool.c say and its code does not do. *)

(***************************************************************************)
(* A caller that was blocked on the full queue when the pool is destroyed  *)
(* finds "the pool is in the process of being destroyed" and leaves with   *)
(* -1: when tpool_destroy frees the pool, none is still on its way out.    *)
(***************************************************************************)
BlockedCallersLeave ==
  pool_freed => \A c \in Calls : call_pc[c] \notin {"wait", "woken"}

(***************************************************************************)
(* "Now free pool structures": the loop follows pointers of allocated      *)
(* nodes only, and when tpool_destroy returns, no work node is allocated.  *)
(***************************************************************************)
PoolStructuresFreed ==
  \A d \in Destroyers :
    /\ destroy_pc[d] = "free" /\ queue_head # NULL => heap[queue_head] = "live"
    /\ destroy_pc[d] = "done" => \A c \in Calls : heap[c] # "live"
=============================================================================
