-------------------------- MODULE HmsServerProofs --------------------------
(***************************************************************************)
(* Theorems about HmsServer, for any number of workers, connections and    *)
(* calls of hermes_shutdown.  The invariant of the pool is a part of the   *)
(* server's: the server takes no step on the pool that TPool does not.     *)
(***************************************************************************)
EXTENDS HmsServer, TPoolProofs

(* A connection's way from accept through the pool to its handler.         *)
ConnWay(k) ==
  /\ call_pc[k] \in {"idle", "call", "ok", "refused"}
  /\ call_pc[k] = "call" <=> listen_pc = "add" /\ new_fd = k
  /\ endpoint[k] = IF call_pc[k] = "idle" THEN "none"
                   ELSE IF handler_pc[k] = "returned" THEN "freed" ELSE "live"
  /\ handler_pc[k] # "recv" => k \in done \/ \E w \in Workers : Holds(w, k)
  /\ k \in done => handler_pc[k] = "returned"
  /\ conn[k] = "closed" <=> handler_pc[k] = "returned"
  /\ call_pc[k] # "idle" => conn[k] \in {"open", "closed"} /\ call_pc[LISTEN] = "ok"
  /\ conn[k] = "open" /\ call_pc[k] = "idle" =>
       new_fd = k /\ listen_pc \in {"accepted", "returned"}

ConnWays == \A k \in Conns : ConnWay(k)

(* How far the listener is, and what it has set up by then. *)
ListenWay ==
  /\ listen_pc \in {"accepted", "add"} => new_fd \in Conns
  /\ listen_pc = "accepted" => conn[new_fd] = "open" /\ call_pc[new_fd] = "idle"
  /\ listen_pc # "setup" => server_socket # "unset"
  /\ LISTEN \in done => listen_pc = "returned"

(* Calls of hermes_shutdown come one at a time, after hermes_init, and the *)
(* first of them is the only one that ever returns.                        *)
ShutdownWay ==
  /\ \A d \in Destroyers :
       /\ shutdown_pc[d] = "idle" <=> destroy_pc[d] = "idle"
       /\ shutdown_pc[d] = "destroy" <=> manager_lock = d
       /\ shutdown_pc[d] = "returned" => destroy_pc[d] = "done" /\ ~aborted
       /\ shutdown_pc[d] = "returned" /\ finish[d] => server_socket = "closed"
       /\ destroy_pc[d] # "idle" => call_pc[LISTEN] = "ok"
       /\ destroy_pc[d] # "returned"
       /\ destroy_pc[d] = "done" => pool_freed
  /\ queue_closed => \E d \in Destroyers : destroy_pc[d] \in Closing \cup {"undefined"}

(* The assertion on tpool_add_work stops the process at the first refusal, *)
(* of the listener or of a connection.  Nothing stops it before the        *)
(* listener has been given to the pool.                                    *)
RefusalAborts ==
  /\ \A c \in Calls : call_pc[c] = "refused" => aborted
  /\ aborted => call_pc[LISTEN] \in {"ok", "refused"}

(* The inductive invariant. *)
HmsInv ==
  /\ Inv
  /\ HmsTypeOK
  /\ ConnWays
  /\ ListenWay
  /\ ShutdownWay
  /\ RefusalAborts

-----------------------------------------------------------------------------
(* The pool of a server refuses work instead of making its callers wait. *)
LEMMA NobodyWaits ==
  ASSUME Inv, NEW c \in Calls
  PROVE  call_pc[c] \notin {"wait", "woken"}
BY PoolAssumption DEF PoolAssumption, Inv, WaitersBlock

(* The initial state satisfies the invariant. *)
LEMMA HmsInitInv == HmsInit => HmsInv
<1> SUFFICES ASSUME HmsInit PROVE HmsInv
  OBVIOUS
<1> USE DEF HmsInit
<1>1. Inv
  BY InitInv
<1>2. HmsTypeOK
  BY Zenon DEF HmsTypeOK
<1>3. ConnWays
  BY ListenAssumption DEF ListenAssumption, ConnWays, ConnWay, Init, Conns
<1>4. ListenWay
  BY DEF ListenWay, Init
<1>5. ShutdownWay
  BY LockAssumption DEF LockAssumption, ShutdownWay, Init
<1>6. RefusalAborts
  BY DEF RefusalAborts, Init
<1> QED
  BY <1>1, <1>2, <1>3, <1>4, <1>5, <1>6 DEF HmsInv

(* What a step of the pool leaves alone as far as connections, listener    *)
(* and assertion can see: no call returns and no node leaves its worker.   *)
LEMMA PoolQuiet ==
  ASSUME HmsInv, UNCHANGED <<hmsVars, call_pc, done>>,
         \A w \in Workers, c \in Calls : Holds(w, c) => Holds(w, c)'
  PROVE  HmsTypeOK' /\ ConnWays' /\ ListenWay' /\ RefusalAborts'
<1> USE DEF HmsInv, hmsVars, managerVars, listenVars, connVars
<1>1. HmsTypeOK'
  BY DEF HmsTypeOK
<1>2. ConnWays'
  BY DEF ConnWays, ConnWay, Conns
<1>3. ListenWay' /\ RefusalAborts'
  BY DEF ListenWay, RefusalAborts
<1> QED
  BY <1>1, <1>2, <1>3

(* A step of the pool that is not one of its destroyers'. *)
LEMMA DestroyersQuiet ==
  ASSUME HmsInv, UNCHANGED <<managerVars, finish, flags>>,
         \A d \in Destroyers :
           \/ destroy_pc'[d] = destroy_pc[d]
           \/ destroy_pc[d] = "drain" /\ destroy_pc'[d] = "drain_woken",
         aborted' => aborted \/ \A d \in Destroyers : shutdown_pc[d] # "returned",
         server_socket' = server_socket \/ \A d \in Destroyers : shutdown_pc[d] # "returned",
         call_pc[LISTEN] = "ok" => call_pc'[LISTEN] = "ok"
  PROVE  ShutdownWay'
<1> USE DEF HmsInv, managerVars, flags
<1>1. \A d \in Destroyers : destroy_pc[d] \in Closing \cup {"undefined"} =>
                            destroy_pc'[d] \in Closing \cup {"undefined"}
  BY DEF Closing
<1> QED
  BY <1>1 DEF ShutdownWay

(* While a routine runs, no hermes_shutdown has returned. *)
LEMMA RunsBeforeReturn ==
  ASSUME HmsInv, NEW c \in Calls, Runs(c), NEW d \in Destroyers
  PROVE  shutdown_pc[d] # "returned"
<1>1. PICK w \in Workers : worker_pc[w] = "run"
  BY DEF Runs, Holds
<1>2. ~Freeing
  BY <1>1 DEF HmsInv, Inv, OneDestroyer
<1> QED
  BY <1>2 DEF HmsInv, ShutdownWay, Freeing

-----------------------------------------------------------------------------
(* hermes_init *)

(* The call of tpool_add_work for the listener begins. *)
LEMMA HermesInitInv ==
  ASSUME HmsInv, HermesInit
  PROVE  HmsInv'
<1> USE ListenAssumption
    DEF ListenAssumption, HmsInv, HermesInit, hmsVars, managerVars, listenVars, connVars
<1>1. /\ call_pc[LISTEN] = "idle"
      /\ call_pc' = [call_pc EXCEPT ![LISTEN] = "call"]
      /\ UNCHANGED <<worker_pc, my_workp, destroy_pc, finish, flags, done>>
  BY DEF StartCall, workers, destroyers
<1>2. Inv'
  BY NextInv DEF Next
<1>3. HmsTypeOK'
  BY DEF HmsTypeOK
<1>4. ConnWays'
  BY <1>1 DEF ConnWays, ConnWay, Conns, Holds, Inv, TypeOK
<1>5. ListenWay'
  BY <1>1 DEF ListenWay, Conns, Inv, TypeOK
<1>6. ShutdownWay'
  BY <1>1, DestroyersQuiet DEF Inv, TypeOK
<1>7. RefusalAborts'
  BY <1>1 DEF RefusalAborts, Inv, TypeOK
<1> QED
  BY <1>2, <1>3, <1>4, <1>5, <1>6, <1>7

(* What tpool_add_work and the assertion on its result come to, as long as *)
(* the pool has not been freed.                                            *)
LEMMA AddWorkOutcome ==
  ASSUME HmsInv, NEW c \in Calls, AddWorkAsserted(c), ~pool_freed
  PROVE  /\ call_pc[c] = "call"
         /\ \/ call_pc' = [call_pc EXCEPT ![c] = "ok"] /\ ~aborted'
            \/ call_pc' = [call_pc EXCEPT ![c] = "refused"] /\ aborted'
         /\ aborted' \in BOOLEAN
         /\ UNCHANGED <<destroyers, flags, done>>
         /\ \A w \in Workers, b \in Calls : Holds(w, b) <=> Holds(w, b)'
<1> USE DEF HmsInv, workers, list
<1>0. aborted' \in BOOLEAN
  BY DEF AddWorkAsserted
<1>1. call_pc[c] \notin {"wait", "woken"}
  BY NobodyWaits
<1>2. call_pc \in [Calls -> CallStates] /\ worker_pc \in [Workers -> WorkerStates]
  BY DEF Inv, TypeOK
<1>3. CASE AddWait(c)
  BY <1>1, <1>3, PoolAssumption DEF PoolAssumption, AddWait, AtLoop, refuses_full
<1>4. CASE AddRefuse(c)
  BY <1>1, <1>2, <1>4 DEF AddRefuse, AtLoop, refuses_full, AddWorkAsserted, Holds
<1>5. CASE AddEnqueue(c)
  <2>1. /\ call_pc[c] = "call"
        /\ call_pc' = [call_pc EXCEPT ![c] = "ok"]
        /\ UNCHANGED <<my_workp, destroyers, flags, done>>
    BY <1>1, <1>5 DEF AddEnqueue, AtLoop
  <2>2. \A w \in Workers : worker_pc[w] = "run" <=> worker_pc'[w] = "run"
    BY <1>2, <1>5 DEF AddEnqueue, LinkAtTail, wake_queue_not_empty
  <2> QED
    BY <1>2, <2>1, <2>2 DEF AddWorkAsserted, Holds
<1>6. CASE AddUseAfterFree(c)
  BY <1>6 DEF AddUseAfterFree
<1> QED
  BY <1>0, <1>3, <1>4, <1>5, <1>6 DEF AddWorkAsserted, CallStep

(* The pool takes the listener, or refuses it and the process ends. *)
LEMMA HermesInitAddInv ==
  ASSUME HmsInv, HermesInitAdd
  PROVE  HmsInv'
<1> USE ListenAssumption
    DEF ListenAssumption, HmsInv, HermesInitAdd, managerVars, listenVars, connVars
<1>0. call_pc[LISTEN] # "ok"
  BY NobodyWaits DEF AddWorkAsserted, CallStep, AddWait, AddRefuse, AddEnqueue, AddUseAfterFree,
     AtLoop, refuses_full
<1>1. /\ ~pool_freed
      /\ \A d \in Destroyers : destroy_pc[d] = "idle" /\ shutdown_pc[d] = "idle"
  BY <1>0 DEF ShutdownWay, Inv, OneDestroyer, Freeing
<1>2. /\ call_pc[LISTEN] = "call"
      /\ \/ call_pc' = [call_pc EXCEPT ![LISTEN] = "ok"] /\ ~aborted'
         \/ call_pc' = [call_pc EXCEPT ![LISTEN] = "refused"] /\ aborted'
      /\ aborted' \in BOOLEAN
      /\ UNCHANGED <<destroyers, flags, done>>
      /\ \A w \in Workers, b \in Calls : Holds(w, b) <=> Holds(w, b)'
  BY <1>1, AddWorkOutcome
<1>3. Inv'
  BY NextInv DEF Next, AddWorkAsserted
<1>4. HmsTypeOK'
  BY <1>2 DEF HmsTypeOK
<1>5. ConnWays'
  BY <1>2 DEF ConnWays, ConnWay, Conns, Inv, TypeOK
<1>6. ListenWay'
  BY <1>2 DEF ListenWay, Conns, Inv, TypeOK
<1>7. ShutdownWay'
  BY <1>1, <1>2, DestroyersQuiet DEF Inv, TypeOK, destroyers
<1>8. RefusalAborts'
  BY <1>2 DEF RefusalAborts, Inv, TypeOK
<1> QED
  BY <1>3, <1>4, <1>5, <1>6, <1>7, <1>8

-----------------------------------------------------------------------------
(* hermes_shutdown *)

(* hermes_shutdown sets the flag and enters tpool_destroy. *)
LEMMA ShutdownLockInv ==
  ASSUME HmsInv, NEW d \in Destroyers, NEW force \in BOOLEAN, ShutdownLock(d, force)
  PROVE  HmsInv'
<1> USE ListenAssumption, LockAssumption
    DEF ListenAssumption, LockAssumption, HmsInv, listenVars, connVars
<1>1. /\ UNCHANGED <<call_pc, worker_pc, my_workp, flags, done, listenVars, connVars, aborted>>
      /\ destroy_pc' = [destroy_pc EXCEPT ![d] = "call"]
      /\ finish' = [finish EXCEPT ![d] = force]
      /\ shutdown_pc' = [shutdown_pc EXCEPT ![d] = "destroy"]
      /\ manager_lock' = d /\ manager_lock = NULL /\ manager_shutdown' = TRUE
      /\ destroy_pc[d] = "idle" /\ shutdown_pc[d] = "idle" /\ call_pc[LISTEN] = "ok"
  BY DEF ShutdownLock, EnterDestroy, workers
<1>2. Inv'
  BY EnterDestroyInv DEF ShutdownLock
<1>3. HmsTypeOK'
  BY <1>1 DEF HmsTypeOK
<1>4. ConnWays'
  BY <1>1 DEF ConnWays, ConnWay, Conns, Holds
<1>5. ListenWay' /\ RefusalAborts'
  BY <1>1 DEF ListenWay, RefusalAborts
<1>6. ShutdownWay'
  <2>1. \A e \in Destroyers : shutdown_pc[e] # "destroy"
    BY <1>1 DEF ShutdownWay
  <2>2. \A e \in Destroyers : e # d =>
          /\ destroy_pc'[e] = destroy_pc[e] /\ finish'[e] = finish[e]
          /\ shutdown_pc'[e] = shutdown_pc[e]
    BY <1>1 DEF Inv, TypeOK, HmsTypeOK
  <2>3. destroy_pc'[d] = "call" /\ shutdown_pc'[d] = "destroy"
    BY <1>1 DEF Inv, TypeOK, HmsTypeOK
  <2>4. destroy_pc[d] \notin Closing \cup {"undefined"}
    BY <1>1 DEF Closing, ShuttingDown
  <2>5. queue_closed' => \E e \in Destroyers : destroy_pc'[e] \in Closing' \cup {"undefined"}
    BY <1>1, <2>2, <2>4 DEF ShutdownWay, flags, Closing, ShuttingDown
  <2> QED
    BY <1>1, <2>1, <2>2, <2>3, <2>5 DEF ShutdownWay, flags
<1> QED
  BY <1>2, <1>3, <1>4, <1>5, <1>6

(* tpool_destroy under a call of hermes_shutdown. *)
LEMMA ShutdownDestroyInv ==
  ASSUME HmsInv, NEW d \in Destroyers, ShutdownDestroy(d)
  PROVE  HmsInv'
<1> USE DEF HmsInv
<1>0. /\ DestroyStep(d) /\ ~aborted /\ UNCHANGED hmsVars
      /\ call_pc \in [Calls -> CallStates] /\ worker_pc \in [Workers -> WorkerStates]
      /\ destroy_pc \in [Destroyers -> DestroyStates]
  BY DEF ShutdownDestroy, Inv, TypeOK
<1>1. Inv'
  BY <1>0, NextInv DEF Next
<1>2. /\ UNCHANGED <<call_pc, my_workp, finish, done>>
      /\ \A w \in Workers : worker_pc[w] = "run" <=> worker_pc'[w] = "run"
  <2>1. wake_queue_not_full = call_pc
    BY <1>0, NobodyWaits DEF wake_queue_not_full
  <2>2. CASE BroadcastNotEmpty(d)
    BY <1>0, <2>2 DEF BroadcastNotEmpty, wake_queue_not_empty
  <2>3. CASE BroadcastNotFull(d)
    BY <2>1, <2>3 DEF BroadcastNotFull, workers
  <2>4. CASE DestroyReturn(d) \/ DestroyClose(d) \/ DestroyRecheck(d) \/ Join(d)
    BY <2>4 DEF DestroyReturn, DestroyClose, DestroyRecheck, Join, workers
  <2>5. CASE FreeNode(d) \/ FreePool(d) \/ DestroyUseAfterFree(d)
    BY <2>5 DEF FreeNode, FreePool, DestroyUseAfterFree, workers
  <2> QED
    BY <1>0, <2>2, <2>3, <2>4, <2>5 DEF DestroyStep
<1>3. HmsTypeOK' /\ ConnWays' /\ ListenWay' /\ RefusalAborts'
  BY <1>0, <1>2, PoolQuiet DEF Holds
<1>4. destroy_pc[d] \notin {"idle", "done", "undefined", "returned"}
  BY <1>0 DEF DestroyStep, DestroyReturn, DestroyClose, DestroyRecheck, BroadcastNotEmpty,
     BroadcastNotFull, Join, FreeNode, FreePool, DestroyUseAfterFree
<1>5. shutdown_pc[d] = "destroy" /\ manager_lock = d
  BY <1>4 DEF ShutdownWay, HmsTypeOK
<1>6. ~DestroyReturn(d)
  <2> SUFFICES ASSUME ~pool_freed, queue_closed, destroy_pc[d] = "call" PROVE FALSE
    BY DEF DestroyReturn, closed, Inv, OneDestroyer
  <2>1. PICK e \in Destroyers : destroy_pc[e] \in Closing \cup {"undefined"}
    BY DEF ShutdownWay
  <2>2. e # d
    BY <2>1 DEF Closing, ShuttingDown
  <2>3. shutdown_pc[e] # "destroy" /\ shutdown_pc[e] # "idle"
    BY <1>5, <2>1, <2>2 DEF ShutdownWay, Closing, ShuttingDown
  <2> QED
    BY <2>3 DEF ShutdownWay, HmsTypeOK
<1>7. \E p \in DestroyStates :
        /\ destroy_pc' = [destroy_pc EXCEPT ![d] = p]
        /\ p \notin {"idle", "returned"}
        /\ p = "done" => pool_freed'
        /\ pool_freed => pool_freed'
        /\ queue_closed' => p \in Closing \cup {"undefined"} \/ (queue_closed /\ p = destroy_pc[d])
  <2> USE DEF Closing, ShuttingDown, flags, DestroyStates
  <2>1. CASE DestroyClose(d) \/ DestroyRecheck(d)
    BY <2>1 DEF DestroyClose, DestroyRecheck, DrainOrShutdown
  <2>2. CASE BroadcastNotEmpty(d) \/ BroadcastNotFull(d) \/ Join(d)
    BY <2>2 DEF BroadcastNotEmpty, BroadcastNotFull, Join
  <2>3. CASE FreeNode(d)
    <3>1. destroy_pc' \in {destroy_pc, [destroy_pc EXCEPT ![d] = "undefined"]}
      BY <2>3 DEF FreeNode
    <3>2. destroy_pc = [destroy_pc EXCEPT ![d] = "free"] /\ UNCHANGED <<queue_closed, pool_freed>>
      BY <1>0, <2>3 DEF FreeNode
    <3> QED
      BY <3>1, <3>2
  <2>4. CASE FreePool(d) \/ DestroyUseAfterFree(d)
    BY <2>4 DEF FreePool, DestroyUseAfterFree
  <2> QED
    BY <1>0, <1>6, <2>1, <2>2, <2>3, <2>4 DEF DestroyStep
<1>8. ShutdownWay'
  <2> USE DEF hmsVars, managerVars, listenVars
  <2>0. PICK p \in DestroyStates :
          /\ destroy_pc' = [destroy_pc EXCEPT ![d] = p]
          /\ p \notin {"idle", "returned"}
          /\ p = "done" => pool_freed'
          /\ pool_freed => pool_freed'
          /\ queue_closed' => p \in Closing \cup {"undefined"} \/ (queue_closed /\ p = destroy_pc[d])
    BY <1>7
  <2>1. \A e \in Destroyers : destroy_pc'[e] = IF e = d THEN p ELSE destroy_pc[e]
    BY <1>0, <2>0
  <2>2. ASSUME queue_closed'
        PROVE  \E e \in Destroyers : destroy_pc'[e] \in Closing \cup {"undefined"}
    <3>1. CASE p \in Closing \cup {"undefined"}
      BY <2>1, <3>1
    <3>2. CASE queue_closed /\ p = destroy_pc[d]
      <4>1. PICK e \in Destroyers : destroy_pc[e] \in Closing \cup {"undefined"}
        BY <3>2 DEF ShutdownWay
      <4> QED
        BY <2>1, <3>2, <4>1
    <3> QED
      BY <2>0, <2>2, <3>1, <3>2
  <2> QED
    BY <1>0, <1>2, <1>4, <1>5, <2>0, <2>1, <2>2 DEF ShutdownWay, Closing, ShuttingDown
<1> QED
  BY <1>1, <1>3, <1>8

(* When a forced hermes_shutdown is about to return, the listener has      *)
(* returned, and set server_socket before.                                 *)
LEMMA ForcedShutdownEnds ==
  ASSUME HmsInv, NEW d \in Destroyers, finish[d], destroy_pc[d] = "done"
  PROVE  listen_pc = "returned" /\ server_socket # "unset"
<1>1. LISTEN \in done
  BY ListenAssumption, InvFinish DEF ListenAssumption, HmsInv, ShutdownWay, FinishDrains
<1> QED
  BY <1>1 DEF HmsInv, ListenWay

(* hermes_shutdown returns, after it has closed the server's socket. *)
LEMMA ShutdownReturnInv ==
  ASSUME HmsInv, NEW d \in Destroyers, ShutdownReturn(d)
  PROVE  HmsInv'
<1> USE LockAssumption DEF LockAssumption, HmsInv, connVars
<1>1. /\ ~aborted /\ shutdown_pc[d] = "destroy" /\ destroy_pc[d] = "done"
      /\ server_socket' = IF server_socket = "unset" THEN "unset" ELSE "closed"
      /\ manager_lock' = NULL
      /\ shutdown_pc' = [shutdown_pc EXCEPT ![d] = "returned"]
      /\ UNCHANGED <<manager_shutdown, listen_pc, sleep_time, new_fd, connVars, aborted, vars>>
  BY DEF ShutdownReturn, ShutdownEnd, ShutdownWay
<1>2. Inv'
  BY <1>1, NextInv
<1>3. HmsTypeOK'
  BY <1>1 DEF HmsTypeOK
<1> USE DEF vars, workers, destroyers, flags
<1>4. ConnWays'
  BY <1>1 DEF ConnWays, ConnWay, Conns, Holds
<1>5. ListenWay' /\ RefusalAborts'
  BY <1>1 DEF ListenWay, RefusalAborts
<1>6. ShutdownWay'
  <2>1. manager_lock = d
    BY <1>1 DEF ShutdownWay
  <2>2. \A e \in Destroyers : e # d => shutdown_pc[e] # "destroy" /\ shutdown_pc'[e] = shutdown_pc[e]
    BY <1>1, <2>1 DEF ShutdownWay, HmsTypeOK
  <2>3. finish[d] => server_socket' = "closed"
    BY <1>1, ForcedShutdownEnds
  <2>4. shutdown_pc'[d] = "returned"
    BY <1>1 DEF HmsTypeOK
  <2>5. queue_closed' => \E e \in Destroyers : destroy_pc'[e] \in Closing' \cup {"undefined"}
    BY <1>1 DEF ShutdownWay, Closing, ShuttingDown
  <2>6. \A e \in Destroyers : shutdown_pc[e] = "returned" /\ finish[e] => server_socket' = "closed"
    BY <1>1 DEF ShutdownWay
  <2> QED
    BY <1>1, <2>2, <2>3, <2>4, <2>5, <2>6 DEF ShutdownWay
<1> QED
  BY <1>2, <1>3, <1>4, <1>5, <1>6

-----------------------------------------------------------------------------
(* A step of listener, handler or client that does not touch the pool. *)
LEMMA PoolUntouched ==
  ASSUME HmsInv, UNCHANGED <<vars, managerVars>>,
         server_socket' = server_socket \/ \A d \in Destroyers : shutdown_pc[d] # "returned"
  PROVE  /\ Inv' /\ (UNCHANGED aborted => ShutdownWay' /\ RefusalAborts')
         /\ UNCHANGED <<call_pc, worker_pc, my_workp, done>>
         /\ \A w \in Workers, c \in Calls : Holds(w, c) <=> Holds(w, c)'
<1>1. Inv'
  BY NextInv DEF HmsInv
<1> USE DEF vars, workers, destroyers
<1>2. UNCHANGED aborted => ShutdownWay'
  BY DestroyersQuiet
<1> QED
  BY <1>1, <1>2 DEF HmsInv, RefusalAborts, Holds

(* _hms_listen, but for the step that gives a connection to the pool. *)
LEMMA ListenStepInv ==
  ASSUME HmsInv,
         \/ ListenRetry \/ ListenReady \/ AcceptFails \/ ListenShutdown
         \/ \E k \in Conns : Accept(k)
  PROVE  HmsInv'
<1> USE ListenAssumption DEF ListenAssumption, HmsInv, connVars
<1>1. /\ Runs(LISTEN)
      /\ UNCHANGED <<vars, managerVars, peer_gone, endpoint, handler_pc, aborted>>
  BY DEF ListenRetry, ListenReady, AcceptFails, ListenShutdown, Accept
<1>2. \A d \in Destroyers : shutdown_pc[d] # "returned"
  BY <1>1, RunsBeforeReturn
<1>3. /\ Inv' /\ ShutdownWay' /\ RefusalAborts'
      /\ UNCHANGED <<call_pc, worker_pc, my_workp, done>>
      /\ \A w \in Workers, c \in Calls : Holds(w, c) <=> Holds(w, c)'
  BY <1>1, <1>2, PoolUntouched
<1>4. LISTEN \notin done
  BY <1>1 DEF Runs, Inv, NodeOwnership
<1>5. next_sleep_time \in {0, 2, 4}
  BY DEF next_sleep_time, HmsTypeOK
<1>6. CASE ListenRetry \/ ListenReady
  <2>1. /\ UNCHANGED <<new_fd, conn>>
        /\ listen_pc = "setup"
        /\ listen_pc' \in {"setup", "accept"}
        /\ sleep_time' \in {0, 2, 4}
        /\ server_socket' \in {server_socket, "bound", "listening"}
        /\ listen_pc' # "setup" => server_socket' # "unset"
    BY <1>5, <1>6 DEF ListenRetry, ListenReady
  <2>2. HmsTypeOK'
    BY <1>1, <2>1 DEF HmsTypeOK, managerVars
  <2>3. ConnWays'
    BY <1>1, <1>3, <2>1 DEF ConnWays, ConnWay, Conns
  <2>4. ListenWay'
    BY <1>3, <1>4, <2>1 DEF ListenWay
  <2> QED
    BY <1>3, <2>2, <2>3, <2>4
<1>7. CASE AcceptFails \/ ListenShutdown
  <2>1. /\ UNCHANGED <<server_socket, sleep_time, new_fd, conn>>
        /\ listen_pc \in {"accept", "accepted"}
        /\ listen_pc' = "returned"
    BY <1>7 DEF AcceptFails, ListenShutdown
  <2>2. HmsTypeOK'
    BY <1>1, <2>1 DEF HmsTypeOK, managerVars
  <2>3. ConnWays'
    BY <1>1, <1>3, <2>1 DEF ConnWays, ConnWay, Conns
  <2>4. ListenWay'
    BY <1>3, <1>4, <2>1 DEF ListenWay
  <2> QED
    BY <1>3, <2>2, <2>3, <2>4
<1>8. ASSUME NEW k \in Conns, Accept(k) PROVE HmsInv'
  <2>1. /\ UNCHANGED <<server_socket, sleep_time>>
        /\ conn[k] = "backlog"
        /\ conn' = [conn EXCEPT ![k] = "open"]
        /\ new_fd' = k
        /\ listen_pc = "accept" /\ listen_pc' = "accepted"
    BY <1>8 DEF Accept
  <2>2. HmsTypeOK'
    BY <1>1, <2>1 DEF HmsTypeOK, managerVars
  <2>3. call_pc[k] = "idle" /\ handler_pc[k] # "returned"
    BY <2>1 DEF ConnWays, ConnWay
  <2>4. \A j \in Conns : conn'[j] = IF j = k THEN "open" ELSE conn[j]
    BY <2>1 DEF HmsTypeOK
  <2>5. ConnWays'
    BY <1>1, <1>3, <2>1, <2>3, <2>4 DEF ConnWays, ConnWay, Conns
  <2>6. ListenWay'
    BY <1>3, <1>4, <2>1, <2>3, <2>4 DEF ListenWay
  <2> QED
    BY <1>3, <2>2, <2>5, <2>6
<1> QED
  BY <1>6, <1>7, <1>8

(* An endpoint is allocated and the call of tpool_add_work begins. *)
LEMMA ListenSpawnInv ==
  ASSUME HmsInv, ListenSpawn
  PROVE  HmsInv'
<1> USE ListenAssumption DEF ListenAssumption, HmsInv, managerVars
<1>1. /\ Runs(LISTEN) /\ listen_pc = "accepted" /\ listen_pc' = "add"
      /\ endpoint' = [endpoint EXCEPT ![new_fd] = "live"]
      /\ UNCHANGED <<managerVars, server_socket, sleep_time, new_fd, conn, peer_gone,
                     handler_pc, aborted>>
      /\ call_pc' = [call_pc EXCEPT ![new_fd] = "call"]
      /\ UNCHANGED <<worker_pc, my_workp, destroy_pc, finish, flags, done>>
      /\ StartCall(new_fd)
  BY DEF ListenSpawn, StartCall, workers, destroyers
<1>2. new_fd \in Conns /\ new_fd \in Calls /\ new_fd # LISTEN
  BY <1>1 DEF ListenWay, Conns
<1>3. conn[new_fd] = "open" /\ call_pc[new_fd] = "idle"
  BY <1>1 DEF ListenWay
<1>4. /\ \A c \in Calls : call_pc'[c] = IF c = new_fd THEN "call" ELSE call_pc[c]
      /\ \A k \in Conns : endpoint'[k] = IF k = new_fd THEN "live" ELSE endpoint[k]
  BY <1>1, <1>2 DEF Inv, TypeOK, HmsTypeOK
<1>a. call_pc[LISTEN] = "ok"
  BY <1>1 DEF Runs, Inv, NodeOwnership
<1>5. Inv'
  BY <1>1, <1>2, NextInv DEF Next
<1>6. HmsTypeOK'
  BY <1>1 DEF HmsTypeOK
<1>7. ConnWays'
  BY <1>1, <1>2, <1>3, <1>4, <1>a DEF ConnWays, ConnWay, Conns, Holds
<1>8. ListenWay'
  BY <1>1, <1>2 DEF ListenWay
<1>9. ShutdownWay'
  BY <1>1, <1>2, <1>4, DestroyersQuiet
<1>10. RefusalAborts'
  BY <1>1, <1>2, <1>4 DEF RefusalAborts
<1> QED
  BY <1>5, <1>6, <1>7, <1>8, <1>9, <1>10

(* The listener hands a connection to the pool, which may refuse it. *)
LEMMA ListenAddInv ==
  ASSUME HmsInv, ListenAdd
  PROVE  HmsInv'
<1> USE ListenAssumption DEF ListenAssumption, HmsInv, managerVars, listenVars, connVars
<1>1. /\ Runs(LISTEN) /\ listen_pc = "add" /\ listen_pc' = "accept"
      /\ AddWorkAsserted(new_fd)
      /\ UNCHANGED <<managerVars, server_socket, sleep_time, new_fd, connVars>>
  BY DEF ListenAdd
<1>2. new_fd \in Conns /\ new_fd \in Calls /\ new_fd # LISTEN
  BY <1>1 DEF ListenWay, Conns
<1>3. /\ ~pool_freed /\ \A d \in Destroyers : shutdown_pc[d] # "returned"
      /\ call_pc[LISTEN] = "ok"
  <2>1. PICK w \in Workers : Holds(w, LISTEN)
    BY <1>1 DEF Runs
  <2> QED
    BY <1>1, <2>1, RunsBeforeReturn DEF Holds, Inv, OneDestroyer, NodeOwnership
<1>4. /\ call_pc[new_fd] = "call"
      /\ \/ call_pc' = [call_pc EXCEPT ![new_fd] = "ok"] /\ ~aborted'
         \/ call_pc' = [call_pc EXCEPT ![new_fd] = "refused"] /\ aborted'
      /\ aborted' \in BOOLEAN
      /\ UNCHANGED <<destroyers, flags, done>>
      /\ \A w \in Workers, b \in Calls : Holds(w, b) <=> Holds(w, b)'
  BY <1>1, <1>2, <1>3, AddWorkOutcome
<1>5. /\ \A c \in Calls : c # new_fd => call_pc'[c] = call_pc[c]
      /\ call_pc'[new_fd] \in {"ok", "refused"}
      /\ call_pc'[new_fd] = "refused" => aborted'
  BY <1>2, <1>4 DEF Inv, TypeOK
<1>6. Inv'
  BY <1>1, <1>2, NextInv DEF Next, AddWorkAsserted
<1>7. HmsTypeOK'
  BY <1>1, <1>4 DEF HmsTypeOK
<1>8. ConnWays'
  BY <1>1, <1>2, <1>4, <1>5 DEF ConnWays, ConnWay, Conns
<1>9. ListenWay'
  BY <1>1, <1>4 DEF ListenWay
<1>10. ShutdownWay'
  BY <1>1, <1>2, <1>3, <1>4, <1>5, DestroyersQuiet DEF destroyers
<1>11. RefusalAborts'
  <2>1. ~aborted
    BY <1>1 DEF Runs
  <2> QED
    BY <1>2, <1>3, <1>5, <2>1 DEF RefusalAborts
<1> QED
  BY <1>6, <1>7, <1>8, <1>9, <1>10, <1>11

-----------------------------------------------------------------------------
(* _hms_handle_endpoint: one handler, run by the worker that holds the     *)
(* connection's node, moves its connection on.                             *)
LEMMA HandlerInv ==
  ASSUME HmsInv, NEW k \in Conns, Handler(k)
  PROVE  HmsInv'
<1> USE DEF HmsInv, listenVars
<1>1. /\ Runs(k) /\ handler_pc[k] # "returned"
      /\ UNCHANGED <<vars, managerVars, listenVars, peer_gone>>
      /\ UNCHANGED aborted \/ RecvAborts(k)
  BY DEF Handler, RecvMsg, RecvFails, RecvAborts, Dispatch, EndpointDestroy, connVars
<1>2. k \in Calls
  BY DEF Conns
<1>3. /\ Inv' /\ (UNCHANGED aborted => ShutdownWay' /\ RefusalAborts')
      /\ UNCHANGED <<call_pc, worker_pc, my_workp, done>>
      /\ \A w \in Workers, c \in Calls : Holds(w, c) <=> Holds(w, c)'
  BY <1>1, PoolUntouched
<1>4. /\ \E w \in Workers : Holds(w, k)
      /\ k \notin done
      /\ call_pc[k] = "ok"
  BY <1>1, <1>2 DEF Runs, Inv, NodeOwnership
<1>5. endpoint[k] = "live" /\ conn[k] = "open"
  BY <1>1, <1>4 DEF ConnWays, ConnWay
<1>6. CASE RecvAborts(k)
  <2>1. aborted' = TRUE /\ UNCHANGED <<vars, managerVars, listenVars, connVars>>
    BY <1>6 DEF RecvAborts
  <2>2. HmsTypeOK'
    BY <2>1 DEF HmsTypeOK, managerVars, connVars
  <2>3. ConnWays' /\ ListenWay'
    BY <1>3, <2>1 DEF ConnWays, ConnWay, ListenWay, Conns, connVars
  <2>4. ShutdownWay'
    <3>1. \A d \in Destroyers : shutdown_pc[d] # "returned"
      BY <1>1, <1>2, RunsBeforeReturn
    <3> QED
      BY <2>1, <3>1, DestroyersQuiet DEF vars, destroyers
  <2>5. RefusalAborts'
    BY <1>4, <1>5, <2>1 DEF RefusalAborts, ConnWays, ConnWay, vars
  <2> QED
    BY <1>3, <2>2, <2>3, <2>4, <2>5
<1>7. CASE RecvMsg(k) \/ RecvFails(k) \/ Dispatch(k)
  <2>0. ShutdownWay' /\ RefusalAborts'
    BY <1>3, <1>7 DEF RecvMsg, RecvFails, Dispatch
  <2>1. PICK p \in {"recv", "dispatch", "close"} :
          handler_pc' = [handler_pc EXCEPT ![k] = p] /\ UNCHANGED <<conn, endpoint>>
    BY <1>7 DEF RecvMsg, RecvFails, Dispatch
  <2>2. HmsTypeOK'
    BY <1>7, <2>1 DEF HmsTypeOK, managerVars, RecvMsg, RecvFails, Dispatch
  <2>3. \A j \in Conns : handler_pc'[j] = IF j = k THEN p ELSE handler_pc[j]
    BY <2>1 DEF HmsTypeOK
  <2>4. ConnWays'
    BY <1>1, <1>3, <1>4, <1>5, <2>1, <2>3 DEF ConnWays, ConnWay, Conns
  <2>5. ListenWay'
    BY <1>1, <1>3, <2>1 DEF ListenWay
  <2> QED
    BY <1>3, <2>0, <2>2, <2>4, <2>5
<1>8. CASE EndpointDestroy(k)
  <2>0. ShutdownWay' /\ RefusalAborts'
    BY <1>3, <1>8 DEF EndpointDestroy
  <2>1. /\ handler_pc' = [handler_pc EXCEPT ![k] = "returned"]
        /\ conn' = [conn EXCEPT ![k] = "closed"]
        /\ endpoint' = [endpoint EXCEPT ![k] = "freed"]
    BY <1>8 DEF EndpointDestroy
  <2>2. HmsTypeOK'
    BY <1>8, <2>1 DEF HmsTypeOK, managerVars, EndpointDestroy
  <2>3. \A j \in Conns :
          /\ handler_pc'[j] = IF j = k THEN "returned" ELSE handler_pc[j]
          /\ conn'[j] = IF j = k THEN "closed" ELSE conn[j]
          /\ endpoint'[j] = IF j = k THEN "freed" ELSE endpoint[j]
    BY <2>1 DEF HmsTypeOK
  <2>4. ConnWays'
    BY <1>1, <1>3, <1>4, <1>5, <2>3 DEF ConnWays, ConnWay, Conns
  <2>5. ListenWay'
    BY <1>1, <1>3, <1>4, <2>3 DEF ListenWay
  <2> QED
    BY <1>3, <2>0, <2>2, <2>4, <2>5
<1> QED
  BY <1>6, <1>7, <1>8 DEF Handler

(* A client's connection enters the backlog, or its peer leaves. *)
LEMMA ClientInv ==
  ASSUME HmsInv, NEW k \in Conns, ClientConnects(k) \/ ClientLeaves(k)
  PROVE  HmsInv'
<1> USE DEF HmsInv, listenVars
<1>1. UNCHANGED <<vars, managerVars, listenVars, endpoint, handler_pc, aborted>>
  BY DEF ClientConnects, ClientLeaves
<1>2. /\ Inv' /\ ShutdownWay' /\ RefusalAborts'
      /\ UNCHANGED <<call_pc, worker_pc, my_workp, done>>
      /\ \A w \in Workers, c \in Calls : Holds(w, c) <=> Holds(w, c)'
  BY <1>1, PoolUntouched
<1>3. HmsTypeOK'
  BY <1>1 DEF HmsTypeOK, managerVars, ClientConnects, ClientLeaves
<1>4. CASE ClientConnects(k)
  <2>1. \A j \in Conns : conn'[j] = IF j = k THEN "backlog" ELSE conn[j]
    BY <1>4 DEF ClientConnects, HmsTypeOK
  <2>2. conn[k] = "none"
    BY <1>4 DEF ClientConnects
  <2>3. ConnWays'
    BY <1>1, <1>2, <2>1, <2>2 DEF ConnWays, ConnWay, Conns
  <2>4. ListenWay'
    BY <1>1, <1>2, <2>1, <2>2 DEF ListenWay
  <2> QED
    BY <1>2, <1>3, <2>3, <2>4
<1>5. CASE ClientLeaves(k)
  <2>1. UNCHANGED conn
    BY <1>5 DEF ClientLeaves
  <2>2. ConnWays'
    BY <1>1, <1>2, <2>1 DEF ConnWays, ConnWay, Conns
  <2>3. ListenWay'
    BY <1>1, <1>2, <2>1 DEF ListenWay
  <2> QED
    BY <1>2, <1>3, <2>2, <2>3
<1> QED
  BY <1>4, <1>5

(* A worker between routines, or woken for no reason: it may take a node,  *)
(* but gives none up.                                                      *)
LEMMA PoolBetweenInv ==
  ASSUME HmsInv, UNCHANGED hmsVars,
         \/ SpuriousWakeup
         \/ \E w \in Workers : WorkerSleep(w) \/ WorkerExit(w) \/ WorkerDequeue(w)
  PROVE  HmsInv'
<1> USE DEF HmsInv
<1>1. Inv'
  BY NextInv DEF Next, WorkerStep
<1>2. /\ call_pc \in [Calls -> CallStates] /\ worker_pc \in [Workers -> WorkerStates]
      /\ destroy_pc \in [Destroyers -> DestroyStates]
      /\ my_workp \in [Workers -> Pointers]
  BY DEF Inv, TypeOK
<1>3. UNCHANGED <<call_pc, finish, flags, done>>
  <2>1. CASE SpuriousWakeup
    BY <2>1, NobodyWaits DEF SpuriousWakeup, destroyers
  <2>2. CASE \E w \in Workers : WorkerSleep(w) \/ WorkerExit(w)
    BY <2>2 DEF WorkerSleep, WorkerExit, destroyers
  <2>3. CASE \E w \in Workers : WorkerDequeue(w)
    BY <2>3, PoolAssumption DEF PoolAssumption, WorkerDequeue, Dequeue, wakes_callers
  <2> QED
    BY <2>1, <2>2, <2>3
<1>4. \A v \in Workers : worker_pc[v] = "run" => worker_pc'[v] = "run" /\ my_workp'[v] = my_workp[v]
  <2>1. CASE SpuriousWakeup
    BY <1>2, <2>1 DEF SpuriousWakeup, workers
  <2>2. CASE \E w \in Workers : WorkerSleep(w) \/ WorkerExit(w)
    BY <1>2, <2>2 DEF WorkerSleep, WorkerExit
  <2>3. CASE \E w \in Workers : WorkerDequeue(w)
    BY <1>2, <2>3 DEF WorkerDequeue, Dequeue
  <2> QED
    BY <2>1, <2>2, <2>3
<1>5. \A d \in Destroyers :
        \/ destroy_pc'[d] = destroy_pc[d]
        \/ destroy_pc[d] = "drain" /\ destroy_pc'[d] = "drain_woken"
  <2>1. CASE SpuriousWakeup
    BY <1>2, <2>1 DEF SpuriousWakeup, destroyers
  <2>2. CASE \E w \in Workers : WorkerSleep(w) \/ WorkerExit(w)
    BY <2>2 DEF WorkerSleep, WorkerExit, destroyers
  <2>3. CASE \E w \in Workers : WorkerDequeue(w)
    BY <2>3 DEF WorkerDequeue, Dequeue, signal_queue_empty
  <2> QED
    BY <2>1, <2>2, <2>3
<1>6. HmsTypeOK' /\ ConnWays' /\ ListenWay' /\ RefusalAborts'
  BY <1>3, <1>4, PoolQuiet DEF Holds
<1>7. ShutdownWay'
  BY <1>3, <1>5, DestroyersQuiet DEF hmsVars, managerVars, listenVars
<1> QED
  BY <1>1, <1>6, <1>7

(* A worker gives its node up after the routine has returned. *)
LEMMA RoutineReturnInv ==
  ASSUME HmsInv, NEW w \in Workers, RoutineReturned(w), WorkerRunReturn(w), UNCHANGED hmsVars
  PROVE  HmsInv'
<1> USE DEF HmsInv, hmsVars, managerVars, listenVars, connVars
<1>1. Inv'
  BY NextInv DEF Next, WorkerStep
<1>2. /\ worker_pc \in [Workers -> WorkerStates] /\ my_workp \in [Workers -> Pointers]
      /\ worker_pc[w] = "run"
      /\ worker_pc' = [worker_pc EXCEPT ![w] = "check"]
      /\ my_workp' = [my_workp EXCEPT ![w] = NULL]
      /\ done' = done \cup {my_workp[w]}
      /\ UNCHANGED <<call_pc, destroyers, flags>>
  BY DEF Inv, TypeOK, WorkerRunReturn
<1>3. HmsTypeOK' /\ RefusalAborts'
  BY <1>2 DEF HmsTypeOK, RefusalAborts
<1>4. ShutdownWay'
  BY <1>2, DestroyersQuiet DEF destroyers
<1>5. \A v \in Workers, c \in Calls : Holds(v, c) /\ c # my_workp[w] => Holds(v, c)'
  BY <1>2 DEF Holds
<1>6. /\ my_workp[w] = LISTEN => listen_pc = "returned"
      /\ \A k \in Conns : my_workp[w] = k => handler_pc[k] = "returned"
  BY DEF RoutineReturned, Holds, Conns
<1>7. ConnWays'
  BY <1>2, <1>5, <1>6 DEF ConnWays, ConnWay, Conns
<1>8. ListenWay'
  BY <1>2, <1>6 DEF ListenWay
<1> QED
  BY <1>1, <1>3, <1>4, <1>7, <1>8

-----------------------------------------------------------------------------
(* Every step of the server preserves the invariant. *)
LEMMA HmsNextInv ==
  ASSUME HmsInv, [HmsNext]_allVars
  PROVE  HmsInv'
<1>1. CASE HermesInit \/ HermesInitAdd
  BY <1>1, HermesInitInv, HermesInitAddInv
<1>2. CASE \E d \in Destroyers :
             \/ \E force \in BOOLEAN : ShutdownLock(d, force)
             \/ ShutdownDestroy(d)
             \/ ShutdownReturn(d)
  BY <1>2, ShutdownLockInv, ShutdownDestroyInv, ShutdownReturnInv
<1>3. CASE Listener
  BY <1>3, ListenStepInv, ListenSpawnInv, ListenAddInv DEF Listener
<1>4. CASE \E k \in Conns : Handler(k) \/ ClientConnects(k) \/ ClientLeaves(k)
  BY <1>4, HandlerInv, ClientInv
<1>5. CASE PoolSpuriousWakeup \/ \E w \in Workers : PoolWorker(w)
  BY <1>5, PoolBetweenInv, RoutineReturnInv DEF PoolSpuriousWakeup, PoolWorker
<1>6. CASE UNCHANGED allVars
  <2>1. UNCHANGED <<vars, hmsVars>>
    BY <1>6 DEF allVars
  <2>2. Inv' /\ ShutdownWay' /\ RefusalAborts'
    BY <2>1, PoolUntouched DEF hmsVars, managerVars, listenVars
  <2>3. HmsTypeOK' /\ ConnWays' /\ ListenWay'
    BY <2>1, PoolQuiet DEF vars, workers, Holds
  <2> QED
    BY <2>2, <2>3 DEF HmsInv
<1> QED
  BY <1>1, <1>2, <1>3, <1>4, <1>5, <1>6 DEF HmsNext, ProcessEnded

(* The invariant holds in every state of the server. *)
THEOREM HmsInvariance == HmsSpec => []HmsInv
<1>1. HmsInit => HmsInv
  BY HmsInitInv
<1>2. HmsInv /\ [HmsNext]_allVars => HmsInv'
  BY HmsNextInv
<1> QED
  BY <1>1, <1>2, PTL DEF HmsSpec

(* The variables of the server keep their types. *)
THEOREM HmsTypeCorrect == HmsSpec => []HmsTypeOK
<1>1. HmsInv => HmsTypeOK
  BY DEF HmsInv
<1> QED
  BY <1>1, HmsInvariance, PTL

(***************************************************************************)
(* An endpoint lives from hms_endpoint_init in the listener to             *)
(* hms_endpoint_destroy in its one handler: none is freed while it is      *)
(* queued or handled, closed twice, or left open by its handler.           *)
(***************************************************************************)
THEOREM EndpointCorrect == HmsSpec => []EndpointOwned
<1>1. ASSUME HmsInv PROVE EndpointOwned
  <2> SUFFICES ASSUME NEW k \in Conns
               PROVE  /\ endpoint[k] = "live" <=>
                           \/ new_fd = k /\ listen_pc = "add"
                           \/ call_pc[k] = "refused"
                           \/ InQueue(k)
                           \/ handler_pc[k] # "returned" /\ \E w \in Workers : Holds(w, k)
                      /\ endpoint[k] = "live" => conn[k] = "open"
                      /\ endpoint[k] = "freed" <=> conn[k] = "closed"
                      /\ k \in done => conn[k] = "closed"
    BY DEF EndpointOwned
  <2> USE <1>1 DEF HmsInv
  <2>1. /\ k \in Calls /\ ConnWay(k)
        /\ call_pc[k] = "ok" <=> InQueue(k) \/ k \in done \/ \E w \in Workers : Holds(w, k)
        /\ ~(InQueue(k) /\ k \in done)
        /\ \A w \in Workers : Holds(w, k) => ~InQueue(k)
    BY DEF Conns, ConnWays, Inv, NodeOwnership
  <2>2. handler_pc[k] = "returned" => call_pc[k] = "ok" /\ ~InQueue(k)
    BY <2>1 DEF ConnWay
  <2>3. conn[k] # "closed" /\ call_pc[k] # "idle" => conn[k] = "open"
    BY <2>1 DEF ConnWay
  <2> QED
    BY <2>1, <2>2, <2>3 DEF ConnWay
<1>2. HmsInv => EndpointOwned
  BY <1>1
<1> QED
  BY <1>2, HmsInvariance, PTL

(***************************************************************************)
(* When hermes_shutdown has returned, no worker is left; a forced one      *)
(* leaves nothing open but the connection with which the listener saw the  *)
(* shutdown flag.                                                          *)
(***************************************************************************)
THEOREM ShutdownCorrect == HmsSpec => []ShutdownComplete
<1>1. ASSUME HmsInv PROVE ShutdownComplete
  <2> SUFFICES ASSUME NEW d \in Destroyers, shutdown_pc[d] = "returned"
               PROVE  /\ \A w \in Workers : worker_pc[w] = "exited"
                      /\ finish[d] =>
                           /\ server_socket = "closed"
                           /\ \A k \in Conns : conn[k] = "open" => k = new_fd /\ endpoint[k] = "none"
    BY DEF ShutdownComplete
  <2> USE <1>1 DEF HmsInv
  <2>1. destroy_pc[d] = "done" /\ ~aborted
    BY DEF ShutdownWay
  <2>2. \A w \in Workers : worker_pc[w] = "exited"
    BY <2>1 DEF Inv, OneDestroyer, Freeing
  <2>3. finish[d] => server_socket = "closed"
    BY DEF ShutdownWay
  <2>4. ASSUME finish[d], NEW k \in Conns, conn[k] = "open"
        PROVE  k = new_fd /\ endpoint[k] = "none"
    <3>1. k \in Calls /\ ConnWay(k)
      BY DEF Conns, ConnWays
    <3>2. listen_pc = "returned"
      BY <2>1, <2>4, ForcedShutdownEnds
    <3>3. call_pc[k] # "refused"
      BY <2>1, <3>1 DEF RefusalAborts
    <3>4. call_pc[k] # "ok"
      BY <2>1, <2>4, <3>1, InvFinish DEF FinishDrains, ConnWay
    <3>5. call_pc[k] = "idle"
      BY <3>1, <3>2, <3>3, <3>4 DEF ConnWay
    <3> QED
      BY <2>4, <3>1, <3>5 DEF ConnWay
  <2> QED
    BY <2>2, <2>3, <2>4
<1>2. HmsInv => ShutdownComplete
  BY <1>1
<1> QED
  BY <1>2, HmsInvariance, PTL

(***************************************************************************)
(* With one hermes_shutdown, every step of the server is a step of the     *)
(* pool or leaves it alone: the server keeps to what tpool.c expects of    *)
(* its callers.                                                            *)
(***************************************************************************)
THEOREM ServerUsesPool ==
  ASSUME \A d, e \in Destroyers : d = e
  PROVE  HmsSpec => ImplementsTPool
<1>1. HmsInit => Init
  BY DEF HmsInit
<1>2. ASSUME HmsInv, [HmsNext]_allVars PROVE [Next]_vars
  <2> USE ListenAssumption DEF ListenAssumption
  <2>1. CASE HermesInit \/ HermesInitAdd
    BY <2>1 DEF HermesInit, HermesInitAdd, AddWorkAsserted, Next
  <2>2. ASSUME NEW d \in Destroyers, NEW force \in BOOLEAN, ShutdownLock(d, force)
        PROVE  Next
    <3>1. EnterDestroy(d, force) /\ destroy_pc[d] = "idle"
      BY <2>2 DEF ShutdownLock, EnterDestroy
    <3>2. ~pool_freed
      BY <1>2, <3>1 DEF HmsInv, Inv, OneDestroyer, Freeing
    <3> QED
      BY <3>1, <3>2 DEF StartDestroy, Next
  <2>3. CASE \E d \in Destroyers : ShutdownDestroy(d) \/ ShutdownReturn(d)
    BY <2>3 DEF ShutdownDestroy, ShutdownReturn, Next
  <2>4. CASE Listener
    <3>1. CASE ListenSpawn \/ ListenAdd
      <4>1. new_fd \in Calls
        BY <1>2, <3>1 DEF HmsInv, ListenWay, Conns, ListenSpawn, ListenAdd
      <4> QED
        BY <3>1, <4>1 DEF ListenSpawn, ListenAdd, AddWorkAsserted, Next
    <3>2. CASE ~(ListenSpawn \/ ListenAdd)
      BY <2>4, <3>2 DEF Listener, ListenRetry, ListenReady, Accept, AcceptFails, ListenShutdown
    <3> QED
      BY <3>1, <3>2
  <2>5. CASE \E k \in Conns : Handler(k) \/ ClientConnects(k) \/ ClientLeaves(k)
    BY <2>5 DEF Handler, RecvMsg, RecvFails, RecvAborts, Dispatch, EndpointDestroy, ClientConnects, ClientLeaves
  <2>6. CASE PoolSpuriousWakeup \/ \E w \in Workers : PoolWorker(w)
    BY <2>6 DEF PoolSpuriousWakeup, PoolWorker, Next, WorkerStep
  <2>7. CASE UNCHANGED allVars
    BY <2>7 DEF allVars
  <2> QED
    BY <1>2, <2>1, <2>2, <2>3, <2>4, <2>5, <2>6, <2>7 DEF HmsNext, ProcessEnded
<1>3. HmsInv /\ [HmsNext]_allVars => [Next]_vars
  BY <1>2
<1> QED
  BY <1>1, <1>3, HmsInvariance, PTL DEF HmsSpec, ImplementsTPool, Spec

(***************************************************************************)
(* So the pool is the bounded FIFO queue of WorkQueue inside the server    *)
(* too: listener and handlers are started in the order in which            *)
(* tpool_add_work accepted them, each once.                                *)
(***************************************************************************)
THEOREM ServerQueue ==
  ASSUME \A d, e \in Destroyers : d = e
  PROVE  HmsSpec => ImplementsWorkQueue
BY ServerUsesPool, Refinement DEF ImplementsTPool
=============================================================================
