----------------------------- MODULE HmsServer -----------------------------
(***************************************************************************)
(* The server side of src/hms/hermes.c on top of the thread pool: a        *)
(* manager is created by hermes_init and destroyed by hermes_shutdown; one *)
(* worker of its pool runs _hms_listen and hands every accepted connection *)
(* to the pool; other workers run _hms_handle_endpoint.                    *)
(*                                                                         *)
(* The pool is TPool.  Its calls of tpool_add_work are the one of          *)
(* hermes_init, for LISTEN, and one for each connection; its calls of      *)
(* tpool_destroy are those of hermes_shutdown.  A routine runs as long as  *)
(* a worker holds its node.                                                *)
(***************************************************************************)
EXTENDS TPool

CONSTANT LISTEN     \* the work node of _hms_listen

Conns == Calls \ {LISTEN}

(* hermes_init: tpool_init(&pool, num_threads + 2, 10, HMS_TRUE) *)
ASSUME ListenAssumption == LISTEN \in Calls
ASSUME PoolAssumption == do_not_block_when_full = TRUE /\ max_queue_size > 0
ASSUME LockAssumption == NULL \notin Destroyers

VARIABLES
  manager_shutdown,   \* manager->shutdown
  manager_lock,       \* the hermes_shutdown that holds it, or NULL
  shutdown_pc,        \* where each call of hermes_shutdown is
  server_socket,      \* manager->server_socket, uninitialised by hermes_init
  listen_pc,          \* where _hms_listen is
  sleep_time,         \* its delay before the next attempt
  new_fd,             \* the connection it got from accept
  conn,               \* the server's end of each connection
  peer_gone,          \* the client has left and all it sent has been read
  endpoint,           \* the hms_endpoint of each connection, on the heap
  handler_pc,         \* where _hms_handle_endpoint is
  aborted             \* an assertion failed: the process has exited

managerVars == <<manager_shutdown, manager_lock, shutdown_pc>>
listenVars == <<server_socket, listen_pc, sleep_time, new_fd>>
connVars == <<conn, peer_gone, endpoint, handler_pc>>
hmsVars == <<managerVars, listenVars, connVars, aborted>>
allVars == <<vars, hmsVars>>

HmsInit ==
  /\ Init
  /\ manager_shutdown = FALSE
  /\ manager_lock = NULL
  /\ shutdown_pc = [d \in Destroyers |-> "idle"]
  /\ server_socket = "unset"
  /\ listen_pc = "setup"
  /\ sleep_time = 0
  /\ new_fd = NULL
  /\ conn = [k \in Conns |-> "none"]
  /\ peer_gone = [k \in Conns |-> FALSE]
  /\ endpoint = [k \in Conns |-> "none"]
  /\ handler_pc = [k \in Conns |-> "recv"]
  /\ aborted = FALSE

(* The process is alive and one of its workers executes the routine of c. *)
Runs(c) == ~aborted /\ \E w \in Workers : Holds(w, c)

-----------------------------------------------------------------------------
(* hermes_init *)

(* hms_assert_not_equals(-1, tpool_add_work(...)): a refusal ends the process. *)
AddWorkAsserted(c) ==
  /\ CallStep(c)
  /\ aborted' = (call_pc'[c] = "refused")

HermesInit == StartCall(LISTEN) /\ UNCHANGED hmsVars

HermesInitAdd ==
  /\ AddWorkAsserted(LISTEN)
  /\ UNCHANGED <<managerVars, listenVars, connVars>>

-----------------------------------------------------------------------------
(* hermes_shutdown(manager, force); force is passed on as finish *)

ShutdownLock(d, force) ==
  /\ ~aborted
  /\ call_pc[LISTEN] = "ok"
  /\ shutdown_pc[d] = "idle"
  /\ manager_lock = NULL
  /\ manager_lock' = d
  /\ manager_shutdown' = TRUE
  /\ shutdown_pc' = [shutdown_pc EXCEPT ![d] = "destroy"]
  /\ EnterDestroy(d, force)
  /\ UNCHANGED <<listenVars, connVars, aborted>>

ShutdownDestroy(d) == ~aborted /\ DestroyStep(d) /\ UNCHANGED hmsVars

(* What follows tpool_destroy: close(server_socket) and the unlock.  If no *)
(* listener ever set server_socket, some other descriptor is closed.       *)
ShutdownEnd(d) ==
  /\ ~aborted
  /\ shutdown_pc[d] = "destroy"
  /\ server_socket' = IF server_socket = "unset" THEN "unset" ELSE "closed"
  /\ manager_lock' = NULL
  /\ shutdown_pc' = [shutdown_pc EXCEPT ![d] = "returned"]
  /\ UNCHANGED <<manager_shutdown, listen_pc, sleep_time, new_fd, connVars, aborted>>

(* mutant: does not wait for the workers to end *)
ShutdownReturnEarly(d) ==
  /\ destroy_pc[d] \in {"join", "done", "returned"}
  /\ ShutdownEnd(d)
  /\ UNCHANGED vars

(* mutant: destroys the pool a second time *)
ShutdownReturnAgain(d) ==
  /\ destroy_pc[d] = "done"
  /\ ShutdownEnd(d)
  /\ destroy_pc' = [destroy_pc EXCEPT ![d] = "call"]
  /\ UNCHANGED <<call_pc, workers, finish, list, flags, heap, done>>

ShutdownReturn(d) ==
  /\ destroy_pc[d] \in {"done", "returned"}
  /\ ShutdownEnd(d)
  /\ UNCHANGED vars

-----------------------------------------------------------------------------
(* _hms_listen *)

NextSleepUncapped == IF sleep_time = 0 THEN 2 ELSE 2 * sleep_time    \* mutant

(* The "exponential backoff" before each attempt: 0, 2, 4, 4, ... *)
next_sleep_time ==
  CASE sleep_time = 0 -> 2
    [] sleep_time = 2 -> 4
    [] OTHER -> sleep_time

(* An attempt to set the socket up fails in socket, setsockopt or bind, or *)
(* in listen, when manager->server_socket has been set already.            *)
ListenRetry ==
  /\ Runs(LISTEN) /\ listen_pc = "setup"
  /\ sleep_time' = next_sleep_time
  /\ server_socket' \in {server_socket, "bound"}
  /\ UNCHANGED <<vars, managerVars, listen_pc, new_fd, connVars, aborted>>

ListenReady ==
  /\ Runs(LISTEN) /\ listen_pc = "setup"
  /\ sleep_time' = next_sleep_time
  /\ server_socket' = "listening"
  /\ listen_pc' = "accept"
  /\ UNCHANGED <<vars, managerVars, new_fd, connVars, aborted>>

Accept(k) ==
  /\ Runs(LISTEN) /\ listen_pc = "accept"
  /\ conn[k] = "backlog"
  /\ conn' = [conn EXCEPT ![k] = "open"]
  /\ new_fd' = k
  /\ listen_pc' = "accepted"
  /\ UNCHANGED <<vars, managerVars, server_socket, sleep_time, peer_gone, endpoint,
                 handler_pc, aborted>>

(* accept returns -1 (no descriptor left, aborted connection, signal): the *)
(* listener returns although no shutdown was requested.                    *)
AcceptFails ==
  /\ Runs(LISTEN) /\ listen_pc = "accept"
  /\ listen_pc' = "returned"
  /\ UNCHANGED <<vars, managerVars, server_socket, sleep_time, new_fd, connVars, aborted>>

(* The shutdown flag is read after each accept and only there; the         *)
(* connection just accepted is left open.                                  *)
ListenShutdown ==
  /\ Runs(LISTEN) /\ listen_pc = "accepted"
  /\ manager_shutdown
  /\ listen_pc' = "returned"
  /\ UNCHANGED <<vars, managerVars, server_socket, sleep_time, new_fd, connVars, aborted>>

(* hms_endpoint_init, and the call of tpool_add_work begins. *)
ListenSpawn ==
  /\ Runs(LISTEN) /\ listen_pc = "accepted"
  /\ ~manager_shutdown
  /\ endpoint' = [endpoint EXCEPT ![new_fd] = "live"]
  /\ listen_pc' = "add"
  /\ StartCall(new_fd)
  /\ UNCHANGED <<managerVars, server_socket, sleep_time, new_fd, conn, peer_gone,
                 handler_pc, aborted>>

ListenAdd ==
  /\ Runs(LISTEN) /\ listen_pc = "add"
  /\ AddWorkAsserted(new_fd)
  /\ listen_pc' = "accept"
  /\ UNCHANGED <<managerVars, server_socket, sleep_time, new_fd, connVars>>

-----------------------------------------------------------------------------
(* _hms_handle_endpoint *)

(* mutant: a failed parse does not end the loop *)
RecvFailsContinue(k) ==
  /\ Runs(k) /\ handler_pc[k] = "recv"
  /\ handler_pc' = [handler_pc EXCEPT ![k] = "dispatch"]
  /\ UNCHANGED <<vars, managerVars, listenVars, conn, peer_gone, endpoint, aborted>>

(* hms_endpoint_recv_msg blocks until a message arrives ... *)
RecvMsg(k) ==
  /\ Runs(k) /\ handler_pc[k] = "recv"
  /\ ~peer_gone[k]
  /\ handler_pc' = [handler_pc EXCEPT ![k] = "dispatch"]
  /\ UNCHANGED <<vars, managerVars, listenVars, conn, peer_gone, endpoint, aborted>>

(* ... and fails on one that does not parse or when the client has left;   *)
RecvFails(k) ==
  /\ Runs(k) /\ handler_pc[k] = "recv"
  /\ handler_pc' = [handler_pc EXCEPT ![k] = "close"]
  /\ UNCHANGED <<vars, managerVars, listenVars, conn, peer_gone, endpoint, aborted>>

(* but a message with a Content-Length of -1 fails an assertion of         *)
(* hms_msg_parse (NegativeBody of HmsParser), and the process exits.       *)
RecvAborts(k) ==
  /\ Runs(k) /\ handler_pc[k] = "recv"
  /\ ~peer_gone[k]
  /\ aborted' = TRUE
  /\ UNCHANGED <<vars, managerVars, listenVars, connVars>>

(* Validate, accept and handle: a status other than 0 ends the loop. *)
Dispatch(k) ==
  /\ Runs(k) /\ handler_pc[k] = "dispatch"
  /\ \E next_pc \in {"recv", "close"} : handler_pc' = [handler_pc EXCEPT ![k] = next_pc]
  /\ UNCHANGED <<vars, managerVars, listenVars, conn, peer_gone, endpoint, aborted>>

(* mutant: the descriptor is not closed *)
EndpointDestroyLeaks(k) ==
  /\ Runs(k) /\ handler_pc[k] = "close"
  /\ endpoint' = [endpoint EXCEPT ![k] = "freed"]
  /\ handler_pc' = [handler_pc EXCEPT ![k] = "returned"]
  /\ UNCHANGED <<vars, managerVars, listenVars, conn, peer_gone, aborted>>

(* hms_endpoint_destroy, then the unlock of a mutex of the freed endpoint, *)
(* which no other thread ever takes, and the return of the routine.        *)
EndpointDestroy(k) ==
  /\ Runs(k) /\ handler_pc[k] = "close"
  /\ conn' = [conn EXCEPT ![k] = "closed"]
  /\ endpoint' = [endpoint EXCEPT ![k] = "freed"]
  /\ handler_pc' = [handler_pc EXCEPT ![k] = "returned"]
  /\ UNCHANGED <<vars, managerVars, listenVars, peer_gone, aborted>>

-----------------------------------------------------------------------------
(* Clients *)

ClientConnects(k) ==
  /\ ~aborted
  /\ server_socket = "listening"
  /\ conn[k] = "none"
  /\ conn' = [conn EXCEPT ![k] = "backlog"]
  /\ UNCHANGED <<vars, managerVars, listenVars, peer_gone, endpoint, handler_pc, aborted>>

ClientLeaves(k) ==
  /\ ~aborted
  /\ conn[k] # "none" /\ ~peer_gone[k]
  /\ peer_gone' = [peer_gone EXCEPT ![k] = TRUE]
  /\ UNCHANGED <<vars, managerVars, listenVars, conn, endpoint, handler_pc, aborted>>

-----------------------------------------------------------------------------
(* The pool's workers around the routines *)

RoutineReturned(w) ==
  \/ Holds(w, LISTEN) /\ listen_pc = "returned"
  \/ \E k \in Conns : Holds(w, k) /\ handler_pc[k] = "returned"

PoolWorker(w) ==
  /\ ~aborted
  /\ \/ WorkerSleep(w) \/ WorkerExit(w) \/ WorkerDequeue(w)
     \/ RoutineReturned(w) /\ WorkerRunReturn(w)
  /\ UNCHANGED hmsVars

PoolSpuriousWakeup == ~aborted /\ SpuriousWakeup /\ UNCHANGED hmsVars

Listener ==
  \/ ListenRetry \/ ListenReady
  \/ \E k \in Conns : Accept(k)
  \/ AcceptFails \/ ListenShutdown \/ ListenSpawn \/ ListenAdd

Handler(k) ==
  RecvMsg(k) \/ RecvFails(k) \/ RecvAborts(k) \/ Dispatch(k) \/ EndpointDestroy(k)

ProcessEnded ==
  /\ aborted \/ \E d \in Destroyers : shutdown_pc[d] = "returned"
  /\ UNCHANGED allVars

HmsNext ==
  \/ HermesInit \/ HermesInitAdd
  \/ \E d \in Destroyers :
       \/ \E force \in BOOLEAN : ShutdownLock(d, force)
       \/ ShutdownDestroy(d)
       \/ ShutdownReturn(d)
  \/ Listener
  \/ \E k \in Conns : Handler(k) \/ ClientConnects(k) \/ ClientLeaves(k)
  \/ \E w \in Workers : PoolWorker(w)
  \/ PoolSpuriousWakeup
  \/ ProcessEnded

HmsSpec == HmsInit /\ [][HmsNext]_allVars

(***************************************************************************)
(* Threads of the pool run, a port is free at last, and a client that is   *)
(* done leaves.  That a client sends or connects, that accept fails or     *)
(* that a message does not parse is never promised.                        *)
(***************************************************************************)
HmsFairness ==
  /\ WF_allVars(HermesInit) /\ WF_allVars(HermesInitAdd)
  /\ \A d \in Destroyers : WF_allVars(ShutdownDestroy(d)) /\ WF_allVars(ShutdownReturn(d))
  /\ WF_allVars(ListenReady)
  /\ WF_allVars(\E k \in Conns : Accept(k))
  /\ WF_allVars(ListenShutdown \/ ListenSpawn \/ ListenAdd)
  /\ \A k \in Conns :
       /\ WF_allVars(peer_gone[k] /\ RecvFails(k))
       /\ WF_allVars(Dispatch(k) \/ EndpointDestroy(k))
       /\ WF_allVars(ClientLeaves(k))
  /\ \A w \in Workers : WF_allVars(PoolWorker(w))

HmsFairSpec == HmsSpec /\ HmsFairness

-----------------------------------------------------------------------------
(* Properties *)

(* Every variable of the server has its type. *)
HmsTypeOK ==
  /\ manager_shutdown \in BOOLEAN
  /\ manager_lock \in Destroyers \cup {NULL}
  /\ shutdown_pc \in [Destroyers -> {"idle", "destroy", "returned"}]
  /\ server_socket \in {"unset", "bound", "listening", "closed"}
  /\ listen_pc \in {"setup", "accept", "accepted", "add", "returned"}
  /\ sleep_time \in {0, 2, 4}
  /\ new_fd \in Conns \cup {NULL}
  /\ conn \in [Conns -> {"none", "backlog", "open", "closed"}]
  /\ peer_gone \in [Conns -> BOOLEAN]
  /\ endpoint \in [Conns -> {"none", "live", "freed"}]
  /\ handler_pc \in [Conns -> {"recv", "dispatch", "close", "returned"}]
  /\ aborted \in BOOLEAN

(***************************************************************************)
(* The server uses the pool as tpool.c expects: with one hermes_shutdown,  *)
(* every step of the server is a step of TPool, so what is proved of the   *)
(* pool holds in the server.                                               *)
(***************************************************************************)
ImplementsTPool == Spec

(***************************************************************************)
(* An endpoint is allocated, with its socket open, from hms_endpoint_init  *)
(* in the listener to hms_endpoint_destroy in the one handler that the     *)
(* pool runs for it; nothing that is queued or being handled is freed, and *)
(* nothing is closed twice or left open by a handler.                      *)
(***************************************************************************)
EndpointOwned ==
  \A k \in Conns :
    /\ endpoint[k] = "live" <=>
         \/ new_fd = k /\ listen_pc = "add"
         \/ call_pc[k] = "refused"
         \/ InQueue(k)
         \/ handler_pc[k] # "returned" /\ \E w \in Workers : Holds(w, k)
    /\ endpoint[k] = "live" => conn[k] = "open"
    /\ endpoint[k] = "freed" <=> conn[k] = "closed"
    /\ k \in done => conn[k] = "closed"

(***************************************************************************)
(* hermes_shutdown "blocks until all threads end": when it has returned,   *)
(* no worker is left.  With force set, it leaves nothing behind: the       *)
(* listening socket is closed, every connection given to the pool has been *)
(* handled to its end, and the only open one is the one with which the     *)
(* listener saw the shutdown flag.                                         *)
(***************************************************************************)
ShutdownComplete ==
  \A d \in Destroyers : shutdown_pc[d] = "returned" =>
    /\ \A w \in Workers : worker_pc[w] = "exited"
    /\ finish[d] =>
         /\ server_socket = "closed"
         /\ \A k \in Conns : conn[k] = "open" => k = new_fd /\ endpoint[k] = "none"

(* A connection that waits to be accepted is accepted, handled and closed, *)
(* unless the listener ends: by a shutdown, a failed accept or an exit.    *)
ConnectionsServed ==
  \A k \in Conns :
    conn[k] = "backlog" ~>
      \/ conn[k] = "closed"
      \/ manager_shutdown \/ listen_pc = "returned" \/ aborted

(* Once the listener has returned, hermes_shutdown returns, as every       *)
(* handler ends after its client, and with force set those of the queue,   *)
(* too; unless freeing the nodes abandoned in the queue goes wrong or a    *)
(* message with a negative length ends the process meanwhile.              *)
ShutdownAfterListener ==
  \A d \in Destroyers :
    shutdown_pc[d] = "destroy" /\ listen_pc = "returned" ~>
      shutdown_pc[d] = "returned" \/ destroy_pc[d] = "undefined" \/ aborted

-----------------------------------------------------------------------------
(* What the code asserts, or its tests rely on, and does not hold. *)

(* hermes.c asserts that tpool_add_work takes every connection accepted;   *)
(* before a shutdown is requested ...                                      *)
PoolTakesConnections == (\E k \in Conns : call_pc[k] = "refused") => manager_shutdown

(* ... and while one is in progress. *)
PoolTakesLastConnection == manager_shutdown => \A k \in Conns : call_pc[k] # "refused"

(* The test programs call hermes_shutdown and print "Done" after it. *)
ShutdownReturns ==
  \A d \in Destroyers :
    shutdown_pc[d] = "destroy" ~>
      shutdown_pc[d] = "returned" \/ destroy_pc[d] = "undefined" \/ aborted
=============================================================================
