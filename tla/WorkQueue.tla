----------------------------- MODULE WorkQueue -----------------------------
(***************************************************************************)
(* What the thread pool of tpool.c promises to its users, with no locks,   *)
(* no condition variables, no pointers and no worker threads: a bounded    *)
(* FIFO queue of work items that is first open, then perhaps draining, and *)
(* at the end stopped.  TPool is shown to implement this specification.    *)
(***************************************************************************)
EXTENDS Naturals, Sequences

CONSTANTS
  Items,          \* the work items that may be handed to the queue
  Capacity,       \* the most items that may be queued at a time
  RefusesFull     \* TRUE: a full queue refuses; FALSE: it makes callers wait

VARIABLES
  queue,      \* items accepted and not yet started, oldest first
  running,    \* items being executed
  done,       \* items whose execution has ended
  refused,    \* items the queue did not take
  phase       \* "open", "draining" or "stopped"

vars == <<queue, running, done, refused, phase>>

Queued == {queue[i] : i \in 1..Len(queue)}

Init ==
  /\ queue = <<>>
  /\ running = {}
  /\ done = {}
  /\ refused = {}
  /\ phase = "open"

(* An item is accepted once, at the end of an open queue that has room. *)
Accept(i) ==
  /\ phase = "open"
  /\ Len(queue) < Capacity
  /\ i \notin Queued \cup running \cup done \cup refused
  /\ queue' = Append(queue, i)
  /\ UNCHANGED <<running, done, refused, phase>>

(* An item is refused when the queue no longer is open or, if the queue    *)
(* does not make its callers wait, when it is full.                        *)
Refuse(i) ==
  /\ phase # "open" \/ (RefusesFull /\ Len(queue) = Capacity)
  /\ i \notin Queued \cup running \cup done \cup refused
  /\ refused' = refused \cup {i}
  /\ UNCHANGED <<queue, running, done, phase>>

(* The oldest item starts; nothing starts once the queue is stopped. *)
Start ==
  /\ phase # "stopped"
  /\ queue # <<>>
  /\ running' = running \cup {Head(queue)}
  /\ queue' = Tail(queue)
  /\ UNCHANGED <<done, refused, phase>>

Finish(i) ==
  /\ i \in running
  /\ running' = running \ {i}
  /\ done' = done \cup {i}
  /\ UNCHANGED <<queue, refused, phase>>

(* Close the queue and let what is in it be executed. *)
Close ==
  /\ phase = "open"
  /\ phase' = "draining"
  /\ UNCHANGED <<queue, running, done, refused>>

(* A queue that was closed in order to drain stops only when it is empty. *)
StopDrained ==
  /\ phase = "draining"
  /\ queue = <<>>
  /\ phase' = "stopped"
  /\ UNCHANGED <<queue, running, done, refused>>

(* Stop at once, abandoning what is queued. *)
StopNow ==
  /\ phase = "open"
  /\ phase' = "stopped"
  /\ UNCHANGED <<queue, running, done, refused>>

Next ==
  \/ \E i \in Items : Accept(i) \/ Refuse(i) \/ Finish(i)
  \/ Start
  \/ Close
  \/ StopDrained
  \/ StopNow

Spec == Init /\ [][Next]_vars
=============================================================================
