# Verification of hermes_c

hermes_c is a C library for HTTP-like messaging servers: a message format of a
verb, headers and a body, a server that accepts connections and hands each to a
thread of a pool, and a client connector. This directory holds TLA+ models of
it, the TLC runs that check them and TLAPS proofs. Paths such as `tpool.c` are
below `src/src/` (`tpool/tpool.c`, `hms/hermes.c`, `hms/hms_msg.c`,
`hms/hms_parser.c`, `hashtab/hashtable.c`, `md5/md5.c`, `include/hms_list.h`).

## The system

| Component | State | Operations | Interacts with |
|---|---|---|---|
| Thread pool, `tpool.c` | a linked list of work nodes, its size, `queue_closed`, `shutdown`, a mutex, three condition variables | `tpool_init`, `tpool_add_work`, `tpool_destroy`, the loop of `tpool_thread` | calls the routines of its work nodes without the lock |
| Server, `hermes.c` | the manager (`shutdown`, `server_socket`, `manager_lock`), one endpoint per connection | `hermes_init`, `hermes_shutdown`, `_hms_listen`, `_hms_handle_endpoint`, `hms_endpoint_*` | listener and handlers are work items of one pool; the manager's flags are shared without a lock |
| Message, `hms_msg.c` | verb, list of un-named headers, list of named headers, two counters, body and length | create, destroy, set/get verb, add/get/delete (named) header, set/get/delete body, print | built by the parser, printed by the senders |
| Parser, `hms_parser.c` | the header buffer, `dot_seen`, `dot_ptr`, the message being built | `hms_msg_parse` | reads a socket, calls the message API |
| Connector and sending, `hermes.c` | a socket | `hms_connector_*`, `hms_endpoint_send_msg`, `__send_all`, `_hms_default_handle` | message, parser |
| Lists, `hms_list.h` | circular doubly linked lists | add, delete, move, splice, five loop macros | message |
| Assertions, `hms_util.c` | none | a failed assertion calls `exit` | all |
| Hash table, `hashtable.c` | an array of ordered chains, their number of nodes, an iterator | create, insert, delete, search, map, stat, print, iterate, destroy | no caller in the library |
| MD5, `md5.c` | a buffer of two blocks, a byte count in two words, the digest's state | `md5_init`, `md5_process`, `md5_finish`, `md5_buffer` | checksums of bodies, compiled out |

What is hard here: callers, workers and destroyers of the pool interleave at
every lock and every wait, signals are sent only when a condition changes, two
broadcasts are sent without the lock, and memory is freed while others may be
on their way out; the listener, the handlers and `hermes_shutdown` share the
pool and a flag, and the pool refuses work when it is full or closed; a message
keeps its length in two places and assertions compare them; the parser finds
the end of a message in bytes that arrive in any pieces, from a peer that may
leave at any time; client and handler block in `send` and `read` on a connection
with bounded room, and their requests and replies carry nothing that relates
them. `PROJECT.json` lists these hazards line by line.

What makes each part correct: the pool executes every accepted item once, in
order, and wakes whoever can go on; a shutdown ends and leaves nothing behind;
an endpoint has one owner; counters, headers and body of a message agree; one
call of the parser consumes exactly one message; what one party sends the other
receives, whole and in order, and the answers come in the order of the
requests; a hash table is a map, a list a sequence, and a digest does not depend
on how its input was cut.

## Modules

| Module | What it is |
|---|---|
| `WorkQueue` | abstract specification: a bounded FIFO queue that is open, draining or stopped |
| `TPool` | the thread pool, action by action |
| `HmsServer` | manager, listener and handlers, composed with `TPool` (it EXTENDS it and uses its actions) |
| `MsgMap` | abstract specification: a case-insensitive map with a body |
| `HmsMsg` | the message object |
| `HmsHeader` | the text of a header: what `hms_msg_print_header` writes and what the parser makes of it |
| `HmsParser` | `hms_msg_parse`, byte by byte, on any input |
| `HmsSession` | a connector and a handler on one connection |
| `Dict`, `HashTab` | a finite map; the chained hash table that implements it |
| `Lists`, `HmsList` | sequences and loops over them; the pointers that implement them |
| `Md5` | the buffering, counting and padding of `md5.c` |
| `TPoolProofs`, `HmsServerProofs`, `HmsMsgProofs`, `HmsHeaderProofs`, `HmsParserProofs`, `HmsSessionProofs` | theorems about the modules they are named after |
| `StructureProofs` | theorems about `HmsList`, `HashTab` and `Md5` |
| `SeqLemmas` | what `Min`, `Max`, `RemoveAt`, `InsertAt` and `FlattenSeq` return, and induction over sets of numbers and of sequences, cited by the proofs |
| `MCTPool`, `MCHmsServer`, `MCHmsMsg`, `MCHmsParser`, `MCHmsSession`, `MCStructures` | instances for TLC |

Definitions named like *FullOffByOne* and marked "mutant" change one definition
in the way a bug would; for each property there is one under which TLC finds it
violated (listed in `PROJECT.json`). Nothing else uses them.

### TPool

Everything the pool's functions do between taking `queue_lock` and releasing it
is one action, since no field is accessed without it; waking from
`pthread_cond_wait` starts a new action that tests the loop condition again.
`tpool_destroy` goes on without the lock, so each broadcast, the joins, each
round of its free loop and `free(tpool)` are actions of their own. A call of
`tpool_add_work` is identified with the node it allocates.

- `AddRefuse`, `AddWait`, `AddEnqueue`: the outcomes of
  `tpool_add_work`; the test of `do_not_block_when_full` happens once, before
  the loop, so a caller that was woken is at the loop (`AtLoop`).
- `WorkerSleep`, `WorkerExit`, `WorkerDequeue`, `WorkerRunReturn`: the loop of
  `tpool_thread`. A dequeue includes both signals.
- `DestroyReturn`, `DestroyClose`, `DestroyRecheck`, `BroadcastNotEmpty`,
  `BroadcastNotFull`, `Join`, `FreeNode`, `FreePool`: `tpool_destroy`.
- `SpuriousWakeup`: any sleeper may wake up at any time (POSIX).
- Freed memory: `heap` says which nodes are allocated, reading `next` of a freed
  node yields any pointer, freeing what is not allocated and locking a freed
  pool lead to the state "undefined", from which nothing is claimed.

`queue` (the list as a sequence) and `done` are auxiliary variables; no guard
reads them. Failures of `malloc` and of pthread calls end the process and are
left out.

### HmsServer

The calls of `tpool_add_work` are that of `hermes_init` (for `LISTEN`) and one
per connection; `hermes_shutdown` calls `tpool_destroy`, passing `force` as
`finish`. A routine runs while a worker holds its node: `Runs(LISTEN)` guards
the actions of `_hms_listen`, `Runs(k)` those of the handler of connection k,
and `WorkerRunReturn` waits until the routine has returned. The flag
`manager->shutdown` is read in one action (`ListenShutdown`/`ListenSpawn`) and
work added in a later one (`ListenAdd`), as in the code. A failed
`hms_assert_not_equals` sets `aborted`, after which nothing happens. A call of
`hms_msg_parse` delivers a message (`RecvMsg`), fails (`RecvFails`), or ends the
process at `hms_parser.c:220`, as a Content-Length of -1 does (`RecvAborts`); a
handler returns 0 or something else; a client connects and leaves when it likes.
Managers without a port (clients)
have no listener and are not modelled.

### HmsMsg

One message under API calls in any order. A key is a name and the case in which
it is written; `strcasecmp_equal` ignores the case. A value is the number that
`atoi` makes of it. Lists are sequences. Each operation includes what it calls:
`SetBody` deletes the old body with its two headers and adds Content-Length. It
asserts that the length is not 0; a negative length passes that assertion and,
once the old body is gone, fails the one on `malloc`, which takes it for a huge
number and gives nothing. A failed assertion leaves its function in `status`,
after which nothing happens.
`PrintHeader` keeps only whether the assertion on the printed length holds: the
size is 0 without a verb, and what is printed is not.

### HmsParser

One call of `hms_msg_parse`. A header is a sequence of tokens (`HmsHeader`): the
characters that matter (period, newline, space, carriage return), words, a word
with a colon, and "Content-Length:n". Lines and words are found as `strtok_r`
finds them, in the text before `dot_ptr`. A period at the end of any line ends the
header, not only a line with just a period (`src/README.md:21`), and the examples of
the same file (`PING .`) rely on that. Body bytes are counted. A Content-Length of
-1 gets past `malloc` and fails `assert(read_in == body_len)` (`NegativeBody`,
state "aborted"); smaller ones fail in `malloc`, and the call fails.

`HmsHeader` names only Content-Length among the named headers. Of several lines
with that name the last counts, as `hms_msg_add_named_header` removes the earlier
one; other names are not told apart, so that repeated ones are all kept. No
message built with the API has any (`ListsConsistent`), and the properties of the
parser are about Content-Length.

### HmsSession

A client that calls `hms_connector_*` in any order and the handler of its
connection, `_hms_handle_endpoint`, with `hms_validate` and `hms_accepts`
functions of the user (sets `Invalid` and `Accepted`) or without. Each direction
of the connection is a sequence of at most `Room` tokens.

- `ConnectorSendMsg` prints the header; `SendAll` is one `send` of `__send_all`,
  which takes any part of what is left and waits without room; `SendAllFails` is
  a `send` to a peer that has gone, after which the body is tried all the same;
  `ConnectorSendReturn` and `EndpointSendReturn` give the results, which differ
  for messages without a body.
- `RecvHeader` and `RecvBody` are `hms_msg_parse` on the stream, with the parsing
  operators of `HmsHeader`; a header is taken off the stream in one step (that
  the byte loop stops there is `HeaderFramed` of `HmsParser`), a body in as many
  as it takes. `RecvFails` is a header that does not parse or is too long, and
  the end of the stream.
- `EndpointDelivers` validates, dispatches and replies as
  `_hms_handle_endpoint` and `_hms_default_handle` do: PONG, INFO with a
  `Localtime` that holds the newline of `asctime_r`, ERROR for a message without
  a verb, and the end of the connection for everything else.
- Faults: `ConnectFails`, `ConnectorDestroy` at any time between calls,
  `Sigpipe` (only `hermes_init` ignores the signal), `Reset` (a peer that closes
  with unread input makes the other lose what was on its way to it).

A user's handler sends nothing here: what it may send is its own affair, and the paths
of sending are those of the default one.

### HashTab, HmsList, Md5

`HashTab`: a chain is the sequence of its nodes, and the loops over `cur` are the
index at which they stop. Each function is one action, each outcome of
`hashtab_insert` and `hashtab_delete` one of its own. `hashtab_iterate` is one
step per call, so that insertions and deletions happen in between; the iterator
remembers whether its node is linked, unlinked (deleted from behind the first
place: `next` is NULL, and the node is never freed) or freed, and reading the
last leads to "undefined".

`HmsList`: the functions are operators from memory to memory that make the
assignments of the source in their order; actions are the calls a program may
make (an entry is added when it is in no list, a head that `hms_list_splice`
left stale is initialised before it is used, a safe loop removes only its current
entry). `for_each_entry` and its safe form walk as `for_each` and `for_each_safe`
do.

`Md5`: the digest's state is the sequence of bytes that `process_block` was given
in place of the four words computed from them. In the run the block size is 8 and a
word has one byte and 32 values, so that the byte count carries after 32 bytes and
the bit count wraps after 128.

## Runs

| Run | Bounds | Result |
|---|---|---|
| `tpool` | 2 workers, 3 blocking calls, 2 destroyers, queue of 2, fair | holds, 148,497 states |
| `tpool_blocked_caller` | 3 calls, 1 destroyer, queue of 1 | `BlockedCallersLeave` violated |
| `tpool_free_loop` | 3 calls, 1 destroyer, queue of 2 | `PoolStructuresFreed` violated |
| `server` | 2 workers, 2 connections, 1 shutdown, a refusing queue of 1, fair | holds, 57,633 states |
| `server_saturated` | 3 connections | `PoolTakesConnections` violated |
| `server_shutdown_race` | 1 connection | `PoolTakesLastConnection` violated |
| `server_stuck` | 1 connection, fair | `ShutdownReturns` violated |
| `msg_api` | 3 names in 2 spellings, values up to 2, body lengths from -1 to 2, 2 un-named headers | holds, 36,856 states |
| `parser` | all inputs of up to 7 tokens from 6, lengths -1, 0 and 2 | holds, 1,100,229 states |
| `session` | 3 messages of 8 kinds, 8 tokens of room and of header, fair | holds, 245,509 states |
| `structures` | 4 keys in chains of 3 and 1, 3 nodes at most; 3 entries, 2 heads; 140 bytes in pieces of 0 to 23 | holds, 128,377 states |
| `parser_abort` | lengths -1, 0 and 2, words, periods and newlines | `BrokenMessageFails` violated |

What the passing runs show:

- `tpool`: `ListIntact` (head, tail, links and size describe one list),
  `NodeOwnership` (an accepted node is queued, held by one worker, or executed
  and freed), `NoLostWakeup` (nobody sleeps on a condition that holds unless a
  broadcast is about to be sent), `OneDestroyer`, `FinishDrains`
  (`tpool_destroy(pool, 1)` returns with all accepted work executed) and
  `ImplementsWorkQueue`; and, under fairness, accepted work is executed unless the
  pool is stopped, every call of `tpool_add_work` returns, and `tpool_destroy`
  ends.
- `server`: `ImplementsTPool` (the server's steps on the pool are steps of
  `TPool`, so what is proved of `TPool` holds in the server),
  `ImplementsWorkQueue` for a pool that refuses instead of making its callers wait,
  the mode that `hermes_init` uses, `EndpointOwned`, `ShutdownComplete`; and, under
  fairness, `ConnectionsServed` (a waiting connection is handled and closed, unless
  the listener ends, by a shutdown or a failed `accept`, or the process does) and
  `ShutdownAfterListener` (`hermes_shutdown` returns once the listener has, unless
  a message ends the process meanwhile or freeing the queue goes wrong). Neither
  says that the listener goes on after a failed `accept` or ends by itself: it
  does not.
- `msg_api`: `ListsConsistent`, `BodyMatchesHeader` and `ImplementsMap`, for
  callers that do not write Content-Length themselves (`UserNames`): hermes.h
  calls it restricted, nothing enforces that, and a caller that writes or deletes
  it fails the assertions that compare it with the body. For those callers the
  only assertions that can fail are the one of `hms_msg_set_body` on its length
  and that of `hms_msg_print_header` without a verb (`status` in
  `BodyMatchesHeader`).
- `parser`: `HeaderFramed` (the byte loop stops at the first end of a header and
  nowhere else), `BodyExact` (no byte of the next message is taken, whatever becomes
  of the call, and a delivered message has its whole body), `DeliveredLengthAgrees` (what `msg_api` assumes of
  Content-Length holds of every parsed message), `ParsingEnds`.
- `session`: `DeliveredAsSent` (the handler receives what was sent, a body that
  looks like the end of a header included), `InStep` (stream and rest of the
  sender are the messages not yet received, from where the parser reads on),
  `AnswersInOrder`, `SendResult` (0 means that the message is in the stream; -1
  comes also for every message without a body), `WaitsOnlyForClient` (the two wait
  for each other only if the client reads when nothing is due, or both send into
  full streams), `AnswerComes`, `HandlerEnds`.
- `structures`: `TableConsistent`, `ImplementsDict`, `IterationComplete` (no key
  twice, and every key that was there all the time; if the node under the iterator
  is deleted, the rest of that one chain may be passed over and nothing else),
  `RingsIntact`, `ImplementsLists` and `DigestsInput` (what
  reaches `process_block` is the input, padded as RFC 1321 says, however it was
  cut). The nodes that `hashtab_delete` takes out and does not free
  (`hashtable.c:112`) are what the code does: `TableConsistent` counts them and
  accepts them. The three structures are used one per behaviour, as they do not interact.

What the violated ones show:

- `tpool_destroy` joins workers and not callers, so a caller woken from a full
  queue may lock and read the freed pool (`tpool.c:174`, `191`).
- The loop at `tpool.c:186-190` frees the successor of the head, never the first
  node, and goes on through the freed one. It needs `finish` 0; one node left in
  the queue is leaked, and with two freed memory is read.
- The assertion at `hermes.c:156` ends the server when the queue is full, for
  which a burst of connections is enough that no thread has had time to take from
  it, and when the queue is closed between the test of the flag
  (line 149) and the call.
- `hermes_shutdown` joins the listener, which is in `accept` on a socket that is
  closed after the join.
- A message with Content-Length -1 ends the process at `hms_parser.c:220`, where
  `src/README.md:74` says that broken messages have their connection shut down. In TLC's
  trace the line may stand twice, the first time as the verb, which takes any line.

Why the bounds are enough: two workers, a queue of one or two and more calls
than places make the queue empty, full and in between, with sleepers of all
three kinds at once; two destroyers make the second one early, late, and after
the free. For the properties that are proved, the bounds do not matter. In
`server` one of two threads is the listener, so a single busy handler fills the
pool; the queue of one place is full with one connection that waits, as the real one
is with ten. A length of -1, of 0, two positive
body lengths and two spellings are what `strcasecmp` and the length checks tell
apart. Seven tokens hold a verb line and two further lines, so that
Content-Length can occur twice; `max_hdr_len` stands for 1024 bytes, and inputs
that fill the buffer are included. In `session` the room of 8 tokens is less than
two messages, so that senders wait in the middle of headers and bodies and both
directions fill up; the longest message has a header of more than `max_hdr_len`.
A chain of three nodes has a first, a middle and a last one to delete under the
iterator; three nodes of four keys make the table full. Three entries give the
rings every shape that an operation on an entry and its two neighbours sees. The
inputs of `Md5` cross every boundary of a block and of both words of the count.

Deadlock is checked in all runs but `session` (a client need not call
anything) and `structures` (a table that has been destroyed stays so); elsewhere
behaviours that may end do so in an explicit stuttering action (`Ended`,
`ProcessEnded`).

### Fairness

`TPool!Fairness`: weak fairness for every thread inside a pool function. Weak
fairness is enough because the actions of a thread stay enabled until it takes
one, whatever the others do, except for tests of the queue that turn into other
actions of the same thread. It assumes that routines return, that the scheduler
runs every thread and that a thread waiting for `queue_lock` gets it. Starting
calls and spurious wakeups are not fair, so no liveness rests on them.

`HmsFairness` adds: a port becomes free at last, a waiting connection is
accepted, a client that is done leaves and its handler's read then fails. That
clients connect or send, that `accept` fails and that messages do not parse is
not assumed; `server_stuck` rests on that, since nobody has to connect.

`HmsParser!FairSpec`: a read returns at last, as the peer sends more or closes.

`HmsSession!FairSpec`: both processes go on with the call they are in as long as
they can. That a client starts a call, reads its answers or leaves is not assumed,
nor that the connection is reset.

## Proofs

The theorems hold for every value of the constants that satisfies the named
assumptions of the modules: any number of threads, connections, names, tokens,
nodes, keys and slots, and any bounds. Each safety theorem rests on an inductive
invariant; the leaves below it use the types of the variables, the invariant and
the definition of one action.

### Thread pool

From `SizeAssumption`, `ModeAssumption` and `NullAssumption` of `TPool` (both modes,
any `max_queue_size` in Nat), `TPoolProofs` proves

- `Invariance`: `Spec => []Inv`, and from it
- `TypeCorrect`, `ListCorrect`, `OwnershipCorrect`, `WakeupCorrect`,
  `DestroyCorrect`, `FinishCorrect`: the six invariants of `tpool`;
- `Refinement`: `Spec => ImplementsWorkQueue`.

`Inv` is the conjunction of the invariants of the run and two facts that make it
inductive. None of its parts is inductive alone: that a dequeue takes the right
node needs `ListIntact`; that the node is then with one worker only needs
`NodeOwnership` and the distinctness in `ListIntact`; that the last dequeue may
wake the destroyer, and that one signal is enough, needs `OneDestroyer`; that a
caller asleep is on a full queue after a dequeue needs `WaitersBlock` (only a
pool that makes callers wait has waiting callers, and only such a pool
broadcasts `queue_not_full`). `FinishDrains` speaks of the state after the free
loop, where `ListIntact` says nothing of the pointers: `NothingToFree` carries
the empty queue, `queue_head = NULL` and the freed nodes from `shutdown = 1` to
the end. `NoLostWakeup` has to allow for the two broadcasts sent after the lock
is released, and is inductive because the destroyer's position says that they
are still to come.

The proof has one lemma per kind of step: three for steps that move a single
thread and change nothing else, one for each action that changes the list, the
flags or several threads, and `NextInv`, which splits `Next` and applies them.
The refinement uses `Inv` for each action: an enqueue is `Accept` since a node
on its way in is nowhere yet (`FreshCall`), a dequeue is `Start`, and so on;
steps that touch neither list nor flags are stuttering steps.

### Server

From the assumptions of `TPool`, `PoolAssumption` (the mode that `hermes_init`
uses), `ListenAssumption` and `LockAssumption`, `HmsServerProofs` proves
`HmsTypeCorrect`, `EndpointCorrect` (`EndpointOwned`) and `ShutdownCorrect`
(`ShutdownComplete`), for any number of calls of `hermes_shutdown`, and, with one
such call, `ServerUsesPool` (`ImplementsTPool`) and `ServerQueue`
(`ImplementsWorkQueue`).
With two calls the second may enter `tpool_destroy` on a pool that the first has
freed, a call that `TPool` leaves out (`StartDestroy`).

`HmsInv` contains `Inv` of the pool, whose lemmas are applied to every step the
server takes on the pool. `ConnWay` follows a connection from `accept` through
the pool to the end of its handler and says at each stage who has the endpoint;
it needs `NodeOwnership`, since only the worker that holds a node may run its
handler. `ShutdownWay` says that `manager_lock` admits one `hermes_shutdown` at a
time and that a closed pool has its closer. `RefusalAborts` is what makes
`ShutdownComplete` true: a refused connection would stay open for ever, but the
assertion at `hermes.c:156` ends the process at the first refusal. A handler may end
it too (`RecvAborts`), but not once a `hermes_shutdown` has returned: a handler runs
in a worker, and the workers have exited by then.

### Message

From the assumptions of `HmsMsg`, `HmsMsgProofs` proves `MsgTypeCorrect`,
`ListsCorrect` (`ListsConsistent`) and `MapImplemented` (`ImplementsMap`) for
callers that may write any name, and `BodyCorrect` (`BodyMatchesHeader`) for
callers that do not write Content-Length (`CONTENT_LENGTH \notin UserNames`), with
lengths of bodies that may be 0 or negative, when `hms_msg_set_body` stops.
`MsgInv` states that the counters count, that names differ without regard to
case, and that a body is never empty; `BodyInv` adds that the value of
Content-Length is the body's length whenever a body is there. The deletions
keep the list's order (`RemoveAt`), and that names differ makes the one header
that a deletion removes the only one of its name, which the map needs.

### Parser

From `HeaderAssumption`, `InputAssumption` and the assumptions of `HmsHeader`,
`HmsParserProofs` proves `ParserTypeCorrect`, `FramingCorrect` (`HeaderFramed`),
`BodyCountCorrect` (`BodyExact`) and `DeliveredLengthCorrect`
(`DeliveredLengthAgrees`). `DotMarks` says what `dot_seen` and `dot_ptr` remember:
the last token that is not a space is the period at `dot_ptr`, or no such
period is there; `EndsOnce` that no earlier newline ended the header; `BodyWay`
how much of the message is there in each phase, and that no more has been read of a
body than it has, also by a call that fails.

### Header

From `LengthsAssumption` and `WordsAssumption`, `HmsHeaderProofs` proves, for every
message with `IsMessage` and a verb,

- `HeaderReadBack`: what the parser reads of the text that `hms_msg_print_header`
  writes is the message, its headers in their order;
- `HeaderEndFound`: going through that header byte by byte, with anything behind it,
  the parser sees the end at the last byte and nowhere before.

`IsMessage` says which messages these are: a verb and un-named headers without white
space and without a period at the end; named headers on one line, with a colon,
without a period at the end (which would end the header there) and not
called Content-Length; with a body the one Content-Length that `hms_msg_set_body`
writes, and without one none; an empty verb only in a message with nothing else. A
newline at the end of a named header, as `asctime_r` leaves it, is allowed, and is
gone when the header is read.

Both are inductions over data, for which the library's theorems cannot be used
here. `SeqLemmas` has induction in a form without operator parameters: `SetInduction`, from `LeastElement`,
and `SequenceInduction` say that a *set* of numbers or of sequences that has the
first and with each the next has them all. With them `FlattenSeq` is characterised
(`FlattenAppend`, `FlattenConcat`, `FlattenAt`). The text of a message is the
concatenation of its pieces, so a line or a word of the text is found in the piece
in which it begins, and `Ascending`, which puts the places of the words and lines in
order, is what the pieces' own order is.

### Session

From the assumptions of `HmsHeader` and `BoundsAssumption`, `VerdictsAssumption`,
`RepliesAssumption`, `MessagesAssumption` and `NullAssumption` of `HmsSession`, for
any set of messages with `IsMessage`, any verdicts, any number of messages and any
room of at least `max_hdr_len`, `HmsSessionProofs` proves

- `SessionInvariance`: `Spec => []SessionInv`, and from it
- `SessionTypeCorrect` (`TypeOK`), `DeliveryCorrect` (`DeliveredAsSent`),
  `InStepCorrect` (`InStep`), `AnswersCorrect` (`AnswersInOrder`), `WaitsCorrect`
  (`WaitsOnlyForClient`);
- `SendResultCorrect`: the action property `SendResult`.

`DeliveredAsSent` is not inductive: the next message received is right only if the
stream holds it. The parts of `SessionInv` are

- `Forward`: what is on its way to the handler (the stream and what `__send_all` has
  left) is what the handler has not read, unless a party is gone and it may be lost;
- `Backward`: so with the replies, which are those due for what was received;
- `Reading`: between two reads of a body the parser holds the head of the next
  message's body, and always a part is missing;
- `Sending`: only a party in `__send_all` has something to send, and a send fails only
  after the peer has gone;
- `Received`, `Answered`: messages and answers are what was sent, as far as they go;
- `Serving`: the handler takes no message after one that ends the session, by which
  the n-th reply belongs to the n-th request that has one;
- `Whole`: what is on its way ends as the message being sent does, or the other way
  round. `SendResult` needs it, as it speaks of the end of the stream when the last
  `send` has taken the rest;
- `Types`: the types of the variables.

A step of the parser applies the two theorems about headers to the front of the
stream, where `Forward` and `Backward` say which message begins. The header stops
where it should because of `HeaderEndFound`, also when the body looks like the
end of a header. TLC checked `SessionInv` on the instance of `session` before it
was proved.

### Lists

From `NodesAssumption`, `StructureProofs` proves `RingsCorrect` (`RingsIntact`).
That `next` and `prev` are inverse on all rings is not inductive: splicing a list
into itself would tear it. `ListInv` adds that every node has an owner, which is
that of its successor and, for a head, the head itself, so that two heads are
always on different rings.

### Hash table

From `HashTabAssumption`, `StructureProofs` proves `TableCorrect`
(`TableConsistent`), the action property `IterationCorrect`
(`IterationComplete`) and `DictImplemented` (`ImplementsDict`). `TabInv` has the
chains strictly ordered and each key in its slot, `nel` and the allocated nodes counted, and of a running iteration that
the keys met so far are in the order `Before` (by slot, then by key), that the
node under the iterator is not before any of them, and that every key that has
stayed since the start and was not met lies ahead of it, or in one of the slots
(`lost`) where a deletion under the iterator has cut the rest of a chain off. An
iteration that ends then has nothing ahead, and has met all others.

The finite map that the table implements is the set of nodes in its chains, read as
pairs: no two have the same key, as a chain is strictly ordered and two chains hold
keys of different slots. An insertion adds one node to that set and is refused if
the key is in it, a deletion takes the node of the key away, and a map or an
iteration meets nodes of it and no others. `nel` is the number of keys because places in
chains and keys are in one-to-one correspondence; the answers of `hashtab_stat`
follow by counting places chain by chain. The theorem assumes that there is a key
and a datum: an insertion that is refused in `HashTab` names neither or only the
key, while in `Dict` it is of both.

### MD5

From `Md5Assumption`, `StructureProofs` proves `DigestCorrect` (`DigestsInput`), for any
block size and word size, and a range of a word that is a multiple of 8. `Md5Inv`
says that a context has `Taken` in the input so far; beyond the property, that
`md_total` is the number of bytes given to `process_block`, in two words. From that
follow, by arithmetic with quotients and remainders, that the carry between the
words is right (`CountIsExact`), that the masks and shifts of `md5_finish` give
the count in bits (`BitsAreExact`), and that the padding computed from what is in
the buffer is the padding of the whole input (`PadIsExact`). `BufferFilled` and
`RestTaken` follow `md5_process`: a piece that does not fit into the buffer leaves
it empty, so that what is left of the piece overwrites nothing.

### Model-checked only

- All liveness properties: fairness is out of the prover's reach.
- `ImplementsLists`: the sequence of a list (`Path`) and the deletion of `Lists`
  (`Without`) are defined with `SelectSeq`, which the prover neither expands nor has
  facts about. What it rests on, that the pointers form rings and each ring has one
  head, is proved (`RingsCorrect`).

The runs of violated properties are counterexamples and need no proof.

## Not modelled

- The rounds of `process_block` and `md5_get_result` (32-bit arithmetic), and the
  conversions of a digest to and from hexadecimal.
- Pieces of nearly 2^32 bytes in `md5_process`, for which `in_block + len` wraps
  (`md5.c:328`): excluded by `Md5Assumption`.
- `__recv_all`, which has no caller; managers without a port; calls with NULL
  arguments; failures of `malloc` where the code does not go on.
- Example programs and tests: they are users of the library.
- What a second `hermes_shutdown` does with the pool that the first has freed
  (the model stops at "undefined"), sockets leaked by the retry loop of
  the listener, and the unlock of a mutex in a freed endpoint (`hermes.c:202`):
  listed as hazards with the reason.

## Plan

1. Done: `WorkQueue`, `TPool` with safety, liveness, refinement and proofs;
   `HmsServer`; `MsgMap`, `HmsMsg`; `HmsHeader`, `HmsParser`, `HmsSession`;
   `HashTab`, `HmsList`, `Md5` with `Dict` and `Lists`.
2. Done: proofs of every safety invariant that a run checks, in all modules, of the
   action properties `IterationComplete` and `SendResult`, and of the refinements
   `ImplementsWorkQueue`, `ImplementsTPool`, `ImplementsMap` and `ImplementsDict`.
3. Left: `ImplementsLists`, for which `Path` and `Without` would have to do without
   `SelectSeq`, and the liveness properties.
