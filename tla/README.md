# zkclient in TLA+

zkclient is a command line client for ZooKeeper written in C. The core of this
directory is the part of it in which things happen at the same time: one
`zk_client`, shared by the main thread and by the ping threads it starts, one
socket at a time, and a server that may answer late, with an error, in pieces,
or not at all. Around it are models of what the core takes as given: the bytes
of an exchange and of the records in it, the choice of a server, the timing of
the pings, the nodes on the server, and the lines the user types.

## The system

| part | state | operations | concurrency and failure |
|---|---|---|---|
| exchange (`request.c:42-159`, `conn.c:91-119`) | the socket `c->sock`, `c->last_err` | `send_request`, `recv_response`, `read_socket`, `wait_socket` | every thread uses the same socket; time-outs, end of stream, short reads |
| zk calls (`request.c:169-502`) | the mutex `c->lock` | `zk_create`, `zk_mkdir`, `zk_exists`, `zk_stat`, `zk_get`, `zk_del`, `zk_set`, `zk_get_children`, `authenticate`, `zk_ping`, `zk_close` | some lock, one unlocks instead, two use no mutex; an error reply unlocks twice |
| life cycle (`zkclient.c`) | `state`, `ping_tid`, `sock`, `session_*`, `passwd` | `new_client`, `do_connect`, `reset_zkclient`, `destroy_client`, `do_ping_loop` | `pthread_cancel` without a join, forced unlock, join at the end |
| connection set-up (`conn.c:14-89`) | none | `connect_server`, `host2IP` | unresolved hosts, refusal, time-out |
| command loop (`main.c:133-395`) | `quit`, the status of a command | `main`, `processCommand`, `check_reconnect`, the command functions | decides on a reconnect from `c->last_err`, which other threads write |
| tab completion (`main.c:55-131`) | none | `completion`, `path_completion` | runs an exchange from inside linenoise and looks at no error |
| archive (`recordio.c`) | a buffer with a length and an offset | `oa_serialize_*`, `ia_deserialize_*`, `resize_buffer` | bounds, overflow |
| jute records (`zookeeper.jute.c`, generated) | none | `serialize_*`, `deserialize_*` | errors of one field, uninitialised results |
| utilities (`util.c`) | the counter of xids | `sdssplitlen`, `get_xid`, `logger` | none: the counter is atomic and no xid is ever compared |
| linenoise, cJSON (vendored) | history, JSON trees | editing a line, printing a stat | none that reaches the client |

How they interact: `main` reads a line and calls a command function, which
makes one or more exchanges through the zk calls; after a failure
`processCommand` calls `reset_zkclient` and `do_connect`. `do_connect` opens a
socket, has `authenticate` exchange a ConnectRequest on it and starts a ping
thread, which makes an exchange of its own every sixth of the session time-out.
At the end `destroy_client` sets `state`, joins the ping thread and makes the
last exchange. A thread that is cancelled is not joined, so several ping
threads can exist at once.

What makes each part correct: exchanges on a connection do not overlap; a
thread reads the reply to its own request; a failure leads to a fresh
connection; a connection sees the ConnectRequest first, then, once that was
answered or something else was taken for the answer, requests of the main thread
and of its own ping thread only, and nothing after the closing request; every
command ends.

## The modules

| module | what it is | composed with |
|---|---|---|
| `Exchange` | one exchange on the shared socket, with the server at the other end; all the state threads share | extended by `ZkClient` |
| `ZkClient` | the main thread around its exchanges and the ping threads around theirs | implements `Wire` |
| `Wire` | abstract specification: what a client promises to write on its connections | |
| `SocketIO` | the byte loops of `send_request` and `read_socket` | what `Exchange` abstracts to frames and halves |
| `Archive` | the buffers of `recordio.c`, byte by byte, and how they grow | extended by `Records` |
| `Jute` | the 59 records of `zookeeper.jute.c` as sequences of fields | extended by `Records` |
| `Records` | a record written and read back, and a reply decoded by the call it answers or by another one | |
| `Dial` | the rotation of `do_connect` over the outcomes of `connect_server`, and the descriptors | what `ZkClient` abstracts to `Refused`, `Unresolved`, `NewSocket` |
| `KeepAlive` | the clock of `do_ping_loop` against the session timeout of the server | what `ZkClient` abstracts to a ping at any time |
| `Tree` | what `create`, `mkdir`, `get`, `set` and `del` do to nodes that another client changes too | what `ZkClient` abstracts to a code |
| `Words` | `sdssplitlen` and `sdsfreesplitres` | extended by `Lines` |
| `Completion` | what a press of tab looks for, asks and puts in the line | instantiated by `Lines` |
| `Lines` | the way of a line from the prompt to `processCommand`: completed, split, stripped | composes `Completion` and `Words` |
| `MCZkClient`, `MCRecords`, `MCKeepAlive`, `MCLines` | sets of values for TLC | |
| `ZkClientProofs`, `WireProofs`, `RecordsProofs`, `SocketProofs`, `TreeProofs`, `KeepAliveProofs`, `DialProofs`, `LinesProofs` | theorems | |

### State and code of `Exchange` and `ZkClient`

* `lock` is the owner of `c->lock`. `pthread_mutex_init(.., NULL)` makes a
  default mutex, which does not check who unlocks it (`Unlock`).
* `sock`, `open`: `c->sock` and whether that descriptor is still open:
  `read_socket` closes it at the end of the stream and leaves the number in
  `c->sock`. Connections are numbered in the order `do_connect` opens them, and
  a ping thread has the number of the connection it was started on.
* `up`, `sent`, `reqs`, `inbox`: the connection. A request is its position
  among those written on it: the client never compares an xid
  (`decode_reply_header`), so the position is what relates a reply to a request.
  A reply is two halves, length and body, as `recv_response` reads them.
* `pc[t]` is the control point of thread `t`; `phase` says which of its
  exchanges main is in: `authenticate`, a command, or `zk_close`.
* `my`, `got`, `err`: locals of an exchange.
* `shifts`: the loops of `read_socket` that ended with miscounted bytes, which
  `MaxShifts` bounds. The stream is then read from somewhere inside a frame, and
  a header taken from there is any header (`Spin`, `Leftover`, `Foreign`).
* `last_err`, `state`, `ping_tid`: the fields. `conns`, `retries`, `cmd`, `op`,
  `depth`, `status`: main's locals. `cmds` and `pings` count against bounds.
* `writer`, `unguarded`, `abandoned` are history variables that no action reads:
  who wrote last; whether, since the connection was opened, a mutex was freed
  while another thread owned it or `zk_del` was called; and how many exchanges
  gave up on their reply.

### Actions and code of `Exchange` and `ZkClient`

An action is what a thread does between two points where another thread can
make a difference: a call to poll, read or write (with the assignments that
follow it), a lock or an unlock, an assignment to a shared field. `Send`,
`Poll`, `ReadLen`, `ReadBody` and `Spin` are `send_request` and `recv_response`
in any thread. The seven `zk_*` calls of a command have one shape: lock, send,
receive, unlock, `decode_reply_header`, the body, and under the label `ERROR` an
unlock. They share `Acquire`, `Received`, `Failed`, `Decode`, `Undecodable` and
`Release`, which name where they differ: `zk_del` unlocks instead of locking,
`zk_exists` takes ZNONODE for an answer, and a body that does not decode is an
error for `zk_create` and `zk_set` only.
`map` gives for each of these a call that shows it. `MkdirStep`, `GetStep`,
`Completed` and `Return` are what the command functions do with the result,
`Check` the end of `processCommand`. `TryLock` to `Close` are
`reset_zkclient`, `Connect` to `Authed` `do_connect`, `Stop` to `Shut`
`destroy_client`, `PTest` to `PSleep` `do_ping_loop` and `zk_ping`, and `Die` a
cancelled thread at a cancellation point.

Undefined behaviour is a choice of outcomes: `c->last_err` is not initialised,
so it starts with a code that `check_reconnect` lists or with another; a reader
that finds half a frame goes on reading or brings the process down (`Torn`:
`read_socket` counts a failed read as -1 bytes), and the loop that goes on ends
with the stream or once the bytes it asked for and one more for each -1 are
there (`Spin`); a reply of the wrong kind may decode all the same, fail to, or
crash on a string that was never set (`Undecodable`, `Authenticated`). A write
on a connection that the server has reset may raise SIGPIPE, which the program
does not handle (`Send`).

The server is not in this repository. It answers the requests of a connection
in order, with success or with a code, in one piece or two, and goes away at
any moment, possibly with what it had sent. The codes are `NONODE`, which
`zk_exists` and `zk_mkdir` look at, and `FATAL`, any code of `check_reconnect`.
A ConnectResponse carries no code; a ping is not answered with `NONODE`.

`Wire` has no threads, mutexes or calls. Its stage of a connection tells apart a
ConnectRequest that was written ("greeted") from one that was answered. When
`recv_response` fails, `authenticate` takes its status from `c->last_err`, which a
cancelled ping thread that still decodes a header may have set to `ZK_OK`
meanwhile: `Report` is that thread's step and "misled" the stage in which it was
taken for the answer. `OpenWire` is possible from these two stages and no other.

Definitions marked "Fault" are variants of an action with a bug in it. Nothing
uses them; putting one in the place of the action shows that the property it is
about can fail.

### The other modules and the code

`SocketIO`. A byte is its position in its frame, so that a repeated or missing
one shows. `Write(k)` is a write that takes `k` bytes, `WriteBlocks` one that
returns -1, which `send_request` adds to `w_bytes` like any other result; `Read`
and `ReadBlocks` are the same for `read_socket`. `Poll`, `ReadLen`, `ReadBody`
and `Return` are `recv_response`; a length decoded from other bytes than a
length can be anything (`Decoded`). Both ends are followed to the first exchange
that fails, since what comes then is the subject of `ZkClient`.

`Archive`, `Jute`, `Records`. `len`, `off` and `block` are the two fields of
`buff_struct` and the size of the memory at the third. A serialize function is
`Put` (the compare), `Double` for each turn of the loop of `resize_buffer`,
`Realloc` or `NoMemory`, and `Copy`. The deserialize functions are one step
each. A NULL string is written as the length -1 with its status `ignored`: a
record in which the block was `lost` that way goes on, and its next copy has no
block to go to (`CopyNowhere`); when a later realloc brings memory, what it
holds is arbitrary (`Junk`). `size` is the length a frame was announced with. A
negative one is a frame without bytes, of which the compare of an int with a
`size_t` lets a field be read (`Short`, `Outside`, `ReadOutside`); the compares
of a bool and of a string's or buffer's content are of ints. A record is the
list of its fields, since `start_record` and `end_record` are empty and the
functions for nested records call one another in place; `todo` is what is left
of it, and a vector puts the fields of its elements there once its count is
known, and after them the end of the vector (`WriteEnd`, `EndVector`). `trail`
is a history variable, which no guard reads: the fields that were left, the
values and the number of bytes, before and after each field that was written.
`rc` is the status that `rc = rc ? rc : ...` passes on: after an error fields
are skipped (`Skip`), up to the end of a vector, where `rc = in->end_vector(..)`
forgets the error (`EndVector`). `Outcome` is what each call of `request.c`
returns then.

`Dial`. An attempt is one turn of the loop of `do_connect`, with one action per
outcome. Their return codes do not match: -1 from `connect_server` is taken
for a socket, and so is a connect that timed out, because `wait_socket` returns
`ZK_SOCKET_ERR` and `ZK_ERROR` is looked for. Such an attempt fails in
`authenticate`, which costs a descriptor in two cases (`Unknown`, `Deaf`).

`KeepAlive`. A tick is the 200 ms of `usleep`. `Test` to `Wake` are
`do_ping_loop` and `zk_ping`, `Authenticate` to `Refused` `do_connect` as far as
the timeout goes, `Request` to `Check` a call of a command or of the completion,
`Reconnect`, `Open` and `Cancel` `check_reconnect` and `reset_zkclient`. `lock`
is the mutex as it is: `zk_del` frees it instead of taking it (`Request`), an
error reply frees it a second time (`Check`), `reset_zkclient` frees it whoever
has it (`Open`), and so an exchange may go on without it. A thread that is
cancelled after its exchange still unlocks and stores `last_ping`, at any time
later (`late`, `UnlockLate`, `StoreLate`); one in its exchange, or about to be,
dies with the mutex if it has it (`"gone"`). A request arrives or vanishes,
because its write failed or the connection was broken (`Arrives`, `Vanishes`);
the loop stores `last_ping` either way. `Tick` is possible when every thread
waits or sleeps, and nothing bounds how long they do: `read_socket` has no
time-out of its own. `hitch` is a history variable: in this session a request
vanished, an exchange or a sleep took longer than `Hold` and `Jitter`, or a
cancelled thread kept the mutex for a tick.

`Tree`. A path is its depth on one branch, because `zk_mkdir` only ever goes to
a parent and back; `create` may be typed without data; `at` is the call of
`zk_mkdir` that is running, `again` its second create, `return` a call that
hands a failure down. `Stat` and `Get` are the two requests of `getCommand`,
`Lost` a request without a reply, carried out or not. `zk_get_children` does not
change a node and is left to `ZkClient`, `Records` and `Completion`.

`Words`. A token is the pair of indices it was copied from. `Grow`, `Scan`,
`Last`, `Cleanup` and `Free` are the parts of `sdssplitlen` and its counterpart.
A malloc that fails ends in `"crash"`: for the array NULL is returned without a
count, which `main` reads all the same (`Enter`), and a token is copied before
its address is looked at (`CopyToNull`). `Completion` goes through `completion`
and `path_completion` one loop turn at a time, with the indices `i` and `j` of
the code; a directory can have any children, and linenoise puts the only
candidate in place of the line (`Show`). `Lines` puts the two together: a line
that was completed, or any other one, is entered and split as `main` does it,
and `Stripped` is what `processCommand` makes of a token.

## The runs

| run | instance | question | distinct states |
|---|---|---|---|
| `commands` | every typed command, two of them, two servers, both codes, replies in pieces, no pings, mkdir one level deep | `TypeOK`; `SoundConnection`: a command never starts on a closed descriptor or with a reply outstanding | 0.62 million |
| `sharing` | `ls`, `del`, completion; one of them, two pings | `SoleLivePing`, `ExchangeExclusive`, `OwnReply`, `WholeFrames` | 0.74 million |
| `wire` | `mkdir`, `ls`, `quit`; two of them, two servers, a ping, both codes | `ImplementsWire`, `CommandReturns` | 0.81 million |
| `orphaned_lock` | `ls`, two of them, a ping | `LockSurvivesCancel`, violated | |
| `lingering_ping` | `ls`, a ping | `PingThreadGone`, violated | |
| `records` | all 59 records, the reply to each of six calls decoded by each, three requests with their header; two ints, a long, two strings, a NULL string, NULL buffers, vectors of 0 to 2; whole, cut by 6 bytes, or of a negative length; from a block of 4 bytes | `RoundTrip`, `ShortNoticed`, `SilentLoss`, `WithinFrame`, `TypeOK`, `WithinBlock`, `NoOverflow`, `SerializeReturns` | 0.86 million |
| `socketio` | two exchanges; length of 2 bytes, request of 3, body of 2; two would-blocks in each loop | `TypeOK`, `WireWhole`, `Surplus`, `ReplyWhole`, `ReadReturns` | 34 000 |
| `tree` | branch of 3, two values, two changes by the other client | `TypeOK`, `MkdirOutcome`, `BoundedRequests`, `StopsAfterLoss`, `GetShows`, `GetCrash` | 0.10 million |
| `keepalive` | servers that grant 1 s, or 1 s to 6 s; `Hold` and `Jitter` of one tick, 33 ticks, two sessions | `TypeOK`, `SessionKept` | 5.8 million |
| `lines` | lines of up to 11 characters to split; of up to 6 characters over one letter, blank, tab, slash to complete | `TypeOK`, `InRoom`, `Split`, `Freed`, `IndicesInLine`, `Extends`, `NamesChild` | 0.11 million |
| `trailing_slash` | the same | `NoSlashAtEnd`, violated | |
| `dial` | 3 servers of 7 kinds, 4 descriptors, two broken connections | `TypeOK`, `GoodFound`, `EachOnce`, `OnlyFailuresLeak` | 36 000 |

`wire`, `records` and `socketio` use `FairSpec`, the others `Spec` (`Prompt` in
`Lines`). Deadlock is checked for `records`. In the runs of `ZkClient` the process
ends and the user may stop typing; in `dial` the process may exit, and in `tree`
and `lines` it may crash; in `socketio` a connection is followed to its first
failure; in `keepalive` the clock stops at its bound.

`sharing` needs no second command: a command and a ping can collide, a failed
ping or completion leaves its reply to the next exchange, and an error reply
frees the ping's mutex. Two connections (`MaxConns = 2`) let the ping thread of
the first one linger in the second. `SoundConnection` leaves out
sessions with a ping or a completion on purpose: neither reconnects
after a failure, so with them a command can start on a connection that is
closed or has a reply outstanding. `OwnReply` says what happens then. `commands`
uses replies in pieces because `TypeOK` and `SoundConnection` have to hold on
torn frames too; `sharing` delivers replies whole because in it a torn frame is
to be the sign of a lost mutex.

The bounds: `MaxConns` sockets, `MaxCmds` lines, `MaxPings` pings over all ping
threads, `MkdirDepth` missing ancestors, `MaxShifts` loops that end with
miscounted bytes. Each is a guard of one action: `Dial`, `Enter`, `PTest`,
`Climb`, `Spin`. One shift is enough for every reply after it to be out of step.
At the bound on connections `do_connect` goes on as if the servers refused. In
`commands` a `mkdir` climbs one level; in `wire` it does not climb, since a
level adds exchanges like the others to a run whose liveness check is costly.

The other bounds. `records`: two characters or elements are enough for a field
to be read at the wrong place; a cut of six bytes ends a record inside one of
its last fields, a long or the field before an int, and of a short record leaves
a negative length, as one of 200 does of every record; the theorems have every
cut. One NULL string (`MaxNulls`) is enough to lose the block without notice
before any later field; what a new block then holds is one byte value (`Junk`).
A byte has eight values to keep ints small, the proofs have any number. A block
of 4 bytes must grow for almost every field, once or twice, where the code's 128
would never grow on a short record. `socketio`: two bytes per part allow every
split of a write and read; a second exchange shows what the first leaves in the
stream. `tree`: depth 3 is the first where a call of `zk_mkdir` has a parent and
a child; two changes can make and remove a node between two requests.
`keepalive`: 33 ticks are more than six sessions of 1 s and a session of 6 s,
which would have timed out after 30; the second authentication (`MaxSessions`)
is a reconnect with the timeout changed, or one after a refusal. Both are
`Ample`. `lines`: 11 characters are six tokens, one more than the array starts
with; the check that makes it grow comes at the fifth. For completion, six
characters are a command, a blank and a path of up to four, with every doubling
of slashes and blanks. `dial`: 4 descriptors run out when all three servers of
the first and second connect leak one.

### Fairness

`FairSpec` asks that a thread that can take a step takes one: main while it is
not waiting for the user, and each ping thread. This is what the scheduler of
the operating system gives threads. A step of poll is possible whether the reply
comes or not, because poll times out, so nothing is asked of the server. A mutex
is not fair, and two threads that compete for it for ever could starve one; ping
threads sleep 200 ms between attempts and lock once in a sixth of the session
time-out, which the bound on pings stands for. Two situations are excepted by
`Wedged`, because in them a command really does not return: the thread that
owned the mutex was cancelled, or a thread reads on and on in a torn frame.

`FairSpec` of `Records` asks that the code of an archive goes on: a single
thread runs it and it waits for nothing. Only the start of a call is left to
the caller. `FairSpec` of `SocketIO` asks the same of the loop of
`read_socket`, which polls a socket that does not block; nothing is asked of
the server, so `ReadReturns` excepts a loop that met a would-block and whose
server stays up: it waits for a byte more than was sent.

### What the three violations show

`orphaned_lock`: `reset_zkclient` frees the mutex (`zkclient.c:44-45`) and then
cancels the ping thread (`:48`). Between the two the thread can lock the mutex;
it then dies in poll as its owner, and the next command waits for ever. The
comment there says that the unlock is done to prevent this. The model has the
ping thread lock in `zk_ping`, as the code does, with no cleanup handler.

`lingering_ping`: the comment says "wait for ping thread", the code cancels and
goes on. A thread that is cancelled runs to its next cancellation point, so when
the next connection authenticates the old thread may be there, about to lock,
unlock, or write `c->last_err`. `ExchangeExclusive` and `ImplementsWire` show
what this does not do: the old thread never writes or reads on the new socket.

`trailing_slash`: `path_completion` removes one slash at the end of the
directory it asks for. With `ls /a//` before the cursor it asks for `/a/`,
which its own comment says is not allowed; the error is dropped and nothing is
completed. `processCommand` strips all of them. `NamesChild`, which holds, says
that for other lines the two agree on the node. While it was stated without its
exception TLC showed `ls //` being completed to `ls //a`, a line that the server
rejects once it is entered.

### What the properties of the other modules rule out

* `WireWhole`, `Surplus`, `ReplyWhole`: partial writes and reads lose nothing,
  and this fails exactly when a result of -1 is counted: each one puts one byte
  too many on the wire, and a reply after one is out of step. This is when the
  abstraction of `Exchange` to whole frames is right, and where its torn frames
  come from.
* `SilentLoss`: a call that says OK on a body it could not read is one of
  `zk_exists`, `zk_get`, `zk_get_children`, or hides it in a vector. This is a
  list of what the code really does, and `zk_create`, `zk_set` and
  `authenticate` are not on it.
* `MkdirOutcome`, `BoundedRequests`, `StopsAfterLoss`: whatever another client
  does, `mkdir` ends, reports success only for a node it made, and fails without
  a reason only if there was one.
* `GetShows`, `GetCrash`: `get` prints what the node held during the command,
  and the NULL it may write through needs a change between its two requests.
* `GoodFound`: despite return codes that do not match, the client exits only
  when no server of the list would have taken it or the descriptors are used
  up; `OnlyFailuresLeak` says which attempts use them up.
* `SessionKept`: holding the mutex, freeing it for another thread, changing the
  timeout, and unlocking and storing `last_ping` late do not make a session
  expire by themselves. It takes a hitch, which is named: a request that did not
  arrive, an exchange or a sleep slower than `Hold` and `Jitter`, or a dead owner of
  the mutex. A session must also be long against these two (`Ample`): with a
  short timeout, in whole seconds divided by 6, a ping is late by a sleep and an
  exchange of main.
* `RoundTrip`, `ShortNoticed`, `WithinBlock`, `WithinFrame`: the serialize and
  deserialize functions agree except on a NULL string, and leave their memory in
  exactly two cases: after the block was lost for such a string, and in a frame of
  a negative length.

## What is proved

Every safety property that a passing run checks is a theorem. The runs show it on
an instance, the theorem for all values of the constants that satisfy the
assumptions named here.
A helper invariant that needs a name of its own stands beside the properties of
its module, and TLC has checked it on that module's run before it was proved; a
few that only add types are in the module of the proofs.

`ZkClientProofs` and `WireProofs`, from `ExchangeAssumption` and
`ClientAssumption`: bounds are naturals, there is at least one server and one
connection.

* `TypeCorrect`: `Spec => []TypeOK`. One lemma per group of actions.
* `Exclusion`: `Spec => [](SoleLivePing /\ ExchangeExclusive)`. Neither is
  inductive. `LockInv` adds which control points main can be at in which phase
  (`PhaseInv`); that no ping thread is live, that is started and not cancelled,
  while main works without the mutex (`AloneInv`); that while `unguarded` is
  false, main owns the mutex during a command's exchange and a live ping thread
  during its own (`MutexInv`); and that `zk_del` makes `unguarded` true
  (`DelInv`). The hard steps are a second unlock by main, after which
  `unguarded` has to be true if a ping thread owned the mutex; the unlock of a
  cancelled thread, which can free main's mutex; and `Close`, where `unguarded`
  becomes false again because nobody is left. `SolePing` follows.
* `Implementation`: `Spec => ImplementsWire`. The mapping reads the stage of a
  connection from `phase`, `sock` and the number of requests written, and the
  keeper from `ping_tid` if that thread is live. `WireInv` says which connection
  and which count go with which phase, and that only threads up to `ping_tid`
  are cancelled, so that a new one is not. With `LockInv` each action is then a
  step of `Wire` or leaves its variables alone. `ReplyInv` says when
  `authenticate` has a reply, which tells the two ways to `OpenWire` apart.
* `OwnReplies` and `FramesWhole`: `Spec => []OwnReply`, `Spec => []WholeFrames`.
  Nothing in an exchange says which reply it is reading, so the invariant is on
  all that the server sends. Each half of a reply has a place in that stream
  (`Place`); `InSequence(k)` says that what is unread, and what the server still
  owes, goes on without a gap where the exchanges that ended left off. A thread
  is two halves, one or none before the end of its own reply (`Progress`), and by
  `LockInv` there is one such thread at a time while `unguarded` is false
  (`StreamInv`). An exchange that gives up moves the end of what was read by a
  reply, and `abandoned` with it. All this is until a loop of `read_socket` ends
  with miscounted bytes, for replies in pieces as well (`InStep`, `ShiftInv`,
  `RestInv`).
* `CommandsStartSound`: `Spec => []SoundConnection`. `SoundInv` follows a failed
  exchange to the end of its command: it leaves `"SOCK"` in `err` and in
  `last_err`, the command functions hand that on, `check_reconnect` sees it, and
  what `authenticate` runs on is a new connection; a miscounted reply is excepted,
  which no failure tells of. It needs `StreamInv` nowhere,
  but that no ping thread is in an exchange, since one writes `last_err` too.

`RecordsProofs`, from `ArchiveAssumption` and `RecordsAssumption`: the growth of
a buffer to a record of `MaxRecord` bytes stays in the range of an int, as it
does in the code, where a line has at most 4095 bytes; a schema is a sequence of
fields, none of which is the end of a vector, as in `Jute`; ints, longs, and the
lengths of strings and vectors are such that they fit the `int32_t` or `int64_t`
of their field, and the characters of a string fit a byte; a bare record is read
as what it is. Sizes, schemas and values are otherwise arbitrary.

* `ArchiveTypes`, `CopiesInBlock`, `LengthsInRange`, `ReadsInFrame`. `OutInv`
  says what is known of the block at each point of a serialize function: between
  two of them the block is as long as `len`; while it grows, `newlen` is enough
  for the piece and at most two records long, so that doubling a length below it
  stays in range. `DriverInv` ties this to the status that keeps further fields
  out of an archive that lost its block, unless nobody looks at it (`lost`).
  `FrameInv` keeps `pos` in the frame: no field moves it past the bytes there are,
  and of a frame of a negative length only a bool is refused; any other field ends
  the process.
* `LossesNoticed`: `Spec => []SilentLoss`. `MissedInv`: in a record without a
  vector all that is left to read are fields of the schema, and then the status
  is an error from the first field that was missed on. In a record with one the
  end of the vector forgets it, which is why the property excepts these.
* `EncodeDecode`, of the operators alone: `Decode(Encode(n, w)) = n` for every
  int of `w` bytes and every base, where both are recursive functions. The
  induction is over the bytes. The library's induction theorems have an operator
  as a parameter, so it is stated with a set instead (`Induction`), from the
  least element of a set of naturals (`WFMin` of `WellFoundedInduction`).
  `Iteration` and `Determined` derive that a recursive function is what its
  recursion says, and `RestInRange` that what is left of an int of `w` bytes
  without the last `w - 1` of them is an int of one byte, which has the sign.
* `RecordsReadBack` and `CutsNoticed`: `Spec => []RoundTrip` and
  `Spec => []ShortNoticed`. Neither is inductive: while a record is read nothing in
  the properties says what the bytes still ahead are. `trail` does. `IsTrail`: it
  begins with the whole schema and no bytes, and `Follows` from one point to the
  next by the bytes of one field (`Spans`, `Holds`), of an element count, or of
  nothing at the end of a vector. `WriterInv`: the trail of the writer ends at
  the fields it has left, over the bytes that are or will be copied (`Stream`), so
  the growth of the buffer between two bytes of a field does not disturb it
  (`TrailGrow`, `ContentWritten`). `ReaderInv`: the trail over the delivered bytes
  goes to the last one, and the reader, until it misses a field, is at one of
  its points, with the fields, values and offset of the writer there.
  `FieldRead` is the step: a deserialize function comes to the next point, or
  the next point lies past the cut. So a reader that finishes without an error
  is at the last point, where its values are those sent; and it gets there only
  if no byte is missing. A NULL string is a field that no reader passes, so the
  two theorems have it as a case of its own. `BytesInv` has the types this needs.

`SocketProofs`, for all sizes of frames:

* `RequestsOnTheWire` and `SurplusOnTheWire`: `SendInv`, the number of bytes on
  the wire is `w_bytes` plus the would-blocks it took back.
* `RepliesWhole`: `RecvInv`, without a would-block the unread bytes are the
  ones that follow what the reader has (`Aligned`), or an error of read ended
  the stream (`Lost`).
* `CountersInBounds`: `Counted`. Neither count passes the frame, and each falls
  below 0 by as much as was taken back. How far `r_bytes` can fall below 0 depends on an
  error that may still be pending on the socket, which is read once, and on
  every call of `read_socket` starting at 0.

`TreeProofs`, for all depths and any changes by the other client:

* `MkdirOutcomes` and `MkdirRequests`: `MkdirInv` says that on the way up
  nothing between here and the target exists, and on the way down the parent
  does, unless the other client changed something; and how many requests that
  makes. `TreeTypes` are the types.
* `GetPrints` and `GetCrashes`: `GetInv`. What the node holds now is among what it
  held during the command, and what `zk_exists` saw is out of date only after a
  change by the other client.
* `LossStops`: `Spec => StopsAfterLoss`, an action property. `LossInv`: after a
  lost reply every call of `zk_mkdir` on the way only returns.

`KeepAliveProofs`, for all timeouts that servers may grant, all lengths of
exchanges and sleeps and any number of requests that vanish.
`KeepAliveAssumption` only has the types; that a session is long enough, and
that nothing happened in it that breaks it, are premises of the property
(`Ample`, `hitch`).

* `KeepAliveTypes`: a thread that is in no exchange does not own the mutex. The
  converse is false of the code and not claimed.
* `SessionsKept`: `TimingInv`. All that is or will be stored as `last_ping` is a
  second before the server last heard of the client (`Heard`), the thread and
  the server have the same timeout (`Phases`), the wait for a reply starts with a
  request (`Begun`), and wherever in its loop the thread is, the silence is at
  most an interval and a sleep, or an exchange, old (`Timely`). `Timely` needs no
  owner of the mutex: a ping thread that is kept from it is kept by one exchange
  of main, whichever thread freed it in between.

`DialProofs`, for any number of servers and descriptors of at least one:

* `DialTyped`, `ServersOnce`, `NoGoodServerMissed`. `TurnInv` describes the set of
  servers that had their turn by the two counters of `do_connect`: those before
  `start`, around the end of the list, one for each turn used up. `start` is
  therefore never one of them, which is what `CountInv` adds up; and when no
  turn is left the set is the whole list, so that with `MissInv` a client that
  gives up has missed no good server.
* `LeaksCounted`: `LeakInv`, the same count at the points where no connection is
  up: a socket is given a number that no leaked one has, and is closed once.

`LinesProofs`, from `WordsAssumption` and `LinesAssumption`: letters are not
blanks, tabs or slashes, a name has at least one, and the bound on lines leaves
room for a name after what was typed. Lines of every length, any letters,
commands, names and children:

* `WordsTypes`, `RoomForTokens`, `TokensAreWords`, `TokensFreed`, for
  `sdssplitlen` alone (`Words`), and `PromptSplits`, all four at the prompt, with
  lines that were completed. The invariant says that the tokens are the words
  before `start`, and that no separator is between `start` and `j`.
* `IndicesStay` and `CompletionExtends`: `TabInv`. The loop of `path_completion`
  that looks back for a blank has no other way to stop inside the line than that
  there is one; `TabInv` keeps it before `i`.
* `ChildNamed`: `Prompt => []NamesChild`, across three functions that cut the
  path out of the line in three ways. `PathInv`: the blank at `i` is the last
  one typed, the path is all from there to the slash at `j`, and what is shown is
  the line to that slash and a name. `EnteredInv`: the tokens are those of the
  line shown. From these, the last token begins after `i` and is that directory
  and the name; a name ends in no slash, so nothing is stripped; and a slash put
  after the trimmed path gives the directory back, unless two stood there. The
  last is where the exception of the property is needed.

Only model-checked:

* The liveness properties `CommandReturns`, `SerializeReturns`, `ReadReturns`, under
  fairness: neither ENABLED nor fairness can be reasoned about with the provers
  used here.
* The properties of the three runs that end in a violation.

## What is not modelled

* In `ZkClient`: lines that processCommand answers without the client, which
  are blank or have too few arguments, after which it does not even look for a
  reconnect; and the descriptor that `read_socket` closed and `c->sock` still
  names: a later close of it is taken to be harmless. `Dial` has the numbers,
  with one thread.
* The date: `now` is an int, which the clock of `KeepAlive` does not reach.
* The `allocate_` and `deallocate_` functions of `zookeeper.jute.c`. A free of
  what was never read is an outcome of `Undecodable`.
* `set_connect_timeout` and `set_socket_timeout`, which nothing calls.
* `getopt`, the usage, the history file, the printed text, the logger,
  `ll2string`, `get_xid` (no xid is compared), and failing `malloc`s of
  anything but the growth of an archive, `sdssplitlen` and what `ia_deserialize_buffer`
  is asked for with a negative length.
* Of the server: watches, access lists, ephemeral nodes, versions. `set` and
  `del` drop the version that was typed.
* linenoise and cJSON are vendored libraries. Their use is modelled where
  `main.c` relies on it: a typed line, a press of tab, a single candidate.

## Plan

What is left: the descriptors of `Dial` under the threads of `ZkClient`, that
is, a ping thread that writes to a number which was given out again.
