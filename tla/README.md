# SunPush: models, checks and proofs

SunPush is a push server. Android clients keep a TCP connection to it
(`src/sptrunk/PushServer`), it keeps one to a web server (`src/sptrunk/_Web`), and it passes test
orders from clients to the web server and the answers back. It stands on its own asynchronous socket
library (`src/sptrunk/Common/AdvanceLib/Socket`, over boost::asio) and a utility library
(`src/sptrunk/Common/Utility`), much of which the server does not use.

This directory holds TLA+ modules of that program, the TLC configurations that check them and TLAPS
proofs about them. `PROJECT.json` lists every component, run, mutant, mapped definition, finding,
hazard and theorem; this file explains them. Paths below are relative to `src/sptrunk/`.

- [The system](#the-system)
- [The modules](#the-modules)
- [What the runs check](#what-the-runs-check)
- [What is proved](#what-is-proved)
- [Findings](#findings)
- [What is not modelled](#what-is-not-modelled)
- [The plan](#the-plan)

To check a module: `tlc -config session_safety.cfg MCSessionLayer.tla`; to check a proof:
`tlapm SessionLayerProofs.tla`.

## The system

| component | state | operations | talks to |
|---|---|---|---|
| Session layer: `Session.cpp`, `Acceptor.cpp`, `Connector.cpp`, the close calls of `Socket.cpp` | object pool and id map of sessions, status, owner and timer of each, counters | accept, connect, receive, write, close, exit and destroy handlers, lookups by id | io_service threads run its handlers; callbacks into the server; called by id from every thread |
| Message reader: `Session::start`, `_receive_sp`, `handle_read_sp` | one message buffer, `m_nSmallBufferModeReadLeave`, `...ReadOffset` | the completion handler of a receive | the socket; `OnReadComplete` |
| Send path: `Send`, `Session::Send`, `handle_write` | a buffer on the caller's stack, traffic counters | one asynchronous write per message | the socket; called from every handler |
| Service start and stop: `StartSocketService`, `StopSocketService`, `NetThread.cpp` | threads, stop flag, the stopped flag of io_service | rounds of spawning, running and joining; stop | runs every handler of the session layer |
| Push server: `ClientAcceptor.cpp`, `WebSvrConnector.cpp`, `MsgHandler*.cpp`, `UserManager.*` | `g_iWebServerConID`, a record per user | one handler per message type, kick | session layer; the peers |
| Web server: `_Web/*.php` | its one connection | read a message field by field, answer it | the push server |
| Android client: `_Android/.../*.java` | its one connection | read a header, read a body, handle it | the push server |
| Memory pools: `MemBand.h`, `MemoryPoolFactory.h`, `SafeMemoryPoolFactory.h` | list of bands, current band | Initialize, Release, Alloc, Free | no one (library) |
| User records: `UserManager.h` | a pool, two maps into it (by connection, by account), two counts | add in two phases, remove, overwrite, find | push server |
| Linked lists and hash table: `nnode.h`, `nlist.h`, `nstrnode.h`, `nstrlist.h`, `nhashtable.h` | the links and names of nodes, the ends of lists | insert, remove, rename, file, find | no one (library) |
| List over a pool: `List.h` (`CList`) | head, tail, count, nodes of a pool | add, insert, delete at either end, at a place, all | memory pool |
| Array: `Narray.h` | one allocation, a count, how it grows | push, insert, erase, set, reserve, fill, copy | no one (library) |
| Line buffer: `nlinebuffer.h` | a ring of lines | put text, read lines | no one (library) |
| Timers: `Timer.h` (`Timer`, `RecvTickTimer`) | ticks of a 32-bit clock | arm, poll, move, ask what is left | no one (library) |
| Byte buffers: `ByteBuffer.h`, `WorldPacket.h` | bytes, a place to read and one to write | append and read values, put, resize, reverse | no one (library) |
| Strings: `Nstring.h` | memory in the object or on the heap, a length | set, append, cut, trim, substitute, split, encode | no one (library) |
| Ciphers: `MessageEncrypt.cpp` | two tables, a place in each | encrypt, decrypt, look ahead | no one (compiled out) |
| Console, log, stack walker, file reader, `IOPacket`, locked pools, database connector | | output, third-party, or code that no build has | |

Behaviour that is hard, and what makes each part correct:

- **Session layer.** Every handler runs on any of five threads. Accept, connect, receive and write
  handlers of a session go through its strand; the wait handlers of its timer do not, and neither do calls by
  id from handlers of other sessions. `handle_exit` tests and sets the status without a lock; one timer
  serves two purposes, and re-arming it queues the cancelled handler, which does not look at the error.
  Correct means: a lookup never finds a destroyed session; a session goes forward through its life
  only; one close makes one `OnClose` and one destruction; nothing refers to a session when it is
  destroyed; the counters agree with the sessions; a close completes.
- **Message reader.** Messages come in pieces, too long, empty and just fitting. Correct means: the
  bodies handed out are those the peer sent, whole and in order; no receive leaves the buffer; every
  message that fits is handed out in the end.
- **Push server.** An order crosses two processes and three queues, and finds its way back by a
  connection id that has been to the web server; clients are kicked meanwhile, the web server may die
  or never answer the connect. Correct means: each client's orders are answered in turn, each at most
  once, to that client and no other; a kicked client is closed and freed.
- **Memory pools.** A freed object goes to the current band and not to the one it came from, and both
  Alloc and Free look one band further and give up. Correct means: no object is handed out twice, none
  is lost, and neither call fails.
- **Send path.** `Send` gives `async_write` a buffer on its own stack and returns; several threads write to one
  socket. Correct means: a peer has the messages in order and whole; the totals are right.
- **Lists and hash table.** Nodes are the clients' own objects: they sit in lists that a table thinks it owns, and
  clients rename them, take them out and insert beside them. A list's ends are its own fields read as nodes. Correct
  means: links mirror each other, no list loses or shares a node, a filed node is found by its name.
- **Start and stop.** A round of `StartSocketService` may end by an exception, by the service running dry or by a stop,
  and the next begins beside workers of the last, because the joins use thread objects that are gone. Correct means: the
  rounds have the threads that were asked for, what is ready is run, and a stop ends all of it.
- **User records.** Two maps lead into one pool; an `AddUser` that fails has already let the user in and named the account
  in its record. Correct means: an account that was claimed once leads to its user, the counts do not fall behind.
- **The wire.** Three programs in three languages each have their own table of the messages, write a header of their own
  making, and read in portions of their own. Correct means: each handles what the other sent, as it was sent.
- **Library.** What makes these parts hard is two accounts of the same thing: links forward and back (and the pool), the
  kept length and the 0 in the text, the tick and the time, the position read and the one written, the places of
  the two ciphers. Correct means: they agree, or the disagreement is known and harmless.

## The modules

| module | what it is |
|---|---|
| `SessionLifecycle` | abstract: the phases of a connection id and the directory of ids |
| `SessionLayer` | the session layer, statement group by statement group, on several threads |
| `MCSessionLayer` | symmetry, and a claim of a comment that the code does not keep |
| `SessionLayerProofs`, `SessionCloseProofs` | the inductive invariant and the refinement; how closes are served |
| `FrameReader`, `MCFrameReader`, `FrameReaderProofs` | the message reader over one peer's stream |
| `PeerStreams`, `MCFramesPeers` | what the three programs write to each other and in which portions they read it; proofs in `FrameReaderProofs` |
| `OrderService` | abstract: orders of each client, answered in turn |
| `PushServer`, `MCPushServer`, `PushServerProofs` | all message handlers of both servers, over `SessionLifecycle` |
| `UserRecords`, `MCPushUsers` | `UserInfoManager`: the records and the two maps into them; proofs in `PushServerProofs` |
| `ServiceThreads`, `MCPushService` | the threads of the network: rounds, workers, joins, stop |
| `SendPath`, `MCSendPath`, `SendPathProofs` | `Send` and the write side of sessions, on several threads |
| `MemoryPool`, `MemoryPoolProofs` | the two pool factories over their bands |
| `PoolList` | `CList`, over the pool of `MemoryPool`; proofs in `MemoryPoolProofs` |
| `Arrays`, `LineBuffer`, `Timers`, `ByteBuffers`, `Strings`, `Ciphers` | the parts of the library they are named for |
| `MCContainers` | one run of the library parts from `MemoryPool` on |
| `LibraryProofs` | proofs about `ServiceThreads`, `Timers` and `Arrays` |
| `NodeSequences` | abstract: lists as sequences of nodes |
| `NodeLists`, `HashTable`, `MCHashTable`, `HashTableProofs` | nodes and lists by their links; named nodes filed by a hash |

`SessionLayer` implements `SessionLifecycle`, and `PushServer` is built on `SessionLifecycle`
(`Lifecycle == INSTANCE SessionLifecycle`): it uses the phases `SessionLayer` is shown to go through
without its threads and timers. `PushServer` implements `OrderService`. `FrameReader` stands beside
them, and so does `SendPath`: `PushServer` takes messages as whole and in order, which is what
`SendPath` establishes while writes are not delayed and `FrameReader` when receives do not fall short; that the bytes of
a message mean the same to both ends is `PeerStreams`. `PoolList` extends `MemoryPool`: its nodes are the objects the pool
hands out, and a deletion gives them back in the same step. The other library parts share nothing.

Some runs hold several parts that do not interact. Their MC modules give each behaviour a `subject`, chosen in the
initial state: the part that takes steps, while the others rest. The state spaces then add up and are not
multiplied, and each part is explored exactly as it would be alone.

### SessionLayer

A session is its connection id: ids are handed out in order by the constructor and never reused.
`FirstId` is 2 and `WebId` 3 because the constructor increments before it assigns and
`NetThreadPorc` listens before it connects. Variables carry the names of the code where it has one
(`status` is `m_emSocketStatus`, `smap` is `m_mapSession`, `conneced` is `s_nTotalConneced`).
`io[s]` is the outstanding accept, connect or receive of a session or its queued completion handler, `writes[s]`
the number of its writes whose operation is outstanding and `written[s]` that of the queued handlers of
such operations, `timer[s]` the wait pending on `timer_`, and `exits[s]`, `destroys[s]` the wait
handlers already queued.

A write is kept as a use of its session: `handle_write` is bound to `this` (`Session.cpp:532-533`). `SendCheck` is
the test of the status in `Session::Send`, `SendData` the `async_write` after it, between which another thread may
run `handle_exit`. What the kernel takes at once or in parts is a choice: a queued handler is that of the whole write
(`HandleWrite`, then the tests of `handle_write` and its callback) or goes on writing (`WriteOn`). `socket_.close()`
makes every outstanding operation complete, so that its handler is queued (`CloseSock`), and a write on a closed
socket completes at once (`AsyncWrite`). Whose bytes they are is the subject of `SendPath`.

A thread is a record `th[t]`: where it is (`pc`), whose handler it runs (`ses`), whom it calls
(`tgt`), and where `handle_exit`, `Close` or `Send` return to (`ret`). A handler of the code is a few
actions, cut where another thread's action between them can make a difference: between the lookup and the
use of the address found, between the test of the status and its assignment, between the test of the
owner pointer and the call through it, between the test of the status and the start of a write, before the erase from the map and before the wait for
`handle_destory` is armed. Each action covers everything the code does in between.

Undefined behaviour is a step of its own: `StaleUse` when a thread is about to touch a session that
has been destroyed, `NullCall` for a call through an owner pointer that another thread has cleared since
it was tested (a build that keeps the tested value in a register makes the call, so both outcomes
exist). Both set `fault` and end the run.

Two assumptions on time: ten seconds outlast the handlers that were queued or running when the wait
was armed (`Drained` for the wait for `handle_destory`, `ExitsDrained` for the wait of
`Close`). The handlers do not block, so the code relies on the same thing. They do not outlast a receive or a write that
waits for its peer, and `Drained` says nothing of those: that none is left is the work of `socket_.close()`, and
`DestroyedIsUnused` checks that it is done. What cancels a wait early is
modelled in full (`ArmTimer`), and is what goes wrong.

### FrameReader

A byte is its position in the peer's stream, so a message handed out can be compared with the one the
peer sent without saying what it contained; 0 is the filling of a fresh buffer. `Ragged` says whether
receives may fall short and streams may end inside a message. The binding of the length asked for in
place of `bytes_transferred` (`Session.cpp:185`) is modelled by what it does: the handlers use
`request.len`, never the number of bytes that came. After a short receive the header in the buffer may be
any bytes, which read as any length (`HeaderValues`).

### PushServer

The phases and the directory are those of `SessionLifecycle`. Each handler of `MsgHandler_CS.cpp` and
`MsgHandler_WS.cpp` is an action, and so is each step of the web server's script. `in[s]` and `out[s]` are
the messages that travel to and from the peer of session `s`: TCP keeps their order and loses none
while the connection stands; a message to a session that is not found or shut is dropped, as
`Send` does. `chunk` is what the memory of the web session holds after a failed connect: `OnConnect`
reads the id from there after the session has been destroyed, and by then a client session may have been
built in it. `s_emServerType` is never set, so `KickUser` sends no notice; `ClientAcceptor::OnClose` is
empty, so records stay.

### UserRecords

`players` is the pool of records, `byCID` and `byAID` are the maps, from an id to a place in the pool. Every operation holds the
mutex from end to end and is one action. `Admit` is what `AddUser` does once the connection has its record: it names the
account in the record first, then finds that the account is taken and returns NULL, although the user is in by then and the counts
are not refreshed. `disputed` is a history: the accounts that two connections claimed, or one connection beside another
account. The server itself calls `AddUser` with a connection alone, `FindUserByConnectID` and nothing else; the module is
about the class, under any order of its calls.

### ServiceThreads

io_service is external: a queue of ready handlers, the operations outstanding, and a stopped flag that nothing resets.
`svc` is where `StartSocketService` is in its loop, `spawned` the workers the round's inner loop has created (each is a step:
it runs handlers while the next is created), `workers` counts the workers inside `run`. An exception on the service
thread is caught by the loop (`HandlerThrows`, counted by `thrown`), one on a worker by nobody (`WorkerThrows`); a thread
that cannot be created is an exception as well (`SvcSpawnFails`); a run that finds nothing
outstanding stops the service for good (`RunDry`). The joins are on objects that were destroyed at the end of the loop body:
they wait for nothing, or the process dies of them. Each step of `StopNetThread` is an action, as the threads run on between
them.

### PeerStreams

A byte is its position in the stream, and a message has the bytes of its fields. `Layout` holds the packed structs of the
server, `WebWrites`, `WebReads` and `AndroidWrites` what the PHP and Java code packs and reads, each taken from its own
source, so that a field that two programs size differently puts the reader out of step. Places and lengths are sums over a layout,
recursive functions over the number of fields. The server
and the header of the Android client wait for all of a read (`Whole`); the web server's and the Android client's reads of fields
and bodies return what there is (`Some`), and `missed` remembers that one fell short. `junk` is the upper half of a header that
the server copies from beside a two-byte length, `nought` a byte of value 48 in a field of one byte.

### PoolList, Arrays, LineBuffer, Timers, ByteBuffers, Strings, Ciphers

Each keeps beside the structure what its calls amount to: `elements` and `items` are sequences under the same calls, `text` is
all that was put into the lines, `due` and `firing` are what a clock that does not wrap would say, `written` are the
values in a buffer with the places they were written at, `content` is the text a string should hold, `plain` and `opened`
what was encrypted and what came out. Preconditions are the assertions of the code.

- `PoolList`: a node is an object of the pool, so a node given back while still linked would come back as another's.
  The pool is the list's own (`nodePool`): the constructor makes it and the destructor takes it away with its bands.
  `skewed` remembers that `InsertpAfter` has been used between two nodes: it leaves the link back wrong, and only the
  reading forward is claimed from then on. `DeleteAt` removes the node behind the one its index names, and the history does
  as the code does. `DeleteAll` is a step per node, since it reads the link of a node before it gives it back.
- `Arrays`: places behind the last element keep what was there; an index or `Reserve` extends the array over it.
  `InsertOwn` is an insertion of an element of the array itself, whose reference has moved by the time it is read.
  `items` is what the calls are meant to do, not what the code makes of them. A place that no call determines is
  `Unknown` in it: one that an index or `SetFixedSize` counted and nobody wrote, and the one `InsertOwn` filled through a reference that
  had moved. Two calls do not do what they say, a non-empty array assigned to itself (its elements are gone) and `Fill` behind the last
  element (which should grow the array, and counts nothing): they set `parted`, and `items` is not followed until the array is
  cleared or made anew.
- `LineBuffer`: a line is found full one character late, while the next is looked at.
- `Timers`: a tick is the time modulo `Wrap`. `Timer` compares ticks, `RecvTickTimer` subtracts them; both are polled at any time.
- `ByteBuffers`: values of four kinds, as digits to the base `Base`; a string is its length, its bytes and a 0, and is read
  up to the length or a 0.
- `Strings`: `mem` is the memory, `len` what `Length()` says. `Strip`, `StripExtension`, `TerminateAtIndex` and `Clear` change the one
  and leave the other. The walk of `strtok` is a position in the memory it writes into. `content` is what the calls are meant to do.
  Two calls do not do it for a string that was cut, whose length is not right any more: `StripTrailingSlash` leaves the slash
  the text ends on, `TrimRight` leaves the characters of the set. They set `strayed`, and `content` is not followed until the string is
  set or cleared.
- `Ciphers`: the tables are computed as the code does, with the bitwise operators of the community modules.

### SendPath

A message is the number of the `Send` call that made it and crosses to the kernel in at most `Pieces` pieces; of
a stack buffer we keep whose message is in it. `AsyncWrite` starts the write at once, as asio does:
a dead socket fails it, earlier writes that wait make it wait (`StartWaits`), and otherwise the kernel takes as
much as there is room for (`Room`), reading the buffer at that moment (`Taken`). What is left over is
written by a later handler (`WriteOn`) from the same address, when `Send` may long have returned
(`StackReused`) or been called again. Handlers of one session exclude each other (`StrandFree`) but run in any
order: the worker threads race to the strand. The updates of `s_nTotalDataSendWait`, `s_nTotalDataSend` and
`s_nTotalDataSendDiscard` are a read and a write each. Sessions are never freed here: that the writes of a session and
their handlers have ended when it is destroyed is shown in `SessionLayer`, which has the writes without their bytes.

### MemoryPool

Bands are numbered by age, so a band's `pPrev` is the next number up. The critical section of the safe pool
and the single thread of the other make each call one step. `FreeToOlder` of the oldest band is where the
factory prints its message and the safe pool would follow a null pointer; both are recorded as `failed`.
Callers free what they hold, once: `SafeMemoryPoolFactory.h:53-57` names the other use as an error
of the caller.

### NodeLists and HashTable

A place is a node or an end of a list; `succ` and `pred` are the two links of every place. `HeadEnd(l)` is the cast of
the address of `head`, `TailEnd(l)` that of `tail`. An assertion is a guard: a call that fails it is a
fault of the caller. `HashTable` extends `NodeLists` with names and the table; its `List` holds the table's
lists and the clients' own. `filed` is a history of what `Add` has been given. Nodes have names that are
not empty (`Find` asserts it), and `TableAssumption` says of the hash what names of any usual length make true: the sum of `hash`
turns negative, and its remainder with it, only after some four thousand characters.

## What the runs check

Every property of a passing run has a mutant in `PROJECT.json`: a plausible slip in one definition that
makes the property fail. The mutants are in the modules, beside the definitions they
replace.

| run | module | bounds | distinct states |
|---|---|---|---|
| `session_safety` | `MCSessionLayer` | 2 threads (symmetric), ids 2 to 4, 2 close calls between any two sessions, no messages passed on, writes of one session at a time | 471,037 |
| `session_liveness` | `MCSessionLayer` | 2 threads, ids 2 and 3, 2 close calls, a message passed on while no write is under way | 58,318 |
| `frame_whole` | `MCFramesPeers` | header 4, buffer 5, up to 3 messages of 0, 1, 4, 5, 6 or 11 bytes; all messages of a peer with 2 orders | 30,825 |
| `push_safety` | `MCPushUsers` | 2 clients and the web server, 2 messages per client, orders 4 and 7, a type no handler has; 2 connections, 2 accounts, 3 records | 420,445 |
| `push_liveness` | `MCPushService` | the same clients with one order number; 1 or 3 threads asked for, room for 5 workers, 3 exceptions on the service thread | 105,778 |
| `send_safety` | `MCSendPath` | 2 threads, 2 sessions (both symmetric), 2 messages in 2 pieces, room for 0, 1 or 2 | 814,501 |
| `table_safety` | `MCHashTable` | 4 nodes (symmetric), 3 names, 2 buckets and a list of the client's own | 7,452 |
| `pool_safety` | `MCContainers` | see below | 218,129 |

The other four runs expect a violation; they are under [Findings](#findings).

- **`session_safety`**: `DirectoryLive`, a lookup never finds a destroyed session. `UserKnown`, a client's message
  never finds its sender without a record. `CountersExact`, the statistics agree with the sessions (and
  with the orphans below). `LifecycleImplemented`, the
  refinement. Two threads make every race the code has, since each of them is between two
  handlers; the third session is a client accepted while the first is in any state; the second close call
  is the one that cancels a wait. With no messages passed on, the one write of a session is
  the greeting that `OnAccept` sends it, and a constraint (`WritesApart`) leaves out the states in which two sessions' greetings are under way.
- **`session_liveness`**: `DestroyedIsUnused`, when a session asked to close at most once is destroyed, no receive, write, wait,
  queued handler or thread refers to it, although a write may begin after its socket was closed and, until then,
  may wait for its peer for ever. `CloseOnce`, two close calls still make one `OnClose` and one destruction. `CloseInv`, the
  inductive invariant of the proofs (`SessionInv` is its first conjunct). `CloseCompletes`, a session somebody asked to close is
  destroyed in the end, or undefined behaviour has stopped the process. One client suffices: nothing a second client does
  delays the close of the first but a thread, and threads are fair. The web server's session sends to the client while the client's
  own handler, or its close, runs; one write passed on at a time, beside the greeting, makes every order of a write and the close.
- **`frame_whole`**: `FramesIntact`, what is handed out is a prefix of the peer's messages that fit, and whenever the
  reader asks for a header it has handed out all it read; `InBuffer`; `AllRead`, in the end everything is handed out unless
  the session is shut. The lengths lie on both sides of each test of the code: empty, shorter than a header, a header's
  length (which the code tells from a header only by `leave`), the buffer exactly, one more, and one that takes three pieces.
  `HandledAsSent`, as long as every read brings what it asked for each program handles the messages of the other, in order;
  `NothingLeft`, when all is read all is handled, but for `AUTH_SYN`. Every message type occurs with every one of its
  hazards; two orders make one follow the other.
- **`push_safety`**: `OrderServiceImplemented`. One order number is also a connection id and the other
  is not, so that a mix-up of the two fields shows; two orders per client show an overtaking. `AccountsFound`, an undisputed
  account is found exactly while its user is there and leads to that user's record; `UsersCounted`, while no account is disputed the
  counts are not behind. Two connections and two accounts make every dispute there is; a third record is one that replaces a
  user who was removed.
- **`push_liveness`**: `OrdersAnswered`, an order passed on is answered unless the web server dies or the
  client is closed; `KickCloses`, a kicked user is closed and freed. `ThreadsCounted`, while its thread runs handlers and it is not
  stopped the service has exactly the workers asked for, and as many again for every round that an exception began, since nothing ends
  those of the rounds before; `HandlersRun`, what is ready is run
  unless the process dies or the service stops; `StopEnds`, a stop at any moment of a round ends all threads. One thread
  is a service without workers; room for five is enough for a second round of three beside the workers of the first, and not for a
  third, which ends in the middle of its loop. That the joins wait for nothing, and that a stopped service runs nothing again, are steps of the
  model, which these properties hold in spite of.
- **`send_safety`**: `WholeUntilDelayed`, streams are whole and in order until a write of the session
  has to wait; `PiecesInOrder`, even then messages begin in the order of their `async_write` and no piece is sent twice or
  out of turn; `BytesCounted`, lost updates can make `s_nTotalDataSend` fall behind what the kernel took but never run ahead of
  it, and `s_nTotalDataSendWait` returns to zero if nothing went wrong and no two updates crossed (so that a lost update of it, or a
  failed write that stays in it, is not what this property finds). Two messages are enough to
  cross on one session or run on two; two pieces make a write that needs several kernel calls.
- **`table_safety`**: `Mirrored`, the two directions of every list agree; `ListsAreSequences`, the links implement
  `NodeSequences`; `FindsNewest`, a node filed and not renamed since is found by its name unless another of the
  same name hides it. Four nodes put two on either side of a place; two of the three names share a bucket.
- **`pool_safety`**, by subject:
  - pool: `Ordered` (bands older than the current one are empty, newer ones full), `ObjectsOnce` (no object is handed out or
    kept twice, none is lost), `NeverFails`. Three bands make a middle one; sizes 1 and 2 make bands of different sizes, and a
    second Initialize changes the size of later bands.
  - list: `ListSound`, read forward, and backward until `InsertpAfter` skews it, the list is the sequence of its calls, and its
    nodes are what the pool has handed out. Up to 4 nodes, 2 elements, blocks of 2.
  - array: `HoldsSequence`, as many elements as the sequence of the calls, the same in each place they determine, until a call does not do
    what it says. 4 places, steps of 0 (fixed), 1 and 2, and doubling: an erased element must move over two others.
  - lines: `RingHolds`, the lines are the last three of the text, and the getters see each of them once. Lines of two
    characters and texts of up to five in any number of calls: a line filled exactly, wrapped, and overwritten.
  - timer, event: `TimerTells`, within a round of the clock a timer has expired exactly when its time has come, and never promises
    more than is left; `NotTooOften`, a periodic event fires no more often than its intervals have passed. A clock of five ticks over twelve goes round
    twice.
  - bytes: `BufferCarries`, what was written and not overwritten is read back, by a reader in step, as it was written. Five bytes hold two values;
    the values include strings with the terminating byte in them and lists longer than the reader accepts.
  - string: `TextHeld`, the string reads as the text its calls amount to, until one of the two calls that do not do what they say of a
    string that was cut, and never writes past its memory, whatever the kept length says; `TextRead`,
    `IndexOf` finds the first match in a string that was not cut, the parts of a path are a split of it, UTF-8 and back is the same text;
    `TokensInTurn`, the tokens are the runs between separators, in order. Four characters, of which the object itself has
    room for fewer: the move to the heap happens on the way.
  - cipher: `CiphersAgree`, what is decrypted is what was encrypted, and both ends come to the same places. Five
    bytes from seven places: the beginning, where each place comes round, and where each condition of the mask holds.

`CHECK_DEADLOCK FALSE` in every run: a server whose clients are silent stops, a peer's stream ends, the
bounds on calls, ids and time are reached, and a fault ends the run.

Bounds are constants named in the modules: `MaxId` (the pool of sessions is exhausted, and
`AllocSession` returns NULL), `MaxCloses`, `MaxWrites` (no message is passed on while that many writes are under
way), `WritesApart` (a state constraint of `session_safety`), `MaxSends`, `MaxFrames`, `MaxRequests`, `MaxOrders`, `MaxRecords` (the memory of
the record pool), `MaxThreads` (the system refuses a thread), `MaxThrows`,
`MaxBands`, `MaxInits`, `MaxCount`, `MaxAlloc`, `MaxText`, `MaxTime`, `MaxBytes`,
`MaxLength`, `MaxSent`. Widths of the code that are constants of the models, so that their edges are within reach: `Wrap`
(2^32), `Base` (256), `LengthSize`, `LOCALSTRINGSIZE`, `LineLen`, `NumLines`, `MaxSize`.

**Fairness.** io_service runs a handler that is queued, a thread goes on with the handler it has begun,
timers expire, the socket reports what became of a receive, and the PHP script goes on while it lives. In `ServiceThreads` a
thread inside `run` takes the next handler, a round goes on to its next step, and a stop that has begun is carried through.
`SessionLayer` asks strong fairness of the pick-up of wait handlers and of the handlers of receives and writes, because threads come and go
between handlers: the queue of io_service is first in, first out, so a handler is not passed over for ever. (Receives and writes
of a session are one condition: its strand runs them in turn.)
Nothing is assumed of peers: no client has to connect, send, receive or close, the connection to the web
server need not succeed, and its script may die at any time; no operation has to complete and nobody has to stop the
service.

## What is proved

For every value of the constants that meets their assumptions:

| theorem | says | obligations of its module |
|---|---|---|
| `SessionLayerProofs!InvariantHolds` | `Spec => []SessionInv` | 1,537 |
| `SessionLayerProofs!TypeCorrect`, `DirectoryIsLive` | `TypeOK`, `DirectoryLive` | |
| `SessionLayerProofs!ImplementsLifecycle` | `Spec => LifecycleImplemented` | |
| `SessionCloseProofs!CloseInvariantHolds` | `Spec => []CloseInv` | 3,719 |
| `SessionCloseProofs!ClosesOnce`, `DestroyedUnused` | `CloseOnce`, `DestroyedIsUnused` | |
| `SessionCloseProofs!SenderKnown`, `CountersAgree` | `UserKnown`, `CountersExact` | |
| `FrameReaderProofs!ReceivesInBuffer` | `Spec => []InBuffer` | 3,738 |
| `FrameReaderProofs!FramesHandedOut` | `~Ragged => (Spec => []FramesIntact)` | |
| `FrameReaderProofs!PeersHandleAsSent` | `StreamsSpec => []HandledAsSent` of `PeerStreams` | |
| `PushServerProofs!OrdersServed` | `Spec => OrderServiceImplemented` | 2,246 |
| `PushServerProofs!RecordsInvHolds` | the inductive invariant of the records | |
| `PushServerProofs!UndisputedAccountsFound`, `UndisputedUsersCounted` | `AccountsFound`, `UsersCounted` | |
| `SendPathProofs!SendTypes` | `Spec => []TypeOK` | 3,722 |
| `SendPathProofs!StreamWholeUntilDelayed`, `PiecesKeepOrder`, `BytesAreCounted` | `WholeUntilDelayed`, `PiecesInOrder`, `BytesCounted` | |
| `HashTableProofs!ListsMirrored` | `Spec => []Mirrored` of `NodeLists` | 2,975 |
| `HashTableProofs!ListsImplementSequences` | `Spec => ListsAreSequences` | |
| `HashTableProofs!TableImplementsLists`, `TableMirrored`, `TableImplementsSequences` | the same of the table: `TableSpec => Spec`, ... | |
| `HashTableProofs!FiledNodesFound` | `TableSpec => []FindsNewest` | |
| `MemoryPoolProofs!PoolInvHolds` | the inductive invariant of the pool | 3,859 |
| `MemoryPoolProofs!PoolNeverFails`, `ObjectsAreOnce`, `BandsOrdered` | `NeverFails`, `ObjectsOnce`, `Ordered` | |
| `MemoryPoolProofs!ListIsASequence` | `ListSpec => []ListSound` of `PoolList` | |
| `MemoryPoolProofs!ListPoolNeverFails` | `ListSpec => []NeverFails` | |
| `LibraryProofs!ThreadsAsAsked` | `ThreadsSpec => []ThreadsCounted` | 2,865 |
| `LibraryProofs!TimersTell`, `EventsInTime` | `TimerTells`, `NotTooOften` | |
| `LibraryProofs!ArrayIsASequence` | `ArraysSpec => []HoldsSequence` | |

- **Sessions.** That no destroyed session is in the map is not inductive: `HandleDestroy` could free a session
  that is still there. `SessionInv` adds why it is not: a session for which `handle_destory` is armed, queued
  or about to be armed has left the map and is closed (`DoomedWithdrawn`); nothing puts it back, since
  only accept and connect handlers insert, and a session that still has one to run is private, with no
  thread, timer, write or map entry (`FreshPrivate`), as is one not born yet (`UnbornUntouched`), and no message is on its way
  to either (`SendsKnown`); and a
  thread in the tail of `handle_exit` works on a closed session (`ExitingClosed`). Any number of
  threads, sessions, close calls and writes.
- **Closing.** `CloseInv` is `SessionInv` and, for every session, how close requests travel. The strand runs one handler of
  a session at a time (`StrandSerial`). One request is in one place: at the thread that called `Close`, on the timer, queued as
  a handler, or in `handle_exit` (`OneRequest`). Two requests can share the timer, but the second cancels the first and the two
  `handle_exit` run one after the other (`ExitsInTurn`), so that the second finds the session closed (`ClosedOnce`): this
  is as far as the code's promise goes, and with a third request it is gone. After one request and a destruction that is due there is
  no handler, timer, write or thread left that names the session (`DestroyAlone`), except the thread that has just
  armed it; with two requests that fails, which is `session_stale_use`. Time takes care of what is queued or running (`Drained`), and
  `SocketSound` of what could wait for the peer for ever: a session that is to be destroyed has had its socket closed, and a closed
  socket has no receive and no write outstanding. The counters are related to the sessions by counting: each step that
  changes one moves one session into or out of the set it counts (`CountersAgree`).
- **Refinement.** A session's phase is read off `freed`, `status` and `connindex` (`PhaseOf`). Each action maps
  to one step of `SessionLifecycle` or to none; the invariant gives the guards.
- **Reader.** `BufferInv` says that the lengths in play are natural numbers and that the receive under way fits. It
  holds however receives fall short: the reader may be out of step, but not out of its buffer. When receives do not
  fall short, `FrameInv` adds where the reader is in the stream: after `n` messages the read position is that of message `n + 1`, or
  inside it by what `leave` says, and the buffer holds the bytes up to there (`InStep`); what was handed out is the
  messages of the first `n` that fit, by an increasing map between the two (`HandedOut`).
- **Peers.** That each program handles what the other sent needs to know where its reader stands. While no read has fallen short
  `PeersInv` says that it is at a known place, between two messages or at the start of a field or body of the next one, and that what is
  already taken of that message is what was sent. At most one `AUTH_SYN` is written, so the message that the server waits four
  bytes too long for is the last. What remains is that the tables of the three programs put the fields at the same
  places, by their sums.
- **Orders.** `OrderServiceImplemented` takes for a client's open orders what is in transit, nearest the answer first: its answers on
  the way from the web server, its orders on the way there, its orders not yet read (`Pending`, `InTransit`). A step of
  the server takes a message from the head of one queue and puts it at the end of the one before, so the sequence stays as it is, or
  loses its oldest order, or gets a new one at the end. The mapping filters queues; what is needed of it is what becomes of it when a
  message is appended or the head is taken (`SiftAppend`, `SiftHead`). `PushInv` gives the guards: nothing is on its way
  to or from the web server unless its session is open (`WebQuiet`), and then it is that session that orders are sent to
  and that is found by its id (`WebLinked`).
- **Streams.** `WholeInv` adds what keeps a stream whole: while no write of a session has had to wait its queue is
  empty, every write that was begun has come to its end (so that no handler takes one up again), and a live
  socket's stream has exactly the messages begun (`InStep`); and a thread that is about to start a write still has its own
  message in its buffer (`Built`), which is where one buffer for all threads would fail. After delays the order of pieces still
  holds (`OrderInv`): each message has one write, which waits in the queue or is with a handler, never both, and the writes that wait
  are in the order they began and before all whose first piece has not been sent. `BytesInv` follows each message to the
  handlers that count it: each handler of a whole message has it to itself, so that the total, which a
  lost update can only make smaller, is at most that of the messages counted, which are on the stream and finitely many
  (`TotalBounded`); and while nothing has gone wrong, what waits is the messages still to be subtracted less those still to be added
  (`WaitTallied`).
- **Lists.** `TypeOK` and `Mirrored` are inductive together. Both insertions put an unlinked node between two neighbours
  (`LinkMirrored`), and it is neither of them because they have links; a removal makes its neighbours each other's. The
  table's steps are steps of its lists because a name hashes to one of them. Behind the links there are sequences (`Represents`):
  every insertion and removal of the links is a `Put` or `Drop` of a sequence, and the walk over `GetSucc`, a recursive function, meets
  the sequence's nodes one by one. For `Find`, `TableInv` says that a filed node is in the list of its name before those filed earlier.
- **Pools.** `PoolInv` says that each object of a band is held or free in one place, not both, and that the bands are ordered as
  in `Ordered`. That Free is never refused needs counting: a refusal means that all bands are full, so that as
  many objects are free as there are; the places of free objects are then in bijection with the objects
  (`FullMeansNoneHeld`, by the pigeonhole facts of `FiniteSetTheorems`), and the object being freed would be
  free already.
- **List.** `ListInv` is `PoolInv` and a sequence of nodes that the links forward follow (`Chain`), that those back follow as well while the list is
  not `skewed` (`Back`), whose elements are those of the calls, and that is what the pool has handed out (`Owned`), without repetition.
  Each call puts a node into the sequence at one place or takes one out (`Into`, `Without`), and only the neighbours' links change;
  that a new node is none of the old ones is `PoolInv`. `DeleteAll` in progress still owns the nodes from `rest` on. The walk by
  `pNext`, a recursive function, meets the nodes of the sequence one by one.
- **Records.** `AccountsFound` needs what it says in both directions, and where the entries lead. `RecordsInv` says that the maps
  lead into the pool and no two connections to one record (`Placed`), that an undisputed account that is filed has a
  user whose record names it (`Filed`), that an undisputed account a user's record names is filed as that user's
  (`Named`), and that the set of users is finite and counted (`Counted`). An `AddUser` is taken in two steps, as in the
  code: first the connection gets its record (`Joins`, `Stays`), then `Admit` names the account (`AdmitAgrees`). That a failed
  `AddUser` leaves the counts right while nothing is disputed is because it had nothing to add: the account leads to the
  very record of the caller. Any number of connections, accounts and records.
- **Threads.** While io_service is not stopped workers only come (`WorkersStay`): inside a round there are those of all the rounds before, one
  less than asked for from each, and those that the loop has created; when the loop has ended, one less than asked for. A round whose loop
  fails for want of a thread never comes to run its handlers, and neither does any round after it.
- **Timers.** `TimerInv` says that the tick a timer expires at is that of the time it was armed for, `EventInv` that the last
  tick of an event is ahead of the one it was armed at by at least as many intervals as it has fired. Both properties
  are about times within a round of the clock of each other, where ticks tell times apart (`OneRound`).
- **Arrays.** `ArrayInv` says that the array holds some sequence of elements, for which there is room, and that this agrees with the
  sequence of the calls in every place they determine (`Fits`), unless a call has not done what it says.
  `Insert`, `Remove` and `Copy` move elements one by one over each other;
  in the order the code takes them (`CopyOrder`) no place is written before what it holds has been read, so that the copies come to a
  shift. The growth by repeated doubling or steps ends past what is asked for.

The assumptions are those on the constants (`ThreadAssumption`, `MaxIdAssumption`, `MaxClosesAssumption`, `MaxWritesAssumption`,
`SizeAssumption`, `SendAssumption`, `PoolAssumption`, `ListsAssumption`, `TableAssumption`, `PushAssumption`, `RecordsAssumption`,
`ThreadsAssumption`, `TimersAssumption`, `ListAssumption`, `ArraysAssumption`), which TLC evaluates in the runs. `FramesHandedOut` has the hypothesis that receives are not
short; `frame_whole` checks such a reader, and without it the property fails.

Only model-checked: everything temporal under fairness (`CloseCompletes`, `AllRead`, `OrdersAnswered`,
`KickCloses`, `HandlersRun`, `StopEnds`) and what speaks of ENABLED (`NothingLeft`), which TLAPS does not reach; `CiphersAgree`, whose module
uses `Bitwise`; and three parts of the library, `RingHolds`, `BufferCarries`, `TextHeld`, `TextRead` and `TokensInTurn`. What a
recursive function or a fold computes there is not shown by the induction theorems of the library, which take an operator. Where the
function is recursive over numbers, as in `FrameReader`, `NodeLists`, `PushServer`, `PeerStreams`, `Arrays` and `PoolList`, it can be done
without them: a function that meets the equations is exhibited, so that the one the definition chooses meets them too, and a statement
about all its values is proved at the least number where it could fail. The folds of those other modules, which pass an operator
themselves, would first have to be written that way.

## Findings

Each has a run that shows it, except those of the last list.

- `session_stale_use`: `Session.h:32` allows the pointer of `GetSession` to be used inside a handler of the
  session itself. Two `AsyncClose` calls are enough to free a session under its own handler: the second re-arms
  the timer on which `handle_exit` has by then armed `handle_destory`, whose handler then runs at once.
- `frame_eof`: the completion handler of a receive is bound to the length asked for and not to the one that came
  (`Session.cpp:185`), so the end of the stream is never seen: the session receives for ever and
  `OnClose` is never called.
- `push_stale_web`: after a failed connect the id of the web server is read from freed memory, and orders
  may go to a client.
- `send_late`: a write that the kernel does not take whole at once is continued after writes begun later, and from a
  buffer that `Send` has given up: messages are mixed on the stream.

Seen while modelling, without a run of their own:

- For the same reason as in `frame_eof`, a receive that falls short is taken for a full one, and a message is handed out
  part of which has not come (`Acceptor.h:22` calls it a complete message). `FramesIntact` fails in `FrameReader` with
  `Ragged` true.
- The second of two `AsyncClose` calls also cancels the wait of the first, whose handler takes no error code and closes
  the session at once instead of after the seconds asked for (`Session.cpp:545`, `Socket.h:42`).
- The Android client's `AUTH_SYN` says in its header that it is 46 bytes long, and counts the header (`MsgBase.java:107`),
  which the server does not: the server waits for four more bytes, and `AUTH_ACK` never comes. `NothingLeft` names
  the exception.
- `handle_read_sp` tests the status once, at entry (`Session.cpp:191`): a message can be handed to `OnReadComplete` after `OnClose`.
- `Send` copies a four-byte header from a two-byte length (`Socket.cpp:154`), and accepts a message that with its
  header is four bytes longer than its buffer (155). The upper half is whatever lies beside the length; the Android client
  reads all four bytes as a length and dies of an exception if that is not 0.
- The web server takes what a `socket_read` returns for a whole field (`netcommon.php:5`), and dies of a field of one byte
  whose value is 48: the string "0" is false to PHP (21).
- A failed write is never taken out of `s_nTotalDataSendWait` (`Session.cpp:571`).
- A client that has gone when it is accepted leaves a session in no map that nobody destroys, and counted
  in `s_nTotalConneced` for ever (`Acceptor.cpp:69-79`). `CountersExact` counts them as `Orphans`.
- One failed accept ends the service for new clients (`Acceptor.cpp:63-68`).
- `OnConnect` is called after a failed connect as well (`Connector.cpp:104`).
- The kick notice is never sent, since `s_emServerType` is never set (`ServerConfig.cpp:6`), and the number of
  users on line only grows, since nothing the server calls removes a record (`UserManager.h:144`).
- `AddUser` for an account in use names it in the second record before it fails (`UserManager.h:137`): when the second user
  is removed the first one's account is no longer found. It has let the second user in, whom the counts do not know.
- Nothing resets io_service after a round (`Socket.cpp:63`), so a restarted service returns at once and runs nothing, unless the round
  ended by an exception; then the workers of the old round are still there. The joins (69) are on destroyed thread objects.
- `StopSocketService` destroys the sessions before it stops the service (97), while workers may still be in their handlers.
- Orders are passed on before the web server has asked for the authentication request, which
  `msgbase.php:62` calls the first message.
- The safe pool's extend size defaults to 1, not to half the basic size as its history says
  (`SafeMemoryPoolFactory.h:15` and 88); its statistics skip the newest band (162, 171); and Initialize of
  a live pool fails but changes the extend size.
- `CList::InsertpAfter` links the node before the place back to the new node (`List.h:223`), so the list reads wrongly
  backward; `DeleteAt` removes the element behind the one asked for (364).
- `nArray::PushBack` and `Insert` take their element by reference and read it after the array has grown or moved
  (`Narray.h:465`): one of the array's own elements is gone by then.
- `nArray::operator=` deletes the elements before it copies them (`Narray.h:303-310`): an array assigned to itself is empty afterwards.
  `Fill`, which by its comment "Fills an array range" and "Will grow the array if necessary" (809-810), grows the allocation and not
  the count: what it wrote behind the last element is not in the array, and is lost when the array grows again.
- A `Timer` armed over the wrap of the tick count is expired at once, and one polled only after it waits another round
  (`Timer.h:96`); `GetRemainTime` gives the whole interval for a timer that expires within an interval of the tick 0 (45). An
  accumulating `RecvTickTimer` fires at every poll once the tick has wrapped (177).
- `ByteBuffer::append` of a buffer to itself reads a pointer into the storage it has resized (`ByteBuffer.h:361`);
  `WritePacketHeader` leaves a packet that is not empty without a header (`WorldPacket.h:38`).
- `nString` keeps the length of the text before it was cut: `TrimRight` of a cut string, "stripped on the right side by all characters in
  the char set" by its comment (`Nstring.h:932-933`), begins behind the cut and strips nothing of the text (946); `StripTrailingSlash`
  ("Strips last slash, if the path name ends on a slash", 867) looks for the slash behind the cut too (875) and leaves the one the text
  ends on; `IndexOf`   finds matches behind the cut (816-823); cuts of a
  cleared string write into the literal "" (862); `Set` frees the string before it copies from what may be its own text (273);
  `Substitute` of the empty string does not end (1004); an append over 65,535 characters overruns what it allocates (454).
- `nHashTable::hash` is negative for a name of some four thousand characters, and its remainder then a negative index (`nhashtable.h:53`).
- `push_stack3` of `MessageEncrypt` is `push_stack2` once more and takes back what it did (`MessageEncrypt.cpp:242`). With
  `USE_ENCRYPT_DATA` the sender would encrypt headers as well, while the receiver decrypts bodies only.

## What is not modelled

- **Rarely or never called**: `SendMulti` and `SendEx`, which fill the same buffer as `Send`; `DisConnect`; the message counter and
  the averages of `SocketCountThread`, which is commented out at its start; `GetProgressRatio`; the statistics of the pools;
  the string functions that only hand the text to the C library, and `MatchPattern`, which is commented out.
- **Calls outside what the code asserts**, or that end in memory that is not the caller's: indices out of range, a string or buffer passed to
  itself, strings beyond 65,535 characters, cuts of a cleared string, `InsertpAfter` the first and `DeleteAt` the last but one of
  a list. They are listed above and left out of the actions' guards.
- **`RemoveUserByAccountID`, `NoticeMessage`**: templates that cannot be instantiated (one calls a function that does
  not exist, the other passes a `const char*` for a `MSG_BASE*`).
- **The memory of sessions during a stop** is that of `SessionLayer`; `ServiceThreads` says which handlers still run.
- **`IOPacket` and the big-buffer `handle_read`**: compiled only with `_BIG_BUFFER_MODE`, which no project file defines; its
  `PACKET_HEADER_LENGTH` of 4 and the eight bytes of its header struct do not fit together, so there is no protocol to be faithful to.
- **The calls of `MessageEncrypt` in `Session`**: compiled only with `USE_ENCRYPT_DATA`. The class itself is `Ciphers`.
- **`MemoryPool.h`, `MemoryPoolBase.h`, `MemoryCache.h`** cannot be instantiated: `Alloc` uses the result of
  a void `pop_back` (and returns inside its critical section, `MemoryPool.h:40`), the base needs a class that is inside
  `#if 0`, the cache does not compile.
- **`SolarFileReader`**: `OpenFile` only returns FALSE, and `OpenBuffer` does so unless the reader has a buffer already
  (`SolarFileReader.cpp:56`), which only `OpenBuffer` makes. The tokenizer never has anything to read.
- **`CFunctionMap`** beyond its use by `PacketHandler`: `PushServer` has the keys that are registered (`FuncMap_CS`) and the
  lookup that finds none (`Unhandled`); its removal and enumeration are never called.
- **Console, log, stack walker, small helpers, the database connector (empty)**: output, third-party, or no state.

Hazards that are seen at once in the code, or that no build can meet, are in the list of findings only; `PROJECT.json` lists
those a property is about.

## The plan

What is done, and what is left of it:

| module | runs | theorems | left |
|---|---|---|---|
| `SessionLifecycle`, `SessionLayer` | `session_*` | all safety properties, refinement | |
| `FrameReader` | `frame_*` | all safety properties | |
| `PeerStreams` | `frame_whole` | `HandledAsSent` | `NothingLeft` is about ENABLED: model-checked only |
| `OrderService`, `PushServer` | `push_*` | refinement | |
| `UserRecords` | `push_safety` | both properties | |
| `ServiceThreads` | `push_liveness` | `ThreadsCounted` | |
| `SendPath` | `send_*` | all safety properties | |
| `MemoryPool` | `pool_safety` | all three properties | |
| `Timers` | `pool_safety` | both properties | |
| `PoolList` | `pool_safety` | `ListSound`, and `NeverFails` of its pool | |
| `Arrays` | `pool_safety` | `HoldsSequence` | |
| `LineBuffer`, `ByteBuffers` | `pool_safety` | | `RingHolds`, `BufferCarries`: their folds as recursive functions first |
| `Strings`, `Ciphers` | `pool_safety` | | model-checked only |
| `NodeLists`, `HashTable` | `table_safety` | all properties, refinement | |
