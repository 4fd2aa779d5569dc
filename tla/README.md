# natip in TLA+

Specifications, model-checking runs and proofs for natip, a TCP tunnel server
in C++ with its own message protocol (JDT).

    src/server         the server: accept loop, fork, SIGCHLD handler, client table
    src/client         a client that connects and exits
    src/lib, include   JDT protocol, connections, CSAPP-style system call wrappers
    src/videosTransfer a separate demo that sends JPEG frames

Parse a module with SANY, check a run with `tlc -config X.cfg MCModule`, check
the proofs with `tlapm XProofs.tla`.

## Inventory

**Fork server and SIGCHLD handler** (`server/main.cc`, `server/natip_server.cc`).
State: `listen_fd_`, the accepted `Connection`, errno, the descriptor tables of
the server and its children, the process table. `main()` loads a configuration,
listens, then accepts, forks and closes for ever; the child closes the listening
socket and exits. The handler interrupts `main()` anywhere, waits for all dead
children and deletes the row of each from MySQL. Hard: signals that coalesce,
errno changed behind `main()`'s back, descriptors inherited by later children,
pids reused while their rows are deleted, a `Connection` with an uninitialized
descriptor. Right if no child stays a zombie, no descriptor or session leaks or
is shared, no signal ends the server and no living child loses its row.

**JDT decoder** (`lib/jdt_parse.cc`). State: the byte buffer `data_parsing_`, the
head `curr_head_`, `status_`, the queue `data_parsed_`. `parse()` takes a segment
and decodes what is complete; an exception leaves the state alone. Hard: segments
that cut heads and bodies, or hold several messages; a deque that is read through
a pointer; a union of which one byte is set. Right if messages come off in order
and whole, none that can be read stays, and none that cannot be read is passed.

**JDT encoder and Connection** (`lib/jdt_parse.cc`, `lib/jdt_connection.cc`).
`sendData`, `sendCmd`, `sendError` encode and write; `recvMsg` reads a head, then
what `getLenStillNeed()` asks for, until a message is queued. Hard: lengths, heads
that no one wrote, a stream that ends between any two bytes. Right if the receiver gets what the sender meant.

**Client table** (`server/data_manager.cc`). One table of name, address, port, pid;
add, find and delete, each in a session of its own with one `try` block, called by
processes that know nothing of one another. Hard: any statement may throw, before or
after the database has executed it; unique keys meet stale rows; the table changes
between a search and the use of its result. Right if sessions are released on all
paths and a caller is never told more than what the table held.

**Robust I/O, wrappers, signal-safe output, socket set-up** (`lib/unix_api.c`).
`rio_readn`, `rio_writen`, the buffered `rio_t` reader, `sio_ltoa`, `open_listenfd`,
`open_clientfd`. Hard: short counts, EINTR, refills; `base *= n` in a long; a failure
in the middle of an address list, and a second process between `bind()` and
`listen()`. Right if bytes come once each and in order, the text is the number, and no
descriptor is left of an address that failed.

**Client, first protocol version, demo** (`client/`, `lib/jdt.cc`,
`videosTransfer/`). The client runs the same `setConnection()` as the server.
`lib/jdt.cc` is an earlier JDT that no Makefile compiles: `Jdt::recvMsg()` reads a
full buffer, decodes what it can and returns the messages one by one. Hard: a message
that cannot be decoded in front of those that can, a length that is none; the end of
the stream. The demo
sends an image as a length field of 16 bytes and the bytes. Hard: a `recv()` that
returns a part of a field, or nothing in the middle of an image.

How they interact: `main()` calls `NatIpServer`, which returns a `Connection`
built on the wrappers; the kernel calls the handler, the handler calls the client
table; `Connection` owns a `Decode`. Shared state is errno and the descriptor
table (main and handler), the descriptor tables that fork copies, and the MySQL
table. PROJECT.json lists the hazards line by line with the properties for each.

## Modules

| Module | Of | Extends or uses |
|---|---|---|
| `ChildLedger` | what the server promises about its children | |
| `NatIpServer` | `main.cc`, `natip_server.cc`, delete path of `data_manager.cc`, `dup2`/`close` of `Connection` | refines `ChildLedger` |
| `NatIpServerInv` | the inductive invariant of `NatIpServer` | `NatIpServer` |
| `NatIpServerProofs` | its proofs | `NatIpServerInv`, TLAPS |
| `JdtFraming` | what a decoder promises: a queue of messages, taken in order | |
| `JdtDecode` | `jdt::Decode` with its byte buffer, and its invariant | refines `JdtFraming` |
| `JdtDecodeProofs` | its proofs | `JdtDecode`, TLAPS |
| `JdtConnection` | `sendData`, `sendCmd`, `sendError`, `recvMsg`, `Encode` | `JdtDecode` |
| `JdtConnectionProofs` | its proofs | `JdtConnection`, `JdtDecodeProofs` |
| `ByteStream` | what the robust I/O functions promise: first in, first out | |
| `Rio` | `rio_writen`, `rio_readn`, `rio_readnb`, `rio_readlineb` with their `rio_t` | refines `ByteStream` |
| `RioProofs` | its proofs | `Rio`, TLAPS |
| `ClientTable` | what the database interface promises to concurrent callers | |
| `DataManager` | `manageMySQL()` and the functions that call it | refines `ClientTable` |
| `DataManagerProofs` | its proofs | `DataManager`, TLAPS |
| `OpenFd` | `open_listenfd`, `open_clientfd`, `openConnection`, `createConnection` | |
| `SioLtoa` | `sio_ltoa`, `sio_puts`, `sio_putl` and their wrappers | |
| `SioLtoaProofs` | its proofs | `SioLtoa`, TLAPS |
| `JdtLegacy` | `Jdt`, `Encode`, `Decode` of `lib/jdt.cc` | |
| `JdtLegacyProofs` | its proofs | `JdtLegacy`, TLAPS |
| `VideoTransfer` | `send_image`, `receive_videos` | |
| `Library` | `Rio`, `OpenFd`, `SioLtoa`, `JdtLegacy`, `VideoTransfer` side by side | all five |
| `LibraryProofs` | proofs about `OpenFd`, `VideoTransfer` and the five together | `Library`, the proofs of its parts |
| `MC...` | the constants of the runs | |

Operators named `Wrong...` stand before a definition and give it the form of a
plausible slip (a dropped reset, an off-by-one). No action uses them; putting one
in place of its successor shows that a property can fail.

### NatIpServer

`mpc` is the line `main()` is at, `hpc` the line of the handler, `cpc[p]` that of
child `p`. `fds` and `cfds[p]` are descriptor tables: a function from numbers to
what they refer to (`free`, `std`, `listen`, `db` or a connection). `accept()` and
the MySQL session take the lowest free number; `fork()` copies the table; the end
of a process empties it. Each call that can be interrupted is one action:
`AcceptOk`, `AcceptError`, `AcceptFailed` (the test of errno), `SetConnection`
(`dup2` onto a value chosen from `StackValue`), `CloseConnfd`, `ForkOk`,
`ForkError`, `SendError`, `CloseConnection`; in the handler `HandlerEnter`,
`HandlerReap`, `HandlerConnect`, `HandlerExecute`, `HandlerRelease`,
`HandlerReturn`. The handler runs to its end before `main()` goes on (`MainRuns`):
that is what a signal handler on one thread does. SIGCHLD is one bit: pending or
not. A freed pid can be given out again.

`socket_fd_` is a member that nothing initializes before `dup2()` reads it, so
`SetConnection` chooses any value of the set. The properties say what holds for
all of them, and name the value where it does not (`OnlyBadSlotFailsClose`,
`ListenerSurvives`).

### JdtDecode and JdtFraming

A byte is its position in the stream, so a buffer with bytes lost, repeated or
reordered is visible as such. `sent`, `base` and `total` describe the stream; `Parse(n)`
hands any next `n` bytes to `parse()`, and the other actions are the iterations of its
loop: `ParseHead`, the four cases of `parseBody()` and `Return`. `Sees(i, n)` says
that a pointer to the first byte of the buffer sees the first `n` bytes of message
`i`: they are there, in order, and inside one node of the deque. Where it does not
hold the decoder reads some other head (`GarbageHead`) or a text of any validity,
and `garbled` records that. `dirty` says that the upper bytes of the detail type
are still uninitialized. An exception leaves everything in place (`Throw`); a
string with a negative length is an exception that `parse()` does not catch.

A message has two lengths: `size`, the bytes there are of it, and `len`, what its head
says. `parseHead()` copies the second off the wire and nothing ever checks it, so the
model sends any, 0 included. A head that the decoder accepts although it lies
(`Misleads`) sets `garbled`, too: from there on the decoder is out of step with the
stream, and the properties about the stream end, while those about the loop go on.

`JdtFraming` knows neither bytes nor segments. Its refinement mapping takes `sent`
and `done` as they are and reads the state from `garbled` and `stuck`.

### JdtConnection

The stream of `JdtDecode` is written by the send functions and read by `recvMsg()`.
`meant` holds what the callers passed, `sent` what went onto the wire. `Put(m, n)`
writes message `m` or only its first `n` bytes: a sender that is killed in
`rio_writen()`, or whose `write()` fails, leaves the front of a message, and the stream
ends there (`closed`). `SendString` is what `sendCmd()` and `sendError()` do:
`encode(string)` writes no head, as the call that should write it takes the pointer for
a JSON `true` (jdt_parse.cc:21), so the head is whatever `new[]` returned
(`GarbageHead`). `Readn` is what `Rio_readn()` returns: all that was asked for, or less
at end of file. Three ways out are not a return: `RecvFails` (an error of `read()`
exits the process), `RecvOverrun` (more arrives than the local buffer holds) and `dead`
(an exception nobody catches). `Finish` of `JdtDecode` drops the Body that
`parseBody()` has built (jdt_parse.cc:205-238): nothing is ever added to `parsed`.

### Rio

A byte is its position in the stream, and `Newline` the positions that hold `'\n'`.
The writer is `CallWriten`, then `WriteSome(k)` until `wleft` is 0: `write()` takes
any part. The reader calls (`Call`) one of three functions: `rio_readn` reads straight
into usrbuf (`ReadDirect`); the others take from the buffer (`Copy`: `rio_buf`,
`rio_bufptr` and `rio_cnt` are `rbuf`, `ptr`, `cnt`) and fill it when it is empty
(`Refill`). `read()` returns any part of what is there, or EINTR, an error or the end
of the stream (`RefillInterrupted`, `RefillError`, `RefillEnd`, `DirectError`,
`DirectEnd`). EINTR in the unbuffered loops changes nothing, so it is a stutter.
`out` is a history: all bytes that calls have put into usrbuf. `Call` asks for what
the interface asks for: `rio_readn` not while bytes wait in the buffer of the same
descriptor, and `maxlen` at least 1, as `rio_readlineb()` writes its NUL in any case.

### DataManager and ClientTable

A caller goes through `pc`: `connect`, `prepare` (schema, statement, CREATE TABLE),
`execute`, `fetch` (only a search), `release`. `con`, `stmt` and `res` say which of its
pointers are set. Each call of the MySQL library is one action that may throw instead
(`Throw`); INSERT and DELETE have a third outcome, executed but not answered
(`Answered`). `Refused` is a statement that fails, on a key (`Inserts` does not hold) or
for any other reason. A row is its name and its pid, the keys; the other columns go with
them. `Die` ends a process inside a call.

`ClientTable` has no sessions and no statements: between `Ask` and `Return` a call acts
once (`Add`, `Delete`, `Find`) or gives up. The refinement mapping reads `state` from
`pc`, and `good` from `result`, which in the code is true from the start and becomes
false, while in the table a call is good only once it has acted.

### OpenFd

Servers and clients, each with its descriptor table, go through one list of addresses:
`Socket` or `SocketFails`, then `Bind` or `Connect` or `TryFails`, for a server `Listen`
or `ListenFails`. `AfterFailure` is the `Close()` in the loop, `NextAddress` its step. With
SO_REUSEADDR a socket that is bound is in nobody's way, so that two processes get to
`listen()` at one address; `Listening` says who is there. `Keep` and `Create` are the two
ways from the descriptor to a `Connection`; in the second `socket_fd_` is any value of
`Slot`.

### SioLtoa

The variables are those of the function. `/` and `%` of C++ round towards zero
(`Quotient`, `Rest`); `base *= n` outside `Long` is undefined, and the model stops there
(`overflow`). A digit is its number, `Minus` the sign.

### JdtLegacy

As in `JdtDecode` a byte is its position, and the buffer is the bytes from `low` to
`seen`. `recvMsg()` is `RecvMsg`, then `Fill` (MAXLINE bytes, or those before the end) and
one action for each branch of the loop of `parse()`, until `GetOneMsg` finds a message.
Invalid JSON is erased by `ParseBadJson`, which leaves `status_` and returns false; the
zero head then meets no case (`NullMsg`), and a null pointer is the end of the model
(`dead`), as is a read past a node of the deque (`undefined`). A head that gives a length
less than its own (kind `short`) is accepted like any other; `ShortLength` is the body
whose end is before its beginning, which throws or reads outside the buffer.

### VideoTransfer

`SendImage` is a field and the image behind it; `StopSending` cuts off what was not yet
sent. `RecvField(k)` is the first `recv()`, which returns `k` bytes: a whole field that
starts where a field does is the length, and anything else may be any number. `broken`
is a history of the first `recv()` that returned less than it was asked for.

### Library

The five modules share no variable. `Library` adds one, `part`, that says which of them
moves; the others stay as they were at the start. A property of one part therefore says
the same of `Library` as of the part alone, with its own `Next` and its own fairness, and
the states of the parts are added up and not multiplied.

## Runs

| Run | Shows |
|---|---|
| `server_safety` | the safety properties, the invariant and the action properties of the server |
| `server_liveness` | the server implements `ChildLedger`; accepted connections are closed by all processes |
| `server_usable` | violated: the returned `Connection` may refer to nothing |
| `jdt_decode` | invariants of the decoder; it implements `JdtFraming`, liveness included |
| `jdt_node` | violated: bytes outside the deque's node are read |
| `jdt_receive_end` | wherever the stream ends, `recvMsg()` comes back or its process ends; each of its steps takes it on |
| `jdt_need` | violated: `getLenStillNeed()` wraps |
| `jdt_receive` | violated: `recvMsg()` loses the body it has read |
| `client_create` | violated: the client's `Connection` may refer to nothing |
| `legacy_parse` | violated: invalid JSON is erased and leads to a null pointer |
| `client_table` | the interface of the client table under concurrent calls; it implements `ClientTable` |
| `library` | the invariants of the five parts; `Rio` implements `ByteStream`; calls return, searches end, messages are delivered, and every step of a loop leaves less to do |

### What the properties say

`NoLostZombie`: when no signal is pending and the handler is not running there is
nothing to wait for. `LoopHoldsNoConnection`, `ChildIsolation`, `ListenerSurvives`:
who holds which descriptor, at which point, on every path. `NoSessionLeft`, which
is part of `IInv` (`SessionInv`): the handler leaves no MySQL session.
`SignalNeverKillsServer`: the handler gives errno back, so that a signal between
`accept()` and the test of errno neither ends the server nor makes it spin. `RowOutlivesChild`: no step
deletes the row of a running process. `ImplementsLedger`, `AcceptedIsClosed`:
liveness. The type invariants are checked as the first conjunct of `IInv`,
`DecodeInv`, `RioInv` and the like.

`HandlerAdvances`, `ParseAdvances`, `RecvAdvances`, `CallsAdvance`: a loop of the code
has a rank, a number read from the state, which each of its steps lowers and no step
of anybody else raises. That the steps are taken is what the liveness properties add.
Two loops of the code have steps that do not lower it. `parse()`, and with it
`recvMsg()`, goes round for ever over data of length 0 (`NothingToErase`): `parseBody()`
accepts it, erases nothing and meets its head again. Nothing rules such a head out: a
peer may send it, the head that `encode(string)` leaves uninitialized may be it, and so
may memory outside the buffer. `ParseAdvances` and `RecvAdvances` say that there is no
other case. And `Jdt::recvMsg()` goes round for ever at the end of the stream, which it
does not notice (`LegacyAdvances`, a theorem); `CallsAdvance` is about the loops of
`lib/unix_api.c` and does not speak of it.

`Aligned`: the buffer is what was taken from the stream from the first undecoded
message on. `NothingLeftBehind`: no complete message stays when `parse()` returns.
`OnlyFirstIsDropped`: the uninitialized union can cost the first message of a
connection only. `ImplementsFraming`: order, no skipping, and each message is
taken or refused at last. `EndIsNoticed`: wherever the stream ends, in the middle of a
head or of a body too, `recvMsg()` returns or its process ends, unless a message of
length 0 keeps it.

`InOrder`, `ImplementsStream`: no byte is lost, repeated or moved between the kernel,
the buffer and usrbuf, whatever calls are mixed. `ShortOnlyAtEnd`: a block read that
is short has delivered all there will ever be. `LinesAreLines`: a line ends at its
newline, at `maxlen` or at the end, and nowhere else. `CallsReturn`: a call whose
bytes have arrived, or whose peer has closed, comes back, however many signals come.

`TableInv`: keys are unique, and what a caller holds fits the place it is at.
`SessionsReleased`: no path through the exceptions leaves a session. `ImplementsTable`:
every call takes effect at one moment, and `true` is said only of what happened; what a
search writes to the caller's data is one row that was in the table.

`OpenInv`: a process holds the one socket it works on, whatever has failed before.
`OneServerPerAddress`: the loser of a race between `bind()` and `listen()` never gets a
descriptor. `CreatedIsConnected` is what `createConnection()` promises, an object that
talks to the server; the code breaks it (`client_create`), and `NodeIsConnected` says
when: for which values of `socket_fd_` a client's `Connection` is the connection,
exactly. `OpenEnds`: the search ends.

`DigitsAreRight`: the text is the number, without a zero in front, and `write()` takes no
more than it. `OverflowOnlyAtLongMin`: the one argument that overflows is LONG_MIN, in a
radix that it is a power of; `sio_putl()` uses 10.

`ReturnedInOrder`: `Jdt::recvMsg()` returns the messages of the stream, in order, each
once, and passes none that can be decoded. `RefusedDoesNothing` is the promise of
`parseBody()` to do nothing when parsing fails; the code breaks it (`legacy_parse`): it
erases the message, clears the head and dies of the next byte. `DiesOnlyOfBadMail`: how
far that goes: a null pointer, an exception or a read outside the buffer has no other
cause than an unknown type, a length less than a head's, invalid JSON with a byte behind
it, and a message across two nodes. `LegacyInv` adds the alignment of the buffer.
`DeliversAtClose`: at the end of the stream what has come whole is returned.

`ImagesAsSent`: until `recv()` returns a part of a field, or nothing inside an image, the
client is at the byte where it believes to be, and shows each image, whole, in order.

### Bounds

Server: two pids, so that two children die under one signal and a pid is used
again; three connections (two for liveness), so that a third is accepted while two
children hold theirs; five descriptors (four): stdin, the listening socket,
`connfd`, the duplicate and one to spare, and a full table when the session needs
one. `MCStackValue` holds every descriptor and one value that is none. Pids and
connections are symmetric in the safety run (its action property quantifies over
them uniformly); the liveness run uses no symmetry.

Decoder: `HeadSize` 2 and `NodeSize` 6 in place of 12 and 512 keep the relations
that matter: a node holds several messages, the first byte of a message can be at
any place of it, heads and texts can lie across its end. Seven kinds of message
(empty body, text, valid and broken JSON, image, text data, no service), four more whose
heads lie (length 0; less than a head; a byte too few; a byte of the next message) and
three messages, so that there is one before and one after any. `GarbageHead` holds a head
without a service, one shorter than a head, and one of length 0. The run `jdt_node` has
only the seven, so that what it finds is not the fault of a peer.

Connection: three messages (two in `jdt_need` and `jdt_receive`), each of which may be
the one that is cut, after any of its bytes; JSON bodies shorter and longer than a head;
five contents of an unwritten head: no service, a string of length 1, data of length 0,
and strings of a length that is right by chance and one that never ends. `Word` 64 and
`BufSize` 4 in place of 2^32 and 8192, so that a wrapped difference is larger than any
message and the buffer may overrun; `NodeSize` 32 keeps node ends out of these runs.

Rio: a buffer of two bytes, less than the largest request and than the five bytes of
the stream, so that one call takes from two refills and one refill serves two calls;
a pipe of three, so that a refill meets fewer and more bytes than it has room for;
newlines at 2 and 3: the last byte of a buffer and the first of the next, and an empty
line; requests from 0 to 3. `MaxBytes` bounds the stream.

Client table: two processes, so that one acts between any two steps of the other, and
six requests over two names and two pids, so that an INSERT collides in its name, in its
pid or in neither, and both kinds of key are searched for.

OpenFd: two servers, which race for an address, and a client; a list of two addresses,
so that there is one to go on to; descriptors 0 to 2, so that `socket_fd_` may name stdin,
the connection itself, a free descriptor or (-1) none.

SioLtoa: a long of 7 bits and every value of it. LONG_MIN is a power of 2 and of 8, and
not of 3, 10 and 16: with and without overflow, with one digit to seven.

JdtLegacy: a head of two bytes, reads of four and nodes of five: a read holds a message
and a part of the next, heads and bodies lie across nodes. Three messages of all five
kinds, so that there is one behind a bad one.

VideoTransfer: three images of one or three bytes and a field of two: a field may come in
parts, and a wrong length may be less or more than any image. `MaxLen` bounds the number
that a wrong field gives.

### Fairness

`NatIpServer`: weak fairness of `main()`, of the delivery of a pending signal, of
the handler and of each child: the kernel runs what can run, and calls to MySQL
return with or without an error. Nothing makes a client connect or a child be
killed. `JdtDecode`: bytes that were sent arrive and `parse()` goes on.
`JdtConnection`: `recvMsg()` goes on once what it waits for is there; nobody has to
send, close or call. `Rio`: a `read()` that can return bytes or the
end does so at last (`ReadStep`); signals and errors may come, and nobody has to write.
`DataManager`: a call of the MySQL library returns or throws. `OpenFd`: system calls
return, if only with an error; which of them fails is open. `JdtLegacy`: `recvMsg()` goes
on once there is something to read; nobody has to send, close or call. `SioLtoa` and
`VideoTransfer` state no liveness and no fairness.
Deadlock is not checked: the server may exit, the stream may
end, the receiver may wait.

## Proofs

**Server** (`NatIpServerProofs`). Proved for every set of pids and connections,
every `MaxFd`, every set of descriptors open at the start and every set of values of
the uninitialized slot; the assumptions say only that the sets are what they are
named for. `IInv` is inductive: type, startup, zombies, session, current connection,
listener, errno, isolation and the collected pid. The safety properties by themselves
are not: that the loop holds no connection at `accept` needs to know where it is held
on the way (`CurrentConnInv`), that no row of a running process goes needs the
handler's pid to be unused while it works (`ReapedPidInv`), that no zombie is lost
needs to know where in the handler `waitpid()` will still be called (`ZombieInv`). One
lemma per action of `main()`, of the handler, of children and clients. From `IInv`
follow the seven safety properties, the action property `RowOutlivesChild`, and
`LedgerImplemented`: every step is a step of `ChildLedger` or none.

**Decoder** (`JdtDecodeProofs`). Proved for every head and node size, every set of
messages that have at least a whole head (`WholeHeadAssumption`), whatever length
that head gives, and every content of foreign memory. `DecodeInv` adds to the properties
`StreamInv` (messages follow one another without gaps), `DetailInv` (what the head in
hand says of the message) and `StuckInv` (what a refused message looks like, which is
why it is refused again and never passed). `SeesCurrent` is the core: what the
decoder sees at the front of its buffer, while nothing has been misread, is the first
message it has not taken off. `FramingImplemented` is the safety half of the
refinement of `JdtFraming`.

**Robust I/O** (`RioProofs`). Proved for every buffer size, every placement of
newlines, every set of requests and every length of the stream. `InOrder` is not
inductive: the bytes that `Copy` hands out are right because `BufferInv` says that the
buffer holds, from `rio_bufptr` on, exactly what lies between the bytes handed out and
the bytes read from the kernel; and `LinesAreLines` needs `CallInv`, which says of a
call in progress that it has passed no newline. `GiveStep` (bytes go to usrbuf),
`StopStep` (a call ends), `QuietStep` and `WriterStep` serve all actions. From `RioInv`
follow the safety properties and `StreamImplemented`, the refinement.

**Client table** (`DataManagerProofs`). Proved for any number of callers, names and pids
and any set of calls. `TableInv` is inductive: the unique keys by what `Inserts` demands,
the rest by the place of each caller, which no step of another changes (`OthersStay`).
`NoSessionLeaks` follows from it. `RefinesTable` is the safety half of `ImplementsTable`:
`AbstractUpdate` shows that the abstract state changes at one process only, and one lemma
per group of actions names the abstract step: nothing before the statement
(`AbstractBefore`), the effect at it (`AbstractAt`), the caller's data and its return after.

**Socket set-up** (`LibraryProofs`). For any number of processes, addresses and
descriptors and any values of `socket_fd_`. `OpenInv` and the two other invariants are
inductive only together: a server that returns is alone at its address because its
descriptor is the listener that `Listening` forbids to all others. `Compose` puts the
invariant of one process and that of the rest together again.

**Decimal output** (`SioLtoaProofs`). For every width of a long and every set of radixes
from 2 to 16. `GrowInv` says that the product is never more than |v|
(`ProductBound`, from the test of the loop), so that it leaves a long only as -LONG_MIN.
`TextIsNumber` is about a recursive function, the value of a text. The library's theorems
of induction take an operator and cannot be instantiated, but the well-foundedness of the
naturals is a fact about sets: `LeastNumber` says that a set of naturals that is not empty
has a least element, and each induction is a proof that the set of counterexamples is
empty. With that the value of a text is unique and grows by a digit as it should
(`DigitInv`: text, `base` and what is left of the number together are the argument), and
`base` stays a power of the radix, which is why dividing it ends at 1 (`ConversionEnds`).

**First protocol version** (`JdtLegacyProofs`). For every size of a head, a read and a
node, and every set of messages, those with a length less than a head's included. `LegacyInv` needs the messages to follow one another
without gaps (`MailInv`), the head in hand to be of the message at the start of the
buffer, and the zero head to come from invalid JSON only (`DequeInv`).

**Video client** (`LibraryProofs`). For every size of a field and of images.
`FramesInv` says that a field lies in front of each image and nothing between;
`FieldKeeps` that a whole field read in step is that of the next image.

**Receiver** (`JdtConnectionProofs`). For every set of messages, every byte after which
the sender may stop, every content of a head that `encode()` did not write, every width
of the length and every buffer of `recvMsg()`. The invariant of the decoder does not hold
here, as the heads on the wire may be wrong and their messages incomplete; `ReceiverInv`
says what is left: the types, and that no more is read than was sent. `NothingReceived`:
`recvMsg()` never returns a message, for any traffic, as `parseBody()` drops the Body.

**Loops** (`HandlerIsBounded`, `ParseIsBounded`, `ReceiveIsBounded`, `CallsAreBounded`,
`SearchIsBounded`, `ConversionEnds`, `LegacyIsBounded`). For each loop a rank in the
naturals that each step lowers: the half of termination that needs no fairness, for every
value of the constants. The rank of the handler counts the pids in use, so they are assumed to be
finitely many (`PidAssumption`), as those of a system are; `waitpid()` frees one
(`ReapFrees`), and `main()` takes none while the handler runs (`NoneForked`).
The rank of a read counts the bytes that are wanted, that of a search the
addresses that are left, that of a decoder the bytes of the stream and the buffer.

**The returned node** (`UsableExactly`). `ReturnedConnectionIsUsable` is violated; this
theorem says when, exactly, for every value of the uninitialized slot: the `Connection`
refers to what was accepted if and only if the slot was a descriptor, and not `connfd`.

**The parts together** (`LibraryProofs`). A step of `Library` is a step of one part and
leaves the others alone (`EachPart`), so that a behaviour of `Library` is one of each
part without its fairness (`EachBehaviour`). From that, `LibraryIsSound`, `LibraryStream`
and `LibraryAdvances` carry the invariants, the refinement and the ranks over to the
specification that the run `library` checks.

Model-checked only: that what is enabled happens (`CallsReturn`, `OpenEnds`, `DeliversAtClose`;
`ImplementsLedger`, `ImplementsFraming` and `ImplementsTable` with their fairness;
`AcceptedIsClosed`, `EndIsNoticed`), which rests on ENABLED and is out of the prover's
reach. The ranks above are the part of it that is proved. No theorem states
`ReturnedConnectionIsUsable`, `CreatedIsConnected`, `ParsesSavedData`,
`NeedsNoMoreThanMessage`, `ReturnsWhatWasSent` or `RefusedDoesNothing`: the code violates
them.

## Not modelled

- That a signal handler calls functions that are not async-signal-safe. The model
  has the interleavings, not the locks inside malloc(), stdio and the MySQL client.
- The contents of messages: JSON is valid or not; crc16, seq and ack are written as
  0 and never read.
- In `JdtLegacy`, heads with a wrong length that is not less than a head: the decoder is
  then out of step as `JdtDecode` shows for the later version.
- `Value`'s getters and those of `Msg`: no state.
- `Jdt::setFd()` and `release()`: nothing calls them. `setFd()` closes the old descriptor
  only when there is none, the opposite of its comment.
- `setConfigure()` and `loadConfig()` beyond their outcome, and printing.
- The accept loop of the video server, which has the form of the one in `src/server/`
  without a handler (its dead children stay), and OpenCV: a `VideoCapture` opened before
  `fork()` shares its file offset among the children, but what that does depends on the
  buffers of the library.
- Long texts: `snprintf()` cuts a statement at 1024 bytes.
- Wrappers that nothing calls (threads, semaphores, shared memory, select).

## What could follow

- `JdtConnection` over `Rio` in place of its `Readn`.
- The other wrong lengths in `JdtLegacy`.
- The rows of `DataManager` in `NatIpServer`, once a child registers its client: today
  only the delete has a caller.
- `setFd()` and `release()` with a run of their own, once they have a caller.
