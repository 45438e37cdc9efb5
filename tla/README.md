# Server_Client in TLA+

A verification project for Server_Client, a C++ client/server pair over
Winsock: a console server that keeps a pool of connected clients, and a
console client that authorises and exchanges packets with it.  The
specifications are written from the source under `src/`; TLC checks them on
small instances and TLAPS proves the main invariants for every instance.

## 1. The system

The repository has four Visual Studio projects.  `Common` (packet format,
socket wrapper, log, error codes) is linked into `Server` and `Client`;
`ServerAsio` is a separate echo server over a vendored copy of Asio.

| Component | State | Operations | Interaction |
| --- | --- | --- | --- |
| Server (`Server/Server.cpp`, `main.cpp`) | `started`, `authSocket`, `clientPool` under `clients_mutex`, two handler threads | `startServer`, `closeServer`, `send`, `sendAll`, `save`, lists, `processIncomeConnection` | console thread and two handlers share the pool and the listening socket; closing joins the others |
| Cleaner (`Server/Cleaner.cpp`) | `started`, `mode`, a thread | `startCleaner`, `closeCleaner`, `changeMode`, `cleanInactiveClients` | walks the pool under the server's mutex, calls `disconnect()` of sessions, erases them |
| ConnectedClient (`Server/ConnectedClient.cpp`) | `started`, `disconnected`, two sockets, `mainPackets`, `syncPackets`, two threads | `createThreads`, `sendPacket`, `disconnect`, `receiverThread`, `senderThread` | console pushes packets, cleaner disconnects, own threads send, wait for ACKs, retry |
| Client start-up (`Client/main.cpp`, `Client.cpp`) | `started`, `authSocket`, `dataSocket`, attempt counter | `init`, `authorize`, `disconnect`, the five attempts | console thread only, then creates the session's threads |
| Client session (`Client.cpp`, `Handler.cpp`) | `mainPackets`, `syncPackets`, `Socket::status` | `receiverThread`, `senderThread`, `handle_packet`, `handle_ack` | the receiver erases from the container the sender iterates |
| Socket (`Common/Socket.cpp`) | handle, `status` | `init`, `connect`, `shutdown`, `close` | used by the client only |
| Packet (`Common/Packet.*`) | bytes, two headers, `data_offset` | two constructors, `readData`, `writeData` | every message |
| Errors, limits, Log | constants; a log mutex | - | everywhere |
| ServerAsio | one detached thread per connection | `session` | none between sessions |

What is hard here is concurrency without a discipline: one mutex protects
the pool but not what the sessions contain; threads are stopped by plain
flags and joined; sockets are closed by one thread while others use them;
packets are confirmed, retried and cleared by different threads.  What makes
each component correct:

* Server and Cleaner: no walk of the pool meets an erased element; the
  listening socket outlives its users; closing ends, and leaves no thread, lock
  or session; a session is erased only after its threads were joined; the
  cleaner can be restarted, and when it is enabled its thread runs.
* ConnectedClient: a session that stops running ends; `disconnect()` leaves
  nothing behind; a packet that needs an ACK is retried until a message
  confirms it; a queued packet is sent before it is removed.
* Client start-up: a client that says it is started has an open socket,
  whatever an attempt that failed left behind; the attempts end; authorising
  is possible (it is not, at this commit); what is written into a packet stays
  in it.
* Client session: a packet that needs an ACK is kept until the ACK takes it out,
  although two threads use the retry list; an ACK takes out the packet it names;
  a session that stops ends, and `disconnect()` leaves nothing for the next one.
* Packet: the receiving end accepts what the sending end makes (it does not, at
  this commit, when a packet is received whole).
* ServerAsio: each peer gets its own bytes back, all of them and in order, and
  every session ends.

At this commit the server accepts connections and drops them: the code that
would create a session is a TODO (`Server.cpp:429`), the handshakes that
`ConnectedClient.h:25-26` declares have no definition, and
`ConnectedClient.cpp:337` still passes a raw `SOCKET` to `Packet::send`, which
takes a `Socket&`.  The session code is modelled as written and used: by the
cleaner, by the console commands and by the destructor.

## 2. Modules

| Module | What it is |
| --- | --- |
| `SessionLifecycle` | abstract: what the users of a session may assume of it (running, failing, ended, disconnected, erased) |
| `ServerCore` | the server process: console thread, two handlers, cleaner, mutex, pool, listening socket |
| `ConnectedClient` | one session of the server: its two threads, sockets and queues, and the code that calls it |
| `PacketFormat` | operators: constructor, `writeData`, `availableSize`, the size on the wire, what one `recv` may return of it and the test of `receiveData` |
| `ClientStart` | the client's main thread up to a session: the five attempts, `init`, `authorize` |
| `ClientSession` | one session of the client: console, receiver with the packet handler, sender, the server at the other end |
| `EchoStream` | abstract: what the echo server promises each peer (its own stream, append only, complete when a sound connection is closed) |
| `EchoServer` | `ServerAsio/main.cpp`: the acceptor, a thread per connection, the peers |
| `Queues` | the elements of a queue and `erase`, for the two session modules |
| `MCServer`, `MCConnectedClient`, `MCClientStart`, `MCClientSession`, `MCEchoServer` | the values TLC uses |
| `ServerProofs`, `SessionProofs`, `ClientStartProofs`, `ClientProofs`, `EchoProofs` | theorems about `ServerCore`, `ConnectedClient`, `ClientStart` with `PacketFormat`, `ClientSession`, `EchoServer` |
| `QueueProofs` | what `push`, `pop` and `erase` do to a queue, used by `SessionProofs` and `ClientProofs` |

`SessionLifecycle` is the joint between the server's modules.  `ServerCore`
sees a session only through its phase, and its action on every phase is shown
to be a step of `SessionLifecycle` for the whole pool.  `ConnectedClient` has
the threads behind the phase, and is shown to implement `SessionLifecycle` for
one session (`pool` is `{"this"}`, `session` is `Phase`).  So what `ServerCore`
takes for granted of a session, that it stops once, that both threads end, that
`disconnect()` waits for them, is what `ConnectedClient` delivers.  The client's
own session has other threads and other flags, and implements the same
abstraction.  `EchoStream` is the other abstract specification, for the separate
echo server.

### ServerCore

`pc` gives each of the four threads its next step; an uncaught exception or
invalid access sets `pc["main"] = "aborted"`, which disables every action.
`Lock` and `Unlock` are `clients_mutex`; a second lock by its owner (`Relock`)
is undefined in C++ and takes either outcome, an exception or a block for good.
A walk of `clientPool` is a set `todo` of keys still to visit: C++ iterates in
key order, and as the visits of different sessions commute no property depends on it.

| Code | Actions |
| --- | --- |
| `startServer`, `initSockets` | `StartServer`, `SpawnHandler` |
| console loop, `Server/main.cpp` | `TypeLocking`, `TypeGetMode`, `TypeMode`, `TypeEnable`, `TypeDisable`, `TypeClose` |
| `processClientsByPair` of `list` | `WalkLock`, `WalkVisit`, `WalkDone` |
| `sendAll`, `save` | `PacketsLock`, `PacketsVisit`, `PacketsDone` |
| `send`, `findClient` | `SendLock`, `SendTo`, `SendData` |
| `startCleaner`, `closeCleaner` | `TypeEnable`, `EnableCleaner`, `TypeDisable`, `JoinCleaner` |
| `cleanInactiveClients` | `CleanLock`, `CleanVisit`, `CleanDone` (console and cleaner) |
| `closeServer` | `TypeClose`, `JoinHandler`, `CloseCleaner`, `ClearLock`, `ClearVisit`, `ClearDone`, `CloseSocket` |
| `processIncomeConnection` | `HandlerLoop`, `CountLock` .. `CountDone`, `Poll`, `Select`, `Ready`, `Accept`, `TouchLock`, `TouchDone`, `HandlerSleep` |
| `inactiveClientsCleaner` | `CleanerLoop`, `CleanerSleep` |
| a session's own threads | `SessionFails`, `SessionEnds` |

The pool starts as any set of keys, of running sessions or of ones whose
threads were never created, since the code that fills it is missing.

### ConnectedClient

`user` is the code outside (console, cleaner or destructor, one at a time by
`clients_mutex`), `receiver` and `sender` the two threads.  A socket member is
"open", "closed" between `closesocket` and the assignment, then "invalid":
`isRunning()` reads the member only.  The loop over `mainPackets` sends
`back()` and pops the front, so `current` and what `Tail` removes may differ.
The wait for an ACK reads the same socket as the receiver, and any message
confirms the packet in hand.  No queue has a lock: a push beside the sender's
`empty`, `back` or `pop`, or two `push_back` calls, may end the process
(`Abort`), and a push beside a pop may leave its element uncounted (ghost
`history.lost`).  Both handlers print as many bytes as the message's header says
it has, which may be more than were received; that read, too, may end the process
(`Overread`).  `history` records what was pushed, lost, handed to `send`
and confirmed, and no action reads it but to push a packet once.

Every call of `recv` and `send` may return any of its outcomes.  `recv` returns
in bounded time only with `SO_RCVTIMEO`, which `initSocket` sets
(`Server.cpp:334`) on the listening socket, and accepted sockets take over.

### ClientStart and PacketFormat

One thread, `pc`, and what it may leave behind: a handle is named by the attempt
that opened it, and `authStatus` and `dataStatus` are `Socket::status`.  Every
call of `init` may fail when `network` is "any", and none when it "works".

| Code | Actions |
| --- | --- |
| `start`, the typed login and password | `TypeLogin`, `TypePass` (their lengths) |
| `start`, the loop | `NextAttempt`, part of every action that fails |
| `Client::init` | `BeginInit`, `CreateAuth` (`initSocket`, `Socket::init`), `Connect`, `Authorize` |
| `Client::authorize` | `AuthOutcomes`; `AuthPacket` is the packet it builds |
| `main` | `Exit` |

`AuthOutcomes` is the conditional on which the rest of `init` hangs: `send` on
`dataSocket` fails while `dataSocket` is `INVALID_SOCKET`, and `init` creates
`dataSocket` after `authorize`.  So the branch that goes on to a session is in the
model, and no behaviour takes it; `client_authorizes` shows that.

### ClientSession

The initial state is the one in which `init` calls `createThreads`, with
`dataSocket` connected.  The program does not get there at this commit
(`ClientStart`), and `init` never connects `dataSocket`; the module is
about the code from there on, as it is written.

| Code | Actions |
| --- | --- |
| `createThreads` | `CreateThreads` |
| command loop of `Client/main.cpp` | `ConsoleTest`, `TypeSend`, `TypeOther`, `TypeClose` |
| `sendPacket` | `PushBegin` and `PushEnd`, in `TypeSend` and `SendPacket` (console), `HandleMessage` and `SendReply` (receiver) |
| `disconnect` | `TypeClose` or `ConsoleTest`, `JoinReceiver`, `JoinSender`, `ClearQueues` |
| `receiverThread`, `handlePacketIn`, `receiveData` | `ReceiverTest`, `ReceiveData`, `ReceiverClose` |
| `handle_packet`, `handle_ack` | `HandleMessage`, `FindAcked`, `EraseAcked`, each with `Answer`, the reply at the end of `handle_packet` |
| `senderThread`, first loop | `SenderLoop`, `TakeMain`, `SendData`, `PopMain` |
| `senderThread`, second loop | `TakeSync`, `SendData`, `NextSync`, `SenderClose` |
| `Socket::shutdown` | `Shutdown` |

`retrying` is `packetIt`, an index of `syncPackets`, and `found` is
`acked_packet`.  They are indices and the vector may change under them, which is
the subject of the module: an erase before `packetIt` makes it name the next
packet, or a position beyond `end()` (`SenderOverrun`); a change between
`find_if` and `erase` is recorded in `moved`, and the erase may then take
another packet, or write to storage that is gone.  A `push_back` beside an erase
may lose its element.  Races that end the process are `MainRace`, `SyncRace`
and `SenderOverrun`; each is a possible step wherever two threads are inside the
same container, never a certain one, and the invariants hold of all that
follows when it is not taken.  So is `Overread`: `receiveData` accepts a message
only when `data_size` equals the bytes of one `recv`, headers included, so the
last bytes of an accepted message were not received, and of a very short one not
even the headers.  The ghost `history` says what was lost that way,
and which packet a push left in `mainPackets` last.

The peer acknowledges a packet that reached it, once for each time it did, when
it likes or never, and sends messages of its own.  Any of them may have `needACK`
set (`asks`), an ACK or an unknown one too: `handle_packet` then pushes a reply
whatever came of the message, and only after that breaks or goes on.  The connection is TCP: it
keeps the order, and it may break at any `recv` or `send`.

### EchoServer

| Code | Actions |
| --- | --- |
| `server` | `Accept`, `Detach` |
| `session` | `Names` (the three messages that call `remote_endpoint`), `ReadSome`, `ReadEnds`, `Write` |

The i-th byte a peer sends has the value i, so a byte echoed twice, out of
order, or from another connection's buffer shows.  `asio::write` hands over its
bytes in as many pieces as the connection has room for (`Window`).  Both
`write` and `remote_endpoint` throw on a connection that was reset, outside any
`try`, which ends the process.

## 3. What TLC checks

| Run | Module | Properties | Distinct states | Shows |
| --- | --- | --- | --- | --- |
| `server_safety` | `MCServer` | `TypeOK`, `IteratorsValid`, `SocketOpenInCall`, `QuietAfterClose`, `CleanerRestartSafe`, `WaitsEnd`, `CoreInv`, `ImplementsLifecycle`, `OnlySendLeaks` | 1.9 million | no interleaving of the four threads and two sessions leaves a walk with an erased element, closes the socket under a handler, forgets a thread or moves a session out of order; waits never form a circle; only `send` leaves the mutex locked |
| `server_live` | `MCServer` | `CloseServerUnlessStuck` | 230 thousand | `closeServer` returns unless one of two known causes lasts |
| `close_accept` | `MCServer` | `CloseServer`, violated | | both handlers select on one connection; the one that loses sits in `accept`, and `closeServer` in `join` |
| `close_locked` | `MCServer` | `CloseServer`, violated | | `send` returned with the mutex locked, `closeServer` locks it again |
| `cleaner_enabled` | `MCServer` | `EnabledCleanerRuns`, violated | | the cleaner's thread read `started` before `startCleaner` set it, and is gone |
| `session` | `MCConnectedClient` | `TypeOK`, `DisconnectedClean`, `RetryKeepsPacket`, `NewestAttempted`, `SessionInv`, `ImplementsLifecycle`, `StoppedSessionEnds` | 344 thousand | retried packets are kept, the newest packet always reaches `send`, stopping ends both threads, `disconnect()` is clean |
| `packet_lost` | `MCConnectedClient` | `EveryPacketAttempted`, violated | | with two packets queued the older one is popped unsent |
| `client_start` | `MCClientStart` | `TypeOK`, `StartedHasSocket`, `NoSession`, `AuthPacketInBounds`, `StartReturns` | 4 thousand | the attempts end whatever fails, a client that is started has an open socket whatever they leave, none gets past `authorize`, and `authorize` writes in bounds |
| `client_authorizes` | `MCClientStart` | `ClientAuthorizes`, violated | | no call fails, and five attempts end at `authorize`'s send on a socket that does not exist |
| `client_session` | `MCClientSession` | `TypeOK`, `ClosedClean`, `RetryKept`, `NewestSent`, `ClientInv`, `ImplementsLifecycle`, `StoppedSessionEnds` | 1.0 million | with all the races on the queues, a packet that needs an ACK is dropped by an ACK or a race only, the packet pushed last reaches `send`, `handle_ack` takes the right one unless the sender moved it, both threads end |
| `message_refused` | `MCClientSession` | `BreaksOnlyWhenLost`, violated | | a message as `PacketFactory` makes it, received whole, ends the receiver |
| `echo` | `MCEchoServer` | `TypeOK`, `EchoesInOrder`, `ClosedIsComplete`, `EchoInv`, `ImplementsStream`, `EverySessionEnds` | 481 thousand | bytes come back in order and complete, nothing is written on a connection that broke or was closed, a session ends when its peer left |

**Bounds.**  `server_safety` has two sessions, so that a walk holds one while
another thread moves or erases the other; `MaxClients = 1`, so that with two
running sessions a handler finds the server full and with one it does not;
`MaxBacklog = 1`, one waiting connection for two handlers, which is the race.
`server_live` has one session and `MaxClients = 0` for the same reasons at a
size the liveness check can take.  `session` has three packets, two of which
need an ACK: two in `mainPackets` make back and front differ, a third is
pushed while one is retried, and the mix of kinds exercises both ends of
`handlePacketOut`.  `MaxInbox = 1` is one message that both threads want.
`client_start` has the five attempts of the code, and the lengths 0, 1, 31 and 32
(the last that fits five bits and the first that does not) and 255 (the first
that `start` refuses).  `client_session` has one packet that needs an ACK and one
that does not, and `MaxMessages = 1`, one message of the peer's own or one ACK that
asks for a reply: so `syncPackets` holds up to two packets and the reply, an erase may come before,
at and after `packetIt`, and the retry of a packet gives rise to a second ACK
for it; `Frames` is what `recv` may return, whole or in part, of packets with no
data and one byte, all refused, and the one part of a longer packet that is
accepted.  With as many bytes of data as the headers have, the bytes but for the
last 17 are as many as `data_size` says.  `echo` has
two connections, a buffer of two bytes, four bytes to send and a window of
three, so that the stream is cut in the middle of a buffer by reads and in the
middle of a message by writes.

**Fairness.**  Every thread that runs is scheduled (weak fairness per thread);
`select`, `Sleep`, `recv` and `send` return within their timeouts.  Nothing is
assumed of the operator, who may never type, nor of the network, and nothing of
`accept`, which has no timeout: its action is enabled only while a connection
waits.  In `client_session` only the console's own steps are fair, not what the
operator types, and the peer owes nothing, so `StoppedSessionEnds` holds with an
ACK that never comes.  In `echo` a peer reads its answers; when it sends and
leaves is its own matter.  `server_live` also assumes `SessionEnds`, which is what
`StoppedSessionEnds` shows of `ConnectedClient`.

**Deadlock** checking is off: a closed server, an aborted process, a
disconnected session, a client that gave up and a connection nobody uses really
stop.

**Findings.**  The six violations are of statements of the repository (the
console's help, a comment, a message) that the code does not meet;
`PROJECT.json` quotes them.  Beside some of them stands what the code does
ensure: `CloseServerUnlessStuck` shows that the two causes found for a hang of
`close` are the only ones, `WaitsEnd` and `OnlySendLeaks` why: no wait goes in a
circle, and no other step leaves the mutex locked.  `NewestAttempted` and, in the
client, `NewestSent` are what the sender's loop does ensure although
`EveryPacketAttempted` fails: what is pushed last is sent.  `NoSession` is the
other side of `client_authorizes`: not only may five attempts fail, none can
succeed.
`message_refused` uses the frames of short packets, which are refused however
much of them comes with the headers.  It is not so of every packet: one whose last 17 bytes come with the
next `recv`, because TCP cut it there or `NET_BUFFER_SIZE` did (8192 bytes of data
and more), is accepted, and what is left of it is taken for the next message.  Two more causes for the same
property are in the model and in `client_session`: an ACK that overtakes the
sender's `push_back`, and the second ACK of a packet that was sent twice, are
both refused by `handle_ack` (`Handler.cpp:63`) and end the receiver.

## 4. What is proved

All theorems hold for every set of clients, packets and messages and every
bound.  They assume of the constants what the ASSUME of each module says
(`ConstantsOK`, `StartConstantsOK`, `ClientConstantsOK`, `EchoConstantsOK`), which
TLC evaluates in every run.

`ServerProofs`: `TypeCorrect`, then `CoreCorrect` for the inductive invariant
`CoreInv`.  `IteratorsValid` alone is not inductive: that no other thread erases
during a walk needs `MutexOwned` (who is in a critical region owns the mutex);
`SocketOpenInCall` needs `ThreadsJoinable` and `HandlersJoined` (the joins come
before the socket is closed) and not the flag `started`; `QuietAfterClose` needs
`CleanerJoinable` (thread object and flag go together but between the two
assignments) and `PoolCleared`.

From `CoreInv`: `WalksAreSafe`, `SocketOutlivesHandlers`, `CloseIsQuiet`,
`RestartIsSafe`. `NoCircularWait` needs `MutexOwned`: the
owner of the mutex is in a region in which it waits for none of the four threads
(only for those of a session, which take no lock), and a handler or the cleaner
waits for the mutex and nothing else; so a chain of waits has at most two links,
the console in a join and the joined thread at the mutex. `OnlySendKeepsMutex`
is an action property, proved action by action. `LifecycleImplemented` is the
refinement of `SessionLifecycle`.

`SessionProofs`: `SessionTypes` and `SessionCorrect` are proved together, since
the types of the queues need `PacketInHand` (`pop` and `erase` never meet an empty
queue or a stale index) and the invariant needs the types.  `ThreadsInv` is the
part about threads, sockets and retries: `RetryKeepsPacket` rests on two lemmas
about sequences, `AppendElements` and `WithoutAtElements` (erasing one element keeps
all others), and on `PacketInHand`: the packet being retried is the one at the
index the sender holds.  `SessionInv` adds what `NewestAttempted` rests on, and
`NewestIsSent` proves it: the packet pushed last is at the back of `mainPackets`
until the queue is empty (`NewestAtBack`), a packet in hand that is the only one
left is that packet (`OnlyPacketInHand`), and it was given to `send` before `pop`
(`HandedToSend`).  `PushedLast` ties the queue to the order of the pushes, which
lets `NewestStep` compare the newest packet before and after a step.
`SessionImplementsLifecycle` splits on the phase, and only the closing of a socket
and `disconnect()` change it.

`ClientStartProofs`: `StartInvariant` for `StartInv`: types, that
`dataSocket` is `INVALID_SOCKET` up to a session, that the attempt under way is
one of those `start` makes, and `SocketReady`.  `StartedHasSocket` alone is not
inductive: no error path resets `started` or closes the socket, and the next attempt
overwrites the handle, so that it needs `started` to be FALSE from `init`'s first
lines to `connect` (`SocketReady`); `StartedOnOpenSocket` is the theorem.
`NoSessionStarts` comes from the same invariant: only an authorisation creates `dataSocket`, and it needs one.  `AuthorizeStaysInBounds` follows
from two lemmas about `PacketFormat`: the constructor fills the packet, and a
write to a full packet changes nothing, whatever `availableSize` answers.

`ClientProofs`: types and `ClientInv` together, action by action, one lemma per
part.  `ThreadsStep` and `ThreadsInvStep` are about labels, `status` and
`disconnect`; `MessagesStep` and `QueuesStep` about types (no step takes an element
a queue does not have, which needs `PacketInHand` and `ErasesAcked`); `HandStep`
about the packet in each thread's hand; `ErasesStep` about the iterator of
`handle_ack`; `KeptStep` about retries.  `RetryKept` is not inductive: when the
second loop puts its packet back by moving on, the packet must still be in
`syncPackets` although the receiver may have erased since, which is
`RetriedKept`; and `disconnect()` empties the queues only where no thread has a
packet in hand.  `NewestStep` is `NewestIsHandedToSend`, the client's counterpart of
`NewestIsSent`: two threads push here and a push may be lost, so the invariant
`NewestAtBack` speaks of the push that last left its packet in the queue.
`ClientImplementsLifecycle` needs `StatusFollowsThreads`:
only the thread that returns counts its direction as closed, so the last
`Shutdown` cannot make a stopped session run, and the sender returns from a
stopped session only.  `ClosedClean` is what excludes a race after
`disconnect()`, which would take the phase back.

`EchoProofs`: `EchoInv` says where each session is in its peer's stream
(`InBuffer`): after a read, byte i of the buffer is byte `taken - length + i` of
the stream, and `echoed` ends `length - done` bytes before `taken`.
`EchoesInOrder` alone says nothing of the buffer and is not inductive.  A write
that hands over a piece is the lemma `StreamGoesOn` on sequences, and a step of
one connection keeps the invariant of the others (`OnePeerMoves`).
`EchoImplementsStream` is the refinement of `EchoStream`: a write is a longer
beginning of the stream on a link that is up (`WriteEchoes`), a session that ends
closes a link that broke or has nothing left, and all else is not seen.

Only model-checked: the liveness properties (`CloseServerUnlessStuck`,
`StoppedSessionEnds` of both sessions, `StartReturns`, `EverySessionEnds`), since
TLAPS does not prove liveness under fairness here; and the violations, which are
counterexamples.  Every invariant and action property of a passing run is a theorem.

## 5. Not modelled

* The Asio headers: 477 of the repository's 512 files and nearly all of its lines
  are a vendored library.  `EchoServer` models the three calls `ServerAsio` makes.
* What is printed, `Log`, the error enumerations; `save`'s files; the text typed
  for IDs and addresses (`findClient` returns any running session or none);
  `ServerState` and `ClientState`, which nothing reads.
* `receivedPackets` and `sendedPackets`: pushed into, printed, cleared.
* `Packet::readData`: only the end of `authorize`, which no behaviour reaches,
  calls it.  `Socket::setTimeout`: its failure is a warning, its effect is that
  `recv` and `send` return, which is the fairness assumed.
* The IDs of the session factory, which nothing at this commit calls.

Hazards that the models contain and no property rules out are listed with their
reason in `PROJECT.json`:

* The limit of clients.  `Server.h:9` says "10 clients limit", and with that many
  sessions running a handler still goes on to accept one more, since
  `Server.cpp:382` compares with `>`.  `CountDone` has the comparison as it is.  The
  accepted connection is dropped (the code that stores it is a TODO), so no state of
  this commit has a session too many, and no property is about the limit.
* The ends of the process by a race, an overread or an uncaught exception: the
  properties allow for them, and nothing in the repository denies them.
* Packets taken from `syncPackets` by a race, and messages of the server's peer
  taken for another packet's ACK: the ghosts `lost` and `confirmed` record them, and
  `RetryKept` and `RetryKeepsPacket` hold of the rest.
* A client that lost its receiver while `::shutdown` failed, which goes on as running.
* The credentials that `authorize` leaves out of its packet.

There is no module that puts a client's session and a server's session at the two
ends of one connection.  Nothing in the repository connects them: the server
drops what it accepts, the client does not reach a session, both consoles create
their packets with `needACK` false, and the server has no code that sends an
ACK.  Each side is modelled against a peer that may do anything the protocol
allows, which covers what the other side would do.
