# Verification of the chat server

TLA+ models, TLC runs and TLAPS proofs for the cluster chat server of this
repository: a C++ server (`src/server`) on a hand-written network library
(`thirdparty/my_network_demo`), MySQL for accounts, groups and offline
messages, Redis publish/subscribe between server processes, and a console
client (`src/client`). Paths below are relative to the repository's root.

Run a model with `tlc -config <run>.cfg <module>` and check proofs with
`tlapm <module>Proofs.tla`.

## 1. The system

| Component | State | Operations | Interacts with |
|---|---|---|---|
| `ChatService` (singleton per server process) | `_userConnMap` under `_connMutex`, the handler table | `loginHandler`, `registerHandler`, `oneChatHandler`, `groupChat`, `addFriendHandler`, `createGroup`, `addGroup`, `clientCloseExceptionHandler`, `redis_subscribe_message_handler`, `reset` | called by the I/O loops and the Redis observer thread; calls models, Redis, `TcpConnection::send` |
| `ChatServer`, `main.cpp` | the `TcpServer` (4 I/O threads) | `onConnection`, `onMessage`, SIGINT handler | network library, `ChatService` |
| `Redis` | two hiredis contexts, one detached observer thread | `publish`, `subscribe`, `unsubscribe`, `observer_channel_message` | broker, callback into `ChatService` |
| Data models (`usermodel`, `offlinemessagemodel`, `groupmodel`, `friendmodel`) | none: tables `user`, `offlinemessage`, `allgroup`, `groupuser`, `friend` in MySQL | one SQL statement per method, autocommitted | connection pool |
| `MysqlConnectionPool` | `connectionQueue_`, `currentSize_` under `mutex_`, `cond_` | `getConnection` and the deleter of its result, producer and recycler threads | handlers and observer borrow from it |
| Client | menu state, `g_currentUser`, `rwsem`, a read thread | login, register, chat commands, loginout, quit | server connection |
| `EventLoop`, `EPollPoller` | `pendingFunctors_` under `mutex_`, `wakeupFd_`, `quit_` | `loop`, `quit`, `runInLoop`, `queueInLoop` | every thread of a server |
| `TcpConnection`, `Channel`, `Buffer` | `state_`, input and output buffers | `send`, `shutdown`, read/write/close handlers | loop of the connection |
| `TcpServer`, `Acceptor`, `EventLoopThread(Pool)` | connection map, loops, round-robin index | accept, start, remove | one loop per thread |
| `TimerQueue`, `ThreadPool`, `AsyncLogging`, `LogFile`, HTTP server | as named | not used by the chat server, except for logging | `EventLoop` |

What makes it hard:

* A handler runs on the I/O loop of its connection, four loops and one observer
  thread per server, several servers on one database. The only lock,
  `_connMutex`, is local to a server and protects one map; nothing spans the map,
  the column `user.state`, the broker's subscriptions and the offline table.
* `user.state` is read at the start of `loginHandler` and written three calls
  later; the close handler erases, unsubscribes and updates in three steps.
* A message takes one of four routes (same loop, other loop, other server,
  offline table), chosen from a state that may be stale when the route is taken.
* SUBSCRIBE/UNSUBSCRIBE are written and not awaited.
* A server may be killed or interrupted, a client may leave at any moment.
* Neither end frames its messages: both parse whatever one read returned. The
  client's two threads share globals without a lock and meet at one semaphore.
* Condition variable, `wait_for` timeout and a missing notify in the pool; an
  eventfd, a swapped vector and a flag in the event loop; one timerfd for all timers.
* A connection lives on two loops, is sent on by any thread through a raw `this`, and
  its descriptor is reused as soon as it is closed.
* Two pairs of buffers travel between the logger's front end and its thread.

`PROJECT.json` lists these hazards at their lines, with the properties that
cover them, or the reason why none does.

Correctness, per component: one owner per account and no account stuck online
(sessions); delivered once, to the right user, and lost only where the design
has a window (routing); an answer only where a request waits for one, and every
wait ended but where section 6 says (client); no connection shared, lost or leaked (pool); functors
run once, in order, without waiting for unrelated traffic, timers never early and
never missed (event loop); one ordered byte stream per connection, no use of a
freed one, nothing left behind by a dead one (network); every line in the file
once and in order (logger).

## 2. Modules

| Module | Models |
|---|---|
| `ChatService.tla` | clients, login/close/chat handlers on their loops, observer threads, broker, the columns and tables they use, killed and interrupted servers |
| `ChatDelivery.tla` | `ChatService` with a history variable; the promises about messages |
| `MCChatService.tla`, `MCChatDelivery.tla` | layouts (which client reaches which server, which loop) for TLC |
| `ChatClient.tla`, `MCChatClient.tla` | both threads of one client, the byte streams of its connection, `onMessage` and the handlers that answer it or change the contact tables |
| `ConnectionPool.tla` | `MysqlConnectionPool` |
| `TaskQueue.tla` | abstract specification of `queueInLoop`: a FIFO of tasks, each run once |
| `EventLoop.tla` | `EventLoop` and the threads that call it; implements `TaskQueue` |
| `TimerQueue.tla`, `MCEventLoop.tla` | `TimerQueue` composed with `EventLoop`, which it implements |
| `ByteStream.tla` | abstract specification of `send`: messages form one stream, the peer gets a prefix of it |
| `TcpConnection.tla` | a connection's output, its channel in the poller and its life on two loops; implements `ByteStream` |
| `AsyncLogging.tla` | `AsyncLogging` and the threads that log |
| `ChatServiceProofs.tla`, `ChatSessionProofs.tla`, `ChatDeliveryProofs.tla` | theorems about `ChatService` (types; sessions, map and subscriptions) and about the promises of `ChatDelivery`, each module on top of the one before |
| `EventLoopProofs.tla` | theorems about `EventLoop` and `TimerQueue` |
| `ChatClientProofs.tla`, `ConnectionPoolProofs.tla`, `TcpConnectionProofs.tla`, `AsyncLoggingProofs.tla` | theorems about the module each is named after |

How they fit together. `TimerQueue` extends `EventLoop`: its steps are steps of the
loop with the timers added. `TcpConnection` takes from `EventLoop` that functors run
first in, first out, on the loop's thread. `ChatService` takes from `TcpConnection`
that messages keep their order and that a dead connection's close handler runs
once; `ChatClient` looks at one connection of `ChatService` in finer grain, bytes
instead of messages, with the rest of the cluster as an environment.

Operators named as the comment "Mutant" says are variants of the definition
below them with a plausible bug; each property is checked to fail on one of them.
They are not part of `Next`.

### ChatService

A step is what no other thread or process can observe in the middle: one SQL
statement, one Redis command, one critical section of `_connMutex`, or one
`send`. `pc[c]` is the next such step of the handler that runs for connection
`c`, and `uid, msg, tgt, todo, read` are that handler's locals.

| Code | Actions |
|---|---|
| client `main`, `mainMenu`, `loginout` | `Connect`, `LoginRequest`, `Loginout`, `Quit`, and the client half of the chat actions |
| `loginHandler` | `LoginUnknown`, `LoginInUse`, `LoginAccept`, `LoginInsert`, `LoginSubscribe`, `LoginUpdate`, `LoginReadOffline`, `LoginRemoveOffline`, `LoginRespond` |
| `oneChatHandler` | `OneChat`, `QueryState`, `Publish`, `StoreOffline` |
| `groupChat` | `GroupChat`, `GroupLock`, `GroupMember`, `Publish`, `StoreOffline`, `GroupUnlock` |
| `TcpConnection::send`/`sendInLoop` | `Send` (at once on the connection's loop, else queued), `RunFunctor` |
| `TcpConnection::handleClose`, `clientCloseExceptionHandler` | `HandleClose`, `CloseErase`, `CloseUnsubscribe`, `CloseSetOffline` |
| `observer_channel_message`, `redis_subscribe_message_handler` | `Notify`, `NotifyStore` |
| broker | `RedisExecute`, and the fan-out inside `Publish` |
| SIGINT handler | `Interrupt` (`reset()`), `Exit` |
| a dying process | `Kill` |

`_connMutex` is held over several steps only in `groupChat`'s loop and in the
observer's callback; `Locked(s)` says so, and everybody else waits for it.
`ServerStops` is the end of a process: its clients read end-of-file and exit, the
broker drops its subscriptions, and the process starts again with an empty map.
The state column is not touched, because nothing in `main` does.

Abstractions. Account numbers, messages and groups are model values. A wrong
password and an unknown id are the value `NoUser`; `Accounts` says what each
person may type. Friends and groups in the
login response are not represented (no property reads them). A client handles
an answer in the step that writes it to its socket. SQL statements and Redis
commands succeed, and a socket takes every write at once. `GroupQueryParses` is
FALSE for the query text of `groupmodel.cpp:61` (`ans` for `and`); TRUE shows what
`groupChat` would do with the query that `groupmodel.h:22` describes.
A client sends a request only while the server runs no handler on its loop;
`ChatClient` drops that restriction.

`GroupQueryParses` is FALSE, as in the source, in every run but one. With FALSE no step of
`groupChat` goes wrong, there are just no members to send to: a group message reaches
nobody, and `CalmDelivery` is about one-to-one messages. `ChatLiveness` sets it to TRUE:
its question is whether everybody else gets on while `groupChat` holds `_connMutex` over
database and Redis calls, and only the loop over members does that. The theorems hold
for both values.

A connection may get a second entry in `userConnMap`: nothing handles a loginout, so a
login to another account on the same connection inserts beside the first. `CloseErase`
takes one entry, as `ChatService.cpp:54-59` does, whichever comes first in the hash table.
`printedFor[c]` remembers for which accounts the client of `c` has printed a message;
`RightReader` compares it with the account that is logged in there.

`Disruptions` names what goes beyond plain use: `"overlap"` (two attempts to log
in to one account at once), `"loginout"`, `"kill"`, `"sigint"`. Section 6 says what
each of them breaks; a theorem says for which of them it holds.

### ChatClient

A message is two parts long, and `Recv(n)` and `OnMessage(n)` take the first `n` parts that
have arrived for one document: half a message, one, or more than one. The
client's requests end in a zero byte, so the server's `parse` stops there and drops
what follows; its answers do not, so the client's `parse` throws. An exception
nobody catches ends the process.

| Code | Actions |
|---|---|
| `main`, case 1 | `ChooseLogin`, `Login`, `Released` |
| `main`, case 2 and 3 | `Register`, `Released`; `Quit` |
| `mainMenu` and its commands | `Command` (`addfriend`, `addgroup`, `creategroup`, `chat`, `groupchat`), `Loginout` |
| `readTaskHandler`, `doLoginResponse` | `Recv`, `Show`, `Post`, `RecvEnd` |
| `ChatServer::onMessage` | `OnMessage` |
| `loginHandler` | `LoginIgnored`, `LoginRefused`, `LoginAccepted`, `LoginInsert`, `LoginUpdate`, `LoginAnswered` |
| `registerHandler`, `addFriendHandler`, `addGroup`, `createGroup` | `RegisterHandler`, `InsertRow`, `CreateGroup`, `InsertRow` |
| `getHandler`'s default; a chat handler | `OtherHandler` |

Inserts and the contact queries of a login may fail. `Push` and `Elsewhere` are the
other clients: chat messages to this connection, and accounts going on and off line,
also between the query and the insert of a login here. `LoginInsert` does what
`unordered_map::insert` does: an entry that an overlapping login has made stays, and the
account is then mapped to another connection than the one that is told of its success.

### ConnectionPool

One step per critical section of `mutex_`; the producer and the recycler keep
`mutex_` over one step per connection they create or delete. A thread is `out`,
`waiting` (in `wait_for`), `awake` (contending for `mutex_` again) or `using` a
connection; `notify_all` moves every waiter, and the producer, to `awake`, and
`WaitTimeout` moves one there. The clock shows as the idle time of each queued
connection, counted up to `MaxIdle`.

### EventLoop

`queueInLoop` and `quit` are two steps each (append or flag, then `wakeup`), one
iteration of `loop` is `poll`, `handle`, `swap`, `calling`. Functors are queued by
other threads, by channel handlers (no wakeup: the loop is about to run functors)
and by functors (wakeup, because `callingPendingFunctiors_`). `PollOther` is any
other event or the poll timeout.

### TimerQueue

`addTimer` is `QueueInLoop` with the timer as the task (`AddTimer`), or, in a handler or a
timer's callback, `addTimerInLoop` at once (`AddTimerInside`). The timer channel's
`handleRead` is `HandleTimer` (read the clock, `getExpired`), one `RunTimer` per callback and
`Reset`. Time is counted in ticks and may pass between any two steps. The 100
microseconds that `resetTimerfd` adds to a moment that has passed are less than a
tick, and microseconds are not rounded.

### TcpConnection

| Code | Actions |
|---|---|
| `TcpServer::newConnection`, `removeConnection`, `removeConnectionInLoop` | `NewConnection`, `RemoveConnection`, `RemoveConnectionInLoop` |
| `connectEstablished`, `connectDestroyed` | `ConnectEstablished`, `ConnectDestroyed` |
| `send` on another thread; its functor; on the loop | `BeginSend` (map lookup under `_connMutex`, `state_` read), `QueueSend`; `RunSend`; `Reply` |
| `sendInLoop` | `SendInLoop`, `WriteNow` |
| `shutdown`, `shutdownInLoop` | `Shutdown` |
| `handleRead`, `handleWrite`, `handleClose` | `HandleRead`, `MessageDone`, `HandleWrite`, `HandleClose`, `ConnectionDown` |
| `EPollPoller::updateChannel`, `removeChannel` | `UpdateChannel`, `RemoveChannel` |

A shared pointer is counted by who holds it (`Held`): `connections_`, the
application's map, a functor, the loop during a handler. A message is `Size` units,
the kernel's buffer takes `Space` of them until the peer reads. A hang-up is reported
together with `EPOLLIN`, and an error's `handleError` only logs, so a peer that leaves is
noticed by a read of nothing (`HandleClose`), after what it had sent has been read.
The application is the chat service, plus `shutdown` in a message handler, which
`HttpServer` does. `registered` counts the entries that its map has for the connection, one
more for each login at most; the close handler erases one of them (`EraseOne`). That
a write to a closed connection returns EPIPE presumes that SIGPIPE is ignored, which
nothing in `src/` does itself.

### AsyncLogging

Whatever is done under `mutex_` is one step, `wait_for` splits a round in two
(`BeginRound`, `Wake`). A unique pointer that owns nothing is `Null`; line 94's `reset` frees
what line 92 has just given back, so the spare buffers come from the constructor
only. Lines are numbered by the order of `append`; a buffer has room for `Room` of them.

## 3. Runs

| Run | Shows | Instance | Distinct states |
|---|---|---|---|
| `ChatSessions` | `user.state` works as a lock on the account (`SessionInv`, `OnlineIsOwned`), a close handler never hits a later session (`SessionNotDisturbed`), the broker and the map agree at rest | 3 connections, 2 servers, 2 accounts reachable through every connection | 324 000 |
| `ChatOverlap` | under overlapping logins, kill and SIGINT no destroyed connection in the map, and each client prints only for the account it is logged in to, nothing before its login response (`RightReader`) | 2 connections, 1 server, 2 accounts, 1 message, 1 stop | 199 000 |
| `ChatDelivery` | `CalmDelivery`, `AtMostOnce`, `LossWindows` for one-to-one chat, group messages without recipients beside it | ann logs in twice through one server, bob writes from another, each also to herself or himself on the same loop | 256 000 |
| `ChatLiveness` | every handler returns although `_connMutex` is held over database calls; the account of a client that left becomes free, unless a second login has used its connection | 2 connections, 1 server, two accounts through one of the connections and one of them through the other, a group of three with an absent member, loginout | 67 000 |
| `Client` | the client's unlocked globals and its semaphore stay in step with the answers (`AnswerMeetsWait`), a request that a read swallows was sent right behind a command of `mainMenu` (`SwallowedBehindCommand`), the lists are one account's, every wait ends but for two named cases | 3 requests, 1 chat message, 3 accounts of which one is yet to be registered, 2 groups of which one is yet to be created | 730 000 |
| `Pool` | safety and liveness of the pool | 3 borrowers, 1 to 2 connections | 4 400 |
| `EventLoop` | no lost wakeup or quit, refinement of `TaskQueue`, every task runs; timers on time (`OnTime`), every one (`EveryTimerRuns`), the loop never asleep past one (`AlarmSet`) | 2 threads, a plain task, a one-shot and a repeating timer, 3 ticks | 251 000 |
| `Connection` | refinement of `ByteStream` (`InOrder`), the raw `this` is safe, nothing remains of a destroyed connection, and each peer that leaves gets there, but for a connection with two map entries (`PeerCloseFrees`) | 2 sending threads, 3 messages of 2 units, a kernel buffer of 3, 2 requests | 32 000 |
| `Logger` | no line lost, doubled or overtaken in the buffers (`LinesKept`), every line written | 7 lines, 2 to a buffer | 980 |

Three runs find a violation, each a finding in `PROJECT.json`:

| Run | Property | What the code does |
|---|---|---|
| `ChatDoubleLogin` | `AccountUsedOnce` | two overlapping logins to one account both succeed |
| `ChatSecondLogin` | `RefusedOnlyInUse` | after loginout and a second login the close handler frees one of two accounts; the other is "in use" with nobody there |
| `ConnectionShutdown` | `ShutdownAfterDrain` | `shutdown()` closes the sending side with output waiting |

Why the bounds are enough. Two servers and three connections give every pair of
handler kinds for one account, on one server and on two, with a third party; one
message has every race a message can meet, since messages never interact except
by order, which no property mentions. The clients do not come back after they
left (a client process has one connection), so `c1` and `c2` of one person stand
for a session and the next one. The pool's instance exhausts the pool, lets it
shrink and has more borrowers than connections; the safety properties are proved
for every size. Three tasks let one be queued at each of the three places while
another one runs, and two timers let one be added, run or reset around the other, the
repeating one twice. In `Connection` the kernel's buffer ends in the middle of the
second message, so a third one meets a partial write. In `Client` three requests
are what a command, a login or register behind it and one more take. In `Logger`
seven lines of two to a buffer fill buffers in three rounds, and the spare buffers
are gone after two.

`ChatDelivery` uses a recipient that comes back through the same server. A
recipient that moves to another server can get a message twice: its old server's
UNSUBSCRIBE may be executed after the new server's SUBSCRIBE, and a PUBLISH in
between goes to both, where one writes it to the client and the other stores it
in the offline table.

`LossWindows` is read as the list of windows the design leaves: a client that
has left, a PUBLISH that finds no subscriber, and a row inserted between the read
and the delete of the offline table. It presumes that a socket takes every
write; what becomes of a partial one is `TcpConnection`'s (section 6).

### Fairness

`FairSpec` of `ChatService`: weak fairness of each connection's handler steps (a
loop keeps running), strong fairness of the queued functors of a connection
(`loop()` calls `doPendingFunctors` after each round of handlers, however many
requests keep coming), weak fairness of observers and broker. Clients, operators
and killers owe nothing. `GroupMember` and the steps that wait for `_connMutex` are
handler steps: they need no more than weak fairness because the holder returns,
which `HandlersReturn` checks.

`FairSpec` of `ConnectionPool`: timeouts fire; a thread that contends for `mutex_`
gets it eventually (strong fairness, since a producer that finds the pool full
spins on the mutex); a borrower gives its connection back, as every model method
does by leaving its scope. Which waiter is served is not fair, so only
`SomebodyServed` holds.

`TFairSpec` of `TimerQueue`: the loop's thread and threads inside `queueInLoop`/`quit`
keep running, and time passes. `poll` owes a return only for a wakeup or the alarm:
`PollOther` has no fairness, so no property leans on the 10 s poll timeout or on
unrelated traffic.

`FairSpec` of `TcpConnection`: both loops look at their functors and at the channel in
every round, handlers go on, and a thread inside `send` finishes. The peer owes
nothing; `PeerCloseFrees` assumes only that it has left: the connection then leaves the
poller and the server's map, and is destroyed if it never had two entries in the
application's map.

`FairSpec` of `ChatClient`: the client's two threads and the server's loop keep running,
and bytes under way are read some time, in whatever pieces. The person and the other
clients owe nothing.

`FairSpec` of `AsyncLogging`: the logging thread keeps running and `wait_for` ends, which
its timeout sees to. Nobody has to append another line.

Deadlock is not checked in `Client`, `Connection`, `EventLoop`, `ConnectionShutdown` and
`Logger`: a client that has gone, a connection that is destroyed, a loop that has
ended and a logger that is stopped do stop.

## 4. Proofs

All theorems hold for every value of the constants that satisfies the modules'
named assumptions.

* `ChatServiceProofs!TypeCorrect`: `TypeOK`, under every disruption. The handlers
  dereference `uid`, `tgt` and `msg`, so the inductive invariant also says that
  these locals are set at the steps that use them (`LocalsSet`).
* `ChatSessionProofs!SessionInvariant`: `SessionInv`, if logins do not overlap and
  nobody interrupts a server; servers may die and clients may log out. Its conjunct
  `OneOwner` (an account has one owner in the cluster) alone is not inductive: that no
  second owner enters at `LoginAccept` needs to know that an account which is offline
  has no owner except an attempt before its update (`OfflineOwner`), and that there is
  one such attempt at most (`OneAttempt`); that the close handler's update frees an
  account nobody else owns needs that an entry is listed by the home server of its
  connection only (`MapAtHome`), that a login past its insert is mapped
  (`InsertedIsMapped`) and that an erased entry is gone (`Unmapped`).
  `LaterSessionNotDisturbed` follows from it.
* `ChatSessionProofs!OnlineAccountIsOwned`: `OnlineIsOwned` in plain use (no
  disruption): the owner is a connection whose close handler has not finished. After
  a loginout and a second login, or a stop of the server, there need be none.
* `ChatSessionProofs!MapNeverStale` and `PrintedForItsReader`: `MapHoldsOpenConnections`
  and `RightReader`, if no client uses loginout; logins may overlap, servers may die
  or be interrupted. `RightReader` is about the client that prints (`PrintsOK`). Both come
  from `EntriesInv` (a connection logs in once, so the map lists it for one account at
  most and the one erase of its close handler is enough) and `ScreenInv` (what can reach
  a connection for `u`, by the map or from its queue, finds it logged in as `u`, or
  still in the handler that will answer that login before the queue is run). A loginout
  breaks `EntriesInv`: the next login adds a second entry (section 6).
* `ChatSessionProofs!SubscribedAtRest`: `SubscribedWhereMapped`, if logins do not
  overlap and nobody interrupts a server. The invariant `LinkInv` looks through the
  queue: once all commands of a link are executed (`Ends`), the server will be
  subscribed to an account exactly if a connection of it is past its SUBSCRIBE and
  not yet at its UNSUBSCRIBE (`Wanted`).
* `ChatDeliveryProofs!NeverTwice`: `AtMostOnce`, if logins do not overlap, nobody
  interrupts a server, and users come back through the same server (`OneHome`: no
  account is reachable through two; section 3 says what happens otherwise).
  Servers may die and clients log out. A copy is at one of eight kinds of places
  (`Kinds`), and `EveryStepMoves` shows that a step takes one copy from one kind to another,
  or none, so a message that is at one place at most stays so (`Single`). This needs that a
  handler's locals are empty when it begins (`LocalsClear`), that what a login read
  is still in the table when it deletes (`ReadStored`), and that a PUBLISH finds one
  subscriber (`HomeInv`: a server knows an account only if it is one of its own).
* `ChatDeliveryProofs!NoOtherLoss`: `LossWindows`, if no server stops; logins may
  overlap. `Takes` says, for each place, which step takes a copy away from it; each
  of those steps puts it into another place or is one of the windows. That a
  connection which is mapped and not up belongs to a client that left comes from
  `ClientsInv`.
* `ChatDeliveryProofs!SettledGetsOne`: `CalmDelivery`, which is about one-to-one
  messages, if no server stops and logins do not overlap; users may come back through
  any server and log out, and group messages may be under way. `CalmInv`
  says where the copy is on its way to: the connection of the
  addressee (`HomeBound`), or the table if the addressee is away (`ShelfBound`). It
  uses `Single` and `Takes`, and that nothing has a copy before it is sent (`Unsent`).
* `ConnectionPoolProofs`: `TypeCorrect`; `NeverShared`; `SizeIsExact` (from sharing and
  the count of borrowers); `ProducerNotMissed`; `SweepMissesNothing`, from the
  invariant that the queue is ordered by idle time.
* `EventLoopProofs`: `TypeCorrect`; `NeverLosesWakeup`; `NeverLosesQuit`;
  `ImplementsTaskQueue`, where every step maps to `Submit`, `RunNext` or a stutter,
  from the invariant that the tasks queued are those that wait and those that ran.
* `EventLoopProofs!ImplementsLoop`: the loop with its timers implements `EventLoop`, so
  the theorems about `EventLoop` hold with timers; `TimerTypeCorrect` is one of them
  extended. `NeverSleepsPastTimer`, from `AlarmInv`: outside `handleRead` the alarm is
  set no later than any timer of the queue, which `addTimerInLoop` keeps because it
  compares with the first one, and `reset` restores. `NeverEarly`, from `OnceInv` (no
  functor is twice in the two vectors) and `TimeInv` (a timer is in one place at a time,
  and a repeating timer's expiration is more than `fired + 1` intervals from the
  start).
* `TcpConnectionProofs!RawThisIsSafe` and `FreedLeavesNothing`, both from `Life`, the phases
  of a connection: while it is up the functors are sends only; once
  its close handler has had `_connMutex` no thread is inside a `send` that found it up
  (a thread that finds it by a second entry sees `state_` disconnected and drops its
  message), so no further send is queued, and `connectDestroyed` comes behind those
  that were. `ImplementsByteStream`, from `StreamsOK`: what was accepted is what was
  written followed by `outputBuffer_`.
* `AsyncLoggingProofs!TypeCorrect` and `NullWindow`: `currentBuffer_` is null only from
  the swap of a round to the beginning of the next, and no null pointer gets into the
  buffers that are written. This answers the comment at `AsyncLogging.cpp:60`, which says the
  reason was not found: it is the `reset` of line 88.
  `NoLineLost`: `LinesKept`. The lines in the buffers, the vector and the file, taken in
  that order, are 1 to the number appended; stated per line and place (`Holds`), so that no
  fold over the sequence of buffers has to be unrolled, and strengthened by `WrittenOut`:
  outside the writing step the thread holds no lines of its own.
* `ChatClientProofs`: `AnswerForTheWaiting` (`AnswerMeetsWait`), from what is on its way:
  the main thread waits for at most one answer (`Asked`), which is a request not yet
  read, in the handler or in the stream, and nothing in the stream answers anything
  else (`Stream`, `Turn`, `Answered`). `SwallowedOnlyBehindCommands` (`SwallowedBehindCommand`):
  a login or a register not yet read is always the last request (`LastUnread`). It may
  itself be dropped, when it is read together with the loginout before it.
  `ListsOfOneAccount` (`ListsAreOneAccounts`), from what an answer lists being in the
  tables, which only grow (`ListsOK`).

Assumptions in a theorem (`ASSUME ... PROVE`) are on the disruptions and on `OneHome` only;
where one is needed, the property fails without it or section 6 names what happens.

Only model-checked: the liveness properties (`CloseFreesAccount`, `HandlersReturn`, `WaitEnds`,
`SomebodyServed`, `EveryTaskRuns`, `QuitEndsLoop`, `EveryTimerRuns`,
`PeerCloseFrees`, `LineWritten`). They rest on fairness, that is on ENABLED, which the provers at
hand do not reason about. Every safety property of a passing run is proved.

## 5. Not modelled, and why

* `EventLoopThread` and `EventLoopThreadPool`: the server starts its loops once and
  never stops them. What can go wrong is described in section 6.
* `ThreadPool` is used by a test of the library only. `HttpServer`, `HttpContext` and
  `HttpResponse` parse and format text in one thread; what they ask of a connection
  (send, then shutdown) is in `TcpConnection`.
* `Acceptor`'s reaction to EMFILE, `TcpServer`'s destructor and round robin.
* `LogFile`'s rolling and stdio's buffer below `AsyncLogging`; `LogStream`, `Logging`.
* `Buffer`'s indices and growth: a buffer is the sequence of its readable bytes.
* hiredis: its context is shared by threads without a lock, and what an unlocked
  command buffer does is not determined by this code.
* Failing statements and Redis commands on the way of a message (`ChatService`); they
  fail in `ChatClient`, where a client's answers depend on them.
* Formatting and parsing of JSON and SQL, printing, address handling, the MySQL and
  Redis client libraries, the vendored JSON library, build output.
* The network library's copy of the pool (`thirdparty/my_network_demo/src/mysql`) is the
  same text as `src/server/db/MysqlConnectionPool.cpp`: `ConnectionPool` is about both.

What a next step would add: the thread pool's start and early quit composed with
`EventLoop`, and calls that fail as another disruption of `ChatService`.

## 6. Seen while modelling

Beside the three findings:

* LOGINOUT_MSG has no handler (`ChatService.cpp:38`): after a loginout the user stays mapped
  to the connection and online, messages for it still arrive there, and a second
  login on the connection adds an entry. The close handler erases one (lines 54-59): the
  account of the other stays online for good (`ChatSecondLogin`), and its entry keeps the
  connection and its descriptor for as long as the process lives.
* Under overlapping logins the account stays mapped to the connection that inserted
  first; the other client is told that it is logged in and gets no messages.
* A login with a wrong id or password is not answered (`ChatService.cpp:143`): the client
  waits in `sem_wait` until its server goes. `WaitEnds` names the case (`ignored`).
* A request read together with the one before it is not executed (`swallowed`), and
  half a request ends the server process. The client ends when an answer and a chat
  message are read together, or when an answer is longer than 1024 bytes.
* After a loginout the lists of the account before are still there, and a login of
  an account without friends or groups shows them as its own.
* A server that dies leaves its users online, and `loginHandler` refuses them from
  then on; only SIGINT calls `reset()`. `reset()` of one server puts users of
  the others offline in the database while they stay connected.
* A user who moves to another server while the old server's UNSUBSCRIBE is under way
  can get a message twice (section 3).
* `isWriting()` compares the whole event mask (`Channel.h:58`) and a connection always
  reads, so `handleWrite` never drains `outputBuffer_`: once a write was partial, every
  later message waits behind it and the loop polls a writable socket in vain.
* The member query of `groupmodel.cpp:61` says `ans` for `and`: MySQL refuses it and
  `queryGroupUsers` returns an empty list, though `groupmodel.h:22` says that it is for sending
  group messages to the other members. A group message reaches nobody, and no property
  of the project promises that it does.
* Nothing in `src/` ignores SIGPIPE; whether a write to a connection that was reset
  ends the process depends on the libraries it is linked with.
* `queueInLoop` by the loop's own thread before `loop()` sends no wakeup
  (`EventLoop.cpp:100`), so such a functor waits for the first other event; no program here
  does it.
* `getNextLoop` wraps too late (`EventLoopThreadPool.cpp:49`): the connection after the
  last loop's reads past the end of `loops_`.
* A `quit()` between `startLoop()` and `loop()` is cleared (`EventLoop.cpp:61`), and
  `~EventLoopThread` then waits in `join` for ever.
* From its second round on the logger leaves `currentBuffer_` null while it writes; a
  thread that appends then follows the null pointer. Lines appended after the last
  swap before `stop()` are not written. `FileUtil::append` tries for ever on a full disk.
* `currentSize_` counts borrowed connections although its comment says queued ones; the
  producer fills the pool when fewer than `minSize_` are idle although its comment
  says when none is.
