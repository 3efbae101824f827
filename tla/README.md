# A verification project for my-redis-impl

The server under `src/src/` is a single-threaded event loop with a few helpers
that are not single-threaded at all: blocking list and stream reads leave a
detached thread behind, and a master and its replicas are processes that talk
over sockets.  This directory holds TLA+ models of the parts where order
matters, TLC configurations that check them on small instances, and proofs that
TLAPS checks for every instance.  Paths below are relative to the repository
(`src/src/X.cpp` is written `X.cpp`).

## 1. The system

| Component | State | Operations | Talks to |
|---|---|---|---|
| Event loop (`Server.cpp`) | the `fd_set`, `m_mapConfiguration`, `m_dMasterConnSocket` | select, accept, read one command, dispatch it, send its reply unless it is `NO_REPLY`, propagate it, end of file | all handlers, by calls |
| Lists (`ListHandler.cpp`, `Utility.h`) | `m_lists`, `m_blockingLists` (descriptor to key names and `EventWaiter`) | LPUSH RPUSH LPOP RPOP LRANGE LLEN BLPOP | detached BLPOP threads share both maps and send on the client's socket |
| Streams (`StreamHandler.cpp`, `Stream.cpp`) | `m_streams`, `m_blockingStreams` (stream name to identifier and waiter) | XADD XRANGE XREAD, blocking XREAD | detached XREAD threads |
| Publish/subscribe (`SubscriptionHandler.cpp`) | `m_channelSubscriptions`, `m_clientSubscriptions`, shared `Subscription` objects | SUBSCRIBE UNSUBSCRIBE PUBLISH PING, disconnect | sends on the sockets of other clients |
| Transactions (`TransactionHandler.cpp`) | `m_mapClientTransactions`, keyed by descriptor | MULTI EXEC DISCARD, queueing | EXEC calls `Server::HandleCommand` again |
| Replication (`Server.cpp`, `CommandHandler.cpp`) | `m_mapReplicaPortSocket`, `waitcmd_offset`, `master_repl_offset` | handshake (PING, REPLCONF, PSYNC), propagation, WAIT, GETACK/ACK | master and replica processes, by messages |
| Key-value store (`KeyValueStore.cpp`) | `m_mapKeyValues`, `m_mapKeyTimeouts`, the RDB file at start | SET GET KEYS INCR TYPE, the load of the file | the event loop only |
| RESP codec and socket reader | none | read a command with blocking reads, assert the type bytes, encode, decode | the event loop, WAIT, a replica's handshake |
| Signals and shutdown | `signalPipe` | one byte ends the loop | the event loop |
| Web interface (`src/ui`) | a Streamlit session | a client of the server | outside |

What is hard here, and hard to test:

* BLPOP scans its lists under one lock at a time, then registers a waiter that
  its thread later finds in a map it reads without a lock.  Pushes notify
  waiters in the order of descriptors, other clients may pop first, timeouts
  race with notifications, and descriptors are used again while a thread of the
  previous owner still runs.
* XADD generates identifiers from the clock and from flags that a refused XADD
  leaves behind.  A blocked XREAD has the only place of its stream until another
  one takes it or a third one clears all places; its thread reads one stream after
  the other while entries are added.
* SUBSCRIBE, UNSUBSCRIBE and the disconnect update two maps and a shared object
  piece by piece; duplicate subscriptions put an object into one of them twice.
* A replica is registered in the middle of its handshake, acknowledgements may
  come after their WAIT, a SET is propagated when a transaction queues it and when
  subscribed mode refuses it, and both ends assert the type of what they read in a
  build that keeps assertions.  A dead replica stays registered, and accept gives its
  descriptor to the next connection: a client, or another replica.
* The transaction of a connection is keyed by its descriptor and outlives it; EXEC
  dispatches its commands anew, while threads of BLPOP run between them and answer
  commands that EXEC has answered already.
* The event loop reads a command with blocking reads, byte by byte but for the
  content of an argument, which is one `read` and may return less, so that the rest of a
  payload is taken for arguments and commands; it trusts a ready set that WAIT, which
  reads the sockets of replicas itself, may have made stale; an end of file in the
  middle of a command passes for empty arguments, a reset, or a write to a replica
  whose connection the loop has closed, for an exception that ends the server.
* An expiry is multiplied to microseconds in an `int` and carried into seconds by
  hand; it belongs to the key and not to the value; the RDB file is a stream of bytes
  in which one length misread shifts all that follows.

What makes each component correct:

* lists: every element is handed out at most once and none disappears; each
  command gets one answer; a client does not block on a list that has an
  element; only a race in a map ends the process; every command is answered in the end.
* streams: identifiers increase; a range or a read skips and repeats no entry; no
  entry slips between the check of a read and its registration; no waiter outlives
  its read; every read is answered in the end.
* publish/subscribe: the maps stand for one relation, a message reaches exactly
  the subscribed clients, nothing outlives its owner.
* replication: a replica executes the propagated writes from its registration
  on, in order and each once, unless it inherited a descriptor; WAIT counts no more
  than what it heard; a replica ends at an assertion for known causes only.
* sessions: each command that has a reply has one; a descriptor is in a transaction for a reason;
  a subscribed connection touches no data, through EXEC either.
* event loop: commands are parsed as they were sent; nothing sent is lost at a close;
  the loop stalls and ends only for known causes; whole commands and signals are
  served in the end.
* key-value store: a key is read until its deadline and not after; the store starts
  as it was saved.

## 2. Modules

| Module | What it is |
|---|---|
| `ListHandler` | the list store, the event loop that serves it and the BLPOP threads |
| `ListService` | what the list commands promise: requests that take effect at once |
| `ListHandlerProofs` | the theorems about `ListHandler` |
| `StreamHandler` | the streams with their identifiers, ranges, the one waiter of each stream and the XREAD threads |
| `StreamService` | what the stream commands promise: logs that grow at their end, reads without a gap |
| `StreamHandlerProofs` | the theorems about `StreamHandler` |
| `SubscriptionHandler` | the two maps and the objects, one step per loop iteration |
| `PubSub` | what publish/subscribe promises: a relation and messages along it |
| `SubscriptionHandlerProofs` | the theorems about `SubscriptionHandler` |
| `Replication` | master, replicas, WAIT and transactions |
| `ReplicatedLog` | what replication promises: windows on a log that only grows |
| `ReplicationProofs` | the theorems about `Replication` |
| `Sessions` | the modes of a connection: transactions, subscribed mode, EXEC command by command against BLPOP threads |
| `SessionsProofs` | the theorems about `Sessions` |
| `EventLoop` | select, its scan, the blocking parse of commands, WAIT inside of the loop, and how the loop ends |
| `EventLoopProofs` | the theorems about `EventLoop` |
| `KeyValueStore` | the two maps of the store, their commands and the load of an RDB file |
| `ExpiringStore` | what the key-value commands promise: values with one deadline on one clock |
| `KeyValueStoreProofs` | the theorems about `KeyValueStore` |
| `SequenceFilter` | the elements of a sequence that are in a set, as a function rather than `SelectSeq` |
| `SequenceLemmas` | induction and recursion over numbers and sequences, and what the operators on sequences compute |
| `MC*` | instances for TLC |

### ListHandler

`conn` is the client's side of a connection (closed, idle, waiting for a reply);
`lists` is `m_lists`, `blockingLists` is `m_blockingLists`, `eventSet` is the flag
of the `EventWaiter` a client's last BLPOP made, `loop` is the event-loop thread
with the command it serves, `thread` holds the detached threads, `known` the names
that `m_lists` has a node for.  `alive` becomes FALSE where the process may end or its
behaviour is undefined: a thread dereferences a null or freed waiter, or two threads
race in one map.  An element is the number of its push, so that a lost or doubled one
shows.

A step is what a thread does under one acquisition of a lock: `LPush`, `RPush`
and `LPop` are the critical sections of `lpushHandler`, `rpushHandler` and
`lpopHandler`; `Notify` is `setEventForBlockingLists`; `BlpopFound`, `BlpopNext`
and `BlpopBlock` are the scan of `blpopHandler`, one list each, and its
registration; `ThreadStart` ... `ThreadSend` are the lambda of its thread.
`Respond` is the `send` of `HandleConnection`.  `Notify` sets several flags in one
step: each is set under its own mutex, and a thread that is woken early only does
steps that commute with setting the flags of the others.

`LRange` reads a list with the clamps and the wrap of `lrangeHandler` (`Clamped`,
`IndexOf0`), which `LRangeExact` compares with the range as it is documented.

An absent list and an empty one answer alike, and so do an absent entry of
`m_blockingLists` and the one `operator[]` makes, so each pair is one value.
A waiter that its map entry no longer holds is freed; a thread that still uses
it may see any flag or end the process (`Dangling`).

Two maps are used without their locks.  A thread looks its waiter up in
`m_blockingLists`, and the loop assigns an entry of it, while another thread erases under
the lock (`WaitersRace`); a push adds a node to `m_lists` while a thread looks a list up
(`ListsRace`).  In such a moment the steps may come out as if they were atomic, and that
is what the actions above say; or the lookup misses its node and makes a null waiter, or
the tree is torn, and `MapRace` ends the behaviour there.

### StreamHandler

`stream` is `m_streams`: for each stream whether it exists, the identifiers in its
store, the latest one, and the two flags with which `parseEntryId` asks `AddEntry`
to generate an identifier.  `place` is `m_blockingStreams`, `loop` the event-loop
thread, `call` the blocking XREAD of a reader (the flag of its `EventWaiter` and
where its detached thread is), `out` the reply of the last step.  `alive` becomes
FALSE where the code runs into undefined behaviour: XREAD of an absent stream
dereferences the null pointer that `operator[]` inserts (`XReadAbsent`), XRANGE with
crossed bounds runs past the end of the map (`XRangeRunsPast`), and XADD adds a
stream to `m_streams` while a thread looks one up (`XAddRaces`).

`XAdd` is `xaddHandler` up to the end of `AddEntry`, `Notify` its second half under
`m_blockingStreamsMutex`.  `XRange` and `XRead` are the two read commands,
`XReadBlocks` finds nothing and makes the waiter, `Register` takes the place in one
stream.  `Wake`, `Timeout`, `ReadNext` (one stream each), `Clear` and `Send` are the
lambda of the thread.  `Increment` and `Less` work on numbers of `Word` values, as
those of an `unsigned long` wrap.

An entry is its identifier and is taken to have a field.  A connection stays open
and sends its next command when the last one is answered.

### SubscriptionHandler

`channels` and `held` are the two maps, `subscribers` and `name` the fields of the
`Subscription` objects, whose storage is used again once neither map points at
it.  `cmd` is the command in progress with the names or objects that its loop has
still to visit, `out` the last message sent.  `Begin` dispatches; `SubscribeNext`,
`UnsubscribeNext` and `LeaveNext` are one iteration of the three loops;
`CloseFd` is the `close` after `HandleConnection` returns -1.

### Replication

A write command is a number.  `stream` is the sequence of propagated writes (its
length stands for `waitcmd_offset`), `applied` what the master executed, `queue`
the transactions, `dropped` what DISCARD or subscribed mode kept from being executed,
`wait` the WAIT that keeps the event loop busy with the descriptors it watches.
`toReplica` and `toMaster` are the bytes under way, as messages; `phase` is where a
replica is in `initializeSlave` or `runEventLoop`, `copy` what it has executed, `joined`
how many writes preceded its registration.

Connections have numbers.  `fd` is the number that accept gave a connection, the lowest
free one (`Lowest`), and `sockets` says which connections the master still has open;
`registered` are the keys of `m_mapReplicaPortSocket`, whose values are the numbers in
`fd`.  `ReplicaEof` closes a connection and leaves its entry, so the number may be given
to a client (`Connect`) or to the next replica (`Start`), and the entry then leads to it.
`SendTo` writes once for each entry: a connection gets a message as many times as there
are entries that hold its number, before it has registered too.

`WriteCmd` and `QueueCmd` are a write outside and inside of a transaction, including the
propagation that follows in `HandleConnection` whatever `HandleCommand` did with the
command.  `ToAll` is the loop over the map: a write to a number that nobody has
(`MustFail`), or to a replica that has gone (`MayFail`), ends the master after some
entries have been written to.  `WaitCmd`, `WaitRead`, `WaitSwallows` and `WaitTimeout` are
`WAIT_cmdHandler`: it takes any array of three elements for an acknowledgement, be it of
a handshake, an answer to an earlier WAIT or a client's command.  `HandleReplica` is the
event loop serving a replica's connection, `HandshakeRead` and `LoopRead` are the replica,
with the assertions of `SocketReader`.  `Kill` is the end of a replica at any moment.

History variables say what the properties need and decide no step: `local` are the
writes that are not propagated (INCR), `inherited` the replicas that got a number which
the map held for another one, `disturbed` those to which the master wrote before it had
answered their PSYNC, of whose handshake WAIT took a message, or whose acknowledgement
was answered; in `wait`, `heard` are the replicas that answered this WAIT and `strays`
counts everything else that it counted.  Nothing is assumed of clients, timeouts or the
moments at which replicas join.

### Sessions

`tx` is `m_mapClientTransactions` and `subs` the descriptors that
`IsClientInSubscribedMode` finds; `items` is the length of the one list, `thread` the
BLPOP thread of a descriptor, `loop` the event loop, which is idle or inside of an
EXEC.  `HandleCommand` is the dispatch of `Server::HandleCommand`: the transaction is
looked for first, then the subscriptions.  A command that answers at once is one step
(`Serve`); EXEC is `ExecuteTransaction`, which copies and erases the queue, `ExecStep`
for each command, and `ExecEnd`.  `ThreadEnd` is the end of a BLPOP thread by its
event or its timeout, at any moment, also between two `ExecStep`s; the steps inside
of a thread are those of `ListHandler`.

The rest is history: `owed` counts the commands of a descriptor's owner minus its
replies, `begun` says who began a transaction, `left` which descriptors kept one from
a former owner, `strays` counts the replies of threads that the descriptor's owner did not
ask for: one for each BLPOP that blocked inside of an EXEC, and one of a thread that a
former owner left.  SUBSCRIBE and UNSUBSCRIBE return NO_REPLY and send none, one or several
confirmations themselves, so `owed` does not count them; which confirmations those are is
in `SubscriptionHandler`.  Several clients may own the same descriptor, one after the
other.

### EventLoop

`conn` and `peer` are the two ends of a connection, `wr` and `rd` what the client has
sent and the server read, in tokens: the header of an array, a whole argument, or one
in pieces (its header, its bytes, CR and LF).  `loop` is where the event loop is: in
select, scanning the ready set from the lowest descriptor (`Scanned`), reading
(`stage` is the call of `SocketReader` that blocks), or inside of WAIT.  `done` are
the commands it parsed, by the loop or by WAIT.

`ReadHeader` and `ReadBulk` are `ReadArray` and the start of `readBulkString`,
`ReadContent` its one `read`, `ReadSlashRN` its two last bytes, which it does not look
at; `ReadMissing` is the end of file inside of a command, `ReadError` a failed read.
A read of an empty socket is no step: the loop waits.  `WaitReads`, `WaitHeard` and
`WaitTimeout` are the polling of `WAIT_cmdHandler`.

Once a `read` of a content has returned less than was asked, the connection is `astray`:
the parser is out of step, and the rest of the payload may look like anything.
`ReadAstray` then takes any number of the bytes that are there and fails an assertion,
throws, finds the header of an array, adds an argument (`"broken"`) or wants more.  An
array parsed behind a cut may be any command (`KindsOf`).

What a command does is left to the other modules, but for what it writes and how it ends
the server.  `WriteTo` sends a reply and the writes to the replicas: WAIT and a write
command throw on a replica that the loop has closed or whose connection was reset
(`Refuses`), a write to a client that is gone raises SIGPIPE (`Fatal`), and the first
write after a reset only fails (`AfterWrite`: a `send` nobody looks at goes on).  A
command whose arguments are not whole may throw where it reads a number.

### KeyValueStore

`values` and `timeouts` are the two maps, `rdb` the rest of the file being loaded,
`phase` how far the start is, `now` the clock in microseconds.  `LoadMetadata` and
`LoadEntry` are the two loops of `initializeKeyValues`, one opcode each, over
`DecodeLength` (`get_str_bytes_len`) and `ReadString` (`read_byte_to_string`).  Files are
built by `FileTokens`, which writes what Redis writes; texts and stamps are one token,
lengths, opcodes and numbers are bytes.  `Set`, `SetPx`, `Get`, `Incr`, `IncrError`,
`Type` and `KeysLike` are the commands.  `Carry` is the carry of `set` with its
comparison, `Products` what `timeout * 1000` may be when it overflows an `int`
(undefined: a build may wrap it or compute it wider), `Passed` the comparison of `get`.

## 3. Runs

| Run | Instance | Distinct states | Shows |
|---|---|---|---|
| `lists_main` | c1 blocks on k1 and k2, c2 on k1, c3 pushes and pops; 3 elements, pushes of 1 or 2 | 154,668 | types, one answer for each command, nothing but a race ends the process, blocking only on empty lists; refinement of `ListService`; every command answered |
| `lists_reconnect` | c1 and c2 own the same descriptor, c1 may close while it is blocked; LRANGE with 2 ranges | 302,358 | elements are conserved also then; LRANGE is exact for every list and index |
| `lists_lost_wakeup` | violation | | two pushes notify the same client, another sleeps beside an element |
| `streams_main` | 2 readers, stream a with written identifiers and b with stars, numbers of 4 values, a clock with 2 readings, 3 ranges | 229,533 | types, identifiers increase, no stale place, the holder of a place is signalled, ranges omit nothing; refinement of `StreamService`; every read answered |
| `pubsub_main` | 3 descriptors, 2 channels, 3 objects, at most 2 held subscriptions, a list with a name twice | 730,456 | types, both indexes agree, no stale object, no empty channel, counts, refinement of `PubSub` |
| `replication_any` | 2 replicas, one of them mortal, one client, 3 descriptors, SET and INCR, 2 writes, 2 WAITs | 6,037,747 | types, replicas in step with the stream, WAIT counts what it heard, assertions fail for disturbed replicas only; refinement of `ReplicatedLog` |
| `replication_tx` | 1 mortal replica, one client with transactions and subscribed mode, 2 descriptors, SET and INCR, 3 writes, 2 WAITs | 1,108,215 | replicas end with the master's writes but INCR and with those that DISCARD or a refusal dropped; an undisturbed handshake ends, writes arrive |
| `kv_main` | 5 files, 2 keys, 5 values, 4 expiries, ints of 4 bits, a clock | 519,388 | types, no key outlives its expiry, refinement of `ExpiringStore` |
| `kv_revived` | violation | | SET on an expired key answers OK and the key reads as absent |
| `sessions_main` | 3 connections on 2 descriptors, all 9 commands, 5 commands in a behaviour | 395,118 | types, one reply for each command that has one and the stray ones counted, transactions accounted for, subscribed connections touch no data |
| `sessions_interfered` | violation | | a push of an EXEC signals another client's BLPOP thread, which pops before the next command of that EXEC |
| `loop_main` | a client that sends, token by token, a WAIT with an argument of 2 bytes and an empty array, one that sends WAIT, a replica that answers in pieces and may close; a reset, a signal; headers of 1 argument in a payload | 693,678 | types, commands parsed as sent up to a cut, nothing unread at a close, stalls and ends only for their causes; nothing after a signal; whole commands read and signals served in the end |

Bounds.  Three elements with pushes of two give every combination of one push
that wakes two clients, two pushes that wake one, and a pop that steals.  Two
blocked clients are enough for competition; a third client is needed to push.
Two held subscriptions give duplicates, a channel left by one of two clients and
a descriptor closed and used again; a third descriptor receives what a former
owner must not.  Two writes around a registration, with a GETACK between them,
give each order of messages in a replica's connection; a late acknowledgement needs the
second WAIT.  Three descriptors are one for each connection; when the mortal replica has
gone, its number goes to the client or to the other replica, which then has two entries.
Transactions need a third write, and no second replica: `Converges` speaks of each replica
for itself.  For streams, numbers of four
values let a sequence number wrap and leave room for three blocks, so that ranges
lie within a block, across blocks and crossed; the clock may stand still or step
back; both readers ask for a, one of them also for b, so that a place is taken by
the other reader, cleared by the other's thread, and kept in one of two streams.  Two
microseconds in a millisecond and two milliseconds in a second let an expiry carry, and
four bits let its product overflow and wrap to a negative number; the files hold each
encoding of a length (6, 14 and 32 bits) and of a number (8, 16 and 32 bits), each unit
of an expiry, a missing end and a missing database.  Five commands are enough to push,
block, queue two commands and run them, on a descriptor whose former owner left a
transaction or a thread.  An argument of two bytes can be cut; two WAITs and a replica
that sends in pieces give a stale ready set, with the rest of an acknowledgement read
by the loop; the replica may close before the second WAIT writes to it.  `MaxCount` bounds
the arguments of an array found in a payload: one is enough to complete a command that
nobody sent.  In the list model the name of
a connection has one BLPOP thread at a time; a client sends its next command when
the previous one is answered.

Deadlock is checked for lists, publish/subscribe, sessions and the key-value store.
The replication, stream and event-loop runs say `CHECK_DEADLOCK FALSE`: the process
may have ended, and clients may stop sending.

Fairness.  `ListHandler!Fairness` is weak fairness of the loop and of each thread:
the loop finishes the command it serves without waiting for a thread, and the
wait of a thread ends by the event or by its timeout, which is finite for every
BLPOP since 0 is replaced by 600 seconds (`ListHandler.cpp:230`).
`StreamHandler!FairSpec` has the same for the loop and the XREAD threads; there BLOCK
0 is ten minutes (`StreamHandler.cpp:303`).  `Replication!Fairness` is weak fairness of the end of a WAIT, of the master
serving each replica's connection (`select` reports every readable descriptor and
the scan visits them all), and of each replica's reads.  Clients, kills and the
start of a replica are not fair: nothing has to happen there.  `EventLoop!Fairness` is
weak fairness of the thread of the loop, whose reads return when there is something to
read, and of clients that have begun a command and send the rest; a client that does
not stalls the loop for good, and no liveness holds without it.

Each property of a passing run has a mutant: a definition marked `Fault`, put in
place of the one below it, that makes TLC find the property violated.  It shows
that the property depends on that code.

## 4. Proofs

`ListHandlerProofs` proves, for every set of clients and keys, every assignment of
descriptors and every bound:

* `TypeCorrect`: `Spec => []TypeOK`;
* `BlpopBlocksOnlyOnEmpty`: the action property `BlocksOnlyOnEmpty`;
* with `Impatient = {}` (clients wait for their replies): `RepliesHaveOneSender`
  (`OneResponder`), `WaitersStayRegistered` (`WaiterRegistered`) and
  `CrashNeedsARace` (`OnlyRacesCrash`);
* `LRangeIsExact` (`LRangeExact`), which rests on `RangedExact`: the clamps, the wrap
  and the walk of `lrangeHandler` give the documented range of every sequence, unless
  it starts behind the end or ends before the start;
* `NoElementLostOrDoubled` (`ElementsConserved`), also where clients close early and
  descriptors are used again;
* with `Impatient = {}`, `ListServiceSteps`: the initial states and every step of
  `ListHandler` are those of `ListService`, or change nothing it sees.  It is the safety
  part of `ImplementsService`; the fairness part stays with TLC.

The argument has four inductive invariants.  `ScanInv` adds to the type that the
lists a BLPOP has already passed are still empty (`ScannedEmpty`): nothing but
the loop itself adds elements, while the threads only remove them, and this is
why reading the lists one lock at a time is safe.  `PatientInv` adds that a
waiting client is served by exactly one of the loop and its thread, that an open
descriptor has one owner, and that the entry in `m_blockingLists` is the one the
thread's own BLPOP made.  Neither of these is inductive alone: an entry can only
be overwritten by a BLPOP of the same descriptor, whose owner is idle then, and
an idle client has no thread.  Without the assumption these fail: a client that closes
early leaves a thread whose waiter the next owner's BLPOP frees.  What a race does is not
argued away: `MapRace` ends the behaviour in each state where one is possible, and
`CrashNeedsARace` shows that no order of whole steps does.

`ElementsInv` takes the lists and the replies under way as the holders of elements.
`Shared` says that none has an element twice, no two share one, and with what was sent
they have all that were pushed; `RepliesBuilt` that a reply which a thread or the loop
is about to overwrite holds nothing.  The cardinality in `ElementsConserved` follows from
the first, and is not inductive itself, since it does not see what an assignment drops.
`RequestInv` joins it to `PatientInv`, with `ScansAsked`: a thread that was woken looks
at the lists its own client named.  The assumption is needed there: with a descriptor
used again the reply to a former owner reaches another connection, which the service
does not do.

`StreamHandlerProofs` proves, for every set of readers and streams, all requests, every
clock and every width of a number:

* `TypeCorrect`: `Spec => []TypeOK`;
* `LatestStaysTop` (`LatestIsTop`) and `IdentifiersIncrease` (the action property
  `IdsIncrease`);
* `PlacesAreFresh` (`NoStalePlace`);
* `HoldersAreSignalled` (`HolderIsSignalled`);
* `RangesAreWhole` (`RangeOmitsNothing`), by cases over the three branches of
  `GetEntriesInRange`;
* `StreamsImplementService` (`ImplementsStreams`), the refinement of `StreamService`.

`TypeInv` adds to the type that the loop and the threads are in step with the calls
they serve (`CallsInStep`).  That a generated sequence number is a number rests on
`MaxOfNumbers`: a finite set of numbers has a maximum, which follows from the
well-foundedness of strict inclusion among its subsets.  `TopInv` is `TypeInv` with `LatestIsTop`: an accepted identifier exceeds the
latest and, with `LatestIsTop`, all others, whichever flag made it.  `PlaceInv` is
`TypeInv` with `NoStalePlace`.  `SignalInv` adds three facts to it.  `NoFlagSet`: no
flag is set on a stream whose identifiers are all written.
`NothingWhileRegistering`: nothing follows the start identifiers of a read until all
its places are taken, because the loop itself would have to add it.  `SignalDue`: an
entry that follows the holder's start is signalled, or is the one the loop has just
added.  `HolderIsSignalled` alone is not inductive: it says nothing between `XAdd`
and `Notify`.  `RangeAfter` proves on the way that the branches of
`GetEntriesInRange`, as XREAD calls it, agree with the order of identifiers.

The refinement is about a thread that reads one stream after the other while XADD goes
on.  `ServiceInv` says of each stream it has read that the result is all there is between
the start and an identifier that the stream had passed (`FoundWithoutGap`, `GapFree`).
With `LatestIsTop` an entry added later lies above that identifier, so the result stays
without a gap until it is sent, while "all entries after the start" would be false by
then; `CallsComplete` says that there is one result for each stream when it is sent.

`ReplicationProofs` proves, for every set of replicas and clients (finite ones, as the
module assumes), every number of descriptors, writes and WAITs, and with no assumption
about what clients do or when replicas join and go:

* `ReplicasInStep` (`ReplicaInv`) and `ReplicasFollow` (`Spec => []FollowInv`);
* `ImplementsReplicatedLog`: `Spec => ImplementsLog`, the refinement of `ReplicatedLog`;
* `ReplicasSurvive` (`OnlyDisturbedAbort`);
* `WaitIsSound` (`WaitCountSound`);
* `ReplicasConverge` (`Converges`).

All rest on `Base`.  `DescriptorInv`: open connections have different numbers, a replica
that runs is open, and a replica that has inherited nothing shares its number with no
entry but its own.  `AskInv`: the port is sent once, before the registration, and an
unregistered replica has executed nothing and has no reply but that to its PING under way.
`FollowInv`: what a registered replica has executed, and what is on the way to it, goes
through the stream from its registration on, each write as many times as entries lead to
it (`Along`, with `Share(r)` entries), up to the end of the stream while the master is up.
Writes that reach a connection before it has registered are not hidden: they are ahead of
the file, the handshake takes one for a reply and fails (`Spoiled`), and a replica that
comes online has had none.  Only that disjunct makes the invariant inductive.
`AlongIsTimes` turns it into the equation of `InSync`; `Share` is 1 but for a replica that
inherited its number.  For the refinement, `ReadsTheLog` says that the next write a
replica reads is the next entry of the log or, if `Share` is more than 1, the last one
again.

`CleanInv` gives each phase of a handshake that nobody disturbed the one message that is
then under way, the file announced before commands, and only commands and acknowledgements
after it.  `NumberInv` and `WaitingInv` are about WAIT: requests and acknowledgements bear
the number of a WAIT so far, no write follows the request of the present one on any
connection (`Settled`), so whoever has answered it has executed every write before it
(`UpTo`), and what WAIT returns is those it heard and the strays (`Counting`).

`StreamInv` says what the writes received are: executed, dropped, or in the queue of an
open transaction, and each of them propagated or kept to the master (`local`); with one
client the ones executed are in the order of their numbers (`InOrder`).

`SubscriptionHandlerProofs` proves, for all descriptors, channels, objects and lists of
arguments:

* `MapsAgree` (`MapsInv`) and `CountIsRight` (`CountTellsTheMode`);
* `ImplementsPubSubHolds` (`ImplementsPubSub`), the refinement of `PubSub`.

`MapsInv` is about the states between commands.  `MapsIInv` says what holds in the middle
of one: every client but the one that leaves holds exactly the objects that list it
(`ListedHolds`, `HolderListed`); the one that leaves is still listed only by objects its
loop will come to, and what it holds has not lost its place in the map to another object
of that name (`LeaverListed`).  That no object lists a client twice (`NoTwice`) is what
lets the code remove its first occurrence only.

`SessionsProofs` proves, for all clients, descriptors, commands and bounds, the four
properties of the run: `TypeCorrect`, `RepliesMatchCommands` (`OneReplyEach`),
`TransactionsHaveReasons` (`TransactionsAccountedFor`) and `SubscribedTouchNoData`
(`SubscribedRunsNoData`).  `TypeInv` adds to the type that an EXEC under way runs for an
open connection (`ExecutesForSomeone`); `ReplyInv` is `TypeInv` with `OneReplyEach`, which
is inductive because each stray reply is counted at the step that makes it one: the EXEC
whose BLPOP blocks, or the accept that finds a thread at its descriptor; `TxInv` adds that an open descriptor has
one owner and that whoever has begun a transaction is open (`OwnersAreUnique`,
`BeginnersAreOpen`), without which a new owner could be taken for the old one.  The last
property needs only the order of the dispatch.

`EventLoopProofs` proves, for all descriptors, all streams of commands, whole or in
pieces, and all that clients do:

* `TypeCorrect` (`TypeOK`), `CommandsParsedAsSent` (`ParsedAsSent`), `ClosedWhenRead`
  (`NothingUnreadAtClose`), `OnlyWaitStalls` (`StallsOnlyAfterWait`) and
  `LoopEndsForACause` (`EndHasACause`);
* `SignalComesFirst` (`NothingAfterSignal`).

The last rests on the order of the scan: the pipe's descriptor is below that of every
connection, so the upward scan meets it first; a signal that select has reported leaves
only the accept and the end of the loop (`SignalAhead`, `Pending`).

The others are parts of one invariant, `LoopInv`.  `Places` says where the reader is in
the stream of tokens: between two commands on every connection but the one being read
(`Clean`), and there at the token its stage calls for, counted from the arguments read so
far (`ReadsWhole`), unless the client has left inside of the command and all further
arguments are missing (`ReadsNothing`).  A connection that is `astray` has no place: of it
the invariant says that the commands before the cut were parsed as sent and that each array
parsed from it since has a broken argument (`CutAt`, and `Lost` for the one under way).
`Watching` and `Reader` say why a descriptor is in the ready set: there is something to
read, or its end, or WAIT has read it since (`Worth`), from which `StallsOnlyAfterWait`
follows.  The causes in `EndHasACause` are stable once they have come up, and each way of
`Execute`, `WaitTimeout` and the reader to end the server needs one of them.
`AcksAssumption` says that what a replica sends are acknowledgements; the code of a
replica sends nothing else after its handshake.

`KeyValueStoreProofs` proves, for every width of an int, all units of time, all keys,
texts and expiries, and every file that `FilesAssumption` admits:

* `KeysDieInTime` (`NeverOutlives`): `CarryKeepsInstant`, and `WrapsDown`, by which a
  product that overflows is smaller than it should be and never larger;
* `TypeCorrect` (`TypeOK`);
* `StoreImplementsExpiringStore` (`ImplementsStore`), the refinement of `ExpiringStore`.

`TypeOK` already needs the load: what is stored is a key and a value only if no length is
misread.  So the codec is undone first, for every length and number: `LengthUndone`,
`TextUndone` and `NumberUndone` (the forms of 8, 16 and 32 bits, with their signs), then
`EntryUndone` with the three kinds of expiry, `MetadataRead` and `DatabaseRead`.  `LoadInv`
says what is left to read and what is loaded: the last m entries of the file
(`LastEntries`, a recursive function that `LastEntriesAre` unfolds) with the entries
before them in the maps, or one of the few places before the entries.  That no two
entries have the same key is what keeps a loaded entry as it is.

For the refinement, `TimeoutInv` says that a timeout has at most a second of
microseconds, and none below zero unless its second has come: `Carry` leaves a sum that is
negative, or exactly a second, as it is.  From it `PassedTells` follows, that comparing
the seconds and then the microseconds is comparing the instants.  `LoadStutters` shows
that the load is no step of the store: what the file says of a key is, after its last
entry, what the maps say (`FileLoaded`).

`FilesAssumption` is what Redis writes: a key once, numbers of at most 32 bits as such
(larger ones are texts), no stamp of zero milliseconds, and no database for an empty
server; and a length is an int of the program (`LengthAssumption`).

`SequenceLemmas` holds what these proofs share.  The theorems of the library on induction
take a predicate as a parameter, which the provers cannot instantiate; `Induction` and
`InductionTo` take a set instead and rest on `LeastNumber`, and `RecursionTo` shows that
a step function determines a function on an interval.  From them follow what a filter
keeps (`FilteredKeeps`, `FilteredConcat`), what `FlattenSeq` joins (`FlattenIsJoin`) and
induction along a sequence (`SequenceInduction`).  `SelectSeq` has no definition in the
prover; where a proof needs a filter the models use `Filtered` of `SequenceFilter`.

The assumptions on the constants are named in the modules that declare them; TLC
evaluates them on every run.  `WaitersStayRegistered`, `LatestStaysTop`,
`ReplicasFollow` and `ListServiceSteps` state facts that no run checks under that name;
each carries or is part of a property that one does.

Checked by TLC only is liveness, which is out of the prover's reach: `EveryCommandAnswered`,
`EveryReadAnswered`, the other properties with `~>`, and the fairness part of
`ImplementsService`.

## 5. Where code and documentation disagree

The three violation runs show one disagreement each; PROJECT.json quotes the lines.
Others were met while reading, follow from the models, and have no run (`ui:` is
`src/ui/redis_commands.py`).

Lists and streams:

* a woken BLPOP that finds its lists empty answers the nil string of its last attempt
  (`ListHandler.cpp:259`), the comment at line 261 says "return nil array";
* LRANGE takes an end before the start of the list for 0 and a start behind its end for
  the last element, and returns one element that is not in the range
  (`ListHandler.cpp:126`, 129); ui:316 says "inclusive" and nothing of clamps;
* RPOP answers the placeholder `$value` (`ListHandler.cpp:35`), README.md:264 says
  it pops from the tail;
* BLPOP with timeout 0 gives up after ten minutes (`ListHandler.cpp:231`), ui:342 says
  it waits forever;
* the thread of a BLPOP and the loop use `m_blockingLists` without the lock under which
  other threads erase (`ListHandler.cpp:233`, 240, 246), and a push adds to `m_lists` without
  the lock of the threads (`ListHandler.cpp:67`, 94): each may end the process;
* a disconnect does not cancel BLPOP (`Server.cpp:203`), the comment above says so;
* XADD with a star compares 0-0 with the waiter of its stream and wakes nobody
  (`StreamHandler.cpp:118`); ui:470 says "block and wait for new data", with an example
  that adds by star.  A second blocked XREAD displaces the first, and the first to be
  answered clears the places of all (`StreamHandler.cpp:333`): a reader may sleep beside
  its entry with written identifiers too;
* an XADD with a star that is refused leaves its flag in the stream
  (`Stream.cpp:38`), so that the next XADD with a written identifier gets a generated
  one; ui:373 says "Explicit ID".  Two `XADD *` in one millisecond both get the sequence
  number 0, and the second is refused (`Stream.cpp:18`), while ui:377 says it increments;
* XRANGE within the block of both bounds ignores the end (`Stream.cpp:128`), and an
  end in block 0 is open; ui:417 says "inclusive range".  A reply is ordered by the text
  of the identifiers (`Stream.cpp:113`), ui:418 says chronologically; COUNT (ui:414) is
  not looked at.

Publish/subscribe and replication:

* a duplicate SUBSCRIBE raises the count (`SubscriptionHandler.cpp:60`), ui:678 says it
  stays; PUBLISH is served in subscribed mode (`SubscriptionHandler.cpp:36`), ui:671
  lists the commands that are;
* an acknowledgement that comes after its WAIT is answered `+OK` (`CommandHandler.cpp:119`),
  which ends the replica at the assertion of `SocketReader.cpp:77`; a SET or a WAIT during
  a handshake ends it too (`CommandHandler.cpp:107`), and a WAIT may take its REPLCONF or
  PSYNC, whose reply never comes.  `OnlyDisturbedAbort` and `JoinsEventually` name these
  cases (`disturbed`); ui says nothing of them, and README.md:227 says "start as many
  slaves as needed for high availabilty";
* WAIT counts any array of three elements that ends in a number (`CommandHandler.cpp:201`):
  an answer to an earlier WAIT, a second answer, REPLCONF listening-port, PSYNC, and a
  command of a client that got a dead replica's descriptor, which is then never executed.
  `WaitCountSound` counts them apart (`strays`); where nothing has been written WAIT
  returns the number of entries, dead replicas among them (`CommandHandler.cpp:148`);
* a replica that is gone stays registered, and a write to it ends the master
  (`Server.cpp:474`).  If its descriptor is given away first, the next connection inherits
  it: a replica receives and executes every write twice, and may fail in its handshake by
  writes that come before it has registered; a client receives commands as replies.  This
  is against the same line of the README;
* a SET is propagated whatever became of it (`Server.cpp:218`, 227): when a transaction
  queues it, so that replicas have what DISCARD dropped (ui:608 says "without executing
  them"), and when subscribed mode refuses it.  INCR is not propagated at all
  (`Server.cpp:462`).  `Converges` says just that.

Sessions:

* a BLPOP that blocks inside of an EXEC is answered twice: by NO_REPLY in the array and by
  its thread (`TransactionHandler.cpp:40`); SUBSCRIBE inside of one sends its confirmations
  ahead of the array, which holds NO_REPLY for it;
* a thread of BLPOP answers whoever has its descriptor when it ends (`ListHandler.cpp:270`).

Key-value store:

* an INCR of a key whose expiry has passed answers 1 each time, since the old timeout
  stays with the key (`CommandHandler.cpp:307`, `KeyValueStore.cpp:46`);
* `PX` from 2,147,484 ms on overflows (`KeyValueStore.cpp:52`); where it wraps the key
  may be gone at once, and the example of ui:62 is `PX 3600000`;
* a key is never removed when it expires, and KEYS lists it; README.md:37 says
  "automatic key cleanup".  Expiries in seconds of an RDB file are dropped, and a file
  without a database (that of an empty server) makes the start throw
  (`KeyValueStore.cpp:96`).

Event loop:

* "This function should not take long" (`Server.cpp:186`) stands above blocking reads: a
  client that stops inside of a command stalls all others, and so does the stale ready
  set after a WAIT (`StalledAtStart`);
* a reset of one connection, a command cut by a close where it should have a number, an
  argument that comes in two pieces, and a WAIT or a write after a replica's connection was
  closed may each end the server, and a reply to a client that is gone may by SIGPIPE
  (`EndHasACause` names them all); WAIT without its arguments throws too;
* behind an argument that comes in two pieces the rest of the payload is taken for
  arguments and commands, and is executed (`SocketReader.cpp:61`).

## 6. What is left out, and the plan

Not modelled: identifiers that do not parse, entries without a field, the order of
entries within a reply, and readers of streams that close their connection; LPOP with a
count below 1 and arguments that `stoi` or `stod` reject; the restart of a replica, clients
of a master that leave, byte offsets, and WAIT inside of a transaction; compressed strings, a second
database and the checksum of an RDB file; a clock that steps back under the key-value
store; the close of descriptors on the way out of the process.  PING, ECHO, COMMAND,
CONFIG and INFO change nothing.  `RESPEncoder` and `RESPDecoder` format text.  The web
interface is a client, and its texts are quoted above.

What would come next, in this order:

1. `StreamHandler`: the order of a reply, and XRANGE against a reference definition where
   both bounds lie in the same block.
2. `Replication` with byte offsets and a replica that comes back.
