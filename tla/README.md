# Verification of the EE360P programming assignments

This directory keeps TLA+ specifications of the programs in this repository,
the TLC configurations that model-check them, and proofs about them for TLAPS.
`PROJECT.json` lists the components, the runs with their properties, the source
lines behind every definition, the hazards and the theorems.

Run a configuration with `tlc -workers 2 -config X.cfg M`, and check the proofs
with `tlapm M.tla` for the modules whose names end in `Proofs`: `ReplicatedServerProofs`,
`FairReadWriteLockProofs`, `BarrierProofs` (the monitor and the dissemination barrier),
`ThreadProofs` (the semaphore barrier and the garden), `OrderStoreProofs`, and
`MatrixMultProofs`, `DeliveryProofs` and `ProgramProofs`, each of which
extends the one before. The last three take about ten minutes each. The `MC` modules
hold constants that a `.cfg` cannot express.

## 1. Inventory

| part | state | operations | interaction | what is hard | what makes it correct |
|---|---|---|---|---|---|
| **project4** `Server`, `TimeStamp`, `Client`: a store replicated on n servers | per server: Lamport clock, `pendingQueue`, `clientCommands`, `timedOutServers`, the store; per connection: a `ServerTask` thread; per client: its server list | client command; Request, Update, Release from peers; suspicion after a failed reply; client failover | one TCP connection per message, a 100 ms read timeout against "alive" lines every 50 ms; all threads of a server share its fields without locks | every interleaving of handlers, crashes, false suspicions, a queue that breaks when two commands are in it | clock condition; commands executed at most once per replica; replication before the response; no accepted command lost; mutual exclusion; progress |
| **project3** `Server`, `Client`: one store over TCP and UDP | inventory, users, orders (static), an executor | purchase, cancel, search, list | TCP loop and UDP loop, each waits for a pooled task; `execute` is `static synchronized` | concurrent purchases, a loop that ends at the first exception, clients that go silent, lost and duplicated datagrams | stock + ordered items are conserved; order IDs unique; no overselling; commands take effect one after the other; an answer fits its command; one protocol does not stop the other |
| **project2 q1** `CyclicBarrier` (semaphores), `MonitorCyclicBarrier` | vacancies, permits, resets | `await` | n threads per round, several rounds | a reset and a trip outside the critical section; static `resets` | nobody leaves a round before all have arrived; everybody leaves |
| **project2 q2** `FairReadWriteLock` | readers, writers, tickets given and taken | begin/end of read and write | monitor with `notifyAll` | wake-ups, ticket order | readers and writers exclude each other; requests enter in ticket order; no request waits for ever |
| **project2 q3** `Garden` | holes dug, seeded, filled; shovel and sequencer locks | start/done of digging, seeding, filling | three threads, four conditions | conditions tested before the lock is taken, `if` instead of `while` | seeded <= dug, filled <= seeded, at most 4 unseeded and 8 unfilled holes; no lost signal |
| **project1 q1** `PSort` | the array | quicksort with forked halves | executor, `Future.get` | partition bounds, insertion sort that runs below `begin` | sorted permutation; forks do not overlap |
| **project1 q2** `PSearch` | - | - | - | does not compile | - |
| **project5** `matrix_mult.c` | per rank: the sizes, its chunk, the vector, the products | broadcast, scatter, multiply, gather, barrier | MPI collectives | fewer rows than ranks, several ranks on a machine, buffers sized by the wrong dimension, missing files | the result is the product; the ranks meet in the same collectives and all end |
| **project5** the part of MPICH 3.2 it runs on: `mpi/coll`, `mpid/ch3` | per rank: connections, posted and unexpected queues, requests | `MPI_Bcast`, `Scatterv`, `Gatherv`, `Barrier`; send, receive, packet handlers | packets between ranks; a rank handles them while it waits | eager and rendezvous messages that arrive before or after their receive; one tag for all steps of a collective | a message meets the receive it was meant for; nobody leaves the barrier early |
| **project5** `TextAnalyzer.java` | - | map, combine, reduce | Hadoop | words counted per context | counts equal those of a direct definition |
| the rest of MPICH 3.2, tutorial, inputs | third-party and data | | | | |

The hazards of this code, each at its line and with the properties aimed at it,
are in `PROJECT.json`.

## 2. Plan

Done:

1. `TimeStamp`, `ReplicatedServer` (project4: protocol, queue, failure handling,
   clients) with `ReplicatedServerProofs`.
2. `FairReadWriteLock`, which implements the abstract `FifoLock`; proofs of exclusion,
   wake-ups and of the implementation.
3. `MonitorCyclicBarrier`, which implements the abstract `RoundBarrier`, with a proof,
   and `CyclicBarrier`, whose later rounds go wrong, with a proof of the first.
4. `Garden`, with a proof of the order of work.
5. `OrderStore`, the store of projects 3 and 4, which implements `AtomicStore`, with
   a proof.

6. `StoreServer`: the TCP and UDP loops of project3, its clients and the network
   around `OrderStore`, with a proof that they use the store as `OrderStore` allows.
7. `MessageQueues`, `Collectives` and `MatrixMult`: the MPI program of project5 with
   the collectives and message queues it runs on; `DisseminationBarrier`, which
   implements `RoundBarrier`; proofs about the queues, the barrier, and the program as a
   whole.

How they compose: `StoreServer` EXTENDS `OrderStore`, and `MatrixMult` EXTENDS
`MessageQueues` and `Collectives`. `FifoLock`, `RoundBarrier` and `AtomicStore` are
abstract specifications. `RoundBarrier` is implemented by `MonitorCyclicBarrier`,
`DisseminationBarrier` and `MatrixMult`; `MatrixMult` on separate machines implements
`DisseminationBarrier`, too.

Left, in this order:

8. The unsynchronised accesses of project4: split reads and writes of the clock and
   of the lists, in a module of one server.
9. `ReplicatedStore`: replicas that execute `OrderStore`'s commands, without its lock,
   in the orders that `ReplicatedServer` allows, and which of those orders converge.
10. `PSort`: its partition as a function, and the fork/join around it.

## 3. project4: the replicated server

### Modules

* `TimeStamp` is `TimeStamp.java`: stamps, `compare`, and the clock updates.
* `ReplicatedServer` is `Server.java` and `Client.java`. A `ServerTask` thread is
  identified by what its connection is for: a client's command (kind "Client") or
  a peer's Request, Update or Release; `Thread` is the set of these. `pc` is the
  next call of the thread, `phase` the message that it sends (its last call of
  `send()`), `running` the command it sends it for, `peer` the loop variable of
  `send()`, `stamp` the clock in the message it sends or has received, and `found`
  whether the entry that the `search()` of a Release handler returned is still in the
  queue.
* `MCReplicatedServer` gives the scripts and server lists of the runs.

| code | model |
|---|---|
| `serviceServerTask`, client branch | `AcceptCommand`, `EnterOwnRequest`, `WriteRequest` |
| `send` | `SendMessage`, `ConnectRefused`, `ReplyFails`, and `SendReturns` where its callers go on |
| `deprecateServer`, `remove` | `Suspect` (in the step of the failure), `DropSuspect` (once per entry) |
| `serviceServerTask`, Request | `HandleRequest` (clock, acknowledgement), `AddRequest` |
| Update | `ApplyUpdate` |
| Release | `HandleRelease` (clock), `SearchSender`, `RemoveRequest` |
| `checkCriticalSection`, `isSmallest`, `search` | `CheckSmallest`, `ExecuteNext`, `BeginRelease`, `Respond` |
| `Client.send`, `deprecateServer`, `sendToTCPServer` | `ClientConnect`, `ClientReceive`, `ClientRefused`, `ClientEndOfStream`, `ClientFails` |
| a server process dies | `Crash` |

A step is one call on one shared object, or one exchange with the network. In
particular the clock is read twice for a Request (`EnterOwnRequest`,
`WriteRequest`), a Request is acknowledged before it is queued, Updates and
Releases are answered before anything is done about them, iterations over
`pendingQueue` may fail when another thread is about to change it (`Modifying`), and
of two threads whose `search()` found the same entry only one removes it (`found`).

In these places calls in a row are one step: the two clock updates of a Request handler
(`HandleRequest`); the clock update for a command or an Update with the call on
`clientCommands` or the store that follows it (`AcceptCommand`, `ApplyUpdate`); the
connection, the clock update and the message (`SendMessage`); the failure of an exchange
and the entry in `timedOutServers` (`Suspect`); the search for one entry of a suspected
server and its removal (`DropSuspect`, one step per entry: a Release handler that finds the
same entry in between finds it removed either way, since the loop goes on until there is
none); `poll()` with the execution of what it
returns and the text of the Update (`ExecuteNext`); and the last call of a task with the
end of its connection. Another thread could come in between. It would then read the clock
before the second update, try a server that is about to be suspected (as it may anyway
just before the failure), find a socket open that is about to be closed, or execute another
command between the `poll()` of one and its execution, so that the two stand in the
other order in `log`. No property that holds compares the order of commands in `log`, or
asks more of the clock than that it has passed what it received.

Abstractions. The store is deterministic, so `log[s]`, the commands that server
s executed, stands for it; a command is "valid" or "malformed" (`execute` throws).
`pendingQueue[s][p]` holds the clocks of p's entries in list order: the code only
ever looks for the first entry of a process, or at all entries.
`java.util.PriorityQueue` is modelled by what JDK 8 does with elements that are
not `Comparable`: the first `add` succeeds, a second one throws after raising the
size, and `poll` lowers the size first. Not modelled: lost updates of
unsynchronised fields, `IOException`s that only print a stack trace, "alive" lines
mixed into a response, and the reformatting of responses.

### Runs

All runs are small because every thread is a process: a command of one client on
three servers already has seven threads.

| run | instance | checks |
|---|---|---|
| `SingleClient` | 2 servers, 1 client, 2 commands, no failures, fair | `AllAnswered` |
| `Suspicion` | 3 servers, 1 client, 1 crash, 1 false timeout | `TypeOK`, `ReplicatedBeforeAnswer`, `AtMostOnce` |
| `SharedServer` | 2 servers, 2 clients, one of which comes over from the other server; one malformed command; fair | `PolledOnce`, `AcceptedIsHeld`, `ClockPastEntries`, `WaitsInOrder`, `EventuallyReplicated` |
| `MutualExclusion` | 2 servers, 2 clients | violated, see below |

Two servers are enough for a Request, Update and Release to cross those of the
other server; three are needed for a crash of a minority, for a peer that is
served after a suspected one, and for a Release handler that polls on behalf of
another server. One crash and one timeout reach every point where `send()` or a
client can fail. In `SharedServer` the two servers first contend for the critical
section, and then the second client fails over to the first server and breaks its
queue of commands.

Bounds: `MaxCrashes` and `MaxTimeouts` bound the environment; the length of the
scripts bounds everything else, so no state constraint is needed. Deadlock is not
checked: a system without commands left stops, and so does one whose commands
were dropped by a failing task. In `Suspicion` only the first server makes requests, so
that the servers it suspects have no entries for `DropSuspect` to remove: a list of two
servers with a crash has over twelve million states here. The theorems below cover the
removals: they hold for every list and every number of failures.

Fairness (`FairSpec`, used by `SingleClient` and `SharedServer`): the threads of the
servers keep running, and so do the clients. It is weak: which thread runs is
left open. Pool threads and processes are scheduled by the JVM and the operating
system, no lock is ever held, and a thread with a step to take keeps it until it
takes it. As the scripts are finite, nothing stronger is needed. Crashes and
timeouts are never forced.

What the runs show. One client that stays with its first server has every command
answered, although the second one is served while handlers of the first are late and
its entry stays in the queue (`Server.java:60`). Without failures every executed command
reaches every replica, while servers contend and tasks end by exceptions. With a
crash and a late reply a replica executes the command of one connection at most once; a
client that retries makes another connection, and its command is executed again. With
failures the answer still never overtakes the Updates. And while a command's own thread and
the handler of a Release both find their server the smallest and poll, in a queue that a
second `add` may have broken, no command is polled twice and none is lost.

`WaitsInOrder` is about a message between the two clock reads of `Server.java:55-56`. The
server then keeps its own request under an earlier stamp than the others do (the
pseudocode of `Notes/Chapter 8.docx`, paragraphs 39, 40 and 43, has one stamp in both), so
that servers compare different stamps of one request. Still a server waits for another
one only if the own entry of that one comes first, and they never wait for each other
in a circle. An own entry with a later clock than its Request would let two servers do so.

One statement of the repository is violated: `MutualExclusion` (`Notes/Chapter 8.docx`,
paragraph 5). A server acknowledges a Request before it queues it (`Server.java:163-165`). In
between it can receive its own acknowledgement, find its own request smallest, and
enter together with the requester.

A client whose list of servers runs out ends without an answer (`ClientFails`), which
happens although servers are alive: one that is not the smallest closes the socket
of its waiting client (`Server.java:190`), and the client drops it. In `SharedServer` the
second client comes over to the first server this way.

### Proofs

For every number of servers, clients, commands, crashes and timeouts, from the
assumptions named in `ReplicatedServer` (server lists name servers, none twice;
scripts are sequences of commands; the bounds are numbers):

* `TypeCorrectness`. `TypeOK` is not inductive: that `send()` stores a real server
  in its suspicion needs that a thread that waits for a reply has a peer, that
  `Respond` answers a real command needs that a sending thread has one, and that
  `Deprecate` shortens a list needs that a waiting client has a server. `TypeInv` adds these.
* `ClockCondition`. Between `HandleRequest` and `AddRequest` a stamp is in no queue
  but will be; `ClockInv` adds that the clock has passed it already.
* `NoCircularWait`: `WaitsInOrder`. The first own entry of a server never changes, and was
  read from the clock before the text of any Request. `WaitInv` follows this bound from the
  clock through the thread that sends (`AskingSince`) and the handler (`RequestSince`) to the
  entries of the other queues (`QueuedSince`). It needs that nobody ever removes an entry of
  its own server (`PeersOthers`).
* `ExecutedAtMostOnce`, `CommandsPolledOnce`, `AnswerAfterUpdates`, `NothingLostInQueue`, all from
  `IInv`. Its core is the question who serves a command: it is either in slot 0
  of its server's queue or was polled by exactly one thread (`PollInv`); only that
  thread sends its Updates and Releases, in the order of its loop, so each of
  their receivers is started once (`FreshInv`); whatever is in a log was polled by
  a thread of that server or came with an Update that was received (`LogInv`);
  the peers that the loop has passed are suspected or have been sent the Update
  (`SentInv`); and a client never makes a connection twice (`ConnInv`). The lemmas
  named `...Kept` say which parts survive a step that only moves forward
  (`Forward`), and there is one lemma for each action that does more.

Only model-checked: the liveness properties (out of the prover's reach), and the
violation.

## 4. project3: the store, its server and the clients

### The store

`OrderStore` is `execute()` of `Server.java` with all it calls on `Item`, `Order` and
`User`. Its threads are those of the pool that run a `Command`; a step is one call
on one of these objects (`Order`'s constructor is two: it counts, then reads the
counter), and `lock` is the monitor of the class that `execute()` takes.

| code | model |
|---|---|
| `Command.call`, `execute` | `Call`, `Enter`, `FirstStep`, `Return` |
| `purchase` | `FindUser`, `CheckInventory`, `CountOrder`, `ConstructOrder`, `AddOrder`, `PurchaseQuantity` |
| `cancel` | `FindOrder`, `ReturnQuantity`, `RemoveOrder` |
| `search`, `list`, the default case, malformed commands | `AnswerReport` |
| the input file | `InitialStock` |

`AtomicStore` says what the store promises: it changes only by whole purchases and
cancellations. `OrderStore` implements it (`Serializable`): a purchase takes effect
when its check of the inventory passes, a cancellation when its order is found, and
the refinement mapping adds to the store what the holder of the lock has still to do.

The same code in project4 takes no lock. The mutant `EnterUnsynchronized` is that
variant: it violates `Serializable`, `UniqueIDs` and `Conservation`.

### The server and the clients

`StoreServer` EXTENDS `OrderStore` and puts around it what calls it. Its pool has
one busy thread for each of the two loops, because a loop waits for the result of
its command before it takes the next one: `Thread = {"TCP", "UDP"}`.

| code | model |
|---|---|
| `Client.send`, `sendTCP`, `sendUDP` | `Ask`, `Connect`, `WriteCommand`, `SendDatagram`, `ReadAnswer` |
| `TCPServer` | `Accept`, `ReadCommand`, `AnswerTCP`, and `EndOfInput` where `nextLine()` throws |
| `UDPServer` | `Receive`, `AnswerUDP` |
| the executor's thread for a loop's command | `Pool(t)`, which is `Execute(t)` of `OrderStore` |
| a client process ends, or stops for good | `Disappear`, and no fairness for an unsteady client |
| the network | `Lose`, `Duplicate`; datagrams are a set and arrive in any order |

An exception in a command reaches the loop through `Future.get()`. Nobody catches it,
so the loop ends for all clients, and so it does when a client's connection ends
before the command. The socket of a loop that has ended stays open until the
garbage collector closes it, which is left out: a client that connects then waits
for ever. A datagram is identified by its client and number, which stand for the
port of the client's socket: an answer to a socket that is closed goes nowhere.

### The run

`StoreServer`: 2 users, 2 products of which one is sold, 2 clients, one of which may
stop or disappear between any two steps; at most 3 commands, datagrams sent twice
included (`MaxCalls`). Two threads can meet at any two of their calls; three commands
are enough to buy everything, cancel, and buy or cancel again, or to end one loop
while the other serves two commands. Deadlock is not checked, since clients may have
nothing more to ask or wait for ever.

Besides `Serializable`, it checks `NoOverselling`, `UniqueIDs` and `Conservation`
(stock and ordered items add up whenever no thread is inside `execute()`),
and about the server as a whole:

* `AnswersFit`: the answer a client has is about its own command and agrees with the
  store, with late and duplicated datagrams and two loops at work. A duplicated
  purchase is executed twice, which the code does not notice; stock and orders still add up.
* `Served`: a client waits for ever only if the loop of its protocol has ended
  (`Server.java:54`), the TCP loop waits for a client that never writes (line 51), or a
  datagram was lost (`Client.java:73`). What goes wrong with one protocol does not
  stop the other.

Fairness: the two loops and the pool's threads keep running, and steady clients write
the command after connecting and read the answers they wait for. The JVM schedules
threads that can run; `execute()` gives its monitor back after finitely many steps,
and with finitely many commands a thread that waits for it gets it (weak fairness of
`Enter`). Nothing forces a client to send a command, and nothing forces the network
to lose one.

A negative quantity is legal in the code and raises the stock; its cancellation can
take the stock below zero, so `NoOverselling` is about natural quantities, while
`Serializable` is proved for all integers.

### Proofs

`OrderStoreProofs` proves, for any finite number of threads and any users, products,
quantities and commands: `TypeCorrectness`, `NeverOversold`, `DistinctIDs` and
`ImplementsAtomicStore`. The invariant says that only the holder of the lock is
past `Enter` (so what it has read stays true), that the IDs of all orders are at
most `currentID` and distinct, and, for each step of a purchase or cancellation, how
far the store is.

`ServerUsesStore` says that every behaviour of `StoreServer` is one of `OrderStore`: the
loops call it only with commands of the scripts, and only when their thread is idle
(`Submitted`). `ServerNeverOversold`, `ServerDistinctIDs` and `ServerSerializable` carry
the results over to the server, for any clients and scripts. They need
`ServerAssumption`, which names the two threads and says that scripts hold commands.

`Conserved` proves `Conservation` for the store and `ServerConserves` for the server.
The property is a sum over all orders, defined by a choice of the next order, and a
proof needs that the order of choice does not matter: the lemmas from `LeastNumber`
to `TotalAdd` show what adding or removing one element does to a sum, by looking at a
smallest set for which it would fail. The invariant (`StockInv`) says that stock and
ordered items exceed what the input file said by the items of one order, that of the
holder of the lock while it is listed and its items are in stock (`Underway`).

`ServerAnswersFit` proves `AnswersFit` for any clients, scripts, and any number of lost
or duplicated datagrams. What fits a command once goes on fitting (`FitsStays`): IDs
are not given twice and an order that was removed does not come back. `ServerInv`
follows an answer from the store through the loop (`LoopInv`) and the network
(`OnTheWay`) to the client (`ReplyInv`); it has to know that a client waits in at most
one place of the TCP loop (`QueueInv`), and that a datagram with the number of the
client's command is that command (`RequestInv`).

Only model-checked: `Served`, which is liveness.

Left out: int overflow of stock and IDs, a product listed twice in the input file,
commands longer than the 1024 bytes of a datagram, and `IOException`s that are printed.

## 5. project2 q2: the fair read-write lock

`FairReadWriteLock` has one action for each stretch of code between taking the
monitor and `wait()` or the end of the method: `Begin` and `Recheck` for the two begin
methods (`EnterOrWait` is their loop), `EndRead`, `EndWrite`, and `WakeUnnotified` for
spurious and interrupted waits. Notified threads take the monitor in any order.
`FifoLock` is a first-come-first-served readers-writers lock without tickets: a
request remembers who is ahead of it.

The run `FairLock` has 4 threads and 6 requests, enough for readers inside, a writer
that waits for them, and a reader behind it, with threads that come back. It checks
`WritersAlone`, `NoLostWakeup` (the end methods notify only in some cases),
`FirstComeFirstServed` (the lock implements `FifoLock`) and `NoStarvation`. Fairness:
who has the lock gives it back, which the caller must do, and a notified thread gets
the monitor at some time, since nobody waits inside it. Nothing forces new requests.

`FairReadWriteLockProofs` proves the safety properties for every number of threads
and requests. The counters of the code have to agree with the threads inside
(a cardinality), the tickets of those pending lie between `overallTurn` and
`readOrWritesRequested` and are distinct, and whoever sleeps must wait. The
assumption `RequestsAssumption` keeps tickets within `int`; with 2^31 requests they
would wrap, and the test `overallTurn < thisThreadTurn` would not order them any
more. The counters are static while monitors are not: two lock objects would
share counters but no notifications. One lock object is modelled.

## 6. project2 q1: the barriers

`RoundBarrier` is what a barrier promises: nobody leaves a round before
everybody has entered it.

`MonitorCyclicBarrier` is used as in `testMonitorBarrier.java`: 5 threads, 5 rounds.
`AwaitLast`, `AwaitOthers`, `Recheck` and `WakeUnnotified` are the stretches of `await()`
in the monitor. The run `MonitorBarrier` is the whole test with every schedule and
spurious wake-ups: it implements `RoundBarrier` (`SeparatesRounds`), the vacancies agree
with those who wait (`VacanciesAgree`), and everybody leaves all rounds
(`AllRoundsLeft`), assuming that threads go on and notified ones get the monitor.
`BarrierProofs` proves the first two and the types for any number of threads and
rounds: a thread outside has left as many rounds as there were resets, and one
inside waits for the current round or may leave the previous one (`RoundsInv`).
`resets` is static and set to 0 by each constructor; a second barrier is not modelled.

`CyclicBarrier` uses semaphores, and only its decrement is in the critical section;
a step is one access to `currentBarrierVacancies` or one semaphore operation. In one round
with 4 threads (`SemaphoreBarrier`), nobody leaves early but an interrupted thread, whose
exception `acquireSemaphore()` swallows, and without interrupts all leave. With
a second round (`SemaphoreBarrierReused`, 2 threads as the smallest case of the loop
in `testBarrier.java:20`) a thread that trips the barrier can run into the next round
and take the permit that was meant for the other, which then waits for ever. The
vacancies also leave their range in later rounds, so `TypeOK` is checked for one
round. Fairness: each thread of the test goes on; semaphores may pass a waiting
thread over.

`ThreadProofs` proves, for any number of threads and interrupts, `TypeOK` for
one round (`FirstRoundTypes`) and `EarlyOnlyByInterrupt` for one round or any number of
rounds without interrupts (`FirstRoundNotEarly`). While a thread is not counted in its
first round, the vacancies are at least as many as such threads, so nobody finds the
barrier filled, and only interrupts have let anybody through (`FirstRound`). In both
cases nobody who left early can come back and count a second time; with interrupts
and a second round the vacancies may reach 0 while a thread is still missing.

## 7. project2 q3: the garden

`Garden` has one thread for each gardener. The start methods test the counters
without a lock and wait at most once: `Test`, `AwaitSignal` (`sequencer.lock()` and `await()`),
`Awake`, then `LockShovel`. The done methods are `DoneDigging`, `DoneSeeding`,
`DoneFilling` (counter and signals, in `sequencer`) and `UnlockShovel`. A test reads one
counter of another thread without a lock; an old value is the same as an earlier
test after which the thread goes on late. `missed` is a history variable: the thread
began to wait when its condition had already changed.

The run `Garden` has twelve holes, four more than may be unfilled. `MayWork`: whoever
works may do so, although tests are made without the lock and not repeated, unless
`await()` ends without a signal (`wakeUps`; then the tests with `==` may never hold
again, and nothing is promised). `SignalledUnlessMissed`: every change is signalled.
`AllFilled`: all holes are filled, unless a signal is missed. Fairness: the threads
keep running and get the locks. `GardenDeadlock` shows that signals can be missed
for good: Newton digs four holes between Benjamin's test and his `await()`, and each
then waits for the other ("dig waiting for seed", "seed waiting for dig",
`Garden.java:33` and 80).

`ThreadProofs` proves `GardenTypeOK` (`GardenTypes`), `MayWork` (`WorkInOrder`) and
`SignalledUnlessMissed` (`Signals`) for any number of holes. A
condition that was passed, or a signal that was received, must still say something
when the thread goes on: only the thread itself can make its condition worse
(`Counts`), because each counter has one writer.

## 8. project5: the matrix-vector product on MPICH

The program is short, and what can go wrong in it lies between its ranks. So it is
modelled together with the part of the vendored MPICH that carries its messages.

### Modules

* `MessageQueues` is the point-to-point layer (`mpid/ch3/src`): connections that keep
  the order of packets, the queues of posted receives and of unexpected messages
  of each rank, and its requests.
* `Collectives` has, for each collective of the program, the sequence of
  point-to-point operations that a rank goes through (`mpi/coll`), with the ranks of
  a machine in communicators of their own when several share one.
* `MatrixMult` is `main()`. `stage` is where a rank is in it; within a collective,
  `step` is its next operation.
* `DisseminationBarrier` is `MPIR_Barrier_intra` by itself, for several rounds: its
  messages are empty and share a tag, so that it only counts them.

| code | model |
|---|---|
| `MPID_Isend`: eager, rendezvous | `SendEager`, `SendRndv` |
| `MPID_Irecv`, `MPIDI_CH3U_Recvq_FDU_or_AEP` | `Receive`: `TakeUnexpected`, `PostReceive` |
| `MPIDI_CH3U_Recvq_FDP_or_AEU`, the handlers of eager and ready-to-send packets | `HandleAnnouncement`: `MatchPosted`, `QueueUnexpected` |
| the handlers of clear-to-send and of data | `HandleClearToSend`, `HandleData` |
| `MPIC_Isend`, `MPIC_Irecv`, `MPIC_Wait`, `MPIC_Waitall` | `Isend`, `Irecv`, `Progress`, `WaitDone` |
| `MPIR_Bcast_binomial`, `MPIR_SMP_Bcast` | `BinomialBcast`, `Bcast` |
| `MPIR_Barrier_intra`, `barrier_smp_intra` | `Dissemination`, `Barrier` |
| `MPIR_Scatterv`, `MPIR_Gatherv` | `Scatterv`, `Gatherv` |
| `main`, lines 48-68 | `OpenFiles` |
| lines 70-92 | `LearnRows`, `SkipWork`, `ChunkSize`, `ChunkStart`, `DivideByZero` |
| lines 93-122 | `DealRows`, `TakeChunk` |
| lines 124-166 | `Multiply`, `Collected`, `WriteResult`, and the overruns |
| line 170 | `Finish` |
| hydra, when a process ends without `MPI_Finalize` | `Kill` |

A rank has one thread and handles packets only while it waits, so `Progress` needs a
pending wait. A message of the wrong size sets the error of the collective
(`errflag`), goes on as in the code, and fails the call at its end; the error handler of
`MPI_COMM_WORLD` then ends the process. The one byte that ends a node-aware barrier
and the 4-byte numbers keep their sizes, because the sizes are what is compared.

A write past an array may end the process or not; if not, the model goes on with
correct values, and promises nothing about the result. Packets that the connection
cannot write at once count as handed over. Left out, as nothing in the program
reaches them: cancellation, probes, self sends, failed connections, the
scatter-allgather broadcasts (for 12288 bytes and more; the vector has at most 1000
integers), and the large-message transfer of the shared-memory channel, which has
the same handshake.

Left out, although a larger program reaches it: with `MPIR_CVAR_GATHERV_INTER_SSEND_MIN_PROCS`
ranks or more (32 by default) all but the root of `MPI_Gatherv` use `MPIC_Ssend`
(`gatherv.c:173-182`), whose packets name the sender's request and are acknowledged. The
model has standard sends only, and `StandardSendAssumption` says that there are fewer ranks
(`GathervSsendMinProcs` is the variable).

### The run

`MatrixMult`: three ranks; 18 inputs with 0, 1, 2, 4, 5 or 6 rows, 0, 1 or 6 columns, or
no files; ranks on one machine, on three, or two of them together in every way.
`EagerThreshold` is 30 bytes, which makes a chunk of one row eager and one of two
rows a rendezvous. Three ranks are the fewest with a barrier of two steps, a broadcast
tree with two children, a machine with and one without a second rank, and rows that
do not divide evenly. A fourth rank multiplies the states of each input by more
than thirty. Deadlock is not checked, because a process that has ended does nothing.

* `QueuesAgree`, which has two parts. `QueuesDisjoint`: no receive waits while a message
  that it matches waits. `HandshakesHeld`: a rendezvous names the requests of both sides by their handles, in
  three packets and two queues. While one names a request, it is there and sending,
  posted or cleared, as the handlers of `ch3u_rndv.c` take for granted (lines 214 and
  295): none is completed, released or reused before. In the run the vector and the
  products are eager, and only `MPI_Scatterv` sends by rendezvous.
* `ResultCorrect`: the result is the product, whatever the order in which chunks are
  dealt and come back.
* `FinishesExactlyWhen`: on which inputs the program finishes. It does not without its
  files or with an empty vector (a division by zero in line 90), and not when a rank
  with rows shares a machine with one without (`SplitMachine`): there the second is
  in the barrier of line 170 while the first broadcasts the vector of line 120 to it.
  Both use the same communicator and tag, and the size is wrong. When no machine is
  split, ranks may skip the three collectives, and nothing keeps the program from its end,
  which it reaches by `JobEnds`.
* `NothingLeftBehind`: when all have rows and are done, no connection and neither queue of a
  rank holds anything.
* `WorldBarrier`: the last barrier implements `RoundBarrier`, on every placement.
* `FlatBarrier`: on separate machines it implements `DisseminationBarrier`; the refinement
  mapping counts the operations that a rank has behind it.
* `JobEnds`: every process ends, by itself or with the job.

Fairness: each rank that can go on does. Ranks are processes that poll for packets
while they wait, and none waits for a lock. The process manager kills the others when
one ended without `MPI_Finalize` (`pmip_cb.c:236`, `pmiserv_cb.c:238`).

### Proofs

All theorems whose names begin with `Program`, `SystemHolds` and `FirstIsRight` are about
any number of ranks below `GathervSsendMinProcs`, any input and placement. Those about the
dealing of rows, the products and `DisseminationBarrier` hold for every number of ranks, since
they do not depend on the kind of send.

* `ProgramQueuesDisjoint` (`MatrixMultProofs`). `QueuesDisjoint` is inductive: a receive is posted only if no unexpected
  message matches it, a message is queued only if no receive does, and taking an
  element out adds no pair.
* `ProgramHandshakesHeld`, likewise; the two together are `ProgramQueuesAgree`. The
  connections and queues together are one family of sequences (`Family`). The
  inductive invariant (`HandshakeInv`) adds to `HandshakesHeld` that no request is
  named twice (`NamedOnce`): so taking a packet out frees what it named, and the next
  packet of the handshake may name it. It is proved of taking one element out and of
  putting one in, and each handler is a sequence of the two around a change of one
  request. That a handle belongs to a rank needs `OperationsPeers`: no operation of
  a collective names a rank outside the program, whatever the placement.
* `DisseminationTypes` and `DisseminationImplementsBarrier` (`BarrierProofs`), for every
  number of ranks, power of two or not, and of rounds. A rank at distance `mask` knows
  that the `mask` ranks up to itself have entered (`Cover`). The number of messages
  on a connection bounds how often the sender, and those it knew of, have entered
  (`SentBound`); a rank has received one from each distance before its own
  (`ReceivedMany`) and those behind it have not sent ahead of their round
  (`SentFew`). So the message that it takes is not one of an earlier round, and at
  the last distance the two halves cover all ranks.

* `RowsDealtOnce`, for every number of ranks, rows and columns: the loop of lines 76-92
  deals each row to exactly one rank, its sizes and offsets in numbers agree with
  those in rows, no chunk reaches past the matrix, and the ranks below the number of
  rows, which alone call the three collectives (line 75), are those that have a row.
  `ChunkStart` is a recursive function; `ChunkStartIs` gives it in closed form, by the
  first rank for which it would differ.
* `ProductsMakeTheProduct`: if each rank with rows multiplies the chunk that rank 0 has
  for it, then what rank 0 collects is the product of the matrix. This is the
  sequential half of `ResultCorrect`.

The rest are theorems about the whole program on its queues (`ProgramProofs`), with
standard sends. They all follow from one inductive invariant, `SystemInv` (`SystemHolds`). Messages are told apart by source, tag and
communicator alone, several broadcasts and a barrier share these, and packets wait in two
queues, so that it must say where every rank stands in its collectives, what is
under way between any two places, and what each message holds:

* `Planned` operations (`MatrixMultProofs`). For each stage of `main()`, which sends and
  receives each rank goes through: every send of a stage has its receive in the
  same stage of the peer and the reverse, once, in the binomial trees and the
  dissemination of any set of ranks (`MemberAt`, `WorldMasks` and their neighbours). The one
  exception is a rank without rows that shares a machine with one that has: its
  receive in the barrier has the envelope of the vector (`Exempt`).
* `Delivery` (`DeliveryProofs`). With `Did`, the operations that the ranks have gone through, and
  `K`, the messages in flight: what was sent to a receive that is not done is in
  flight (`NotLost`), once (`NotTwice`), and nothing is received that was not sent for it
  (`NotInvented`). `FirstIsRight`: the oldest message in flight that a
  receive asks for is of its own stage, except that a rank without rows takes the vector
  of its machine in the barrier: what was sent in an earlier stage has been received, and
  messages between two ranks keep their order. Sending, receiving and moving on keep this.
* `Tracked` and `Contents`. The connections and queues are a family of sequences that holds the
  messages in flight in the order of their streams, a message that moves
  from a connection to the unexpected queue stays in order, and the payload of each
  is what its sender had to send: rows, columns, its chunk, the vector or its
  products. Each step of each handler is one element taken out of the family and
  one put in.
* `HoldsOK`. What each rank has made of the messages that it received, its requests and its
  posted receives. In a barrier: who has passed a step knows, by `Rippling`, that a
  segment of ranks behind it has entered, and with the last step that all have
  (`BarrierTold`); in a node-aware barrier the roots tell their machines.
* `EndsInv`. Why a process ended, and that rank 0 has written the product when it is in
  the last barrier.

From it: `ProgramResultCorrect`, `ProgramFinishesExactlyWhen`, `ProgramLeavesNothing`, and

* `ProgramTypeOK`: assuming that `Payload` has all payloads that are made of a sequence of
  numbers, a size and an error mark (`MessageSet`), as `Payloads` of `MCMatrixMult` has in the
  run. TLC could not evaluate this of an infinite set in an `ASSUME`, so that it is a
  hypothesis of the theorem.
* `ProgramImplementsBarrier`: `WorldBarrier`, on every placement; a rank that is done knows that
  all have called the barrier, which is part of `EndsInv`.
* `ProgramCountsMessages`: `FlatBarrier`. With one rank on each machine the position of a
  rank in its `isend`, `irecv`, `wait` sequence (`PositionOf`) gives the counts of `DisseminationBarrier` (the
  operators `flatEntered` to `flatReceived` of `MatrixMult` are the refinement mapping). A step
  of the queues is a step of the counts or none. A wait ends only with the message of
  its own step: it is under way by `Delivery`, and no two steps of the barrier receive
  from the same rank, since the masks are distinct powers of two below `N`.

The proofs rest on three assumptions about the constants. `InputAssumption`: there is at least one
rank and each has a machine, rows and columns are natural numbers, the vector and the
sizes are eager, and the tags, contexts and handles of the program are among those of
the queues. `WildcardAssumption`: `MPI_ANY_SOURCE` and `MPI_ANY_TAG` are no rank and no tag.
`StandardSendAssumption`: `MPI_Gatherv` uses standard sends. No step of a proof needs it; it
says for which programs the model is the code.
`Masks`, the distances of the dissemination, is a recursive function that doubles as
the loop in `barrier.c:158` does.

Only model-checked, on three ranks: `JobEnds`, which is liveness.

## 9. Not modelled

* project5: `MPI_Gatherv` with synchronous sends, from 32 ranks on (section 8).
* project4: lost updates of `clock++` and of unsynchronised lists, and the
  unsynchronised `execute()` together with the protocol. The states of the
  protocol and of the store multiply: with a command of one client a server of
  three already has seven threads.
* project2: a second `MonitorCyclicBarrier` or `FairReadWriteLock` object, which would
  share the static counters of the first; the tests construct one.
* project1 `PSort`: its forks work on disjoint parts of the array and are joined by
  `Future.get`, so every schedule computes what the sequential recursion does.
  `PSearch.java` does not compile.
* project5 `TextAnalyzer`: functions on text; what runs concurrently is Hadoop's, which
  is not in the repository. Vectors of more than 1000 numbers, which overrun
  `temporary_vector`.
* The rest of MPICH 3.2 (other channels and collectives, RMA, ROMIO, hydra, the language
  bindings), which the program does not reach; the tutorial program; data files.
* Overflow of `int` anywhere: of clocks, tickets, IDs, stock and products.

Liveness is model-checked only, since it is out of the prover's reach.
