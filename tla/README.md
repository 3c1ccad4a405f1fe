# A verification project for the `el` library

`el` is a C++ base library for Windows and POSIX: threads and synchronisation,
handles, strings and buffers, sockets, HTTP, JSON-RPC, FastCGI and P2P clients
and servers, cryptography, and wrappers of databases, XML and the user
interface. This directory holds TLA+ models of the parts that have concurrent
or long-lived state, the TLC configurations that check them, and proofs that
TLAPS checks. `PROJECT.json` maps every definition to its source lines.

## Inventory

| Component | State | Operations | Hard behaviour | What makes it correct |
|---|---|---|---|---|
| `SafeHandle` (`libext/safehandle.*`) | a word with a reference count and the bits Closed and Disposed, the handle, ownership | AddRef, Release, Close, Attach, ThreadSafeAttach, Detach, destructor | lock-free, two words, any thread | no use after close, no double close, no leak |
| `shared_mutex` (`stl/shared_mutex.cpp`) | a mutex, an event, a counter | lock, unlock, lock_shared, unlock_shared and the try forms | the counter leaves the mutex's protection | exclusion, no lost wake-up, no starvation |
| `ThreadPool` (`libext/threader.cpp`) | queue, semaphore, current item and item to cancel of each thread | QueueUserWorkItem, Execute, Cancel, destructor | skipped releases, APC delivery, shutdown | every item is executed, the right item is cancelled |
| `thread_group`, `ThreadBase` (`libext/threader.cpp`) | set of threads, two counters, reference counts | Start, Create, the thread's thunk, StopChilds, StopChild | threads that start or end while the group is stopped | objects and group outlive their users; stopping returns |
| `PeerManager` (`inet/p2p-peers.*`) | map, pointer list, New and Tried buckets, dirty flag | Add, Good, Attempt, Select, OnPeriodic, ban | long sequences of calls, save racing Add | indexes agree, buckets bounded, nothing unsaved forgotten |
| `ListeningThread`, links of a net (`inet/p2p-net.cpp`, `p2p-peers.cpp`) | list of links, thread groups of the listener and of the net | Accept, AddLink, OnPeriodic, StopChilds | limits tested before links are in the list, migration between groups | limits hold, every running link is waited for |
| `Link` (`inet/p2p-net.cpp`) | socket, message buffer, send buffer, time stamps | Execute, SendBinary, Stop | a stream cut anywhere, writers in other threads, Stop at any time | whole messages, nothing lost or reordered, stopping ends the link |
| events (`libext/ext-os.cpp`) | pthread condition and flag | Set, Reset, lock | emulation of Windows events | no wake-up is lost, one waiter per signal |
| socket looper (`libext/sockets.cpp`) | two sockets and their directions | Loop | half-close in both directions, broken connections | the end is handed on after the data |
| JSON-RPC (`inet/json-rpc.cpp`) | table of requests, next id | Request, Call, Response, ServerLoop | answers out of order, twice or never | an answer finds its request once |
| LRU cache (`libext/lru.h`) | list and map, maximum | find, insert, erase | boundary of the capacity | list and map agree, the oldest is evicted |
| `Blob`, `String` (`libext/blob.cpp`, `libext/ext-string.cpp`) | shared buffers with a count and a narrow text | assignment, resize, SetAt, clear, c_str | copy on write, lock-free publication | a String keeps its text, c_str() stays valid |
| FastCGI (`inet/fastcgi.cpp`) | requests of a connection, input buffers | records, AbortRequest, underflow, Execute | producer and consumer threads, ids used again | input wakes its reader, entries are not lost |

Components interact as follows. A `ThreadBase` is a `SafeHandle`; its creator
and the new thread both attach the thread's handle (`ThreadSafeAttach`).
A thread is stopped by setting `m_bStop` and interrupting it; a blocking socket
call is interrupted by an APC that drops the reference of its handle access
(`Socket::ReleaseFromAPC`). Thread pool, links and listeners run in
`thread_group`s. Links report to the `PeerManager` of their net, whose periodic
call starts new links. Everything else calls the system.

The remaining parts are sequential value types or wrappers of other libraries;
`PROJECT.json` lists them with the reason they are left out.

## Modules

Every component has a module of its name. A step of a module is one section
under a lock, or one access to shared state outside any; local computation is
part of the step that follows the access. Bounds are the constants named
`Max...` and the finite sets of threads, objects and addresses.

| Module | Models | State and actions |
|---|---|---|
| `SafeHandle` | `libext/safehandle.cpp`, `.h` | `mState` is `m_aState` with a count modulo `RefMod` (2^30 in the code) and its two bits, `mHandle` is `m_aHandle`. One action per load, compare-and-swap, exchange and store. A user runs `BeginAccess`, `AddRefLoad`, `AddRefCas`, `CheckDisposed`, `LoadHandle`, the call, `EndAccess`, `ReleaseLoad`, `ReleaseCas`; a closer `DisposeLoad`, `DisposeCas`; whoever drops the last reference `ExchangeHandle`, `ReleaseHandle`. |
| `OwnedHandle` | | what a `SafeHandle` promises of its handles: who keeps each, which one calls use, who is in a call, and a close that was asked for. `SafeHandle` is mapped to it by `Place`, who keeps a handle, by `mHandle` while the word is not Closed, by `RefHolders`, and by the bit Disposed of a word that is not Closed |
| `SafeHandleInductive` | | the inductive invariant of `SafeHandle` |
| `SafeHandleProofs`, `SharedMutexProofs`, `ThreadPoolProofs`, `ThreadGroupProofs`, `PeerManagerProofs`, `LibraryServerProofs`, `LibraryLinkProofs`, `LibraryProofs` | | inductive invariants and proofs, see below |
| `SharedMutex` | `stl/shared_mutex.cpp`, `SharedMutexImp` | one action per mutex, counter and event operation |
| `WorkQueue`, `ThreadPool` | `libext/threader.cpp` 1030-1130, `libext/ext-thread.h` 485-575 | `WorkQueue` is what a pool promises of its items; `ThreadPool` has one action per shared access of `PoolThread::Execute` and `WorkItem::Cancel`, and is mapped to it by its queue, the items whose `m_bStop` is set, and `Stage`, how far a thread is with an item |
| `ThreadGroup` | `libext/threader.cpp`, `thread_group` and the life of a `ThreadBase` | `start` and `run` follow `Start()` and `CppThreadThunk()`; one action per locked section |
| `PeerManager` | `inet/p2p-peers.cpp`, `.h` | one action per section under `MtxPeers`; `Peer` objects are identities with owners, so that dangling pointers show |
| `Links` | `inet/p2p-net.cpp`, `p2p-peers.cpp`: the listener, `OnPeriodic()` and the groups | `link` holds the step of every `Link` object, `listed` is `Links`, `members` and `joining` are the threads of the two groups; one action per section under `MtxPeers`, `MtxNets` or a group's lock |
| `LinkLoop` | `inet/p2p-net.cpp` 77-385, one link | a byte is its place in a stream: `begin` has the places where the messages of the peer begin, `read` and `sent` say how far each stream is, `have` and `size` are `cbReceived` and the size of `blobMessage`, `data` is `DataToSend`; one action per call on the socket |
| `Event`, `PthreadEvent` | `libext/ext-os.cpp` 220-315 | `Event` is what an event promises; `PthreadEvent` is the emulation, one action per section under the mutex, mapped to it by `waits` |
| `SocketLooper` | `libext/sockets.cpp` 307-397 | the looper between two peers, data as counts of pieces; one action per system call |
| `RequestTable`, `JsonRpc`, `Lru` | `inet/json-rpc.cpp`, `libext/lru.h` | `RequestTable` is what the table of requests promises; `JsonRpc` has one action per access to the id, the table or a stream, and keeps its table with the operators of `Lru`, mapped by the reversed list |
| `StringBuf` | `libext/blob.cpp`, `libext/ext-string.cpp` | `buf` are the buffers with `m_aRef` and `m_apChar`, `narrow` the narrow texts; one action per access to either |
| `FastCgi` | `inet/fastcgi.cpp` | `conn` is the thread of `ServerConnection`, `cgi` the requests and their threads, `requests` the table; one action per locked section or access to a volatile member; the web server is the environment |
| `Library` | | the components that share no state with others, side by side: an instance each of `FastCgi`, `JsonRpc`, `PthreadEvent`, `SocketLooper`, `StringBuf`, `Links` and `LinkLoop`, the assumptions on their constants, and their properties |
| `MC...` | | symmetry and hash functions for TLC; `MCLibrary` adds nothing |

Definitions introduced by a comment "Mutant of" are wrong versions of the
definition that follows. They are not used by any specification; replacing the
definition by the mutant makes TLC report the property that `PROJECT.json`
pairs with it, which shows that the property depends on the code.

### What the models leave out

* `SafeHandle`: move, `swap` and `Duplicate` work on objects that no other
  thread sees. A spurious failure of `compare_exchange_weak` goes back to the
  load. Attach (not the thread-safe one) and Detach are not synchronised in the
  code; the model has one opening thread for such an object, as all its callers do
  (`ContractAssumption`), and lets Detach and the destructor run only when no
  thread is inside the object.
* `ThreadPool`: an item is queued once. `CancelIsNotMissed` needs a single
  canceller: a second `Cancel()` overwrites `m_wiToCancel`.
* `ThreadGroup`: suspended creation, `aRefCountActiveThreads`, and the fate of a
  thread that uses a destroyed group, which is undefined.
* `PeerManager`: times. `IsTerrible`, the oldest peer and `GetChance` choose any
  peer. Services, ports and `Attempts` are left out. `Good()` has no caller in the
  repository; the model calls it for the peer of an open link, which is what its
  name and its use of `LastTry` and `LastLive` suggest. `SavePeers` is a hook of the
  application and is taken to save what `GetAllPeers()` returns.

* `Links`: what a link does while it is listed (`LinkLoop`), and banned
  addresses. A link may end at any time, so the `Stop()` of `OnPeriodic()` for
  silent links adds nothing. One net.
* `LinkLoop`: line-based links, pings and the periodic calls, and the variant
  with a send thread. The idle test may drop a link at any time that the code
  could; only a link that was live recently is sure to pass it.
* `PthreadEvent`: the Windows and kernel variants, which are the system's.
* `SocketLooper`: what `ProcessSrc()` and `ProcessDest()` do to the data, beside
  their request to end. `GetTimeout()` and `NeedToCancel()` may end the loop at
  any time.
* `JsonRpc`: methods, parameters and results, and batches. `Lru` leaves out
  `SetMaxSize()` and copying, which nothing in the repository uses.
* `StringBuf`: lengths and characters; a text is a value. A String belongs to one
  thread, and another thread copies it only while it is at rest. Allocation does
  not fail.
* `FastCgi`: parameters, buffered output, the listener and the limits per client.
  One connection.

## Runs

| Run | Bounds | Shows |
|---|---|---|
| `handle_attach` | 2 users, 1 closer, 1 opener, 2 handles, 2 operations each | safety across Close, re-Attach, Detach and the APC release, and `ImplementsOwnedHandle`; 2 operations are enough for a thread to meet a handle and its successor |
| `handle_thread_safe_attach` | 1 user, 1 closer, 2 attachers, 2 handles | `NoHandleLeaks` in the race of two attaches and in the window between the two stores of `AfterAttach()`; `DisposedIsReleased` |
| `shared_mutex` | 4 threads, any number of calls | safety; two readers, a third and a writer are what the interleaving needs; no starvation of either side |
| `shared_mutex_exclusion` | 3 threads | **violation**: a reader and a writer are inside together |
| `thread_pool` | 2 workers, 3 items, 1 caller, 1 canceller | one item more than workers, so that a release is skipped; `ImplementsWorkQueue` |
| `thread_pool_live` | 2 workers, 3 items, the pool created by the caller and destroyed | service and shutdown |
| `thread_pool_singleton` | 2 callers | **violation**: two pools |
| `thread_group` | the owner and 2 threads that start each other, failing creation, timeouts | reference counts, life of the group, `StopChilds()` returns |
| `peer_table` | 3 addresses, 3 objects, 2 New buckets and 1 Tried bucket of size 1, 1 link | consistency of the indexes; every bucket overflows |
| `peer_new_bucket` | the same | **violation**: a New bucket grows past its maximum |
| `library` | see below | the components of `Library`, each on its own |
| `fastcgi_woken_reader` | 1 id, 2 requests, 1 input record | **violation**: a request takes a buffer that is not there |

The parts of `library` share no state, so its state space is the sum of theirs, not
the product: `part` chooses one in the initial state, and only it moves.

| Part | Bounds | Shows |
|---|---|---|
| `FastCgi` | 1 id, 2 requests that use it in turn, 1 input record each and its end, 1 record on the wire | `InputWakesReader`: the late `Set()` loses no wake-up; `EntryLostOnlyByReuse`: a live request loses its entry only to the end of the one that had its id |
| `JsonRpc` | 2 clients, 3 ids, a table of 2, 2 messages on a stream | `ImplementsRequestTable`: the table overflows, answers come in any order, twice or not at all |
| `PthreadEvent` | 3 threads, any number of calls, both kinds of event | `ImplementsEvent`, with the fairness of `Event` |
| `SocketLooper` | 2 pieces each way, 1 fits into a direction | `EndMeansAllForwarded`: every `Send()` can block, each peer can finish or break at any step |
| `StringBuf` | 2 strings, 2 buffers and the empty one, 1 text beside the empty one, 2 narrow texts | `TextIsOwn`, `NarrowIsValid`: a freed buffer or narrow text is allocated again; that `SetAt()` writes a text other than the one it finds is left to the theorems |
| `Links` | 3 subnets, at most 3 links (1 when groups are stopped), limits of 2 | `LimitsHoldUnlessOverlapped`, `StopWaitsForLinks`: limits are reached and passed |
| `LinkLoop` | 2 messages with a header of 2 and payloads of 0 or 1 bytes (`MaxPayload`), 3 bytes to send, `Replace()` modulo 2 | `StreamsAreWhole`: every cut of either stream, also a buffer that `Replace()` shortens; `StoppedLinkEnds` |

`CHECK_DEADLOCK FALSE` is used for the pool, `FastCgi` and `library`: a pool without
work and without a shutdown rests, a connection and a link end, bounded
environments fall silent. The other specifications have an explicit action for a
finished system, or never finish.

### The violations

* `shared_mutex_exclusion`: `unlock_shared()` decrements the counter to 0, a new
  reader counts itself in and resets the event, and the pending `Set()` of the
  first opens it: the next writer passes while the reader is inside.
  `ExclusiveUnlessOvertaken` shows that there is no other way.
* `thread_pool_singleton`: `Ensure()` is not synchronised; two threads that queue
  the first items both construct a pool, against the constructor's assertion.
* `peer_new_bucket`: `Good()` for a full Tried bucket pushes the oldest peer into
  its New bucket without looking at its size. `NewBucketsTheorem` shows that there is
  no other way.

* `fastcgi_woken_reader`: the empty STDIN record comes after `underflow()` has tested
  `Eof`. The wait ends, or does not begin, and `*m_pMemoryStream` is taken although
  it is null. The end is not needed: the connection sets the event after it has
  unlocked, and when the request has taken the buffer before that, the late `Set()` ends
  its next wait with nothing to take. An earlier version of the class, kept as a comment in `fastcgi.h`,
  tests `Eof` again after the wait.

`IndexesAgree` holds until a link reports `Good()` for a peer that `Shrink()` has
dropped meanwhile. From there on there may be two objects for an address, and
`VecRandom` may keep a pointer to a freed one: TLC reaches such a state
when the condition is taken out of the property.

### Fairness

* `SafeHandle`: weak fairness of a thread inside an operation; its system call
  returns or is aborted. No operation has to be started.
* `SharedMutex`: weak fairness of threads inside the lock (they also leave it), and
  strong fairness of taking the mutex: system mutexes hand over to waiters, and the
  code relies on it.
* `ThreadPool`: threads are scheduled and items end. Callers that have begun to
  queue go on.
* `ThreadGroup`: threads are scheduled, and an interrupted thread comes to an
  interruption point. A thread that was not interrupted may run for ever.

* `PthreadEvent`: a thread that waits for the mutex gets it. `Event` then promises
  that every waiter of a manual event that stays signaled passes, and some waiter
  of the other kind.
* `LinkLoop`: weak fairness of the thread: a call that does not block returns, and
  `select()` returns by its time-out. Nothing is assumed of the peer.

### Noted without a property

* `PeerManager`: `OnPeriodic()` returns early while the list is full and does not
  come to its save (`p2p-peers.cpp:262`); it stops incoming links that have not yet
  sent a message (257).
* `LinkLoop`: the temporary `Peer` of an incoming link has never been live, so the
  first wake-up without a complete message drops the link (`p2p-net.cpp:340`); with a
  header as long as the magic number the first `Receive()` has no room and returns 0
  (295).
* `FastCgi`: a block of input that begins with the byte 0xFF reads as the end of the
  stream (`fastcgi.cpp:191`); a request without `KeepConn` shuts down the connection of
  the others (218).
* `Lru`: the cache holds one element less than its maximum, and a maximum below 2
  takes the last of an empty list (`lru.h:120`).
* `SafeHandle`: `AfterAttach()` opens the word before it stores `m_bOwn`
  (`safehandle.cpp:196`); all callers keep the default.
* `ThreadPool`: a full semaphore makes `QueueUserWorkItem()` throw although the item
  is queued and will run (`threader.cpp:1127`).
* `SocketLooper`: two peers that both write and do not read stop it
  (`sockets.cpp:347`). `StringBuf`: two first Strings create two empty buffers
  (`blob.cpp:109`); `SetAt()` frees the narrow text before it writes
  (`ext-string.cpp:313`), so one that a sharer's `c_str()` publishes in between keeps
  the old text. The history `mixed` takes such a buffer out of `NarrowIsValid`.

## Proofs

A theorem holds for every value of the constants, a run for one small instance.
Every proof follows one plan. The properties are not inductive, so each module
defines an `IInv` that adds what they depend on; one lemma per action shows that
the action keeps `IInv`, `InductiveInvariant` collects the lemmas, and every other
theorem is a consequence of it. In `Library` the parts have an invariant each
(`CgiInv`, `RpcInv`, `EventInv`, `LooperInv`, `StrInv`, `NetInv`, `LinkInv`), and a
step of one part leaves the others alone. The assumptions are the `ASSUME`s of the
modules, which TLC evaluates; those of the parts of `Library` are stated there.
The bounds named `Max...` are arbitrary numbers in the proofs.

| Module | Proved | What `IInv` adds, and why | Assumed |
|---|---|---|---|
| `SafeHandleProofs` | `TypeOK`, `HandleInUseIsOpen`, `ReleasedAtMostOnce`, `NoHandleLeaks`, `RefCountIsExact`, `ImplementsOwnedHandle` | `Frames`, `Roles`: what a thread holds at each step. `Opening`: at most one thread is about to empty or to open the object, and only while the word is Closed. `Custody`: an opened handle is in one place. `Lifetime`: what detaching leaves. That a handle in use is open rests on the count being exact, and that on who is between the steps of `Release()` and `Attach()`; the compare-and-swap steps use lemmas about the cardinality of the set of reference holders. For `ImplementsOwnedHandle` every step is mapped: a successful compare-and-swap of `AddRef()` enters, one of `Release()` leaves or asks for the close, `AttachStore` and `ThreadSafeAttach` store (the loser closes), `AfterAttach` publishes, `ExchangeHandle` takes, `ReleaseHandle` closes, `Detach` and the destructor empty, and all others stutter. That the word becomes Closed exactly when the last call of a disposed object leaves is `RefCountIsExact`; that only an object without calls is published is `Opening`. | fewer threads than the count can hold (`ThreadsAssumption`), special values are not handles (`HandlesAssumption`), one opening thread with the unsynchronised `Attach()` (`ContractAssumption`) |
| `SharedMutexProofs` | `TypeOK`, `ExclusiveUnlessOvertaken`, `NoLostWakeup`; `ReadersExcludeWriters` under a premise | who owns the mutex, that the counter is the number of counted readers, and that until a reader is overtaken the event tells the truth. A single sharer is never overtaken: who counts itself in would be who has to set the event | finitely many threads; one thread at a time that reads (`OneSharer`) for `ReadersExcludeWriters`, which fails without (`shared_mutex_exclusion`) |
| `ThreadPoolProofs` | `TypeOK`, `NoStrandedItem`, `OnlyCancelledAreTold`, `ImplementsWorkQueue`; `CancelIsNotMissed` and `PoolIsSingleton` under a premise | `SomebodyLooks`: while an item is queued there is a permit, or a thread that has not yet found the queue empty; this is why a skipped release is harmless. `OnePlace`: an item is with its caller, in the queue or with one thread. `ExecutingIsRight`: `ExecutingThread` names that thread, or one that had the item. `Told`, `StopIsCancel`: whoever is named for cancellation has been cancelled. `Cancelling` follows one canceller through `Cancel()`. For `ImplementsWorkQueue` every step of the pool is mapped: `Push` submits, `Pop` takes the head, `CancelStop` cancels, `TestStop` begins the item or drops it, `Finish` ends it, and all others stutter, because `OnePlace` leaves an item with one thread. | roles are disjoint (`ThreadPoolAssumption`); one canceller (`SingleCanceller`) for `CancelIsNotMissed`; a pool that is created before its callers run (`StartsUp`) for `PoolIsSingleton`, which fails without (`thread_pool_singleton`) |
| `ThreadGroupProofs` | `TypeOK`, `RefsExact`, `DestroyedGroupIsUnused`, `FinalWhenIdle` | which steps of starter and thread can meet (`Life`), which threads the group lists (`Lists`, `StopsKnown`, `InsideIsListed`), and that `m_aRef` of the group is the number of threads that have counted themselves in (`ExtRefExact`) | finitely many threads |
| `PeerManagerProofs` | `TypeOK`, `PlacedOnce`, `UnsavedIsDirty`, `IndexesAgree`, the bound of the Tried buckets; `NewBucketsAreBounded` under a premise | `OwnedInUse`: what a `ptr<>` points to is in use and entered under its own address only. `KnownIsListed`: `GetAllPeers()` misses no known peer. `FlagStands`: an `Add()` that has set the flag can rely on it unless a save overtakes it. `TriedFit`, `NewFit`: buckets are finite and within their sizes, because `Shrink()` removes one peer of a full bucket before `Add()` enters one. | sizes are positive, hashes are natural numbers; no `Good()` meets a full Tried bucket (`Evicts`) for `NewBucketsAreBounded`, which fails without (`peer_new_bucket`) |
| `LibraryServerProofs`, `FastCgi` | `InputWakesReader`, `EntryLostOnlyByReuse` | `CgiWaking`: while a request has input it has not taken, its event is set or the connection is about to set it, and likewise at the end if the request waits. `CgiEntries`: an id has one request that has not ended, because the web server saw the last one end before it sent the next `BEGIN_REQUEST`, of which there is one on the wire at most; a request whose predecessor has still to erase the entry is marked `early`. | `None` is no request (`CgiAssumption`) |
| `LibraryServerProofs`, `JsonRpc` | `ImplementsRequestTable` | `RpcPrepared`: ids that were given out and not yet asked differ from each other and are not in the table; `RpcKnown`: nor is an id that was matched. Then inserting, matching and evicting in the `Lru` list are the steps of `RequestTable` on the reversed list, which lemmas about `Lru` on lists without repetitions show. | a cache of 2 at least (`RpcAssumption`): see `lru.h:120` above |
| `LibraryLinkProofs`, `Links` | `StopWaitsForLinks`, `LimitsHoldUnlessOverlapped` | `NetToldIsHeld`: the group that told a link to stop has it in `m_threads` until it joins, because a link that was told does not leave; `NetJoiningIsLocal`: nothing is left from an earlier join. `NetLimits`: links on their way count against the limits like those in the list, so that the test of the listener is still true when its link enters the list. | positive limits, a subnet (`NetAssumption`) |
| `LibraryLinkProofs`, `LinkLoop` | `StreamsAreWhole` | `LinkReceived`: the buffer begins where a message begins, and has the size of the header, or of the message once its header was read; messages have lengths of their own, and that they lie one behind the other in the stream is shown by the least place where they would not. `LinkSending`: what the socket has taken and what waits are together what was queued, until `Replace()` cuts it. | a header that is not empty and not shorter than the magic number (`LinkAssumption`) |
| `LibraryProofs`, `SocketLooper` | `EndMeansAllForwarded` | `LooperConserved`: what a peer has read, what waits for it, what the looper has in hand and what waits for the looper is what was sent, as long as no connection breaks. `LooperWriteEndShut`: when the writing end is shut, none of it is left before that end. `LooperReadEndShut`: the looper shuts a reading end only after the other connection broke. | bounds are natural numbers (`LooperAssumption`) |
| `LibraryProofs`, `StringBuf` | `TextIsOwn`, `NarrowIsValid` | `StrCounted`: `m_aRef` is the number of Strings that refer to a buffer, so none of them refers to a freed one. `StrTexts`, `StrPublished`, `StrMade`: buffer, published narrow text and the one that a thread has made say the same, unless `SetAt()` wrote a shared buffer. `StrUnshared`: a narrow text has one place, so that who frees it takes it from nobody. `StrHeld`: what `c_str()` returned is published until a sharer's `MakeDirty()`. | finitely many Strings, special values are no texts (`StrAssumption`) |
| `LibraryProofs`, `PthreadEvent` | `EmulatesEvent`: the initial states and steps of `PthreadEvent` are those of `Event`, or stutter | `EventTimedOnly`: who timed out had asked for a timeout, and a thread outside `lock()` has none left over | |
| `LibraryProofs` | `TypeOK` of all parts | the invariants above; with them, that counts stay counts and places stay inside the streams | all of these |

No proof needs induction over data: that the messages of a stream lie one behind the
other is shown by the least place where they would not, and the lists of `Lru` by
lemmas that say what pushing and removing leave at each place.

What TLC alone shows:

* liveness (`DisposedIsReleased`, `WriterEnters`, `ReaderEnters`, `ItemsAreServed`,
  `ShutdownEnds`, `StopReturns`, `StoppedLinkEnds`, and the fairness in
  `ImplementsEvent`), which needs ENABLED;
* the four violations, which are counterexamples of one instance. Three of the
  properties they refute are proved under the premise that the counterexample breaks
  (`OneSharerTheorem`, `SingletonWhenCreatedFirst`, `NewBucketsTheorem`).

Every invariant and every safety refinement that a passing run checks is proved;
`CancelIsNotMissed` under the premise of one canceller: with two, TLC finds that the
second overwrites `m_wiToCancel`.


## Not modelled

Most of the repository is sequential value types and wrappers of other libraries and
of the system: strings and numbers, dates, streams, files, cryptography, databases,
XML, COM, graphics and the replacement of the C and C++ libraries. They have no
protocol state, and a model of them would repeat the code. `PROJECT.json` names every
component with the reason. The modelled lines are therefore a small share of the
repository, and most of those where threads or peers meet.

## Plan

1. Models: the pool of HTTP handles and the handshakes of the proxy clients; the
   Bloom filter and the Merkle tree as functions checked against their definitions;
   several connections in `FastCgi`.
2. Abstract specifications: a reader-writer lock for `SharedMutex`, refined until a
   reader is overtaken; `OwnedHandle` for `SafeHandle`, `WorkQueue` for
   `ThreadPool`, `RequestTable` for `JsonRpc` and `Event` for `PthreadEvent` are there.
3. Proofs: the invariants of `Library` are done. What is left is to state the lemmas
   about `Lru` for several tables, and the proofs of what the first two points add.
