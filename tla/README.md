# z3_engine: TLA+ specifications

z3_engine is a small Windows library for asynchronous network I/O on a
completion port, with an RTSP client on top of it and a C utility library
underneath. This directory holds TLA+ models of its concurrent core, of the RTSP
client (session, messages, SDP, media, RTP reception, ports) and of the utility
library (trace shipper, list, tracking allocator), the TLC runs that check them
and the TLAPS proofs about them.
`PROJECT.json` lists every mapped definition with the source lines it models.

## 1. The system

| Component | State it keeps | Operations | Where it is hard |
|---|---|---|---|
| `AsyncQueue` (`z3_engine/z3_async_queue.hpp`) | `std::queue`, mutex, manual-reset event | `Push`, `Signal`, `WaitForEV`, `Pop` | `Signal` sets the event outside the mutex while `WaitForEV` resets it |
| `Engine` (`z3_engine.cpp`) | completion port, event queue, IOCP thread | `Start`, `Stop`, `Attach`, `PostCompletionStatus`, `RunOnce`, `Dispatch` | shutdown with completions still queued |
| `Executor`, `ExecutorPool` | thread, quit flag | `Init`, `Uninit`, `RunOnce` | several executors work on one object; `FreeZ3Ovl` runs after the unlock |
| `IOCPObj`, `IOEndpoint`, `SocketObj`, `Connector` | socket, `m_bStarted`, closed event, lock, reference count, overlapped blocks | `Start`, `Stop`, `OnStart`, `OnStop`, `OnConnect`, `OnEvRead`, `OnEvWrite`, `Close`, `Notify`, `AllocZ3Ovl`, `FreeZ3Ovl` | lifetime of blocks and of the object; refused operations |
| `TimerEngine`, `TimerObj` | timer queue, one timer per block | `CreateTimer`, `DeleteTimer`, `TimerCallBack` | a timeout races with the completion it guards; lock order |
| `Client`, `TestClient`, `RtspClient` | notification queue, engine, pool, sessions | `RunOnce`, `OnNotify`, `OnThreadStop`, `OnClientStop` | waits without a timeout; deletes objects executors may use |
| `Thread`, `RefObj`, `AsyncObj`, `Lock` | thread handle, events, counts, lazily created mutex | `Start`, `Stop`, `AddRef`, `Release`, `On`, `Off` | start handshake; first use of the lock |
| trace shipper (`z3_utilib/z3_trace.c`) | list of lines, quit flag, mutex and event or condition variable | `shipping`, `thread_func`, `stop_truck` | lost wakeups, lines lost at exit |
| `Bitmap`, `PortsCtl`, `MediaPorts` | bitmap, two counters, next port | `GetOne`, `GetTwo`, `PutOne`, `PutTwo`, `SetReserved` | search with marking and unmarking; unsigned loop bound |
| `RtspSession`, `RtspProtoParser` | request state, CSeq, parser state | one request after another, incremental parsing | split or joined responses; refusals |
| `RtspMsg` (`z3_rtsp_msg.cpp`) | message object, header array that grows once, heap values, body size | `InitRequest`, `InitResponse`, `InitData`, `AddHeader`, `RemoveHeader`, `SetBodySize`, `ToString` | ownership of values across growth and removal; the array at its limit |
| `SDPMessage` (`z3_sdp.cpp`) | tree of heap objects, parse context | `ParseString`, `ParseLine`, setters, `GetAttributeValue`, destructors | a line's meaning depends on the lines before it; who frees what |
| `UDPSession`, RTP session, H.264 frame | socket, one receive buffer, frame position | `Init`, `StartRead`, `OnEvRead`, `Parse`, `FillData` | the kernel writes into the buffer that is parsed; timeouts |
| `RtspMedia`, `MediaSession` | ports, two UDP sessions per track | `Init`, `CreateMediaSession`, destructors | a failure after each step, with sessions already receiving |
| RTCP session and algorithms | member table, statistics, report timer | `Dispatch`, `OnReceive`, `OnExpire` | not modelled, see section 6 |
| `z3_alloc`, `z3_list`, `z3_hash` | tracking list, links, buckets, statistics | allocate, reallocate, free, insert, remove, final report | pieces outside the mutex; failed `realloc`; pointer surgery |

How they interact: an object's handler allocates an overlapped block, arms a
timer and passes the block to the kernel. The kernel posts it to the completion
port, the IOCP thread moves it to the event queue, an executor takes it, locks
the object, deletes the timer, runs the handler, unlocks the object and frees
the block. A handler that fails notifies the client thread through a second
`AsyncQueue`; the client thread may stop and delete the object. A timer that
expires runs on a thread of the Windows timer queue, locks the same object and
cancels the operation.

What makes the parts correct:

- queue: each element is received once, in order, and no wakeup is lost;
- engine: each completion is handled once, no callback or executor touches freed
  memory, every wait ends, the shutdown terminates;
- trace shipper: each line is printed once and in order, `stop_truck` returns;
- port allocator: no port has two holders, none leaks, the counters are exact,
  and every call returns;
- RTSP session: requests go out in the protocol's order, each only after the one
  before was answered, no handler is entered in a state it asserts against, and
  a proper response always leads on;
- messages and SDP: headers and lines are where they were put, in their order,
  and every heap block has one owner that frees it;
- UDP and media: an open session always has its next read, a received frame fits,
  a media session in use is complete, and no read outlives its UDP session;
- utilities: a list is the sequence its calls describe, and the allocator knows
  exactly the blocks that are allocated.

## 2. Modules

| Module | Models | How |
|---|---|---|
| `EventQueue` | what the users of the queue rely on | abstract FIFO: `Put`, weakly fair `Take` |
| `AsyncQueue` | `z3_async_queue.hpp` | one step per kernel call; `queue`, `event`, `mutex` are the three members, `received` is history; the callers are producers (`Push` then `Signal`), consumers (`WaitForEV`) and drainers (`Pop`) |
| `AsyncQueueProofs` | | proofs about `AsyncQueue` |
| `IoEngine` | `Engine`, `Executor`, the connector classes, timers, client thread | one connector object; `st[o]` says where block `o` is, `timer[o]` the state of its timer, `xpc`/`xovl` the step and block of each executor, `cpc` the step of the client thread, `phase` the shutdown |
| `IoEngineProofs` | | proofs about `IoEngine` |
| `TraceTruck` | the list and the quit flag of `z3_trace.c` | shared by the two builds |
| `TraceTruckWin`, `TraceTruckPosix` | `shipping`, `thread_func`, `stop_truck` | one step per lock, wait and signal, for the Win32 and the pthread code |
| `TraceBuilds` | | composes the two: a behaviour is one of either build |
| `TraceTruckProofs` | | proofs about both builds |
| `PortsCtl` | `z3_media_ports.cpp` | one step is one iteration of `GetOne`'s loop with what `GetTwo` does to the port; `singles`, `pairs`, `excluded`, `stray` are history |
| `PortsCtlProofs` | | proofs about `PortsCtl` |
| `RtspSession` | `RtspSession`, `RtspProtoParser`, the track counters of `RtspMedia` | one iteration of `Parse`'s loop is one step, one handler is one step; the server and TCP are external; `sent` and `cause` are history |
| `RtspSessionProofs` | | proofs about `RtspSession` |
| `Z3List` | `z3_list.c` | the functions as operators from a heap of nodes and a list to a new heap and list; used by `ListCalls` and `Alloc` |
| `ListCalls` | callers of `z3_list.c` | two lists under any calls, `seqs` is the pair of sequences they stand for |
| `Alloc` | `z3_alloc.c`, `z3_hash.c` | one step per piece of a call outside the mutex and per critical section; `allocBuild` chooses the list or the hash table |
| `UtilProofs` | | proofs about `ListCalls` (with `Z3List`) and `Alloc` |
| `RtspMsg` | `z3_rtsp_msg.cpp` | a request and a response under any order of the calls; `blocks` counts an array's heap blocks, `wanted` and `damaged` are history |
| `Sdp` | `z3_sdp.cpp` | one step per line; an object is the number of the line it was made for, `sdpHeap` the objects allocated |
| `MessageProofs` | | proofs about `RtspMsg` and `Sdp` |
| `UdpRtp` | `z3_udp_session.cpp`, `z3_rtp_udp_session.cpp`, `z3_h264_frame.cpp` | steps end where the kernel can change the buffer: after the next read is started and between two looks of the parser |
| `MediaTracks` | `z3_rtsp_media.cpp` | one step per fallible step of `MediaSession::Init`, next to the UDP sessions that already receive, on executors that unlock and free in steps of their own |
| `MediaProofs` | | proofs about `UdpRtp` and `MediaTracks` |
| `MC*` | | instances for TLC; `MCParts` composes the seven parts that share no state: a behaviour follows one of them |

Definitions keep the names of the source. Operators introduced by a comment
`Fault:` are variants of the definition that follows them, with one plausible
mistake in it (a dropped guard, a missing signal, a swapped order). They are not
part of any specification; substituting one for its original shows that the
property it belongs to can fail.

Notes on the correspondence:

- **AsyncQueue.** `WaitForMultipleObjects` on mutex and event is one atomic step
  (`WaitBoth`), as Windows guarantees. A timeout of `WaitForEV` changes nothing
  and its caller's loop calls again, so it is a stuttering step.
- **IoEngine.** `class` chooses between the `Connection` of `z3_engine_test` and
  the `RtspSession`; the two differ in `OnConnect`, in what the client does with
  a notification, and in who releases the object. The kernel is external: an
  operation may complete with any outcome while the socket is open and fails
  once it is closed. `Push` and `Signal` on the event queue are one step here,
  which `AsyncQueue` and its refinement justify. The notification of a
  successful connect does not exist in the code; only errors notify.
  `SetDestination` rejects port 0, so `OnStart` always tries to connect. The
  contents of messages are abstracted to "a request follows, with or without a
  read, or nothing does". A timer may expire only after its block has been
  filled in: the timeouts in use are seconds long. System calls may fail:
  `CreateTimerQueueTimer` (the block goes out with the timer `"null"`, because
  `AddTimer` compares `NULL` with `INVALID_HANDLE_VALUE`), the `CreateEvent` of
  `DeleteTimer` (the timer stays armed and `RunOnce` does not notice, `undeleted`),
  `PostQueuedCompletionStatus` and `closesocket`. `failures` counts the steps in
  which one does, up to the bound `MaxFailures`. `CancelTimer` is the part of the
  cancellation up to `CreateEvent`, `DeleteTimer` the rest, which waits. A callback
  that finds its block freed may cancel the operation of any block, or nothing.
- **TraceTruck.** The last mutex wait of the Windows `thread_func` has a timeout
  of 20 ms (`z3_trace.c:160`). After it the code asserts, or in a release build goes
  on to print and free the list without the mutex. The model lets the wait succeed:
  the timeout takes another thread that keeps the mutex for 20 ms, and what two
  threads then do to the list is undefined.
- **PortsCtl.** `GetTwo`'s immediate refusal leaves the state as it was and is a
  stuttering step. `PutOne` and `PutTwo` are called for granted ports only, the
  contract of their names; nothing in the repository calls them yet. A call with a
  port outside the range would unlock twice (`z3_media_ports.cpp:221-228`); it is
  outside the contract and left out. The value of the entry behind the bitmap
  (`stray`) is an arbitrary choice in `Init`. It is heap memory that `Bitmap` does
  not own, so its owner could also change it later; the model has no such step, and
  `MarkedIsHeld`, `NoSharedPort` and `CountsExact` are claims about an entry that
  only the allocator writes.
- **RtspSession.** Everything runs under the object's lock in
  `Connector::OnEvRead`, so only the server and the network interleave with it. A
  response is a sequence of lines; each line travels as its text, its `\r` and its
  `\n`, and a body in two parts, and a read may end between any two of them. A
  read that is not exactly one response puts `"split"` into `cause`. `msg` is the
  set of lines parsed. `stale` says that unreplaced line ends of an earlier
  message lie behind the bytes received: `strchr` does not stop at `m_nBufBytes`,
  and what it finds there is a nondeterministic choice (`ParseStale`). Memory,
  writes, reads and `MediaSession::Init` may fail (`"local"`). Interleaved `$` data,
  which the session never asks for, and the limit of the parser's buffer are left
  out.
- **Z3List, Alloc.** A node's address is `calloc`'s choice; one that is free is
  taken, which no operation looks at. Dereferencing a freed node or `NULL` has no
  value, so TLC would stop there. The only node of a list cannot be given to
  `z3_list_remove_link` (`Unlinkable`): line 170 dereferences `NULL`, so that call
  has no result to describe. No caller in the repository makes it.
  `_z3_malloc` is a step that obtains a block, the critical section `Track` and,
  in the list build, the trace outside the mutex; `_z3_calloc` and the second half
  of `_z3_realloc` have the same pieces. The C library's `malloc` and `realloc` may
  fail; `calloc` of a node is taken to succeed. The counters have range
  `UIntRange` (2^32 in the code).
- **RtspMsg.** The array has 8 and 16 slots in the code, 2 and 3 here; nothing
  depends on the values. `InitData` leaves `m_pMsgObj` unset, as the code does.
  An assertion or a `NULL` dereference ends the behaviour (`msgFault`). A slot
  that was emptied has a `NULL` value; when the array grows, `operator=` gives its
  copy the empty in-place string instead (`CopyOf`).
- **Sdp.** `z3_strdup` returns `NULL` for an empty string and
  the setters then call `strlen(NULL)`: such a line ends the behaviour
  (`"crashed"`).
- **UdpRtp.** All of `OnEvRead` runs under the object's lock, which neither the
  kernel nor the start of a timer needs. `bNalBegin` is not assigned for STAP
  packets, so either value is possible. `AsyncUDPRead` passes uninitialised flags
  to `WSARecvFrom`, one more reason for which a read may fail to start. A packet has
  the length of the RTP header it announces (`header`) and its size, which may be
  smaller; `Parse` reads the header length from the buffer after the next read has
  zeroed or refilled it. The payload size, the size of the data and the sum that
  `FillData` tests are unsigned and wrap at `SizeRange`, 2^32 in a Win32 build. A
  copy that the wrapped sum lets through although it is larger than the rest of the
  frame ends the behaviour (`"overrun"`). `Close` may fail.
- **MediaTracks.** The block of a read holds no reference of its session, so the
  release by `~MediaSession` deletes it; `~SocketObj` then asserts that the
  socket is closed, and only the handler of a failed read closes it. The executor
  still has to unlock the session and free the block (`hand`, `locks`); a deletion
  in between makes it use a deleted object (`"use_deleted"`, which ends the
  behaviour). `StartRead`, whose success `OnEvRead` asserts, and `Close` may fail.
  Waiting for the session's lock is part of `notified`. Timeouts of the reads are in
  `UdpRtp`.

## 3. Runs

| Run | Instance | Checks |
|---|---|---|
| `AsyncQueue_queue` | 2 producers of 2 elements, 2 consumers, 1 drainer | `TypeOK`, the inductive invariant `IInv`, `NoLostWakeup`, the refinement `EventQueueSpec` with its liveness, and `SpuriousWakeupEnds` |
| `IoEngine_safety` | both classes, 2 executors, 5 blocks and 1 failing call, or a session with 6 blocks and none (`BoundedSpec`) | `OnePlace`, `CallbackSeesLiveBlock`, `OneReceiver`, `StopFindsStarted`, `NotificationKeepsObject`, `SessionOutlivesExecutors`, `SocketClosedBeforeDelete` |
| `IoEngine_live` | both classes, 1 executor, 5 blocks, 1 failing call | `HandledUnlessLost`, `ClientWaitEnds`, `ShutdownEnds` |
| `IoEngine_deadlock` | connection, 1 executor, 3 blocks | `CompletionHandled`, **violated** |
| `IoEngine_delete` | connection, 1 executor, 3 blocks | `NoUseAfterFree`, **violated** |
| `Parts_safety` | the seven parts of `MCParts` | trace shipper: `TypeOK`, `PrintedInOrder`, `ExitPrintsAll`; list: `ListIsSequence`; allocator: `TrackedExactly`, `OccupiedExact`, `LeaksReported`; messages: `HeadersKept`, `ValuesOwned`; SDP: `LinesBelong`, `DeleteFreesAll`; UDP: `KeepsReceiving`; media: `MediaComplete` |
| `Parts_frame` | the UDP part, one frame per packet | `FrameFits`, **violated** |
| `TraceTruck_quit` | Windows build | `StopReturns`, **violated** |
| `PortsCtl_calls` | ports 4..10 | `PairsAligned`, `NoSharedPort`, `MarkedIsHeld`, `CountsExact`, `OrdinaryCallReturns` |
| `PortsCtl_search` | ports 4..8 | `CallReturns`, **violated** |
| `RtspSession_session` | up to 2 tracks, 1 repeated response | `RequestsInOrder`, `OnlyAnswered`, `DescribeFindsNoMedia`, `AnswerLeadsOn` |
| `RtspSession_split` | 1 track | `WaitsForRest`, **violated** |

What the violated ones show:

- `IoEngine_deadlock`: `Executor::RunOnce` holds the object's lock and calls
  `DeleteTimer`, which waits for a callback that has already started; that
  callback waits for the lock. Both wait for ever, although a comment in
  `z3_io_endpoint.cpp:77` says that the I/O event can still be handled.
- `IoEngine_delete`: `Close` sets the closed event inside the handler; the client
  thread then drops both references and deletes the object, while the executor
  still has to call `Unlock` and `FreeZ3Ovl` on it.
- `TraceTruck_quit`: the truck releases the mutex and then resets the event; a
  `SetEvent` of `stop_truck` in between is erased and the join never returns. The
  pthread build has the same effect by other means: `pthread_cond_wait` is called
  without testing `quit`, so a signal sent while the thread does not wait is lost
  (`StopReturns` with `Builds = {"POSIX"}` fails too).
- `PortsCtl_search`: if enough ports are free but no even port has a free odd
  neighbour, `GetTwo` searches for ever with the lock held. It takes single or
  reserved ports to get there; `OrdinaryCallReturns` shows that with pairs only
  every call returns. `GetOne` has the same trap if the entry behind the bitmap
  happens to be set.
- `Parts_frame`: `OnEvRead` starts the next read before it parses what it
  received ("before the frame is handled, go on reading, for performance"), and
  the read zeroes and refills the one buffer. The parser sees zeros or the next
  datagram; the marker of the packet is missed, the frame is never completed, and
  the assertion in `H264Frame::FillData` fails although each frame sent fits.
- `RtspSession_split`: `Parse` returns `Z3_RTSP_EINTR` for a response that was cut,
  "continue to wait for more bytes coming"; `OnEvRead` starts no read after it,
  nobody is notified, and the session is silent from then on. The same happens
  after every refused response. A response cut exactly behind a line is not
  even noticed: the last result was `Z3_EOK`, so the message counts as complete,
  without its remaining headers or its body.

`IoEngine_live` shows what else can stop the engine, and that nothing more can. Its
properties hold unless an executor or the process is lost (`ExecutorLost`): to the
timer deadlock, to the use of a deleted object, to the deletion of a `NULL` timer,
which a debug build asserts against and a release build repeats for ever with the
object locked (`NullTimerDelete`), or to the callback of a timer that could not be
deleted (`StrayCallback`). The client's wait for the close also ends unless `Stop`
could not post its event or its handler could not close the socket (`StopFailed`):
both results are ignored, and the wait has no timeout.

**Bounds.** Five blocks are a START, a CONNECT, a request, a read and one more
(a STOP, a continued write or a second request); the sixth block of a session is
the read that follows the second request, the first moment at which there are two
reads. One failing call is enough for each of the failures and for what follows
from it; two executors are what it takes
for two events of one object to be handled out of order. Two elements per producer let a second push meet the
reset of the first. Seven ports from even to even are two pairs, a port between
and the odd-man-out at the end, the shape of the default range 20000..30000.
Two tracks are a SETUP answered while another is to come; a response has at most
six lines, of each kind the session looks at. Two tracers of two lines let a line
arrive in every step of the truck. Four nodes in two lists let an operation meet a
first, a middle, a last and an only node, and concatenate. Two threads, three
blocks, two of them with one hash key, and four calls let two reallocations and a
free overlap; a counter range of 8 wraps after two blocks. Four headers fill the
small array, grow it, fill the large one and are refused. Four lines of a
description are two media with a line each, or a repeated line in both
contexts. Five datagrams against a frame of 14 bytes, the room of three payloads
with a start code in between, let frames complete and overflow; among them are ones
shorter than the RTP header, than the header they announce and than the header of
their NAL, and a `SizeRange` of 256 lets their sizes wrap. Two tracks let the second
one fail while the first receives, and two executors let one handle a read of a
session while another still has to free the block of the read before. The
number of blocks is a bound of the model only: every handler keeps an
alternative that issues nothing, so the bound never blocks an executor.

**Deadlock checking** is off in the queue, engine, parts and session runs, whose
systems really may stop: producers and callers reach their bound, the client has
quit, a description was deleted, the
session has given up or plays, and the deadlock of `IoEngine_deadlock` is itself part of the model. In `PortsCtl` it is
on.

**Fairness.** Threads that can run are scheduled (weak fairness for the IOCP
thread, each executor, the client thread, each timer callback, the truck). Armed
timers expire. The kernel completes an operation that was cancelled or whose
socket was closed, as Windows does. What the server has sent arrives. Nothing obliges the peer to answer, the
application to start, push, trace, drain, ask for a port or quit, so those
actions have no fairness; neither has a spurious wakeup.

## 4. Proofs

Eight modules hold theorems, each for every value of the constants that its
assumptions allow. Every proof of an invariant has the same shape: an inductive
invariant, stated in layers where it is large, one lemma per action, and the
properties of the runs as consequences.

`AsyncQueueProofs`, from `ThreadsAssumption` (the three kinds of threads are
disjoint, the bound is a natural number):

- `Invariance`: `IInv` is inductive. `NoLostWakeup` alone is not: a reset could
  hit a non-empty queue. It needs `ResetOnlyWhenEmpty`, which needs the mutex to
  be held from the emptiness test to the reset (`MutexOwner`), which needs to
  know which steps each kind of thread takes (`Roles`).
- `NoWakeupIsLost`, `TypeCorrect`: consequences.
- `Refinement`: every step is a step of the abstract FIFO `EventQueue` or leaves
  it unchanged (`Spec => EQ!Safety`).

`IoEngineProofs`, from `EngineAssumption`, for any number of executors and blocks.
The invariant has six layers, each inductive on top of the ones before it:

- `Base`: the types; an executor between `LockObj` and `Unlock` owns the object's
  lock, and then the object exists; an executor has a block in hand except while it
  waits; the object exists as long as it is referenced; the engine stops after its
  executors and the client last.
- `Places`: `OnePlace`, and a block that is not allocated yet is nowhere.
- `Timers`: `CallbackSeesLiveBlock`, and from its handler on a block's timer is
  neither armed nor in its callback, unless its `CancelTimer` failed: `DeleteTimer`
  waits for a callback that has started, at the price of the deadlock in
  `IoEngine_deadlock`.
- `Token`: at most one START, CONNECT or READ of an object is still to be handled,
  whatever number of writes is: the handler that takes it is the only one that
  issues the next. `OneReceiver` follows.
- `Session`: the references of an RTSP session are the client's, one per queued
  notification and one for the notification in hand. `SessionOutlivesExecutors`
  follows.
- `Story`: the life of a connection (not started, start failed, connecting,
  stopping), with its blocks, its socket, its references and what the client thread
  and the notification queue hold of it in each.
  `StopFindsStarted`, `NotificationKeepsObject` and `SocketClosedBeforeDelete`
  follow.

`TraceTruckProofs`, from `TruckAssumption`, for both builds at once and any number of
tracers and lines: `IInv` says who holds the mutex in which step (`MutexHeld`,
`Roles`), that what was printed and the list are what was shipped, in order
(`PrintedInOrder`), and that a truck which has read `quit` has printed at least what
was shipped before `quit` was set (`QuitSeen`, with `atQuit` from `QuitOnce`). The
last is what makes `ExitPrintsAll` inductive: the truck reads `quit` in the critical
section in which it empties the list. `TypeCorrect`, `LinesPrintedInOrder` and
`ExitPrintsEverything` follow.

`MediaProofs`, from `RtpAssumption` and `TracksAssumption`:

- `SessionKeepsReceiving`: an open session has a read posted or completed, unless
  an empty datagram or a failed `Close` has ended its reading.
- `FrameStaysInBuffer`: the write position of a frame stays inside its buffer,
  whatever arrives, and `FillData` copies beyond its end in one case only: the
  received bytes end before the headers that `Parse` finds in the buffer do. It
  rests on the sizes of real datagrams (a datagram and a full frame together are
  less than `SizeRange`, `RtpAssumption` and `ReadsSized`): then nothing wraps
  unless a header is longer than what it is subtracted from (`PayloadFits`).
- `MediaAllOrNothing`: `MediaInv` says for past, current and future tracks which
  steps of `MediaSession::Init` are done, and that a session opened by one of them
  reads, if it is open and not quiet; `HandInv` adds that what an executor has in
  hand was opened and that what was deleted is not open. The statement excepts the
  deletions that fail the assertion of `~SocketObj`, and says nothing of the ports
  of a failed SETUP, which nobody puts back.

`MessageProofs`, from `MsgAssumption` and `SdpAssumption`:

- `MsgInvariance`, `ValuesAreOwned`, `HeadersAreKept`: an array has as many slots as
  it says and uses some of them (`ArrayOK`), its heap blocks are itself and one per
  long value in any of its slots (`Owned`), and an undamaged message holds what it
  was given, in order, in the slots in use and nothing in the others (`Holds`), also
  after the array has grown.
- `SdpInvariance`, `LinesAreKept`, `DescriptionIsFreed`: each object is tied to the
  line it comes from and each line to the section that the number of `m=` lines
  before it determines; the heap is what the description owns and the two known
  leaks (`HeapExact`). The first control of a media is a least element, which
  exists because `<` on the naturals is well-founded (`WFMin` of the library).

`PortsCtlProofs`, from `RangeAssumption` (0 < MinPort < MaxPort < 65535):

- `Invariance`: `IInv`, the conjunction of `TypeOK`, `PairsAligned`, `LowEven`,
  `NoSharedPort`, `MarkedIsHeld` and `CountsExact`, is inductive. A port taken
  from a clear entry is new because the marks are exactly the holders; putting a
  pair back clears no other holder's port because pairs start at even ports;
  the counters follow from the cardinalities of those disjoint sets.
- `TypeCorrect`, `NoPortIsShared`, `NoPortLeaks`, `CountersExact`,
  `PairsAreAligned`: consequences.

`RtspSessionProofs`, from `SessionAssumption` (at least one track is possible):

- `Invariance`: `IInv` is inductive. The order of the requests alone is not: the
  next one is chosen from `m_methodPrevious`, `m_nCSeqPrevious` and the track
  number, which a failed write leaves out of step with what was sent.
  `LastRequest` says that they are right as long as a read is under way or its
  bytes are being handled; after a failure there is neither.
  `RequestsAreInOrder` and `DescribeAssertionsHold` follow.
- `Typing`: `TInv` adds the types of the lines on the wire, in the buffer and in the
  message, and that the server answers only what was sent; `TypeCorrect` follows.
- `Answering`: `AInv`, on top of both, says which CSeq numbers are about. While the
  last request is unanswered, no response with its number is on the wire, in the
  buffer or in the message (`NoEarlyAnswer`). The hard case is an answer with the
  wrong number, the next one: it would later pass for the answer to a request not
  yet sent. `WrongAnswerFirst` says that such a response stands alone or before any
  with the right number, so the session, which gives up at the first response that
  it does not expect, never gets past it. It depends on the
  session starting no read after an incomplete message (`NewMessage`), the
  behaviour that `RtspSession_split` reports. `EveryRequestWaits`
  (`OnlyAnswered`) follows.

`UtilProofs`, from `NodeAssumption` (finitely many nodes, `NULL` is none) and
`AllocAssumption` (the program has a thread, there is a node for every block, the
alignment and the counters' range are positive):

- `ListCorrect`: `ListInv` says that each list is a chain (`Chain`): a sequence of
  different nodes whose `next` and `prev` pointers are each other's neighbours and
  whose first node has the number; that its data are the sequence the list stands
  for; and that the nodes of the two lists are disjoint and all there are
  (`Family`). Each function of `z3_list.c` has a lemma that says which chain it
  makes of which, and that it touched no other node (`Update`); a list the call is
  not about is therefore still the chain it was (`Changed`). `ListIsSequence` follows
  because what a walk along `next` finds is determined by the chain.
- `AllocTracks`: while the program runs, the chains of the list or of all buckets
  together hold exactly the blocks that ought to be tracked, each in one node of its
  own bucket (`Tracks`). For a call to find its block there, no other call may take
  it out first: `Owners` says that the block of a call under way belongs to that
  call alone and that nobody holds it. `Untrack`'s assertion then fails only for a
  block that a failed `realloc` has lost (`AbortsAtLost`).
- `AllocCounts`: `Counted` says that allocated minus freed, both taken modulo
  `UIntRange`, is congruent to the sum over the tracked blocks, for the
  bytes and for the number of blocks. It needs that a sum over a finite set changes by the
  element added or removed, which is proved for the fold of the community modules.
- `AllocReports`: the state in which `_z3_alloc_uninit` reads the structure
  satisfies `Tracks`, so what it shows is what was leaked.

`AllocInv` is the conjunction of these parts and is inductive as a whole.
Two inductions over data are needed, for what a recursive function computes along
a list and over a set. Both are done without an induction theorem: the claim
is written as a set of counterexamples inside the naturals, which would have a least
element (`WFMin`).

Only model-checked:

- all liveness (`SpuriousWakeupEnds`, `HandledUnlessLost`, `ClientWaitEnds`,
  `ShutdownEnds`, `OrdinaryCallReturns`, `AnswerLeadsOn`) and the liveness half of
  the queue's refinement: the prover has no rules for fairness here.

Every invariant that a passing run checks is stated by a theorem, for every value of
the constants its assumptions allow.

## 5. Further observations

Behaviours of the code that the models contain and no run reports:

- `RtspClient::OnClientStop` (`z3_rtsp_client.cpp:82`) releases sessions that
  were never stopped, so they are deleted with an open socket, against the
  assertion in `z3_socket_obj.cpp:16`. `SocketClosedBeforeDelete` is therefore
  stated for connections.
- A block whose operation the kernel refuses stays allocated with its timer
  armed (state `refused`), and a block still in the port at shutdown is never
  freed (state `lost`), although comments (`z3_socket_obj.cpp:105`,
  `z3_iocp_obj.cpp:69`) leave its deletion to the engine.
- Reserving a port that is in use does not exclude it later
  (`z3_media_ports.cpp:164`).
- After `Engine::OnThreadStop` has freed the queued blocks their timers are still
  armed; `CallbackSeesLiveBlock` is limited to the running engine.
- `main` of `z3_engine_test` releases its connection too, which is one release
  too many if the client has already deleted it (`z3_engine_test.cpp:43`); the
  model has the client's releases only.
- Some of `z3_rtsp_client` does not fit the engine at this commit
  (`RtspClient::AddSession` calls `Start` without a queue); the model gives the
  session the client's notification queue, as `AddConnection` does.
- `SendSETUP` returns without releasing its request when the media session cannot
  be created (`z3_rtsp_session.cpp:486`).
- `PutPairPorts` has no caller: a `MediaSession` keeps its ports for ever, also
  when its `Init` fails after getting them (`z3_rtsp_media.cpp:68`).
- `~RtspMedia` walks `m_pMediaSessions` without a test (`z3_rtsp_media.cpp:127`);
  the list exists only once a media session has been added, so a session whose
  first SETUP failed cannot be deleted (`mediaEnd = "null_list"`).
- Nothing closes the socket of a UDP session before `~MediaSession` releases it:
  unless its read has failed, the assertion in `z3_socket_obj.cpp:16` fails,
  also after `Bind` has failed (`z3_udp_session.cpp:48`).
- A UDP read that times out is cancelled through the block's file handle, which
  only `AsyncConnect` sets: the assertion in `CancelIO` (`z3_io_endpoint.cpp:72`)
  fails on the timer thread (`udpFault = "cancel"`).
- `MediaSession::Init` passes the name of the media to `strcmp`
  (`z3_rtsp_media.cpp:38`), which is `NULL` if the `m=` line has none
  (`mediaEnd = "null_name"`).
- A UDP session whose failed read has closed its socket can be deleted, by a SETUP
  that fails or by `~RtspMedia`, before its executor has unlocked it and freed the
  block (`mediaEnd = "use_deleted"`): the hazard of `IoEngine_delete` once more.
- A datagram that is shorter than the headers found in the buffer makes
  `GetPayloadSize` (`z3_rtp_msg.cpp:52`) or the subtraction in `Parse` wrap. Mostly
  the assertion of `FillData` fails; if the sum wraps too, the copy of almost 2^32
  bytes goes beyond the frame (`udpFault = "overrun"`). `FrameStaysInBuffer` says
  that nothing else leads there.
- A failed `CreateTimerQueueTimer` passes for a success (`z3_timer_obj.cpp:195`), and
  a `CancelTimer` that fails (`z3_timer_obj.cpp:139`) is ignored by `RunOnce`; see
  `ExecutorLost` in section 3.
- An empty datagram ends the reading of a UDP session for good
  (`z3_udp_session.cpp:123`), and so does a `Close` that fails after a failed read;
  `KeepsReceiving` excepts both by name.
- `RemoveHeader` is to copy the last header into the slot of the removed one
  (comment at `z3_rtsp_msg.cpp:563`) but copies that slot onto itself: removing a
  header other than the last empties a slot in the middle and hides the last
  header, and the next `AddHeader` runs into the assertion of `FillKeyValue`.
  `HeadersKept` is stated for messages to which this has not happened.
- `ToString` dereferences a `NULL` object after `InitData`, which loses the object
  it makes; it asserts against any body, and it loses its string buffer when it
  fails.
- The session's own `b=` lines and every `c=` line of the session but the last are
  never freed (`z3_sdp.cpp:707`, `z3_sdp.cpp:899`); `DeleteFreesAll` excepts
  exactly these. Empty fields of several lines end in `strlen(NULL)`.
- A media without a `control` attribute fails the assertion in `SendSETUP`
  (`z3_rtsp_session.cpp:468`), an attribute without a key the comparison before it
  (`AskControl`).
- The report of the list build needs two leaked blocks to say anything
  (`z3_alloc.c:134`); `LeaksReported` excepts the single one.
- A failed `realloc` leaves its block untracked (`z3_alloc.c:407`): freeing it
  later fails the assertion in `z3_list_remove`. `TrackedExactly` says that
  nothing else does.
- The trace of `_z3_free` reads `memblock_list` twice without the mutex
  (`z3_alloc.c:542`), and another thread can empty the list in between
  (`process = "crashed"`); the trace of an allocation reads it only while its own
  block is in the list.

## 6. Not modelled, and the plan

Not modelled: logging levels and formatting, error texts, the string tables of
`z3_rtsp_def.cpp`, the empty base classes, the main functions, out-of-memory paths
of the RTSP client, and the floating-point RTCP interval of RFC 3550. The RTCP
session itself is left out because `z3_rtcp_udp_session.cpp` calls members its
class does not declare: there is no running program to be faithful to. Its socket
and its read are those of `UDPSession`, which `UdpRtp` and `MediaTracks` have.

Next, in this order:

1. `Thread`'s start handshake, `Lock`'s lazy mutex, `TimerEngine`'s singleton, the
   connector's send buffer.
2. Timers after the engine has stopped, in `IoEngine`.
