# A verification of DataEngine

DataEngine collects points from field devices (Modbus over a serial line or TCP)
and passes them on to control stations (IEC 60870-5-104). It is driven by its
configuration: each task names a channel, the devices on it and the plugin that
speaks to them. This directory holds TLA+ models of its concurrent parts, what
TLC checks of them on small instances and what TLAPS proves of them in general.

## 1. The system

Paths are relative to the repository. "Hard" says what a test would hardly reach.

| component | state it keeps | operations | hard |
|---|---|---|---|
| Channels: `Src/Channel/IChannel.cpp`, `ChannelManager.cpp`, one file per transport | the name being waited for, the bytes received, the last complete frame, a semaphore per device, the `fixFrame` per device | `handleMessage` (transport thread), `dealMessage`/`dealMsg`/`recvComplete` (dealer thread), `sendFrame`/`recvFrame` (callers) | four threads, three buffers and two kinds of lock; late answers; clearing a name that is no longer one's own |
| Engine facade: `DataEngine.cpp` | none | `sendSyncRecv` under a mutex, everything else passed on | the mutex is chosen by the caller |
| Protocol manager: `Src/Protocol/` | plugins per task, plugin per device, threads | register, create, start, `process` loop, control and param commands | start order; a mutex on a thread's stack; two maps paired by index; unguarded maps |
| Task centre: `Src/Task/TaskCenter.cpp` | channel and protocol configurations | init, start, arrange, control and param commands | start order, ignored failures |
| Point storage: `Src/Data/DataStorage.cpp` | values per device and type | update and get, single, multiple, by condition, by transmit id, composite | ranges; several lock regions for one answer |
| Expressions: `Src/Tool/ExpParser.cpp` | position and token | recursive descent | brackets that are operators too |
| Plugins: `Plug/CollModbus`, `Plug/IEC104` | sequence numbers, buffers and descriptors per connection | `process`, `fixFrame`, control; for 104 the frames of the protocol | numbers shared by connections, wrap-around, stale buffers |
| Logs: `Src/Log/` | set of files, current file and its length | init, save, rotate | limits, failures, several writers |
| Templates of the framework: `Include/BaseInc` `Thread`, `MsgQue`, `Signal`, `Timer` | thread state; queue and priority iterators; slots | start, stop, sleep, awake; send, recv, clean; attach, detach, fire | everything |
| Binary framework (`Lib/`), vendored headers, configuration files | – | – | only headers: external |

How they interact: a task's protocol thread (`CProtocolManager::process`) calls the
plugin, which calls back into the engine: `sendSyncRecv` for an exchange on the
channel, `updateValue` for what it has read. A transmit plugin is called by its
TCP server's thread, reads points and passes control commands to the collecting
plugin, which calls `sendSyncRecv` in the transmit thread. Each channel has a
dealer thread of its own.

## 2. The modules

| module | models |
|---|---|
| `Exchange` | what `sendSyncRecv` promises: one exchange at a time, and its own answer until one that timed out is answered after all |
| `SyncRequest` | `sendSyncRecv` and all it runs into, thread by thread; implements `Exchange` |
| `AtomicStore` | what the point storage promises: blocks stored and read at one instant |
| `PointStore` | `CDataStorage`, lock region by lock region and block element by element; implements `AtomicStore` |
| `PrioQueue` | what the message queue promises: messages by priority and, within one, by age |
| `MsgQue` | `TMsgQue` with its iterators, its semaphore and its receivers; implements `PrioQueue` |
| `TaskPool` | what the thread pool promises: tasks taken in order, each once, finished if begun, and nothing left when stop returns |
| `ThreadPool` | `ThreadPool` of `Thread.h`: its threads, the clients that add tasks and the owner that starts and stops it, on an instance of `MsgQue`; implements `TaskPool` |
| `Startup` | `CTaskCenter`, `CChannelManager` and `CProtocolManager` from the configuration to running threads, the clients of a server, and the way of a command back to a plugin |
| `Outstation` | what a slave promises the stations: frames served in order, each once, with the headers of its whole answer and on its own connection |
| `Slave104` | the IEC 104 slave: connections, framing, sequence numbers, answers; implements `Outstation` |
| `MCSyncRequest`, `MCPointStore`, `MCMsgQue`, `MCThreadPool`, `MCStartup`, `MCSlave104` | the instances TLC checks |
| `SyncRequestProofs`, `PointStoreProofs`, `MsgQueProofs`, `ThreadPoolProofs`, `StartupProofs`, `Slave104Proofs`, `OutstationProofs` | the theorems about these six modules, and their proofs; the last has the refinement of `Slave104` |

`ThreadPool` shares its state with `MsgQue` and is built on it: every step of a
thread, of `addTask` and of `stop` that touches the queue is an action of `MsgQue`. The
other components share no state in the code, so that each is a specification of its
own. They meet in what one assumes of another. `SyncRequest` assumes that the callers
on a channel have one mutex, `SingleMutex`; that they are given one is `ChannelLock` of
`Startup`. And it assumes that `fixFrame` is known for every device polled, which is part
of `PollReady`. Both are proved in `StartupProofs`.

In each module a definition whose comment begins with "Mutation:" is a plausible slip
of the definition after it. It takes no part in the specification; `PROJECT.json` says
which property notices it.

### SyncRequest

| model | code |
|---|---|
| `owner`, `mutexOf` | the mutex `process` puts on its stack and hands out with `setLockSource` |
| `pc`, `dev`, `req` | where a thread is in `sendSyncRecv`, for which device, for which request |
| `asked`, `arrived` | the wire: requests sent, bytes of each answer handed over |
| `name`, `recvBuf` | `CChannelMsgHandle::m_name`, `m_recvBuf`, both under its `m_mutex` |
| `dpc`, `dName`, `tmpBuf`, `valid` | the dealer thread and its locals `name`, `recvBufTmp`, `validFrame` |
| `frame`, `sems`, `count` | `CChannelBase::m_recvBuf`, the keys of `m_mapSem`, the semaphores |
| `fixFunc` | the keys of `m_mapFixFunc` |
| `expired` | history only: the requests whose `pendFor` has returned false |

A lock region is one action. Outside a lock, steps are split where another thread
can tell: `recvComplete` assigns the frame (`BeginWrite`, `EndWrite`), posts
(`Post`) and clears the name (`ClearName`) in four steps, and a read between the
first two yields `Torn`. A byte is the pair of the request it answers and its
position; that is all the properties can tell apart. The draining loop of
`recvFrame` is one action: a post that falls between two of its rounds is taken
by the next round or comes after the loop. `fixFrame` comes in the two
shapes the plugins have: "whole" (CollModbus: anything of at least `MinLen` bytes)
and "framed" (TransIEC104: a start byte and a length).

Taken for granted: each access to a `std::map` is atomic (the maps are not
locked; see the hazards), and a `Semaphore` counts.

### PointStore

| model | code |
|---|---|
| `lock`, `value` | `CDataStorage::m_mutex`, `m_mapValue`; a `Table` is one device and one type of point |
| `pc`, `call`, `k`, `got` | where a thread is in a call, its arguments, the `i` of its loop, what it has read |
| `Known`, `Size`, `Field`, `Trans` | what the configuration says: devices with a point table, their points and fields, the transmit table |
| `Call`, `CallWhere`/`EndIndex` | the calls by point id, and those by condition, whose `getIndex` locks and unlocks by hand |
| `UpdateValue`, `GetValue` | `updateValue`, `getValue`: one lock region |
| `BeginBlock`, `UpdateNext`, `GetNext`, `EndBlock` | `updateMultiValue`, `getMultiValue`: one element at a time under one guard |
| `CallTrans`, `TransNext`, `EndTrans`, `NextId` | `getTransValue`, `getTransMultiValue`: one round of the loop, with its `transId += i` |
| `CallExpr`, `Operand` | `getExprValue`: one operand per lock region |
| `Use` | the plugin is done with what it was given |

A value is a member of a small set and a formula is the list of points it reads:
what the calculator makes of them is not the storage's business. `Junk` is what
an access beyond a vector reads; such a write leaves everything as it is or
damages any one point. An operand that cannot be read is `Missing`, and the formula
goes on with a hole, as in the code.

### MsgQue

| model | code |
|---|---|
| `queue` | `m_queue`: a `std::list`, so a node stays where it is allocated |
| `iter` | `m_prioIterPtr`, with `End` for `end()` |
| `count` | the count of `m_semphore` |
| `pc`, `call`, `got` | whether a thread waits in `recvMessage` or has a token and not yet the lock, its arguments, its last message |
| `SendMessage` | `sendMessage`: the insertion and the loop that moves the iterators of the higher priorities |
| `Recv` | `recvMessage` that finds a token, in one lock region |
| `BeginWait`, `Pend`, `TimeOut`, `EndWait` | `recvMessage` that finds none: it unlocks, pends, and locks again |
| `Clean` | `clean` |

An iterator to a node that `clean` has freed is dangling: what is inserted there
lands anywhere, or nowhere. `front()` of an empty list is `Garbage`.

### ThreadPool

| model | code |
|---|---|
| `queue`, `iter`, `count`, `pc`, `call`, `got` | `m_task`, through `Q == INSTANCE MsgQue`; its nodes are the tasks and the messages without a task that `stop` sends |
| `bStart`, `state` | `m_bStart`, `m_state` of each thread |
| `wpc`, `owner`, `at` | where each thread is in `loopTask`, where the owner is in `stop`, its loop counter |
| `status` | what has become of each task, so also whether its promise has been kept or dropped |
| `Run`, `Loop`, `TakeTask`, `Woken`, `Looping`, `RunTask` | `ThreadWrap::run` and one round of `loopTask`, split where it touches something shared |
| `TimeOut` | `bTimeOut` of another thread, which overwrites `m_state` |
| `Threads`, `Level` | the threads in `m_vecThread`, which `stop` empties; the levels tasks are added with |
| `AddTask` | `addTask` and `addTaskSync` with a level: looks at `m_bStart`, then sends, two steps |
| `Start`, `BeginStop`, `SendNull`, `Mark`, `Join`, `EndStop` | `start`; `stop` with its loop of empty messages, the destructors of the threads and `m_task.clean()` |
| `phase`, `ahead`, `taken`, `runs`, `result` | what is seen of it from outside, as `TaskPool` speaks of it: the line without the empty messages, what each thread has taken or is running, how each task ended |

There is one owner, as start and stop are not guarded against each other, and tasks return.
The owner may stop a pool that is stopped already, as every destructor does: `stop` looks at
nothing, sends its empty messages again, finds no thread to join and cleans once more, which
drops a task that was sent too late for the stop before. The queue has the one priority the
constructor gives it by default, and tasks come with any level; `sendMessage` refuses those above
that priority. A pool of several priorities is out, because `stop` would `clean` a queue
whose iterators do not stand at the end. `bTimeOut` looks at the state and overwrites it later, so
`TimeOut` may come at any point of a task and after it; only `looping`, `run` and `stop` look at the
state again, so that an earlier or a later place makes no difference.
`clean` is called only here and only when every thread has been joined.

### Startup

| model | code |
|---|---|
| `cfg` | what the configuration files say, as `parseTask`, `parseDevice`, `parseTrans` read it |
| `groups` | `m_mapProtocolCfg`: one entry for each task and type of its devices, by task, and within a task in any order the types may have (`Orders`) |
| `Devices`, `NamesIn`, `Plug` | what `arrangeCollCfg` and `arrangeTransCfg` put into an entry: `names` and `plugName` |
| `Key`, `Protocols`, `Values`, `Place` | `m_mapProtocol` and `m_mapValue`: the string of task and library, and the two vectors that are paired by index |
| `step`, `up` | where the main thread is in `CTaskCenter::init` and `start`; the channels started |
| `value`, `protocolPtr` | the configuration each plugin was given; `m_mapProtocolPtr` |
| `runs`, `lock`, `fixFunc`, `polled` | the protocol threads; `m_mutex` of each plugin, which is the stack of a thread; `m_mapFixFunc`; who has been polled by whom |
| `client`, `onConnect`, `vecFd` | the clients of each server; the callback a plugin has attached; its `m_vecFd` |
| `early` | history only: clients that came before there was a callback |
| `cmd` | the last command, what it was turned into and where it went |
| `InitEngine` | `CTaskCenter::init` with `createChannel`, `arrangeCfg`, `createProtocol`: nothing else runs yet |
| `StartChannel`, `InitPlugin`, `StartThread`, `Advance` | the loops of `start`: channels, then plugins, then threads |
| `Prepare`, `Poll` | `CProtocolManager::process` before its loop, and a round of it |
| `Connect`, `Disconnect` | `clientConnected`, `clientDisconnect` of the server and `newConnectedFunc` of the plugin |
| `Command` | `controlSelect` ... `paramCancel`: `CDataEngine`, `CTaskCenter`, `CProtocolManager`, the plugin |

A plugin is known by the number of the group it was created for, so that `value[p] = p`
says that it was initialised with its own configuration. A null pointer that is
dereferenced in `init` is the step "crashed". The repository's `README.md` speaks of one
thread per task; the code has one per task and plugin library, each with a mutex of
its own, which is why `ChannelLock` has `OneLibraryPerTask` for a premise. With two
libraries on a channel `sync_*` no longer applies; `PostHasSemaphoreHolds` and
`BytesInOrderHolds` of section 4 still do.

A command may come as soon as its plugin is initialised and entered in `m_mapProtocolPtr`, which is
before the thread of the plugin has called `setLockSource`; the lock it is sent with is then `NoKey`, a
wild pointer in the code. `CommandArrives` does not forbid that: it says that it is so only as long as
the thread has polled nothing for that plugin, and that afterwards the lock is the thread's.

What the model takes over from the code as it is: `controlCancel` goes on as a select (`Passed`);
`bValidTransDot` looks among the points of type control whatever the command is; an
enabled task with the channel type "" ("unused channel", `ChannelManager.cpp:29`) and
devices ends `init` in a null pointer.

### Slave104

| model | code |
|---|---|
| `conn`, `conns`, `sent`, `wire` | the connections, the frames the stations have sent on each, the bytes on their way |
| `recvBuf`, `m_fd` | `m_mapRecvBuf`, the descriptor being served |
| `busy` | whether `handleMessage` is in its loop |
| `sendIdx`, `recvIdx` | `m_sendIdx`, `m_recvIdx`: one pair for all connections, never reset |
| `yxNum`, `ycNum` | how many points of each type the transmit table has |
| `out` | what has been sent on each connection |
| `analysed`, `cut` | history only: what was taken for a frame on each connection; whether a connection ended inside one |
| `Connect`, `Disconnect`, `Send` | the stations, and `newConnectedFunc` |
| `HandleMessage` | `handleMessage` is called with any number of bytes |
| `AnalyseFrame`, `EndMessage` | one round of its loop: `fixFrame`, `analyseFrame` with everything sent, `erase`; or the way out |
| `Points`, `Rounds`, `GoesOn` | the loops of `sendGIYx` and `sendGIYc` |
| `Reply`, `Numbered`, `Ack` | what is sent for a frame: the I frames with their numbers, then the acknowledgement |
| `Number`, `SendIdxAfter`, `NextRecvIdx` | the control field, with the width of its bytes, and the counters |
| `open`, `asked`, `told` | what a station sees, as `Outstation` speaks of it: the frames sent and not served yet, and the answers without their numbers |

A frame is its connection and its number there, a byte the frame it belongs to and its
position; a body is one byte, two in a long frame. The loops are written by what they do after a
number of rounds, so that the module has no recursion: `SendIdxAfter(n)` is
`increaseSendIdx` called `n` times, `GoesOn(num, r)` the condition of the loop of `sendGIYx` after `r` rounds. The server serves
all its connections in one thread, so that nothing is sent, opened or closed inside
`handleMessage`: what happens meanwhile is noticed after it. `ByteValues` is the number of
values a byte has, 256 in the code.

What the model takes over from the code: the high byte of a number is taken with `>> 8`
where the low byte holds seven bits, so that numbers are wrong from 128 on; they are
shared by all connections and never reset; a clock is confirmed without a new number;
a single command is not answered. These are premises of `NumbersRight`. A descriptor
that is used again finds the bytes its predecessor left: `Sound`, the premise of most properties,
says that no connection has ended inside a frame.

`Points` gives the headers of the frames: a type, a first address and a number of points.
`PointsAnnounced` and `Outstation` speak of these. What stands behind a header is left out, and for
measurements it is not what the header announces: `sendGIYc` steps its inner loop with `i += sum`
(`TransIEC104.cpp:352`), so that of a frame only every second, third or fifth value is written, and not at
the place of its point; it reads its values with the type for signals (line 338); and the length octet
overflows from 49 floats on (line 369). `Length` takes every length octet from 128 on as -1, which is
exact in effect for those the protocol allows; 254 and 255, which it does not allow, become 0 and 1, and
at 0 `handleMessage` (lines 96-99) goes round for ever.

## 3. What is checked

| run | instance | shows |
|---|---|---|
| `sync_framed` | 2 callers, 1 mutex, 2 devices, 3 requests of 2 bytes, framed | `TypeOK`, `PostHasSemaphore`, `BytesInOrder` (no byte before an earlier one, none twice; a lost byte is a timeout), `SemBounded`, `OwnAnswer` |
| `sync_returns` | 2 requests, whole, fairness | `CallReturns`: a call that has the mutex returns; `IsExchange`: `SyncRequest` implements `Exchange` |
| `sync_late_answer` | 2 requests | violation of `AnswerIsOwn`: after a timeout a late answer goes to the next request |
| `sync_lost_name` | 2 requests, no timeout, devices answer | violation of `AnsweredCallReturns`: the trailing `setName("")` wipes out the next request's name |
| `store_atomic` | 2 threads, tables of 2, 1 and 0 points, blocks of 1 or 2 from the first point on, formulas of 1 or 2 operands, fairness | `TypeOK`, `OnlyStoredValues`; `ReadsConsecutive`: up to two transmit ids are those asked for; `BlocksAreAtomic`: `PointStore` implements `AtomicStore`; `LockReleased` on every way out |
| `store_block_range` | the same with blocks from the second point on | violation of `BlockWithinRequest`: both loops run to `num + pointId` |
| `queue_priorities` | 2 receivers, 3 priorities, room for 3 messages, 4 nodes | `TypeOK`, `TokenPerMessage`, `IteratorsInPlace`, `PriorityOrder`; `IsPrioQueue`: `MsgQue` implements `PrioQueue` |
| `pool_stops` | 2 threads, 2 tasks with levels 0 and 1, a queue of 2, 2 starts, any number of stops, fairness | `TypeOK`, `TokenPerMessage` through starts and stops, `RunsOnce`, `TaskSettles`: a task in the queue of a pool that runs or is being stopped is run or dropped, `StopReturns`; `IsTaskPool`: `ThreadPool` implements `TaskPool` |
| `startup` | 10 configurations, types in any order, 1 client descriptor, fairness | `TypeOK`, `SoundStarts`, `PollReady`, `ChannelLock`, `ClientsKnown`, `CommandArrives`, `EveryDevicePolled` |
| `startup_disabled` | a configuration with its transmission enabled and disabled | violation of `DisabledTaskStarts`: disabled, `init` dereferences a null pointer |
| `slave_frames` | 2 descriptors, 2 connections, 3 frames; 0 or 3 signals and 4 measurements, 2 to a frame; bytes of 16 values, fairness | `TypeOK`, `FramesWhole`, `StreamKept`, `NoFrameWaits`, `NumbersRight`, `PointsAnnounced`, `FrameAnalysed`; `IsOutstation`: `Slave104` implements `Outstation` |
| `slave_long` | 1 descriptor, 2 frames, one of them long | violation of `LongFramesWhole`: a negative length is always reached |

Bounds. Two bytes are the shortest answer that can be split, torn and left over
in part. Two callers and two devices are what it takes for a late answer or a late
`setName` to hit a stranger; a third request (`MaxRequest`) lets two stale posts meet.
Two points make a block that can be torn, and one thread to write and one to read it
do; the single-point and the unknown table bring in the boundaries. Three priorities
are the least at which the loops over the iterators go on, stop early or
run through; three messages put one of each priority in line, and a fourth node lets
one be freed and used again while the queue is full. Nodes and devices are
interchangeable where the run says SYMMETRY, which no run with a liveness property does.

Two threads of a pool can both wait, both run, or be stopped one before the other; two
tasks fill a queue of two so that `stop` finds no room for its messages; two starts
(`MaxStart`) show what the first one leaves to the second; levels 0 and 1 (`Level`) are one the queue has and one it refuses. The configurations of `startup`
are listed with their reasons in `MCStartup`: five that can start (two device types behind
one library, one type on two channels, a device without a protocol, two libraries on
one channel with one missing and with both there) and five that cannot. One descriptor can
be early, be known, leave and come again. In the slave two descriptors interleave
two streams and two connections (`MaxConn`) are enough for a descriptor to be used again; three frames
(`MaxFrame`) let two arrive at once and a third one be split; 3 and 4 points at two to a frame are an
uneven and an even number of rounds and 0 is none. Bytes of 16 values leave numbers
correct up to 7, which an interrogation on its own stays below and two do not.

What the premises leave out. Properties that hold under a premise do not catch what lies
outside it, and some known hazards lie there:

- `OwnAnswer` has `Undisturbed` and `ExactFrames`: not covered are late answers (`sync_late_answer` has them), a
  dealer that still writes for a request that timed out, and an answer longer than what `fixFrame`
  takes, as CollModbus's 9 bytes are, of which it takes 8. In `sync_returns` `MinLen` is the length of the answer.
- Every run of `SyncRequest` has one mutex on the channel, and `ChannelLock` has `OneLibraryPerTask`: the overlapping
  exchanges of two libraries on a channel are not forbidden by any property.
- `ClientsKnown` excepts the clients that came before the plugin (`early`), `CommandArrives` allows the wild
  pointer before the first poll.
- `OnlyStoredValues` and `BlocksAreAtomic` have `BlocksBeginFirst` (`store_block_range` has the rest), `ReadsConsecutive` up to two ids.
- `MsgQue` has `Clean` only where all iterators stand at the end.
- `TaskSettles` begins with a task in the queue of a pool that runs or is being stopped: one that `addTask` let in
  before a stop and sent after its `clean` waits for the next start or stop. `StopReturns` has a queue with room
  for a message to each thread.
- `FramesWhole`, `StreamKept`, `FrameAnalysed` and `IsOutstation` have `Sound`: no connection cut inside a frame, no length
  misread. `NumbersRight` has numbers below 128, one connection and no clock.

Fairness. The operating system schedules the callers and the dealer, and `pendFor`
has a deadline: weak fairness of what a caller does once it has the mutex, and of
the dealer. Nothing is assumed of the device or of when calls are made, except
in `sync_lost_name`, whose subject is the answered request.

In the storage, weak fairness of the thread that holds the mutex (`Locked`): it is
never blocked. Nothing is assumed of those that wait, because `std::mutex` promises no
order, so that no call is shown to get the lock. In the pool every thread is scheduled
and tasks return; a semaphore that has a token lets some waiting thread through, not
a particular one; `stop`, once called, goes on, but nobody has to call it. At startup the
main thread and each protocol thread are scheduled; clients and commands are free. In
the slave the server's thread is scheduled and what was sent is delivered; stations
are free.

Deadlock is checked for the exchange, the storage and the queue, which always have
another call to make. The pool may be stopped for good, a startup may have crashed and
stations may have used up their frames and connections: there it is off.

## 4. What is proved

For all values of the constants, from the assumptions named in the modules.

`SyncRequestProofs`: `TypeCorrect`, `PostHasSemaphoreHolds`, `BytesInOrderHolds`,
`SemBoundedHolds`, `OwnAnswerHolds` and `Refinement`, for all sets of callers, devices
and mutexes, every answer length and every number of requests. The first three hold
however mutexes are given out, also with two on a channel; the others need `SingleMutex`.

The argument. `SemInv`: a name is published only after its semaphore exists, and
semaphores are never removed. Bytes move from the wire through the channel's
buffer to the dealer's only at the ends, under the lock on both sides, so that the two buffers and the
rest of the wire together keep the order of arrival; that is what `BytesInOrder` rests on.
`LockInv`: a caller in a call holds its mutex; with
one mutex there is one such caller. `PostInv`: count what each semaphore holds
together with the post the dealer may still make (`MayPost`); a caller that has
just drained leaves room for both. `ExchangeInv`: with exact frames, and as
long as no request that timed out is answered in part or at all (`Undisturbed`), the channel is
`Quiet` between calls, and a call goes from `Searching` (the buffers hold the end of what has
arrived of its own answer) to `CutOut` to `Posted`, or from `Searching` to a timeout that finds
nothing and leaves nothing. `OwnAnswer` is not inductive on its own: it needs to know that nothing is
left in any buffer or on any semaphore when a call begins. It does not need the name to be
right: after a timeout the dealer may go on with the name of the silent device, and post to its
semaphore; the phases say what is posted and to how many, not to whom, and a post that
goes astray is a timeout more, not a wrong answer. The refinement reads
the exchange in progress off `pc` and whether its frame is the caller's own off
`frame`, and uses the same invariant.

`MsgQueProofs`: `TypeCorrect`, `TokenPerMessageHolds`, `IteratorsInPlaceHolds`,
`PriorityOrderHolds` and `Refinement`, for all numbers of threads, nodes, priorities
and places in the queue.

The argument. The invariant is `TypeOK`, `TokenPerMessage` and `IteratorsInPlace`
together: removing the front is safe because a token says there is one, and the
loops that move the iterators are right because all iterators are in place, so
that those that point to the same node stand side by side. `PriorityOrder` follows from
`IteratorsInPlace` alone, taken at the priority of the later message. The refinement
maps the list to the line as it is; that `Send` puts a message where its iterator
points is `IteratorsInPlace` again, and that a receiver finds one `TokenPerMessage`.
`Clean` is part of the specification where the iterators stand at the end, as they always
do with the one priority of its only caller, the pool; with more priorities `clean` would leave
iterators on nodes it has freed.

`PointStoreProofs`: `TypeCorrect`, `OnlyStoredValuesHolds`, `ReadsConsecutiveHolds` and
`Refinement`, for all numbers of threads and tables, all sizes, all transmit tables and
all arguments a plugin may give; for the second and the last blocks begin at the first point
(`BlocksBeginFirst`).

The argument. `IInv` is three parts: `Shape`, the type of every variable; `LockOK`, a thread is the
lock's just where the code is between lock and unlock; and `GoodAt`, what each place of
a call may rely on, such as that a thread in a block has an index in range and a
counter not beyond the loop's bound. Each action changes one thread's own variables, so
that the proof is about one thread at a time (`LocalChange`). `SInv` adds, for
blocks from the first point on, that neither loop leaves its vectors and so nothing
holds `Junk` (`Clean`), and that a reader has read the points up to its counter (`FirstAt`). For the refinement
only the lock's holder can be inside a block, so the abstract points are the values with the
holder's block put on top as far as its loop has come or is still to go
(`PointsForm`): a block takes place when its lock region begins, and the steps inside are stutters.
`ReadsConsecutive` needs no block: two ids are t and t + 1 because the counter is
added once, as 1; the third would be t + 3.

`ThreadPoolProofs`: `TypeCorrect`, `TokenPerMessageHolds`, `RunsOnceHolds`, `QueueRefinement` and
`PoolRefinement`, for all numbers of threads, tasks and starts and every size of the queue.

The argument. Every step of the pool is one of its queue or leaves the queue alone
(`QueueStep`): a message is sent only with a node that is not in the list, and `clean` is
called only with all iterators at the end. So the pool is a `MsgQue` (`QueueRefinement`), and the
invariant of `MsgQueProofs`, taken through an instance, holds in it. What the pool has to add is
that a task comes into the list with the one priority there is, whatever its level (`OnePriority`), so that the one
iterator stays at the end; and `PoolInv`: who waits in the queue is a thread in `takeTask` (`Waits`); a thread that
is joined has left the queue, so that the last `clean` finds nobody between token and lock (`Joined`);
the empty messages of a `stop` are not those still in the list (`NullsNew`), because the `clean` of the last one
left nothing; and a task in the list is one that was sent and is not settled yet (`Placed`).
`PoolRefinement` goes from there to the promise of `TaskPool`. Two lemmas say how the line changes, in terms of who
stands in front of whom (`InFront`), so that the empty messages between the tasks do not matter: a message that is
sent comes behind all others, because the one iterator stands at the end (`SendLine`), and one that is taken was
behind nobody, and nobody else changes his place (`TakeLine`). Beyond the invariant it needs only `Busy`: no thread
is marked as stopped while `m_bStart` is set, hence no task is dropped then, and a thread that runs has a task. A
message without a task that is sent, taken or passed over is a stutter; `EndStop` is the end of the promise
because every thread has been joined (`Joined`) and `clean` then leaves nothing (`CleanEffect`).

`StartupProofs`: `TypeCorrect`, `SoundStartsHolds`, `PollReadyHolds`, `ChannelLockHolds`,
`ClientsKnownHolds` and the action property `CommandArrivesHolds`, for every set of configurations
`ConfigAssumption` allows and any number of clients.

The argument. No two groups share a name (`NamesApart`), from the uniqueness of names in the
configuration; and as a group has a plugin exactly if the library of its key can be loaded, the two vectors of
a key have the same groups in the same places, so that each plugin gets its own configuration
(`ValueOfIs`). So a name in any of the maps leads to the one plugin that has it (`PtrInv`, `ThreadInv`), whichever
thread put it there. A task that transmits has one name, which leads back to its own channel once `init` is
through (`AttachesToOwn`); hence a server tells the plugin of its own task or nobody, and what the plugin knows is
what has come since (`ClientInv`). That no thread runs before all plugins are initialised (`MainInv`) is what lets the threads
read `value` without a lock. `CommandArrives` takes from `ThreadInv` that the mutex of a plugin is unset or that of its
thread, and that it is set for whatever has been polled; that leaves an unset one only before the first poll.

`Slave104Proofs`: `TypeCorrect`, `NoFrameWaitsHolds`, `FramesWholeHolds`, `StreamKeptHolds`,
`PointsAnnouncedHolds` and `NumbersRightHolds`, for every number of descriptors, connections
and frames, every splitting of their streams, every size of the tables, of a frame and of a byte, whether
`char` is signed or not. The only assumption is `SlaveAssumption`: a byte has an even number of
values and a frame holds at least one point.

The argument. `Waits`: a buffer that is not being handled is empty or an incomplete beginning of a frame,
as the loop of `handleMessage` leaves it. `Streams` has three parts. `Apart`: a connection has one
descriptor. `Closed`: nothing is left on a closed one unless a connection was cut, so that the next
starts with an empty buffer. `Kept`: while `Sound` holds what was analysed is the first frames that were sent,
and buffer and wire together are the stream from the next frame on. That is said from each byte to
its `Successor`, so that appending a frame and cutting one off disturb it at one place only, and the proof
needs no induction over the stream; that the first byte starts a frame and the length byte
follows it is all `fixFrame` looks at. `Interrogated`: each confirmation that was sent
begins a whole copy of `Interrogation`; that its headers cover both tables follows from the first round at which
the loop's condition fails (`Rounds`), and that no address is announced twice from a round's beginning at or after
the end of each earlier one (`PointsApart`). `Numbers`: as long as no clock was set and one connection has
been the only one, the two counters are the numbers of I frames and of acknowledgements sent; a `Reply`
adds to both as many as it contains, and below 128 the two bytes of a number hold it (`NumberIsRight`).

`OutstationProofs`: `Refinement`, from the same assumption. What waits on a connection are the frames sent on it
beyond those analysed, and what a station is told is what was sent, without the numbers. `Connect`, `Send` and
`Disconnect` are `Open`, `Ask` and `Close`, `AnalyseFrame` is `Serve`, and the rest of `handleMessage` is not seen. That the
frame cut off is the oldest that waits is `Streams`; that all that is sent for it is its answer, on its connection,
is `ReplyAnswers`. The core of that is `PointsReport`: each round of `sendGIYx` and `sendGIYc` starts at the point where the one before has
ended, the first at 0, and the last ends at the last point. As soon as a connection is cut inside a frame, or a length misread, `Outstation` promises nothing (`Lost`).

Only model-checked: liveness (`CallReturns`, `LockReleased`, `TaskSettles`, `StopReturns`, `EveryDevicePolled`,
`FrameAnalysed`), which TLAPS does not prove under fairness, and the violations, which are facts about instances.

## 5. Findings

1. After a timeout nothing purges the late answer; it is returned to the next
   request, even one to another device (`sync_late_answer`).
2. `recvComplete` posts before it clears the name; the next request's name may be
   what it clears, and that request times out although its device answers
   (`sync_lost_name`). With the two lines exchanged the property holds.
3. `updateMultiValue` and `getMultiValue` count from 0 to the smaller of the size and
   `num + pointId`, but index with `pointId + i`. From the second point on they store
   elements that were never given, return too many, and leave the vectors
   (`store_block_range`). As long as blocks begin at the first point both are
   right, and atomic (`store_atomic`).
4. A transmit task with `"enable" : false` is not parsed, but its store is still looked
   up among the channels: `init` dereferences a null pointer (`startup_disabled`).
5. The 104 slave reads the length octet as a `char`. Where that is signed, a frame in
   which the length octet is 128 or more is taken for complete with its second byte (`slave_long`).

Seen on the way, without a run of their own:

- `getTransMultiValue` adds its loop counter to an id it has already moved: t, t+1, t+3,
  t+6. `ReadsConsecutive` is stated for up to two.
- `clean` leaves stale iterators behind when there is more than one priority, see section 4.
- `CollModbus` reports a control command as done whatever `sendSyncRecv` returned.
- A control that is cancelled reaches the plugin as a select.
- Collecting tasks are configured with `"bTans" : false`, in the files and in the repository's
  `README.md`; the code reads `bTrans` only, which is then absent and so false as meant.
- `sendGIYc` writes only every second, third or fifth value of a frame, and not at the place of its point; it asks
  for its values as signals; and `apduLen` overflows its octet for 49 floats or more in one frame
  (`TransIEC104.cpp:352`, 338, 369).
- A 104 frame with a length octet of 254 keeps `handleMessage` in its loop for ever where `char` is signed.
- `addTask` looks at `m_bStart` and sends later (`Thread.h:393`, 400): a task sent after a stop has cleaned stays in the queue,
  and its `addTaskSync` waits until the pool is started again or stopped once more, as by its destructor; for
  ever if neither comes.
- A pool with fewer places in its queue than threads may hang in `stop`: the messages that find no room wake nobody.
- A command between `start` and a plugin's `setLockSource` locks an uninitialised pointer (`IProtocol.h:62`).

## 6. What is left

Not modelled yet, in the order in which it would be worth while:

1. The result of a control command: `Startup` ends where the plugin sends; composed with
   `Exchange` it could compare what is reported with what reached the device.
2. `LogRotation`: the limits of the set of files, with failures and several writers.
3. Sleep and awake of `ThreadWrap`, and `Signal`: no source of the repository calls them; the
   threads of channels and protocols only start and loop.
4. The expression calculator: a recursive function of a text, so only to be model-checked.

### Not modelled

The binary framework and `CTimerManager` have no source here: what the code relies on is
external in the models (semaphores, mutexes, `select`). JSON parsing, formatting of frames for
printing, string helpers, and the contents of Modbus and 104 frames beyond what the properties tell
apart are left out. So are the vendored headers (sqlite, openssl, curl, microhttpd,
Paho, zlib, jsoncpp): they are nine tenths of the lines under `src/`, declare what other projects implement and
contain no behaviour of this program. The share of all lines that the models cover
stays small for that reason; of the repository's own code outside of tests and examples the models stand for
most of what keeps state.
