# Verification of kj

This directory holds TLA+ specifications of the C++ library in `src/`, the TLC
configurations that model-check them, and proofs checked by TLAPS. kj is a
utility library: a promise framework with a single-threaded event loop
(`async*`), synchronisation primitives (`mutex`, `thread`), memory management
(`memory`, `refcount`, `arena`, `array`), I/O (`io`), a command line parser
(`main`) and exception handling (`exception`, `debug`). Source paths below are
relative to `src/src/`.

## 1. Inventory

| Component | State | Operations | Interacts through | What is hard |
|---|---|---|---|---|
| Event loop (`async.cpp`, `async-inl.h`) | intrusive list of events (`head`, `tail`, `depthFirstInsertPoint`, `next`, `prev`), `firing`, `running`, `lastRunnableState` | `Event()`, `~Event`, `armDepthFirst`, `armBreadthFirst`, `turn`, `run`, `waitImpl`, `setRunnable` | calls `Event::fire()` and `EventPort::wait()`, which call back | callbacks that arm, destroy, throw, or re-enter the loop at any point |
| Exclusive join | two branches with a dependency each, `OnReadyEvent` | constructor, `onReady`, `get`, `Branch::fire` | two events on the loop, one consumer event | both sides ready in the same round; cancellation |
| Fork | hub with a list of branches, the result | `addBranch`, `~ForkBranch`, `fire`, `get` | event of the hub arms every branch | branches added and removed before and after the hub fires |
| Chain | `STEP1` / `STEP2`, `selfPtr`, `onReadyEvent` | `onReady`, `setSelfPointer`, `get`, `fire` | replaces itself by its inner node in its owner | ownership changes while a callback runs |
| Array join | `countLeft`, branches | `Branch::fire`, `get` | one event per branch | counting, the empty join, failed parts |
| Eager, transform, attachment | dependency, result | `fire`, `get` | synchronous calls along the chain of nodes | order of destruction, exceptions from it |
| Fulfillers | `WeakFulfiller::inner`, adapter | `fulfill`, `reject`, `isWaiting`, `detach`, `disposeImpl` | pointers in both directions | deletion by whichever side is the second |
| TaskSet, `detach()`, `~EventLoop` | map of tasks | `add`, `Task::fire`, error handler | tasks return themselves from `fire()` | handlers that throw, shutdown with work left |
| `WinEventPort` | list of observers | `waitFor`, `wait`, `poll` | fulfils promises of the loop | list changed by callbacks, limits of the system call |
| `Once`, `Lazy` | `UNINITIALIZED`, `INITIALIZED`, `DISABLED`, the value | `runOnce`, `reset`, `disable`, `Lazy::get` | threads | races, exceptions in the initializer |
| `MutexGuarded`, `Locked` | who holds the lock, what each handle holds | `lockExclusive`, `lockShared`, move, `release` | threads, the platform's `reader_writer_lock` | handles that move, exceptions under the lock |
| `Thread` | handle, `detached`, `exception` | constructor, destructor, `detach`, `runThread` | the new thread uses the object | join against the end of the function; lifetime after `detach()` |
| `Own`, `Refcounted` | pointers, counts | make, move, clear, `addRef` | destructors, which may do the same | owners that own each other |
| `Arena` | chunks, list of objects with destructors | allocate, `cleanup` | constructors that allocate, destructors that throw | alignment, the width of `size_t` |
| `Array`, `Vector` | memory, position, capacity | `add`, `addAll`, `resize`, release, dispose | constructors and destructors that throw | exceptions in the middle of a growth |
| `OneOf`, `Maybe` | tag and space | set, copy, move, reset | the same | what the tag says after an exception |
| Streams (`io`) | buffers, positions | `tryRead`, `skip`, `write`, `flush` | inner stream, which may be short or throw | boundaries of the buffer |
| `MainBuilder` | options, arguments, sub-commands | registration, parsing, help, exit | callbacks that validate or throw | distribution of arguments, `--help` |
| Exceptions | thread-local stack of callbacks, exceptions in flight | `throwRecoverable`, `runCatchingExceptions`, unwind detection | every other part | nested exceptions |
| Text (`string-tree`, `debug`) | text and branches of a tree; names of macro arguments | `strTree`, `flatten`; `makeDescription` | log messages, exceptions | two passes that must agree on the size |

Left aside: `tuple`, `units`, `function` and most of `common` and `string`
(type-level code, macros, formatting), the vendored gtest, the Visual Studio
projects. `PROJECT.json` lists every component with its status, and the hazards
with the line where each bites.

What makes each part correct, in one line: an armed event fires exactly once in
the promised order unless it is destroyed; a promise becomes ready once and its
consumer gets the right result; nothing points to a destroyed object; a lazy
value is built once; a lock is held while a handle says so; every element, object
and reference is destroyed once; a buffered stream is the same byte stream as the
inner one; each argument of a command line reaches its callback.

## 2. Modules

    EventQueue          a sequence and a point in it, and what may be done to them
      ^ extended by
    TurnQueue           what the event queue promises, turn by turn
      ^ refined by
    EventList           the intrusive list, as functions on a list record
      ^ extended by
    EventLoop           Event, run(), turn(), waitImpl(), re-entrant callbacks
      ^ extended by
    MCEventLoop (TLC)   disciplined programs, fairness

    EventQueue
      ^ instanced by
    ExclusiveJoin                      OnReadyEvent   the word through which a
                                         ^ instanced    node tells its consumer
        +-----------+---------+----------+-----------+
        ForkHub     ChainNode PromiseNodes  Tasks    Fulfiller
        | refines
        Fork

    Once    Workers    Ownership    Arena    Arrays    Holder
    WinEventPort    StringTree    Exceptions    Description
    HelpText <- CommandLine <- MCCommandLine (TLC)
    StreamCopy          a program that copies a file
      | instances
    InputBuffer, OutputBuffer          PlainStreams

    MCPromises    = Fulfiller + ExclusiveJoin, ChainNode, PromiseNodes, Tasks
    MCThreads     = Once + Workers
    MCMemory      = Ownership + Arena, Arrays, Holder
    MCEffects     = MCMemory + Exceptions, StreamCopy, PlainStreams
    MCSequential  = MCEffects + StringTree, Description, CommandLine

    Proofs (TLAPS), each of which extends what it is about:
    EventQueueProofs (EventQueue)      used by four of those below
    EventLoopProofs (MCEventLoop)      ForkHubProofs (ForkHub)
    PromisesProofs (MCPromises)        SystemProofs (WinEventPort, CommandLine)
    ThreadsProofs (MCThreads)          MemoryProofs (MCMemory)
    EffectsProofs (MCEffects)

MCPromises, MCThreads, MCMemory, MCEffects and MCSequential put components side by side
that do not interact. Their variable `part` is chosen at the start and says which one
runs, while the others keep their initial state: the states of the parts add up, and a
property of the whole is the conjunction of the parts' properties. The properties these
modules state cite, by name, those of the component that they stand for.

A step of the loop is one action per call that the code makes between two
points at which user code can run. kj runs a loop on one thread, so there is no
finer interleaving: what interleaves are callbacks, which are free to do
anything the API allows. `Once` and `Workers` have threads, and there a step is one
atomic access or one operation on the lock; in `WinEventPort` other threads signal
handles between any two calls of the system. What one thread does with memory,
text or exceptions is cut where a constructor, a destructor or a call of the
system may fail.

The modules of promise nodes work on the abstract `EventQueue`. That `EventList`
implements it is checked, and proved, separately (`ImplementsQueue`), so no node
has to be run on pointers a second time. When the turn of another event returns,
`turn()` moves the insert point back to the head; the modules in which other
events have no step of their own do that in `ReturnOther`.

### EventQueue, TurnQueue

The variable `queue` is a sequence of distinct events and the number of events
before the insert point. `DepthFirst`, `BreadthFirst`, `Pop`, `Rewind` and
`Drop` are functions from a queue to a queue, so that a module may do several in
one step. `TurnQueue` is the abstract specification that the loop implements: it
adds whose callback is the innermost code that runs (`callback`), so that only
the end of a callback takes the insert point back, and only the event of that
callback may go with it.

### EventList

A *slot* stands for a word that holds an `Event*`: `HeadSlot` is `&loop.head`, an
event `e` is `&e->next`. `Event**` values (`prev`, `tail`,
`depthFirstInsertPoint`) are slots. `LinkDepthFirst`, `LinkBreadthFirst`,
`PopFront`, `ResetInsertPoint` and `Unlink` are the pointer assignments of
`armDepthFirst`, `armBreadthFirst`, `turn` (before and after `fire()`) and
`~Event`. `AsQueue` follows `next` from the head: the refinement mapping.

### EventLoop

| Variable | Code |
|---|---|
| `list` | `head`, `tail`, `depthFirstInsertPoint`, every `next` and `prev` |
| `alive` | which `Event` objects exist |
| `firing` | the memory in which a flag `Event::firing` is set |
| `running`, `lastRunnable` | `EventLoop::running`, `lastRunnableState` |
| `stack` | the calls of `run()` and `waitImpl()` that have not returned, each with the place it is at |

| Action | Code |
|---|---|
| `Construct`, `Destroy` | `Event()`, `~Event` by the owner of the event, which may be firing |
| `ArmDepthFirst`, `ArmBreadthFirst` | the functions of that name, with `setRunnable(true)` |
| `Run`, `RunReturn` | `run()` up to its loop; leaving the loop, `setRunnable`, `KJ_DEFER` |
| `Wait`, `WaitGet`, `WaitReturn` | `waitImpl()` up to its loop; `setRunnable` and the call of `get()`; its return |
| `Turn`, `FireReturn` | `turn()` before and after the call of `fire()`, which may hand back its own event |
| `TurnDone` | a whole turn that fires a `BoolEvent` |
| `FireThrow` | `fire()` throws, perhaps what `~Event` threw |
| `PortWait`, `PortReturn`, `PortThrow` | `port.wait()` |

User code (`UserStep`) is enabled when the stack is empty or its top frame is in
a callback, in `port.wait()` or in `node->get()`.

An event may be destroyed while it is fired, by its own callback or in a nested
call. `~Event` unlinks it, finishes its destruction and throws "Promise callback
destroyed itself.", which the callback catches (the nodes of `async.cpp` run what they
call in `runCatchingExceptions`) or lets pass. If it goes on, `turn()` resets
`firing` in memory that was freed; the model records the flag by its memory, so that a new
event may have been constructed there. Nothing is promised of that write. What is
checked is that the queue, the insert point and the frames survive it.

Abstractions. A promise node is code that arms an event, at once or later.
The contents of events are left out. The thread checks (`KJ_REQUIRE` on
`threadLocalEventLoop`) are not modelled: one loop, one thread. Arming a queued
event changes nothing and is left out as a step.

### ExclusiveJoin

One join node on the abstract queue, among `Others`, events that do nothing. The
module is about the order of readiness, of branch events, of attaching the
consumer and of dropping the promise. `holds` says whether the loop may turn
between making the join and waiting for it, `keeps` whether the consumer is a
branch of an array join, which keeps the node after it was fired, or takes the
result and drops the node in its `fire()`. Both are chosen at the start.

### OnReadyEvent

`PromiseNode::OnReadyEvent` has one pointer: null, the consumer's event, or
`_kJ_ALREADY_READY`. `InitCell` and `ArmCell` say what `init()` and `arm()` make of
it, `InitQueue` and `ArmQueue` what they do to the event queue.

### Fork and ForkHub

`Fork` is what `Promise::fork()` promises: branches that wait, in order, all told
when the promise resolves; later branches ready at once. `ForkHub` is the code.

| ForkHub | Code |
|---|---|
| `hub` | `ForkHubBase`: reference count, `headBranch`, `tailBranch`, the inner promise; `handle` is the `ForkedPromise` |
| `branch` | `ForkBranchBase`: `hub`, `next`, `prevPtr`, `OnReadyEvent` |
| `InnerReady` | the inner node arms the hub's event |
| `AddBranch`, `DropHandle` | `addBranch()` with the constructor of the branch; `~ForkedPromise` |
| `Attach`, `DropBranch`, `Get` | `onReady()`, `~ForkBranchBase`, `ForkBranch::get()` |
| `HubTake`, `HubSignal` | `fire()` up to `inner->get()`, and after it |
| `FireConsumer` | the turn that fires the event that waits for the branch |

`fire()` is two steps because `inner->get()` runs code of the user in between, who
may add and drop branches. That code does not drop the last reference to the hub
that is firing; `~Event` answers that with an exception.

### ChainNode

`own` maps each location, the `inner` of a chain or `Root`, to the node it points
to, `held` are the nodes owned by a `Promise` object of the program.
`NewChain`, `Adopt` (`setSelfPointer()` of the final owner), `Attach` (`onReady()`),
`ChainTake` and `ChainFinish` (`fire()` before and after `inner->get()`), `Drop` and
`Cancel` are the operations. `SetSelf` and `OnReady` follow a chain of nodes in
`STEP2` as the code does by virtual calls. A promise that a callback returns is
one that the program held. What is not a chain is a leaf; the promise below a
chain in `STEP1` is only something that becomes ready; an exception from it is
a leaf that is ready (`ExceptionOr` is turned into an immediate broken node). The
callback does not drop the chain that is firing, as above.

### Fulfiller

Several pairs of an `AdapterPromiseNode` (`promise`) and its `WeakFulfiller`
(`wrapper`). `Make`, `Tell` (`fulfill` and `reject`), `Discard` (`disposeImpl`),
`Attach`, `DropPromise` (the destructors, with `detach`), `Fire` (the consumer's
turn and `get()`). `wrapper.first` is a history variable: the first thing that was
said to the fulfiller.

### PromiseNodes

Trees of immediate, adapter, attachment, transform, eager and array join nodes.
`made` is the list of the nodes with what the program passed to each, in the
order of their making, so that a tree is well founded; `cell`, `result` and `left`
are the fields of those nodes that have them. `Construction` has one disjunct per
node; `Await` is `onReady()` of a consumer of the program, `Fulfil` the adapter's
fulfiller, `Cancel` the destruction of a held promise; `FireEager`, `FireBranch` and
`FireConsumer` are the three kinds of event. `get()` along a tree is the recursive
function `Got`, with the exceptions that come out of destructors on the way;
`Destroyed` is the order in which a tree goes. A value names the functions it went
through and an exception the node it came from. `Meaning` says, by recursion on
the tree and with no state, what a promise should give: the reference for
`ResultIsRight`.

### Tasks

`holder` says which set a task is in: the `TaskSet` of the program, or the daemons of
the loop (`detach()`). The destruction of a promise may throw, fulfil another task's
promise or detach a promise, and so the destruction of a set is a fold over its tasks
(`SetGone`), in any order, as the map is ordered by addresses. `Fire` is `Task::fire()`
with the error handler, which may throw; `DestroyLoop` and `LeaveScope` are `~EventLoop`
and `~WaitScope`; a loop may be destroyed before them, or before the `TaskSet`, and then
complains. A complaint is a `KJ_REQUIRE` with a recovery block: the block runs, and
`~Fault` throws a recoverable exception behind it. So `detach()` during shutdown throws
into the destructor that called it, and each complaint of `~EventLoop` cuts off what
comes after it, unless an exception is on its way already and it is only logged
(`LoopGoes`). A loop that goes while it is current and has events queued, or whose
daemons threw, thus never resets `threadLocalEventLoop`: `loop` is then `"dangling"`,
and the model lets nothing happen that would follow the pointer.

### Once

`Lazy::get()` with `runOnce()` is `Get`, `Lock`, `Test`, `InitReturn` or `InitThrow`,
`Publish`, `Unlock`, `Read`; `disable()` is `Disable`, `Lock`, `DisableStore`, `Unlock`;
`reset()` is one step, because its contract excludes other users. `pc[t]` names the
place of a thread. `sees` holds the threads to which the last plain assignment of
the value is visible: taking the lock, or a load that acquires `INITIALIZED`, adds a
thread, an assignment leaves only the writer. The lock is external: the platform's
`critical_section`, held by one thread, first come first served. Asking for the
value from within its own initializer makes the platform throw, so it behaves as
an initializer that throws.

### Workers

Threads that a main thread makes, detaches and destroys; each runs a function that
locks a guarded counter. `handles` are two `Locked` objects of each thread; `MoveHandle`
assigns one to the other, `Release` is `release()` or the destructor, `Throw` unwinds
both. `inside` and `queue` are the platform's lock: writers first come first served,
readers together unless a writer waits. `writes` counts increments beside the
value, so that a lost one shows. What the main thread meets in `~Thread` is
`Destroy` and `Join`. A function locks again only when its handles are empty: read
locks are not recursive (`mutex.h:169`). `MaxLocks` bounds how often it locks.

### WinEventPort

| WinEventPort | Code |
|---|---|
| `head`, `tail`, `obs` | `handleHead`, `handleTail`, the fields of each `HandlePromiseAdapter` |
| `call` | the `WaitHandleContext` of the call in progress and the place of its loop |
| `signalled`, `abandoned` | external: which handles are signalled; which of them are mutexes whose owner ended |
| `WaitFor`, `Destroy` | `waitFor()` with the adapter's constructor; its destructor |
| `Enter` | `wait()` and `poll()`, with the snapshot of the list |
| `WaitMany`, `Timeout` | `WaitForMultipleObjects`, and the promise it fulfils |
| `Scan`, `ScanEnd` | the loop over the handles behind |
| `Signal`, `Abandon`, `ResetEvent` | external: other threads |

`Take` is the code that both have in common: `removeFromList()` and `fulfill()`, and the
automatic reset of an event (`AutoReset`) by the wait. `Inherit` is a wait that takes an
abandoned mutex: the code compares the result with `WAIT_OBJECT_0` only, so the call
ends there (`WaitMany`) or goes on with the next handle (`Scan`), and no promise is
fulfilled. Fulfilling a promise only arms an event, so no callback runs within a call.

### InputBuffer, OutputBuffer, StreamCopy

The buffered wrappers over `FdInputStream` and `FdOutputStream`. An operation is one
step, as one thread uses a stream; the calls of `ReadFile` and `WriteFile`
(external) inside it are its nondeterminism: how many bytes they move, and for
`WriteFile` whether it fails. Each operation is split by the cases of the code
(`ReadBuffered`, `ReadThrough`, `ReadLarge`, and so on). `WriteFits` stands for both a
write that has room and one of the buffer itself that `getWriteBuffer()` gave. A
`ReadFile` that fails is not modelled.

`StreamCopy` is the environment in which both are checked together: a program that
skips a part of a file and copies the rest, by reads of any minimum and maximum
whose bytes are written in pieces, or by writing what it sees in the input's
buffer and skipping it. The bytes of the file are the numbers from 1, so a byte
that is lost, repeated or out of place shows. The program gives the streams up
when one of them throws, and then destroys the output stream; what that flush
adds after a failure (bytes may be written twice) nobody promises.

### PlainStreams

A program that copies from an `ArrayInputStream` to an `ArrayOutputStream`, by way of
memory of its own, by reading into `getWriteBuffer()`, or by writing what
`tryGetReadBuffer()` shows; and then sends the result with
`FdOutputStream::write(pieces)`.

### Ownership

`ptr` maps every owner, a variable or the member of an object, to what it owns.
`Make`, `AddRef`, `Move` and `Clear` are the operations of a program and of the
destructors on the stack (`destructors`), each of which runs its body, destroys its
member and is freed. `Move` takes its source's pointer before it disposes of its
own, also if it owns the source.

### Holder

`tag` is what a `OneOf` or `Maybe` says of itself and `space` what is in it. Assignment of
a `OneOf` sets the tag before the constructor runs: when that throws the holder is
`broken`, and is not used again. A `Maybe` sets it last.

### Arena

Chunks and the offsets of blocks in them, computed modulo `SizeRange`, the number of
values of a `size_t`; `residue` is the address of a chunk modulo the largest alignment.
A constructor may allocate (`frames`), may throw, and destructors may throw; `cleanup()`
is `TakeObject`, `DestroyElement`, `ObjectGone`, and again after an exception
(`CleanupThrows`), then `DeleteChunks`. An object of its own is put on the list of
destructors when its constructor has returned, an array before its elements are made
(`arena.h:167`). What `AllDestroyed` says of the order follows: of two objects the one
completed later is destroyed first, except that what was allocated while the elements of
an array were made goes before them. "Such destructors are run in opposite order of
allocation" (`arena.h:59`) is not what happens to objects whose constructors allocate:
the outer one is allocated first and also destroyed first, which is what it needs. A
destructor that allocates is not modelled.

### Arrays

A `Vector` and an `Array` over a heap of blocks of slots: raw, an element, or an element
that was moved from. A call of the library (`call`) is a sequence of steps of one
element each; any of them may throw, and then the guards on the stack destroy what is
there. `expect` is the content that the vector promises, kept as a plain sequence.

### StringTree

Trees made by `strTree()` and by `StringTree(pieces, delim)`, each beside the text it
should say. Floating-point text in a locale is `FloatText`.

### Exceptions

`stack` has the frames of a thread: contexts, callbacks that let recoverable
exceptions go by, `runCatchingExceptions`, scope guards, and the destructors that
unwinding calls. `uncaught` are the exceptions in flight. `Raise` tells the callbacks
before anything is unwound; the unwinding then goes frame by frame.

### Description

`makeDescription()` takes the source text of macro arguments apart (`Scanned` is its
loop over one character), and goes over the arguments twice, for the size and for the
text. The scan knows string literals and parentheses. The arguments of the instance are
of two kinds: `Plain` ones, which are named rightly, and `Odd` ones, whose commas,
parentheses or quotes stand where it does not expect them: `'('`, `','`, `'"'`, `m<i,
i>(a)`, `F{1,2}`. Behind the first odd one a value may get the text of another, or none;
`NamesTheArguments` says of those only that the two passes agree.

### CommandLine, HelpText

A program registers options, sub-commands and arguments (`AddOption`, `AddSubCommand`,
`Expect`, `CallAfterParsing`); `Build` starts the parser, which reads a parameter or a
letter of a group per step and makes the command line up as it goes. Then the
arguments are distributed (`GiveRequired`, `GiveExtra`, `NextSpec`, `EndOfArguments`).

The context is there until the process ends: `hadErrors` is set by `error()` and read by
`exit()`, perhaps much later, and `onStderr` says whether something was written on
stderr. A message is one or two calls of `WriteFile` (`WriteCalls`: `writeLineToFd`
writes one that lacks its line end twice), each of which may fail and throw. A callback
(`Call`) goes on, reports an error and goes on (`Reports`), rejects its argument
(`UsageError`), throws (`Uncaught`) or shows something and ends (`ExitInfo`). Without
`KJ_CLEAN_SHUTDOWN` `exit()` ends the process; with it, it throws, and `runMainAndExit`
takes that for a failure (`ReportUncaught`). If that report cannot be written either,
nobody catches the exception (`"terminated"`).

`Distributed` compares the greedy distribution with all ways to share the arguments.
`HelpText` is the order of options in `--help` and the wrapping of text, as functions.
`ArgKeepsCallback` is FALSE for the code as it is, which loses the callback of every
argument (see findings): a parse then crashes at its first argument. With TRUE
that one line is repaired, so that what comes after it can be checked.

## 3. Runs

| Run | Instance | Shows |
|---|---|---|
| `EventLoop` | 3 events, 2 nested calls, `run(1)` and `run()`; disciplined programs without nesting, fair | the list pointers agree and every armed event is reachable (`ListOK`); only live events are queued, every `doneEvent` is alive (`OnlyLiveQueued`), also when events go while they are fired; `WorkIsAnnounced`; the list implements `TurnQueue` (`ImplementsQueue`); of disciplined programs `NoStarvation` |
| `NestedWait` | 2 events, 3 nested calls | violation: see findings |
| `Promises` | 2 pairs; a join among 2 other events, held or awaited at once, taken or kept; 4 chain nodes at a time, reused; trees of 4 nodes; 3 tasks, one of which owns something that acts when it goes, fair | `DeletedByTheLast`, `FirstWordCounts`; `FirstWins` (join); `ChainsAreSound`; `ResultIsRight`, `NothingDangles` (trees); `NobodyForgotten`; `HandlerHearsOnce`, `NothingOutlivesTheLoop`, `TasksEnd` (tasks) |
| `JoinHeld` | the join alone | violation: see findings |
| `ForkHub` | 3 branches, fair | reference count, list and `tailBranch` right around `fire()` (`HubIsSound`); consumers fire once, in order, with the result there (`FiredInOrder`); implements `Fork`; every awaited branch fires (`BranchesResolve`) |
| `Threads` | 3 threads with a lazy value; 2 threads with a guarded value, 2 locks each; fair | `MadeOnce`, `ReadIsSafe`, `DisableIsFinal`; `Guarded`, `JoinTells`; nobody waits for ever (`ThreadsEnd`) |
| `WinEventPort` | 3 observers; a handle with automatic reset, one without, and a mutex; at most 3 handles a call; fair | `ListOK`, `OneSignalOnePromise`, `NobodyStarves` |
| `ReadAtEnd` | an input of 8 bytes, a buffer of 3 | violation: see findings |
| `PiecesLost` | an input of 4 bytes, an array of 3 | violation: see findings |
| `ArgumentLost` | a program with 7 options that clash with each other, with `--verbose` and with `--help`, and up to 2 registrations, as the code is written | violation: see findings |
| `HelpSucceeds` | the same, with the callback of arguments repaired | violation: see findings |
| `Sequential` | 3 objects, 2 of them counted, 2 variables; an arena with an 8-bit `size_t`, 3 allocations; vectors of 3 elements, 3 blocks; 2 `OneOf` and 2 `Maybe`; 3 trees; 5 frames and 3 exceptions; 3 macro arguments of 11 kinds; a file of 7 bytes with buffers of 3 and 2, an array of 5 copied to one of 4; that program with up to 3 registrations and 4 arguments, and descriptions of up to 3 characters on lines of 2 | `OwnedOnce`, `ArenaIsSound`, `ElementsAreKept`, `TagTellsTheValue`, `TreeSaysThePieces`, `ExceptionsAreTold`, `NamesTheArguments`, `CopiedInOrder`, `Distributed`, `ExitCodeTells`, `HelpIsComplete` |

Bounds. The list code only looks at an event and its two neighbours; with three events
there is one at the insert point, one next to it and one outside the queue, and the
proofs below cover any number. Two nested calls let a callback re-enter the loop while
the outer turn is suspended; three are needed only to see a `wait` above a `run` above a
callback. `run(1)` and `run()` are the two ways to leave the loop of `run()`. Two other
events are enough for one before and one between the events of a join. Three branches,
or observers, are one at the head, one in the middle and one at the end of their list,
and fewer at any time. Four chain nodes are a chain that is held, the chain it returns,
the promise that one returns, and a leaf. Four nodes of a tree are a join of two parts
below a function, or a function over an attachment over an eager node. Three tasks are
one whose destruction acts, the one it acts on, and one that is queued beside them. Two
pairs of a fulfiller compete for the queue; they share nothing else. Three threads are
one that initializes, one that waits and one that takes the fast path, disables or
resets; two workers are a reader or writer and another. Two variables and the member of
three objects make a cycle-free chain that a destructor takes apart, with one object
that is counted twice. With a `size_t` of 8 bits, a `Memory` of 30 bytes and requests of
1 to 4, the padding, the header and the doubling each decide a case, and `operator new`
fails where the next chunk would be larger; no request is so large that a sum wraps
around. A capacity of 2 that doubles lets a vector of three elements grow twice. A
buffer of three bytes has a first, a middle and a last byte; a request of up to seven is
more than what is buffered and another buffer-full together; the end of a file of seven
falls inside, at the end of and behind a buffer-full. Four arguments and three
registrations are a required, an optional and a repeated argument with one too many.

Deadlock is not checked where the system may stop: a join after the undefined
behaviour of `JoinHeld`, branches, pairs, nodes, tasks, threads and bytes that are
all used up, a stream or an arena that was destroyed, a process that has exited, and a
port in a `wait()` for handles that nobody signals any more.

Fairness. `LoopSpec` of `MCEventLoop` assumes that the loop makes its next step
(`LoopStep`: the thread executes on), that a callback returns, that
`port.wait()` returns and that `get()` returns. It does not assume that `run()`
or `wait()` is called again, nor anything about arming or destroying.
`NoStarvation` is claimed of disciplined programs, which arm breadth-first:
`async-inl.h:106` and `async.h:198` say that depth-first arming can starve others,
and TLC confirms that it fails with it. `FairSpec` of `ForkHub` assumes that the loop
turns while it has events and that the user's code in `inner->get()` returns; `Tasks`
the first of these. `TasksEnd` says that time and again no task is ready
and unfinished. For the other promises the same question needs no fairness, since
their programs are finite: `NobodyForgotten` says that when the queue is empty nobody who
waits is ready to be served. `Once` assumes that each thread executes on, that
initializers end, and that a thread is not passed over for ever at the lock (strong
fairness of `Lock`), as the platform's lock has a queue; `Workers` that threads run,
functions come to an end and the lock is given to those who wait. `WinEventPort` assumes that
the loop calls the port again and again and that a call goes on; an observer may
starve if every call fails, or if a mutex that stands before it is abandoned again and
again, and `NobodyStarves` excuses both.

`NobodyStarves` holds for a stronger reason than the scan of the handles behind the
one that `WaitForMultipleObjects` chose: a promise that is fulfilled leaves the
list, and a new one enters at the tail, so those ahead of a given observer run out.

Every property of a passing run has a mutant in `PROJECT.json`: an operator,
defined next to the definition it replaces, that is what a plausible bug would
make of the code, and that violates the property.

## 4. Findings

* `JoinHeld`: `ExclusiveJoinPromiseNode::Branch::fire` (`async.cpp:798`) cancels
  the dependency of the other side, not the other branch event. When both sides
  are ready before either branch fires, both branches fire, and `arm()` runs
  twice on the `OnReadyEvent`. If nothing waits yet, the second call takes
  `_kJ_ALREADY_READY`, address 1, for an event. If an array join waits, it counts
  the branch twice and may be ready before its other branches are. A join that is
  awaited from the start by a consumer that drops the node in its `fire()` is
  safe (`FirstWins`): the consumer is armed depth-first and so fires, and
  destroys the other branch, before that one is reached.
* `ReadAtEnd`: `BufferedInputStreamWrapper::tryRead()` (`io.cpp:104`, `io.cpp:112`)
  calls `inner.read()`, which throws at the end of the file, although `tryRead()`
  "may return fewer than minBytes on EOF" (`io.h:61`). What it had read is lost.
* `ArgumentLost`: the constructor of `MainBuilder::Impl::Arg` (`main.cpp:199`) initialises
  `callback` with `mv(callback)`, itself, and not with its parameter `cb`. The callback
  that `expectArg()` and its like are given is lost, and the first argument of a
  command line calls an empty `Function`. `main.h:359` says "Set callbacks to handle
  arguments."
* `PiecesLost`: `FdOutputStream::write(pieces)` (`io.cpp:284`) does not look at how much
  `WriteFile` has written, so a short write loses the rest of a piece, and fails on
  an empty piece. `io.h:80` calls it "Equivalent to write()ing each byte array in
  sequence", and `write()` "Always writes the full size" (`io.h:77`).
* `HelpSucceeds`: under `KJ_CLEAN_SHUTDOWN` the exception of `exit()` is caught by
  `runCatchingExceptions` (`main.cpp:120`) and reported as uncaught, so that `--help`,
  `--version` and every other `exitInfo()` exit with 1. `main.h:42` says "The program is
  considered successful unless `error()` was called", and `main.h:141` that `runMain()`
  catches this exception "and returns normally". `ExitCodeTells` therefore excepts
  `KJ_CLEAN_SHUTDOWN` in one direction.
* `NestedWait`: `run()` neither tests `running` nor restores it; a callback that
  has called `run()` may then call `wait()`, which `async.h:223` and
  `async.h:631` exclude.

Met while modelling, without a run of their own: destroying the last queued event, or an
exception out of `run()`, empties the queue without telling the port (`async.cpp:358`,
against `async.h:573`), which is why `WorkIsAnnounced` speaks of one direction only.
`WinEventPort::poll()` (`async-win.cpp:59`) throws if no promise waits for a handle,
since `WaitForMultipleObjects` refuses zero handles; `Enter` fails then. A message
without a line end is written twice (`main.cpp:76`). An event that is destroyed by its
own callback, which then goes on, is written to by `turn()` (`async.cpp:275`). A loop
that is destroyed with events queued while it is current stays in `threadLocalEventLoop`
(`async.cpp:219-236`). An abandoned mutex fulfils no promise and ends the call
(`async-win.cpp:68`). Of an arena, the order of destruction is not that of `arena.h:59`
(see Arena above). `makeDescription()` misreads character literals, template arguments
and braces (`debug.cpp:68`). Assignment of a `OneOf` whose constructor throws leaves a
tag without a value (`one-of.h:127`), and assignment to itself loses the value
(`one-of.h:52`).

Read but not modelled: `Vector::add(vec[0])` of a full vector refers to the freed block
(`vector.h:75`); move assignment of an `Array` to itself (`array.h:195`); `ArrayBuilder::addAll`
does not check its capacity (`array.h:639`); alignments above that of `operator new` in a
new chunk, and the doubling of `nextChunkSize` near `SIZE_MAX` (`arena.cpp:135`, `152`); the
move constructor of `Exception` loses a literal file name (`exception.cpp:215`); a
`Context` whose `evaluate()` throws is asked again (`debug.cpp:237`); `Debug::syscall` repeats
a call that fails without an error number (`debug.h:333`); a `StringTree` that was moved
from keeps its size (`string-tree.h:49`); `~AutoCloseFd` tests a handle with `fd >= 0`
(`io.cpp:236`); only `detach()` closes the handle of a `Thread`, each time it is called
(`thread.cpp:51`); `assertLockedByCaller(EXCLUSIVE)` accepts another thread's lock
(`mutex.cpp:62`); `ExceptionOrValue::operator=` returns nothing (`async-inl.h:65`).

## 5. Proofs

Every theorem below is of the specification that the run of that component uses
(its safety part where the run adds fairness), for every value of the constants
that the named assumptions allow. TLC evaluates the assumptions in the runs, where
it also found each property to hold that a theorem states (but for the two marked below).

**Event loop** (`EventLoopProofs`), for any finite set of events (`FiniteEvents`), any
turn counts and any depth of nesting. `ListAssumption` says that the head slot and
`nullptr` are not events, `LoopAssumption` that the turn counts are naturals or
`Unlimited`.

| Theorem | States |
|---|---|
| `Invariance` | `Spec => []IInv` |
| `TypeCorrect`, `WaitIsPossibleAgain` | `Spec => []TypeOK`, `Spec => []IdleNotRunning`, which no run checks |
| `QueueIsSound` | `Spec => []ListOK` |
| `QueueHoldsLiveEvents` | `Spec => []OnlyLiveQueued` |
| `PortHearsOfWork` | `Spec => []WorkIsAnnounced` |
| `ListImplementsQueue`, `QueueImplemented` | `Spec => EventQ!Spec`, and `LoopSpec => ImplementsQueue` |

Each of the five list operations preserves `WellFormed`, that is `WellLinked` (each
pointer agrees with its neighbour's) and `AllReachable`. The second is what the
first lacks: a ring of events beside the queue is well linked, and from such a
list no operation would repair it. It is stated without recursion, as closure:
every set of slots that holds the head and follows `next` holds every linked event.
For the refinement a list *represents* a queue when some sequence of the linked
events says where each pointer leads; every operation keeps that, and does to
the sequence what `EventQueue` says. That the walk `AsQueue` finds this
sequence is one induction, over the steps of the walk.

The list says nothing of who is alive, and `~Event` of a `doneEvent` is right only if
no two frames share one, so `IInv` adds the shape of the stack (`FramesOK`): only
`wait` frames run without a limit, the `doneEvent`s of distinct frames are distinct,
and no frame is firing the `doneEvent` of itself or of a frame below it. The refinement
also maps `callback`, the event in the innermost frame if that is in `fire()` (`CallbackAfter`):
when a callback returns, the queue is rewound, and nothing but its own event leaves it.

**Fork** (`ForkHubProofs`), for any number of branches (`ForkAssumption`: the special
pointers are different and no branches).

| Theorem | States |
|---|---|
| `Invariance` | `Spec => []IInv` |
| `ForkListIsSound` | `Spec => []HubIsSound` |
| `BranchesFireInOrder` | `Spec => []FiredInOrder` |
| `ForkImplemented` | `Spec => ImplementsFork` |

Branches are numbered as they are made and appended at the tail, so the list is in the
order of the numbers: the invariant says of each pointer that it leads to the next
linked number, and nothing has to be walked. `HubInv` counts the references by a
set (`Holders`), `BranchInv` relates a branch's cell, the hub's result and the queue,
`OrderInv` says that consumers of lower branches stand before those of higher ones or
have fired. The refinement needs one induction, over the branches that
`HubSignal` arms in one step, and that the walk along `next` visits just these.

**Promises** (`PromisesProofs`). *Fulfillers and tasks*, for any set of pairs
(`FulfillerAssumption`: `None` and `AlreadyReady` are different and not pairs, and `None` is
nothing that can be said) and any finite set of tasks (`TasksAssumption`).

| Theorem | States |
|---|---|
| `DeletionIsRight`, `FirstWordIsHeard` | `Spec => []DeletedByTheLast`, `Spec => []FirstWordCounts` |
| `FulfillersBesideOthers` | the same two of `PromisesSpec`, the system of the run |
| `ConsumersAlwaysHear` | `PromisesSpec => []ConsumerHears`, the fulfillers' part of `NobodyForgotten` |
| `HandlersHearOnce` | `PromisesSpec => []HandlerHearsOnce` |
| `LoopEndsClean` | `PromisesSpec => []NothingOutlivesTheLoop` |

`DeletedByTheLast` has two halves, who deletes the wrapper and what `inner` refers
to, and they need each other: what `disposeImpl()` does depends on `inner`, and `inner` is
right only if each side tells the other. The invariant adds `BornTogether`: wrapper
and promise come into being in one step and nobody owns the wrapper before. The
queue plays no part in this, and the proof does not mention it. `FirstWordCounts` does
need it: a consumer takes its result in the turn that fires its event, so only
consumers of promises that have their result may be queued (`WordInv`). That nobody is
forgotten is the converse, and another induction (`HearInv`): the cell of the
`OnReadyEvent` says which came first, the word or the consumer, and once both have
come the consumer is queued until it has its result (`Met`).

A task's promise may do things when it is destroyed: fulfil another task, detach a
promise, throw. One step may therefore destroy many tasks, and `SetGone` is a fold. The
proof follows the *world* from one destruction to the next by an induction over the
steps of the fold; `WorldOK` says that what is queued is in a set and its promise is
ready. `TasksInv` adds that who failed has ended or is stuck behind a handler that
threw, and that each failure was told once.

*Chains*, for any finite heap (`ChainsAssumption`: the pointers of the chains, that of their
owner, the owner's event, the marker and `nullptr` are different).

| Theorem | States |
|---|---|
| `ChainsAlwaysSound` | `PromisesSpec => []ChainsAreSound` |

`setSelfPointer()` and `onReady()` walk through chains that have become their inner
promise, and `fire()` moves a pointer and destroys nodes on the way. What makes the walk
tractable is part of the invariant: such a chain owns a leaf or a chain in its first
step, never one like itself, so a path goes one step (`PathFacts`) and what hangs below a
node is at most one more. `HeapOK` says that, that nodes have one owner each, and that a
chain in its first step knows where it is owned. It is stated with the places that are
just empty, since `fire()` empties one before it fills it: `HoleFits` finds the hole a
chain leaves, `MovedState` moves a promise into any hole, and `Adopt` and `ChainFinish` are
the two uses. `CellOK` says where the consumer is registered, `EventOK` that what is
queued may fire. `ChainsAreSound` is proved whole: that chains are shortened, too.

*Exclusive join*, for any other events in the loop, held or awaited at
once, kept or taken (`JoinAssumption`: the join's own events are not among the others).

| Theorem | States |
|---|---|
| `FirstAlwaysWins` | `PromisesSpec => []FirstWins` |
| `JoinResolves` | `PromisesSpec => []EJ!Resolves`, the join's part of `NobodyForgotten` |

What makes this inductive is the order of the queue. The winner arms the consumer
depth first, so until the consumer has taken the result no branch stands before it
(`Ahead`); that is why a consumer that goes in its `fire()` is safe, and only that one.
`Branches` says which dependencies are left in terms of who resolved and who
fired first, `Listener` what the `OnReadyEvent` knows of the consumer.

**Threads** (`ThreadsProofs`), for any set of threads, of workers and any bound on their locks
(`OnceAssumption`: `None` is no thread).

| Theorem | States |
|---|---|
| `ReadIsAlwaysSafe`, `ValueIsMadeOnce`, `DisableIsForEver` | `ReadIsSafe`, `MadeOnce`, `DisableIsFinal` of `Once` |
| `OnceBesideWorkers` | the same three of `ThreadsSpec`, the system of the run |
| `LockIsGuarded` | `ThreadsSpec => []Guarded` |
| `DestructorJoins` | `ThreadsSpec => []JoinTells` |

The invariant of `Once` says what holds at each place of `runOnce()` (`PlaceOK`): the
thread that holds the lock sees the value, an initializer runs only while the state
is `UNINITIALIZED`, and whoever is about to read found the state set. `Published`
adds that a value is there whenever the state is `INITIALIZED`. Mutual exclusion
is in `TypeOK`: a thread holds the lock just at the places where the code does.
`Guarded` is inductive together with the types, with `LockedOrEmpty` (a function is at a
place behind the lock just while one of its handles holds something) and with `Unborn`.
`JoinTells` is another induction beside it, which adds that only a `Thread` that is
gone can be touched too late.

**Memory** (`MemoryProofs`), for any objects and variables (`OwnershipAssumption`: the
counted objects are objects, `Nobody` is none), any `OneOf`s and `Maybe`s and types of
value (`HolderAssumption`: no holder is both), any blocks and any capacities
(`ArraysAssumption`: `nullptr` is no block, and the first capacity of a vector is not
zero, or it would never grow), and arenas with any requests, scratch spaces and width of a
`size_t` (`ArenaAssumption`: neither a block that `operator new` finds nor a request with
its headers is half as large as the address space; of an alignment and that of pointers,
one is a multiple of the other, and `operator new` aligns to a multiple of both).

| Theorem | States |
|---|---|
| `OwnedOnceAlways`, `OwnedBesideOthers` | `OwnedOnce`, of `Ownership` and of `MemorySpec` |
| `TagIsRight` | `MemorySpec => []TagTellsTheValue` |
| `ElementsAlwaysKept` | `MemorySpec => []ElementsAreKept` |
| `ArenaAlwaysSound` | `MemorySpec => []ArenaIsSound` |

`OwnedOnce` says that a reference count is the number of owners. For a set of owners
of any size this means little: the invariant adds that it is finite (`Counting`), so
that an owner more or less changes its cardinality by one. The lemmas say how the
owners of one object change when one gives it to another (`OwnerMoved`), when one is
added, and when one goes.

`ElementsAreKept` speaks of an idle vector, and of what is there at any time of a call
that may throw at each element. `ArrayInv` is the link. No two handles hold the same
block (`Held`), and in the block of each there are elements below its `pos` and none
above (`AllBuilt`). `CallInv` says at each place of a call which handles are empty, and
that there is room for what is about to be built (`Enough`): that `grow()` asks for
enough is a lemma (`NewRoom`), and it is what keeps `ArrayBuilder::add` within its block,
which the code only asserts. `ContentInv` says where the vector's elements are: during
the move the first `tmp.pos` are in the new block and the others in the old one. The
lemmas about one block (`SlotBuilt`, `SlotCleared`, `SlotsBuilt`) are about sequences
alone.

`ArenaIsSound` takes three invariants. `SpaceInv` is about addresses: every allocation
is inside what its chunk has used and behind those before it. The arithmetic is in
lemmas of its own, because the solver has no rules for `%` by a variable: what rounding
up does (`UpFacts`), that it commutes with adding a multiple (`UpShifts`), that a
multiple of an alignment is one of its divisors (`Divides`). With them `ObjectPlaced`
says where an object lies behind its header, and `NewChunkFacts` that a new chunk has
room for what it was made for, for which `DoubledFacts` shows that the loop which
doubles the size ends before it wraps: here the assumption is needed, with a larger
request `nextChunkSize` would become 0 and the loop would not end. `OursInv` says that
the chunks to delete are those of `operator new`. `LifeInv` is about destruction: what
was built is either alive (an element that the `count` of its allocation says is there)
or destroyed, once, and every alive object is of an allocation on the list (`LineOK`,
where `Line` is the list with the object that `cleanup()` has just taken off it in
front). Of two allocations on the list the newer was completed later, unless the older
is an array around it (`Stacked`). So what is destroyed next is newest, and what was
destroyed before anything still alive was completed later, or is in such an array
(`OrderOK`, which holds of the past as well). An object under construction is not on the
list, an array is, and what was put on after it is of a later allocation (`FramesOK`):
this is why an array is the only exception.

**Streams and exceptions** (`EffectsProofs`), for a file, buffers, requests and arrays of any
size (`StreamsAssumption`: a buffer that can be filled has room for a byte), and for any
depth of calls and number of faults.

| Theorem | States |
|---|---|
| `AlwaysCopiedInOrder` | `EffectsSpec => []CopiedInOrder` |
| `AlwaysTold` | `EffectsSpec => []ExceptionsAreTold` |

The bytes of a file are numbered, so what a stream holds of it is a run of consecutive
numbers (`IsRun`). The invariant of `StreamCopy` says where each run begins, relative to its
neighbour: what was returned, what the input buffer still has and what the file has; and on
the other side what was written, what the output buffer holds and what is not written
yet. Then no byte is lost, doubled or swapped by a call that throws at any place, and the
boundaries of the buffers need no case of their own. The invariant of `Exceptions` is that
each frame remembers the newest callback below it and the number of exceptions in flight
when it was entered (`StackOK`): for two neighbours the numbers differ by what
unwinding called between them. `ExceptionsAreTold` does not say that a program survives: a fatal
exception that leaves a destructor during unwinding ends it, and the theorem says that a
recoverable one never does. Whom an exception is told is a recursive function along the
chain of callbacks, and that it exists is a lemma: the chain leads outwards.

**WinEventPort** (`SystemProofs`, first half), for any finite set of observers, any handles and
any limit on the number of handles (`PortAssumption`).

| Theorem | States |
|---|---|
| `ListIsSound` | `Spec => []ListOK` |
| `OneSignal` | `Spec => OneSignalOnePromise` |

The invariant is that some sequence of the waiting observers says where every pointer
leads (`HasChain`), and that what a call has still to look at waits, each observer
once, for the handle that the snapshot has (`CallOK`): promises are fulfilled while
the scan goes on, and nothing else leaves the list within a call.

**Command line** (`SystemProofs`, second half), for any options, any handlers and any
number of arguments. `SpecsAssumption` says that a handler's `min` and `max` are
naturals and `min` is not the greater, which is so of the four `expect...Arg()` calls,
the only ones that make handlers.

| Theorem | States |
|---|---|
| `ArgumentsAlwaysShared` | `CommandSpec => []Distributed` |
| `ExitCodeAlwaysTells` | `CommandSpec => []ExitCodeTells` |

The code goes over the handlers once and keeps only the counter `requiredArgCount`, and
`Distributed` compares that with *all* ways to share the arguments, so the invariant
(`Sharing`) relates sums over the handlers: the counter is the sum of what they require
less the sum of what of it they were given; a handler that was passed has all that it
takes, or what was left then was required by those behind it (`Filled`); and once a
handler has got more than it requires, what is left is enough for the others. From these
follow the three facts that the property is made of, each about any other way `d` to
share: with arguments left over there is no `d` (`TooManyForAll`); with a handler that
lacks one there is none either (`TooFewForAll`); and where `d` gives a handler more, it
gives an earlier one less (`FirstGetMost`). That `FoldLeft(+, 0, c)` is the last of the
partial sums of `c`, and that partial sums may be compared term by term
(`SumsCompared`), is proved by `Induction`.

`ExitCodeTells` speaks of the last step and of what happened at any time before. Its
invariant (`ContextInv`) says at each stage what the context has kept of that: while the
program goes on, `hadErrors` is set just if something went wrong, and then stderr has a
word of it, since an `error()` that could not be written has thrown; an exception is on
its way because something went wrong, or of a clean exit. What a message does is a
choice of how many of its calls of `WriteFile` succeed (`Written`).

**Lemmas used by several.** `EventQueueProofs` says what each operation of the queue
does to its elements and to their order, and that it keeps them distinct. It also has
`Induction`, over the natural numbers, stated with a set in place of an operator: the
library's theorems of induction take operators, which the provers cannot instantiate,
but that a nonempty set of naturals has a least element can be cited, and from it
follows induction for any set (`MemoryProofs` has the same lemma, since it knows no
queue). So a walk along pointers or a fold of known length is within reach when it is
written as a recursive function or a community module's fold.

**Model-checked only.**

* All liveness (`NoStarvation`, `BranchesResolve`, `TasksEnd`, `ThreadsEnd`,
  `NobodyStarves`): fairness and `ENABLED` are out of the prover's reach.
* `TreeSaysThePieces` and `NamesTheArguments` are about `RECURSIVE` operators, with
  which the prover has no SMT backend. `HelpIsComplete` of `CommandLine` is about `WrapText`, a
  function by recursion over the text: what it gives for every text is an induction over data.
* `ResultIsRight` and `NothingDangles` are about trees of any shape, by recursion on the
  tree, with a function per node that lists its exceptions and events in order. Of
  `NobodyForgotten` the parts of the fulfillers and of the join are proved, that of the trees
  (`Evaluated`) is not.

## 6. Not modelled

* `function`, `tuple`, `units`, and of `common` all but `Maybe`: type-level code, macros
  and casts; what they have of state is an `Own`.
* Of `string`: printing and parsing of integers, and `String` as an array of characters,
  which is `Array` again. Of `debug`: severities and log lines, and `Debug::syscall`, whose
  loop depends on error numbers of the system alone.
* Of `exception`: the fields of `Exception`, stack traces, and signals.
* `AutoCloseFd`, and a `ReadFile` that fails: what comes after is a broken stream in
  every case, and nothing is promised of it.
* `ArrayBuilder` outside of `Vector`, `FixedArray` and `CappedArray`: arrays without growth or
  ownership.
* Threads with an event loop each, and the checks that refuse a call from a wrong
  one: the code has no way for one loop to reach another.
* The text of messages, and the vendored test framework and build files.
