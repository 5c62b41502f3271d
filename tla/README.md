# A verification of the MUXX executive

MUXX ("Mostly Useless eXperimental eXecutive") is a small multitasking operating
system for the PDP-11: a kernel of C and assembly (`kernel/`), two device drivers
(`drivers/`), a user library (`lib/`) and a few system tasks (`sys/`, `shell/`).
These modules model what it is about: the scheduler and its queues, what a context
switch saves and restores, memory maps, the device and channel services with their
mutexes, task creation with the memory manager, program loading, and the two
services whose arithmetic is delicate, sleep and xcopy.

## 1. Inventory

| Component | State | Operations | Used by |
|---|---|---|---|
| Task queues (`muxx_taskqueues.c`) | header (head, tail, count); `nextInQueue`, `prevInQueue` in every TCB, shared by all queues | `qAddTask`, `qGetTask`, `qRemoveTask` | scheduler, creation |
| Scheduler (`muxx_schedule.c`, `muxx_yield.c`, `muxx_clock_svc.c`, `muxx_switch.s`) | `curtcb`, task status, ready and suspended queue, `clkcountdown` | clock tick, yield, suspend, dispatch | everything |
| Context (`muxx_copytrapframe.s`, `muxx_switch.s`, `muxx_systrap.s`, `MACLIB.s`) | registers, kernel stacks, `TCB.cpuState` | trap and clock entry, `copytrapfp`, switch, return | scheduler, services |
| Memory maps (`muxx_switch.s`, `copyMMUstate`, `muxx_protmem_svc.c`) | MMU page registers, `TCB.mmuState` | load on switch, store on yield, protmem | scheduler, programs |
| Task creation (`muxx_creprc.c`, `muxx_taskinit.c`, `muxx_tctinit.c`, `muxx_fakeproc.c`) | task table, `topspid`, `topupid` | `creprc`, `loadprc` | programs |
| Memory manager (`muxx_memsvc.c`) | MMCB table and its chain, PARs of the tasks | `mem_init`, `getblock`, `setup_taskmem` | creation |
| Mutexes (`muxx_svc_mutex`) | one cell per mutex with the PID of the holder | alloc, dealloc, read | devices, channels, programs |
| Devices (`muxx_drvctl.c`, `muxx_drvinit.c`) | driver table: free, active, alloc, ownerid | register, start, stop, alloc, dealloc | programs, channels |
| Channels (`muxx_channels.c`, `lib_openclose.c`) | I/O table; descriptors in each task's TUCB | open, close | programs, load |
| Transfers (`muxx_readwrite_svc.c`, `ptpdrv.s`) | the tape | read, write | programs, load |
| Loading (`lib_load.c`, `rshell.c`) | task space, `errno` | load, retry | boot |
| Memory copy (`muxx_xcopy_svc.c`) | two windows of the kernel map | xcopy | `loadprc`, programs |
| Sleep (`lib/gen/sleep.c`) | `utimeticks` | sleep | programs |
| Boot and system tasks (`init.s`, `startup.c`, handlers) | - | create, register, suspend, yield | - |

How the parts interact: programs reach the kernel by `trap`; a service runs on the
caller's own kernel stack, at **priority 0**, so the line clock can take the processor
away between any two of its statements. Only code after `setpl7()` is atomic: the
clock handler itself, yield, suspend, the two mutex operations and xcopy. Most hard
behaviours follow from that one fact:

* `creprc` edits the ready queue, the PIDs, the slots and the MMCB table at priority 0;
* a task may be interrupted inside a service, with a second frame on its kernel stack;
* `protmem` stores one page in the TCB and in the MMU with the clock in between, and the
  clock switches without storing the map that a yield does store;
* `open`, `close` and `alloc` rely on two mutexes, one of them taken inside the other;
* a refused mutex does not wait: it returns ELOCKED, with the priority left at 7;
* all loaded tasks read their image from the one tape, and retry while it is taken;
* `sleep` reads a 32-bit counter in two words;
* nothing is ever given back: tasks do not end and memory is not freed;
* there is no idle task: somebody must always be ready.

What makes each component correct: the queues are well formed lists of the right
tasks; the scheduler is a FIFO dispatcher that never finds the queue empty and starves
nobody; a task resumes with the registers, stacks and map it lost; memory chunks are
disjoint and a ready task owns what its PARs map; mutexes exclude and are given back; an
unshareable device has one user; I/O entries and descriptors correspond; a loaded program
is one whole image, and every load ends; a copy copies exactly what was asked; a sleep is
as long as it should be. The hazards, at their lines, are listed in `PROJECT.json`.

## 2. Modules

| Module | Models |
|---|---|
| `TaskQueue` | the queue operations on explicit pointer fields; `qAddTask` also one assignment at a time (`AddStmt`), with `AddRest` for what an interrupted call still has to do |
| `Scheduler` | `curtcb`, statuses, both queues, the quantum and the creation in progress |
| `AbstractScheduler` | what the scheduler promises: a running task, a FIFO, a suspended set |
| `MCScheduler` | the refinement mapping: the FIFO is read off the pointers |
| `Context` | extends `Scheduler`: each of its kernel actions together with what it does to registers, kernel stacks and `TCB.cpuState` |
| `Maps` | page registers in the MMU and in the TCBs; switches, yields, and protmem store by store |
| `Channels` | mutexes, driver table, I/O table, descriptors, and one call frame per task |
| `Loader` | extends `Channels`: `rshell` and `load` in every task, on top of open, close and read, and one tape |
| `MCLoader` | the tapes for its run |
| `TaskCreate` | PIDs, task table, MMCB table and chain, PARs; one frame per creator |
| `MCTaskCreate` | the task types for its runs |
| `Sleep` | `sleep` and the tick, with words of `W` values |
| `XCopy` | one call of `xcopy`, byte by byte, on a small physical memory |
| `SchedulerProofs`, `ContextProofs`, `MapsProofs`, `ChannelsProofs`, `LoaderProofs`, `TaskCreateProofs`, `SleepProofs`, `XCopyProofs` | theorems about the module of that name; the lemmas about `TaskQueue` are in `SchedulerProofs` |

**Actions and code.** `Scheduler`: `ClockTick` is `muxx_clock_handler` with
`muxx_check_quantums`, `Yield` and `Suspend(t)` are the services, `CreateStart` /
`CreateFails` / `EnqueueStart` / `EnqueueStmt` are creprc and loadprc as the queues see
them. `Context` adds `Trap` and `ServiceReturn` (`muxx_trap`, `traphandle`), and for
every switch `copytrapfp` then `SwitchTo` (`muxx_switch`). `Channels`: a service is a
sequence of actions named after its statements (`OpenFind`, `OpenLocate`, ...;
`AllocLock`, `AllocCheck`, `SetOwner`, ...); `muxx_svc_alloc` returns to whoever called
it (`AllocReturn`); `Preempt` is the clock. `ChanUnlock` gives the mutex back and returns
to user mode (the `rtt` changes nothing that others see); the descriptor is stored later, in
user mode, by `StoreFd`, and the clock may come in between. `TransferCall` hands the
kernel whatever the descriptor holds, a null one as well; the kernel then goes wrong
(`halted` is "wild channel") or finds no open channel. `DrvReg` is one step: INIT alone
registers drivers, one after the other. `Loader`: `LoadOpen`, `LoadStore` (`StoreFd`),
`ReadCall`, `ReadCell` (one `ptpread`, which stores the cell: `StoreCell`), `LoadSection`
(what load does after a read), `LoadClose` (`CloseLost` when the image covered the
descriptor), `LoadReturn`, `Wake` (rshell's retry). `TaskCreate`: `Call`, `TakePid`, `BumpTop`, `FindSlot`,
`StoreTask`, then for each chunk `Scan`, `findFreeMMCB`, `Carve`, `Advance`, `Own`,
`MapBlock`, at last `CopyName` (loadprc) and `Enqueue`. `Maps`: `Protmem` validates,
`MaskTcb` .. `SetKernel` are the five stores; the tasks begin with the map of
`muxx_setup_taskmem` (`TaskMap`), INIT with that of `muxx_fakeproc` (`InitMap`): no private
pages, and an access field in the user PDR of the I/O page that is none of the three the
system defines. A step is one statement that touches shared
state, or a loop whose outcome is decided at one moment.

**Breaches.** The code is not correct for every use, so the properties are stated up to
recorded events. `Scheduler` (and so `Context`) records in `breach` that the quantum tore
creprc's enqueue, that a task was suspended from the middle of the queue, or that a task
was suspended that neither ran nor was ready. `Channels` records that a task released a
device that another owned, or one with a channel still open on it. `Maps` records that
protmem was used for another task or for a page that kernel mode needs. In `Loader`,
`Overwritten` are the tasks whose image ended, with its text, its data or its bss, in their
TUCB; in `Sleep`, `torn` says that a read returned a value the counter never had. The passing
runs and the theorems say that nothing else goes wrong.

**Abstractions.** Names and messages are left out; device-name parsing is a lookup. A
register holds a tag (whose it is, of which mode, and a version) instead of a value; R0 and
R1 are one register and R2 to R5 another, the two groups `traphandle` treats differently.
A map is the access field of each page. In `Maps` any ready task may be dispatched. A cell
of a tape is a header or a piece of text or data. The last cell of a task's space is its
TUCB, with the descriptors and errno; what a descriptor holds after an image was stored over
it is null in the model, and a transfer or a close of it may go wrong. `load` adds the three
sizes of a header in a WORD; the images of `Loader` are those whose sum fits one. Descriptors
are the numbers `close` accepts, one more than the table has: `fds` includes the word that
follows the table, which `crt0` clears with the rest of the TUCB. Read and write test no
number at all; those further out are not modelled. In `Scheduler` memory is the
nondeterministic `CreateFails`; in `TaskCreate` the queue is a set. `Scheduler` has one
creation at a time, as INIT and STARTUP have; `TaskCreate` takes any number. Memory is
counted in units of 32 MMU blocks (2 KB), the largest unit in which every size in the code
is whole; `WORD` is 2^16 blocks in that unit. In `TaskCreate` an unended scan is a value of
`halted`. In `XCopy` what a null TCB contains is left open. CPU reset and power failure do
not reach the modelled state: nothing is persistent.

## 3. Runs

| Run | Bounds | Shows |
|---|---|---|
| `Scheduler` | 4 slots, quantum 2, one handler | types, both queues well formed and complete, somebody to dispatch, a suspended task stays suspended, no starvation, a new task runs; implements `AbstractScheduler` |
| `TornEnqueue` | 4 slots | violation, below |
| `Context` | 3 slots, quantum 1 | a task's processor is its own (`ContextPreserved`), a service returns where it was called (`ServiceReturns`), at most two frames on a kernel stack (`StackBounded`) |
| `Maps` | INIT and one unprivileged task; a shared page, a private one and the I/O page; one valid and one invalid access asked for | types (access fields that occur, and where), `RunsOnOwnMap`, `AccessAsAsked`, `KernelMapped` |
| `Channels` | 2 tasks (one privileged), 1 unshareable driver, 2 entries, 2 descriptors, programs lock both mutexes | indexes within their tables, exclusion, ownership, an entry given once, also between an unlock and the store of the descriptor, open descriptors, one user per device, panics only for a taken mutex |
| `OpenPanics` | 2 tasks | violation |
| `Loader` | 2 tasks, 2 entries, tapes of 2 images of 6 kinds (three of them end in the TUCB, by text, data or bss), whole or cut by one cell | nothing stored past the space, whole images, the name intact for retries, the reader and the mutexes released, every load ends |
| `Sleep` | words of 6 values, 2 ticks a second, up to 2 ticks inside a read | `SleptEnough`, `WakesInTime`, `SleepEnds` |
| `XCopy` | pages of 3 bytes, copies of up to 4 | `CopyExact`, `MapRestored`, `HaltsOnlyCrossing` |
| `TaskCreate` | 1 creator, 3 free slots, 8 free MMCBs, 26 units, 2 PIDs of each kind, 11 types | disjoint chunks, nothing lost, complete ready tasks, unique PIDs, refused tasks own nothing |
| `EndlessScan` | the machine's own constants | violation |
| `TwoCreators` | 2 creators, 3 slots, 6 MMCBs | violation |

*Why the bounds are enough.* Four slots give a queue of three, so head, middle and tail
exist while a fourth task runs; a quantum of 2 lets the clock both pass and expire inside
a call. In `Context` three slots are a running, a waiting and a created task; a quantum of
1 interrupts at every step. In `Maps` one task's protmem meets every kind of switch at
every store; both kinds of page (needed by the kernel or not) occur, and page 7 is where
INIT's odd register is. The one valid access asked for (read-only) differs from what every
register but one begins with; sequences of different grants are left to the proofs. Two tasks and one
device meet every pair of statements of the two services and both nestings of the mutexes;
two entries and descriptors allow an open beside an open or closing channel. A second device
or a third task only adds independent copies (checked once: millions of states, no
violation, too slow to keep). In `Loader` two entries let a retry leak one while the other
is in use. The counter of `Sleep` starts at every value, so both its words and the whole of
it wrap in some behaviour, and the arguments cover products that fit, that turn negative and
that wrap to a small number. The pages of `XCopy` are shorter than the longest copy, so
copies inside a page, ending at its end and crossing one all occur on both sides. The
`TaskCreate` bounds make each resource run out first in some behaviour: PIDs, slots,
MMCBs, memory.

*Deadlock* is not checked where the machine may stop: every panic is a final state, and so
is the end of the one call, load or sleep that a module follows.

*Fairness.* `Scheduler`: the clock ticks (weak fairness: it is a hardware interrupt)
and a creation makes progress when its task runs (strong: it is enabled only while the
creator has the processor). `Loader`: every task gets the processor again and again,
which is what `NoStarvation` shows of the scheduler, and a task that keeps getting it
executes its program (strong fairness of both, as each is enabled only while that task
runs); the programs here are `rshell` and `load`, whose every step is modelled. `Sleep`: the
clock ticks, and the sleeper, which loops and yields, is dispatched again (weak fairness).
Where programs may do anything, as in `Channels`, nothing is assumed of them and no
liveness is claimed.

### What the violation runs found

1. `TornEnqueue`: `creprc` enqueues at priority 0 (`muxx_creprc.c:21,43`); a tick inside
   leads to a null `curtcb`.
2. `OpenPanics`: a refused MUT_CHAN is given back and open panics
   (`muxx_channels.c:92-96`); two tasks that open at the same time stop the machine.
3. `EndlessScan`: a new MMCB is linked to itself (`muxx_memsvc.c:56-57`); the first
   request that does not fit loops for ever. Putting the two links in order makes
   `RefusedOwnNothing` fail instead (that is its mutant): the chunks a half-created task
   already has would then leak.
4. `TwoCreators`: nothing guards the memory manager (MUT_MCB is never used).

### Other disagreements met while modelling

They are in the models as the code has them; the properties are stated around them.

* `muxx_qRemoveTask` never updates the predecessor's `nextInQueue`
  (`muxx_taskqueues.c:58`): a task suspended from the middle of the queue runs again. If it
  had never run, it is then dispatched with no PC on its stack, since only the status INIT
  makes `muxx_switch` push one.
* The head of the ready queue, too, may be suspended before it ever ran
  (`muxx_systrap_svc.c:101`): the new status replaces INIT, and with it goes the PC the task
  should start at. The proof of `ContextPreserved` met this; the run, with three slots, does
  not reach it, with four TLC does.
  `ContextPreserved` names the case (`SuspendedUnrun`). It does no harm only because a
  suspended task is never dispatched again (`SuspendedForever`).
* Anybody can release a device: the privilege test is inverted and does not protect the
  stores that follow (`muxx_drvctl.c:127-132`).
* A failed open keeps its I/O entry (`muxx_channels.c:50,84`). Loading goes on nevertheless:
  the entry of the task that has the reader always comes back (`LoadEnds`).
* Close panics like open when a preempted task is inside alloc and MUT_DRV is refused
  (`muxx_channels.c:114-117`).
* `protmem` does not force the YIELD its comment promises (`muxx_protmem_svc.c:12-13`); it
  stores into the MMU, for another task's page as well, and gives the kernel's PDR the
  access of the user's.
* `load` returns 0 after every error but those of open (`lib_load.c:64-67`); `rshell` prints
  "Load OK" and calls the entry point, which may be null (`rshell.c:24-28`).
* An image as large as the space passes the test (`lib_load.c:40`), although the TUCB with
  the descriptors and errno is the end of that space. Its bss clears the descriptor, its
  text or data overwrite it; the close then fails or follows a wild pointer, and the reader
  is never released.
* `close` takes `fd == IOT_TENTRIES` (`lib_openclose.c:43`) and reads the word behind its
  table. It does no harm while that word is null: nothing but an image over the TUCB writes
  it (`Channels.TypeOK`, whose mutant lets open use it).
* `close` gives MUT_CHAN back before it clears the descriptor (`lib_openclose.c:53`): for a
  while a task has a descriptor of an entry that another open may already have taken.
  `EntriesDistinct` therefore counts a channel from the unlock of its open to the unlock of
  its close (`chan`); the task itself does not use the stale descriptor before it clears it.
* `read` and `write` test neither the number nor the word they find
  (`lib_readwrite.c:8,15`): an unopened descriptor makes the kernel follow a null pointer.
* INIT's user PDR of the I/O page is 0x7F04 (`muxx_fakeproc.c:55`): access 4, which
  `protmem` would refuse. A later protmem of that page replaces it; nothing copies it to a
  kernel PDR (`Maps.TypeOK`).
* `sleep` of 547 s or more (60 Hz) has a product that does not fit an int
  (`sleep.c:21`): a negative one sleeps for years, from 1093 s on it is too short. A torn
  read of `utimeticks` ends a sleep early.
* `xcopy` across a page stops the machine (`muxx_xcopy_svc.c:105-114`): the pointer to the
  PAR is advanced, not the PAR. A copy within the caller is done twice, and ENOPID is
  overwritten.
* The free area, 00700 + 07100, contains the I/O page at 07600 (`muxx_memsvc.c:141,155`).
* The buffer of a driver goes to page 5, "which should always be free", says the comment
  (`muxx_memsvc.c:330-331`), and so it is recorded in the MMCB; the code loads PAR 4
  (`muxx_memsvc.c:337-340`). A medium driver thereby loses its own page 4: it owns the chunk
  and cannot reach it. `ReadyTasksComplete` makes an exception of exactly the page that a
  buffer hides.

## 4. Proofs

The theorems hold for all values of the constants that satisfy the ASSUMEs of the modules:
a table of at least one slot, a null pointer that is no slot, a nonempty set of handler
slots; for `Channels`, at least one task and a null that is none of its objects; for
`Maps`, page numbers below 8 and an INIT that is privileged; for `Sleep`, an even word
size; for `XCopy`, pages of at least one byte; for `Loader`, a reader that is not shareable, a space of at least one cell
and at least one descriptor; for `TaskCreate`, more MMCBs than `mem_init` fills, chunks fixed by
`mem_init` below the free area, addresses that fit a word, and PID ranges in order. TLC
evaluates all of them on the instances of section 3.

Each component has one inductive invariant, which TLC checked on the instance of its run
before it was proved, and one lemma per action.

* **Queues and scheduler** (`SchedulerProofs`). `InductiveInvariant`, `TypeCorrect`,
  `QueuesSound` and `SuspendedQueued`: both queues are well formed lists of exactly the
  right tasks, one task runs (`OneRunning`), the dispatcher finds a task. `ReadyQueueSound`
  alone is not inductive. `IInv` names the contents of both queues (`QueueInv(rs, ss)`)
  and adds: the queues share no task; a half-done enqueue belongs to the running task and
  will, when completed (`PendingReady`), give the list `rs`; a task under creation is in no
  queue; every handler that exists runs or waits, which is why a suspending task always
  leaves somebody behind. The lemmas of its first part say what each queue operation does
  to a list (`AddThreads`, `GetThreads`, `RemoveHeadThreads`, `RemoveAbsent`,
  `SearchEndsOnThreads`) and that interrupted statements add up to the whole call
  (`AddRestStep`). `Survives`: without a breach only a full task table stops the machine.
  `SuspensionIsForever` is an action property from the same invariant. `RefinesFIFO`: the
  specification implements `AbstractScheduler`; the mapping reads the FIFO off the pointers,
  so each action needs that walking a well formed list gives its contents (`WalkThreads`).
* **Context** (`ContextProofs`). `ContextsArePreserved` and `ServicesReturn` (action
  properties), `StacksBounded`. The argument is that the processor as a task sees it,
  `Virtual(t)`, does not depend on whether the task runs. `CIInv` is the scheduler's
  invariant and, without a breach, three facts of every task: it sees user mode and an empty
  kernel stack, or kernel mode and exactly the frame of its call (`Calling`); if it does not
  run, the frame it was left with is on top of its stack (`Parked`); before its first run it
  is as `muxx_taskinit` left it (`Unrun`).
* **Maps** (`MapsProofs`). `OwnMap`, `AccessGranted`, `KernelPagesKept`, `TypeCorrect`.
  `RunsOnOwnMap` excepts the page a call is changing; when the call ends, so does the
  exception, so the invariant says what the TCB, the MMU and the granted access are at each
  of the five stores (`Stored`), for a caller that runs and for one that was interrupted.
  `TypeCorrect` is not inductive either: protmem copies the user's access to the kernel PDR,
  and INIT's odd field would follow if the first of the stores were not what removes it.
  `FieldInv` says so: past that store the page of the call has one of the three accesses, and
  the MMU has the odd field only where INIT's TCB has it or INIT is just changing it.
* **Channels** (`ChannelsProofs`). `MutexesExclude`, `OwnersMatch`, `TypeCorrect` from
  `IInv`: every frame is consistent with its service (`CallSound`), a task inside a guarded
  section is the one in the mutex cell (`LocksHeld`), and what owner and flag are at each
  statement between the two stores (`Ownership`). On top of it, `EntriesGivenOnce` and
  `DescriptorsLeadToDrivers` from `EntryInv`: an entry belongs to at most one channel
  (`chan`: the descriptors with the store that an open or close still has to make), a task in
  open or close is there alone, and its entry is its own until it gives the mutex back.
  `DevicesExclusive` and `PanicsOnlyForLocks` from `DeviceInv`: what open and close have
  done to the device at each of their stages, and that, without a breach, who has a channel
  on an unshareable device owns the device.
* **Loading** (`LoaderProofs`). `LoadsWholeImages`, `NameStaysIntact`, `ReaderReleased`,
  `LoaderTypes`, for any number of tasks, any tapes, any sizes of the tables, and images that
  end anywhere in the space, the TUCB included. A task that
  reads has a channel on the reader, so by the invariants of `Channels` it owns the reader,
  and nobody else moves the tape between its header and its last cell. Those invariants need
  the absence of breaches, which programs in general do not promise; here it is part of the
  invariant (`Channel`): load closes the one channel it opened, whose entry allocated the
  reader. `LIInv` adds, for every task, what `rshell` and `load` know of the call in
  progress, of the descriptor and of the owner of the reader (`Phase`), and that what is
  stored is the beginning of the image whose header was read, with the tape right behind it
  (`Content`). A panic leaves the phase of the running task in the middle, so `Phase` is
  claimed of it only while the machine runs; the other tasks keep theirs.
* **Creation** (`TaskCreateProofs`). `ChunksNeverOverlap`, `NoMemoryLost`,
  `ReadyTasksAreComplete`, `PidsNameOneTask`, `RefusedOwnsNothing`, `TypeCorrect`, each under
  the hypothesis `OneCreator`: with two creators it is false (run `TwoCreators`), and INIT
  and STARTUP create one after the other. The invariant: the chunks lie side by side from
  the start of the free area to the one free entry; after the first chunk the chain of links
  ends in a cycle; PIDs given are below their counter; what the creator still has to ask for
  and what it has mapped make up the task. `RefusedOwnsNothing` holds for the reason
  `EndlessScan` shows: a request that does not fit never returns, so every refusal comes
  before the first chunk.
* **Sleep** (`SleepProofs`). `NeverEarly`, `NeverLate`, for every word size, frequency and
  number of ticks inside a read: unless a read was torn, the wrapped difference of counter
  and start value lies between the ticks since that value was complete and the ticks since
  the call.
* **XCopy** (`XCopyProofs`). `CopiesExactly`, `RestoresTheMap`, `HaltsOnCrossing`, for every
  page and copy size: the invariant ties windows and offsets to addresses while neither
  side has left its page, and says which bytes are already there.

Only model-checked: liveness (`NoStarvation`, `NewTaskRuns`, `MutexReleased`, `LoadEnds`,
`SleepEnds`), which is outside the reach of the prover: it needs fairness and ENABLED.

## 5. Not modelled

* `bsdlibc/`: the sources of the 2.11BSD library, two thirds of the lines of the repository.
  They are third-party code and no part of the MUXX build (the `Makefile` enters `h`,
  `kernel`, `drivers`, `lib`, `shell` and `sys`).
* The heap: `malloc` is 2.11BSD's too, and `sbrk` grants no memory, so no heap ever exists.
* Console output, kernel printing and dumps, `printf` and the rest of `lib/`: formatting and
  polled output. CPU traps print and halt.
* The callbacks of the punch and the printer: they poll a status register and change nothing
  of MUXX; the reader's are modelled. `buffered` I/O is unreachable.
* The parsing of device names (`muxx_locate_pdev`), the parameter copy of the trap entry,
  services that return ENOIMPL, `gettpi` (it copies a TCB), `pcopy` (no caller).
* The boot code before the first task, `exp/`, `servers/`, `simh/`.

## 6. Plan

All components of section 1 are modelled, and every safety invariant, action property and
refinement that a run checks is stated by a theorem; liveness stays with TLC. What could
follow is not in the present properties: a `Scheduler` with two creations at a time, images
whose sizes wrap a WORD, and, should the code be repaired where section 3 names a
disagreement, the same theorems without the exception made for it.
