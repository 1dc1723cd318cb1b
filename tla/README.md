# Verification of the ChibiOS/RT kernel and the sensor application

The repository holds a fork of ChibiOS/RT 2.7 (`src/sandbox/ChibiOS-RT`), a
preemptive real-time kernel for single-core microcontrollers, and an application
on top of it (`src/sandbox/chibios`): a vehicle device that reads pressure,
temperature and lamp signals, keeps a configuration in flash and talks to a
console or a JSON client. Most of the risk is in the kernel's synchronisation
objects: they are short, their steps interleave with timers and interrupts, and
the repository's tests run one schedule of each. They are modelled first. In the
application it is in the code that runs in callbacks and in what survives a power
failure.

Paths below without a directory are in `os/kernel/src` (kernel) or
`genist_common` (application).

## Inventory

| Component | State | Operations | Hard because | What makes it correct |
|---|---|---|---|---|
| Scheduler (`chschd.c`, `chlists.c`) | ready list in priority order, running thread, slices | ready, sleep, wake, reschedule, yield, epilogue of an interrupt | every service composes them; insertion before or behind equals differs | ready list = READY threads, sorted; highest priority runs |
| Mutexes (`chmtx.c`) | owner, queue by priority, owned list per thread | lock, try, unlock, unlock all | priority inheritance through chains of owners, re-queueing in every queue | owner and lists agree; inherited priority is exact |
| Condition variables (`chcond.c`) | queue by priority | wait, timed wait, signal, broadcast | release, wait and relock are one call with two sleeps; timeouts | no lost wakeup; mutex held unless timed out |
| Semaphores (`chsem.c`) | counter, FIFO or priority queue | wait, timed wait, signal, reset, add, signal-wait | reset and timeout against the same waiter | counts units; each waiter gets one answer |
| Mailboxes (`chmboxes.c`) | ring buffer, two semaphores | post, post ahead, fetch, reset; from threads and interrupts | granted slots are used later and in another order | bounded FIFO/LIFO queue |
| Virtual timers (`chvt.c`) | delta list, system time | set, reset, tick | list changes inside the tick's own loop; wrap | a timer expires exactly in its tick |
| Threads (`chthreads.c`) | states, exit code, join queue | create, exit, wait, sleep, yield, set priority | termination against joining | one exit code, no use after free |
| Registry, dynamic threads (`chregistry.c`, `chdynamic.c`) | list of threads, reference counts | first, next, add, release | memory is freed outside the lock | freed once, never while referenced |
| Events (`chevents.c`) | pending mask, listeners | register, broadcast, signal, wait one/any/all | events between wakeup and run | no event lost or doubled |
| Messages (`chmsg.c`) | sender queues | send, wait, release | rendezvous in three states | one answer per message |
| I/O queues (`chqueues.c`) | ring buffer, counter, waiters | put, get, read, write with timeouts, reset | loops that unlock between bytes | bytes in order, none lost |
| Heap and core (`chheap.c`, `chmemcore.c`) | free list in memory, first free address of the core | allocate, free | split and merge; the request to the core outside the heap's mutex | blocks partition the memory and are merged |
| Memory pools (`chmempools.c`) | stack of objects | allocate, free | nothing between two steps | not modelled |
| Serial driver (`serial.c`, `serial_lld.c`) | two queues, USART enables | start, stop, interrupt handler, notification | enables changed by thread and handler | what is written is sent |
| Ports (`os/ports`) | frames on stacks | context switch, interrupt exit | assembly | external to the model |
| HAL without the serial driver (`os/hal`) | driver state machines | start, stop, transfers | callbacks | not modelled |
| Hazard detection (`hazard_sensor.c`) | flash window, phase, three timers | edge interrupt, three timer callbacks, init | edges between expiry and callback | two bursts enter the mode, silence leaves it |
| Configuration (`db.c`) | items in RAM, one flash page | set, JSON set, save, restore | power failure in the middle of a save | saved means restored; torn pages rejected |
| LED, pressure, analogue inputs | patterns, SPI conversation, sample buffers | threads and driver callbacks | shared without locks | not modelled |
| Console, JSON shell | line buffer | commands | parsing | not modelled |

They interact through the scheduler: a service takes the kernel lock, changes its
object, readies or sleeps threads with the operators of `chschd.c` and ends with a
switch. Timers call back from the tick interrupt with the lock released. Mailboxes
are built on semaphores; condition variables release and take mutexes; the serial
driver is built on I/O queues, the heap on a mutex and the core; dynamic threads are
listed in the registry and answer messages; the hazard detection is built on virtual
timers; timed waits of every kind share
`chSchGoSleepTimeoutS()` and its callback `wakeup()`. `PROJECT.json` lists every
component with its status, and under "hazards" the lines where this code is
exposed, with the properties that watch them.

## Model

**Atomicity.** One core. A kernel service runs with interrupts masked, so it is one
action up to a context switch or to the place where it unlocks. What a thread does
after it slept inside a service (cancelling its timer, relocking a mutex, touching
the mailbox buffer, taking its events, moving the next byte) is an action of its
own, which runs first when the thread is resumed, since it resumes with the kernel
locked. Where the code unlocks in the middle of a call, the rest is further actions:
the tail of `chThdRelease()`, of which every load and store of a link is one,
every byte of a long read or write, every block of a
walk over the heap. Interrupts arrive between services (`isr`), and the switch they
cause happens in the epilogue `IrqExit`. Expiry of a timer and the run of its
callback are two actions, because the tick unlocks in between.

| Module | Models | State and actions |
|---|---|---|
| `ChSched` | `chschd.c`, `chlists.c` | operators on a scheduler state record, named as in C: ready list, running thread, states, priorities, slices |
| `ChMutex` | `chmtx.c`, `chThdSetPriority()`, sleep and epilogue | `m_owner`, `p_mtxlist`, `waitq`, `p_realprio`; one action per service; the inheritance loop is the recursive function `Boost` |
| `ChCond` | `chcond.c` over `ChMutex` | adds the timers of waits and the step in which a woken thread relocks |
| `ChSemOps`, `ChSemKernel`, `ChSem` | `chsem.c`, timed sleeps, `wakeup()` | semaphores and the states of a call as operators on a kernel state; sleeps, expiries, callbacks and the interrupt epilogue; one action per service |
| `CountingSem` | abstract | what a counting semaphore promises; `ChSem` refines it |
| `ChMailbox` | `chmboxes.c` over `ChSemKernel` | buffer with both semaphores; the access after the grant is a step of its own; the history variable `torn` records a reset between the two |
| `MailQueue` | abstract | a bounded sequence that a reset empties, without promise once `torn`; `ChMailbox` refines it |
| `ChThreads` | `chthreads.c`, `chdynamic.c`, `chregistry.c`, `chmsg.c`, the tick with round robin | threads as working areas, reference counts, the doubly linked registry, join lists, message queues; the unlocked tail of a release is the test of the state, for each of the two statements of `REG_REMOVE()` its loads (`LoadOlder`, `LoadNewer`, in either order; the second statement may use a value of the first again, as a compiler may) and its store (`UnlinkNewer`, `UnlinkOlder`), and the free. The history variables `raced` and `stale` record the two uses of the registry that the code does not cover (see "Findings") |
| `ChEvents` | `chevents.c` | listeners, pending masks and flags; a wait of each kind, with the step that takes the events |
| `EventInbox` | abstract | an inbox per thread: every announced event is delivered once; `ChEvents` refines it |
| `ChQueues` | `chqueues.c` | both kinds of queue as buffer, two indices and counter; calls that move several bytes |
| `ByteStream` | abstract | a bounded sequence of bytes, changed at its ends; `ChQueues` refines it for both queues |
| `ChSerial` | `serial.c`, `serial_lld.c` over `ChQueues` | driver state, interrupt enables and the USART; start, stop, the interrupt handler, `notify1()`; the history variable `stalled` |
| `ChHeap` | `chheap.c`, `chmemcore.c` | blocks by address, one action per block visited |
| `ChVTOps`, `ChVTTick`, `ChVT` | `chvt.c`, `chVTDoTickI()` | delta list as a sequence; tick, expiry and callback separately |
| `VTimers` | abstract | a count-down per timer, whose function the tick interrupt calls when it ends; that interrupt resets no timer itself and returns when none is due. `ChVT` refines it |
| `ChHazard` | `hazard_sensor.c` over `ChVTTick` | the variables of the file, edge interrupt, three callbacks, init |
| `HazardHistory` | history variables for `ChHazard` | flashes and silence as the driver sees them |
| `FlashDb` | `db.c`, `FLASH_ProgramWord()` | RAM, page and progress of a save by half words; power fails anywhere |
| `Loops`, `ChSchedProofs`, `ChMutexProofs`, `ChSemProofs`, `ChEventsProofs`, `ChSerialProofs`, `ChThreadsProofs`, `ServicesProofs` | proofs | see below |
| `MC*` | TLC instances | priorities, initial values, symmetry; `MCLive` adds three applications and their fairness |

Definitions marked "Faulty" stand next to the definition they are variants of. No
action uses them; they document which slip each property detects.

## Runs

`tlc -config X.cfg M` for every entry of "runs" in `PROJECT.json`.

| Run | Instance | Shows |
|---|---|---|
| `cond` | 3 threads of priorities 2, 3 and 4, 2 mutexes in both lock orders (so deadlocks of the application occur), 1 condition variable, timed waits, interrupts, `chThdSetPriority(3)` at any time | ownership and queues agree, a mutex goes to the waiter of highest priority, the highest priority runs, no inherited priority outlives its mutex, the timer of a wait never outlives it, what wakes a thread first decides how its wait ends, a wait regains its mutex unless it timed out |
| `live` | the same threads in one of three applications | an owner never runs below its waiters; bounded priority inversion although a middle thread computes for ever; no broadcast is lost; threads of one priority take turns |
| `sem` | 3 threads, 2 semaphores, interrupts that signal, add and reset, under fairness | `ChSem` implements `CountingSem`; no timer survives its wait; a timed wait ends without a signal |
| `mailbox` | 2 threads and interrupt handlers, 2 slots, 2 messages, resets | `ChMailbox` implements a bounded queue and conserves its slots until a reset tears a call |
| `threads` | main, one static thread of higher and two dynamic threads of equal priority, one on the heap and one from a pool, ticks with a slice of 1 | the registry lists every living thread once, counts are the references, every joiner is woken with its exit code, messages are a rendezvous, no freed thread is referenced, with the exemptions below |
| `registry_race` | three threads, the static one iterates | **finding**: a reference raised from zero in the tail of a release |
| `registry_stale` | the same, main iterates | **finding**: an iteration that goes on from a thread that has ended |
| `events` | 2 threads with a listener each, 2 events, broadcasts and signals from threads and interrupts | `ChEvents` implements an inbox; no wait sleeps over an event it asked for; flags are read completely |
| `queues` | 2 readers, 1 of them also a writer, queues of 2 bytes, transfers of 1 or 2, driver started and stopped | both queues are streams; nobody waits for what is there; the transmission does not stop with bytes to send |
| `services` | the heap: 2 threads, 10 units of memory, headers of 2, requests of 0 to 3, static heap and heap on the core; the timers: 3, delays up to 4, time modulo 6 | blocks partition the memory; free blocks are sorted and merged; timers are exact; windows work around the wrap |
| `application` | the hazard mode: window of 4, 2 flashes detect, 3 cancel, turn signals and noise; the database: 3 items of 8 bits, each 2, -1, -20 or 0 | two bursts with a pause between enter the mode, which has its cancel timer; counters, phase, mode and events agree; a successful save is restored, a torn one only if its items sum up to an erased word |
| `flash_torn` | the same database | **finding**: with all zeros stored, a torn page is restored |

In `services` and in `application` two components that share no state are checked one
after the other: the first state chooses one, and the other stays as it is (`MCServices`,
`MCApplication`).

**Bounds.** Three threads are the least with a thread between two others
(inversion), two waiters of one object next to a running thread, and two timed
waits in one tick. Two mutexes are the least for nested locks and chains of owners;
with `SetPrios = {3}` a thread can move to the priority of another one from above
and from below, so that equals occur too. Where no three threads compete for one
place two are enough: a mailbox with two slots and two threads has grants in one
order and accesses in the other; a queue of two bytes with transfers of two fills,
empties and wraps around within a call. `MaxRefs` (2) bounds the references a thread
of `ChThreads` holds, one more than it needs for an iteration that keeps what it
found. `CH_TIME_QUANTUM` is 1 or 2 where ticks are modelled (`threads`, `live`; 2 is
the least with a slice that is preempted in its middle) and 0 elsewhere, where no
property depends on it. Ten units of memory hold three blocks with headers of 2, the
least for a block with both neighbours free. `MaxCnt` (1) bounds the counter of a
semaphore from above (nobody signals beyond it); `MaxDelay` and `TimeRange` are
larger than what tells relative orders of three timers apart. `MaxItems` bounds the
items of the monitor.

In `application` and `flash_torn` a word has two half words of four bits. The items take
the kinds of values the built-in configuration has (`db.c:36-73`): small positive ones,
-1, a negative one (-20 stands for -500) and zero, also all zeros, as a production
database is to be. Their sums collide with the erased checksum in some torn pages and in
some whole ones.

`Threads.cfg` follows a behaviour up to the first step that sets `raced` or `stale`
(`NotExempt` of `MCThreads`). Neither is ever reset and every invariant of this run holds
trivially behind it, so that nothing is left out by it. Two clients, two scanners and
one dynamic thread are explored fully; once the second dynamic thread exists, `FewHolders`
keeps references to main and leaves out messages, so that a registry of five is
explored with creations, exits, removals and an iteration next to each other.

For the hazard mode the times keep
the order of the real ones (sample 2 < off 4 < cancel 9), the off time is longer
than a period of two samples, and `MaxFlashes` caps the history counters above every
threshold they are compared with.

`Queues.cfg` and `Services.cfg` use symmetry for values, and for threads that differ in
nothing. The properties they check with it are invariants and
refinements by steps.

`CHECK_DEADLOCK FALSE` is set in four runs. In the two `registry_` runs that find a
violation, a behaviour ends where a program uses memory that it has given back: what it
does then is not modelled. In `queues` the driver may be stopped
while all threads wait without a timeout for a byte. In `live` the application may
come to an end: the producer adds no item beyond `MaxItems` and everybody waits.
Everywhere else TLC also shows that something can always happen.

**Fairness.** `live`: interrupts return, a woken thread finishes its call and sleeps
end (weak). An owner that gets the CPU again and again leaves its critical sections,
a producer that does adds its items, a consumer takes them (strong, because it may
be preempted every time); nothing is assumed of threads without a mutex. `sem`:
callbacks, epilogues and resumed calls happen (weak), an armed timer expires
(strong: other timers may be served first). The hardware timer and the processor
provide the first kind; what is assumed of an application is what the property is
conditioned on. `EqualsTakeTurns` needs no more than its own premise, that the tick
comes again and again while the thread is ready.

## Findings

**The unlocked tail of a release.** `chThdRelease()` decrements the count under the
lock, and tests the state, unlinks the thread and frees its memory after it
(`chdynamic.c:73-94`). Two things go wrong there.

- `registry_race`: `chRegFirstThread()` or `chRegNextThread()` of another thread raises
  the count from zero again, although `chregistry.c:101-102` promises that the added
  reference keeps the status of the returned thread. The area is then freed under that
  reference, and once more when it is released.
- `REG_REMOVE()` (`chregistry.h:99-102`), in the model too, loads and stores the links of
  the neighbours without the lock. Say the registry is main, idle, s1, d1 and main
  releases d1: it loads d1's older neighbour s1; s1 exits under the lock, which links
  idle to d1; main stores the link of s1, which nobody uses any more, and frees d1. d1
  is still behind idle, with no iteration under way. A second release of a neighbour, or
  a creation, has the same effect. It has no run of its own: replace the invariant
  of `RegistryRace.cfg` by `FreedIsUnregistered` and `Scanners` by `{}` to see it.

`raced` records both: a thread whose count is zero is taken from the registry while its
release is pending, or the links are worked on while another thread is inside an
unlocked removal (`AtOnce`).

**Iterating from an ended thread.** `registry_stale`: a static thread leaves the
registry when it exits, and its own link is not updated any more. `chRegNextThread()`
on a reference to it (legal by `chregistry.c:123-129`: an iteration holds just this
reference while it handles the thread) follows the link to where a thread may have been
freed since. No release is under way. `stale` records that an iteration went on by a
link to a thread the registry does not list, whether it is freed already or not.

`threads` shows, and `ChThreadsProofs` proves, that counts, references,
registry, joins and messages are right in every behaviour up to such a step. Nothing is
claimed of what comes after one.

**A torn page that passes.** `flash_torn`: `dbRestore()` accepts a page whose items sum
up to its last word (`db.c:512`). `db.c:32-33` wants a production database to be stored
as all zeros; when power fails just before the last item of it is programmed, that item
and the checksum are erased, the sum is -1 like the checksum, and the next start takes
zeros and a last item of -1 for the saved database. `application` shows what holds for all
values: the restored items are the factory's, one whole save, or a torn page of that save
with such a sum, and never a mix of two saves.

### Where the code and its comments differ

Seen while modelling. Properties above are stated so that they hold with these
behaviours; the definitions named here let a reader reproduce them.

- `chThdSetPriority()` changes `p_prio` of a thread that holds mutexes when it equals
  the real priority, or when the new one is higher (`chthreads.c:217`), and ignores
  its waiters: an owner whose waiter had an equal or lower priority when it queued
  drops below that waiter when it lowers its own. `chmtx.c:54-56` promises the
  inheritance for every owner. Add `InheritsFromWaiters` to the invariants of
  `Cond.cfg` to see it; in `live` no owner lowers its priority.
- `chMBReset()` does not reach a thread that was granted a message or a slot and has
  not run since (`chmboxes.c:90`). The mailbox then counts more slots or messages
  than it has, for which `FreeCountWithinSize` of `ChMailbox` is a shorter witness
  than `SlotsConserved` without its condition.
- A turn signal re-arms the cancel timer of the hazard mode (`hazard_sensor.c:99`), so
  that the mode outlasts the fourways for as long as somebody indicates a turn, against
  lines 34-35 (`OffCancelsHazard` in `HazardHistory`).
- A first burst of the fourways above the upper limit starts over and is accepted
  (`hazard_sensor.c:208`, against line 23), and detection needs one flash more than
  configured (line 177, against line 22).
- `initHazard()` sets a timer that an edge may have armed since `icuEnable()` (line
  286), which links it into the delta list twice. The model takes `initHazard()` as
  one step and so leaves that edge out; `main()` has the call commented out.
- `sdStart()` with bytes left in the output queue does not switch the transmitter on;
  they are sent after the next write. `stalled` marks that period, and `BytesAreSent`
  excepts it.
- The USART's interrupt handler writes the control register it has read at its begin
  twice (`serial_lld.c:193`), so that the second write undoes the first. No byte is
  lost by it, since the transmitter interrupt stays enabled and finds an empty queue.
- The configured times of the hazard detection are used as they are stored: nothing
  checks that the off time is above the sample delay and the cancel time above the off
  time, which `HazardAssumption` takes from the built-in values (3 s and 15 s, `db.c:62-63`).
  With other orders the mode can be entered without its cancel timer.
- `chTimeIsWithin(t, t)` is always false (`chvt.h:235`); the note above it says always
  true. `WindowsWrap` is stated for windows that are not empty.

## Proofs

All theorems hold for every value of the constants that meets the named `ASSUME` of
the module, not only for the instances of the runs.

**Mutexes** (`ChMutexProofs`; `SchedAssumption` and `MutexAssumption`: finite disjoint
sets, priorities within the range of the kernel). The first part proves
`MutexTypeOK`, `Ownership`, `Queued`, `QueuesSorted` and `HandOffToHighest`. The
inductive invariant `MutexInv` joins these with the consistency of the ready list:
none is inductive alone. That the inheritance loop re-queues a thread correctly needs
that a thread in state WTMTX really is in the queue its `wtobjp` names (`Queued`); that
the next owner is well defined needs `Ownership`; that the head of a queue has the
highest priority needs `QueuesSorted`. The second part proves `InheritsNothingElse` and
`HighestPriorityRuns` (`PrioInv`). The two need each other: `chMtxUnlock()` lowers the
priority of the running thread without rescheduling, and the highest priority still
runs only because the priority that is taken away was inherited from the very thread
that is woken. For the inheritance loop the proof carries an invariant along the chain
of owners, and shows that the chain ends: every turn raises a thread that was below the
caller, so the set `Lower` of those shrinks.

The last part of the module proves the lower bound, `InheritsFromWaiters`
(`OwnersInherit`), on `CondSpec`, so with waits for condition variables. It has a
hypothesis on the application, `OwnersKeepPriority`: no thread lowers its own priority
while it owns a mutex. Without it the code does not keep the property (see "Where the
code and its comments differ"), and with the whole of `CondSpec` it is not an invariant.
The invariant needs nothing more than `CondInv`; the work is in the inheritance loop.
While the loop runs the property is false, but only for the owner that is looked at
next (`Behind`): every turn raises it and moves the gap one owner down the chain, and
at the end of the chain (`ChainEnd`) the gap is closed, either because that thread has
the priority already or because it waits for nothing. For `chMtxUnlock()` it needs
that the new owner is the first of its queue (`ServedByFirst`), and that the priority
the old one falls back to covers the mutexes it keeps (`HandOverServed`).

**Condition variables** (third part of `ChMutexProofs`, on `CondSpec`). The same
guarantees of the mutexes (`WaitsKeepMutexes`, `WaitsKeepPriorities`,
`WaitsHandOffToHighest`), and `NoDanglingTimer` and `MutexRegained`, for waits of any
number of threads on any condition variables. `CondInv` adds to `PrioInv` where a
thread may be between the release of its mutex and the end of its wait (`WaitFits`): it
waits for the condition variable or may run, it does not own the mutex, and only such a
thread has a timer, which fires in an interrupt only. `MutexRegained` needs it because
what `chMtxLockS()` does in `LeaveWait` depends on it: a thread that owned the mutex
already would wait for itself. Steps of the mutexes themselves cannot disturb it, as a
mutex goes only to the running thread or to one in state WTMTX (`OwnerMoves`,
`OutsideWaits`), so their proof is used again as it is. For a broadcast the threads
become ready one by one (`ReadyAllOK`), and no state but theirs changes (`WaitersMove`).

**Scheduler** (`ChSchedProofs`, `Loops`). Facts about ordered lists and about the
scheduler services the actions are built from. The loops of the code are recursive
functions; what they keep in every turn follows from the lemma `Iteration`, which
states the recursion principle for a loop body that is a function on a set of states.
It is proved from the least-element principle, so that no induction theorem with an
operator parameter is needed.

**Semaphores** (`ChSemProofs`; `SemBounds`, `SchedAssumption`). `CountersMatchQueues`,
`NoDanglingTimer` and the refinement `CountingSemaphore`, for any threads, semaphores,
counts and priorities. The first part is about every system on the operators of
`ChSemOps`: `GoodKernel` joins the scheduler invariant, the consistency of counters and
queues, the timers on live stacks and `CallsMatchStates`, which ties the state of a
thread to the call it is in and to what its `p_u` holds. The last is what makes the rest
inductive: `wakeup()` may only trust `wtobjp` because a thread in state WTSEM still has
the semaphore there and not yet a message, and a thread that sleeps without a semaphore
is in no queue. `KernelInv` adds that no timer is between its removal and its callback
while a thread finishes a call, so that a resumed thread always finds its timer armed or
gone. The loops of `chSemAddCounterI()` and `chSemResetI()` carry `GoodKernel` from turn
to turn; within the reset the counter does not match the queue, and `Counted` says by
which counter it would. The second part maps each step to the step of `CountingSem` it
stands for: units and waiters of every semaphore and the outcome of every wait, with
a timeout that removes its waiter wherever it is in the line.

**Mailboxes** (third part of `ChSemProofs`; `MailboxAssumption`). `SlotsConserved` and the
refinement `MailboxIsQueue`, for any threads, messages and size of the buffer. What a
call moves is neither a counter nor a slot but a unit (`Units`): what the semaphore
still gives, plus the grants whose threads have not run since. A call that finds its
unit takes it and gives one to the other semaphore in the same step; a call that waits
moves nothing when it blocks and nothing when it is granted, and both when it goes on;
a timeout moves nothing, because a waiter that times out was granted nothing. So the
sum of both semaphores' units stays `Size`, and those of "full" are the distance of the
two pointers (`MailInv`). The ring buffer needs its arithmetic modulo `Size` only in
`WriteAppends`, `WriteAheadPrepends` and `ReadTakes`. A reset that meets a grant sets
`torn`; of what follows only the bounds of the counters and the consistency of the
semaphores are proved, as the code does no more (see the finding on `chMBReset()`).
The proof uses the first part of the module, which is about kernel states and
does not know what the semaphores are for.

**Threads, registry and messages** (`ChThreadsProofs`; `ThreadsAssumption`,
`SchedAssumption`). `SafeUnlessRaced`, `RefsAreCounted`, `RegistryComplete`,
`JoinersWait` and `Rendezvous`, for any static and dynamic threads and any priorities.
The inductive invariant is `raced \/ stale \/ ThreadsFit`: behind one of the two exempt
uses of the registry nothing is promised any more, not even types, since an area
may then be free and in use at once. The parts of `ThreadsFit` need one another. That a
release frees nothing in use needs counts equal to the references held, including
those that a call in progress holds; that a join finds the exit code needs that an area
which a joiner names is not free; that a freed thread is in no queue needs that join
lists and message queues hold exactly the threads whose state says so. The registry is a
ring of two functions, one the inverse of the other on its members. Insertion at its end
and removal keep that; between the two stores of a removal outside the lock
(`HalfRemoved`) the ring is whole in one direction and one link short in the other, and
the part about the registry is stated for both cases. Each load and store of such a
removal is a step; what has been loaded is still what the links say (`LinksFit`) because
a step that changes them meanwhile sets `raced`.

**Events** (`ChEventsProofs`; `EventsAssumption`). `NoMissedEvent`,
`FlagsAreAnnounced` and the refinement `EventsAreDelivered`, for any threads, events and
listeners and for any number of sources, where the run has one. `EventsInv` says how
the state of a thread goes with its wait (`ThreadFits`): it sleeps exactly while its
events are missing, in WTANDEVT when it waits for all of them, and it may run when they
have come or its timer fired. That is inductive only together with the timers, which
exist for timed waits alone (`TimerFits`): the wakeup of a timer must not be mistaken for
a signal. A broadcast is a loop over the listeners of a source; `Iteration` carries
`SignalInv`, the part about kernel state and pending events, through it, and events only
arrive in every turn (`Arrivals`), so that those of each listener are pending behind the
last. `FlagsAreAnnounced` needs that a listener is with one source (`OneSource`): one that
leaves it is with none, and its flags need no event any more. The second part maps each
step to a step of `EventInbox`, whose boxes are the pending events.

**Queues and serial driver** (`ChSerialProofs`; `QueuesAssumption`, `SchedAssumption`).
`NobodyIsStranded`, `BytesAreSent` and the refinement `QueuesAreStreams`, for any
threads, bytes and sizes of the buffers. The counter of a queue is what threads can
move, so bytes in one queue and places in the other; `Fill` is the number of bytes of
either, and `InStep` says that the write pointer is `Fill` behind the read pointer.
That makes the test of the handlers (equal pointers and a counter that is not zero)
exact (`BlockedAtLimit`), and a write or read an append or a tail of the stored bytes
(`ByteIn`, `ByteOut`). `QueueInv` adds which threads are in which queue (`ThreadFits`)
and `Served`, the property itself: a byte more wakes a thread more, a timeout or a reset
takes threads out of the queue without taking bytes, and a thread takes at most the byte
it was woken for before it either returns or finds the counter at zero. It needs no
fairness and no order of the queue. `SerialInv` adds that only waiting threads have
timers, that handlers run only outside the kernel lock, and `Sending`: the handler
switches the transmitter off only when it found the queue empty in the same step, and
the stale CR1 it writes back at the end of a transmission was read with the interrupt
on. Each step is at the same time a step of both streams (`Streams`).

**Virtual timers** (first part of `ServicesProofs`; `VTAssumption`). `ChVT` implements
`VTimers` for any timers and delays, calls of the timers' functions included. The first part proves what a tick, the removal of
the head, a reset and an insertion do to the time left of every timer, for lists of any
length; an insertion or reset changes it for its own timer only. The invariant `VTInv`
says that no timer is twice in the list, that no delta is negative, and that between
two ticks the head is not due. The last part is what the decrement of the head needs:
without it a timer would pass zero and never fire. `TickDone` establishes it, and
insertions (delays of at least one tick) and removals keep it. `WindowsWrap` needs only
that the system time is in its range.

**Hazard detection** (second part of `ServicesProofs`; `HazardAssumption`: sample delay below the off
time, off time below the cancel time; `HistoryAssumption`). `SumMatchesWindow`,
`EventsTellMode`, `HazardModeIsTimed` and `EntryNeedsTwoBursts` hold for any size of the
window, any thresholds and any times. `HazardModeIsTimed` is about the order of timers:
the mode is entered in the callback of the sample, and the cancel timer runs at that
moment because the edge that armed both gave the sample less time, which every tick and
every restart keeps (`SampleBeforeCancel`). `EntryNeedsTwoBursts` follows from what the
phases remember (`BurstInv`): phase 1 a long burst since the last pause, phase 2 one
before it.

**Heap** (third part of `ServicesProofs`; `HeapAssumption`). `MemoryIsPartitioned`,
`FreeBlocksAreMerged` and the types, for any memory and any number of threads. The
invariant adds where a thread that walks the list may stand: at a free block, in front
of the block it releases, and alone, since it owns the mutex of the heap.

**Configuration** (fourth part of `ServicesProofs`; `FlashAssumption`). A save that returned 0 is
durable for any number of items, any values and any word size. The invariant says that
the words below the loop counter are verified, that they belong to the image being
saved, and that nothing else claims to be durable meanwhile. `FlashTypeOK` needs the
arithmetic of the half words: what is programmed stays within a word.
`RestoresWholeSaves` (`TornPagesAreTold`) follows from what can be on the page at all
(`PageIsTorn`): always a prefix of one save, a word whose halves are each programmed or
erased, and erased words behind it, wherever power, an error or a worn cell stopped the
save. When the whole page is there, its items are those of the save; before that the
checksum is still erased, so a torn page is taken for a configuration only if its items
sum up to an erased word (`LooksWhole`). The theorem assumes nothing about the values; an
additive checksum gives no more, as `flash_torn` shows. The built-in configuration
of 42 items has no such torn page, an all-zero one has.

**Only model-checked:** no safety property of a passing run. Liveness under fairness
(`TimedWaitsEnd`, `InversionIsBounded`, `ConsumersAreWoken`, `EqualsTakeTurns`) and
ENABLED are out of the prover's reach; so is induction over data, for which the lemmas
about delta lists and loops stand in where it was needed. One theorem has a
hypothesis besides the assumptions on the constants, `OwnersInherit`: without it the code
does not keep the property, as shown above.

## Coverage

The map covers the kernel services and the two application files that were chosen,
function by function. Measured against the whole repository that is little: the bulk
of its lines are register definitions and drivers of microcontroller families, ports
to other processors, third-party libraries and generated board files, none of which
is logic of this program that a state machine could say something about.

## What the abstractions leave to other properties

- `MailQueue`, `ByteStream` and `EventInbox` allow a call that has no effect, as every
  refinement allows stutters, and `MailQueue` lets a post choose either end. That no
  message, byte or event is lost is said by `SlotsConserved` (the counters and the
  buffer), `NobodyIsStranded` and `BytesAreSent`, and by `NoMissedEvent` and
  `FlagsAreAnnounced`. A `chEvtSignal()` without any effect is the one loss that no
  property of `ChEvents` tells from a stutter; that of a broadcast shows in its flags.
- `VTimers` does not say who resets a timer, only that the tick interrupt does not.
- `ChHazard` takes each callback as one step. `chVTSetIsr()` unlocks in its middle; the
  edge interrupt, the only other code that touches these variables, cannot come between
  because it has the priority of the callbacks or a lower one.
- `ChSerial` has its writers in threads, none in an interrupt handler of a priority
  above the USART's: such a handler could also run between the read of CR1 and
  its write at `serial_lld.c:193`.

## Not modelled

- `chThdTerminate()` sets a flag the application polls, `chThdSleepUntil()` computes a
  delay (as an unsigned difference: a time that has just passed is a sleep of nearly
  the whole range). Memory pools, binary semaphores, `chEvtDispatch()`, the event timer
  and the debug checks have no state, or no step between two states, that the modelled
  parts do not have. The state checkers hold by the locking discipline of the model.
- Ports and drivers of the HAL other than the serial driver: registers and assembly.
- Pressure sensors (`pressure.c`) and LED blinker (`led.c`). `main()` has the start of
  both threads commented out (`app/main.c:96-97`), and what they would command
  (`SendEvent()`, `ActionError()`, the state machine) is not in the repository. Each is
  one loop between sleeps; what reading it showed: a pressure that falls from high to
  below the lowest threshold is reported as low and then as middle within one turn,
  since an `else` is missing (`pressure.c:645-654`); both sensors are the same SPI driver
  (`mcuconf_v5.h:258` and 262), so that the check of the supply pressure compares
  two readings of the load sensor; the second branch of that check repeats the first
  condition, so that a high supply pressure is never reported; `CalcChartDelta()`
  advances its index twice per turn and so divides the sum of two pairs by four; a load
  of 200 or less blinks as 800 000 (`led.c:258-292`), because the branch does not set its
  flag; the blinker reads the three colours of a code seconds apart, with updates of the
  pressure thread in between, so that what it shows may mix the codes of two loads.
- Analogue inputs (`sdadc.c`, `rtd.c`): a conversion fills a buffer and its callback
  signals a binary semaphore, which is a semaphore with a bound; the rest is scaling.
- Parsing and printing (console, cJSON, `chprintf`), vendor demos and scripts.
- The receiver of the hazard events is not in the repository: `SendEvent()` is external.

What a next step would take up, in this order: the pressure thread and the blinker
once they are started; the other drivers of the HAL that the application uses (SPI and
ADC), over binary semaphores.
