# Verification of GenericTarget

GenericTarget runs code generated from a Simulink model as a real-time
application on Linux. A process starts one thread per rate of the model and a
master thread that waits for a periodic clock and wakes them; the blocks of the
driver library (UDP and TCP communication, data recording) add threads of their
own. Everything interesting about the program is concurrency between a few
threads of one process: flags without locks, counting semaphores, descriptors
that one thread waits on and another closes, buffers handed over between
threads, and an orderly start and stop of it all from every point of failure.

This directory holds TLA+ models of that part, the TLC runs that check them and
proofs checked by TLAPS. `PROJECT.json` has, for every definition, the source
lines it models, and lists runs, mutants, hazards, findings and theorems.

## 1. The system

| component | source | state | operations | used by |
|---|---|---|---|---|
| Periodic task | `src/core/code/GenericTarget/GT_PeriodicTask.cpp/.hpp` | `m_started`, `m_terminate`, `m_jobPendingOrRunning`, `m_ticks`, `m_offsetSamples`, `m_numTaskOverloads`, a semaphore, a thread | Start, Stop (main thread), Notify (master thread), Thread (worker) | scheduler |
| Periodic timer | `GT_PeriodicTimer.cpp/.hpp` | `m_isRunning`, overload counters, timerfd, eventfd, epoll | Start, WaitForTick (master), Cancel, Stop (main) | scheduler |
| Base-rate scheduler | `GT_BaseRateScheduler.cpp/.hpp` | `m_tasks`, `m_terminate`, `m_started`, the master thread, the clock | Start, Stop, MasterThread, overload and execution-time queries | application, model |
| Application | `GT_GenericTarget.cpp/.hpp` | `m_semaphoreInitialized`, `m_semaphoreTerminate`, signal handlers | Run, Initialize, Terminate, ShouldTerminate, CrashHandler | main(), model, scheduler, drivers |
| Application socket | `GT_AppSocket.cpp/.hpp` | an abstract Unix socket whose name only one process can have | Open, Close | application |
| Model interface | generated code (external) | state of the model | Initialize, Step, Terminate | application, tasks |
| Data recorder | `src/library/drivers/GT_DriverImplementationDetails.*` (123-441) | `m_buffer`, thread-local buffer, event, file number, samples in the file | Start, Stop, Write, thread | model (blocks) |
| Data recorder manager | same file (424-738), `GT_DriverDataRecorder.cpp` | list of recorders by ID, directory of the run, index file | AddDataRecorder..., Write..., ClearAllDataRecorders | model (blocks) |
| Event | same file (7-122) | semaphore | Notify, Wait | recorder, UDP, TCP |
| UDP service, manager | same file (1212-1625) | socket, binding state, multicast groups, priority, management thread | Create, Initialize, Terminate, SendTo, ReceiveFrom, UpdateMulticastGroups | model (blocks) |
| TCP client service, manager | same file (1627-1960) | socket, connection state, command, buffer, thread per connection | Create, Initialize, Terminate, Send, Receive | model (blocks) |
| Socket wrappers | same file (740-1210) | a descriptor | thin system-call wrappers | UDP, TCP |
| Time, arguments, overload, thermal drivers | `src/library/drivers/GT_Driver*.cpp` | statics of ModelExecutionTime, else none | Initialize, Step, Terminate | model (blocks) |
| S-functions | `src/library/drivers/SFunctionGTDriver*.cpp` | dialog and run-time parameters, widths of ports | mdlCheckParameters, mdlInitializeSizes, mdlStart, mdlOutputs, mdlTerminate, ... | Simulink |
| Code generation, decoding | `src/core`, MATLAB | none at run time | host side | - |

How they interact. `main()` calls `GenericTarget::Run`, which installs signal
handlers, opens the application socket, initialises the model, starts the
scheduler and waits on a semaphore; afterwards it undoes all that in reverse
order. The scheduler's master thread blocks in `WaitForTick` and calls `Notify`
of every task, which posts the semaphore of a task that is due; the worker calls
the model's `Step`. A step calls drivers (`DataRecorder::Write`, `Send`, ...),
may read the statistics of the scheduler, and may, like every thread and every
signal handler, call `ShouldTerminate`, which posts the semaphore `Run` waits on.
A block of the library calls its driver through an S-function when the model is
simulated in Simulink, and through generated code with the same arguments on the
target. The drivers are the same code in both; their managers and clocks are static.

What is hard to get right, and what makes each part correct:

* **Periodic task** - Notify, Stop and the worker share flags and a semaphore
  without a lock. Correct: each activation is at its exact tick and is run once
  or counted as an overload; the flag and the semaphore agree; Stop returns.
* **Clock** - cancellation races with the wait. Correct: a cancelled wait
  returns, and every expiration is delivered or counted as lost.
* **Scheduler** - starting may fail half way with threads already running, and
  stopping must take the threads down in an order in which nobody touches what
  is gone. Correct: ticks reach all tasks, no use after stop, Start and Stop
  return and leave nothing behind, no thread dies unnoticed.
* **Application** - termination requests come from anywhere at any time,
  several processes start at once, processes crash. Correct: one model on the
  target, no request lost, the semaphore is used only during its life.
* **Data recorder** - two buffers, an event that swallows notifications, file
  operations that fail. Correct: samples reach the files once and in order, no
  sample is left waiting, Stop writes the rest and returns.
* **UDP / TCP services** - a management thread that connects or binds while steps
  send and receive. Correct: no notification is missed, the flags that are read
  without asking the kernel describe the socket, sockets do get bound and
  addresses do get served, Destroy returns wherever the thread is.

* **Blocks** - widths are fixed when the model is compiled, parameters may change
  afterwards, and what the drivers keep is shared by all blocks and outlives a
  simulation. Correct: a driver never leaves its buffers; a block gets the recorder or
  service it asks for, or the application ends; nothing of one run reaches into the next.

The complete list of hazards, each at its line, is in `PROJECT.json`.

## 2. The modules

| module | models | proofs |
|---|---|---|
| `TaskSchedule` | abstract: the arithmetic schedule a task promises (tick `offset + n*sample`, run or overload) | - |
| `PeriodicTask` | `PeriodicTask`: Start, Stop, Notify, the worker | `PeriodicTaskProofs` |
| `PeriodicTimer` | `PeriodicTimer` with the kernel's timerfd, eventfd, epoll | `PeriodicTimerProofs` |
| `BaseRateScheduler` | `BaseRateScheduler`; composes `PeriodicTask` and `PeriodicTimer` by INSTANCE | `BaseRateSchedulerProofs` |
| `Application` | `GenericTarget` and `AppSocket`, several processes | `ApplicationProofs` |
| `DataRecorder` | `DataRecorder` (both variants), its thread, `Event`, the files | `DataRecorderProofs` |
| `TCPClientService` | one `TCPClientService`: steps, management thread, its socket, the server | `TCPClientServiceProofs` |
| `UDPServices` | the `UDPService`s and `UDPServiceManager`: initialisation, steps, management thread, sockets | `UDPServicesProofs` |
| `SFunctions` | the callbacks of the 14 S-functions, three tables per file | in `DriverBlocksProofs` |
| `DataRecorderManager` | `DataRecorderManager`: the list, the directory, the index file | in `DriverBlocksProofs` |
| `DriverBlocks` | a model of library blocks, simulated or on the target: composes `SFunctions` and `DataRecorderManager` with the drivers and the service managers' lists | `DriverBlocksProofs` |
| `MCPeriodicTask`, `MCBaseRateScheduler`, `MCDriverBlocks` | values of constants for TLC | |

State variables have the names of the members they model. Variables that stand
for where a thread is inside a function (`thread`, `caller`, `posting`, `main`,
`master`, `waiter`, `canceller`, `writer`, `pc`) cut each function at its
points of interaction: an action is what a thread does between two accesses to
state that others can see. Variables marked "history" exist for properties only,
or to bound the model. Operators commented "Mutant" are not part of a
specification: each is a plausible bug that `PROJECT.json` puts in place of the
definition after it, to show that the property named there would notice.

**PeriodicTask.** `Start`, `StopBegins`/`StopPosts`/`StopJoins` (flag, token,
join with everything after it), `Notify*` (which of the two counters has elapsed;
the compare-exchange; the post, separately, because the worker can run in
between) and the worker's `WaitForNotification`, `WaitFails`,
`ThreadTerminates`, `StepBegins`, `StepReturns`. The return of the model's step
and the clearing of the flag are one action: only the worker knows when the step
is over. A retry after EINTR is no step. In a DEBUG build a priority that cannot
be set is ignored, which is `StartWorker` of the scheduler.

**PeriodicTimer.** The counter of the timerfd is `expirations`, the eventfd
`cancelEvents`; `WaitForTick` is cut at epoll_wait and at the read; `Cancel` at
the exchange of the flag. Periods and absolute times are left out.

**BaseRateScheduler.** Main thread and master thread, as program counters over
the actions of the two instances. `StartWorkerFails` is a task without a
semaphore, `StartWorkerNoPriority` with `UndoStart` one whose priority cannot be
set; `StartMasterNoPriority` goes through the whole `StopMasterThread` while the
master is anywhere in its start. Exceptions of std::thread are not modelled.

**Application.** One program counter per process through `Run`, one action per
call; the scheduler and the drivers appear by what they promise: their threads
are gone when Stop and Terminate return, which is `CleanEnd` of the scheduler's
run for the former and external for the latter. `Crash` covers the crash
handler's `_Exit`, SIGKILL and SIGINT before the handlers are installed; the kernel then
takes the descriptors back. Output, the return code and static destructors are
left out. A signal handler runs on any of the threads that exist and suspends it.

**DataRecorder.** Samples are numbered in the order of `Write`; a file is the
sequence of its samples. `ThreadWrites`/`ThreadWriteFails` are one turn of the
loop in `WriteBufferToDataFiles` each, `Flushes`/`FlushFails` the same turns under
`FlushBuffer`. A file operation may fail in each way the code can meet:
no header, no open, a write that stops half way, a close that fails.
Byte formats are left out. Files of an earlier run, which are overwritten by
intention, do not exist in the model.

**TCPClientService.** What `Send`, `Receive`, `ManagementThread` and `Destroy` do under
`m_mtxIO` is one action. `Connect()` holds no lock, so it is one action per
system call (`ThreadOpens`, `ThreadSetsUp`, `ThreadConnects`, `ThreadConfigures`,
`ThreadMarks`), each of which can find the socket closed by `Destroy`
(`ConnectFails`). `server` is what the kernel has the socket connected to, which the
program never looks at. A block that does not manage the connection behaves like
one that repeats the command that is set. The manager only creates and destroys
services that share nothing, so one of them is enough. Payload, error numbers
and socket options are left out.

**UDPServices.** Services are numbered in the order of their creation. `portBound` and
`memberships` are the kernel's view of a socket, `m_isBound`,
`m_attemptToBindStatus` and `m_currentlyJoinedGroups` the program's.
`AttemptToBind` is one action because only its caller can see what is between its
calls. A step is cut between what it does without a lock and with it (`task`): the test of
`m_threadStarted`, the store and the notification; and in a transfer the test of `m_isBound`
(`FindsBound`, with `using` for the service it found bound) and what follows under `m_mtxIO`. Lists of
groups are sets, which `MakeUnique` makes them, and `ValidGroups` is
`RemoveInvalidGroupAddresses`. The pause of 100 ms between two rounds only takes
time. A service asked for again with another configuration is refused to no
effect, which is left out.

**SFunctions.** The files are generated from one template and differ in tables: what
`mdlCheckParameters` asks of each parameter (`...Dialog`), which parameters are fixed and how
wide the ports are (`...Sizes`), and what each call hands to the driver (`...Calls`). The
callbacks all files share are operators over these tables and carry the callbacks' names. A
value is a class, dimensions and elements.

**DataRecorderManager.** `AddDataRecorder` is the whole of `AddDataRecorderScalarDoubles` or
`AddDataRecorderBus`: path, directory, search, start, append and index file, each of which can
fail. A recorder is what the manager needs to know of it (ID, type, size, whether it was
started) and the blocks whose samples it took; what it does with them is in `DataRecorder`. A directory
is the number of the run it is named after: that two runs do not start in the same
millisecond is assumed.

**DriverBlocks.** Simulink is the environment: dialogs are edited between runs (`Edit`), checked and
compiled (`CompileFails`, `Compile`), every block is started, stepped in any order, has its
tunable parameters changed (`Tune`, in a simulation only), and is terminated. `build` is a
simulation, a release build for the target or a DEBUG build, in which failures of sockets are
ignored; recorders that cannot start end the application in both. `services` has a list per kind
of socket because each kind has a manager. `Reach` says how many
elements a step touches behind each pointer, `Extent` how many there are. The step of a
driver without state changes nothing, so only those with state are actions. `BlockConstants` assumes
of what a dialog can hold only what the masks in `GenericTarget.slx` see to (`MaskPasses`): a
text is not shorter than the length that goes with it, and a count is not negative. The sizes
of receive buffers are not converted by a mask; a negative one is refused by the socket (`Receivable`).

The socket wrappers appear in `TCPClientService` and `UDPServices` as operators on the kernel's state:
`OpenSocket`, `BindPort`, `ConnectSocket`, `CloseSocket(s)`, `ChangeMemberships`.

## 3. The runs

Numbers are distinct states. All runs fit in well under a minute.

| run | instance | states | question |
|---|---|---|---|
| `task` | one task, sample time 2, offset 1, 8 ticks | 725 | does a task keep its schedule, its tokens and its promise to stop, under all interleavings? |
| `timer` | 5 expirations per start, any number of restarts | 2 764 | are ticks accounted for, and does Cancel always wake the waiter? |
| `scheduler` | 2 tasks (every tick; every 2nd with offset 1), 3 ticks | 63 164 | do main, master, workers and clock start and stop together safely? |
| `application` | 2 processes, 2 requests each per life | 6 048 | one model on the target; are requests never lost? |
| `recorder` | 2 samples per file, 5 samples, 2 failing operations | 62 395 | do samples reach the files, in order, through failures and Stop? |
| `tcp` | 2 servers and no server, no bounds: all behaviours | 1 143 | is no command and no lost connection missed; is a half-open socket never used; does Destroy return? |
| `udp` | 2 services, 2 tasks, 2 groups, 2 failing calls | 25 853 | do flags and group lists describe the sockets, and does each open socket get bound? |
| `blocks` | 5 models of 2 to 5 blocks, 3 builds, 2 runs, 1 failing call, 3 ticks | 17 056 | do drivers stay in their ports, do blocks get what they ask for, does nothing survive a run? |
| `late_step`, `samples_per_file`, `unchecked_close`, `stale_connection` | as above | - | the four findings below |

What they show, property by property:

* `task`: `ExactSchedule` (the activations are those at ticks offset, offset +
  sample, ...; each completed, held or an overload), `TokenMatchesJob` (the flag
  and the tokens agree, also while Stop adds its own),
  `AcceptedJobCompletes`, and `ImplementsSchedule`: the task is a
  `TaskSchedule` under the mapping of its flag to `busy` and its notifications to `tick`.
* `timer`: `TickAccounting` (an expiration is delivered, counted as lost or still to be
  read), `CancelWakesWaiter`.
* `scheduler`: `TasksLiveWhileUsed` (no notification of a task that does not
  run, and the unlocked read of `m_tasks` in a step), `TicksReachAllTasks` (also the tick
  during which a Stop or a request to end comes),
  `AtMostOneLateStep`, `CleanEnd`, `StartAndStopReturn`.
* `application`: `OneModelOnTarget` (and a process that has returned or crashed has neither
  the model nor the name), `PostsReachSemaphore`, `RequestEndsProcess`.
* `recorder`: `NothingLostOnTheWay` (with what Stop writes), `FilesAreFull`,
  `NoFileOverwritten`, `BacklogIsWritten` (samples held back by failures reach the files,
  in front of the next one, as soon as files can be written), `StopEnds`.
* `blocks`: `DriversStayInPorts`, `BlocksGetWhatTheyAskFor` (ports shared by several blocks, IDs
  that only become equal in `ConvertToValidID`; for recorders in both builds, for sockets in
  a release build, since a DEBUG build runs on without them), `NothingSurvives` (also when ports or
  IDs were changed meanwhile), `FilesOfARun` (index file and recorders agree; no file is
  given away twice), `TimeStartsAtZero`. `TypeOK` has what the checks of the dialogs are
  for: positive widths and regular sample times.
* `tcp`: `SleepsOnlyWhenDone` (no notification is lost between the two locked
  sections and the wait), `OnlyConnectedSocketIsUsed`, `CommandIsServed`, `DestroyReturns`.
* `udp`: `JoinedGroupsDescribeSocket`, `ServicesStableInLoop` (the loop over
  `m_services`, which has no lock, the flags it trusts, and what a step found before it took
  the lock), `SocketsGetBound` (each service for itself: one that cannot be opened or bound
  does not keep the others from it), `ClearReturns`.

**Bounds.** `MaxTicks`, `MaxFired`, `MaxRequests`, `MaxSamples` and `MaxFaults` are the only
bounds and sit in the guards of the actions they limit. Eight ticks take a task of
sample time 2 and offset 1 through its offset, four activations and all
combinations of overload and completion; for the properties of the task the
proofs remove the bound on tasks, sample times and offsets. Three ticks let the master be in any place
of its loop with both tasks idle, pending, running or overloaded, and one of
them not due. A clock expires five times so that two overloads of different size
fit into one life. Two processes are enough for exclusion, which is about pairs;
two requests overlap on two threads. Five samples and two per file fill a file,
overfill one (three samples) and start a third; two faults hit the thread and the flush.
Two services let one be bound while the other still fails, in both orders; two
tasks race for the first notification; two groups let a step join one, leave the other
and fail at either; `NoGroup` is an invalid address in the list. TCP needs no bound; two
servers are enough for a change of address. The models of `blocks` have at least two blocks
wherever blocks share something: recorders with equal, different and colliding IDs of both
types; UDP blocks with equal and different configurations of one port, one of which changes
its port; two clocks; and every other S-function with a valid and an invalid or a smaller
dialog. Two runs show what the first leaves to the second. `MaxRuns` also bounds the directories.

**Fairness.** Weak fairness of what a thread can do by itself: the master, the
workers, the main thread once it starts or stops something, the recorder's
thread. The threads run with SCHED_FIFO priorities on a target that is
dimensioned for the model, and steps, initialisation and termination of the
model return. No fairness is assumed of what others decide: ticks of the clock,
signals, requests, calls of Stop, samples, failures. So `StartAndStopReturn`
and `CancelWakesWaiter` hold although the clock may never expire again.
`OpenSocketFails` and the other failures of `Run` are among the fair actions of
`Main` because the call returns in either way, and `connect()` of a TCP service
likewise: it need not succeed. No step need send or receive. `MaxFaults` in
`UDPServices` makes failures of `bind()` end; `SocketsGetBound` is to be read under that
condition. It asks nothing for a service whose socket could not be opened, and nothing less for
the others then.

**Deadlock** is checked in all runs but `blocks`, which ends after its last run; `Done` is the legitimate end of the scheduler
and of a recorder.

## 4. Findings

1. `late_step`: the documentation says that stopping starts no new steps; a
   worker with a queued token does start one after the master is joined.
   `AtMostOneLateStep` shows that it is one per task at most.
2. `samples_per_file`: the "maximum number of samples per data recording file" can be
   exceeded; `FilesAreFull` shows the bound that does hold, 2N - 1.
3. `unchecked_close`: samples that only `close()` fails to write are removed
   from the buffer as if they were written.
4. `stale_connection`: `Send` and `Receive` with a new server address go on, until the
   management thread has disconnected, over the connection to the previous
   server, and say that they are connected.

Two more observations have no run. A Stop before the master has started its clock
(`StopMaster` while the master is starting) leaves a stopped clock whose `m_isRunning` is
true, against the comment at `GT_PeriodicTimer.hpp:72`; the destructor then writes to
descriptor -1 and a later Start would be refused. And a bus recorder refused for its ID, in a
simulation, goes on writing to the recorder that has it: if that one takes scalar doubles of the
same number, `WriteBus` hands it eight times the bytes there are. `DriversStayInPorts` names
this exception (`MixesRecorders`); the masks' `InitFcn` compares the texts of the IDs only.

## 5. What is proved

`PeriodicTaskProofs` proves, for every set of tasks, every sample time and
offset and any bound on ticks (assumption `TaskConstants`):

* `TypeCorrect`: Spec => []TypeOK, in particular no counter goes below zero;
* `ScheduleIsExact`: Spec => []ExactSchedule;
* `TokensMatchJobs`: Spec => []TokenMatchesJob;
* `WorkersDoNotDieSilently`: Spec => []NoSilentExit, which no run checks: a worker ends only
  when it is stopped or after asking the application to terminate;
* `TasksFollowSchedule`: Spec => ImplementsSchedule, the refinement.

None of the three invariants is inductive. `IInv` adds to `TypeOK`, for each
task, `CountersInv` - `m_offsetSamples + m_ticks - 1` is the number of ticks until
the next activation, that is `offset + n*sample - notified` with n the
activations so far - and `TokensInv`, which says what flags and tokens are at
each point of Stop: before its token is posted there are at most as many tokens
as jobs, afterwards at most one more. Each action disturbs one task
(`MainTouchesOne`, `OthersTouchOne`), and for that task there is one lemma per
thread. The only nonlinear arithmetic, n*sample, is in `OneMoreActivation` and
`MultiplesApart`. The refinement rests on `ElapsedIffDue`: both counters have
elapsed exactly when the tick is offset + n*sample for some n.

`PeriodicTimerProofs` proves `TypeCorrect` and `TicksAreAccounted` (`TickAccounting`) for
any number of expirations (`TimerConstants`). `BalanceInv` has the sum of what
was delivered, lost, held by the waiter and left in the kernel; it is inductive only
with `WaiterInv`, which says when the waiter holds an unaccounted read and that
only a cancelled one may drop it, and `OverloadInv`, which says that lost ticks come with overloads, at least one with each.

`ApplicationProofs` proves `TypeCorrect`, `ModelIsExclusive` (`OneModelOnTarget`),
`SemaphoreOutlivesRequests` (`PostsReachSemaphore`) and `RunLeavesNothing`
(`RunCleansUp`: wherever Run returns from, no model, thread, name or semaphore is left) for any set of processes and any number of requests
(`ApplicationConstants`). `PhaseInv`: what a process holds - the name, the model, the
threads, the semaphore - follows from where its main thread is in `Run`; as the
name belongs to one process, so does the model, and it gives up both on every way out. `PostingInv`: a thread about to post still runs,
and no thread runs once the semaphore is destroyed. `RequestsInv` counts: the
semaphore's value and the threads about to post are together at most the requests made.

`TCPClientServiceProofs` proves `TypeCorrect`, `NoMissedNotification`
(`SleepsOnlyWhenDone`) and `SocketIsHandedOver` (`OnlyConnectedSocketIsUsed`) for any set of
servers (`ServiceConstants`). The strengthening: past its read, the thread holds the latest
command or a notification is pending; `m_isConnected` is false throughout `Connect()`
and raised only after the socket was connected to `destination`.

`UDPServicesProofs` proves `TypeCorrect`, `GroupsAreKnown`
(`JoinedGroupsDescribeSocket`) and `LoopNeedsNoLock` (`ServicesStableInLoop`) for any numbers of
services, tasks, groups and faults (`UDPConstants`). `SocketInv`: per service the program's
belief is the kernel's state; `LifeInv`: the thread sleeps while services are created and
is gone when they are destroyed; `StepInv`: a step is in a driver only while the model runs, so a
socket it found bound is bound until it has the lock.

`BaseRateSchedulerProofs` proves, for any number of tasks and any sample times
(`SchedulerConstants`), first that the scheduler uses its parts as their specifications
assume: `TasksAreUsedAsSpecified` (Spec => Workers!Spec) and `ClockIsUsedAsSpecified`
(Spec => Clock!Spec). So the theorems about tasks and clock hold of the composition, and their inductive
invariants are conjuncts of its own. What it adds are the phases: `MainInv` (the
master exists from its start to its join; `m_tasks` is complete while anybody else uses
it), `TaskPhase` (how far Start or Stop is with each task), `ClockPhase` (only the master
waits; the clock is stopped before the tasks), `TickPhase` (task and clock differ by the
tick in flight), `SameTicks` (outside the loop over the tasks all have been notified equally often)
and `LatePhase` (a late step has used the task's last token). They
give `TypeCorrect`, `TasksLive` (`TasksLiveWhileUsed`), `TicksReachTasks`
(`TicksReachAllTasks`), `OneLateStep` (`AtMostOneLateStep`) and `EndIsClean` (`CleanEnd`).
`ScheduleFromClock` joins the parts: between two ticks, every task has had exactly the
activations that its schedule has in the ticks of the master clock so far.

`DataRecorderProofs` proves `TypeCorrect`, `NothingLost` (`NothingLostOnTheWay`),
`FilesFull` (`FilesAreFull`) and `NumbersFree` (`NoFileOverwritten`) for any number of samples,
samples per file and failing operations (`RecorderConstants`). `Order` says that files, local buffer
and `m_buffer`, one after the other, are the samples written; it is inductive with
`Stages` (who may hold samples at each point of the thread and of Stop) and
`DiskInv`: the file number, the flag of a started file and the counter of samples describe
the last file, until Stop resets them. A turn of the writing loop is treated once
(`TurnKeeps`, `TurnMoves`) for the thread and for the flush. The content of the files is
`FlattenSeq`, a recursive function of the community modules; the proof has its
equations (`FlattenEmpty`, `FlattenAppend`) from the least-number principle, because an
induction theorem of the library cannot be instantiated.

`DriverBlocksProofs` proves all properties of `blocks` for any models of any number of blocks, any dialogs
the masks let pass, any number of runs and failures (`BlockConstants`, `ManagerConstants`):

* `NothingIsLeft` (`NothingSurvives`) from `ServicesInv` and `RecordersInv`: whatever is in a
  static list belongs to a block of that kind that is not terminated yet, and as each
  terminate function clears the whole list, nothing is left after the last one;
* `FilesAreIndexed` (`FilesOfARun`) from `FilesInv` (a file of the current directory belongs to a recorder in the
  list, so a new recorder's is new) and `IndexInv`;
* `TimeIsOfThisRun` (`TimeStartsAtZero`) from `TimeInv`;
* `BlocksAreServed` (`BlocksGetWhatTheyAskFor`) from `OwnersInv`: a block that
  has been started has its recorder or service, and no later block of the same ID or port
  can take it away or mix samples in, but only end the application. It needs `PortsInv`: on the target
  parameters are those of the compilation;
* `DriversKeepToPorts` (`DriversStayInPorts`) from `PortsInv` (while a model runs, run-time
  parameters are those of an accepted dialog and widths those of a compilation, so counts
  that may be tuned are bounded by what is fixed) and, for recorders, `OwnersInv`;
* `TypeCorrect`, which has what the checks of the dialogs promise: positive widths, valid
  sample times.

Every safety invariant that a passing run checks is thus proved, and so is the refinement
`ImplementsSchedule`. Only model-checked are the liveness properties
(`AcceptedJobCompletes`, `CancelWakesWaiter`, `StartAndStopReturn`, `RequestEndsProcess`, `BacklogIsWritten`,
`StopEnds`, `CommandIsServed`, `DestroyReturns`, `SocketsGetBound`, `ClearReturns`): fairness and ENABLED are beyond the
prover. The assumptions on constants say that sets are what their names say and
bounds are natural numbers, and, for the blocks, what the masks see to.

## 6. Not modelled

The generation of code, the decoding of files and the byte formats of files and datagrams run
on the host or have no state of their own. Of the time, argument, overload and thermal
drivers the values are left out: they are read from the kernel and converted. Windows variants
are left out. The TCP server socket is not used by any block. What the socket wrappers do with
options and addresses is left out, and so is the reuse of descriptor numbers: `Connect()`
of the TCP service uses its socket without the lock, so that between a `Close` by `Destroy` and the
next call the number could belong to another file of the process.
Of Simulink, the order of callbacks, the refusal to change fixed parameters or the dimensions
of any, and the masks' lengths of signals are taken as assumptions.

## 7. Plan

1. Done: all modules of section 2, their runs, and the proofs of every safety invariant the passing
   runs check.
2. An abstract specification of the TCP service - a connection that is down, up to
   the wanted address, or up to an old one - and of the recorder, an ordered
   channel from `Write` to the files, with proofs that the modules implement them.
3. Action properties of the components that have only invariants so far: that
   the activations of a task, the files of a recorder and the index of a run only grow, and
   that in the application each process passes through `Run` in the order of the code.
