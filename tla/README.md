# HAL2 in TLA+

Models, model-checking runs and machine-checked proofs for HAL2, a C++23 hardware
abstraction library with a software-in-the-loop (SIL) build, RTOS wrappers, STM32 drivers, a
statechart runner, an event-loop OS, a Modbus server and logging.

It covers what is hardest to test in the library: the SIL scheduler, on whose determinism every
simulated test of an application depends; the statechart runner, which interrupts share with
tasks; and, on the target, the configuration of the clocks, the construction of drivers among
interrupts, the two cores of the STM32H7, and transfers that time out.

## 1. The system

| Part | Source | State it keeps | Operations |
|---|---|---|---|
| SIL scheduler | `src/impl/sil/scheduler*.{cppm,cpp}` | time, the items (tasks, external events) with their timeouts, priority brackets with a round-robin index, scheduler state | `Start`, `RunUntil`, `RunUntilNextTimePoint`, `Shutdown`, `HandleNextItem`, the blocking calls, `RegisterExternalEvent`, `RegisterPendingAction` |
| Hand-over of the token | the same files | `sys_mtx`, startup latch, `wakeup_requested`, condition variables, `running_thread_is_blocked` | `Start`, `InitializeThread`, `ThreadItem::Run`, `BlockUntilWoken`, `DeInitializeThread` |
| SIL RTOS | `src/modules/rtos_sil` | bits of event groups, tasks | `SetBits`, `ClearBits`, `Wait`, `BlockFor`, `BlockUntil`, `RequestStop` |
| SIL peripherals | `src/impl/sil/{uart,spi,gpio}.cppm` | buffers, pending transfer, done bits | `Write`, `Receive`, `SimulateRx`, `TransmitBlocking`, `ReceiveBlocking`, `SimulateMisoData`, `Toggle` |
| SIL system, C and Python API | `src/impl/sil/system.cppm`, `src/python/src/hal2/sil` | peripherals by name, last error | thin calls of the above |
| Statechart runner | `src/core/sc` | chart state, one enqueued event, two atomic flags | `ApplyEvent`, `EnqueueEvent`, `ProcessEnqueuedEvent` |
| Seq OS | `src/modules/seq` | a ring buffer of events | `Push` (from interrupts), `Pop`, `ReadAll`, the main loop with `wfi` |
| FreeRTOS wrappers | `src/modules/rtos_freertos` | kernel handles | event group, task, queue, mutex |
| STM32 clocks | `src/impl/stm32{h7,h5_old,g0_old,g4_old}/clocks.*`, `stm32h7/power.h` | oscillators, PLLs, dividers, flash latency | claimed frequencies and assertions (compile time), `ConfigureClocks` and its siblings |
| STM32 drivers | `src/impl/stm32*` | singletons, HAL handles, pins, DMA list, interrupt lines, remembered buffers, the event group to notify | `instance`, constructors, `Write`, `Receive`, `Transmit`, `ReadMemory`, timers, interrupt handlers and callbacks |
| STM32H7 cores | `src/impl/stm32h7/{boot,hardware_semaphore,core}.*` | a hardware semaphore, stop mode, event register | wake-up of the second core, notifications between the cores |
| Modbus | `src/modules/modbus` | coil and register storages | requests to responses |
| Logging | `src/modules/logging` | two transmit buffers | `Write`, the sink's task |
| hstd | `src/core/hstd` | circular buffer | `Push`, `Clear`, iteration |

How the parts interact: an application's tasks run as threads under the SIL scheduler and
block through the RTOS interface; peripherals register *external events* with the scheduler,
whose callbacks set event-group bits that tasks wait for; a test (C++ or Python) is the
*control thread*, which calls `RunUntil` and friends, and between those calls plants stimuli.
On the target, FreeRTOS takes the scheduler's place and interrupts take that of external
events.

What is hard: the scheduler is a hand-written co-operative kernel on top of real threads
(condition variables, a flag that is set without the mutex, a latch); it is correct only if no
time point is stepped over, no wake-up lost and no bit consumed twice. On the target: completion
interrupts that arrive after a time-out, a one-place mailbox shared with interrupts, a queue
whose producer runs in an interrupt, two tasks that share buffers.

On the target drivers are lazily constructed singletons: `instance()` is called by the program
and by interrupt handlers alike. A driver takes its pins, its DMA channels (from one list per
program, on the STM32H7 one list for both cores) and its interrupt lines in its constructor, hands
transfers to the vendor's HAL, and is told of their end through the HAL's callbacks, in which a
chain of `if constexpr` looks for the driver that owns the handle.

## 2. Plan

In the order of importance; all of these exist.

1. `SilScheduler` with the abstract `DiscreteEvents`: all operations of the scheduler, safety,
   liveness, refinement, proofs.
2. `SilHandshake`: the hand-over protocol below it, proofs.
3. `SilRoundRobin`: fairness within a bracket, proofs.
4. `StateChartRunner` with the abstract `EventMailbox`, proofs.
5. `Stm32Clocks`: what four families' settings claim against what the hardware then does.
6. `Stm32Drivers`: programs on the drivers of the STM32G0 (`DriversG0`) and of both cores of the
   STM32H7 (`DriversH7`, `H7Cores`) above one model of HAL, DMA and interrupt controller
   (`Stm32Hal`); blocking transfers from the tasks of an RTOS (`RtosTransfers`).

The proofs follow the same order; every invariant and every action property that a passing run
checks is a theorem, and so is the refinement of each abstract specification. Of the liveness
properties the safety part is a theorem (section 6).

## 3. What is modelled

### SilScheduler

One action per operation or loop iteration of the control thread, and one per blocking call of
a task. The variable `current` is the execution token: a task that has it runs its code up to
the next blocking call, and the control thread acts only when nobody has it; that this is what
the threads do is the subject of `SilHandshake`. An external event has the token while its
callback runs, on the control thread: the callback may register actions on other events (a test
that answers what it saw transmitted), sets the event's bits, and only then is its own action
reset.

| Code | TLA+ |
|---|---|
| `Scheduler::now`, `state` | `now`, `state` |
| `PriorityBracket::rr_idx`, `items` | `rr_idx[p]`, the constant `Pos` (place within the bracket) |
| `ThreadItem::running`, `block_timeout_at`, `sync_primitive_block` | `running`, `timeout`, `sync` (the `Wait()` it belongs to) |
| `ExternalEventItem::pending_action` | `pending` (its time stamp) |
| `EventGroupState::bits` of all groups | `bits` |
| program counter, arguments and locals of the control thread's call | `call`, `limit`, `inclusive`, `ran`, `ret`, `wakeups` |
| `HandleNextItem` | `IsNext` (who), `RunThread`/`RunEvent` (what), `HandleNextItem` |
| `ExternalEventItem::Run`: the callback, the reset | `RunEvent`, `CallbackRegisters`, `CallbackEnds` |
| `RunUntil` | `CallRunUntil`, `RunUntilHandles`, `RunUntilAdvances`, `RunUntilReturns` |
| `RunUntilNextTimePoint`, both loops | `CallRunUntilNextTimePoint`, `DrainHandles`, `DrainNowEnds`, `DrainNextEnds` |
| `Shutdown` and its two exceptions | `CallShutdown`, `ShutdownHandles`, `ShutdownAdvances`, `ShutdownReturns`, `ShutdownThrows` |
| `EventGroup::Wait`, `SetBits`, `ClearBits` | the same names |
| `CheckSyncPrimitivePreemption` | the same name, part of the two |
| a task's `operator()` returning | `DeInitializeThread` |
| `SimulateRx` of a peripheral, `RegisterPendingAction` by a transfer | `SimulateEvent`, `StartTransfer` |

Waking a task and the end of its `Wait()` (clearing the bits on exit, resetting both block
reasons) are one step: nobody else runs in between. Priorities are pairs, compared as the code's
defaulted comparison does.

Preconditions on the environment, which the code does not check: times passed to blocking calls
and to `RunUntilNextTimePoint` are not in the past. (`RunUntil` with a time in the past returns
at once and is modelled.) Time stamps of external events are refused if they are in the past,
as `Uart::SimulateRx` does; the SPI does not refuse them, see the hazards.

### DiscreteEvents

The abstract specification: items with at most one planned occurrence, time that jumps to at
most the next one and only when nothing can act, occurrences only at their time or when
signalled, highest precedence first, one turn at a time. `SilScheduler` implements it under the
mapping `DE` (planned occurrence = timeout or pending action, none for an event whose callback
runs (`Due`); signalled = the bits waited for are set; turn = `current`). The refinement is a property of a run and a theorem.

### SilRoundRobin

`SilScheduler` with a history variable that counts how often in a row a ready item was passed
over by its bracket.

### SilHandshake

The protocol below `SilScheduler`: every access to `sys_mtx`, the latch, the map of threads,
`wakeup_requested`, `running` and `running_thread_is_blocked` is a step of its own of the thread
that makes it. The condition variable has no state of its own: a wake-up is the flag, and a
sleeping task looks at the flag whenever it gets the mutex (notification, 10 ms poll or spurious
wake-up), which covers the notification that comes before the sleep. Which of the running tasks
is picked is left open; so are times and bits.

### StateChartRunner and EventMailbox

`sc::StateChartRunner` protects a chart and one optional event with two atomic flags. Each
`test_and_set`, `test`, `clear`, and each access to the optional, is a step of its own; `pc` is
the next one of each context. A copy of the optional is one step. One processor runs everything
(`Executes`): a task only while no interrupt is active, an interrupt only above those of lower
`Level`; tasks preempt each other anywhere. `Enqueuers` are the contexts that call
`EnqueueEvent`; `ApplyEvent` and `ProcessEnqueuedEvent` belong to tasks, as the comment in
`core.cppm:245` says. A transition is a choice from `JumpTable[state][event]`, whose empty
entries are the `nullptr` ones; that a handler of the chart calls the runner itself is not
modelled (a nested `ApplyEvent` or `ProcessEnqueuedEvent` finds `processing_event` set and does
nothing).

| Code | TLA+ |
|---|---|
| `EnqueueEvent` | `EnqueueEvent` (test_and_set), `StoreEvent` |
| `ApplyEvent` | `ApplyEvent` (processing_event), `TestAndSetPending`, `DeliverPending`, `ResetPending`, `ClearPending`, `ApplyIncoming` |
| `ProcessEnqueuedEvent` | `ProcessEnqueuedEvent` (test), `ClaimProcessing`, `CopyEnqueued`, `ResetEnqueued`, `ClearEnqueued`, `DeliverEnqueued` |
| `~ClearFlagAtExit` | `Release` |

`EventMailbox` is what the callers are promised: an event that waits, one on its way to the
chart, delivery once, in order, with no directly applied event coming between. The runner
keeps that promise under `SingleCaller`: interrupts enqueue and one task calls the rest. With
two tasks it does not (finding 3).

### Stm32Rcc, ClocksH7, ClocksH5, ClocksG0, ClocksG4, I2cTiming, Stm32Clocks

`Stm32Rcc` is the clock tree as the HAL and the reference manuals have it: oscillators that are
on, PLLs, prescalers, the source of the system clock, flash wait states, and what frequency each
bus then has; `HAL_RCC_OscConfig` and `HAL_RCC_ClockConfig` either do what they are asked or fail.
It is external. Each `Clocks*` module translates one family: the frequencies that the settings
claim (the `constexpr` functions on which every baud rate and period is computed, modulo 2^32),
what the assertions check (`...Validate`; a setting that fails them does not compile and is no
initial state), and the configuring function, one action per HAL call. `Stm32Clocks` puts them
side by side, a program being built for one of them, and compares claimed with real. It also
compares the divider that an SPI picks for a baud rate with the best one.

`I2cTiming` is the search by which the compiler fills the timing register of the STM32G4's I2C
(`i2c_timing.h`): three nested loops as the set of their tries, of which the first with the lowest
error counts. Differences of unsigned numbers that go below zero end the inner loop early; the
model keeps that (`Unsigned`). `Stm32Clocks` drives the timing found with the clock that the I2C
really has and compares the period of SCL, its low and its high half, the set-up time and the
delay of the data with the table of the I2C standard (`I2cWithinMode`); from 2 MHz on the
compiler has to find a timing at all.

| Code | TLA+ |
|---|---|
| `PllSettings`, `SystemClockSettings`, `ClockSettings` and their frequency functions | `H7PllInput`, `H7Output`, `H7Bus`, `H7Timer`, `H7SpiClk`; `H5...`, `G0...`, `G4...` alike |
| `Validate` | `H7SystemValid`, `H7Validate`, `G0Validate`, ... |
| `GetPllVciRange`, `GetFlashLatency`, `Get...Divider` | `H7VciRange`, `G0FlashLatency`, `H5Prescalers`, ... |
| `ConfigurePowerSupply`, `ConfigureClocks`, `ConfigurePowerAndClocks`, `ClockSettings::Configure` | `H7Power`, `H7OscConfig`, `H7Pll2`, `H7ClockConfig`, `H7SpiClocks`, ... |
| `ComputePrescScldelSdadel`, `ComputeScllSclh`, `CalculateI2cTiming` | the same names |
| `FindPrescalerValue` of an SPI | `H7FindPrescalerValue`, `G0FindPrescalerValue` |

### Stm32Hal, DriversG0, DriversH7, H7Cores, Stm32Drivers

`Stm32Hal` (external) has the vendor's part: a request `<<device, direction>>` handed to the HAL
passes one stage or two (DMA, then the peripheral), each ended by an interrupt on a line that is
taken if it is enabled. A `Receive` that remembers its buffer does so before it asks the HAL
(`HalReceive`), which may refuse; `spoilt` are the devices whose `rx_buf` such a refused call has
replaced. A driver is constructed between `HalBegin` and `HalEnd`; the interrupts in
between may call `instance()` of the same driver. `board` is the program: which device in which
mode with which pins, the DMA list, on the STM32H7 the core of each device; `careful` programs
construct every driver before they use one, which is all that the word says: they may call
`Receive` while another one is under way.

| Code | TLA+ |
|---|---|
| pin initialisation, port clocks, alternate functions | `G0InitializeAlternate`, `H7EnablePortClk`, ... |
| the constructors with all they call | `G0UartSetup`, `G0UartSetupDma`, `G0SpiSetupDma`, `G0I2sSetupDma`, `G0ConfigureChannels`, `H7SpiSetupDma`, ... |
| `DmaImpl`: place in the list, channel, line, `ChannelInUse` | `G0DmaSetup`, `G0SetupChannel`, `H7DmaSetup`, `H7DmaChannelInUseForCurrentCore`, ... |
| `static_assert`s of the constructors | `G0Compiles`, `H7Compiles` |
| the program's calls | `G0Write`, `G0Receive`, `G0I2sTransmit`, `G0TimStart`, `G0SetDmaData`, `H7Receive`, ... |
| `interrupts.h`: handlers and HAL callbacks | `G0DmaIrqHandler`, `G0UartIrqHandler`, `G0RxEvent`, `H7DmaIrqHandler`, `H7SpiIrqHandler`, ... |
| `boot.h`, `hardware_semaphore.*` | the actions of `H7Cores`, under the functions' names |

In `H7Cores` the M4's wake-up has two steps, as the M7 can tell them apart: the hardware starts
the clock of its domain (`D2DomainWakes`), the flag that `WakeUpCortexM4` polls, and later the M4
goes on to the end of `EnterStopModeUntilNotified` (`LeaveStopMode`).

The handlers of a core serve only the streams of that core (`...ForCurrentCore`), though both
cores enable the lines of all streams; the vector table decides which of two pending lines is
taken first, so a core can take an interrupt over and over that is for the other core to serve.

### RtosTransfers

The calls that block with a time-out: `Write` and `Receive` of the STM32H5's UART and `ReadMemory`
of its I2C on FreeRTOS, and the same calls of the simulated UART. Each has a number, which also
names its buffer. A call starts a transfer (a start is refused while one is under way), then waits
for bits of an event group; a `Wait` may end whenever its bits are down. A `ReadMemory` that the
HAL does not start, for whatever reason, returns (`FailedToStartRead`). The hardware ends
transfers at any time, also after the call has given up, and sets the bit through FreeRTOS's
daemon, which may be late or refuse. The tasks' accesses to `rx_data`, `rx_buf`, the bits and the
HAL are steps of their own. `Stm32Drivers` composes it as a third kind of program.

## 4. Runs

| Run | Instance | Shows |
|---|---|---|
| `sil_equal_priority` | 2 tasks in one bracket, 1 event, 2 bits, `Wait()` for all bits with clearing and for any without, time 0..3 | type invariant, `NoMissedTimeout`, `IdleQuiescent`, `TimeAdvancesWhenDrained`, `RunUntilContract`, `NextTimePointContract`, `BitsWakeOneWaiter`, refinement `DESpec`, `ShutdownTerminates` |
| `sil_disciplined` | 2 tasks of different priority and 2 events in one bracket, whose callbacks register actions on each other; tasks and callbacks always move on in time, and stop when the scheduler stops | `EventsRunOnTime`, `RunsTerminate`, `ShutdownStopsTasks` |
| `sil_round_robin` | 3 tasks in one bracket, an event that may release all | `BoundedBypass` |
| `sil_handshake` | 4 tasks | `TypeOK`, `ScanIsExclusive`, `OnlyPickedTaskRuns`, `BracketsAreComplete`, `HandOverCompletes`, `StartCompletes` |
| `sc_mailbox` | 1 task, 2 interrupts of different level, a chart with an ignored event and a choice of successors | `EnqueuedIsPending`, refinement `MailboxSpec`, `EnqueuedIsTaken`, `MailboxReopens` |
| `sc_exclusive` | 2 tasks, one of which enqueues, and 1 interrupt | `ExclusiveProcessing` |
| `stm32_clocks` | four families, all combinations of some sources, PLLs and prescalers that compile, each HAL call may fail | `ClocksAsClaimed`, `WithinLimits`, `I2cWithinMode`, `ConfigurationEnds` |
| `stm32_drivers` | programs of 2 to 5 drivers on the STM32G0 and on the STM32H7, 2 buffers; boots that wait, give up or rush; 2 notifications each way; 2 calls of each blocking operation | `DriversTypeOK`, `FaultsExplained`, `PinsRouted`, `CallbackBuffer`, `BurstIntegrity`, `RequestsComplete`, `StormsEnd`, `CoresBoot`, `WokenMeansRunning`, `NotificationSeen`, `OwnAnswer`, `NoAnswerMissed` |
| `sil_preemption` (violated) | 2 tasks of different priority | `SyncPreemption`: finding 1 |
| `sil_startup_overlap` (violated) | 2 tasks | `OneTaskAtATime`: finding 2 |
| `sc_lost_event` (violated) | 2 tasks, 1 interrupt that alone enqueues | `EnqueuedIsTaken`: finding 3 |
| `stm32_clock_wrap` (violated) | the settings of the STM32H7 | `AhbLimit`: finding 4 |

Bounds. `MaxTime` bounds the instants anything is scheduled at, `MaxWakeups` the argument of
`Shutdown`. Three instants after the epoch suffice for every relation the properties distinguish:
a call's bound before, at and between two later timeouts. Two tasks are the least that compete
for a bit or a bracket and three the least for which the round-robin index can run ahead of an
item twice. Two events are the least for a callback that registers an action on another event.
`StateChartRunner` has no counters; two events tell which one was delivered, two
interrupt levels let one interrupt `EnqueueEvent` half-way. Constants of the run configurations
are model values; no symmetry is declared, the runs take seconds to minutes.

The settings of `stm32_clocks` are those at which the code's functions change: PLL inputs in each
range, dividers that do not divide their source, a product that wraps, dividers at and beyond the
width of their field, every source of the system clock and of an SPI; for the I2C, the fastest
clock, 2 MHz, and slower ones of which one has a timing and one has none. The programs of
`stm32_drivers` put on one line or one channel list whatever the code has to tell apart: two UARTs
on one line, an SPI and a UART on neighbouring channels, bursts beside counting, the DMA and the
BDMA, streams of both cores in one list, a UART that has no handler. They include programs whose
constructors do not compile, which are no initial states. Two notifications each way let one come
while the handler of the other runs. `Calls` bounds the blocking calls: two are needed, one that
times out and one that its late answer reaches (with three TLC finds nothing else).

The properties leave out what the code is known to get wrong, at the definition that says so:
`Neglected` pins (the clock pin of a receiving SPI of the STM32G0, ports J and K of the STM32H7),
lines without a handler (TIM3_TIM4 of the STM32G0, whose handler is misspelt; USART6, UART7 and
UART8 of the STM32H7), PLL products that wrap, oscillators that nobody starts, the STM32H5's HSI,
which runs at half of what is claimed, dividers cut off on the STM32G0, the faster modes of the
STM32G4's I2C, which run at the standard mode's frequency, and the delay of its data on a clock so
slow that no value keeps it; calls that begin with an answer that is not theirs under way or left
over (`stale`); a device with a `Receive` that the HAL refused after it had overwritten `rx_buf`
(`spoilt`); a burst of a timer that also counts with interrupts; a program that wakes the second
core before that has stopped; PLL inputs that the settings of the STM32H5 and the STM32G0 cut to a
whole number (they divide before they multiply, so that their claim is below what the hardware
does unless the divider divides the source: `Exact`). In `WithinLimits` furthermore a core of the
STM32H7 at scale 3 (see the observations) and a fraction of a megahertz on the STM32G4.

`FaultsExplained` does not say that nothing goes wrong. It says which programs can be brought
down by what: a handler enters an unfinished constructor only in a program that uses drivers before
it has constructed all, or with pin interrupts, whose lines open within the constructor; a
handler serves a channel that nobody has set up only on the STM32G0, in a program that is not
`careful` or whose DMA list has a channel that no driver uses on a line that is used
(`G0LinesKept`: the handler of a line serves all channels of the list); the default handler is
reached only with a device on a line without a handler.

Fairness. `SilScheduler` assumes that the control thread goes on inside a call
(`WF(SchedulerStep)`, callbacks included) and that a task's code reaches a blocking call or its end
(`WF(TaskBlocks)`): nothing preempts a task, so otherwise the simulation hangs in the task's own
code. Nobody has to make a call, and no progress of simulated time is assumed. `RunsTerminate`
needs in addition that tasks, transfers and callbacks plan for later instants (`Punctual`, a part
of `Disciplined`, which `SilSchedulerLive.cfg` takes as an action constraint, so that the run's
steps are those of `Next /\ Disciplined`): without it two tasks of equal priority, or two events that register each other,
can keep an instant alive for ever, the livelock named under the hazards. `ShutdownStopsTasks`
assumes (`Cooperative`) that a task returns once it sees the scheduler stopping
(`StopRequested()`) and that the test then no longer answers in callbacks. `EventsRunOnTime` is
checked in that run, with these assumptions, because two events and callbacks that answer make
`sil_equal_priority` too large; the theorem has neither. `SilHandshake` assumes that threads run and that a
thread that keeps trying gets `sys_mtx` (strong fairness of the three acquisitions): tasks that
do not have the token hold the mutex for a few instructions every 10 ms. `StateChartRunner`
assumes that a call that was begun goes on although interrupts preempt it again and again (strong
fairness: interrupts do not keep the processor for ever), and that some task keeps polling
`ProcessEnqueuedEvent`, its only purpose; nothing is assumed of `ApplyEvent` and of the
interrupts. `Stm32Clocks` assumes that the configuring function goes on. `Stm32Drivers` assumes
that the hardware ends the transfers in `Watched`, that a pending interrupt of the STM32G0 whose
line is enabled is taken, that each core of the STM32H7 gets to its interrupts again and again
(strong: between two rounds of a storm the other core has served it), that `NotifyOtherCore` and
the handler of the semaphore run to their end, and that both cores run their boot code. No
program has to make a call, and nothing is assumed of `RtosTransfers`, whose properties are
safety.

Every property of a passing run has a mutant in `PROJECT.json`: an operator `...` marked
"Mutated" that changes the code the way a bug would, for which TLC finds the property violated.

## 5. Findings

1. `CheckSyncPrimitivePreemption` (`scheduler_scheduler.cpp:164`) never lets a higher-priority
   task preempt: the brackets are sorted from the smallest pair (highest priority) on and the walk
   ends at the first bracket with `prio <= preempted_prio`, which the first of higher priority
   already satisfies. `SyncPreemption` states what the comment in `scheduler.cppm:310` says.
2. `InitializeThread` (`scheduler_scheduler.cpp:211`) searches `threads` after it released the
   mutex, while another task may be inside `emplace`. `OneTaskAtATime` states the class comment in
   `scheduler.cppm:227`, which does not hold during startup.
3. `ProcessEnqueuedEvent` (`core.cppm:308`) tests `has_enqueued_event` before it claims
   `processing_event`. If another task's `ApplyEvent` takes the event in between, the late caller
   finds nothing and clears the flag (`core.cppm:322`), just after an interrupt has enqueued the
   next event: that event was accepted, its flag is down, and nobody processes it.

4. `PllSettings::PllOutputFrequency` (`stm32h7/clocks.h:67`) multiplies before it divides, in 32
   bits. The 64 MHz HSI with m = 8 and n = 120 wraps: the settings claim 211 MHz, pass every
   assertion, and the AHB runs at 480 MHz. `AhbLimit` is the assertion of `clocks.h:161`.

Observations about limits, which `WithinLimits` names. In `stm32h7/power.h:55` the text of the
assertion gives 200 MHz as the maximum for LDO/VOS3, and the comparison in the next line lets 300 MHz
pass; `power.h:51` says 400 MHz for VOS2 and compares with 300. `H7Rated` has the texts' numbers
(for VOS2, where the text repeats that of VOS1, the compared one), `H7CoreLimit` the compared ones:
settings that ask for more than 200 MHz at scale 3 compile, `stm32_clocks` includes them, and they get
what they ask for. `stm32g4_old/clocks.h:151` compares whole megahertz, so that 170.9 MHz pass for 170.

An observation about `Receive`, which `CallbackBuffer` excludes by `spoilt`: `stm32g0_old/uart.h:229`
and `stm32h7/spi.h:259` set `rx_buf` before the HAL is asked. If a reception is under way the HAL
refuses (on the STM32G0 nobody is told), and the callback at the end of the running one is given
the new buffer, into which nothing was received.

Observations about transfers with a time-out, which `OwnAnswer` excludes by `stale`: `Write` and
`Receive` (`stm32h5/uart.cppm:466`, `sil/uart.cppm:76`) do not clear the bit they are going to wait
for, so the end of a transfer that timed out answers the next call, whose own transfer the HAL
may have refused; a reception that ends late is reported in the buffer of the next `Receive`
(`uart.cppm:397`), into which nothing was received. `ReadMemory` (`stm32h5/i2c.cppm:411`) clears its
bits first, which leaves the moment between the clearing and the start.

Observations about the I2C that no run turns into a finding. `CalculateI2cTiming` passes 0 for
the speed to the second search in every mode (`stm32g4_old/internal/i2c_timing.h:307` and `:325`;
the STM32H5's copy too), so an I2C set to 400 kHz or 1 MHz runs at 100 kHz; `I2cWithinMode`
excepts exactly that. In poll mode the STM32G4's I2C does not use the timing at all but a fixed one
(`stm32g4_old/i2c.h:265`). `ComputePrescScldelSdadel` cuts the longest delay of the data at 0
(`i2c_timing.h:140`): on a slow clock, which four ticks already make late, it goes on as though a
delay of 0 were in time. On the STM32H5, `SetupI2cSourceClock` stores the clock of I2C2, I2C3 and
I2C4 in the field of I2C1 (`stm32h5/i2c.cppm:164` and below), so they stay on their default clock
while the timing is computed for the selected one.

Two more observations about `StateChartRunner` that no run turns into a finding. `ApplyEvent`
(`core.cppm:256`) leaves `has_enqueued_event` set when nothing was pending: the next
`EnqueueEvent` is refused with an empty mailbox, `EnqueueEventCallback` ignores that, and the
mailbox opens again with the next call of a task (`MailboxReopens`). `ApplyEventCallback`
(`statechart_callback.cppm:25`) treats a `false` of `ApplyEvent` as unreachable; it is what the
second of two tasks gets, for any chart.

## 6. Proofs

`SilScheduler_proofs`, `SilRefinement_proofs`, `SilRoundRobin_proofs`, `SilHandshake_proofs`,
`StateChartRunner_proofs`, `RtosTransfers_proofs`, `Stm32Drivers_proofs` and `Stm32Clocks_proofs`,
checked by TLAPS for all values of the constants that satisfy the named assumptions:

| Assumption | Says |
|---|---|
| `ConstantsAssumption`, `NoneAssumption`, `PosAssumption` (`SilScheduler`) | finite sets of tasks and events, priorities in `Nat`, positions that are the indices of a bracket's deque |
| `ThreadsAssumption` (`SilHandshake`) | a finite set of tasks, none of which is the control thread |
| `ContextsAssumption`, `ChartAssumption` (`StateChartRunner`) | a context is a task or an interrupt, interrupts have a level, a jump table from states to states |
| `CallsAssumption` (`RtosTransfers`) | the bound on the calls is a number, any number |
| `RequestsAssumption` (`Stm32Hal`) | requests are pairs of a device and a direction |
| `BoardsAssumption`, `G0BoardsAssumption`, `H7BoardsAssumption` (`Stm32Drivers`) | programs: a DMA list, pins with one use each, a controller on the core of every driver in a DMA mode (its constructor takes one), one core on the STM32G0, no more streams and channels than the STM32H7 has |
| `PortsAssumption` (`Stm32Drivers`) | a port is not a device: each has a clock of its own |
| `SettingsAssumption` (`Stm32Clocks`) | settings are structures of the code's types with dividers other than 0; those of the STM32G4 have gone through its constructor |

The theorems about drivers are of `DriversSafe`, the specification without its fairness, which
`DriversSpec` implies.

`SilScheduler`. The safety properties are not inductive. `IInv` adds what the calls keep:
`CallInv` (arguments stay in range; in `DrainNow` time has not passed the bound; when `DrainNext`
starts an item is ready), `TokenInv` (before `Start` nothing is set; whoever has the token runs
inside a call and is not blocked), and `QuiescenceInv`, which extends `IdleQuiescent` to the
moment before `RunUntil` returns. While a callback runs, `TokenInv` says, the action of its event is
pending and due now. `NoMissedTimeout` survives a jump of time because the jump goes
to a minimum of all timeouts (`MinOfNats`, by well-foundedness of `<` on the naturals), and
`RunUntil`'s jump to its bound because that bound lies before that minimum. One lemma per group of
actions shows that it preserves the invariant, `SchedulerInvariant` puts them together, and the
action properties follow from `IInv` and one step. `EventsOnTime` rests on what
`TokenInv` says of callbacks: an event that has the token is due, and only the end of its callback
takes the token and the action away. `ShutdownSpendsBudget` is the safety part of
`ShutdownTerminates`: every step of the loop of `Shutdown`, the end of every callback, and every task
that gives the token back, uses up part of a budget of three steps for each wake-up that is left (`ShutdownBudget`),
for any tasks and any bound; a time point that is advanced to has something ready at it, so that
the next round costs a wake-up.

`SilRefinement`. Each action maps to `Tick`, `Occur`, `Act`, `Plan` or a stutter of
`DiscreteEvents`; `IInv` supplies that times are not in the past and that a task with the token
has no planned occurrence.

`SilRoundRobin`. `BypassBudget` is the inductive bound: each time a ready item is passed over the
index moves one place closer to it, because the item taken lies before it in the scan
(`Distance`). `BoundedBypass` follows since a distance is not negative. `ScanIsDecided` says that
whenever something can act the scan of the brackets finds exactly one item: priorities are
totally ordered (`PrioTotal`), each bracket is finite, and no two items of a bracket are at one
distance from the index (`OneAtADistance`). It is why a simulation is deterministic.

`SilHandshake`. `MutexInv` (who holds `sys_mtx`), `RegistryInv`, `StartupInv` (the latch counts
the tasks that have not passed it) and `TokenInv` (where the picked task is while the control
thread waits) are inductive together; the three invariants follow. The same invariant gives the
safety part of `StartCompletes` and `HandOverCompletes`. `NothingGetsStuck`: whatever the control
thread waits for, the latch, the mutex or the picked task, comes from a task that can go on, or
that is kept only by one that gives the mutex up by itself, with no cycle between them.
`HandOverAdvances`: every step of the picked task leaves fewer of its own steps until it gives the
token back (`StepsLeft`), and no other thread adds one.

`StateChartRunner`. `ExclusiveProcessing` is inductive with the types, whoever calls
(`SectionMoves`: a step enters the section with the flag down, leaves it, or touches neither).
The rest needs `SingleCaller`, a hypothesis of the theorems: then no interrupt is half-way
through `EnqueueEvent` while the task executes (`TaskExecutesAlone`), and `MailInv` keeps the
flag up wherever the task relies on it (`Held`). `StepMaps` shows that every step is one of
`EventMailbox` or changes neither mapped variable: `StoreEvent` accepts, `CopyEnqueued` takes,
`DeliverEnqueued`, `DeliverPending` and `ApplyIncoming` deliver. `MailboxAdvances` is the safety part
of `MailboxReopens` and `EnqueuedIsTaken`: while the flag is up every step of the calling task, in
whichever call, brings it closer to the `clear` (`StepsToClear`), and interrupts take nothing back.
It needs `SingleCaller`: with two tasks TLC refutes it.

`RtosTransfers`. `TransfersInv` has the types, the places of a call (`PlaceInv`) and, per
operation, `Own` (while a call that is not `stale` is under way, the hardware is at its transfer
and no bit of it is up, or the bits that are up or in the daemon's queue say how it ended) and
`Ended` (the answer of a call's transfer stays up or on its way until the `Wait` returns, or was
refused). `OwnAnswer` and `NoAnswerMissed` are about the step in which a call returns
(`ReturnsOwnAnswer`, `TimeoutMissesNothing`); they hold for any number of calls, of which the run
has two.

`Stm32Drivers`. The properties hold together or not at all: a handler finds its channel because
of what the constructor linked, and the constructor links it because the program compiles.
`DriversInv` therefore says that the board is one that compiles (`BoardInv`), types (`HalInv`),
that a pending interrupt is for a request under way (`RaisedInv`), which channels are linked
(`LinkInv`), that what is under way has a channel or needs none (`StageInv`), whose interrupt a
line is (`OwnerInv`), that a core of the STM32H7 enables only lines of its own UARTs and SPIs
(`H7LinesInv`), that a careful program starts nothing before all is constructed (`QuietInv`), and
which buffer `rx_buf` names unless it was spoilt (`BufferInv`). `FaultsExplained` and
`PinsRouted` are parts of it, `CallbacksOwnBuffer` follows from `BufferInv`, for careful and other programs;
`DriversTypes` adds the types of the cores and of the transfers from their own invariants. A first part computes what each constructor sets up
(`G0AllSetUp`, `H7AllSetUp`); a second one sorts every action of the two families into a few
kinds of step, such as launching a request, serving a line or flagging an interrupt
(`G0Kinds`, `H7Kinds`); a third one shows, conjunct by conjunct, that each kind keeps the
invariant. On the STM32H7 a handler serves its own device because no line has two owners
(`H7LinesDiffer`) and the channels of a list fit the streams there are (`H7ChannelLines`).

`TransfersHeard` is the safety part of `RequestsComplete` and `StormsEnd`, for every program that
compiles: whatever is under way has its clocks, a channel fed by the request that paces it, and the
line of its next interrupt enabled on the core whose handler claims it; so has every interrupt that
is pending. It rests on `WiredInv` (a constructed driver has its own clock and line, a controller
those of every channel of the list; `G0AllWire`, `H7AllWire` compute it) and `ControllersInv` (a
driver in a DMA mode was constructed with its core's controller, whoever called `instance()`
first). No run lists it; TLC checked it, and `DriversInv`, on the instances of `stm32_drivers`, and
refuted it when a handler asked for the wrong core or a line of the DMA was enabled too late. Lines
of timers are left out, since the program may disable them, and the lines without a handler.

`StormsFindTheOtherCore` is the rest of what `StormsEnd` needs besides fairness. What a core has
enabled but has to leave to the other is the line of a channel (`LeftToOther`), pending on the
other core as well; all those lines have a place in the vector table (`ChannelsInVector`), so that
two stormed cores would both take the same one first, which one of them owns. Without the order
of the vector table TLC refutes it.

`H7Cores`. `BootInv` follows the wake-up of the second core: the M7 has seen it stop, and only
the M7's event ends that stop, so that the event of a core that has stopped is there until it has
had its effect, and a domain that is on again is that of a core that runs (`WokenMeansRunning`).
That core may still be within `WaitUntilWokenByCortexM7`, and nothing is said of a program that does
not wait. `NotifyInv` says that a core that listens has its notification enabled or is in
the handler that will enable it, and that whoever has the semaphore is about to release it;
`NotificationKept` follows: a notification that no callback has followed is being served, pending
and enabled, or about to be released. It is the safety part of `NotificationSeen` and holds for
any number of notifications in both directions. `BootGoesOn` and `BootMakesProgress` are that of
`CoresBoot`: a program that waits for the M4 before it wakes it, and cannot give up, has both cores
up or a step of `boot.h` to take, and every one of these steps leaves one less.

`Stm32Clocks`. Nothing but the HSI is ever started, so that a PLL locks and the switch of the system
clock succeeds only on it. `ClocksInv` has the types and three phases: `Fresh` (the core on the
undivided HSI), `Started` (the PLL as asked, or off) and `Switched` (all as asked, which a failure
of a later call does not undo). What remains is arithmetic, for every divider and factor:
`DivideTwice`, `DivisionsCommute` and `CancelFactor` connect the order in which the settings
divide and multiply with that of the hardware, below the point at which the product wraps.
`H7Frequencies` and its siblings say what each family's buses then run at; `H5Bounds`
needs no exactness: cutting the input of a PLL to a whole number lowers the claim by less than
half, and the HSI of that family is halved. `FoundIsNearest` shows that the first of the nearest
dividers exists and is nearest. `ConfigurationNeverHangs` and `ConfigurationMakesProgress` are the
safety part of `ConfigurationEnds`: the endless wait for PLL2 is reached only with the HSI as its
source, for on a source that is not started PLL1 does not lock and the function fails first.

`I2cSuitsBus` is about the search for an I2C's timing on every clock that the constructor lets
pass, 1 to 171 MHz. Its tries are first stated as inequalities (`TriesArePossible`), with the
unsigned differences that end the inner loop early. A try alone may have a low or high half that
is a tick too short; the one that the search returns has not (`ForemostSuits`), because of two
others the first nearest one is found: low for a tick less and high for one more, and high for one
more. Its period also lies so far within the limits (`Suits`) that the true one does, though the
search counts with a clock period rounded to nanoseconds (`PeriodOfClock`, `SclPeriodWithin`).
`TimingsAre` says which prescalers leave time to set up the data, and `TryExists` that from 2 MHz on
one of them has a try less than a tick off, so that the search finds one.

`SilHandshake.TypeOK` is part of its inductive invariant (`TypeCorrect`).

The inductive invariants, and the properties that only a theorem states (`ScanFindsOne`,
`ShutdownProgress`, `NobodyIsStuck`, `HandOverProgress`, `MailboxProgress`, `TransfersHeard`,
`StormsAreServed`, `NotificationKept`, `BootNeverStalls`, `BootAdvances`, `NoEndlessWait`,
`ConfigurationAdvances`), were checked by TLC on the instances of the runs before they were proved,
and the guards that some of them name against `ENABLED`; no run lists them, for the theorems say
more.

Only model-checked:

- liveness, which TLAPS does not prove under fairness (nor `ENABLED`). What is left to TLC of
  `ShutdownTerminates`, `HandOverCompletes`, `StartCompletes`, `EnqueuedIsTaken`, `MailboxReopens`,
  `ConfigurationEnds`, `RequestsComplete`, `StormsEnd`, `CoresBoot` and `NotificationSeen` is the
  step from what their safety parts say (nobody waits in vain, and every step comes closer) to
  "it ends". `RunsTerminate` and `ShutdownStopsTasks`, which assume disciplined tasks, are only
  model-checked;
- the violated properties of the findings, whose counterexamples are TLC's.

## 7. Not modelled

The components with status `not_modelled` in `PROJECT.json`, each with its reason.

- The simulated SPI and GPIO. What is doubtful in the SPI (a read that returns at its time-out
  without another look; a simulated transfer in the past) hangs on the exact instants inside one
  iteration of the scheduler's loop, which `SilScheduler` has, on top of buffers it has not.
- The Seq OS. Its queue and its loop are templates that nothing in the repository instantiates:
  who pushes, from which interrupt, and what the loop runs would be invented.
- The logging sinks and the Modbus server: sequential encoders and storages, covered by unit
  tests where they are complete. The RTOS sink waits for transmissions that it never starts, so
  there is no protocol of it to model.
- The drivers of the STM32G4 and STM32U0 and those of the STM32H5 other than the blocking calls.
  They are built as those of the STM32G0 and the STM32H7 are, construct, enable and dispatch in
  the same way, and differ in registers. Of the STM32G0 itself the I2C, the ADC and the arithmetic
  of the timers are left out.
- The other wrappers of FreeRTOS (one kernel call each), USB glue, compile-time reflection and
  generators, byte layouts of encodings, build files, tests, vendored code.

Within the scheduler: exceptions that end the program at a programming error (`RunUntil` called
from a task, `InitializeThread` twice), the conversion of durations to microseconds, and
`GetBlockTimeoutOpts::exclude_now`, which no caller sets. Within the transfers: amounts of data and
times, the calls that take an event group of the program's own, the half-transfer interrupt that
is switched off right after a start. Within the drivers: a refusal of one of several channels of a timer
(`HAL_TIM_OC_ConfigChannel`, `tim/channel.h:415`), after which the pins of the channels before it stay
routed (the refusal of a timer's only channel, `channel.h:221`, has the effect that `board.refused` has:
its constructor goes no further); data widths, priorities of channels and
interrupts, and polling transfers, which end before they return.
