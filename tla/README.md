# Specifications of the Raspberry Pi 4 (BCM2711) BSP

TLA+ models of the drivers, libraries and startup code in this board support
package for QNX on the Raspberry Pi 4, the TLC runs that check them on small
instances, and proofs that TLAPS checks for instances of any size.  Paths below
are relative to the repository; `sdmmc/` is `src/hardware/devb/sdmmc/`.

## 1. Inventory

### 1.1 The parts of the system

| Part | Source | State it keeps | Operations | Hard behaviour |
|---|---|---|---|---|
| DMA library, channel | `src/lib/dma/bcm2711/bcm2711_dmac.c` | `DMACH_BUSY`, fragment count, mode flags, control blocks; CS and CONBLK_AD registers | attach, release, setup_xfer, xfer_start, xfer_abort, xfer_complete, bytes_left | event thread against client thread, engine that runs on, stale registers |
| DMA library, processes | `sync.c`, `dma_init`, `dma_fini` | shared memory object with mutex and process count, resource database, DMA_ENABLE | init, fini, the enable bit of attach and release | processes that start together, die, fail half way |
| SDIO core, commands | `sdmmc/sdiodi/base.c`, `card.c` | command slot, command pool, capabilities, tuning flag | `_sdio_send_cmd`, `sdio_issue_cmd`, `sdio_cmd_cmplt` | timeout against completion, retries, prefix commands, removal |
| SDIO core, card detection and connection | `base.c`, `card.c`, `sim_sdmmc.c` | list of controllers, detection thread, device flags, handle with use count | connect, `sdio_cd`, `sdio_hc_event`, attach, detach, disconnect | card plugged at any moment, I/O under way, callbacks, a start that fails half way |
| SDIO core, device operations | `card.c`, `base.c` | selected partition, cache and power state of the card | what `card.c` offers to the SIM module | state of the card and its copy in the driver drift apart |
| SDHCI host controller | `sdiodi/hc/sdhci.c` | IS and IE registers; clock, timing, voltage, tuning | command, interrupt, reset, bus settings, init | status bits cleared and read by two threads |
| MMC and SD protocol | `sdiodi/mmc.c`, `sd.c` | bus mode, registers of the card, password | identification, bus modes with fall-backs, lock | sequences in which any command may fail, with or without effect |
| SDMMC board support | `aarch64/bcm2711.le/bs.c` | supply of the card's lines | init, signal voltage, tuning | the firmware does not answer |
| CAM SIM module | `sim_sdmmc.c` | queue of CCBs, nexus, power timer, partitions, cache and background operation flags | start_ccb, SCSI commands, devctls, timers, reset | unlocked look at the nexus, resets in the midst of a request |
| ASSD SIM module | `sim_assd.c` | selected security system | select, APDU, status, properties | resets deselect |
| I2C master | `src/hardware/i2c/bcm2711` | fields of `dev` shared with the interrupt thread | send, recv, interrupt thread | condition variable without predicate, shared line, timeout |
| SPI master | `src/hardware/spi/bcm2711` | counters, `devctrl`, one semaphore, two DMA channels | xfer, dmaxfer, setcfg, wait | one semaphore for two interrupts, timeout |
| PL011 and mini UART | `src/hardware/devc` | io-char buffers and flags, FIFO, line settings | interrupt handler, tto, stty, drain | handler against hardware, flow control, a change of settings under output |
| GPIO, mailbox, wdtkick | `src/hardware/support` | registers of the board | command line tools | tools that share registers without a lock, late answers, a timer that bites |
| Startup library, interrupts and SMP | `src/hardware/startup/lib/aarch64` | GIC and ITS registers, LPI tables, CPU hand-over variables; callouts | init, start and transfer of CPUs, mask, EOI, IPI | CPUs that share one stack, commands queued to the ITS |
| Startup library, memory | `src/hardware/startup/lib` | RAM and avoid lists, address spaces, system page, page tables, stored image | allocation, sections, mapping, loading | moves of what pointers refer to, sizes at page borders, power loss |
| Startup for the board | `startup/boards/bcm2711` | board options | `main()` | order of the calls |
| Images, prebuilt binaries | `images`, `install`, ... | | | not code |

### 1.2 How they interact

The SPI driver is a client of the DMA library: its two channels are attached
with `DMA_ATTACH_EVENT_ON_COMPLETE`, the receive channel with an event, the
transmit channel without one.  Several processes link the library, and meet in
the shared memory object, the resource manager and DMA_ENABLE.  The SIM module
calls the SDIO core for every request and is called back for insertion and
removal; the core calls the host controller through `hc->entry` and is called
back by its event thread (`sdio_cmd_cmplt`, `sdio_hc_event`); the host controller
asks the firmware, through the mailbox, for the voltage of the card's lines.
Interrupts reach all drivers through the kernel, as a pulse, a semaphore post or
the return of `InterruptWait()`, with the line masked until the driver unmasks
it.  Startup runs alone, then hands the CPUs, the system page with its callouts
and the free memory to the kernel; the callouts go on running in the kernel on
all CPUs.  Startup and the support tools use the same pins, mailbox and watchdog.

What is hard to test in the code is listed line by line under `hazards` in
`PROJECT.json`, each with the property that would catch it.

## 2. Modules

| Module | Models |
|---|---|
| `DmaChannel`, `DmaApi` | one DMA channel (two threads of the client, the engine, the interrupt), and the channel `dma_api.README` promises |
| `DmaSync` | the processes that share the DMA controller |
| `SdioCmd` | sending a command: client thread, event thread, controller and card |
| `SdioCardDetect`, `SdioConnect` | insertion and removal: detection thread, I/O threads, event thread, user; and around it the driver's main thread from the command line to the end of the process |
| `Outcome` | how sequential code with error returns is written down |
| `SdioDevice`, `SimAssd`, `SimPower`, `SimIo`, `Sim` | the card behind its handle, the secure SIM functions, power and background operations, SCSI commands and devctls, and the threads, queue and timers that run them |
| `SdhciHost`, `MmcInit`, `SdInit`, `CardInit` | host controller with the board's regulator, setting up MMC and SD cards, and a slot over time |
| `I2cMaster` | client thread, interrupt thread, controller |
| `SpiXfer` | transfers with and without DMA, their interrupts and channels |
| `Uart`, `Pl011`, `MiniUart`, `Serial` | what the serial drivers share, the two drivers, one device of either kind |
| `GicInit`, `Smp`, `Gic` | interrupt controller set-up, start of the CPUs, callouts at work |
| `Syspage`, `Ram`, `Mmu`, `Startup` | system page, memory lists, page tables, and the startup program |
| `Gpio`, `Mailbox`, `Watchdog`, `System` | pins, mailbox, watchdog with their tools, and the board from power-on |
| `Dma_proofs`, `Sdio_proofs`, `Sim_proofs`, `I2cMaster_proofs`, `SpiXfer_proofs`, `Gic_proofs`, `Serial_proofs`, `System_proofs` | theorems and proofs; `Dma_proofs` is about `DmaSync` and `DmaChannel`, `Sdio_proofs` about `SdioCmd`, `SdioConnect` and `CardInit` |
| `MC...` | instances: cards, machines, boards, symmetry; those of `DmaChannel`, `SdioCmd`, `SdioConnect`, `SpiXfer` and `Serial` are at the end of the modules |

The chains `SdioDevice` - `Sim`, `SdhciHost` - `CardInit`, `Uart` - `Serial`,
`GicInit` - `Gic` and `Syspage` - `System` each extend one another and are checked as
a whole; so are `SdioCardDetect` and `SdioConnect`.

Conventions.  A thread has a program counter, and every access to something
another party can observe (a register, an atomic flag, a field that is not
guarded) is an action of its own; a section under one mutex is a single action.
Code that runs alone (startup), or under a lock for its whole length (setting up
a card, a request of the SIM module's driver thread), is one action per call from
outside: in the style of `Outcome` a call is the set of its outcomes, pairs of the
state after it and its status, and a command that may fail has several; also the
one in which it took effect and its answer was lost (*ghost*).

An operator with a comment "Faulty variant" stands before the definition it
varies and is never used by a specification: it is the definition with a
plausible mistake, which shows that a property can fail.  `mutants` in
`PROJECT.json` has one for each checked property; a property that is a
conjunction has further variants, each of which violates another of its parts.
Variables or fields marked *history* record the past for the properties and
guard nothing, with one exception: `started < MaxStarts` in `DmaChannel` bounds
the number of transfers.

### 2.1 DmaChannel and DmaApi

`busy`, `frg_count`, `repeat`, `chain` are `chan->status`, `frg_count`,
`mflags` and the control blocks; `conblk`, `active`, `int`, `error` the
registers of the engine; `masked` and `pulse` the interrupt.  A control block
is its successor and its interrupt-enable bit and moves one unit.
`xfer_complete()` is `CompleteBegin` (count), `CompleteReadCs`, `CompleteAck`,
`CompleteUnmask` and, when `EndsTransfer`, the code of `xfer_abort()`:
`AbortConblk`, `AbortPause`, `AbortReset`, `AbortClear`.  DMA and DMA4 channels
differ in registers only.  Constants describe the client: `Threaded` (does not
serialise its threads), `ReSetup` (calls setup_xfer before each start),
`Coalesce` (segments may end faster than events are handled), `ReleaseBusy`.
`DmaApi` is the channel a driver may rely on; `ImplementsApi` maps `attached`
and `busy` to its state and the chain to its length.

### 2.2 DmaSync

One thread per process, because `procs_init_mutex` serialises init and fini
within a process.  `shm` is the object (absent, without size, sized); `Lock`
and `Unlock` are the shared mutex; `enable` is DMA_ENABLE and `reg` the copy
that a read-modify-write holds.  `Crash` may happen at any step: the resource
manager takes the channels back; mutex, count and register stay.  `NullDeref`
is where a failing `dma_init()` ends, as a death of the process.  `left` records
the channels that a failed attach or a death leaves enabled.  `Staggered`
says that no process opens the object while another creates it.

### 2.3 SdioCmd

The client goes through `_sdio_send_cmd()`: `Send`, `BeginAttempt`, then for
each command of the attempt (APP_CMD, SET_BLOCK_COUNT, the command, status
polls) `Post` or `PostPrefix`, `ClearStatus`, `Issue`, `WaitDone` or
`WaitTimeout`, and the judgement of its status.  The event thread reads and
clears the status register (`IntrRead`), looks at the slot (`IntrLook`) and
completes the command (`IntrComplete`).  The controller has a command line and
a data line that are occupied by an issue; ids of issues wrap (`IdMod`).  The
bound `MaxPolls` stands for the milliseconds of `_sdio_wait_card_status()` and
the retries of `_sdio_send_status()`.

### 2.4 SdioCardDetect and SdioConnect

`sdio_cd()` is `Detect`, `Mark` (with the wait on `cd_cond`), the removal
callback (`Close`, `Join`, `Detach`) and the insertion (`InsertCard`, `Ident`,
`ReadFlags`, `SetPresent`, `InsertionCallback`).  `Enter` and `Leave` are
`_sdio_synchronize()` around a request; `Command` is `sdhci_cmd()` as far as
it clears card detect bits.  `mode` is how the controller detects cards: by
interrupts or by polling; on the BCM2711 `bs.c:372` chooses polling.  `lost`
records that a command cleared a card detect interrupt.

`SdioConnect` is the main thread: option parsing (`ParseArgs`, `sdio_options`),
the start of the detection thread and of each controller with every allocation
that may fail (`SdioInit`, `InitHost`), the first look at the slots, the attachment of
the SIM module, and the way back from each of them (`CdDinit`, `CdJoin`, `Unplug`,
`Disconnect`, `FreeHost`).  It may
detach at any moment (`SimDetach`).  No option undoes another, so `sdio_options`
collects the options before the first bad one (`Accepted`).  `CmdlineAssumption`
is the scope of the model: at most one of the controllers has a slot, as on the
board, the others are soldered.

### 2.5 SdioDevice, SimAssd, SimPower, SimIo, Sim

`s` is one record of `ext`, the handle below it and the card; the headers of the
modules say which field is what.  A command is data (`Command`), and
`CardDoes` is the card: selected partition, cache, background operation,
selected security system.  `Sim` has the clients, which put a CCB into the queue
(`sdmmc_sim_action`) and then look at `ext->nexus` without a lock
(`PulseIfIdle`), the driver thread that receives pulses and runs
`sdmmc_start_ccb()`, the two timers, and a card that starts to want background
operations or tuning.  The card, options and use are chosen in `Init`, which runs
`sdmmc_dev_cfg()` and what follows it.  `hist` has the tags of what went wrong on
the way: a command whose answer was lost ("ghost"), a failed partition switch
("unsure"), data discarded without a mark ("unmarked"), a half selected security
system ("doubt"), a background operation that is no longer on the books
("forgotten").  A card with a sleep state is an MMC (`mmc.c:236`), one with ASSD an
SD card (`sd.c:751`): `CardsAssumption`.

### 2.6 SdhciHost, MmcInit, SdInit, CardInit

The host side of the bus (width, mode, clock, voltage, tuning), the regulator
and the card (its state, timing, width, voltage, block length and lock) are kept
separately, so that they can come to differ.  A command is answered only in the
states of the card that admit it; a command with data needs the same width on
both sides.  `CardInit` has one action per operation of `base.c`: `Attach`,
`Reset`, `Retune`, `BusError`, `Lock`, and `Insert` by the user.  The clock is in
units of 100 kHz, the divider of `sdhci_clk()` is computed.

### 2.7 I2cMaster

The client is in `bcm2711_send()` or `bcm2711_recv()` (`cpc`), the interrupt
thread in `bcm2711_wait_thread()` (`ipc`).  `woken` is a signal that arrived
during the wait; there is none otherwise, which is how wake-ups get lost.
`wiring` says whether other controllers share the interrupt line.  `Late` lets
the timeout expire although the bus is still at work, and `late` records that
it has; `missed` records a signal that came before the wait.

### 2.8 SpiXfer

`bcm2711spi_xfer()` is `Call`, `Clear`, `StartPio`, `Fill`, rounds of `Wake`,
`DoneBit`, `Send`, `Recv`, `Unmask`, and `Finish`; `bcm2711spi_dmaxfer()` is
`Call`, `Clear`, `SetupDma`, `StartRx`, `StartTx`, `EnableDma`, `Wake`,
`RxComplete`, `TxComplete`.  A timeout goes to `Finish`, or to `RxAbort` and
`TxAbort`.  The channels are what `DmaChannel` establishes for one fragment with
an event on completion: busy from start to completion or abort, interrupt after
the last word.  `late` records that a timeout has expired with an event still
on its way.

### 2.9 Uart, Pl011, MiniUart, Serial

`Uart` is io-char (output buffer, paging flags, timer, event) and the hardware:
FIFOs, shift register, interrupt latches, the line.  One dispatch thread runs
the interrupt handler, `tto()` and `ser_stty()` of a driver, one at a time; each goes
step by step while the UART shifts.  `line` records what has left the UART, and
`drain_check()` is compared with it.

### 2.10 GicInit, Smp, Gic

`GicInit` has the registers of a sample of interrupt numbers, the first and the
last of each group, and follows `gic_v2_init`, `gic_v3_initialize`, the
redistributor of each CPU and `its.c`.  `Smp` adds the boot CPU in `start_aps()` and
`transfer_aps()` and the other CPUs from the firmware's spin table to the
kernel.  `Gic` then runs the callouts: `SendStart`, `Ldxr`, `Stxr`, `Sgir0` are the
exclusive access of `sendipi`, `MaskSpi` and `MaskRwp` a mask with its wait,
`LpiLock` and `LpiCommands` an LPI through the ITS queue, `ItsStep` the ITS itself.
`InOrderAssumption` is what the memory mapped callouts of the GICv3 rely on: the
redistributors are numbered as the CPUs are.

### 2.11 Syspage, Ram, Mmu, Startup

The startup program is sequential: an operation takes the record `s` to its next
value, and `Startup` has one action per step of `main()` and `_main()`.  A unit of
memory holds who wrote it, so that a section that is moved, grown or patched
wrongly shows.  `nv` is what RAM keeps over a reset (`restore_ifs.c`): power may go
at any step (`PowerCycle`; with the tools running, `PowerCut` of `System`), and the
memory may be damaged in between.

### 2.12 Gpio, Mailbox, Watchdog, System

`System` starts with the pins, mailbox and watchdog as startup leaves them and
runs the tools a board's build file starts.  A GPIO command is a series of
reads and writes of registers that several pins share; a mailbox message goes
through two FIFOs that any user may read; `Watchdog` computes with 32-bit
values as two halves, and time passes in slices, each of which the kicker's
timer and the hardware count.  `PinsAssumption` says that no pin is in the pin table
twice (`rpi4_board_config.h` names each once), `CommandsAssumption` that the commands
are such as `gpio set` accepts.

## 3. Abstractions and bounds

Data is counted, not kept: a word, a byte, a block is a unit; commands are
their flags and their effect on the card; formatting and logging are left out.
Every bound is a constant:

| Bound | Value | Why it is enough |
|---|---|---|
| `MaxFrags` 3, `NumCbs` 2 | 1 and 2 fragments fit, 3 are refused | first, last and refused setup |
| `CountMod` 4 | for 2^32 | larger than `NumCbs`, so it wraps only below zero; the theorems are for any modulus |
| `MaxStarts` 2 | a transfer and the one a late event hits | |
| `Procs`, `Channels` 2, `MaxUsers` 2, `MaxCrashes` 2 | one process against another, first and second user, a death during the recovery from a death | the theorems are for any number |
| `MaxRetries` 1, `MaxPolls` 2, `IdMod` 3 | a retry and its exhaustion; a poll repeated; the current issue, its predecessor and an older one are told apart | |
| `MaxCards` 3, `Targets` {0, 1} | a card, its replacement, and one more during the clean-up; a driver that scans and one that is given a bus | |
| I2C `MaxLen` 3, `Cap` 2 | transfers shorter than, equal to and longer than the FIFO | |
| SPI `Cap` 4, `FifoLen` 2, lengths 1, 2, 9 | one word, the pre-fill, several rounds | |
| Sim: two clients, `StartCcbMax` 1, `MaxRequests` 2 or 3, `MaxTimers` 2, `MaxFaults` 1 | a request queued while another runs or while the thread goes to sleep; the loop bound reached; a timer before and after a fault; one failure, whose recovery runs to its end | a second failure is what the code gives up on |
| CardInit: five cards, `MaxOps` 3, `MaxFaults` 2 | attach, a disturbance, a repair; a failure and one more in the fall-back | with three failures `BusAgrees` and `UsableIsSelected` fail, see 5; `Few` says so for other instances. The theorem is for any number |
| Serial: `Cap` 2, `Trigger` 1, `Burst` 2, `MaxWrites` 3, `MaxRx` 2, `MaxStty` 1 | output that fills FIFO and shift register, and is longer with an injected character; a character below and one at the trigger level; settings changed under output | the theorems are for any of them |
| Gic: 3 CPUs, `QSlots` 8, `MaxOps` 3 | one CPU running, one waiting, one not started; the ITS queue wraps; a mask against an IPI or a second mask | five machines: the board's GICv2, GICv3 with ITS, without system registers, with more device bits than the table has, with directly written LPIs |
| Startup: pages of 2 cells, tables of 6 entries, `MaxBoots` 3 | blocks that begin or end within a page, sizes around a page's end, segments that cross tables; a boot that stores, one that restores, one after damage | boards and command lines are listed in `MCStartup` |
| System: two users per tool, `MaxMsgs` 2, `Slice` 33500 ticks | a command in the middle of another's read-modify-write, a late answer at the next message, kicks before and after the time has run out | |

`DmaSync` uses symmetry in processes and channels, `Sim` in clients, which no
property or action tells apart; both check invariants only.

## 4. Runs

Several properties are conjunctions of named parts; the parts are separate
definitions with comments of their own.

| Run | Properties | Shows |
|---|---|---|
| `DmaComplete` | `TypeOK`, `EngineImpliesBusy`, `CompletionIsHonest`, `TransfersEnd` | completion events and polling: the engine runs only behind `DMACH_BUSY`, success means that all fragments moved, no channel is orphaned, repetition ends by abort only, transfers end |
| `DmaEvents` | `ImplementsApi` | event-driven channels, also with an event per segment, implement `DmaApi` |
| `DmaSync` | `MutexExclusive`, `EnableIsRight`, `HeldIsOwned`, `HolderIsInside` | with failing calls, deaths and restarts: mutual exclusion, no lost update of DMA_ENABLE, no channel with two owners, a process count that never makes a second process the first, no wait behind a live process that is not in its section |
| `SdioCmd` | `CompletionIsOwn`, `CommandsAccounted`, `CapsFollowCommand`, `SendReturns` | with errors, hangs and removals: a completion is the command's own, slot and pool are consistent, the controller's features are restored while the card is in, every send returns |
| `CardDetect` | `HandlesSound`, `NothingLeft`, `PresenceSettles`, `ConnectionSettles` | from command line to exit: requests never lose their handle, one handle per card, controllers outlive their users, a driver that ends leaves nothing behind, the driver catches up with the slot, a connection comes to its end |
| `I2cMaster` | `CallIsOwn`, `CallReturns` | on an own and on a shared line: results and buffers belong to their call until a transaction outlasts its timeout, calls return, and a transaction that ended in time is reported as aborted only if its signal came before the wait |
| `SpiXfer` | `OkWithoutStalePost`, `CallsLeaveNothing`, `XferSucceeds` | exchanges succeed and leave nothing behind as long as they are given their time; after timeouts the channels are free, exchanges by the CPU are still right and calls return |
| `Sim` | `DataIsSafe`, `RequestFindsItsTarget`, `NoLostWakeup` | a SYNC leaves nothing in the cache and lost data is marked; transfers reach their partition and never overlap a background operation, APDUs the selected system; no CCB is left behind by a sleeping thread |
| `CardInit` | `HostAndCardAgree`, `UsableIsReady`, `SameCard` | whichever two steps fail, host, regulator and card agree on width, mode, voltage and clock when an operation reports success; the card is selected with blocks of 512 bytes and is the one that was identified |
| `Serial` | `CharactersFlow`, `SentInOrder`, `RateIsRight` | nothing is stranded in a buffer or FIFO, suspended output stays suspended, data is sent once and in order, the divisors give the rate asked for |
| `Gic` | `OneCpuAtATime`, `HandoverSound`, `InterruptsArrive` | never two CPUs in startup's code; registers, vectors and tables are sound at the hand-over; IPIs and MSIs are not lost, masks work |
| `Startup` | `RamIsSound`, `HandoverWhole`, `StartsPristine`, `PinsAsAsked`, `AnswerIsOwn`, `WatchdogFed` | memory is handed out once, and only free memory is announced; system page and page tables are whole; each boot starts the image it was meant to; tools do what they were asked for |

The conditions under which a property holds are part of the property
(`removed`, `lost`, `late`, `missed`, `left`, `crashes`, tags of `hist` and `ev`,
`crossed`, `gaveup`) or of a constant.  What they exclude does happen in the model.
Section 5 says where the code is behind each.

### Deadlock

Deadlock is checked in the runs of `DmaChannel`, `SdioCmd`, `I2cMaster`, `SpiXfer` and
`Startup`.  In the others the system may come to rest: a dead process may hold
the mutex, then everybody waits (`DmaSync`); the driver has ended (`CardDetect`); all
operations, requests or characters of the instance are used up (`CardInit`, `Sim`,
`Serial`, `Gic`).  In `Sim` and `Serial` an invariant (`NoLostWakeup`,
`NothingStranded`) says that what rests has nothing left to do.

### Fairness

Threads of a driver run on (weak fairness of their steps): they are ready
whenever they are not blocked, and QNX schedules ready threads.  Hardware that
has not stopped makes progress.  The client of
`DmaChannel` answers events and polls, as `dma_api.README` requires.  In
`SdioConnect` main thread and detection thread run on, interrupts are delivered,
the poll timer is periodic, requests end (which is `SendReturns` of `SdioCmd`), and
the driver thread comes back to its channel between requests because
`start_ccb_max` bounds its loop: strong fairness of `DriverExit`, which is enabled
only there.  No fairness is assumed of what clients and users may do at will
(calls, aborts, plugging, the end of the driver), nor of faults.  A timeout
expires when nothing else can end the wait.

## 5. Where the code is behind a property's exceptions

Observations made while modelling; each is a case that a property or a constant
excludes by name.

DMA library.  A late completion event resets the transfer started since
(`bcm2711_dmac.c:1056`; `Threaded` FALSE excludes it).  The shared mutex is
initialised after others can lock it (`sync.c:61`; `Staggered`).  With a client
that restarts without a setup, repeats, or releases a busy channel (`ReSetup`,
`RepeatModes`, `ReleaseBusy`), a channel with per-segment events stays busy,
stops repeating after one round, or resumes the old transfer for its next owner.
`bytes_left()` says zero during the first of several fragments (`:877`), which is
why `CompletionIsHonest` and `ImplementsApi` speak of channels with events only.

SDIO core.  A removal during a reliable write leaves ACMD12 / ACMD23 off
(`base.c:1445`; `removed`).  With answers that come after the timeout
(`LateAnswers` TRUE, an instance too large to keep as a run) the pool stays
consistent and sends return, but an answer may complete the next command.
With interrupts, `sdhci_cmd()` may clear a card detect bit (`lost`).  A build without
PCI and SOC support (`bs.h:30`) turns a named controller into `sdio_dinit()` and
EOK, and main goes on to lock a destroyed mutex, which ends the process
(`base.c:2724-2744`).  A second option set is ignored after a scan (`base.c:2699`).
Without a controller, ENODEV leaves the detection thread (`:2771`, named in
`NothingLeft`).  `sdio_cd_dinit()` can wait for a thread that waits for
`sdio_enum()` (`:2567`, `:1837`, named in `ConnectionSettles`; not with polling).

Card set-up.  A reset succeeds with an idle, unselected card when the 1.8 V
switch has cut the power ("power"); `mmc_init_hs400()` goes on after HS200 has
failed (`mmc.c:1237`; `Clean`); a 2 GB MMC keeps blocks of 1024 after a reset; a wrong
password overwrites the one kept (`sd.c:1258`); two failures, or a firmware that
does not answer, defeat the voltage fall-back, and a locked card escapes it: when the
answer to CMD11 was lost, `sd_init_device()` returns before the check of `sd.c:1437`,
and `sd_lock_unlock()` (`sd.c:1249`) sets the bus up without it.  Three failures reach
further (`Few`): a failed attempt of `_sdio_attach()` leaves its flags to the next,
which takes the mode they name for set; and after a reset that has failed three times,
whose status `sdio_reset()` discards (`card.c:684`), `mmc_bus_error()` reports success
for a card that is not selected, as `mmc_init_bus()` ends with the block length it remembers.

SIM module.  A devctl RUN resets without marking lost data ("unmarked"); PAUSE
freezes only its own partition's queue (`sim_sdmmc.c:2171`); a firmware download, which
interrupts no background operation, has its answer call the next one urgent, and
`sdmmc_rw()` then clears the mark of the one in progress (`:1811`, "forgotten"); an
erase or a write protection goes on after a failed partition switch ("unsure"); `assd_send_psi()`
drops the status of the read ("doubt").  `hc->entry.pm` is NULL (`sdhci.c:1281`), so
`HcPm` and `HcSleep` are FALSE and cards never sleep by themselves.

I2C and SPI.  `bcm2711_wait_complete()` waits without a predicate (`missed`);
`STATREG_MASK` removes the clock stretch bit before it is tested (i2c `wait.c:114`).  A
stale semaphore post completes the next DMA transfer (spi `wait.c:53`; named in
`OkWithoutStalePost`); `xlen * 10^6` overflows from 4295 bytes on (`xfer.c:84`) and
`init_device()` ignores a failing `bcm2711_init_dma()` (`init.c:131`): both outside
the models.

Serial.  `ser_stty()` drops the transmit interrupt and starts nothing, so that
output waits for the next write ("restarted"); the divisor of the mini UART
wraps below 954 baud (named in `RateIsRight`), and the fractional one of the PL011
may reach 64, which its six bits do not hold.

Startup.  The trigger of INTIDs 1008 to 1019 is not reset (`gic_v3.c:1348`, named in
`CleanHandover`); device tables are rounded down to pages (`its.c:156`).  The second
image is restored without a reservation (`restore_ifs.c:163`); only the first
writable segment of a program is saved (`:413`); the avoid list is written without
a bound (`ram.c:416`).

Tools.  Two gpio commands that share a register disturb each other (`gpio.c:193`;
`crossed`); the mailbox tool may take a late answer for the next message's
(`gaveup`); the watchdog's time is clamped to 15.6 s (`init_wdt.c:48`).

## 6. Proofs

The theorems hold for every value of the constants that the assumptions of the
modules allow; further assumptions are part of the theorem.  TLC checked each
inductive invariant on the instance of the component's run before it was proved.  In a proof that a step preserves
an invariant there is one step per action and one per part of the invariant.

`Dma_proofs` for `DmaChannel` (`BoundsAssumption`, `ClientAssumption`):

- `TypeCorrect`: `ChanSpec => []TypeOK`.  `TypeOK` is inductive; `CountWraps` is the
  arithmetic of the unsigned count and `ControlBlocksType` says that
  `ControlBlocks` returns a chain within bounds that points into itself.
- `EngineIsBusy`: `ChanSpec => []EngineImpliesBusy` for a client that serialises its
  threads and releases idle channels.  The property is not inductive, since
  `xfer_complete()` sets ACTIVE whatever the channel does.  `BusyInv` adds that
  a control block address is there only while the channel is busy, that
  `DMACH_BUSY` is cleared behind an idle engine only, that a start sets it
  before it writes the address, and that the two threads take turns.
  With `ReleaseBusy` TRUE the property fails, so the assumption on releases is
  needed.
- `IdleBehindBusy`: the action property that `DMACH_BUSY` goes only together with
  the control block address, from the same invariant.
- `CompletionStaysHonest`: `CompletionIsHonest`, and `ChannelImplementsApi`: the
  refinement `ChanSpec => ImplementsApi`, for the same clients if each event is
  handled before the next can come (`Honest`: one event at the end, or one per
  fragment with a setup before each start and no repetition).  `HonestInv` adds
  the links of the chain, the interrupt's way from engine to
  `InterruptUnmask()` (`MaskInv`), and how far the transfer is: `frg_count` and the
  fragments moved add up to the chain, but for the one whose event is under way
  (`TallyInv`), and without segment events none comes before the last block.  In the
  refinement attach, the end of a release, setup and start map to the steps of
  `DmaApi` of those names, the clearing of `DMACH_BUSY` to `Finish`, a step of the
  engine to `Move` or, in a repetition, to none, and all others to stuttering.

`Dma_proofs` for `DmaSync`, for every set of processes and channels and any number of
deaths and failures (`ProcsAssumption`); all but `HolderComesOut` when the creation
of the shared object is not raced (with `Staggered` FALSE they fail):

- `MutexExcludes`: `Spec => []MutexExclusive`, and `HandlesOwned`:
  `Spec => []HeldIsOwned`.  `SyncInv` consists of `SyncType`, `UsersInv` (what the
  user count says about a process), `CreatorInv` (nobody else is past opening
  the object before its creator has initialised the mutex, so that
  `MutexInit` frees a mutex nobody holds), `HolderInv` (a process in a guarded
  section is the holder) and `OwnerInv` (channels being attached or released
  belong to their process in the database, too).
- `EnableStaysRight`: `Spec => []EnableIsRight`.  To `SyncInv` come `CountInv`
  (`process_cnt` is at least the number of processes that counted themselves in, and
  exact until one dies), `FreshInv` (nothing is counted before the mutex is
  initialised), `RegInv` (the copy of DMA_ENABLE in the hands of a process is up to
  date: this is where the lost update would be) and `OwnedInv` (what is enabled is
  owned also inside of the sections, except while the first process is about to
  reset the register).
- `HolderComesOut`: `Spec => []HolderIsInside`, with no assumption on the creation
  of the object.  `WaitInv` adds only the types of `pc`, `mutex` and `crashes`: each
  step that leaves a guarded section also frees the mutex, and every death is
  counted.

`Sdio_proofs` for `SdioCmd` (`CmdAssumption`), any commands, retries, polls and ids:

- `PoolStaysConsistent` and `CapsAlwaysFollow` whatever the timing.  `AccountInv`
  counts the commands in use (`PoolInv`), ties the list of what is to be issued to the
  one being issued (`TodoInv`), and says that the features taken away are those
  saved (`FeatureInv`).
- `CommandsStayAccounted` and `CompletionStaysOwn` when no answer comes after its
  timeout (with `LateAnswers` TRUE they fail).  `OwnInv` says, while the card is in,
  that the slot names the command being issued until it has a status (`SlotInv`),
  that the controller works for that command only and has nothing left to report
  once it was stopped (`LineInv`), and that the event thread only has bits of that
  command in its hands (`EventInv`); a success in its hands outlives a removal
  (`SuccessInv`).

`Sdio_proofs` for `SdioConnect` (`CardAssumption`, `CmdlineAssumption`), any command line, any
finite set of I/O threads, any number of controllers and cards:

- `HandlesStaySound` and `NothingStaysLeft`.  `ConnInv` is indexed by the place of the
  main thread: where the detection thread may be and what exists (`ThreadInv`), which
  controllers are initialised (`UpInv`), when there is a handle (`HandleInv`), and
  what `sdio_cd()` knows at each of its places (`LookInv`); the use count is the number
  of requests under way (`CountInv`).  None of the shared objects has a lock of its
  own, so without these parts nothing keeps the clean-up behind its users.

`Sdio_proofs` for `CardInit` (no assumption), any hosts and cards, any number of
operations and of commands and settings that fail, with or without effect:

- `CardStaysSame`: `SlotSpec => []SameCard`.  An operation is a composition of calls
  with sets of outcomes, so the argument follows the calls: `All` says that every
  outcome has the card in the slot and the CID of the device unchanged, with one lemma
  for each call of `base.c`, `mmc.c`, `sd.c` and the controller; `Known` says that an
  outcome that is a success has the CID of the card.  CMD2 (`CidKnown`) turns the first
  into the second: before it a set-up can only fail, after it no call writes the CID.
  Without `Known` for the attempts that failed, `_sdio_attach()` and `_sdio_reset()`
  could not be taken from one attempt to the next.

`I2cMaster_proofs` (`I2cAssumption`), any transfer length, FIFO depth and wiring:

- `CallStaysOwn`.  `I2cInv` says, until a transaction outlasts its timeout, which of
  the two threads may be where (`TurnInv`), how the transfer stands on the bus and
  what is reported of it (`EndInv`), that each byte is in the buffer, in the FIFO or
  still to be moved (`ByteInv`), and that a client that waits has its signal or it
  came too early (`SignalInv`).

`SpiXfer_proofs` (`SpiAssumption`), any lengths, FIFO depth and mixture of calls:

- `OkIsHonest` and `CallsStayApart`.  `SpiInv` says that every post has its masked
  interrupt (`PostInv`), that words stored and words in the FIFO were shifted in
  (`WordInv`), and, until a timeout has expired, that every post belongs to the call
  under way (`OwnPostInv`).

`Gic_proofs` (the five assumptions of `GicInit`, `Smp` and `Gic`), any number of CPUs,
any machines and claims, any size of the ITS queue:

- `OneCpuRuns`: `Spec => []OneCpuAtATime`.  `SmpInv` says for every place of the boot
  CPU where the CPUs below, at and above its loop variable are, and what
  `cpu_starting`, `syspage_available` and `pending` are worth.
- `InterruptsStayArriving`: `Spec => []InterruptsArrive`.  `MapInv` says that the SGI
  sent with an entry of `gic_map` reaches the CPU it stands for (`MapReaches` is the
  arithmetic of affinities), `IpiInv` that commands in `ipicmds[]` have an SGI sent,
  being sent or taken, `SpiInv` that distributor and kernel agree on a masked SPI.
  `LpiInv` says that the redistributors know the table or an INVALL is still in
  the queue; slots are compared by their distance from CREADR (`RingDistance`).

`Serial_proofs` (`UartAssumption`), either driver, any depth of the FIFOs and trigger
level, any number of writes, received characters and changes of the settings:

- `CharactersKeepFlowing`: `Spec => []CharactersFlow`.  `FlowInv` says what will move
  output that nothing holds back: the timer, the event, an interrupt latched or
  still to be latched by a FIFO above its trigger level, or `tto()` on its way to
  setting TXIM (`OutputInv`); what will move input (`InputInv`); and that suspended
  output is in the loop of `tto()` only for an injected character at its head
  (`PagedInv`).
- `CharactersSentInOrder`: `Spec => []SentInOrder`.  Until the FIFO is flushed with
  characters in it, each stage holds later characters than the ones nearer to the
  line (`OrderInv`) and none is missing (`WholeInv`); `ser_stty()` gets to the flush
  with characters left only when the line was held (`CutInv`).
- `RateStaysRight`: `Spec => []RateIsRight` if every speed in `Settings` has a rounded
  fraction below 64 (`FractionFits`, as those of the run have); where it is 64, FBRD
  keeps 0 and the property fails.

`Sim_proofs` (`CardsAssumption`), any cards, clients, options and
requests, any number of faults and timers, every feature of the controller, those
that let cards sleep included (`HcPm`, `HcSleep`), and every answer of a firmware
update (`FfuState`), which the run fixes:

- `WrittenIsSafe`: `Spec => []DataIsSafe`, `TargetIsFound`:
  `Spec => []RequestFindsItsTarget`, `WakeupsArrive`: `Spec => []NoLostWakeup`, all from
  `SimInv`.  None of the parts of the two data properties is inductive: they speak of
  tags that are set when it is too late.  `Parked` says what keeps them from being
  set.  Unless an answer was lost, data is in the card's cache only while that is on and
  marked dirty, and it is on only with the flag `CACHE`, on which `sdmmc_reset()` decides
  (`CacheInv`); the module knows the partition and the security system (`PartInv`,
  `SecInv`) and each background operation (`BkInv`); a card that sleeps holds no data
  and is known to sleep (`Rest`); a pulled card has none of all that (`Off`).
- A call of the model is a set of outcomes, so a lemma about a call says of each
  outcome how the record may differ: in the fields that no part of the invariant looks at
  (`Same`), within a request (`Easy`: whatever was true of the target stays true), by
  a request (`Good`, `Done`).  The lemmas follow the calls of the code from
  `sdio_send_cmd()` up to `sdmmc_scsi_io()`, `sdmmc_devctl()` and `sdmmc_timer()`.
  `ResetIsGood` is the one that most of them rest on: `sdmmc_reset()` brings back the
  invariant from any state of a card that is awake, and each error path ends in it.

`System_proofs` (`PinsAssumption`, `CommandsAssumption`), any
board, image, number of boots, tools, pins and messages:

- `AnswerStaysOwn`: `SysSpec => []AnswerIsOwn`.  `MailInv` says that the buffer of a
  caller that never gave up holds its own question or the answer to it
  (`BufferInv`), that no word asks for more than its caller did (`LagInv`), and that a
  caller that waits has one word under way and an idle one none (`OneWordInv`).
- `ExecutablesStartPristine`: `SysSpec => []StartsPristine`.  `KeptInv` is about what
  survives a reset: a valid checksum is there only with a saved and complete image, never
  while the image is being loaded, so that what a restore puts back is what was
  stored (`KeptRestore`).
- `PinsStayAsAsked`: `SysSpec => []PinsAsAsked`.  Until commands that share a register
  have run together, each pin that no running command names is as wanted, each
  command is on its way to what was asked of it, the value it has read is that of the
  register, and no two commands under way share a register (`PinsInv`).  That
  `init_board()` sets the table (`AsTable`) is shown by induction over its rows, for
  which no pin may be in it twice.

The library's induction theorems take an operator, which the provers do not
instantiate.  Where a proof needs induction, `AllNumbers` has it for sets of numbers,
from the well-founded order of the naturals (`WFMin`); `FoldDefined` and `FoldChain`
unfold the folds of the pin table with it.

Model-checked only:

- `TransfersEnd`, `SendReturns`, `PresenceSettles`, `ConnectionSettles`, `CallReturns` and
  `XferSucceeds`: liveness under fairness, which the prover does not do.
- `HandoverSound` of `Gic`: tables of 2^n entries and sequences filtered with
  `SelectSeq`; the solver has no theory of either, and its invariant would be most of
  the registers of the controller.
- `HostAndCardAgree` and `UsableIsReady` of `CardInit`: unlike `SameCard`, what they say
  changes with nearly every command of the bus set-up, and they hold for two failures at
  most and for cards that are as their registers say, so that each lemma would have to
  count failures along the way.
- `RamIsSound` and `HandoverWhole` of `Startup`: each step folds lists of memory blocks,
  sections and page tables, and each fold would need an induction of its own.
- `WatchdogFed` of `System`: the tags of hwinfo are folded into register values, whose
  bits and 32-bit halves decide when the timer bites.

## 7. Not modelled

- Encoding: control blocks of the DMA library and its parameter checks, ADMA and
  SDMA descriptors, PIO copying, mode pages and inquiry data: layout of data, with
  no state a property depends on.
- Options: parsing of command lines except for those of the SDIO driver and of
  wdtkick; clock divisors and speeds of SPI and I2C.  Timeouts are abstracted to
  when they may expire, so overflow in their computation is outside.
- Code the build leaves out: PCI and SOC controllers of the SDIO core, the
  extension registers of SD 6.0 cards (`SDIO_APP_SPEC_FCN_EXT`), write
  verification (`SDMMC_WRITE_VERIFY`), the DMA variant of the PL011 driver.
- Startup for other boards: EFI, UEFI, FDT, tables of CPU features, and the
  assembler that leaves EL2; the debug console.
- Headers of external interfaces (`ntoscsi.h`, `pci_devices.h`, ...), build files and
  prebuilt binaries.

## 8. Plan

1. `UsableIsReady` of `CardInit` on the lemmas of `CardStaysSame`, with the failures
   spent as part of each outcome.
2. The memory lists of `Ram`: that `alloc_ram()` and `find_ram()` keep blocks apart, as
   the first part of `RamIsSound`.
