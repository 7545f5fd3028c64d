# A TLA+ verification of the wrap030 port

This directory holds TLA+ models of the NetBSD port to the wrap030 (a 68030
single-board computer) and of the ATA layer kept beside it, the TLC
configurations that check them on small instances, and proofs for TLAPS of
every safety property that a passing run checks, for all values of the constants
(with the assumptions that sections 5 and 6 name).
The ATA layer's modules are about concurrency, the port's about exceptions,
memory and devices.  Every definition is translated
from the sources under `src/`; `PROJECT.json` says which lines each one stands
for.

    tlc  -workers 2 -config AtaQueueNcq.cfg MCAtaQueue.tla     # one run
    tlapm AtaQueueProofs.tla                                   # proofs of one module

The modules with proofs are `ListLemmas`, `AtaQueueProofs`, `AtaTimeoutProofs`,
`AtaThreadProofs`, `AtabusProbeProofs`, `AtaDrivesProofs`, `InterruptProofs`
(of `IsrDispatch` and of `Exceptions`) and `MachineProofs`.

Contents: 1 the system, 2 the models, 3 the runs, 4 fairness, 5 assumptions
about the environment, 6 proofs, 7 where the code does not do what it says,
8 what is not modelled, 9 plan.

## 1. The system

`src/sys/dev/ata/ata.c` is the machine-independent ATA layer: 2400 lines of
concurrent code with a queue, a thread per channel, interrupts and detach.
`src/sys/arch/wrap030` is the port: interrupt and trap entry (`locore.s`,
`vectors.s`, `trap.c`, `isr.c`), the clock, the memory map
(`pmap_bootstrap.c`), startup (`machdep.c`, `autoconf.c`) and drivers.

| Component | State | Operations | Talks to | Hard behaviour | Correct when |
|---|---|---|---|---|---|
| ATA transfer queue (`ata.c`) | `queue_xfer`, `active_xfers`, `active_xfers_used`, `queue_freeze`, `ATACH_NCQ`, `c_slot`, `C_WAITACT` | `ata_exec_xfer`, `atastart`, `ata_xfer_start`, `ata_deactivate_xfer`, `ata_kill_active`, `ata_kill_pending`, `ata_waitdrain_xfer_check`, freeze, thaw, idle | controller hooks `c_start`, `c_poll`, `c_abort`, `c_kill_xfer`; interrupts | threads and interrupts interleave wherever `ch_lock` is dropped; recovery overtakes the queue; polling submitters sleep in it | slots exact, no two incompatible commands active, frozen means quiet, nothing lost, every command leaves the queue |
| ATA transfer timeout (`ata.c`) | `C_WAITTIMO`, `C_FREE`, `c_timo_callout`, `c_retrywait` | `ata_timo_xfer_check`, `ata_deactivate_xfer`, `ata_free_xfer`, `ata_wait_cmd` | callouts | a callout that has begun races the completing interrupt | a transfer ends once and is freed once |
| ATA channel thread (`ata.c`) | `ch_flags`, `ATA_DRIVE_TH_RESET`, `queue_freeze`, `ch_thr_idle` | `atabus_thread`, `ata_thread_run`, `ata_thread_wake_locked`, suspend, resume, reset ioctl, rescan, detach | the queue (freeze and thaw), hooks that drop the lock | work handed over between contexts with one freeze for each; one condition variable for two sleepers | freezes and thaws match, no wakeup lost, detach returns |
| ATA bus probing (`ata.c`) | `atabus_initq_head`, `adapt_refcnt`, `drv_softc` | `atabus_attach`, `atabusconfig`, `atabusconfig_thread`, `atabus_rescan`, `ata_addref`, `ata_delref`, open, close | autoconf, other buses through a global list | threads of several buses take turns; thread creation and power-up may fail | drives attach in bus order, one bus at a time; powered exactly while used |
| ATA modes and commands (`ata.c`) | mode fields of `ata_drive_datas` | `ata_get_params`, `ata_set_mode`, `ata_probe_caps`, `ata_dmaerr` | the drive | sequential negotiation, downgrade on errors | never a mode the controller lacks |
| Interrupt handler lists (`isr.c`) | `isr_list[]`, `idepth`, stray and unexpected counters | `isrlink`, `isrdispatch`, `cpu_intr_p` | vectors, drivers | nested activations that leave by different paths | `cpu_intr_p` exact, attached devices served |
| Exceptions, spl (`locore.s`, `vectors.s`, `intr.h`) | status register, `astpending` | `rei`, `spl0`, `intrhand`, `clockintr`, `trap0` | `isr.c`, `trap.c` | a request posted between a test and the return | what is posted is served, at the latest after the next clock interrupt |
| Traps (`trap.c`) | `l_md`, `p_trace_enabled`, `onfault` | `trap`, `userret`, `writeback` | UVM, signals | faults in kernel copies, signals against panics | the right signal for each fault |
| Clock (`clock.c`, `clk_dp8570a.c`) | a one-shot counter | `cpu_initclocks`, `reloadclock` | `clockintr` | every interrupt must reload | time goes on |
| Memory map (`pmap_bootstrap.c`) | initial page tables | `pmap_bootstrap` | `locore.s` | overlap, rounding | tables cover what the kernel uses, once |
| Startup, reboot, dump (`machdep.c`) | `dumplo`, `dumpsize`, `waittime` | `cpu_startup`, `cpu_reboot`, `cpu_dumpconf`, `dumpsys` | devices | dump at the end of a partition | the dump fits |
| Device mapping (`autoconf.c`, `bus.c`, `bus.h`) | kernel map, device registers | `mainbus_map`, `bus_space_map` and the accessors | UVM | page rounding, copies that overlap, swapped byte lanes | mappings are apart and reach the device; an access changes what it names |
| EEPROM (`eeprom.c`) | a mapped page, `eeprom_read` | `wrap030_getetheraddr` | `if_le.c` | a failed read is retried | each mapping reaches the page |
| Front ends (`wdc_mb.c`, `com_mainbus.c`, `zs.c`, `zs_pcc.c`, `if_le.c`) | device registers | match, attach | `isrlink` | - | - |

The ATA layer comes first because most of the system's concurrency is in it.
Its components depend on each other only through `queue_freeze`, `ch_flags`,
`ch_drive` and `ch_lock`, so each has a module of its own.  The port's parts
run one after the other and share the page tables; `Machine` composes them.

| Component | Module | Status |
|---|---|---|
| ATA transfer queue | `AtaQueue`, `AtaIssue` | all but PIOBM and `atac_claim_hw` |
| ATA transfer timeout | `AtaTimeout` | all but `C_PRIVATE_ALLOC` and the wakeup of a waiting submitter |
| ATA channel thread | `AtaThread` | all |
| ATA bus probing | `AtabusProbe`, `AtaDrives` | all but ATAPI and port multipliers |
| ATA modes and commands | `AtaModes`, `AtaDrives` | all but printing, data conversion, ATAPI |
| Interrupt handler lists | `IsrDispatch` | all |
| Exceptions, traps, clock | `Exceptions` | all that one CPU without FPU emulation and debugger runs |
| Memory map | `PmapBootstrap` | the 68030's tables |
| Startup, reboot, dump | `Reboot`, `Machine` | memory, reboot, dump |
| Device mapping, EEPROM, front ends | `Mainbus`, `BusSpace` | mapping and access; not what registers mean |

## 2. The models

### AtaQueue, AtaIssue: the transfer queue

`AtaQueue.tla` models one channel.  `queue` is `queue_xfer`, `active` is
`active_xfers` (`queue_active` is its length), `slot` and `used` are `c_slot`
and `active_xfers_used`, `ncq` is `ATACH_NCQ`, `freeze` is `queue_freeze`, a
signed number as in the code, `flags` what is scheduled to the thread, `extra`
the `threset` of each `ata_thread_run`, `postponed` the active transfers that
`c_start` left to the thread.  A *context* is whoever runs the code: the
submitter of a transfer, the thread that detaches a drive, the channel's own
thread, the reset ioctl, suspend and resume, or the interrupt handler; `pc` says
where it is.  A step is what a context does between taking and dropping
`ch_lock`, and `excl` names the context that may not be interleaved: a turn of
`atastart` that goes `again:` with the lock held, an interrupt handler (no
thread runs until it is done), a busy-waiting hook, a turn of the thread's loop
that does not drop the lock.

| Code | Action |
|---|---|
| `ata_exec_xfer` up to `atastart`; its loop around `cv_wait(c_active)` | `ExecXfer`, `WakeActive` |
| one turn of `atastart`: nothing can start / the head's submitter waits / start it, with `ata_xfer_start` and `ata_activate_xfer_locked` | `StartNothing`, `StartWakes`, `StartXfer` |
| what `c_start` returned: `ATASTART_STARTED`, `_POLL`, `_ABORT`, `_TH` | `Started`, `Polled`, `Aborted`, `LeftToThread` |
| the end of `c_poll` and `c_abort` | `PollDone`, `PollAgain`, `AbortDone` |
| completion interrupt with `ata_waitdrain_xfer_check`, `ata_deactivate_xfer` | `Interrupt` |
| `ata_kill_pending` | `KillBegin`, `KillOne`, `KillAgain`, `KillWait` |
| `ata_thread_run` of a caller that may not wait (freezes, sets the flag) | `Asked` |
| `ata_thread_run` of one that may (freezes again): to the hook, `ata_kill_active`, the thaws | `RunBegin`, `Walk`, `KillActive`, `RunEnd` |
| the loop of `atabus_thread`: sleep; scheduled work; the thaw and restart at `ata.c:507`; the panic at 533; the end of the turn with `atastart` | `Sleep`, `ServeAsked`, `ServeXfer`, `ServePanic`, `ServeNothing`, `EndTurn` |
| the reset ioctl; `ata_channel_idle`; `atabus_resume` | `IoctlReset`; `Suspend`, `Idle`; `Resume` |

The thread's restart at `ata.c:507` goes by two counters, and may thaw a freeze
that is a suspension's or another reset's (section 7).  `stolen` remembers that
it has.  Three properties (`SuspendQuiet`, `HoldersFreeze`, `RecoveryOvertakes`) hold up to that moment only and say so; `SlotsExact`,
`OnePlace`, `Exclusive`, `RecoveryReady`, `NcqFlagExact`, `DetachComplete` and
the refinement hold whatever it does.

`AtaIssue.tla` is what the queue promises: commands are submitted, issued at
most once, with a tag nobody else holds, together only with commands they may
share the channel with, and not while the channel is held unless they are
recovery commands.  `KeepsPromise` says that `AtaQueue` implements it, with
`pending` the set of queued transfers, `tag` the slots of the active ones and
`held` the test `freeze > 0`.

`MCAtaQueue.tla` names the transfers and drives of the instances.
`ListLemmas.tla` and `AtaQueueProofs.tla` hold the proofs (section 6).

### AtaThread: the channel's thread and the freeze count

`AtaThread.tla` models `atabus_thread` after its first probe, with all who
freeze, thaw and wake around it.  `flags` is the `ATACH_TH_*`, rescan and
shutdown part of `ch_flags`, `drvreset` is `ATA_DRIVE_TH_RESET` of each drive,
`idle` the sleepers on `ch_thr_idle` (the thread, and `atabus_detach`), `extra`
is `threset` of each `ata_thread_run`.  The queue is reduced to what the thread
looks at: `xfer` says whether a transfer is active and whether `c_start`
returned `ATASTART_TH`, that is, froze the channel and left it to the thread.
`AtaQueue` has the same thread with the queue in detail, `AtaThread` has what it
leaves out: drive resets, rescan, and the handshake with detach.
Every branch of the thread's loop is an action: `Sleep`, `Exit`, `Rescan`,
`ServeReset`, `ServeDrives`/`DriveDone` (the loop over drives, one turn a
step), `ServeRecovery`, `ServeXfer`, `ServePanic`, `ServeNothing`, `Kick` (the
`atastart` at the end of a turn).  `RunBegin` and `RunEnd` are the two halves
of `ata_thread_run` for a caller that may wait, `Ask` the form that schedules.
`astray` counts the freezes the code itself loses: that of a postponed transfer
that a hook ends, that of a drive reset whose flag is cleared unserved, and, with
the opposite sign, the one that the thread takes from a holder when it restarts
a transfer nobody postponed.

### AtabusProbe: probing in order, and power

`AtabusProbe.tla` has one thread per bus, the config threads (`conf`), the
global queue of entries `atabus_initq_head` (`initq`), and the reference count
of the adapter that all buses share.  An entry is a bus and a serial number,
because a rescan queues a second entry of the same bus.  `Attach`, `Probe`,
`AwaitTurn`, `NoDrives`, `SpawnConfig` are `atabus_attach` and `atabusconfig`;
`ConfBegin`, `ConfAttach`, `ConfEnd` are `atabusconfig_thread`; `Sleep`,
`Wake`, `TakeRescan`, `NoRescan`, `WorkDone`, `Exit` are the thread's loop as
far as rescans see it; `RequestRescan`, `Detach`, `Open`, `Close` the users.
Both `kthread_create`s may fail (`orphans`): the entry and the reference then
stay.  The assertion at `ata.c:320` is not compiled in (`GENERIC` has no
`DIAGNOSTIC`), so the config thread takes whatever entry is first.  A null entry
that is read, or one that is removed twice, sets `wild`, and the model stops:
what freed memory holds is beyond it.

### IsrDispatch: interrupt handlers

`IsrDispatch.tla` has the handler list of each autovector level (level 4 is the
clock's and level 7 the NMI's: `vectors.s` sends them elsewhere), a stack of
activations of `isrdispatch`, and `idepth`, `straycount`, `unexpected`.
`Isrlink` inserts a handler where `isrlink` does; `Enter`, `Call`, `Handled`,
`Stray`, `Unexpected` are the parts of `isrdispatch`; higher levels interrupt
lower ones between any two steps.

### AtaTimeout: a transfer's life against its timeout

`AtaTimeout.tla` follows the structures of `ata_xfer_pool` from `ata_get_xfer`
to `ata_free_xfer`.  A channel has one callout for all its active transfers.
`pending` and `invoking` are the callout's state, `phase` and `hand` where its
handler is and which transfers it has yet to look at; `waittimo` and `cfree`
are `C_WAITTIMO` and `C_FREE`.  `GetXfer`, `ExecXfer`, `WaitCmd`, `FreeDone`
are a thread that issues a command (`ata_get_params`, `ata_wait_cmd`);
`Interrupt` and `KillActive` end transfers (`ata_deactivate_xfer`);
`CheckRaced` and `CheckTimeout` are the two answers of `ata_timo_xfer_check`,
and `CheckPanics` the assertion that fails when it answers wrongly.  The queue
is a set here: order is `AtaQueue`'s subject.

### AtaModes, AtaDrives: drives and their transfer modes

`AtaModes.tla` is `ata_probe_caps` as a machine with a step for every command
it sends, because every command sleeps: `Identify`, `IdentifyAgain`, `PioLoop`, `DmaLoop`,
`UdmaLoop`, `Finish`; and `ata_dmaerr` with `ata_downgrade_mode` as operators
on a drive's record.  `AtaDrives.tla` adds the table `ch_drive[]`:
`AllocBegin` and `AllocEnd` are `atabus_alloc_drives` before and after it
sleeps, `Found` what the controller's probe leaves, `AttachDrive`, `NextDrive`,
`ConfEnd` the config thread, `Ioctl` and `BusDetach` the two ways drives go, at
any moment at which the config thread sleeps.  `BusGone` frees the table, for
which `atabus_detach` does not wait for the config thread either: `Astray` is a
negotiation that goes on in freed memory, of which only the control is modelled.  `own` and `streak` are history.

### Exceptions: traps, interrupts and the clock

`Exceptions.tla` is one CPU that runs one process.  `pc` names what it
executes, `stack` the exception frames, `onfault` is `pcb_onfault`.  An
exception pushes a frame; `Trap`, `MmuFault`, `UvmReturns`, `Userret` are the
parts of `trap`; `Rei`, `Ast`, `Rte` the way back; `Handler` the end of
`intrhand` and `clockintr`, which reloads the timer (`Tick` lets it run out).

### PmapBootstrap, Mainbus, BusSpace, Reboot, Machine

`PmapBootstrap.tla` builds the segment table, `Sysptmap`, the last page table
and the kernel's page tables, loop by loop, in a function from physical pages
to tables, and exports the addresses the kernel uses.  `Translate` is the MMU's
walk through those tables.  `Mainbus.tla` enters device pages into the same
tables (`mainbus_map` and its callers).  `BusSpace.tla` has the accessors of
`bus.h` as operators on a bus, as the macros are defined, not as the comments
over them say: a copy takes both handles before both offsets (`bus.h:807`), and
the swapped set forms store the variable `v` of their caller (651, 687, 744,
780).  `Reboot.tla` is `cpu_reboot`, `cpu_dumpconf`
and `dumpsys`, which maps each page at `vmmap` before it writes it.
`Machine.tla` composes them from `pmap_bootstrap` to `doboot` and states what
they must do together.  `MCMachine.tla` and `MCAtaDrives.tla` name the values
of the instances.

## 3. The runs

| Run | Instance | Shows |
|---|---|---|
| `AtaQueueNcq` | 3 NCQ transfers to two drives (2 and 1 openings), a recovery command, 3 channel openings; the thread with recoveries, the reset ioctl, suspend and resume; one drive detached | `SlotsExact`, `Exclusive`, `RecoveryReady`, `HoldersFreeze`, `SuspendQuiet`, `NcqFlagExact`, `OnePlace`, `DetachComplete`, `RecoveryOvertakes`, and the refinement `KeepsPromise` |
| `AtaQueuePoll` | 2 ordinary transfers, one of which may be postponed, a polled one, one that waits to be polled; resets scheduled to the thread | liveness: `QueueProgress`, `PostponedRestarts` |
| `AtaQueueKillSpin` | 2 transfers on 2 drives, one detached | violation of `KillScanReturns` |
| `AtaTimeout` | 2 threads, 3 transfer structures, channels of 1 and of 2 openings | `FreedOnce`, `HandKnown`, `TimerRuns`, and liveness `CommandReturns` |
| `AtaThread` | 2 requests of all three kinds, two drives, running and postponed transfers, reset ioctl, suspend and resume, rescan, detach | `FreezeCounts`, `OnlyHoldersMislead`, and liveness `WorkDone`, `DetachReturns` |
| `AtaThreadSteal` | one drive, transfers that run, suspend and resume | violation of `RestartsPostponed` |
| `AtaThreadDrives` | two drives, 2 drive resets | violation of `Unfreezes` |
| `AtabusProbe` | 3 buses; one is rescanned, detached, opened and closed; power-up and both thread creations may fail | `InOrder`, `PoweredExactly`, `EntriesAreOwn`, and liveness `TurnComes` |
| `AtaDrives` | a table of 1 or 2 drives, two allocators; a drive with old DMA, one with Ultra-DMA and NCQ, one that reports nonsense, one without modes; this port's controller, an Ultra-DMA one and a slow one; modes from the drives or from the configuration | `EmptySlotClean`, `ModesNegotiated`, `ErrorsBounded`, `TableExact` |
| `IsrDispatch` | a network interface at level 3; a serial line, two disks and a card without driver at level 5 | `CpuIntrExact`, `OnlyStraysCounted`, `AllServed` |
| `Exceptions` | devices at levels 3 and 5, the clock at 4, four frames deep | `PanicsForKernel`, `ResumesInCopy`, and liveness `AstServed` |
| `Machine` | two kernels, 12 and 13 pages of RAM, 16 entries to a table; every device of the port; three dump devices | `KernelMapped`, `MemoryApart`, `BusExact`, `DumpInPlace` |

The bounds, and why they are enough:

- `Openings = 3`, `MaxOpenings = 4`: the smallest numbers at which two NCQ
  commands run together and one opening is kept for recovery.  `TwoOpenings`
  gives one drive fewer openings than the channel has, so that the drive's
  limit decides in some states and the channel's in others.
- Three ordinary transfers on two drives: two that may run together and one
  that may not join them.  Transfers are reused after they end, so histories are
  unbounded.  Only one recovery command exists (see section 5).
- The proofs (section 6) remove these bounds for the safety properties.
- `MaxAsks` bounds how often drivers schedule work; two requests suffice for
  one to be taken over or served while the other is scheduled.
- `MaxRescans`: one rescan makes two entries of one bus, the situation the
  thread code does not expect; the properties are about the time before.  The
  bus in the middle is the one users act on (`Used`), so that they disturb one
  that waits and one that is waited for; buses can be opened again and again.
- `StrayLimit`, `UnexpectedLimit` stand for 50 and 10, and are small so that
  the panics are reached; `MaxRaises` bounds how often a device interrupts.
- `AtaTimeout`: two threads make one transfer end while another is active, and
  three structures leave one in the pool.  `HandKnown` and `CommandReturns` are
  stated for one opening, as the port's controller has: with two, starting a
  transfer clears the callout's invoking state, and one that ends after that is
  not marked.  `FreedOnce` and `TimerRuns` hold for any number.
- `AtaDrives`: one config thread at a time, and all allocators of one probe ask
  for the same size.  `NERRS_MAX = 2`, `NXFER = 3` keep the order of 4 and 4000.
  The code is that of a kernel with `NATA_DMA` and `ATA_DOWNGRADE_MODE`.
- `Exceptions`: four frames hold a fault in a copy, the fault under
  `uvm_fault`, and two interrupts.
- `Machine`: tables of 16 entries make the kernel one segment and its end
  another; RAM of 12 pages ends inside the first segment.  A page has two
  blocks, and the dump devices hold all of memory, some pages and none.
  `MaxPanics` lets a panic interrupt the sync or the dump of another.
  `MaxLo` stops the drift of `dumplo` (section 7).  `COUNTS` stands for the
  2^32 rounds of a loop with count 0; bus accesses are tried only while the disk
  is the one device attached, and the other devices attach in one order.

Every property of a passing run is broken by at least one mutant of the code's
model (`PROJECT.json`, "mutants"): a dropped wakeup, a slot not released, a
freeze forgotten, a head of the list taken for granted, and so on.

Deadlock is not checked where a system may stop: all buses detached, bounded
requests used up, or, in `AtaQueueNcq`, the thread's panic.  `AtaQueuePoll`
checks it.

## 4. Fairness

- `AtaQueue`: contexts are kernel threads and an interrupt handler.  Strong
  fairness of each because a thread contends for `ch_lock` with others and can
  be disabled by `excl` in between: the scheduler and the mutex let a thread
  that can run again and again run.  `Interrupt`: the device completes some
  command, or the timeout does, as long as commands are active.  Submitting,
  suspending, resetting and detaching are never forced.  The channel's thread
  is one context for fairness, whatever part of its loop it is in.  The liveness
  run has no suspension: with one, the thread's restart of a transfer that was
  not postponed, and its panic, are reached (`AtaThreadSteal.cfg`,
  `AtaThreadPanic.cfg`), and nothing that `ata_channel_idle` waits for is
  certain.
- `AtaThread`: strong fairness of the thread and of the return of hooks (they
  drop the lock and return), weak fairness of a transfer that runs.
- `AtabusProbe`: weak fairness of probing and of the config thread.
- `IsrDispatch`: weak fairness of the processor.
- `AtaTimeout`: weak fairness of the threads, the handler and the expiry of a
  pending callout; strong fairness of starting a transfer, which `atastart`
  tries whenever one ends, but which others may be tried before.  Devices are
  never forced to interrupt: `CommandReturns` rests on the timeout alone.
- `Exceptions`: what is interrupted goes on after every interrupt, so at each
  depth of the stack the code makes progress infinitely often if it can (strong
  fairness for each depth).  The kernel ends critical sections, copies and
  system calls.  The timer runs down, and a clock interrupt that is asserted
  again and again while the process computes is taken.  The process itself is
  never forced to do anything.

## 5. Assumptions about the environment

What is not in the repository is modelled as this code uses it, and marked
external in `PROJECT.json`: controllers' hooks, UVM, condition variables.

- Interrupt handlers run to completion with respect to threads; `c_poll`,
  `c_abort` and the kill hooks busy-wait or return at once.  While
  `ata_kill_active` walks the list the controller is quiesced; it drops
  `ch_lock` round each `c_kill_xfer` (`ata.c:1482`), but that does not sleep,
  and threads that are not MPSAFE run under the kernel lock and are not
  preempted, so that no other context runs between two kills.
- `ata_queue_alloc_slot` takes any free slot below the drive's openings.
- `c_kill_xfer` for a queued transfer is called with `ch_lock` held, so it
  cannot call `ata_free_xfer`, which takes it: a submitter that waits in
  `ata_exec_xfer` is not woken.
- When `c_poll` returns `ATAPOLL_AGAIN` the second `c_start` gives the transfer
  up; asking to poll once more is a stutter.
- `atac_claim_hw` is null (the controller of this port, `wdc_mb.c`, has none).
- `ata_channel_idle` sleeps a tick at a time, hence needs no wakeup.
- At most one recovery command is outstanding; recovery starts only while NCQ
  commands are active; recovery channels have more than one opening.
- Nothing is submitted to a drive from the moment its detach begins.
- `c_start` returns `ATASTART_TH` never to the thread itself (the panic at
  `ata.c:528`), nor for NCQ, polled or recovery commands (`ata.c:509`).
- Drivers schedule a reset or a recovery when a command they have issued fails,
  hence not while all that is active was postponed.  `ATA_DRIVE_RESET` of the
  drive is left to the drivers that read it.
- In `AtaThread` drivers do not schedule work while the only active transfer
  is one that waits for the thread; a hook may clear `ATA_DRIVE_TH_RESET`;
  rescan and detach come when no transfer is active.
- In `AtabusProbe` threads run under the kernel lock, so what happens between
  two sleeps is one step.
- In `AtaTimeout` the driver's callout handler holds the transfers that were
  active when the callout expired, raises the interrupt level, acknowledges the
  callout, and asks about each; an interrupt cannot come while it does.
- In `AtaDrives` a disk driver counts transfers up to one above `NXFER`, and
  starts `n_dmaerrs` at `NERRS_MAX - 1` unless it is set, as the comment at
  `ata.c:987` says.  A drive's answer to `SET_FEATURES` is free.
- In `Exceptions` the copy routines set and clear `pcb_onfault`, and `uvm_fault`
  returns; interrupt handlers do not fault (`HandlersFault = FALSE`).
- In `Machine` `uvm_km_alloc` gives the lowest free kernel addresses or fails,
  and nothing but `mainbus_map` asks it; `pmap_kenter_pa` enters what it is
  given in the tables that `pmap_bootstrap` made.  How a running kernel adds
  tables is outside the repository.
- In `IsrDispatch` the processor takes the highest level asserted; a device
  without a handler gives up after it was refused once.

## 6. Proofs

`AtaQueueProofs.tla` proves, for any transfers, drives, openings, requests and
users that satisfy the four named assumptions of `AtaQueue`:

| Theorem | States |
|---|---|
| `TypeCorrect` | `Spec => []TypeOK` |
| `SlotsAreExact` | `Spec => []SlotsExact` |
| `OnePlaceEach` | `Spec => []OnePlace` |
| `ChannelIsExclusive` | `Spec => []Exclusive` |
| `HoldersKeepFrozen` | `Spec => []HoldersFreeze` |
| `SuspendedIsQuiet` | `Spec => []SuspendQuiet` |
| `RecoveryIsReady` | `Spec => []RecoveryReady`: the panic of `atastart` is unreachable |
| `RecoveryGoesFirst` | `Spec => RecoveryOvertakes` |
| `NcqFlagIsExact` | `Spec => []NcqFlagExact` |
| `DetachIsComplete` | `Spec => []DetachComplete` |
| `QueueKeepsPromise` | `Spec => KeepsPromise`: `AtaQueue` implements `AtaIssue` |

The inductive invariant is `Inv == XferInv /\ CtxInv`.

- `XferInv` speaks of lists and slots.  `Lists`: no transfer twice in a list or
  in both.  `SlotsExact` alone is not inductive, since removing an active
  transfer clears its slot, which is right only if nobody shares it and the
  transfer occurs once.  `Mix`: a recovery command is first in its list, so
  that comparing with the *first* active transfer, as `atastart` does, compares
  with every ordinary one unless recovery runs.  `Room`: without a recovery
  command active, an opening is left.
- `CtxInv` speaks of contexts.  `HoldersFreeze` compares the freeze count with
  the sum over those who hold the channel (`HeldSum`): each step that takes a
  freeze adds at most one holder, each that thaws removes as many as it thaws,
  or is the thread's restart, after which `stolen` is set unless the transfer was
  postponed.  It needs where each context is (`CtxType`).  `SuspendQuiet` follows
  because a holder makes `freeze > 0` (`HeldFrozen`).

The two halves are proved separately: the lemmas about list primitives
(`EnqueueXfer`, `DequeueXfer`, `StartHead`, `DeactivateXfer`) show that any
action made of them keeps `XferInv` (`XferStep`); `CtxSubmit`, `CtxStart`,
`CtxHook`, `CtxInterrupt`, `CtxKill`, `CtxAsked`, `CtxThread`, `CtxUsers`,
`CtxWalk` and `CtxRunEnd` take the actions for `CtxInv`.  `RecoveryIsReady` adds
a counting argument: active transfers hold distinct slots (`SlotsBounded`), so
an opening means a free slot.
`NcqFlagIsExact` and `DetachIsComplete` add one conjunct each.  `SkipRecovers`:
a recovery command is about only while recovery is; without it the recovery
command could set the flag for others.  `Dismissed`: from the moment
`ata_kill_pending` has gone past the queue nothing is queued for its drive;
without it something queued could become active after the last look.  Both
rest on `KindsOfSteps`: every step submits a transfer, starts one, or only
takes some away.
The refinement is a step simulation under `Inv`: `ExecXfer` is `Submit`,
`StartXfer` is `Issue` (which holds the channel as well if the transfer is left
to the thread), whatever deactivates a transfer (`Interrupt`, `PollDone`,
`AbortDone`, `KillActive`) is `Finish`, `KillOne` is `Cancel`, what freezes and
thaws is `Hold`, `Release` or a stutter, the rest stutters.
`HeadMayIssue` uses `Mix` (a queued recovery command is the head; comparing
with the first active transfer suffices), the fresh tag is `SlotsExact`.

`AtaTimeoutProofs.tla` proves, for any transfers and threads and any positive
numbers of openings (the two assumptions of `AtaTimeout`),

| Theorem | States |
|---|---|
| `TimeoutTypes` | `Spec => []TypeOK`: no structure is in the pool twice |
| `FreedExactlyOnce` | `Spec => []FreedOnce` |
| `ActiveIsTimed` | `Spec => []TimerRuns` |
| `HandIsKnown` | `Spec => []HandKnown` |
| `OneOpeningNoPanic` | with one opening the assertion of `ata_deactivate_xfer` never fails in the callout handler |

Its inductive invariant adds four parts to the properties.  `Ownership`: two
threads never own one transfer, and an idle thread owns none; without it a
structure could be freed by two threads.  `Places`: what is queued or active is
owned, in one place and not done, so nothing is freed before its command ends.
`Marks`: the callout is invoking only between its expiry and the handler's
acknowledgement, when the handler holds all that is active; so a mark goes only
to what the handler will look at.  `OneOpening`: with one opening, once the
start of another transfer has cleared the invoking state, all that the handler
holds is marked.  That is what fails with two openings.  One lemma for each
action (`GetXferKeeps` to `HandlerReturnsKeeps`) shows that it keeps every part.

`AtaThreadProofs.tla` proves, for any number of drives, any bound on requests
and any of the users,

| Theorem | States |
|---|---|
| `NoWakeupLost` | `Spec => []NoLostWakeup` |
| `ThreadTypes` | `Spec => []TypeOK` |
| `FreezeIsCounted` | `Spec => []FreezeCounts` |
| `OnlyHoldersMisleadIt` | `Spec => OnlyHoldersMislead` |

`NoLostWakeup` (`WakeInv`) needs where each context is and what it has
signalled.  For the freeze, `Balanced` says that `queue_freeze` is the sum of
accounts (one for each context and each scheduled request, `Accounts`) and of
`astray`; every step moves an account, opens one with its freeze, closes one
with its thaw, or sends a freeze astray by the number that the action says.  No
hypothesis restricts the users: ioctl, suspension, drive resets and postponed
transfers all take part.  `OnlyHoldersMisleadIt` is the balance read at the two
places where the thread infers: with nothing scheduled, a freeze that is not a
postponed transfer's is another's or astray.

`AtabusProbeProofs.tla` proves, for any set of buses, any opens and closes, and
any failures of power-up and of thread creation,

| Theorem | States |
|---|---|
| `ConfigsInOrder` | `Spec => []InOrder` |
| `OwnEntries` | `Spec => []EntriesAreOwn` |
| `PowerFollowsUse` | `Spec => []PoweredExactly` |

`ProbeInv` is about the time before the first rescan, as the properties are.
`Queued`: the entries are one for each bus, in the order of attachment; a bus
that probes has its own, and a config thread works for the first.  That a bus
whose config thread could not be created does not probe again is what keeps its
entry from being removed by another.  `Counted`: the references are the probes,
the config threads, the open nodes, and one for each bus without its thread.
The last is the reference nobody drops: the property names it, it does not
excuse others.  A rescan makes a second entry of a bus, for which
`AtabusProbeRescan.cfg` refutes `HeadIsMine`, and takes no reference.

`AtaDrivesProofs.tla` proves, for any slots and table sizes, any drives,
controllers and configurations, any `NERRS_MAX` and `NXFER`, and any number of
allocators,

| Theorem | States |
|---|---|
| `TableStaysExact` | `Spec => []TableExact` |
| `SlotsAreClean` | `Spec => []EmptySlotClean` |
| `DowngradeIsSoon` | `Spec => []ErrorsBounded` |
| `ModesAreOwn` | `Spec => []ModesNegotiated` |

The properties speak of moments at which no probe is under way; `DrivesInv`
has what holds in between, when `atabusconfig_thread` sleeps in a command and
the drive, or the table, may go under it.  `Vacant` is about slots, `Probing`
about the place in `ata_probe_caps`, `Negotiated` about flags and their origin,
and `TableExact` needs what each allocator waits for.  `ModesNegotiated` has one
exception in its text, `Beyond`: a drive that reports a PIO mode the controller
cannot do.  The loop at `ata.c:1923` counts such a mode, if the drive accepts
it, as found, and when the drive then refuses the lower ones, it is flagged with
a mode it was never set to.  The instance has such a pair (`SlowPio`, `Ultra`).

`InterruptProofs.tla` proves of `IsrDispatch`, for any devices, levels, priorities and limits,

| Theorem | States |
|---|---|
| `IsrTypes` | `IsrSpec => []TypeOK` |
| `DepthIsExact` | `IsrSpec => []CpuIntrExact` |
| `StraysAreReal` | `IsrSpec => []OnlyStraysCounted` |

The depth needs that each activation leaves with the level it entered with
(`DeepPushed`).  That nothing is a stray needs `Ready` of every activation: it
has heard "yes", or a device that still asks is ahead of it on its list.
`Nested` keeps that true of the activations below, because a handler that is
called serves a device of its own level (`Placed`), and no two activations have
the same.

It proves of `Exceptions`, for any interrupt levels and any depth of the
stack, if no interrupt handler takes a bus error (`HandlersFault = FALSE`),

| Theorem | States |
|---|---|
| `PanicsAreTheKernels` | `Spec => []PanicsForKernel` |
| `CopiesResume` | `Spec => ResumesInCopy` |

`ExcInv` reads the stack as levels of execution.  `Shape`: which code can be
above which frame.  `Guarded`: `pcb_onfault` is set exactly when a copy is under
way that no `uvm_fault` above it has put away, and each `uvm_fault` keeps in its
frame what was set when it began.  The hypothesis is an assumption about the
drivers; `ExceptionsHandler.cfg` refutes `ResumesInCopy` without it.

`MachineProofs.tla` proves, for any kernels, memories, devices and block sizes
that satisfy the assumptions of `PmapBootstrap`, `Mainbus`, `BusSpace` and
`Reboot`,

| Theorem | States |
|---|---|
| `KernelIsMapped` | `Spec => []KernelMapped` |
| `MemoryIsApart` | `Spec => []MemoryApart` |
| `DumpIsInPlace` | `Spec => []DumpInPlace` |
| `BusIsExact` | `Spec => []BusExact` |

The first three rest on one inductive invariant, `MachineIInv`:

- `LaidOut`: what `pmap_bootstrap` computed at each stage, in terms of the
  kernel's shape.  All later sums start from it.
- `Attached`: the clock is configured first, the disk after it and the other
  devices with it, each once; the EEPROM is mapped at most `MaxTries` times.
  So the pages that `mainbus_map` may still ask for are counted (`Budget`).
- `Apart`: mappings lie between `virtual_avail` and `virtual_end` and do not
  overlap.  `MemoryIsApart` needs no more.
- `Packed`: the mappings fill the addresses from `virtual_avail` on.  It is
  what makes them end below the last address that has a page table; without it
  `pmap_kenter_pa` could be asked for an address with no entry.
- `Tabled`: each entry of the kernel page table holds what its address should
  translate to (`Holds`), and each of the other three tables is right as far
  as the bootstrap has come.  `Walk` then follows an address through segment
  table and page table, `SysmapIs` one that leads to a table itself; an entry
  determines its address (`OneQuotient`).
- `Sized`, `Dumping`: `dumpsize` and `dumplo` fit the device that
  `cpu_dumpconf` accepted last, and the loop of `dumpsys` keeps page, address
  and block together.  `DumpInPlace` is not inductive alone, because the device
  may change between two dumps, and it needs `Tabled`: what is written is the
  page that `vmmap` translates to.

TLC checked each part on the instance of `Machine.cfg` as well.  `BusIsExact`
needs none of them, and is about the definitions: where an access goes and what
it leaves there, for a copy from its first handle plus its first offset as the
macro pairs them (`BusAsDeclared` says what the comments do, and TLC refutes
it).  The copying loop is a recursive function of the rounds, and
`CopyExact` shows by a least counterexample that after each round the registers
passed are moved and the others untouched, in the direction the code chooses
when they overlap.

Four assumptions carry the theorems.  `TableAssumption`: the page tables end
below `Sysmap` and have entries for all that `pmap_bootstrap` maps.
`RoomAssumption`: also for the devices; both hold because `Sysptsize`, which is
`VM_KERNEL_PT_PAGES` (`vmparam.h:126`), adds two tables of 1024 pages to those
that cover RAM.  `BusAssumption`: a register block is finite and made of
sequences of bytes.  `TagAssumption`: the two tags differ (`bus.h:68-69`).

`ListLemmas.tla` states what `Append`, `Tail`, prepending, `RemoveAt` and
`InsertAt` do to indexes, ranges and injectivity, and what `Min` and `Max` of
sets of naturals are.

Only model-checked:

- Liveness: fairness and ENABLED are out of the prover's reach.  These are
  `QueueProgress`, `PostponedRestarts`, `CommandReturns`, `WorkDone`,
  `DetachReturns`, `TurnComes`, `AllServed` and `AstServed`.
- What is refuted (section 7), by its nature.

## 7. Where the code does not do what it says

Three runs end in a violation:

- `AtaQueueKillSpin`: `ata_kill_pending` looks again and again at the head of
  `queue_xfer` when it belongs to another drive (`continue` in a loop over
  `SIMPLEQ_FIRST`), with `ch_lock` held.
- `AtaThreadSteal`: the thread takes `queue_freeze == 1` and an active transfer
  for a postponed transfer (`ata.c:507`); a suspension that waits for a transfer
  to end looks the same.  The thread thaws the channel under `ata_channel_idle`
  and starts the transfer a second time.
- `AtaThreadDrives`: `ATACH_TH_DRIVE_RESET` is cleared after a loop that drops
  the lock (`ata.c:496`); a drive reset scheduled meanwhile loses its flag, and
  its freeze stays.

The following properties are stated in the modules and have configurations with
which TLC refutes them:

| Configuration | Module | Property | What happens |
|---|---|---|---|
| `AtaQueueDrain.cfg` | `MCAtaQueue` | `DrainReturns` | a reset that ends the last active transfer of a drive does not wake the thread that drains the drive |
| `AtaQueueKillWaiter.cfg` | `MCAtaQueue` | `KilledWaiterReturns` | a submitter that waits to poll a transfer that is killed sleeps for ever |
| `AtaQueueSuspend.cfg` | `MCAtaQueue` | `SuspendQuietAlways` | a channel that `ata_channel_idle` has left idle has a transfer active, because the thread thawed it |
| `AtaThreadPanic.cfg` | `AtaThread` | `NoFreezePanic` | a postponed transfer and a suspension together are a freeze count the thread panics on |
| `AtaThreadKilled.cfg` | `AtaThread` | `Unfreezes` | a reset that kills a postponed transfer leaves its freeze |
| `AtabusProbeRescan.cfg` | `AtabusProbe` | `HeadIsMine` | a rescan while a config thread is at work makes a second one, for which the assertion at `ata.c:320` fails |
| `AtaDrivesDetach.cfg` | `MCAtaDrives` | `TableOutlivesUse` | `atabus_detach` waits for the bus's thread but not for the config thread, and frees the drive table under it (`ata.c:683`) |
| `MachineBus.cfg` | `MCMachine` | `BusAsDeclared` | a copy called in the declared order of arguments goes elsewhere (`bus.h:791`, `808`); a swapped set writes `v`, not `val` |
| `IsrOrder.cfg` | `MCIsrDispatch` | `PriorityOrder` | `isrlink` never compares with the last handler of a list (`isr.c:119`) |
| `ExceptionsHandler.cfg` | `Exceptions` | `ResumesInCopy` | a bus error in an interrupt handler that came in during a copy leaves the handler for the copy's error exit |
| `MachineDumpFits.cfg` | `MCMachine` | `DumpFits` | after a larger device `dumplo` lies behind the end of a smaller one and `dumpsize` is negative: a dump that writes nothing succeeds |
| `MachineDumpDevice.cfg` | `MCMachine` | `DumpInDevice` | a device too small for a dump is written with the sizes of the device before it, because `cpu_dumpconf` returns early |
| `MachineDumpMemory.cfg` | `MCMachine` | `DumpIsMemory` | the "final RAM page" added to `dumpsize` is no RAM |

Noted while modelling, and visible in the models as the code has them:

- `clock.c:71` passes the bus tag as the address and the address as the size of
  `mainbus_map`; the allocation fails and `clockbase` keeps the value it was
  given before, which works because that address is translated transparently.
- No caller of `mainbus_map` looks at its error; `wrap030_getetheraddr` maps
  the EEPROM again for every failed read.
- `trap.c:583` turns `EACCES` into `EFAULT` before a `switch` with a case for
  it, so `SEGV_ACCERR` is replaced; a coprocessor violation in the kernel
  becomes the user's type before it is compared (`trap.c:359`).
- No file of the repository calls the set, copy or four-byte `write_region` forms
  of bus space, so their defects (above; and `_bswr4_swap`, braces without `do`
  and `while`, which does not parse where it is used, `bus.h:581`) stay unseen.
  The loops with count 0 run 2^32 times.  `_bsrr4_swap` changes `d1` without
  telling the compiler; the registers of the assembler are not modelled.
- `atabus_detach` and `ata_kill_pending` rely on assertions that `GENERIC` does
  not compile in.  `queue_freeze` may go below zero when a holder thaws what the
  thread took; the thread then spins, because it sleeps at zero only when a
  transfer is active.
- When either `kthread_create` of a bus fails (`ata.c:282`, `617`) its entry stays
  at the head and every later bus waits for ever; the adapter stays powered.
- The dump's place moves up each time the dump device changes.
- `cpu_reboot` during configuration hands the `boothowto` of the boot to
  `pmf_system_shutdown`.
- `com_mainbus_probe` counts a unit when it matches, not when it attaches.
- A drive left programmed with an Ultra-DMA mode above the controller's cap
  keeps it when a lower one is refused; `PIO_mode` and `ata_vers` survive a
  detach.  `ATABUSIODETACH` reads two drives whatever `ch_ndrives` is; the
  model lets it run only when there are two.

## 8. Not modelled

- In the ATA layer: transfers outside the pool (`C_PRIVATE_ALLOC`), PIOBM, port multipliers, ATAPI, `atac_claim_hw`, printing
  of modes and errors, conversion of identification data, `ata_delay`.
- In the port: the NMI, the kernel debugger's traps, FPU emulation, code for
  the 68040, software interrupts (nothing sets `ssir`), console output,
  identification of the CPU, execution of foreign binaries, `RB_HALT`.
- What device registers mean: `zs.c`, `sic6351.c`, the register values of
  `wdc_mb.c`, `com_mainbus.c`, `if_le.c`.  `zs_pcc.c` and `if_le.c` are modelled
  only as far as they map pages.
- What code does with memory it has freed: an entry of `atabus_initq_head` used
  twice, a drive table freed under a negotiation.  The models stop or go on
  with the control only.
- Headers, `md_hooks.c`, build files, distribution lists, boot scripts: no
  state.
- Composition across the two halves (an interrupt of `IsrDispatch` as the
  interrupt of `AtaQueue`): the ATA driver between them is not in the
  repository.

## 9. Plan

Done: every component with control of its own has a module, the queue an
abstract specification, and every invariant and every safety property of steps
that a run checks has a proof.

Left, in this order:

1. Shorter proofs: `AtaDrivesProofs` and `AtaThreadProofs` treat some actions
   field by field where a lemma about the record would do.
2. An abstract specification of the reference count (powered while used) that
   `AtabusProbe` implements up to the first rescan.
3. The bounds of `TableAssumption` and `RoomAssumption` from the values of the
   headers alone, which needs the largest kernel the loader accepts.
