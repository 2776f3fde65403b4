# Formal models of reference_projects

The repository holds reference designs for a Zynq-7045 board: FPGA designs,
bare-metal firmware for them, and the host software, of which the Linux driver
for the XDMA PCIe DMA core is by far the largest part. This directory models
the parts with concurrency, failure paths and protocols in TLA+, checks them
with TLC on small instances, and proves the most important results with TLAPS.
Paths below are relative to `src/`; `XDMA/` stands for
`software/xc7z045_xdma/XDMA/`.

## 1. Inventory

| Component | State | Operations | Module |
|---|---|---|---|
| SG DMA engine (`XDMA/xdma/libxdma.c`) | `transfer_list`, `running`, `shutdown`, `desc_dequeued`, transfer states, `desc_lock`, the engine's registers | submit (blocking and not), queue, start, stop, interrupt, bottom half, timeout and abort, offline, online | `SgdmaEngine`; its promise: `TransferContract` |
| Descriptor ring (`transfer_init`, `transfer_build`) | descriptor memory, `desc_idx`, `desc_used` | take, build, release | `DescRing`, in `AsyncIo` |
| SG DMA device, async I/O (`cdev_sgdma.c`) | per call: `cmpl_cnt`, `res`, control blocks, requests, pinned pages | fan out into segments and transfers, completion callback, failures | `AsyncIo` |
| Poll mode and completion threads (`xdma_thread.c`) | work lists, `schedule`, write-back words | thread loop, add and remove work, wake up, stop | `PollThread` |
| User interrupts and event devices (`libxdma.c`, `cdev_events.c`) | `events_irq`, wait queue, `handler`, `dev`, `mask_irq_user`, enable register | interrupt, read, register, enable, disable, reset | `UserEvents` |
| Probe, open, device nodes, remove (`xdma_mod.c`, `xdma_cdev.c`, `libxdma.c`) | PCI resources, interrupt vectors, device numbers, nodes, `flags` | `probe_one`, `remove_one`, `xdma_device_open` and `close`, create and destroy interfaces, PCI error and reset hooks, two ioctls | `DeviceLifecycle` |
| Virtual cable device (`cdev_xvc.c`) | length register of the bridge, `lock` | shift ioctl, time out | `XvcShift` |
| DMA tools (`XDMA/tools`) | buffer, file position, counts | chunked reads and writes, aperture and repeat loops, exit status | `DmaTool` |
| AXI DMA firmware (`firmware/*/axi_dma_intr_poll`, `10ge_recv`) | done and error flags, buffers, cache | main loops, start functions, handlers | `AxiDmaLoop` |
| UDP client and server (`firmware/xc7z045_1ge_v1`, `software/xc7z045_1ge_v1`) | packet pool, one-shot server | initialise, receive, send, serve | `UdpClient` |
| Clock generator, I2C (`si5324.c`, `i2c_access.c`) | `TransmitComplete`, `TotalErrorCount`, the bus | set up, write, wait, handler | `ClockSetup` |
| 10G MAC and PCS configuration (`hardware/xc7z045_10ge_v1/ethernet_flow_cntrl.v`) | three state machines, five AXI channels, `mdio_ready` | one clock edge, reset | `EthernetFlowCntrl` |
| Bypass device, control device | none across calls | register copies; two ioctls that are in the models | - |
| `heart_beat.v`, `link_status.v`, block designs, data checker, lwIP example | - | - | not modelled |

How they interact: user space reaches the driver through the device nodes.
`cdev_sgdma.c` calls `xdma_xfer_submit` (blocking) or `_nowait`; these share one
engine, its spinlock, its list and its descriptor ring with the interrupt
handler and the work `engine_service_work`, or in poll mode with a thread that
watches write-back words. The bottom half calls back into `cdev_sgdma.c` when
a request is done. `cdev_events.c` sleeps on what `user_irq_service` raises. The
PCI core calls the hooks of `xdma_mod.c`, which take all engines and
interrupts offline and online under everybody else. The firmware programs the
clock generator, then waits in loops on flags that its interrupt handlers set,
and shares buffers with the DMA core through a cache. The configuration block
drives the MAC over AXI4-Lite and, through the MAC, the PCS over MDIO.

What is hard: callers, bottom half, interrupt and hardware interleave on one
engine; a timeout races a late completion; an interrupt may be stale when it is
handled; a reset may fall anywhere; one of several segments or transfers fails
while others are in flight; a ring is shared by calls that cut their requests
at the same time; a wake-up may come between a test and a sleep; a failure in
the middle of a multi-step set-up must be undone exactly once; datagrams get
lost; three Verilog state machines must stall for each other without missing
an acknowledgement. `PROJECT.json` lists the hazards with the line where each
bites and the properties that cover it.

What makes each component correct: a transfer reported as completed has been
moved, none is settled twice or out of order, none is forgotten, and no DMA
goes to memory that was given back (engine, in both modes); a call is answered
once with the bytes that moved and gives its memory back (async I/O); no
descriptor changes while it is queued (ring); no event is slept through
(events); everything acquired is released exactly once on every path
(lifecycle); exit status and return value mean what they say (tools, cable);
every round is whole and what was received is seen (firmware); configuration
completes, in order, with every AXI and MDIO transaction whole (configuration
block).

## 2. The modules

`SgdmaEngine` implements `TransferContract`; `AsyncIo` is built on
`TransferContract` and `DescRing`; `PollThread` shows the contract for poll
mode. `AxiDmaLoop` and `UdpClient` extend `ClockSetup`, and `Programs` puts
these and `DmaTool` and `XvcShift` under one specification, one program per
behaviour. The `MC` modules give constants to TLC. The `Proofs` modules and
`SgdmaGuarantees` hold theorems. A definition whose comment begins with
"Mutant" is a deliberately wrong variant of the one after it, used to see that
a property would notice.

### SgdmaEngine

One engine in interrupt mode. A transfer is named by its caller: `Syncs` call
`xdma_xfer_submit`, `Asyncs` call `xdma_xfer_submit_nowait`. Each critical
section of the engine's spinlock is one action; `engine_service` is split where
it reads a register that the hardware changes on its own (`svc` holds the lock
meanwhile). The unlocked windows are where the code has them: between the test
of the offline flag and the lock in `transfer_queue`, between waking up and
taking the lock in `xdma_xfer_submit`, between the interrupt handler and the
work, between the steps of offline and online. `desc_count` and
`desc_dequeued` are computed modulo `U32`, so the subtraction at
`libxdma.c:1174` may wrap.

The hardware is external: it processes the descriptors of the transfer it was
started on, counts them, raises an event at the end or on an error, and resets
the count at the edge of RUN. Status bits stay until the clearing read. Two
constants select what real hardware may do besides: `BusyRace` (BUSY may be
read as set on an idle engine, as the comment at `libxdma.c:883` says of older
hardware) and `StopDrains` (an engine whose RUN bit is cleared still finishes
the descriptor in flight). `moved` and `struck` record what the hardware did to
a transfer and are read by the properties only.

Assumed: MSI or legacy interrupts, no poll mode, no `eop_flush`, register reads
succeed, one transfer per async request. The descriptor memory, and requests of
several transfers, are in `AsyncIo`; poll mode is in `PollThread`.

### TransferContract

The abstract engine: a queue, a verdict per transfer, and `finished`, the
hardware has moved all of the oldest. Transfers are settled oldest first, each
once, and `COMPLETED` only if `finished`. A stop or a reset may lose what was
finished. `SgdmaEngine` maps its list and its states to it directly, and
`finished` to the hardware's progress on the head of the list.

### DescRing and AsyncIo

`DescRing` is the arithmetic of the ring: how many descriptors `transfer_init`
takes (`Chunk`, never across the end of the memory), where the next transfer
begins, how many descriptors the engine may prefetch, and what a descriptor
holds. `AsyncIo` follows an aio call from `cdev_aio_read` or `_write` (the same
code but for the direction) through its segments, `xdma_init_request`, the
transfers of each segment, the engine (the contract) and `async_io_handler`.
`transfer_init` and `transfer_queue` are separate critical sections, so two
calls interleave there. `held` is the memory a call owns; `result` what the
caller was told. History variables record what goes wrong: `dropped` (what was
freed while a transfer of the call needed it), `astray` (the handler ran on a
freed `caio`), `misfreed` (`kfree` was given a control block that is not the
start of the array), `overfull` and `crossed`. A call is not followed beyond a
use of freed memory or an invalid free, after which anything may happen.
`stalled`: an error at the first descriptor of the oldest transfer, which
`engine_service` does not settle; the next submission starts the engine again.
`Faults` is the set of steps that may fail; the run has all of them.

### PollThread

Several engines, the threads that serve them, their write-back words. The
assignment of engines to threads, the sleep and wake-up protocol with the
`schedule` flag, the walk over the work list, the read and the zeroing of the
word as two steps (no lock is held), `engine_service` with the word, timeouts
of blocking callers, removal of engines, and the end of the threads.

### ClockSetup, AxiDmaLoop, UdpClient, DmaTool, XvcShift, Programs

`ClockSetup`: the I2C writes one by one, with the flag that `StatusHandler` sets
and the bus as separate state. `AxiDmaLoop`: both main loops, their DMA channels
and interrupt handlers; a buffer is a word in memory and a cache line
(absent, clean, dirty) that the cache fetches and evicts on its own. The send
buffer has two such parts (`Parts`): the first `size` bytes, which are flushed and
sent (`Payload`), and what `main()` fills beyond them.
`UdpClient`: the client's loop, the server that answers one datagram, a network
that loses and reorders, a finite packet pool. `DmaTool`: every command line
within the bounds, system calls of at most `RW_MAX_SIZE` bytes that may be short
or fail, and files that are too short; the driver leaves the file position alone,
so the model tracks where each byte goes. `lapses` is a history variable: which of
four failures that the tools take for success have occurred. `XvcShift`: callers that take turns on the bridge, whose length
register survives from call to call; bits are named by their place.

### UserEvents

One user interrupt, any number of readers, one task that enables and disables
and one that registers handlers. `handler` and `dev` are stored and loaded in
separate steps, as the code does without a lock; the load for the test and the
load for the call are separate too, as a compiler may reload. `free_irq` waits
for a running handler. Registrations come at any time; `MaxRegister` bounds their
number: two let one replace the other, or take it back, around one interrupt.
The history variable `during` collects the registrations in force while a
handler is being called.

### DeviceLifecycle

One device from `probe_one` to `remove_one`. The constant `Faults` is the set
of places where a call into the kernel may fail (and "ioctl", the offline and
online ioctls out of turn); each failure follows the code's own labels, and
`failed` records which have occurred. `Plan` is the order in which `xpdev_create_interfaces`
creates the nodes, `Group` the flag that guards each, `Minor` its number.
`DestroyInterfaces` runs twice after a failed creation, as in the code. `again`
records that something was released that was not held. `unregister_chrdev_region` with a
node's own number is a no-op in the kernel unless that number starts the region
(external). Left out: legacy interrupts, poll mode, the optional sysfs
attribute, and the engines' own memory.

### EthernetFlowCntrl

Cycle accurate: a step is a rising edge of `s_axi_aclk`; each Verilog process
is one operator that reads the registers of the last edge. Words are named by
their hexadecimal digits. The MAC, the PCS and the pins are the environment:
any subset of the handshakes that are possible may happen on an edge, commands
take any number of edges, the PCS ignores writes while it is in reset, the link
comes and goes. `config_mode` only selects constants and `mdio_reg_addr` is an
output nobody reads: both are left out. The reset, which is held for many
edges, is one step. `Straps` says how the pin `pcs_loopback` may be wired: the block
design ties it to 0 (`xc7z045_10ge_v1_bd.tcl:537`); the run covers a pin tied to
0, tied to 1, and one that changes at any edge.

## 3. The runs

A passing run shows its properties under the conditions its constants state. A
`violation` run states what a comment or the API header says and shows the
shortest way in which the code departs from it; `findings` in `PROJECT.json`
quotes the lines.

| Run | Result | What it shows |
|---|---|---|
| `Mixed` | pass | One blocking and two async callers with hardware errors, no timeouts or resets: completed means moved, the list holds live transfers only, no completion is lost, every queued transfer is settled (but for an error at the first descriptor of a run), and the engine implements `TransferContract`. |
| `SyncDrains` | pass | Two blocking callers with timeouts, errors, resets, BUSY race, on hardware that finishes the descriptor in flight: the inductive invariant `IInv` of the proofs (which contains `TypeOK`, `QueueIsLive` and `CompletedMeansMoved`), no interrupt enable lost, quiet while offline, verdicts final, no descriptor started for buffers that were released; only the one in flight at a stop can reach them, and it is not of a completed transfer. |
| `SyncReturns` | pass | A blocking caller with a split request returns under every disturbance. |
| `StaleInterrupt` | violation of `FailedMeansError` | A work left from a timed-out transfer fails the next one while the engine still works on it. |
| `AbortNotHead` | violation of `QueueIsLive` | A blocking transfer that times out behind an async one stays linked after it is freed. |
| `AsyncIo` | pass | Two aio calls over a ring of four descriptors, with every failure and an engine that may stall: each is answered at most once, with exactly the bytes that moved; queued descriptors stay as built; memory is freed under a queued transfer only in the two places that `MemoryKept` names, and an answered call keeps nothing but an array that was handed to `kfree` wrongly; what is queued is answered unless the engine stalls. |
| `PollMode` | pass | One thread, an engine with a blocking caller that may time out, an engine with two aio transfers and errors: the contract of interrupt mode, every transfer settled without an interrupt, no engine looked at after its removal. |
| `Events` | pass | Two readers, two clients that register and unregister at any time, signals, resets: nobody sleeps through an event, a read returns one unless another reader was faster, a handler call uses only registrations in force in the course of it, the enable bit comes back after a reset. |
| `Lifecycle` | pass | All device configurations and all faults: outside the exceptions named in the properties nothing is left and nothing is released twice; a device in service is complete, with distinct minors. |
| `IrqLeak` | violation of `NothingLeft` | A vector refused after the first leaves channel handlers installed on a freed device. |
| `Flow` | pass | Reset, link and MAC timing free: the right register is judged, the state machines stay in step with the MAC, AXI requests are stable; with a pin that does not move, traffic is enabled only when the PCS is configured for it, and the configuration completes once the link stays up. |
| `Programs` | pass | The clock is programmed as listed; a DMA round ends only when its transfers have, with its payload (a quarter of the buffer that is filled) sent, and what was received is seen; the loop goes on after a completion; packet buffers are accounted for and a waiting server is asked; exit status 0 of a DMA tool means that all bytes moved to their places, unless one of four lapses occurred for which it does not; a cable shift moves exactly its bits. |

### Outside the conditions

The conditions are not there for convenience: each excludes a behaviour of the
code for which the property fails. They can be seen by changing the constants
of a run.

Engine:

- `FailedMeansError` needs no timeouts (`StaleInterrupt`). `QueueIsLive` needs no
  timeouts or no async callers (`AbortNotHead`).
- `xdma_engine_stop` (`libxdma.c:531`) does not wait for BUSY, although the comment of
  `engine_start` (`libxdma.c:667`) says that the engine must be idle: the descriptor
  in flight can reach pages that the caller has unmapped. `NoDmaAfterRelease` says
  that there is no other way, and is checked and proved on such hardware
  (`StopDrains = TRUE`).
- `QueuedSettles` excepts an error at the first descriptor, because
  `engine_service` leaves at `if (!desc_count) goto done` (`libxdma.c:1150`), and
  needs `BusyRace = FALSE`, because it then leaves `running` set.
  `NoLostCompletion` names the first exception in its statement.
- A pending work may enable the channel interrupt after `xdma_device_offline`
  has turned it off; `QuietWhileOffline` is about the engine, not the interrupt.

Async I/O (the properties' own exceptions; every fault is on in the run):

- A segment that fails `check_transfer_align` after an earlier one was queued
  frees the `caio` with transfers in flight (`cdev_sgdma.c:468`, `542`), and
  `async_io_handler` then runs on it. A second transfer of a request that cannot
  be queued unmaps and frees the request while the first is queued
  (`libxdma.c:3628`). `MemoryKept` names these two and shows that there is no third.
- `kfree(cb)` at `cdev_sgdma.c:115` is given the control block of the segment
  handled last. For a call of several segments this is normally a pointer into
  the array: an invalid free, and the array stays allocated.
- An aio transfer with an error at its first descriptor is never settled
  (`libxdma.c:1150`), and no timeout helps: `QueuedIsAnswered` excepts it.
- A request cut while another call takes descriptors may need a third entry of
  `tfer[2]` (`libxdma.h:468`). Alone, two suffice: theorem `TwoTransfersSuffice`.
- `desc_used` is not tested against the ring (`libxdma.c:2981` says that it
  should be); `RingIntact` is about calls that together stay within it, and about
  requests that are not cut at the same time.
- The result of a refused submission is ignored (`cdev_sgdma.c:476`) and an
  empty segment has no transfer to call back: such a call is never answered.
  A transfer that failed is reported through `res`, with `res2` zero.

Poll mode:

- A transfer that times out leaves a late count in the write-back word, which
  is then credited to the next; `PolledKeepsContract` is about engines whose
  callers do not time out.
- `xdma_kthread_stop` sets `schedule` before `kthread_stop` asks the thread to
  end; a thread that uses up the flag in between goes back to sleep for ever.
  No property says that unloading ends.

Events:

- `events_irq` is tested outside the lock (`cdev_events.c:56`) and not again
  inside, so two readers may be let through for one event; `beaten` names the
  second in `ReadReturnsEvent`.
- `probe_one` enables every user interrupt (`xdma_mod.c:190`), so registrations
  come while it is enabled, and the two stores at `libxdma.c:4373` can be seen
  half done: a call that a registration overlaps may pass one client's `dev` to
  the other's handler, or call NULL. `CalledAsRegistered` bounds this: everything
  a call uses was in force (`during`) between the test and the call.
- `EnableIsAsAsked` needs resets or `disable`, not both: a disable between the
  read and the write of the mask in `xdma_device_online` is undone.

Lifecycle:

- `Leaky` and `Repeating` name the faults whose paths leak or release twice: a
  node that fails inside its group (the group's flag is not yet set), a vector
  refused after the first; any failed node (`xpdev_destroy_interfaces` runs again
  in `xpdev_free`), a failed recovery or an offline ioctl followed by removal
  (`irq_teardown` does not remember).

Programs:

- The flush of the first round of `10ge_recv` may write the zeros of `memset`
  over the first packet; `ReceivedIsSeen` begins with the second. The test for
  an error in the handlers compares a masked status with `TRUE` and never
  holds, so a channel that halts stays halted; `LoopGoesOn` is about rounds
  whose transfers complete.
- `recv_udp_packet` frees nothing: after `PBUF_POOL_SIZE` answers the client can
  neither receive nor send, which is the exception in `ServerIsAsked`.
- `axi_dma_poll` fills `0x100` words of its send buffer (`main.c:59`) but
  `PAYLOAD_SIZE`, `0x100`, counts bytes (`main.c:39`): three quarters of what is filled
  in are neither flushed nor sent. `RoundIsOver` says what is sent.
- Exit status 0 of the DMA tools is documented as "0: all bytes were dma'ed
  successfully" (`dma_to_device.c:98`, `dma_from_device.c:100`). The run contains
  every failure of a call, and `lapses` names the four for which the code breaks
  this promise; dropping `lapses = {}` from `ExitZeroMeansAll` gives a trace for each:
  "aperture error" (the result of `write_from_buffer` lands in a local
  `uint64_t rc`, `dma_to_device.c:254`, whose test `rc < 0` never holds), "short
  input" and "short output" (a short read or write of a file is not an error),
  "rewind" (no seek when the address is 0: a repeated transfer larger than
  `RW_MAX_SIZE` goes on where the last chunk was). With `-a` and `-e` together the
  output file may have holes.
- After a shift that timed out the bridge may still be shifting; `ShiftIsExact`
  exempts the calls after it.

Configuration block: `EnabledMeansConfigured` and `ConfigCompletes` need a pin
that does not move; the others hold while it moves.

### Bounds

- Engine: `s1` has three descriptors (a first, a middle, a last) and a request of
  two parts; `a1` two, the others one. Two blocking callers already contend for
  `desc_lock`; one blocking and two async callers give a list with a head, a
  middle and a tail. `SyncReturns` has one blocking caller, since `desc_lock`
  lets only one of them near the engine at a time. Callers submit again without
  limit. `U32 = 16` is above every count that occurs, so a wrap shows as a value
  out of all proportion, as 2^32 does.
- Async I/O: a ring of four with blocks of three has a block that is cut short;
  two calls meet in every step, each happens once. Either may be short, or fill
  the ring and be split wherever it starts; one may have two segments, of which
  the second fills the ring and can be pushed into a third transfer by the other
  call, the other two short segments or an empty one.
- Poll mode: two engines on one thread, so that one can starve or disturb the
  other, and two transfers in one queue. The choice among several threads
  (`Chosen`) is taken, but with one thread there is only one outcome; two
  threads (`MaxThreads = 2`, with transfers of one descriptor) pass too, in about
  five minutes. Each transfer is submitted once, after all engines are probed.
- Events: two readers race for one event, and two registrations replace a
  handler. More readers only repeat the second.
- Lifecycle: the passing run uses the driver's limits themselves, 16 user
  interrupts and 4 channels each way; the violation run uses 2 and 2 to keep
  the trace short. One life per behaviour: a second probe starts from fresh
  structures.
- Programs: a table of three entries (a first, a middle, a last), two different
  buffer contents, a pool of two buffers, at most five bytes in chunks of two
  (two full chunks and a rest) repeated twice, every outcome of a call, words of four bits with bytes of
  two and up to nine bits (two words and a rest). `received` counts to two.
- Configuration block: no bounds, the state space is finite.

No symmetry is used.

### Deadlock and fairness

`CHECK_DEADLOCK FALSE` appears where the system may really stop: in `Mixed`,
because after an error on the first descriptor all callers may wait for ever,
in `AsyncIo` and `PollMode`, which end when all calls are answered or the driver
is unloaded, in `Programs`, where tools exit and firmware returns, and in the
lifecycle runs, which end when the device is gone.

Engine: weak fairness for the interrupt handler, the work, the hardware's
progress, and a caller that can run; strong fairness for taking `desc_lock` and
the spinlock, which are queued locks; a wait has a timeout, so the timed wait is
weakly fair where timeouts are on; an offline or online sequence once begun is
carried through. Nobody has to submit, fail or reset. Async I/O: a task in a
system call runs, hardware that has not stalled finishes, the bottom half runs;
nobody has to submit again after a stall. Poll mode:
threads and callers run, the hardware goes on, `kthread_stop` and `list_del`
once due happen. Events: the kernel runs handlers and runnable tasks.
Programs: the processor runs the firmware and takes its interrupts; strong
fairness for a send that succeeds and for the delivery of "ready", since a
network that loses everything, or a driver that refuses everything, would
prove nothing about the code. Configuration block: the clock ticks, and a
handshake or a command's end that stays possible happens.

## 4. The proofs

Eight modules hold theorems: `SgdmaEngineProofs` and `SgdmaGuarantees`,
`AsyncIoProofs`, `PollThreadProofs`, `UserEventsProofs`,
`DeviceLifecycleProofs`, `EthernetFlowCntrlProofs` and `ProgramsProofs`. They
hold for every value of the constants that satisfies the modules' named
assumptions, and under the hypotheses that a theorem names. Each hypothesis
excludes a behaviour of the code for which the property fails (section 3,
"Outside the conditions"), and the runs are instances of it. Every
inductive invariant was first checked by TLC on those instances.

### The engine

- `TypeCorrect`: `Spec => []TypeOK`. `TypeOK` says that the u32 values stay
  below their modulus, which needs to know that a busy engine is inside its
  transfer; `HwOK` adds that.
- `InterruptEnable` (`NoLostInterruptEnable`) and `QuietOffline`
  (`QuietWhileOffline`): no hypothesis at all. The first is inductive as it
  stands. The second needs `QuietInv`: while the device is down the bottom half
  is idle and `shutdown` has the request, which is what turns away a caller that
  tested the offline flag too early, and a work that was scheduled before.
- `Invariance`, `CompletedMoved`, `QueueLive`: under `Regime`, `Spec` implies
  `[]IInv`, hence `CompletedMeansMoved` and `QueueIsLive`. `Regime` says that
  either nothing disturbs the engine (no timeouts, resets or BUSY race: `Calm`)
  or there are no async callers. It is needed: `AbortNotHead` shows what
  happens outside. `IInv` adds `LockInv` (who holds `desc_lock`), `CallerInv`
  (what a caller's position says about its transfer), `HeadInv` (a running
  or serviced engine is on the head of the list, with nothing dequeued and a
  count that does not exceed what was moved) and `CalmInv` (in the calm regime
  no interrupt is stale). Without `HeadInv` the bottom half might credit one
  transfer with another's count; without `LockInv` two blocking transfers might
  be queued, and the abort of the second would not be at the head (lemma
  `OneListed`).
- `DmaOwned` (`NoDmaAfterRelease`): under `Regime`, whether the hardware drains or
  not. A busy engine is on the head of the list (`HeadInv`) and the list holds owned
  transfers only (`QueueIsLive`). `DrainInv` says that the transfer of a descriptor in
  flight is unfinished, also after it was submitted again; `CompletedMeansMoved`
  then says that it is not completed.
- `CompletionNoticed` (`NoLostCompletion`), under `Regime`: inductive relative to
  `IInv`, which says what a resumed engine is started on.
- `Refinement`: under `Regime`, `Spec => ImplementsContract`. `IInv` is carried
  along; every step that leaves the list and the verdicts alone maps to
  `Finish`, `Lose` or a stutter, a new submission to `Renew` or `Submit`, and the
  steps of the bottom half and of an abort to `Settle` of the head, for which
  `HeadInv` supplies that what is credited as completed is finished.
- `VerdictFinal` (`VerdictIsFinal`), under `Regime`: read off the contract, step by
  step. Only a `NEW` transfer is submitted, and `CallerInv` says that the
  transfer of a caller about to queue is new.
- `FailedIsError` (`FailedMeansError`), under `Calm`: the property that
  `StaleInterrupt` violates holds when nothing disturbs the engine. `FailInv` adds
  that an engine which stopped did so at an error of its transfer or at its
  end, and that the bottom half has read that very state.

### Poll mode

`GoneUnused` (`GoneIsUnused`) and `WakesPoller` (`WokenIsPoller`: the thread that a
caller wakes is the one that has the engine on its list), for any number of
threads, engines and transfers. `WorkInv` says that an engine is on at most one
list and once (`ListedOnce`), that a thread goes only through engines of its own
list and only under its lock (`TodoListed`), and who is woken. Without
`ListedOnce` one `list_del` would not be enough.

`PolledContract`: `Spec => PolledKeepsContract`, the refinement of `TransferContract`
by every engine whose callers do not time out, whatever the engines that share
its thread do; no hypothesis. With `WorkInv` it carries `PollInv`: `FreeOK` (an
engine that runs has a transfer, one that does not has counted nothing, and a
word it has written back is about the head of the list), `ReadOK` (so is
the word a thread has read, and by the time it calls `engine_service` the word in
memory is zero) and `CallsOK` (only blocking engines have waiting callers, one at
a time). `ReadOK` is what the three separate steps of reading, zeroing and
servicing need: nothing can settle the head in between, because no other
thread looks at the engine (`OneReader`, from `ListedOnce`). `PassedFacts` then
says that a count no larger than the head's `desc_num` passes over no transfer, so
`engine_service` takes exactly the `Settle` step.

### Async I/O and the ring

For every set of calls of at most two segments (`MaxSegs`), every split into
pages, every ring and block size. Two invariants are shared: `BaseInv` (what each position of a call
says of its request: `nents` and the transfers cut so far add up to its
descriptors, `last` marks the final one, at most two entries of `tfer[2]` are
taken; the list has exactly the submitted transfers, each once, the two of one
request in order) and `CutInv` (unless two requests were cut at once, a request
that goes on is at the start of the ring, and its second transfer follows its
first in the list).

- `ChunkFits`, `TwoTransfersSuffice`, `PrefetchStays`: a transfer lies inside the
  ring whatever the index and the length; a request no longer than the ring
  that nobody interferes with takes at most the two entries of `tfer[2]`; no
  prefetch leaves the transfer or its block.
- `RingStaysIntact` (`RingIntact`), no hypothesis beyond the property's own (neither
  `overfull` nor `crossed`). `RingInv` measures each live transfer by its distance
  back from `desc_idx` (`Span`): all of them lie within the last `desc_used` slots,
  transfers queued later have smaller spans, so neither `transfer_init` nor the zeroing
  by `async_io_handler` reaches the slots of another one.
- `AnsweredRight` (`AnsweredExactly`), no hypothesis, whatever fails. `AnsInv` says that
  `cmpl_cnt` is the number of requests handled and `res` the sum of the bytes they
  moved, so that the callback happens for the last request, once.
- `MemoryStaysKept` (`MemoryKept`), no hypothesis, whatever fails. `MemInv` says
  which blocks are held at each position of a call, that what a request with a
  queued transfer needs is held or was dropped, and that a `caio` is gone only
  after the last request (`AnsInv`: the count), after an error with nothing in
  flight, or as one of the drops. That a refused second transfer is what drops a
  request follows from `BaseInv`: a transfer that is being queued is new, so one
  in flight is the other one.

`SumSeq` and `DoneBytes` are recursive functions; what the proofs need of them
(existence, and what one more request adds) is derived from least elements of
sets of naturals.

### Device lifecycle

`LeavesClean` (`CleanUnlessLeaky`), `ReleasesOnce` (`ReleasedOnce`): for any number of
user interrupts and channels and any set of faults. `LifeInv` says, for every
position of probe and removal, what is held: the prefix of the stages of
`xdma_device_open` that has been passed (`OpenInv`), exactly the nodes of the plan
before the current one, with the flags of the groups that are complete
(`CreateInv`), what a recovery keeps (`ServiceInv`), and that what the flags
will destroy is what exists (`ReleaseInv`). It rests on lemmas about `Plan`: its
nodes are distinct and their groups come in order, so that a flag is set
exactly after the last node of its group. `ServiceWhole` (`InService`) has two
hypotheses, at most 22 user interrupts and 4 channels: beyond them the minor
numbers of two nodes coincide. The driver has 16 and 4.

### Configuration block

`StaysInStep` (`InStep`), `RightRegister` (`DataFromRightRegister`),
`TrafficConfigured` (`EnabledMeansConfigured`) and the action property
`RequestsHeld` (`AxiStable`), for any wiring of the pin, with and without resets.
`FlowInvariant` gives one invariant for all: `BusInv` (how far the access in
progress is, on each channel and in the MAC), `StepInv` (which of the three
state machines runs and what the others hold meanwhile), `SetupInv` (what the MAC
has been written, state by state), `RegInv` (which PCS register is addressed
and which was read last) and `PinInv`, which splits into `LoopInv` and `LinkInv` by
the level of a pin that does not move. None is inductive alone: that data come
from the right register needs the address command to have been executed
(`Executed`), which needs the command in the MAC to be the one the main state
machine waits for.

### Firmware, cable and tools

`ProgramsInvariant` is the conjunction of four invariants that do not share
variables; every step of a program leaves the others' alone.

- `ClockWhole` (`ClockProgrammed`), for a table of any length: `ClockInv` says that
  the chip has taken the entries before the current one, and the current one too
  once its interrupt is raised, and that the flag is clear until then.
- `RoundOver` (`RoundIsOver`) and `ReceivedSeen` (`ReceivedIsSeen`), for any buffer
  contents: `FlagInv` (a done flag means that its channel has settled), `SendInv`
  and `ReceiveInv` (which of memory and cache line has the data, at each point of
  the loop).
- `PbufsWhole` (`PbufsAccounted`), for a pool of any size; inductive with its types.
- `ShiftExact` (`ShiftIsExact`), for any callers, word width and length: `CallInv` says
  that the bits of a caller in the loop are the tail of the chain, as many as
  it has shifted, what the bridge holds while it shifts, and that the length
  register has the length of a word whenever the loop will not write it;
  `LockInv` says that only the holder of the lock is in the loop.
- `ZeroMeansAll` (`ExitZeroMeansAll`), for any sizes, counts and addresses and
  whatever fails; no hypothesis beyond the property's own `lapses = {}`, so a fifth
  way to exit with 0 and bytes missing does not exist. `RunInv` holds until a lapse:
  `WholeInv` says that while nothing fell short the bytes moved and saved are those
  of the repetitions done and of the current one up to `from + moving`; `ShortInv`
  that the file follows what was moved when something did; `PlaceInv` what each
  position of `test_dma` says of the counts.

### Events

- `NoSleep`, `ReadGetsEvent`: for any number of readers, nobody sleeps through
  an event, and a read returns one unless another reader took it.
- `EnabledAsAsked`: the enable bit agrees with the mask if the device is never
  reset or the interrupt never disabled (`Separate`).
- `AnyTimeRegister`: registering at any time, any number of clients are called
  with the handlers and `dev`s in force during the call, never with older ones,
  and without an overlapping registration with their own. `DevInv` says that
  handler and `dev` agree whenever no registration is half done.

### Only model-checked

Liveness (`QueuedSettles`, `SubmitReturns`, `QueuedIsAnswered`, `PolledSettles`,
`ConfigCompletes`, `LoopGoesOn`, `ServerIsAsked`, `EventIsTaken`),
which the prover does not reach. Every invariant and every action property of
the passing runs is the subject of a theorem. Where a proof needs induction
over naturals it uses the library's fact that a set of naturals has a
least element (`LeastNat` in `AsyncIoProofs`; `LeastNat`, `GreatestNat` in `PollThreadProofs`), stated over sets, since
the library's induction rules take an operator.

## 5. Not modelled

- Engine: streaming, cyclic and performance transfers; `eop_flush`; probing of
  the register layout; register reads that fail (one that fails at
  `libxdma.c:3317` would skip the abort of a timed-out transfer).
- SG DMA device: open and close, the performance and address mode ioctls. The
  blocking read and write are in `DmaTool` as the tools see them and in
  `SgdmaEngine` as the engine does. `desc_used` is decreased outside the lock in
  `xdma_xfer_submit` (`libxdma.c:3341`), which only matters beside aio calls and
  is in neither.
- Poll mode: a failure of `xdma_threads_create` (its clean-up frees threads that
  run), engines with `eop_flush`. The model wakes the thread for every transfer; the
  aio path does so once, after the last transfer of a call.
- Open files after `remove_one`: they point to freed memory, which no state
  describes.
- Bypass device, register devices, `reg_rw`, `performance`: single accesses to
  hardware without state of their own.
- Firmware: `I2cReadData`, `I2cPhyRead`, `I2cPhyWrite` (used only by the SFP
  set-up of the vendor's example), the transmit flags that the timer of
  `platform_.c` sets and the UDP client tests for TCP,
  `axi_dma_release` (never called), the printing of buffers. The clock module
  follows the copy in `10ge_recv`; the UDP client's copy has the same logic. A call
  of `StatusHandler` has one status event, where the code tests a mask
  (`i2c_access.c:403`) and could be given several.
- `heart_beat.v`, `link_status.v`: a counter and a bit select. Block designs and
  constraints: generated wiring. The lwIP performance client: the vendor's
  example. The data checker prints memory.

## 6. Plan

1. `eop_flush` in `PollThread`, several threads with larger
   queues; blocking and async callers on one ring in `AsyncIo`.
2. A transfer that times out in `XvcShift` with a statement of what the next call
   may expect.
