----------------------------- MODULE SgdmaEngine -----------------------------
(***************************************************************************)
(* One SG DMA engine of the XDMA Linux driver (libxdma.c), interrupt mode: *)
(* the callers of xdma_xfer_submit (Syncs) and xdma_xfer_submit_nowait     *)
(* (Asyncs), the engine's transfer queue and its spinlock, the bottom half *)
(* engine_service_work, the interrupt handler, the hardware engine, and    *)
(* xdma_device_offline / xdma_device_online around a PCI function reset.   *)
(*                                                                         *)
(* A transfer is named by its caller.  A sync caller reuses one transfer   *)
(* for every part of its request (req->tfer[0]) and sleeps until the part  *)
(* settles; an async caller returns at once and its transfer is released   *)
(* by the completion callback.  Callers submit again and again.            *)
(*                                                                         *)
(* The engine spinlock: every critical section is one action, except that  *)
(* of engine_service, which is split wherever it reads a register that the *)
(* hardware changes on its own; svc # "idle" says that it holds the lock.  *)
(***************************************************************************)
EXTENDS Naturals, Sequences

CONSTANTS Syncs,       \* callers of xdma_xfer_submit
          Asyncs,      \* callers of xdma_xfer_submit_nowait
          NoXfer,      \* no transfer
          DescNum,     \* desc_num of each transfer
          Parts,       \* transfers a sync request is split into
          U32,         \* the modulus of the driver's u32 arithmetic
          MayTimeout,  \* sync waits end by timeout or signal
          MayFail,     \* the hardware may report an error
          MayOffline,  \* the PCI core may reset the function
          BusyRace,    \* older hardware: BUSY may be read set on an idle engine
          StopDrains   \* a stopped engine still finishes the descriptor in flight

Xfers == Syncs \cup Asyncs

ASSUME CallersAssumption == /\ Syncs \cap Asyncs = {}
                            /\ NoXfer \notin Xfers
ASSUME DescAssumption == /\ DescNum \in [Xfers -> Nat \ {0}]
                         /\ Parts \in [Syncs -> Nat \ {0}]
ASSUME U32Assumption == /\ U32 \in Nat \ {0}
                        /\ \A x \in Xfers : DescNum[x] < U32
ASSUME FlagsAssumption == /\ MayTimeout \in BOOLEAN
                          /\ MayFail \in BOOLEAN
                          /\ MayOffline \in BOOLEAN
                          /\ BusyRace \in BOOLEAN
                          /\ StopDrains \in BOOLEAN

VARIABLES
  pc,             \* where each caller is
  left,           \* parts of the sync request still to be transferred
  xstate,         \* transfer->state
  desc_lock,      \* the holder of engine->desc_lock
  transfer_list,  \* engine->transfer_list
  running,        \* engine->running
  shutdown,       \* engine->shutdown, as the set of its bits
  desc_dequeued,  \* engine->desc_dequeued
  status_err,     \* the error bits of engine->status
  svc,            \* progress of engine_service ("idle": lock free)
  pdesc,          \* desc_count, local to engine_service
  work,           \* engine->work is pending
  devstep,        \* progress of xdma_device_offline / _online
  offline,        \* XDEV_FLAG_OFFLINE
  irq_enabled,    \* the channel's interrupt enable bit
  hw_xfer,        \* the transfer whose descriptors the engine was started on
  hw_busy,        \* the engine is processing descriptors
  hw_count,       \* the register completed_desc_count
  hw_err,         \* an error bit is set in the status register
  hw_event,       \* an interrupting bit is set in the status register
  hw_inflight,    \* a stopped transfer whose last descriptor is in flight
  moved,          \* history: descriptors moved in the transfer's last run
  struck          \* history: a hardware error hit the transfer's last run

callers == <<pc, left, xstate, desc_lock>>
engine  == <<transfer_list, running, shutdown, desc_dequeued>>
service == <<status_err, svc, pdesc, work>>
device  == <<devstep, offline, irq_enabled>>
hw      == <<hw_xfer, hw_busy, hw_count, hw_err, hw_event, hw_inflight,
             moved, struck>>
vars    == <<pc, left, xstate, desc_lock, transfer_list, running, shutdown,
             desc_dequeued, status_err, svc, pdesc, work, devstep, offline,
             irq_enabled, hw_xfer, hw_busy, hw_count, hw_err, hw_event,
             hw_inflight, moved, struck>>

TransferState == {"NEW", "SUBMITTED", "COMPLETED", "FAILED", "ABORTED"}

CallersTypeOK ==
  /\ pc \in [Xfers -> {"idle", "mutex_lock", "queue", "spin_lock",
                       "wait_event", "settle", "destroy"}]
  /\ left \in [Syncs -> Nat]
  /\ xstate \in [Xfers -> TransferState]
  /\ desc_lock \in Syncs \cup {NoXfer}

EngineTypeOK ==
  /\ transfer_list \in Seq(Xfers)
  /\ running \in BOOLEAN
  /\ shutdown \in SUBSET {"REQUEST", "IDLE"}
  /\ desc_dequeued \in 0 .. U32 - 1

ServiceTypeOK ==
  /\ status_err \in BOOLEAN
  /\ svc \in {"idle", "count", "list"}
  /\ pdesc \in 0 .. U32 - 1
  /\ work \in BOOLEAN

DeviceTypeOK ==
  /\ devstep \in {"online", "flagged", "stopped", "offline", "reset",
                  "resumed", "enabled"}
  /\ offline \in BOOLEAN
  /\ irq_enabled \in BOOLEAN

HwTypeOK ==
  /\ hw_xfer \in Xfers \cup {NoXfer}
  /\ hw_busy \in BOOLEAN
  /\ hw_count \in 0 .. U32 - 1
  /\ hw_err \in BOOLEAN
  /\ hw_event \in BOOLEAN
  /\ hw_inflight \in Xfers \cup {NoXfer}
  /\ moved \in [Xfers -> Nat]
  /\ struck \in [Xfers -> BOOLEAN]

\* The u32 values stay below their modulus: the completed-descriptor count
\* never passes the descriptors of the transfer the engine was started on.
TypeOK ==
  /\ CallersTypeOK
  /\ EngineTypeOK
  /\ ServiceTypeOK
  /\ DeviceTypeOK
  /\ HwTypeOK

Init ==
  /\ pc = [x \in Xfers |-> "idle"]
  /\ left = [x \in Syncs |-> 0]
  /\ xstate = [x \in Xfers |-> "NEW"]
  /\ desc_lock = NoXfer
  /\ transfer_list = <<>>
  /\ running = FALSE
  /\ shutdown = {}
  /\ desc_dequeued = 0
  /\ status_err = FALSE
  /\ svc = "idle"
  /\ pdesc = 0
  /\ work = FALSE
  /\ devstep = "online"
  /\ offline = FALSE
  /\ irq_enabled = TRUE
  /\ hw_xfer = NoXfer
  /\ hw_busy = FALSE
  /\ hw_count = 0
  /\ hw_err = FALSE
  /\ hw_event = FALSE
  /\ hw_inflight = NoXfer
  /\ moved = [x \in Xfers |-> 0]
  /\ struck = [x \in Xfers |-> FALSE]

-----------------------------------------------------------------------------
(***************************************************************************)
(* What the driver does to the engine while it holds the engine lock.      *)
(***************************************************************************)

\* XDMA_STAT_BUSY as the status register shows it.
HwBusyBit == hw_busy \/ hw_inflight # NoXfer

\* The transfer whose descriptor is still in flight once RUN is cleared.  The
\* engine works on one descriptor at a time.
StillInFlight == IF hw_busy /\ StopDrains /\ hw_inflight = NoXfer
                 THEN hw_xfer ELSE hw_inflight

\* Mutant: only the driver's flag is cleared, RUN stays set.
EngineStopFlagOnly ==
  /\ running' = FALSE
  /\ UNCHANGED <<hw_busy, hw_inflight>>

\* xdma_engine_stop(): clears RUN and the running flag, and does not wait.
EngineStop ==
  /\ running' = FALSE
  /\ hw_busy' = FALSE
  /\ hw_inflight' = StillInFlight

\* engine_start() begins to count dequeued descriptors anew.
\* Mutant: the count survives from the previous run.
DequeuedKept == desc_dequeued
DequeuedAtStart == 0

\* engine_start(): programs the first descriptor of the head of list, whose
\* RUN edge resets the completed-descriptor count.
EngineStart(list) ==
  /\ shutdown' = {}
  /\ desc_dequeued' = DequeuedAtStart
  /\ running' = TRUE
  /\ hw_xfer' = Head(list)
  /\ hw_busy' = TRUE
  /\ hw_count' = 0
  /\ moved' = [moved EXCEPT ![Head(list)] = 0]
  /\ struck' = [struck EXCEPT ![Head(list)] = FALSE]
  /\ hw_inflight' = StillInFlight
  /\ UNCHANGED <<hw_err, hw_event>>

-----------------------------------------------------------------------------
(***************************************************************************)
(* The callers.                                                            *)
(***************************************************************************)

\* xdma_xfer_submit() up to mutex_lock(desc_lock): refused while offline.
SubmitSync(x) ==
  /\ pc[x] = "idle"
  /\ ~offline
  /\ pc' = [pc EXCEPT ![x] = "mutex_lock"]
  /\ left' = [left EXCEPT ![x] = Parts[x]]
  /\ UNCHANGED <<xstate, desc_lock, engine, service, device, hw>>

\* mutex_lock(&engine->desc_lock) waits for the holder.
\* Mutant: it does not.
DescLockIgnored == TRUE
DescLockFree == desc_lock = NoXfer

\* mutex_lock(&engine->desc_lock), then transfer_init of the first part.
LockDesc(x) ==
  /\ pc[x] = "mutex_lock"
  /\ DescLockFree
  /\ desc_lock' = x
  /\ xstate' = [xstate EXCEPT ![x] = "NEW"]
  /\ pc' = [pc EXCEPT ![x] = "queue"]
  /\ UNCHANGED <<left, engine, service, device, hw>>

\* xdma_xfer_submit_nowait() up to transfer_queue: no desc_lock is taken.
SubmitAsync(x) ==
  /\ pc[x] = "idle"
  /\ ~offline
  /\ xstate' = [xstate EXCEPT ![x] = "NEW"]
  /\ pc' = [pc EXCEPT ![x] = "queue"]
  /\ UNCHANGED <<left, desc_lock, engine, service, device, hw>>

\* A caller gives up its transfer: the request is freed, desc_lock released.
Release(x) ==
  /\ pc' = [pc EXCEPT ![x] = "idle"]
  /\ desc_lock' = IF desc_lock = x THEN NoXfer ELSE desc_lock

\* transfer_queue(): the test of XDEV_FLAG_OFFLINE, made before the lock.
QueueCheck(x) ==
  /\ pc[x] = "queue"
  /\ IF offline
     THEN Release(x)
     ELSE pc' = [pc EXCEPT ![x] = "spin_lock"] /\ UNCHANGED desc_lock
  /\ UNCHANGED <<left, xstate, engine, service, device, hw>>

\* The engine is not being shut down; tested under the engine lock.
\* Mutant: the test is left out.
AcceptingAlways == TRUE
Accepting == "REQUEST" \notin shutdown

\* transfer_queue(): an engine being shut down refuses the transfer.
QueueRefused(x) ==
  /\ pc[x] = "spin_lock"
  /\ svc = "idle"
  /\ ~Accepting
  /\ Release(x)
  /\ UNCHANGED <<left, xstate, engine, service, device, hw>>

\* list_add_tail() of the transfer.
\* Mutant: list_add().
QueuedFirst(x) == <<x>> \o transfer_list
QueuedLast(x) == Append(transfer_list, x)

\* transfer_queue(): append the transfer, and start the engine if idle.
Enqueue(x) ==
  /\ pc[x] = "spin_lock"
  /\ svc = "idle"
  /\ Accepting
  /\ xstate' = [xstate EXCEPT ![x] = "SUBMITTED"]
  /\ transfer_list' = QueuedLast(x)
  /\ IF running
     THEN UNCHANGED <<running, shutdown, desc_dequeued, hw>>
     ELSE EngineStart(QueuedLast(x))
  /\ pc' = [pc EXCEPT ![x] = "wait_event"]
  /\ UNCHANGED <<left, desc_lock, service, device>>

\* xlx_wait_event_interruptible(): the transfer is no longer SUBMITTED.
Woken(x) ==
  /\ pc[x] = "wait_event"
  /\ xstate[x] # "SUBMITTED"
  /\ pc' = [pc EXCEPT ![x] = "settle"]
  /\ UNCHANGED <<left, xstate, desc_lock, engine, service, device, hw>>

\* Mutant: the wait has no timeout and cannot be interrupted.
NeverTimedOut(x) == FALSE

\* The wait ends by its timeout, or by a signal to the sleeping task.
TimedOut(x) ==
  /\ MayTimeout
  /\ pc[x] = "wait_event"
  /\ pc' = [pc EXCEPT ![x] = "settle"]
  /\ UNCHANGED <<left, xstate, desc_lock, engine, service, device, hw>>

\* The switch on xfer->state, under the lock: the default case.
Unsettled(x) == xstate[x] \notin {"COMPLETED", "FAILED"}

\* The switch on xfer->state, under the lock: a settled transfer.
Settled(x) ==
  /\ pc[x] = "settle"
  /\ svc = "idle"
  /\ ~Unsettled(x)
  /\ pc' = [pc EXCEPT ![x] = "destroy"]
  /\ UNCHANGED <<left, xstate, desc_lock, engine, service, device, hw>>

\* transfer_abort() unlinks the transfer only if it is the head of the list.
\* Mutant: it leaves the transfer in the list.
AbortedKept(x) == transfer_list
AbortedList(x) == IF transfer_list # <<>> /\ Head(transfer_list) = x
                  THEN Tail(transfer_list) ELSE transfer_list

\* The same switch, default case: engine_status_read without clearing,
\* transfer_abort, then xdma_engine_stop.
Abort(x) ==
  /\ pc[x] = "settle"
  /\ svc = "idle"
  /\ Unsettled(x)
  /\ status_err' = hw_err
  /\ transfer_list' = AbortedList(x)
  /\ xstate' = [xstate EXCEPT ![x] = IF @ = "SUBMITTED" THEN "ABORTED" ELSE @]
  /\ EngineStop
  /\ pc' = [pc EXCEPT ![x] = "destroy"]
  /\ UNCHANGED <<left, desc_lock, shutdown, desc_dequeued, svc, pdesc, work,
                 device, hw_xfer, hw_count, hw_err, hw_event, moved, struck>>

\* nents -= xfer->desc_num, counted in parts.
PartsLeft(x) == left[x] - 1

\* transfer_destroy, then the next part of the request, still under desc_lock,
\* or the end of the call.
NextPart(x) ==
  /\ pc[x] = "destroy"
  /\ xstate[x] = "COMPLETED"
  /\ left[x] > 1
  /\ left' = [left EXCEPT ![x] = PartsLeft(x)]
  /\ xstate' = [xstate EXCEPT ![x] = "NEW"]
  /\ pc' = [pc EXCEPT ![x] = "queue"]
  /\ UNCHANGED <<desc_lock, engine, service, device, hw>>

Return(x) ==
  /\ pc[x] = "destroy"
  /\ xstate[x] = "COMPLETED" => left[x] = 1
  /\ Release(x)
  /\ UNCHANGED <<left, xstate, engine, service, device, hw>>

-----------------------------------------------------------------------------
(***************************************************************************)
(* The interrupt handler and the bottom half.                              *)
(***************************************************************************)

\* irq_teardown removes the handler, irq_setup installs it again.
HandlerInstalled == devstep \notin {"offline", "reset", "resumed"}

\* xdma_isr() / xdma_channel_irq(): mask the channel, schedule the work.
Isr ==
  /\ hw_event
  /\ irq_enabled
  /\ HandlerInstalled
  /\ irq_enabled' = FALSE
  /\ work' = TRUE
  /\ UNCHANGED <<callers, engine, status_err, svc, pdesc, devstep, offline, hw>>

\* Mutant: the channel stays masked.
ServiceDoneMasked ==
  /\ svc' = "idle"
  /\ UNCHANGED irq_enabled

\* engine_service_work(): the interrupt of the channel is enabled again and
\* the engine lock released.
ServiceDone ==
  /\ svc' = "idle"
  /\ irq_enabled' = TRUE

\* engine_service() of an engine that is not running: clear the status.
ServiceNotRunning ==
  /\ work
  /\ svc = "idle"
  /\ ~running
  /\ work' = FALSE
  /\ status_err' = hw_err
  /\ hw_err' = FALSE
  /\ hw_event' = FALSE
  /\ ServiceDone
  /\ UNCHANGED <<callers, engine, pdesc, devstep, offline, hw_xfer, hw_busy,
                 hw_count, hw_inflight, moved, struck>>

\* What engine_service() may read as BUSY.
\* Mutant: the test of the bit is always true.
BusyAlways == {TRUE}
BusyReadings == {HwBusyBit} \cup (IF BusyRace THEN {TRUE} ELSE {})

\* engine_service() of a running engine: read and clear the status; an engine
\* that is no longer busy is shut down.
ServiceStatus ==
  /\ work
  /\ svc = "idle"
  /\ running
  /\ work' = FALSE
  /\ status_err' = hw_err
  /\ hw_err' = FALSE
  /\ hw_event' = FALSE
  /\ \E busy \in BusyReadings :
       IF busy THEN UNCHANGED <<running, hw_busy, hw_inflight>> ELSE EngineStop
  /\ svc' = "count"
  /\ UNCHANGED <<callers, transfer_list, shutdown, desc_dequeued, pdesc, device,
                 hw_xfer, hw_count, moved, struck>>

\* No descriptor was completed: engine_service() leaves everything as it is.
ServiceNothing ==
  /\ svc = "count"
  /\ hw_count = 0
  /\ ServiceDone
  /\ UNCHANGED <<callers, engine, status_err, pdesc, work, devstep, offline, hw>>

\* desc_count -= engine->desc_dequeued, in u32.
NotDequeued == (U32 + hw_count - desc_dequeued) % U32

\* engine_service(): account for the descriptors of dequeued transfers.
ServiceCount ==
  /\ svc = "count"
  /\ hw_count # 0
  /\ pdesc' = NotDequeued
  /\ svc' = "list"
  /\ UNCHANGED <<callers, engine, status_err, work, device, hw>>

\* engine_transfer_completion(): a sync caller is woken by its state, an async
\* transfer is released by its callback.
Settle(x, state) ==
  /\ xstate' = [xstate EXCEPT ![x] = state]
  /\ pc' = IF x \in Asyncs THEN [pc EXCEPT ![x] = "idle"] ELSE pc
  /\ UNCHANGED <<left, desc_lock>>

\* engine_service_resume(): the engine is to be stopped, or is already.
Idles(list, stopped) == stopped \/ list = <<>>

\* engine_service_resume(), on what is left of the list: restart a stopped
\* engine, acknowledge a shutdown, or shut down an engine with nothing to do.
Resume(list, stopped, dequeued) ==
  IF stopped /\ list # <<>>
  THEN EngineStart(list)
  ELSE /\ shutdown' = IF stopped /\ "REQUEST" \in shutdown
                      THEN shutdown \cup {"IDLE"} ELSE shutdown
       /\ desc_dequeued' = dequeued
       /\ IF Idles(list, stopped)
          THEN EngineStop ELSE UNCHANGED <<running, hw_busy, hw_inflight>>
       /\ UNCHANGED <<hw_xfer, hw_count, hw_err, hw_event, moved, struck>>

\* The verdict on the transfer the engine stopped on.
FinalState(x) ==
  IF status_err \/ pdesc < DescNum[x] THEN "FAILED" ELSE "COMPLETED"

\* list_del(engine->transfer_list.next).
\* Mutant: the settled transfer stays in the list.
ListKept(list) == list
ListDel(list) == Tail(list)

\* engine_service_final_transfer(), in which engine_err_handle stops the engine
\* on an error, and engine_service_resume().
FinalTransfer(list) ==
  IF list = <<>>
  THEN /\ Resume(<<>>, ~running, desc_dequeued)
       /\ UNCHANGED <<callers, transfer_list>>
  ELSE LET x == Head(list)
           dequeued == IF status_err THEN desc_dequeued
                       ELSE (desc_dequeued + DescNum[x]) % U32
       IN  /\ Settle(x, FinalState(x))
           /\ transfer_list' = ListDel(list)
           /\ Resume(ListDel(list), status_err \/ ~running, dequeued)

\* One turn of the loop of engine_service_transfer_list(), which completes the
\* head while more descriptors are done than it has, or what follows the loop.
ServiceTransfer ==
  /\ svc = "list"
  /\ IF transfer_list # <<>> /\ pdesc > DescNum[Head(transfer_list)]
     THEN /\ pdesc' = pdesc - DescNum[Head(transfer_list)]
          /\ desc_dequeued' = (desc_dequeued + DescNum[Head(transfer_list)]) % U32
          /\ Settle(Head(transfer_list), "COMPLETED")
          /\ transfer_list' = ListDel(transfer_list)
          /\ UNCHANGED <<running, shutdown, svc, irq_enabled, hw>>
     ELSE /\ FinalTransfer(transfer_list)
          /\ ServiceDone
          /\ UNCHANGED pdesc
  /\ UNCHANGED <<status_err, work, devstep, offline>>

-----------------------------------------------------------------------------
(***************************************************************************)
(* The hardware engine (external): it processes the descriptors of the     *)
(* transfer it was started on and stops after the last, whose control word *)
(* has XDMA_DESC_STOPPED.  Status bits stay set until a clearing read.  A  *)
(* descriptor left in flight by a stop is done before the next run's first.*)
(***************************************************************************)

HwStep ==
  /\ hw_busy
  /\ hw_inflight = NoXfer
  /\ hw_count' = hw_count + 1
  /\ moved' = [moved EXCEPT ![hw_xfer] = @ + 1]
  /\ hw_busy' = (hw_count + 1 < DescNum[hw_xfer])
  /\ hw_event' = (hw_event \/ hw_count + 1 = DescNum[hw_xfer])
  /\ UNCHANGED <<callers, engine, service, device, hw_xfer, hw_err,
                 hw_inflight, struck>>

HwError ==
  /\ MayFail
  /\ hw_busy
  /\ hw_busy' = FALSE
  /\ hw_err' = TRUE
  /\ hw_event' = TRUE
  /\ struck' = [struck EXCEPT ![hw_xfer] = TRUE]
  /\ UNCHANGED <<callers, engine, service, device, hw_xfer, hw_count,
                 hw_inflight, moved>>

HwDrain ==
  /\ hw_inflight # NoXfer
  /\ hw_inflight' = NoXfer
  /\ UNCHANGED <<callers, engine, service, device, hw_xfer, hw_busy, hw_count,
                 hw_err, hw_event, moved, struck>>

-----------------------------------------------------------------------------
(***************************************************************************)
(* The device goes offline, is reset and comes online again.               *)
(***************************************************************************)

\* xdma_device_offline(): the flag.
OfflineFlag ==
  /\ MayOffline
  /\ devstep = "online"
  /\ offline' = TRUE
  /\ devstep' = "flagged"
  /\ UNCHANGED <<callers, engine, service, irq_enabled, hw>>

\* xdma_device_offline(): the engine, under its lock.
OfflineEngine ==
  /\ devstep = "flagged"
  /\ svc = "idle"
  /\ shutdown' = shutdown \cup {"REQUEST"}
  /\ EngineStop
  /\ devstep' = "stopped"
  /\ UNCHANGED <<callers, transfer_list, desc_dequeued, service, offline,
                 irq_enabled, hw_xfer, hw_count, hw_err, hw_event, moved,
                 struck>>

\* xdma_device_offline(): turn off interrupts, remove the handler.
OfflineIrq ==
  /\ devstep = "stopped"
  /\ irq_enabled' = FALSE
  /\ devstep' = "offline"
  /\ UNCHANGED <<callers, engine, service, offline, hw>>

\* The PCI core resets the function (external).
PciReset ==
  /\ devstep = "offline"
  /\ devstep' = "reset"
  /\ irq_enabled' = FALSE
  /\ hw_busy' = FALSE
  /\ hw_count' = 0
  /\ hw_err' = FALSE
  /\ hw_event' = FALSE
  /\ hw_inflight' = NoXfer
  /\ UNCHANGED <<callers, engine, service, offline, hw_xfer, moved, struck>>

\* xdma_device_online(): engine_init_regs, and transfers are accepted again.
OnlineEngine ==
  /\ devstep = "reset"
  /\ svc = "idle"
  /\ shutdown' = shutdown \ {"REQUEST"}
  /\ devstep' = "resumed"
  /\ UNCHANGED <<callers, transfer_list, running, desc_dequeued, service,
                 offline, irq_enabled, hw>>

\* xdma_device_online(): irq_setup and channel_interrupts_enable.
OnlineIrq ==
  /\ devstep = "resumed"
  /\ irq_enabled' = TRUE
  /\ devstep' = "enabled"
  /\ UNCHANGED <<callers, engine, service, offline, hw>>

\* xdma_device_online(): the flag.
OnlineFlag ==
  /\ devstep = "enabled"
  /\ offline' = FALSE
  /\ devstep' = "online"
  /\ UNCHANGED <<callers, engine, service, irq_enabled, hw>>

-----------------------------------------------------------------------------
SyncCaller(x) ==
  \/ SubmitSync(x)
  \/ LockDesc(x)
  \/ Woken(x)
  \/ TimedOut(x)
  \/ Settled(x)
  \/ Abort(x)
  \/ NextPart(x)
  \/ Return(x)

TransferQueue(x) ==
  \/ QueueCheck(x)
  \/ QueueRefused(x)
  \/ Enqueue(x)

EngineService ==
  \/ ServiceNotRunning
  \/ ServiceStatus
  \/ ServiceNothing
  \/ ServiceCount
  \/ ServiceTransfer

Hardware ==
  \/ HwStep
  \/ HwError
  \/ HwDrain

Device ==
  \/ OfflineFlag
  \/ OfflineEngine
  \/ OfflineIrq
  \/ PciReset
  \/ OnlineEngine
  \/ OnlineIrq
  \/ OnlineFlag

Next ==
  \/ \E x \in Syncs : SyncCaller(x)
  \/ \E x \in Asyncs : SubmitAsync(x)
  \/ \E x \in Xfers : TransferQueue(x)
  \/ Isr
  \/ EngineService
  \/ Hardware
  \/ Device

Spec == Init /\ [][Next]_vars

(***************************************************************************)
(* Fairness: the kernel schedules runnable tasks, interrupts and works;    *)
(* the engine lock and desc_lock are queued locks, so nobody waits for one *)
(* forever while others pass (SF); a started engine makes progress; an     *)
(* offline/online sequence once begun is carried through.  Nothing obliges *)
(* a caller to submit, the hardware to fail or the device to be reset.     *)
(***************************************************************************)
CallerFairness(x) ==
  /\ SF_vars(LockDesc(x))
  /\ WF_vars(QueueCheck(x))
  /\ SF_vars(QueueRefused(x) \/ Enqueue(x))
  /\ WF_vars(Woken(x))
  /\ WF_vars(TimedOut(x))
  /\ SF_vars(Settled(x) \/ Abort(x))
  /\ WF_vars(NextPart(x) \/ Return(x))

DeviceFairness ==
  /\ SF_vars(OfflineEngine)
  /\ SF_vars(OnlineEngine)
  /\ WF_vars(OfflineIrq \/ PciReset \/ OnlineIrq \/ OnlineFlag)

Fairness ==
  /\ \A x \in Syncs : CallerFairness(x)
  /\ \A x \in Asyncs : /\ WF_vars(QueueCheck(x))
                        /\ SF_vars(QueueRefused(x) \/ Enqueue(x))
  /\ WF_vars(Isr)
  /\ WF_vars(EngineService)
  /\ WF_vars(HwStep)
  /\ WF_vars(HwDrain)
  /\ DeviceFairness

FairSpec == Spec /\ Fairness

-----------------------------------------------------------------------------
(***************************************************************************)
(* Properties.                                                             *)
(***************************************************************************)

\* The position of a transfer whose caller still owns its memory and waits.
Owned(x) == pc[x] \in {"wait_event", "settle"}

InList(list, x) == \E i \in DOMAIN list : list[i] = x
NoDup(list) == \A i, j \in DOMAIN list : list[i] = list[j] => i = j

\* A transfer the driver reports COMPLETED (libxdma.c:996) was moved entirely
\* by the hardware, whatever timeouts, stale interrupts and u32 underflow of
\* the descriptor count came before.
CompletedMeansMoved ==
  \A x \in Xfers : xstate[x] = "COMPLETED" => moved[x] = DescNum[x]

\* The engine's list holds each transfer once, only transfers that are
\* SUBMITTED and whose caller has not released them, and all of those
\* (libxdma.h:437): no freed transfer is left for the bottom half to find.
QueueIsLive ==
  /\ NoDup(transfer_list)
  /\ \A x \in Xfers : InList(transfer_list, x) => Owned(x)
  /\ \A x \in Xfers : xstate[x] = "SUBMITTED" <=> InList(transfer_list, x)

\* A transfer is reported FAILED only if a hardware error hit its own run
\* (libxdma.c:974 "stopped half-way": the engine did stop).
FailedMeansError ==
  \A x \in Xfers : xstate[x] = "FAILED" => struck[x]

\* While the driver believes that the engine runs and the hardware has
\* stopped, an interrupt or the work that will notice is still to come; the
\* one exception is an error on the first descriptor, where engine_service
\* leaves through "if (!desc_count) goto done" (libxdma.c:1150).
NoLostCompletion ==
  (running /\ ~hw_busy /\ svc = "idle") => hw_event \/ work \/ hw_count = 0

\* A masked channel interrupt is always on its way to be enabled again: the
\* work that enables it is pending or running, unless the device is offline.
NoLostInterruptEnable ==
  irq_enabled \/ work \/ svc # "idle" \/ ~HandlerInstalled

\* The hardware starts descriptors only of transfers whose caller still holds
\* the buffers.  The one that may be in flight after RUN was cleared, which
\* xdma_engine_stop (libxdma.c:531) does not wait for, can reach pages that
\* were unmapped or freed; but never those of a transfer that was reported
\* COMPLETED, nor can it be followed by another one.
NoDmaAfterRelease ==
  /\ hw_busy => Owned(hw_xfer)
  /\ hw_inflight # NoXfer => xstate[hw_inflight] # "COMPLETED"

\* Between the shutdown request and the return online nothing runs, also if a
\* caller had passed the test of the offline flag before it was set, or the
\* bottom half was scheduled.
QuietWhileOffline ==
  devstep \in {"stopped", "offline", "reset"} => ~running /\ ~hw_busy

\* The verdict on a transfer is never overwritten before its caller starts a
\* new transfer: a timeout that races a late completion reports one of the
\* two, and the completion of an aborted transfer never reaches its memory.
VerdictIsFinal ==
  [][\A x \in Xfers :
       xstate[x] \in {"COMPLETED", "FAILED", "ABORTED"} =>
         xstate'[x] = xstate[x] \/ xstate'[x] = "NEW"]_vars

\* The oldest transfer has been moved entirely, and the run that moved it is
\* not over.
Finished ==
  /\ running \/ svc # "idle"
  /\ transfer_list # <<>>
  /\ moved[Head(transfer_list)] = DescNum[Head(transfer_list)]

Contract == INSTANCE TransferContract WITH
  list <- transfer_list, state <- xstate, finished <- Finished

\* The engine keeps the contract its users rely on: transfers are served in
\* the order of transfer_queue, the bottom half settles the oldest only and
\* each once, and reports it completed only if the hardware moved it.
ImplementsContract == Contract!ContractSpec

\* Every call of xdma_xfer_submit returns.
SubmitReturns == \A x \in Syncs : pc[x] # "idle" ~> pc[x] = "idle"

\* Every transfer that was queued is settled, unless an error hit the very
\* first descriptor of a run: engine_service then leaves through "if
\* (!desc_count) goto done" (libxdma.c:1150) and nobody restarts the engine.
QueuedSettles ==
  \A x \in Xfers :
    xstate[x] = "SUBMITTED" ~> \/ xstate[x] # "SUBMITTED"
                               \/ \E y \in Xfers : struck[y] /\ moved[y] = 0

-----------------------------------------------------------------------------
(***************************************************************************)
(* The inductive invariant, in two parts.  HwOK makes TypeOK inductive.    *)
(* The rest holds in the regime where the driver keeps its promises: the   *)
(* disturbances that leave a stale interrupt or an abort behind may happen *)
(* only when the engine has no async callers.                              *)
(***************************************************************************)
Calm   == ~MayTimeout /\ ~MayOffline /\ ~BusyRace
Regime == Calm \/ Asyncs = {}

\* A busy engine is inside the transfer it was started on.
HwOK ==
  /\ hw_busy => /\ hw_xfer \in Xfers
                /\ hw_count < DescNum[hw_xfer]
                /\ moved[hw_xfer] = hw_count
  /\ \A x \in Xfers : moved[x] <= DescNum[x]

\* desc_lock is held by the one sync caller between lock and release.
LockInv ==
  \A x \in Syncs : pc[x] \notin {"idle", "mutex_lock"} <=> desc_lock = x

\* What a caller's position says about its transfer.
CallerInv ==
  /\ \A x \in Asyncs : /\ pc[x] \in {"idle", "queue", "spin_lock", "wait_event"}
                        /\ pc[x] = "wait_event" => xstate[x] = "SUBMITTED"
  /\ \A x \in Xfers : pc[x] \in {"queue", "spin_lock"} => xstate[x] = "NEW"
  /\ \A x \in Xfers : pc[x] = "wait_event" =>
                          xstate[x] \in {"SUBMITTED", "COMPLETED", "FAILED"}
  /\ \A x \in Xfers : pc[x] = "settle" =>
                          \/ xstate[x] \in {"COMPLETED", "FAILED"}
                          \/ xstate[x] = "SUBMITTED" /\ MayTimeout

\* A running engine, or one being serviced, is on the head of the list.
HeadInv ==
  /\ hw_busy => running
  /\ (running \/ svc # "idle") =>
        /\ transfer_list # <<>>
        /\ hw_xfer = Head(transfer_list)
        /\ desc_dequeued = 0
        /\ hw_count <= moved[hw_xfer]
  /\ svc = "list" => pdesc <= moved[Head(transfer_list)]

\* Without disturbances no interrupt is stale: it finds the engine stopped on
\* the transfer that raised it.
CalmInv ==
  Calm => /\ work \/ hw_event => running /\ ~hw_busy
          /\ svc # "idle" => ~running
          /\ hw_inflight = NoXfer
          /\ devstep = "online"

IInv ==
  /\ TypeOK
  /\ HwOK
  /\ LockInv
  /\ CallerInv
  /\ QueueIsLive
  /\ HeadInv
  /\ CalmInv
  /\ CompletedMeansMoved
=============================================================================
