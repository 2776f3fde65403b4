-------------------------- MODULE SgdmaGuarantees ---------------------------
(***************************************************************************)
(* What SgdmaEngine promises, proved for every number of callers and every *)
(* size of transfer: interrupts and shutdown in every regime; then, from   *)
(* the inductive invariant of SgdmaEngineProofs, the buffers, the          *)
(* completions and the verdicts, and that the engine implements            *)
(* TransferContract: the queue, the callers, the interrupt and the         *)
(* hardware amount, for those who queue transfers, to a list whose oldest  *)
(* entry is settled.                                                       *)
(***************************************************************************)
EXTENDS SgdmaEngineProofs

USE CallersAssumption, DescAssumption, U32Assumption, FlagsAssumption
USE DEF QueuedLast, Unsettled, AbortedList, ListDel, Idles

-----------------------------------------------------------------------------
(***************************************************************************)
(* Interrupts and the shutdown, in every regime.                           *)
(***************************************************************************)

\* Only the handler masks the channel of a device in service, and it schedules
\* the work; only the bottom half ends the work, and it enables the channel.
LEMMA EnableStep ==
  ASSUME NoLostInterruptEnable, [Next]_vars
  PROVE  NoLostInterruptEnable'
<1> USE DEF NoLostInterruptEnable, HandlerInstalled
<1>1. ASSUME NEW x \in Xfers, SyncCaller(x) \/ SubmitAsync(x) \/ TransferQueue(x)
      PROVE  NoLostInterruptEnable'
  <2>1. UNCHANGED <<irq_enabled, work, svc, devstep>>
    BY <1>1 DEF SyncCaller, SubmitSync, LockDesc, Woken, TimedOut, Settled,
       Abort, NextPart, Return, SubmitAsync, TransferQueue, QueueCheck,
       QueueRefused, Enqueue, service, device
  <2> QED
    BY <2>1
<1>2. CASE Isr
  BY <1>2 DEF Isr
<1>3. CASE ServiceNotRunning \/ ServiceNothing
  BY <1>3 DEF ServiceNotRunning, ServiceNothing, ServiceDone
<1>4. CASE ServiceStatus
  BY <1>4 DEF ServiceStatus, ServiceDone
<1>5. CASE ServiceCount
  BY <1>5 DEF ServiceCount
<1>6. CASE ServiceTransfer
  BY <1>6 DEF ServiceTransfer, ServiceDone
<1>7. CASE Hardware
  BY <1>7 DEF Hardware, HwStep, HwError, HwDrain, service, device
<1>8. CASE Device
  BY <1>8 DEF Device, OfflineFlag, OfflineEngine, OfflineIrq, PciReset,
     OnlineEngine, OnlineIrq, OnlineFlag, service
<1>9. CASE UNCHANGED vars
  BY <1>9 DEF vars
<1> QED
  BY <1>1, <1>2, <1>3, <1>4, <1>5, <1>6, <1>7, <1>8, <1>9
     DEF Next, EngineService, Xfers

\* A masked channel interrupt is always on its way to be enabled again, in
\* every regime: the pairing of channel_interrupts_disable in xdma_isr with
\* channel_interrupts_enable at the end of engine_service_work never breaks.
THEOREM InterruptEnable == Spec => []NoLostInterruptEnable
<1>1. Init => NoLostInterruptEnable
  BY DEF Init, NoLostInterruptEnable
<1> QED
  BY <1>1, EnableStep, PTL DEF Spec

\* From the shutdown request on, the request is on record, so that nobody
\* starts the engine, and the bottom half finds it not running.
QuietInv ==
  devstep \in {"stopped", "offline", "reset"} =>
    ~running /\ ~hw_busy /\ svc = "idle" /\ "REQUEST" \in shutdown

\* No step wakes an engine that was asked to shut down.
LEMMA QuietStep ==
  ASSUME QuietInv, [Next]_vars
  PROVE  QuietInv'
<1> USE DEF QuietInv
<1>1. ASSUME NEW x \in Xfers, TransferQueue(x) PROVE QuietInv'
  BY <1>1 DEF TransferQueue, QueueCheck, QueueRefused, Enqueue, Accepting,
     engine, service, device, hw
<1>2. ASSUME NEW x \in Xfers, SyncCaller(x) \/ SubmitAsync(x) PROVE QuietInv'
  <2>1. CASE Abort(x)
    BY <2>1 DEF Abort, EngineStop, device
  <2>2. CASE ~Abort(x)
    BY <1>2, <2>2 DEF SyncCaller, SubmitSync, LockDesc, Woken, TimedOut,
       Settled, NextPart, Return, SubmitAsync, engine, service, device, hw
  <2> QED
    BY <2>1, <2>2
<1>3. CASE Isr
  BY <1>3 DEF Isr, engine, hw
<1>4. CASE ServiceNotRunning
  BY <1>4 DEF ServiceNotRunning, ServiceDone, engine
<1>5. CASE ServiceStatus
  BY <1>5 DEF ServiceStatus, ServiceDone, engine, device
<1>6. CASE ServiceNothing
  BY <1>6 DEF ServiceNothing, engine, hw
<1>7. CASE ServiceCount
  BY <1>7 DEF ServiceCount, engine, device, hw
<1>8. CASE ServiceTransfer
  BY <1>8 DEF ServiceTransfer
<1>9. CASE Hardware
  BY <1>9 DEF Hardware, HwStep, HwError, HwDrain, engine, service, device
<1>10. CASE Device
  BY <1>10 DEF Device, OfflineFlag, OfflineEngine, OfflineIrq, PciReset,
     OnlineEngine, OnlineIrq, OnlineFlag, EngineStop, engine, service, hw
<1>11. CASE UNCHANGED vars
  BY <1>11 DEF vars
<1> QED
  BY <1>1, <1>2, <1>3, <1>4, <1>5, <1>6, <1>7, <1>8, <1>9, <1>10, <1>11
     DEF Next, EngineService, Xfers

\* The initial states are online.
LEMMA QuietInit == Init => QuietInv
  BY DEF Init, QuietInv

\* Between the shutdown request and the return online nothing runs, in every
\* regime: neither a caller that read XDEV_FLAG_OFFLINE before it was set nor
\* a bottom half that was scheduled before starts the engine again.
THEOREM QuietOffline == Spec => []QuietWhileOffline
<1>1. QuietInv => QuietWhileOffline
  BY DEF QuietInv, QuietWhileOffline
<1> QED
  BY <1>1, QuietInit, QuietStep, PTL DEF Spec

-----------------------------------------------------------------------------
(***************************************************************************)
(* Buffers, completions and verdicts, from the inductive invariant.        *)
(***************************************************************************)

\* The transfer whose descriptor a stop left in flight is unfinished, and the
\* engine goes no further before that descriptor is done.
DrainInv == hw_inflight # NoXfer => moved[hw_inflight] < DescNum[hw_inflight]

\* Clearing RUN leaves at most the descriptor of an unfinished transfer.
LEMMA DrainStop ==
  ASSUME TypeInv, DrainInv, EngineStop, UNCHANGED moved
  PROVE  DrainInv'
<1>1. CASE hw_inflight' = hw_inflight
  BY <1>1 DEF DrainInv
<1>2. CASE hw_busy /\ hw_inflight' = hw_xfer
  <2>1. moved[hw_xfer] < DescNum[hw_xfer]
    BY <1>2 DEF TypeInv, HwOK
  <2> QED
    BY <1>2, <2>1 DEF DrainInv
<1> QED
  BY <1>1, <1>2 DEF EngineStop, StillInFlight

\* A start counts the head's descriptors from 0, also where one of them is the
\* descriptor in flight.
LEMMA DrainStart ==
  ASSUME TypeInv, DrainInv, NEW list \in Seq(Xfers), list # <<>>, EngineStart(list)
  PROVE  DrainInv'
<1>1. /\ Head(list) \in Xfers /\ DescNum[Head(list)] > 0
      /\ hw_inflight \in Xfers \cup {NoXfer} /\ moved \in [Xfers -> Nat]
  BY ListType DEF TypeInv, TypeOK, HwTypeOK
<1>2. CASE hw_inflight' = NoXfer
  BY <1>2 DEF DrainInv
<1>3. hw_inflight' # NoXfer =>
        moved[hw_inflight'] < DescNum[hw_inflight'] /\ hw_inflight' \in Xfers
  BY <1>1 DEF TypeInv, HwOK, DrainInv, EngineStart, StillInFlight
<1>4. moved' = [moved EXCEPT ![Head(list)] = 0]
  BY DEF EngineStart
<1>5. CASE hw_inflight' = Head(list)
  BY <1>1, <1>4, <1>5 DEF DrainInv
<1>6. CASE hw_inflight' # NoXfer /\ hw_inflight' # Head(list)
  BY <1>1, <1>3, <1>4, <1>6 DEF DrainInv
<1> QED
  BY <1>2, <1>5, <1>6

\* No step finishes a transfer that has a descriptor in flight.
LEMMA DrainStep ==
  ASSUME TypeInv, DrainInv, [Next]_vars
  PROVE  DrainInv'
<1>0. UNCHANGED <<hw_inflight, moved>> => DrainInv'
  BY DEF DrainInv
<1>1. ASSUME NEW x \in Xfers, SyncCaller(x) \/ SubmitAsync(x) \/ TransferQueue(x)
      PROVE  DrainInv'
  <2>1. CASE Abort(x)
    BY <1>0, <2>1, DrainStop DEF Abort
  <2>2. CASE Enqueue(x)
    <3>1. UNCHANGED hw \/ EngineStart(QueuedLast(x))
      BY <2>2 DEF Enqueue
    <3>2. QueuedLast(x) \in Seq(Xfers) /\ QueuedLast(x) # <<>>
      BY DEF TypeInv, TypeOK, EngineTypeOK
    <3> QED
      BY <1>0, <3>1, <3>2, DrainStart DEF hw
  <2>3. CASE ~Abort(x) /\ ~Enqueue(x)
    BY <1>0, <1>1, <2>3 DEF SyncCaller, SubmitSync, LockDesc, Woken, TimedOut,
       Settled, NextPart, Return, SubmitAsync, TransferQueue, QueueCheck,
       QueueRefused, hw
  <2> QED
    BY <2>1, <2>2, <2>3
<1>2. CASE Isr \/ ServiceNotRunning \/ ServiceNothing \/ ServiceCount
  BY <1>0, <1>2 DEF Isr, ServiceNotRunning, ServiceNothing, ServiceCount, hw
<1>3. CASE ServiceStatus
  BY <1>0, <1>3, DrainStop DEF ServiceStatus
<1>4. CASE ServiceTransfer
  <2>1. ASSUME NEW l \in Seq(Xfers), NEW s, NEW d, Resume(l, s, d) PROVE DrainInv'
    <3>1. \/ l # <<>> /\ EngineStart(l)
          \/ EngineStop /\ UNCHANGED moved
          \/ UNCHANGED <<hw_inflight, moved>>
      BY <2>1 DEF Resume
    <3> QED
      BY <1>0, <3>1, DrainStop, DrainStart
  <2>2. transfer_list \in Seq(Xfers)
    BY DEF TypeInv, TypeOK, EngineTypeOK
  <2>3. \/ UNCHANGED hw
        \/ \E s, d : Resume(<<>>, s, d)
        \/ transfer_list # <<>> /\ \E s, d : Resume(Tail(transfer_list), s, d)
    BY <1>4 DEF ServiceTransfer, FinalTransfer
  <2>4. CASE UNCHANGED hw
    BY <1>0, <2>4 DEF hw
  <2>5. CASE \E s, d : Resume(<<>>, s, d)
    <3>1. <<>> \in Seq(Xfers)
      OBVIOUS
    <3> QED
      BY <2>1, <2>5, <3>1, Zenon
  <2>6. CASE transfer_list # <<>> /\ \E s, d : Resume(Tail(transfer_list), s, d)
    <3>1. Tail(transfer_list) \in Seq(Xfers)
      BY <2>2, <2>6, ListType
    <3> QED
      BY <2>1, <2>6, <3>1, Zenon
  <2> QED
    BY <2>3, <2>4, <2>5, <2>6
<1>5. CASE HwStep
  BY <1>5 DEF HwStep, DrainInv
<1>6. CASE HwError
  BY <1>0, <1>6 DEF HwError
<1>7. CASE HwDrain
  BY <1>7 DEF HwDrain, DrainInv
<1>8. CASE Device
  <2>1. CASE PciReset
    BY <2>1 DEF PciReset, DrainInv
  <2>2. CASE ~PciReset
    BY <1>0, <1>8, <2>2, DrainStop DEF Device, OfflineFlag, OfflineEngine,
       OfflineIrq, OnlineEngine, OnlineIrq, OnlineFlag, hw
  <2> QED
    BY <2>1, <2>2
<1>9. CASE UNCHANGED vars
  BY <1>0, <1>9 DEF vars
<1> QED
  BY <1>1, <1>2, <1>3, <1>4, <1>5, <1>6, <1>7, <1>8, <1>9
     DEF Next, EngineService, Hardware, Xfers

\* The hardware starts descriptors only of transfers whose caller still waits for
\* them, also when xdma_engine_stop leaves one in flight: an abort stops the
\* engine before the buffers are released, and a stopped engine is restarted on
\* the head of the list.  The one in flight, which can reach released pages, is
\* never one of a transfer that was reported COMPLETED.
THEOREM DmaOwned == Regime => (Spec => []NoDmaAfterRelease)
<1> SUFFICES ASSUME Regime PROVE Spec => []NoDmaAfterRelease
  OBVIOUS
<1>1. Spec => []IInv
  BY Invariance
<1>2. Init => DrainInv
  BY DEF Init, DrainInv
<1>3. IInv /\ DrainInv /\ [Next]_vars => DrainInv'
  BY DrainStep DEF IInv, TypeInv
<1>4. IInv /\ DrainInv => NoDmaAfterRelease
  <2> SUFFICES ASSUME IInv, DrainInv PROVE NoDmaAfterRelease
    OBVIOUS
  <2>1. ASSUME hw_busy PROVE Owned(hw_xfer)
    <3>1. running
      BY <2>1 DEF IInv, HeadInv
    <3>2. hw_xfer \in Xfers /\ InList(transfer_list, hw_xfer)
      BY <3>1, HeadFacts
    <3> QED
      BY <3>2 DEF IInv, QueueIsLive
  <2>2. ASSUME hw_inflight # NoXfer PROVE xstate[hw_inflight] # "COMPLETED"
    <3>1. hw_inflight \in Xfers /\ moved \in [Xfers -> Nat]
      BY <2>2 DEF IInv, TypeOK, HwTypeOK
    <3> QED
      BY <2>2, <3>1 DEF DrainInv, IInv, CompletedMeansMoved
  <2> QED
    BY <2>1, <2>2 DEF NoDmaAfterRelease
<1> QED
  BY <1>1, <1>2, <1>3, <1>4, PTL DEF Spec

\* What the last turn of engine_service_transfer_list does: the head, which
\* cannot have more descriptors done than it has, gets its verdict and leaves,
\* and the engine is restarted on the rest or has nothing left to do.
LEMMA TransferFacts ==
  ASSUME IInv, Regime, ServiceTransfer,
         NEW h, h = Head(transfer_list), NEW t, t = Tail(transfer_list)
  PROVE  /\ transfer_list \in Seq(Xfers) /\ transfer_list # <<>>
         /\ h \in Xfers
         /\ svc = "list" /\ svc' = "idle"
         /\ xstate' = [xstate EXCEPT ![h] = FinalState(h)]
         /\ transfer_list' = t
         /\ FinalState(h) = "COMPLETED" => moved[h] = DescNum[h]
         /\ \/ t # <<>> /\ EngineStart(t)
            \/ t = <<>> /\ EngineStop
<1> DEFINE stopped == status_err \/ ~running
           dequeued == IF status_err THEN desc_dequeued
                       ELSE (desc_dequeued + DescNum[h]) % U32
<1>1. /\ svc = "list"
      /\ transfer_list \in Seq(Xfers) /\ transfer_list # <<>>
      /\ h \in Xfers
  BY HeadFacts DEF ServiceTransfer
<1>2. /\ pdesc \in Nat /\ DescNum[h] \in Nat /\ moved[h] \in Nat
      /\ pdesc <= moved[h] /\ moved[h] <= DescNum[h]
  BY <1>1 DEF IInv, TypeOK, HwTypeOK, HwOK, HeadInv, ServiceTypeOK
<1>3. /\ xstate' = [xstate EXCEPT ![h] = FinalState(h)]
      /\ transfer_list' = t
      /\ Resume(t, stopped, dequeued)
      /\ svc' = "idle"
  <2>1. ~(pdesc > DescNum[h])
    BY <1>2
  <2>2. FinalTransfer(transfer_list) /\ ServiceDone
    BY <2>1 DEF ServiceTransfer
  <2> QED
    BY <1>1, <2>2 DEF FinalTransfer, ServiceDone, Settle
<1>4. FinalState(h) = "COMPLETED" => moved[h] = DescNum[h]
  BY <1>2 DEF FinalState
<1>5. stopped \/ t = <<>>
  BY <1>1, OneListed DEF Regime, IInv, CalmInv
<1>6. \/ t # <<>> /\ EngineStart(t)
      \/ t = <<>> /\ EngineStop
  BY <1>3, <1>5 DEF Resume
<1> QED
  BY <1>1, <1>3, <1>4, <1>6

\* No step stops the hardware and loses the news of it.
LEMMA CompletionStep ==
  ASSUME Regime, IInv, NoLostCompletion, [Next]_vars
  PROVE  NoLostCompletion'
<1> USE DEF NoLostCompletion
<1>1. ASSUME NEW x \in Xfers, SyncCaller(x) \/ SubmitAsync(x) \/ TransferQueue(x)
      PROVE  NoLostCompletion'
  <2>1. CASE Abort(x)
    BY <2>1 DEF Abort, EngineStop
  <2>2. CASE Enqueue(x)
    BY <2>2 DEF Enqueue, EngineStart, service, hw
  <2>3. CASE ~Abort(x) /\ ~Enqueue(x)
    <3>1. UNCHANGED <<engine, service, hw>>
      BY <1>1, <2>3 DEF SyncCaller, SubmitSync, LockDesc, Woken, TimedOut,
         Settled, NextPart, Return, SubmitAsync, TransferQueue, QueueCheck,
         QueueRefused
    <3> QED
      BY <3>1 DEF engine, service, hw
  <2> QED
    BY <2>1, <2>2, <2>3
<1>2. CASE Isr
  BY <1>2 DEF Isr
<1>3. CASE ServiceNotRunning \/ ServiceNothing
  BY <1>3 DEF ServiceNotRunning, ServiceNothing, engine, hw
<1>4. CASE ServiceStatus \/ ServiceCount
  BY <1>4 DEF ServiceStatus, ServiceCount
<1>5. CASE ServiceTransfer
  <2>1. hw_busy' \/ ~running'
    BY <1>5, TransferFacts DEF EngineStart, EngineStop
  <2> QED
    BY <2>1
<1>6. CASE HwStep
  <2>1. /\ hw_count \in Nat /\ DescNum[hw_xfer] \in Nat
        /\ hw_count < DescNum[hw_xfer]
    BY <1>6 DEF HwStep, IInv, HwOK, TypeOK, HwTypeOK
  <2>2. hw_count + 1 < DescNum[hw_xfer] \/ hw_count + 1 = DescNum[hw_xfer]
    BY <2>1
  <2>3. CASE hw_count + 1 < DescNum[hw_xfer]
    BY <1>6, <2>3 DEF HwStep
  <2>4. CASE hw_count + 1 = DescNum[hw_xfer]
    BY <1>6, <2>4 DEF HwStep
  <2> QED
    BY <2>2, <2>3, <2>4
<1>7. CASE HwError \/ HwDrain
  BY <1>7 DEF HwError, HwDrain, engine, service
<1>8. CASE Device
  BY <1>8 DEF Device, OfflineFlag, OfflineEngine, OfflineIrq, PciReset,
     OnlineEngine, OnlineIrq, OnlineFlag, EngineStop, engine, service, hw
<1>9. CASE UNCHANGED vars
  BY <1>9 DEF vars
<1> QED
  BY <1>1, <1>2, <1>3, <1>4, <1>5, <1>6, <1>7, <1>8, <1>9
     DEF Next, EngineService, Hardware, Xfers

\* Whenever the driver believes that a stopped engine runs, an interrupt or the
\* work that will notice is on its way: no completion is lost between the
\* clearing read of the status register, the BUSY race, a timeout and a reset.
THEOREM CompletionNoticed == Regime => (Spec => []NoLostCompletion)
<1> SUFFICES ASSUME Regime PROVE Spec => []NoLostCompletion
  OBVIOUS
<1>1. Init => NoLostCompletion
  BY DEF Init, NoLostCompletion
<1>2. IInv /\ NoLostCompletion /\ [Next]_vars => NoLostCompletion'
  BY CompletionStep
<1>3. Spec => []IInv
  BY Invariance
<1> QED
  BY <1>1, <1>2, <1>3, PTL DEF Spec

-----------------------------------------------------------------------------
(***************************************************************************)
(* The refinement of TransferContract.                                     *)
(***************************************************************************)

ContractStep == [Contract!ContractNext]_<<transfer_list, xstate, Finished>>

\* The initial states are those of the contract.
LEMMA RefineInit == Init => Contract!ContractInit
<1> SUFFICES ASSUME Init PROVE Contract!ContractInit
  OBVIOUS
<1>1. transfer_list = <<>> /\ xstate = [x \in Xfers |-> "NEW"]
  BY DEF Init
<1>2. Finished = FALSE
  BY <1>1 DEF Finished
<1> QED
  BY <1>1, <1>2 DEF Contract!ContractInit

\* A step that leaves the queue and the verdicts alone can only finish the
\* oldest transfer, or lose what was moved of it.
LEMMA RefineQuiet ==
  ASSUME UNCHANGED <<transfer_list, xstate>>
  PROVE  ContractStep
<1>1. CASE Finished'
  <2>1. Finished' = TRUE
    BY <1>1 DEF Finished
  <2>2. transfer_list # <<>>
    BY <1>1 DEF Finished
  <2> QED
    BY <2>1, <2>2 DEF ContractStep, Contract!ContractNext, Contract!Finish
<1>2. CASE ~Finished'
  <2>1. Finished' = FALSE
    BY <1>2 DEF Finished
  <2> QED
    BY <2>1 DEF ContractStep, Contract!ContractNext, Contract!Lose
<1> QED
  BY <1>1, <1>2

\* A caller that prepares its transfer for another use has none queued.
LEMMA RefineRenew ==
  ASSUME IInv, NEW x \in Xfers, pc[x] \in {"idle", "mutex_lock", "destroy"},
         xstate' = [xstate EXCEPT ![x] = "NEW"],
         UNCHANGED <<engine, service, hw>>
  PROVE  ContractStep
<1>1. xstate[x] # "SUBMITTED"
  BY DEF IInv, QueueIsLive, Owned
<1>2. UNCHANGED <<transfer_list, Finished>>
  BY DEF Finished, engine, service, hw
<1>3. Contract!Renew(x)
  BY <1>1, <1>2 DEF Contract!Renew
<1> QED
  BY <1>3 DEF ContractStep, Contract!ContractNext

\* transfer_queue: whether or not it starts the engine, the oldest transfer is
\* finished after it exactly if it was before.
LEMMA RefineEnqueue ==
  ASSUME IInv, NEW x \in Xfers, Enqueue(x)
  PROVE  ContractStep
<1> DEFINE l == Append(transfer_list, x)
<1>1. /\ transfer_list \in Seq(Xfers)
      /\ moved \in [Xfers -> Nat]
      /\ NoDup(transfer_list)
      /\ xstate[x] = "NEW" /\ ~InList(transfer_list, x)
      /\ svc = "idle" /\ svc' = "idle"
  BY DEF IInv, TypeOK, EngineTypeOK, HwTypeOK, QueueIsLive, CallerInv, Enqueue,
     Owned, service
<1>2. /\ transfer_list' = l
      /\ xstate' = [xstate EXCEPT ![x] = "SUBMITTED"]
      /\ l # <<>> /\ l \in Seq(Xfers)
      /\ Head(l) \in Xfers
  <2>1. l # <<>> /\ l \in Seq(Xfers)
    BY <1>1, ListType
  <2>2. Head(l) \in Xfers
    BY <2>1, ListType
  <2> QED
    BY <2>1, <2>2 DEF Enqueue
<1>3. CASE running
  <2>1. UNCHANGED <<running, moved>> /\ transfer_list # <<>>
    BY <1>3 DEF Enqueue, IInv, HeadInv, hw
  <2>2. Head(l) = Head(transfer_list)
    BY <1>1, <2>1, ListAppend
  <2>3. Finished' = Finished
    BY <1>1, <1>2, <2>1, <2>2 DEF Finished
  <2> QED
    BY <1>1, <1>2, <2>3 DEF ContractStep, Contract!ContractNext, Contract!Submit
<1>4. CASE ~running
  <2>1. moved' = [moved EXCEPT ![Head(l)] = 0]
    BY <1>4 DEF Enqueue, EngineStart
  <2>2. moved'[Head(l)] = 0 /\ DescNum[Head(l)] # 0
    BY <1>1, <1>2, <2>1
  <2>3. Finished = FALSE /\ Finished' = FALSE
    BY <1>1, <1>2, <1>4, <2>2 DEF Finished
  <2> QED
    BY <1>1, <1>2, <2>3 DEF ContractStep, Contract!ContractNext, Contract!Submit
<1> QED
  BY <1>3, <1>4

\* An abort settles the oldest transfer, which is the caller's own.
LEMMA RefineAbort ==
  ASSUME IInv, Regime, NEW x \in Syncs, Abort(x)
  PROVE  ContractStep
<1>1. /\ transfer_list \in Seq(Xfers) /\ x \in Xfers
      /\ NoDup(transfer_list)
      /\ svc = "idle" /\ svc' = "idle"
      /\ xstate[x] = "SUBMITTED" /\ MayTimeout
      /\ InList(transfer_list, x)
  BY DEF IInv, TypeOK, EngineTypeOK, QueueIsLive, CallerInv, Abort, Xfers
<1>2. Asyncs = {}
  BY <1>1 DEF Regime, Calm
<1>3. transfer_list # <<>>
  BY <1>1 DEF InList
<1>4. Tail(transfer_list) = <<>>
  BY <1>2, <1>3, OneListed
<1>5. x = Head(transfer_list)
  <2>1. InList(Tail(transfer_list), x) <=>
        InList(transfer_list, x) /\ x # Head(transfer_list)
    BY <1>1, <1>3, ListTail
  <2>2. ~InList(Tail(transfer_list), x)
    BY <1>4 DEF InList
  <2> QED
    BY <1>1, <2>1, <2>2
<1>6. /\ transfer_list' = Tail(transfer_list)
      /\ xstate' = [xstate EXCEPT ![Head(transfer_list)] = "ABORTED"]
  BY <1>1, <1>3, <1>5 DEF Abort
<1>7. Finished' = FALSE
  BY <1>4, <1>6 DEF Finished
<1>8. Contract!Settle("ABORTED")
  BY <1>3, <1>6, <1>7 DEF Contract!Settle
<1> QED
  BY <1>8 DEF ContractStep, Contract!ContractNext

\* The bottom half settles the oldest transfer, as completed only if all of it
\* was moved, and the next one, if there is one, starts from nothing.
LEMMA RefineTransfer ==
  ASSUME IInv, Regime, ServiceTransfer
  PROVE  ContractStep
<1> DEFINE h == Head(transfer_list)
           t == Tail(transfer_list)
           v == FinalState(h)
<1>1. /\ transfer_list \in Seq(Xfers) /\ transfer_list # <<>>
      /\ h \in Xfers
      /\ svc = "list" /\ svc' = "idle"
      /\ xstate' = [xstate EXCEPT ![h] = v]
      /\ transfer_list' = t
      /\ v = "COMPLETED" => moved[h] = DescNum[h]
      /\ \/ t # <<>> /\ EngineStart(t)
         \/ t = <<>> /\ EngineStop
  BY TransferFacts
<1>2. /\ v \in {"COMPLETED", "FAILED"}
      /\ v = "COMPLETED" => Finished
  BY <1>1 DEF Finished, FinalState
<1>3. Finished' = FALSE
  <2>1. CASE t # <<>> /\ EngineStart(t)
    <3>1. Head(t) \in Xfers
      BY <1>1, <2>1, ListType
    <3>2. moved' = [moved EXCEPT ![Head(t)] = 0]
      BY <2>1 DEF EngineStart
    <3>3. moved'[Head(t)] = 0 /\ DescNum[Head(t)] # 0
      BY <3>1, <3>2 DEF IInv, TypeOK, HwTypeOK
    <3> QED
      BY <1>1, <3>3 DEF Finished
  <2>2. CASE t = <<>>
    BY <1>1, <2>2 DEF Finished
  <2> QED
    BY <1>1, <2>1, <2>2
<1>4. Contract!Settle(v)
  BY <1>1, <1>2, <1>3 DEF Contract!Settle
<1> QED
  BY <1>2, <1>4 DEF ContractStep, Contract!ContractNext

\* Every step of the engine is a step of the contract, or none.
LEMMA RefineStep == Regime /\ IInv /\ [Next]_vars => ContractStep
<1> SUFFICES ASSUME Regime, IInv, [Next]_vars PROVE ContractStep
  OBVIOUS
<1>1. ASSUME NEW x \in Syncs, SyncCaller(x) PROVE ContractStep
  <2>0. x \in Xfers
    BY DEF Xfers
  <2>1. CASE Abort(x)
    BY <2>1, RefineAbort
  <2>2. CASE LockDesc(x) \/ NextPart(x)
    BY <2>0, <2>2, RefineRenew DEF LockDesc, NextPart, engine
  <2>3. CASE \/ SubmitSync(x) \/ Woken(x) \/ TimedOut(x) \/ Settled(x)
             \/ Return(x)
    <3>1. UNCHANGED <<transfer_list, xstate>>
      BY <2>3 DEF SubmitSync, Woken, TimedOut, Settled, Return, engine
    <3> QED
      BY <3>1, RefineQuiet
  <2> QED
    BY <1>1, <2>1, <2>2, <2>3 DEF SyncCaller
<1>2. ASSUME NEW x \in Asyncs, SubmitAsync(x) PROVE ContractStep
  BY <1>2, RefineRenew DEF SubmitAsync, Xfers
<1>3. ASSUME NEW x \in Xfers, TransferQueue(x) PROVE ContractStep
  <2>1. CASE Enqueue(x)
    BY <2>1, RefineEnqueue
  <2>2. CASE QueueCheck(x) \/ QueueRefused(x)
    <3>1. UNCHANGED <<transfer_list, xstate>>
      BY <2>2 DEF QueueCheck, QueueRefused, engine
    <3> QED
      BY <3>1, RefineQuiet
  <2> QED
    BY <1>3, <2>1, <2>2 DEF TransferQueue
<1>4. CASE ServiceTransfer
  BY <1>4, RefineTransfer
<1>5. CASE \/ Isr \/ ServiceNotRunning \/ ServiceStatus \/ ServiceNothing
           \/ ServiceCount
  <2>1. UNCHANGED <<transfer_list, xstate>>
    BY <1>5 DEF Isr, ServiceNotRunning, ServiceStatus, ServiceNothing,
       ServiceCount, callers, engine
  <2> QED
    BY <2>1, RefineQuiet
<1>6. CASE Hardware
  <2>1. UNCHANGED <<transfer_list, xstate>>
    BY <1>6 DEF Hardware, HwStep, HwError, HwDrain, callers, engine
  <2> QED
    BY <2>1, RefineQuiet
<1>7. CASE Device
  <2>1. UNCHANGED <<transfer_list, xstate>>
    BY <1>7 DEF Device, OfflineFlag, OfflineEngine, OfflineIrq, PciReset,
       OnlineEngine, OnlineIrq, OnlineFlag, callers, engine
  <2> QED
    BY <2>1, RefineQuiet
<1>8. CASE UNCHANGED vars
  BY <1>8, RefineQuiet DEF vars
<1> QED
  BY <1>1, <1>2, <1>3, <1>4, <1>5, <1>6, <1>7, <1>8 DEF Next, EngineService

\* The engine keeps the contract its users rely on, whenever timeouts, resets
\* and the BUSY race are kept away from async callers: transfers are served in
\* the order of transfer_queue, each is settled once and only while it is the
\* oldest, and it is reported completed only after the hardware moved it.
THEOREM Refinement == Regime => (Spec => ImplementsContract)
<1> SUFFICES ASSUME Regime PROVE Spec => ImplementsContract
  OBVIOUS
<1>1. Init => Contract!ContractInit
  BY RefineInit
<1>2. IInv /\ [Next]_vars => [Contract!ContractNext]_(Contract!contractVars)
  BY RefineStep DEF ContractStep, Contract!contractVars
<1>3. Spec => []IInv
  BY Invariance
<1> QED
  BY <1>1, <1>2, <1>3, PTL DEF Spec, ImplementsContract, Contract!ContractSpec

\* The verdict on a transfer is never overwritten before its caller starts a new
\* transfer.  It follows from the contract: only a NEW transfer is submitted,
\* and what is settled is the head of the list, which is SUBMITTED.
THEOREM VerdictFinal == Regime => (Spec => VerdictIsFinal)
<1> SUFFICES ASSUME Regime PROVE Spec => VerdictIsFinal
  OBVIOUS
<1> DEFINE Kept(x) == xstate[x] \in {"COMPLETED", "FAILED", "ABORTED"} =>
                        xstate'[x] = xstate[x] \/ xstate'[x] = "NEW"
<1>1. IInv /\ [Next]_vars => \A x \in Xfers : Kept(x)
  <2> SUFFICES ASSUME IInv, [Next]_vars, NEW x \in Xfers PROVE Kept(x)
    OBVIOUS
  <2>1. ContractStep
    BY RefineStep
  <2>2. xstate \in [Xfers -> TransferState] /\ transfer_list \in Seq(Xfers)
    BY DEF IInv, TypeOK, CallersTypeOK, EngineTypeOK
  <2>3. ASSUME NEW y \in Xfers, Contract!Renew(y) \/ Contract!Submit(y)
        PROVE  Kept(x)
    BY <2>2, <2>3 DEF Contract!Renew, Contract!Submit
  <2>4. CASE Contract!Finish \/ Contract!Lose
    BY <2>4 DEF Contract!Finish, Contract!Lose
  <2>5. ASSUME NEW v, Contract!Settle(v) PROVE Kept(x)
    <3>1. transfer_list # <<>> /\ xstate' = [xstate EXCEPT ![Head(transfer_list)] = v]
      BY <2>5 DEF Contract!Settle
    <3>2. Head(transfer_list) \in Xfers /\ InList(transfer_list, Head(transfer_list))
      BY <2>2, <3>1, ListType, ListHead
    <3>3. xstate[Head(transfer_list)] = "SUBMITTED"
      BY <3>2 DEF IInv, QueueIsLive
    <3> QED
      BY <2>2, <3>1, <3>2, <3>3
  <2> QED
    BY <2>1, <2>3, <2>4, <2>5 DEF ContractStep, Contract!ContractNext
<1>2. Spec => []IInv
  BY Invariance
<1> QED
  BY <1>1, <1>2, PTL DEF Spec, VerdictIsFinal

-----------------------------------------------------------------------------
(***************************************************************************)
(* Failures, on an engine that nothing disturbs.                           *)
(***************************************************************************)

\* Where the blame for a stop is kept: in the hardware until the status is
\* read, in engine->status until the transfer is settled.
FailInv ==
  /\ hw_err => hw_event /\ struck[hw_xfer]
  /\ running /\ ~hw_busy => hw_err \/ hw_count = DescNum[hw_xfer]
  /\ svc # "idle" => IF status_err THEN struck[hw_xfer]
                                   ELSE hw_count = DescNum[hw_xfer]
  /\ svc = "list" => pdesc = hw_count
  /\ FailedMeansError

\* A caller's step takes nobody's blame away: it restarts only an engine that
\* has reported nothing, on a transfer that is SUBMITTED.
LEMMA FailCallers ==
  ASSUME Calm, IInv, IInv', FailInv, NEW x \in Xfers,
         SyncCaller(x) \/ SubmitAsync(x) \/ TransferQueue(x)
  PROVE  FailInv'
<1>0. /\ xstate \in [Xfers -> TransferState]
      /\ struck \in [Xfers -> BOOLEAN]
  BY DEF IInv, TypeOK, CallersTypeOK, HwTypeOK
<1>1. CASE Abort(x)
  BY <1>1 DEF Calm, Abort, IInv, CallerInv
<1>2. CASE Enqueue(x) /\ running
  BY <1>0, <1>2 DEF Enqueue, FailInv, FailedMeansError, service, hw
<1>3. CASE Enqueue(x) /\ ~running
  <2> DEFINE l == Append(transfer_list, x)
  <2>1. /\ EngineStart(l) /\ transfer_list' = l
        /\ xstate' = [xstate EXCEPT ![x] = "SUBMITTED"]
        /\ svc' = "idle"
    BY <1>3 DEF Enqueue, service
  <2>2. ~hw_err /\ ~hw_err' /\ running' /\ hw_busy'
    BY <1>3, <2>1 DEF EngineStart, FailInv, IInv, CalmInv
  <2>3. Head(l) \in Xfers /\ xstate'[Head(l)] = "SUBMITTED"
    <3>1. l \in Seq(Xfers) /\ l # <<>>
      BY <2>1, <2>2 DEF IInv, HeadInv, TypeOK, EngineTypeOK
    <3>2. Head(l) \in Xfers /\ InList(l, Head(l))
      BY <3>1, ListType, ListHead
    <3> QED
      BY <2>1, <3>2 DEF IInv, QueueIsLive
  <2>4. struck' = [struck EXCEPT ![Head(l)] = FALSE]
    BY <2>1 DEF EngineStart
  <2>5. FailedMeansError'
    BY <1>0, <2>1, <2>3, <2>4 DEF FailInv, FailedMeansError
  <2> QED
    BY <2>1, <2>2, <2>5 DEF FailInv
<1>4. CASE ~Abort(x) /\ ~Enqueue(x)
  <2>1. UNCHANGED <<engine, service, hw>>
    BY <1>4 DEF SyncCaller, SubmitSync, LockDesc, Woken, TimedOut,
       Settled, NextPart, Return, SubmitAsync, TransferQueue, QueueCheck,
       QueueRefused
  <2>2. xstate' = xstate \/ xstate' = [xstate EXCEPT ![x] = "NEW"]
    BY <1>4 DEF SyncCaller, SubmitSync, LockDesc, Woken, TimedOut,
       Settled, NextPart, Return, SubmitAsync, TransferQueue, QueueCheck,
       QueueRefused
  <2>3. FailedMeansError'
    BY <1>0, <2>1, <2>2 DEF FailInv, FailedMeansError, hw
  <2> QED
    BY <2>1, <2>3 DEF FailInv, engine, service, hw
<1> QED
  BY <1>1, <1>2, <1>3, <1>4

\* The bottom half passes the blame from the status register to the verdict.
LEMMA FailService ==
  ASSUME Calm, IInv, IInv', FailInv, EngineService
  PROVE  FailInv'
<1>0. /\ xstate \in [Xfers -> TransferState]
      /\ struck \in [Xfers -> BOOLEAN]
      /\ hw_err \in BOOLEAN /\ status_err \in BOOLEAN
      /\ hw_count \in 0 .. U32 - 1
  BY DEF IInv, TypeOK, CallersTypeOK, HwTypeOK, ServiceTypeOK
<1>1. CASE ServiceNotRunning
  BY <1>1 DEF ServiceNotRunning, IInv, CalmInv
<1>2. CASE ServiceStatus
  <2>1. /\ svc' = "count" /\ ~hw_err' /\ status_err' = hw_err
        /\ UNCHANGED <<xstate, struck, hw_xfer, hw_count>>
        /\ running /\ ~hw_busy
    BY <1>2 DEF ServiceStatus, IInv, CalmInv, callers
  <2>2. ~running'
    BY <2>1 DEF IInv, CalmInv
  <2>3. IF status_err' THEN struck[hw_xfer] ELSE hw_count = DescNum[hw_xfer]
    BY <2>1 DEF FailInv
  <2> QED
    BY <2>1, <2>2, <2>3 DEF FailInv, FailedMeansError
<1>3. CASE ServiceNothing
  <2>1. /\ svc' = "idle" /\ UNCHANGED <<callers, engine, hw>> /\ svc # "idle"
    BY <1>3 DEF ServiceNothing, ServiceDone
  <2>2. ~running'
    BY <2>1 DEF IInv, CalmInv, engine
  <2> QED
    BY <2>1, <2>2 DEF FailInv, FailedMeansError, callers, hw
<1>4. CASE ServiceCount
  <2>1. desc_dequeued = 0
    BY <1>4 DEF ServiceCount, IInv, HeadInv
  <2>2. pdesc' = hw_count
    BY <1>0, <1>4, <2>1, ModAdd DEF ServiceCount, NotDequeued
  <2> QED
    BY <1>4, <2>2 DEF ServiceCount, FailInv, FailedMeansError, callers, engine, hw
<1>5. CASE ServiceTransfer
  <2> DEFINE h == Head(transfer_list)
             t == Tail(transfer_list)
             v == FinalState(h)
  <2>1. /\ transfer_list \in Seq(Xfers) /\ transfer_list # <<>>
        /\ h \in Xfers
        /\ svc = "list" /\ svc' = "idle"
        /\ xstate' = [xstate EXCEPT ![h] = v]
        /\ transfer_list' = t
        /\ v = "COMPLETED" => moved[h] = DescNum[h]
        /\ \/ t # <<>> /\ EngineStart(t)
           \/ t = <<>> /\ EngineStop
    <3>1. Regime
      BY DEF Regime
    <3> QED
      BY <1>5, <3>1, TransferFacts
  <2>2. hw_xfer = h /\ ~running /\ ~hw_err
    BY <2>1 DEF IInv, HeadInv, CalmInv, FailInv
  <2>3. v = "FAILED" => struck[h]
    <3>1. CASE status_err
      BY <2>1, <2>2, <3>1 DEF FailInv
    <3>2. CASE ~status_err
      <4>1. pdesc = DescNum[h] /\ DescNum[h] \in Nat
        BY <2>1, <2>2, <3>2 DEF FailInv
      <4> QED
        BY <3>2, <4>1 DEF FinalState
    <3> QED
      BY <3>1, <3>2
  <2>4. CASE t # <<>> /\ EngineStart(t)
    <3>1. struck' = [struck EXCEPT ![Head(t)] = FALSE] /\ ~hw_err' /\ hw_busy'
      BY <2>2, <2>4 DEF EngineStart
    <3>2. Head(t) \in Xfers /\ InList(t, Head(t))
      BY <2>1, <2>4, ListType, ListHead
    <3>3. Head(t) # h /\ xstate'[Head(t)] = "SUBMITTED"
      BY <1>0, <2>1, <3>2, ListTail DEF IInv, QueueIsLive
    <3>4. FailedMeansError'
      BY <1>0, <2>1, <2>3, <3>1, <3>2, <3>3 DEF FailInv, FailedMeansError
    <3> QED
      BY <2>1, <3>1, <3>4 DEF FailInv
  <2>5. CASE t = <<>> /\ EngineStop
    <3>1. UNCHANGED <<struck, hw_err>> /\ ~running'
      BY <1>5, <2>1, <2>5 DEF ServiceTransfer, FinalTransfer, Resume, EngineStop,
         hw
    <3>2. FailedMeansError'
      BY <1>0, <2>1, <2>3, <3>1 DEF FailInv, FailedMeansError
    <3> QED
      BY <2>1, <2>2, <3>1, <3>2 DEF FailInv
  <2> QED
    BY <2>1, <2>4, <2>5
<1> QED
  BY <1>1, <1>2, <1>3, <1>4, <1>5 DEF EngineService

\* Every step keeps the blame where it belongs.
LEMMA FailStep ==
  ASSUME Calm, IInv, FailInv, [Next]_vars
  PROVE  FailInv'
<1>0. IInv'
  BY InvStep DEF Regime
<1>1. ASSUME NEW x \in Xfers, SyncCaller(x) \/ SubmitAsync(x) \/ TransferQueue(x)
      PROVE  FailInv'
  BY <1>0, <1>1, FailCallers
<1>2. CASE EngineService
  BY <1>0, <1>2, FailService
<1>3. CASE Isr
  BY <1>3 DEF Isr, FailInv, FailedMeansError, callers, engine, hw
<1>4. CASE HwStep
  <2>1. /\ hw_count \in Nat /\ hw_xfer \in Xfers
        /\ hw_count < DescNum[hw_xfer]
        /\ ~hw_err /\ running /\ svc = "idle"
    BY <1>4 DEF HwStep, IInv, HwOK, TypeOK, HwTypeOK, HeadInv, CalmInv, FailInv
  <2>2. hw_busy' \/ hw_count' = DescNum[hw_xfer]
    <3>1. DescNum[hw_xfer] \in Nat
      BY <2>1
    <3>2. CASE hw_count + 1 < DescNum[hw_xfer]
      BY <1>4, <3>2 DEF HwStep
    <3>3. CASE hw_count + 1 = DescNum[hw_xfer]
      BY <1>4, <3>3 DEF HwStep
    <3> QED
      BY <2>1, <3>1, <3>2, <3>3
  <2> QED
    BY <1>4, <2>1, <2>2
       DEF HwStep, FailInv, FailedMeansError, callers, engine, service
<1>5. CASE HwError
  <2>1. hw_xfer \in Xfers /\ running /\ svc = "idle"
    BY <1>5 DEF HwError, IInv, HwOK, HeadInv, CalmInv
  <2>2. struck \in [Xfers -> BOOLEAN] /\ struck' = [struck EXCEPT ![hw_xfer] = TRUE]
    BY <1>5 DEF HwError, IInv, TypeOK, HwTypeOK
  <2> QED
    BY <1>5, <2>1, <2>2
       DEF HwError, FailInv, FailedMeansError, callers, engine, service
<1>6. CASE HwDrain
  BY <1>6 DEF HwDrain, IInv, CalmInv
<1>7. CASE Device
  <2>1. devstep = "online" /\ ~MayOffline
    BY DEF Calm, IInv, CalmInv
  <2> QED
    BY <1>7, <2>1 DEF Device, OfflineFlag, OfflineEngine, OfflineIrq, PciReset,
       OnlineEngine, OnlineIrq, OnlineFlag
<1>8. CASE UNCHANGED vars
  BY <1>8 DEF vars, FailInv, FailedMeansError
<1> QED
  BY <1>1, <1>2, <1>3, <1>4, <1>5, <1>6, <1>7, <1>8 DEF Next, Hardware, Xfers

\* Without timeouts, resets and the BUSY race a transfer is reported FAILED only
\* if a hardware error hit its own run: the stale interrupt that fails an
\* innocent transfer needs one of them.
THEOREM FailedIsError == Calm => (Spec => []FailedMeansError)
<1> SUFFICES ASSUME Calm PROVE Spec => []FailedMeansError
  OBVIOUS
<1>1. Init => FailInv
  BY DEF Init, FailInv, FailedMeansError
<1>2. IInv /\ FailInv /\ [Next]_vars => FailInv'
  BY FailStep
<1>3. Spec => []IInv
  BY Invariance DEF Regime
<1>4. FailInv => FailedMeansError
  BY DEF FailInv
<1> QED
  BY <1>1, <1>2, <1>3, <1>4, PTL DEF Spec
=============================================================================
