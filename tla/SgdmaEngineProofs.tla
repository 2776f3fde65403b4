-------------------------- MODULE SgdmaEngineProofs --------------------------
(***************************************************************************)
(* Theorems about SgdmaEngine, for every set of callers, every number of   *)
(* descriptors and every u32 modulus.                                      *)
(***************************************************************************)
EXTENDS SgdmaEngine, SequenceTheorems, TLAPS

TypeInv == TypeOK /\ HwOK

USE CallersAssumption, DescAssumption, U32Assumption, FlagsAssumption
USE DEF DequeuedAtStart, DescLockFree, Accepting, QueuedLast, Unsettled,
        AbortedList, PartsLeft, BusyReadings, NotDequeued, Idles, ListDel

-----------------------------------------------------------------------------
(***************************************************************************)
(* Type correctness.                                                       *)
(***************************************************************************)

\* u32 arithmetic stays within its width.
LEMMA ModType == /\ \A a \in Nat : a % U32 \in 0 .. U32 - 1
                 /\ 0 \in 0 .. U32 - 1
  OBVIOUS

\* Lists of transfers stay lists of transfers.
LEMMA ListType ==
  ASSUME NEW S, NEW list \in Seq(S)
  PROVE  /\ \A x \in S : /\ Append(list, x) \in Seq(S)
                         /\ Append(list, x) # <<>>
         /\ list # <<>> => Head(list) \in S /\ Tail(list) \in Seq(S)
  BY AppendProperties, HeadTailProperties

\* Every initial state is well typed.
LEMMA TypeInit == Init => TypeInv
<1> SUFFICES ASSUME Init PROVE TypeInv
  OBVIOUS
<1>1. CallersTypeOK
  BY DEF Init, CallersTypeOK, TransferState
<1>2. EngineTypeOK
  BY ModType, EmptySeq DEF Init, EngineTypeOK
<1>3. ServiceTypeOK /\ DeviceTypeOK
  BY ModType DEF Init, ServiceTypeOK, DeviceTypeOK
<1>4. HwTypeOK
  BY ModType DEF Init, HwTypeOK
<1>5. HwOK
  BY DEF Init, HwOK
<1>6. QED
  BY <1>1, <1>2, <1>3, <1>4, <1>5 DEF TypeInv, TypeOK

\* A step that leaves a component alone leaves its types alone.
LEMMA TypeFrame ==
  ASSUME TypeInv
  PROVE  /\ UNCHANGED callers => CallersTypeOK'
         /\ UNCHANGED engine => EngineTypeOK'
         /\ UNCHANGED service => ServiceTypeOK'
         /\ UNCHANGED device => DeviceTypeOK'
         /\ UNCHANGED hw => HwTypeOK' /\ HwOK'
<1> USE DEF TypeInv, TypeOK
<1>1. UNCHANGED callers => CallersTypeOK'
  BY DEF callers, CallersTypeOK
<1>2. UNCHANGED engine => EngineTypeOK'
  BY DEF engine, EngineTypeOK
<1>3. UNCHANGED service => ServiceTypeOK'
  BY DEF service, ServiceTypeOK
<1>4. UNCHANGED device => DeviceTypeOK'
  BY DEF device, DeviceTypeOK
<1>5. UNCHANGED hw => HwTypeOK' /\ HwOK'
  BY DEF hw, HwTypeOK, HwOK
<1>6. QED
  BY <1>1, <1>2, <1>3, <1>4, <1>5

\* Starting the engine on the head of a list of transfers keeps the types.
LEMMA TypeStart ==
  ASSUME TypeInv, NEW list \in Seq(Xfers), list # <<>>, EngineStart(list),
         transfer_list' \in Seq(Xfers)
  PROVE  EngineTypeOK' /\ HwTypeOK' /\ HwOK'
<1> USE DEF TypeInv, TypeOK
<1>1. Head(list) \in Xfers
  BY ListType
<1>2. EngineTypeOK'
  BY DEF EngineStart, EngineTypeOK
<1>3. HwTypeOK'
  BY <1>1 DEF EngineStart, StillInFlight, HwTypeOK
<1>4. HwOK'
  BY <1>1 DEF EngineStart, HwTypeOK, HwOK
<1>5. QED
  BY <1>2, <1>3, <1>4

\* Stopping the engine keeps the types.
LEMMA TypeStop ==
  ASSUME TypeInv, EngineStop,
         UNCHANGED <<hw_xfer, hw_count, moved, struck>>,
         hw_err' \in BOOLEAN, hw_event' \in BOOLEAN
  PROVE  running' \in BOOLEAN /\ HwTypeOK' /\ HwOK'
<1>1. running' \in BOOLEAN
  BY DEF EngineStop
<1>2. HwTypeOK'
  BY DEF EngineStop, StillInFlight, HwTypeOK, TypeInv, TypeOK
<1>3. HwOK'
  BY DEF EngineStop, HwOK, HwTypeOK, TypeInv, TypeOK
<1>4. QED
  BY <1>1, <1>2, <1>3

\* The verdict on the transfer at the head changes no type.
LEMMA TypeSettle ==
  ASSUME CallersTypeOK, NEW x \in Xfers, NEW s \in TransferState, Settle(x, s)
  PROVE  CallersTypeOK'
  BY DEF CallersTypeOK, Settle

\* engine_service_resume keeps the engine's and the hardware's types.
LEMMA TypeResume ==
  ASSUME TypeInv, NEW list \in Seq(Xfers), NEW stopped \in BOOLEAN,
         NEW dequeued \in 0 .. U32 - 1, Resume(list, stopped, dequeued),
         transfer_list' \in Seq(Xfers)
  PROVE  EngineTypeOK' /\ HwTypeOK' /\ HwOK'
<1> USE DEF TypeInv, TypeOK
<1>1. CASE stopped /\ list # <<>>
  BY <1>1, TypeStart DEF Resume
<1>2. CASE ~(stopped /\ list # <<>>)
  <2>1. /\ shutdown' \in SUBSET {"REQUEST", "IDLE"}
        /\ desc_dequeued' \in 0 .. U32 - 1
        /\ UNCHANGED <<hw_xfer, hw_count, hw_err, hw_event, moved, struck>>
        /\ \/ EngineStop
           \/ UNCHANGED <<running, hw_busy, hw_inflight>>
    BY <1>2 DEF Resume, EngineTypeOK
  <2>2. running' \in BOOLEAN /\ HwTypeOK' /\ HwOK'
    <3>1. CASE EngineStop
      BY <2>1, <3>1, TypeStop DEF HwTypeOK
    <3>2. CASE UNCHANGED <<running, hw_busy, hw_inflight>>
      BY <2>1, <3>2 DEF HwTypeOK, HwOK, EngineTypeOK
    <3> QED
      BY <2>1, <3>1, <3>2
  <2> QED
    BY <2>1, <2>2 DEF EngineTypeOK
<1> QED
  BY <1>1, <1>2

\* One turn of engine_service_transfer_list, or the final transfer, keeps them.
LEMMA TypeTransfer == TypeInv /\ ServiceTransfer => TypeInv'
<1> SUFFICES ASSUME TypeInv, ServiceTransfer PROVE TypeInv'
  OBVIOUS
<1> USE DEF TypeInv, TypeOK
<1> DEFINE h == Head(transfer_list)
<1>1. transfer_list # <<>> =>
        /\ h \in Xfers
        /\ Tail(transfer_list) \in Seq(Xfers)
        /\ DescNum[h] \in Nat
        /\ (desc_dequeued + DescNum[h]) % U32 \in 0 .. U32 - 1
  <2>1. transfer_list # <<>> => h \in Xfers /\ Tail(transfer_list) \in Seq(Xfers)
    BY ListType DEF EngineTypeOK
  <2>2. ASSUME h \in Xfers
        PROVE  DescNum[h] \in Nat /\ desc_dequeued + DescNum[h] \in Nat
    BY <2>2 DEF EngineTypeOK
  <2> QED
    BY <2>1, <2>2, ModType
<1>2. CASE transfer_list # <<>> /\ pdesc > DescNum[h]
  <2>1. CallersTypeOK'
    BY <1>1, <1>2, TypeSettle DEF ServiceTransfer, TransferState
  <2>2. EngineTypeOK'
    BY <1>1, <1>2 DEF ServiceTransfer, EngineTypeOK
  <2>3. ServiceTypeOK'
    BY <1>1, <1>2 DEF ServiceTransfer, ServiceTypeOK
  <2>4. UNCHANGED <<device, hw>>
    BY <1>2 DEF ServiceTransfer, device, hw
  <2> QED
    BY <2>1, <2>2, <2>3, <2>4, TypeFrame
<1>3. CASE ~(transfer_list # <<>> /\ pdesc > DescNum[h])
  <2>1. FinalTransfer(transfer_list) /\ ServiceDone /\ UNCHANGED pdesc
    BY <1>3 DEF ServiceTransfer
  <2>2. ServiceTypeOK' /\ DeviceTypeOK'
    BY <2>1 DEF ServiceTransfer, ServiceDone, ServiceTypeOK, DeviceTypeOK
  <2>3. CallersTypeOK' /\ EngineTypeOK' /\ HwTypeOK' /\ HwOK'
    <3>1. CASE transfer_list = <<>>
      BY <2>1, <3>1, TypeResume, TypeFrame
      DEF FinalTransfer, EngineTypeOK
    <3>2. CASE transfer_list # <<>>
      <4>1. CallersTypeOK'
        BY <2>1, <3>2, <1>1, TypeSettle
        DEF FinalTransfer, FinalState, TransferState
      <4>2. EngineTypeOK' /\ HwTypeOK' /\ HwOK'
        BY <2>1, <3>2, <1>1, TypeResume
        DEF FinalTransfer, EngineTypeOK, ServiceTypeOK
      <4> QED
        BY <4>1, <4>2
    <3> QED
      BY <3>1, <3>2
  <2> QED
    BY <2>2, <2>3
<1> QED
  BY <1>2, <1>3

\* Every step keeps the types and the place of the hardware in its transfer.
LEMMA TypeStep == TypeInv /\ [Next]_vars => TypeInv'
<1> SUFFICES ASSUME TypeInv, [Next]_vars PROVE TypeInv'
  OBVIOUS
<1> USE DEF TypeInv, TypeOK
<1>1. ASSUME NEW x \in Syncs, SubmitSync(x) PROVE TypeInv'
  <2>1. CallersTypeOK'
    BY <1>1 DEF SubmitSync, CallersTypeOK, TransferState, Xfers
  <2>2. UNCHANGED <<engine, service, device, hw>>
    BY <1>1 DEF SubmitSync, engine, service, device, hw
  <2> QED
    BY <2>1, <2>2, TypeFrame
<1>2. ASSUME NEW x \in Syncs, LockDesc(x) PROVE TypeInv'
  <2>1. CallersTypeOK'
    BY <1>2 DEF LockDesc, CallersTypeOK, TransferState, Xfers
  <2>2. UNCHANGED <<engine, service, device, hw>>
    BY <1>2 DEF LockDesc, engine, service, device, hw
  <2> QED
    BY <2>1, <2>2, TypeFrame
<1>3. ASSUME NEW x \in Syncs, Woken(x) PROVE TypeInv'
  <2>1. CallersTypeOK'
    BY <1>3 DEF Woken, CallersTypeOK, TransferState, Xfers
  <2>2. UNCHANGED <<engine, service, device, hw>>
    BY <1>3 DEF Woken, engine, service, device, hw
  <2> QED
    BY <2>1, <2>2, TypeFrame
<1>4. ASSUME NEW x \in Syncs, TimedOut(x) PROVE TypeInv'
  <2>1. CallersTypeOK'
    BY <1>4 DEF TimedOut, CallersTypeOK, TransferState, Xfers
  <2>2. UNCHANGED <<engine, service, device, hw>>
    BY <1>4 DEF TimedOut, engine, service, device, hw
  <2> QED
    BY <2>1, <2>2, TypeFrame
<1>5. ASSUME NEW x \in Syncs, Settled(x) PROVE TypeInv'
  <2>1. CallersTypeOK'
    BY <1>5 DEF Settled, CallersTypeOK, TransferState, Xfers
  <2>2. UNCHANGED <<engine, service, device, hw>>
    BY <1>5 DEF Settled, engine, service, device, hw
  <2> QED
    BY <2>1, <2>2, TypeFrame
<1>6. ASSUME NEW x \in Syncs, Abort(x) PROVE TypeInv'
  <2>1. CallersTypeOK'
    BY <1>6 DEF Abort, CallersTypeOK, TransferState, Xfers
  <2>2. transfer_list' \in Seq(Xfers)
    BY <1>6, ListType DEF Abort, EngineTypeOK
  <2>3. running' \in BOOLEAN /\ HwTypeOK' /\ HwOK'
    BY <1>6, TypeStop DEF Abort, HwTypeOK
  <2>4. EngineTypeOK'
    BY <1>6, <2>2, <2>3 DEF Abort, EngineTypeOK
  <2>5. ServiceTypeOK'
    BY <1>6 DEF Abort, ServiceTypeOK, HwTypeOK
  <2>6. UNCHANGED device
    BY <1>6 DEF Abort, device
  <2> QED
    BY <2>1, <2>3, <2>4, <2>5, <2>6, TypeFrame
<1>7. ASSUME NEW x \in Syncs, NextPart(x) PROVE TypeInv'
  <2>1. CallersTypeOK'
    BY <1>7 DEF NextPart, CallersTypeOK, TransferState, Xfers
  <2>2. UNCHANGED <<engine, service, device, hw>>
    BY <1>7 DEF NextPart, engine, service, device, hw
  <2> QED
    BY <2>1, <2>2, TypeFrame
<1>8. ASSUME NEW x \in Syncs, Return(x) PROVE TypeInv'
  <2>1. CallersTypeOK'
    BY <1>8 DEF Return, Release, CallersTypeOK, TransferState, Xfers
  <2>2. UNCHANGED <<engine, service, device, hw>>
    BY <1>8 DEF Return, Release, engine, service, device, hw
  <2> QED
    BY <2>1, <2>2, TypeFrame
<1>9. ASSUME NEW x \in Asyncs, SubmitAsync(x) PROVE TypeInv'
  <2>1. CallersTypeOK'
    BY <1>9 DEF SubmitAsync, CallersTypeOK, TransferState, Xfers
  <2>2. UNCHANGED <<engine, service, device, hw>>
    BY <1>9 DEF SubmitAsync, engine, service, device, hw
  <2> QED
    BY <2>1, <2>2, TypeFrame
<1>10. ASSUME NEW x \in Xfers, QueueCheck(x) PROVE TypeInv'
  <2>1. CallersTypeOK'
    BY <1>10 DEF QueueCheck, Release, CallersTypeOK, TransferState, Xfers
  <2>2. UNCHANGED <<engine, service, device, hw>>
    BY <1>10 DEF QueueCheck, Release, engine, service, device, hw
  <2> QED
    BY <2>1, <2>2, TypeFrame
<1>11. ASSUME NEW x \in Xfers, QueueRefused(x) PROVE TypeInv'
  <2>1. CallersTypeOK'
    BY <1>11 DEF QueueRefused, Release, CallersTypeOK, TransferState, Xfers
  <2>2. UNCHANGED <<engine, service, device, hw>>
    BY <1>11 DEF QueueRefused, Release, engine, service, device, hw
  <2> QED
    BY <2>1, <2>2, TypeFrame
<1>12. ASSUME NEW x \in Xfers, Enqueue(x) PROVE TypeInv'
  <2>1. CallersTypeOK'
    BY <1>12 DEF Enqueue, CallersTypeOK, TransferState
  <2>2. /\ Append(transfer_list, x) \in Seq(Xfers)
        /\ Append(transfer_list, x) # <<>>
        /\ transfer_list' = Append(transfer_list, x)
    BY <1>12, ListType DEF Enqueue, EngineTypeOK
  <2>3. UNCHANGED <<service, device>>
    BY <1>12 DEF Enqueue, service, device
  <2>4. CASE running
    <3>1. EngineTypeOK' /\ UNCHANGED hw
      BY <1>12, <2>2, <2>4 DEF Enqueue, EngineTypeOK, hw
    <3> QED
      BY <3>1, TypeFrame, <2>1, <2>3
  <2>5. CASE ~running
    BY <1>12, <2>1, <2>2, <2>3, <2>5, TypeStart, TypeFrame DEF Enqueue
  <2> QED
    BY <2>4, <2>5
<1>13. CASE Isr
  <2>1. ServiceTypeOK'
    BY <1>13 DEF Isr, ServiceTypeOK, HwTypeOK
  <2>2. DeviceTypeOK'
    BY <1>13 DEF Isr, DeviceTypeOK
  <2>3. UNCHANGED <<callers, engine, hw>>
    BY <1>13 DEF Isr, callers, engine, hw
  <2> QED
    BY <2>1, <2>2, <2>3, TypeFrame
<1>14. CASE ServiceNotRunning
  <2>1. ServiceTypeOK'
    BY <1>14 DEF ServiceNotRunning, ServiceDone, ServiceTypeOK, HwTypeOK
  <2>2. DeviceTypeOK'
    BY <1>14 DEF ServiceNotRunning, ServiceDone, DeviceTypeOK
  <2>3. HwTypeOK' /\ HwOK'
    BY <1>14 DEF ServiceNotRunning, ServiceDone, HwTypeOK, HwOK
  <2>4. UNCHANGED <<callers, engine>>
    BY <1>14 DEF ServiceNotRunning, ServiceDone, callers, engine
  <2> QED
    BY <2>1, <2>2, <2>3, <2>4, TypeFrame
<1>15. CASE ServiceStatus
  <2>1. running' \in BOOLEAN /\ HwTypeOK' /\ HwOK'
    <3>1. CASE UNCHANGED <<running, hw_busy, hw_inflight>>
      BY <1>15, <3>1 DEF ServiceStatus, HwTypeOK, HwOK, EngineTypeOK
    <3>2. CASE EngineStop
      BY <1>15, <3>2, TypeStop DEF ServiceStatus
    <3> QED
      BY <1>15, <3>1, <3>2 DEF ServiceStatus
  <2>2. EngineTypeOK'
    BY <1>15, <2>1 DEF ServiceStatus, EngineTypeOK
  <2>3. ServiceTypeOK'
    BY <1>15 DEF ServiceStatus, ServiceTypeOK, HwTypeOK
  <2>4. UNCHANGED <<callers, device>>
    BY <1>15 DEF ServiceStatus, callers, device
  <2> QED
    BY <2>1, <2>2, <2>3, <2>4, TypeFrame
<1>16. CASE ServiceNothing
  <2>1. ServiceTypeOK'
    BY <1>16 DEF ServiceNothing, ServiceDone, ServiceTypeOK, HwTypeOK
  <2>2. DeviceTypeOK'
    BY <1>16 DEF ServiceNothing, ServiceDone, DeviceTypeOK
  <2>3. UNCHANGED <<callers, engine, hw>>
    BY <1>16 DEF ServiceNothing, ServiceDone, callers, engine, hw
  <2> QED
    BY <2>1, <2>2, <2>3, TypeFrame
<1>17. CASE ServiceCount
  <2>1. U32 + hw_count - desc_dequeued \in Nat
    BY DEF HwTypeOK, EngineTypeOK
  <2>2. pdesc' \in 0 .. U32 - 1
    BY <1>17, <2>1, ModType DEF ServiceCount
  <2>3. ServiceTypeOK'
    BY <1>17, <2>2 DEF ServiceCount, ServiceTypeOK
  <2>4. UNCHANGED <<callers, engine, device, hw>>
    BY <1>17 DEF ServiceCount, callers, engine, device, hw
  <2> QED
    BY <2>3, <2>4, TypeFrame
<1>18. CASE ServiceTransfer
  BY <1>18, TypeTransfer
<1>19. CASE HwStep
  <2>1. HwTypeOK' /\ HwOK'
    <3>1. /\ hw_busy /\ hw_xfer \in Xfers /\ DescNum[hw_xfer] \in Nat
          /\ hw_count \in Nat /\ hw_count + 1 <= DescNum[hw_xfer]
          /\ moved[hw_xfer] = hw_count
      BY <1>19 DEF HwStep, HwTypeOK, HwOK
    <3>2. hw_count' \in 0 .. U32 - 1
      BY <1>19, <3>1 DEF HwStep
    <3>3. /\ moved' \in [Xfers -> Nat]
          /\ hw_busy' \in BOOLEAN
          /\ hw_event' \in BOOLEAN
      BY <1>19, <3>1 DEF HwStep, HwTypeOK
    <3>4. HwOK'
      BY <1>19, <3>1 DEF HwStep, HwTypeOK, HwOK
    <3> QED
      BY <1>19, <3>2, <3>3, <3>4 DEF HwStep, HwTypeOK
  <2>2. UNCHANGED <<callers, engine, service, device>>
    BY <1>19 DEF HwStep, callers, engine, service, device
  <2> QED
    BY <2>1, <2>2, TypeFrame
<1>20. CASE HwError
  <2>1. HwTypeOK' /\ HwOK'
    BY <1>20 DEF HwError, HwTypeOK, HwOK
  <2>2. UNCHANGED <<callers, engine, service, device>>
    BY <1>20 DEF HwError, callers, engine, service, device
  <2> QED
    BY <2>1, <2>2, TypeFrame
<1>21. CASE HwDrain
  <2>1. HwTypeOK' /\ HwOK'
    BY <1>21 DEF HwDrain, HwTypeOK, HwOK
  <2>2. UNCHANGED <<callers, engine, service, device>>
    BY <1>21 DEF HwDrain, callers, engine, service, device
  <2> QED
    BY <2>1, <2>2, TypeFrame
<1>22. CASE OfflineFlag
  <2>1. DeviceTypeOK'
    BY <1>22 DEF OfflineFlag, DeviceTypeOK
  <2>2. UNCHANGED <<callers, engine, service, hw>>
    BY <1>22 DEF OfflineFlag, callers, engine, service, hw
  <2> QED
    BY <2>1, <2>2, TypeFrame
<1>23. CASE OfflineEngine
  <2>1. running' \in BOOLEAN /\ HwTypeOK' /\ HwOK'
    BY <1>23, TypeStop DEF OfflineEngine, HwTypeOK
  <2>2. EngineTypeOK'
    BY <1>23, <2>1 DEF OfflineEngine, EngineTypeOK
  <2>3. DeviceTypeOK'
    BY <1>23 DEF OfflineEngine, DeviceTypeOK
  <2>4. UNCHANGED <<callers, service>>
    BY <1>23 DEF OfflineEngine, callers, service
  <2> QED
    BY <2>1, <2>2, <2>3, <2>4, TypeFrame
<1>24. CASE OfflineIrq
  <2>1. DeviceTypeOK'
    BY <1>24 DEF OfflineIrq, DeviceTypeOK
  <2>2. UNCHANGED <<callers, engine, service, hw>>
    BY <1>24 DEF OfflineIrq, callers, engine, service, hw
  <2> QED
    BY <2>1, <2>2, TypeFrame
<1>25. CASE PciReset
  <2>1. DeviceTypeOK'
    BY <1>25 DEF PciReset, DeviceTypeOK
  <2>2. HwTypeOK' /\ HwOK'
    BY <1>25, ModType DEF PciReset, HwTypeOK, HwOK
  <2>3. UNCHANGED <<callers, engine, service>>
    BY <1>25 DEF PciReset, callers, engine, service
  <2> QED
    BY <2>1, <2>2, <2>3, TypeFrame
<1>26. CASE OnlineEngine
  <2>1. EngineTypeOK'
    BY <1>26 DEF OnlineEngine, EngineTypeOK, HwTypeOK
  <2>2. DeviceTypeOK'
    BY <1>26 DEF OnlineEngine, DeviceTypeOK
  <2>3. UNCHANGED <<callers, service, hw>>
    BY <1>26 DEF OnlineEngine, callers, service, hw
  <2> QED
    BY <2>1, <2>2, <2>3, TypeFrame
<1>27. CASE OnlineIrq
  <2>1. DeviceTypeOK'
    BY <1>27 DEF OnlineIrq, DeviceTypeOK
  <2>2. UNCHANGED <<callers, engine, service, hw>>
    BY <1>27 DEF OnlineIrq, callers, engine, service, hw
  <2> QED
    BY <2>1, <2>2, TypeFrame
<1>28. CASE OnlineFlag
  <2>1. DeviceTypeOK'
    BY <1>28 DEF OnlineFlag, DeviceTypeOK
  <2>2. UNCHANGED <<callers, engine, service, hw>>
    BY <1>28 DEF OnlineFlag, callers, engine, service, hw
  <2> QED
    BY <2>1, <2>2, TypeFrame
<1>29. CASE UNCHANGED vars
  BY <1>29, TypeFrame DEF vars, callers, engine, service, device, hw
<1> QED
  BY <1>1, <1>2, <1>3, <1>4, <1>5, <1>6, <1>7, <1>8, <1>9, <1>10, <1>11,
     <1>12, <1>13, <1>14, <1>15, <1>16, <1>17, <1>18, <1>19, <1>20, <1>21,
     <1>22, <1>23, <1>24, <1>25, <1>26, <1>27, <1>28, <1>29
  DEF Next, SyncCaller, TransferQueue, EngineService, Hardware, Device

\* TypeOK holds in every reachable state, for every value of the constants.
\* It is not inductive alone: that hw_count stays below U32 rests on HwOK.
THEOREM TypeCorrect == Spec => []TypeOK
<1>1. TypeInv => TypeOK
  BY DEF TypeInv
<1> QED
  BY <1>1, TypeInit, TypeStep, PTL DEF Spec

-----------------------------------------------------------------------------
(***************************************************************************)
(* The queue, the hardware and the callers.                                *)
(***************************************************************************)

\* What appending does to a list without repetitions.
LEMMA ListAppend ==
  ASSUME NEW S, NEW list \in Seq(S), NEW x \in S, NoDup(list), ~InList(list, x)
  PROVE  /\ NoDup(Append(list, x))
         /\ \A y : InList(Append(list, x), y) <=> InList(list, y) \/ y = x
         /\ Head(Append(list, x)) = IF list = <<>> THEN x ELSE Head(list)
<1> DEFINE l == Append(list, x)
<1>1. /\ l \in Seq(S)
      /\ DOMAIN l = 1 .. Len(list) + 1
      /\ DOMAIN list = 1 .. Len(list)
      /\ Len(list) \in Nat
      /\ \A i \in 1 .. Len(list) : l[i] = list[i]
      /\ l[Len(list) + 1] = x
  BY AppendProperties, LenProperties
<1>2. NoDup(l)
  BY <1>1 DEF NoDup, InList
<1>3. \A y : InList(l, y) <=> InList(list, y) \/ y = x
  BY <1>1 DEF InList
<1>4. Head(l) = IF list = <<>> THEN x ELSE Head(list)
  BY HeadTailAppend
<1> QED
  BY <1>2, <1>3, <1>4

\* The head of a list that is not empty is in it.
LEMMA ListHead ==
  ASSUME NEW S, NEW list \in Seq(S), list # <<>>
  PROVE  InList(list, Head(list))
<1>1. Len(list) \in Nat \ {0} /\ DOMAIN list = 1 .. Len(list)
  BY EmptySeq, LenProperties
<1>2. 1 \in DOMAIN list /\ list[1] = Head(list)
  BY <1>1
<1> QED
  BY <1>2 DEF InList

\* What removing the head does to a list without repetitions.
LEMMA ListTail ==
  ASSUME NEW S, NEW list \in Seq(S), list # <<>>, NoDup(list)
  PROVE  /\ NoDup(Tail(list))
         /\ InList(list, Head(list))
         /\ \A y : InList(Tail(list), y) <=> InList(list, y) /\ y # Head(list)
         /\ Tail(list) # <<>> => InList(Tail(list), Head(Tail(list)))
<1> DEFINE l == Tail(list)
<1>1. /\ l \in Seq(S)
      /\ Len(list) \in Nat \ {0}
      /\ DOMAIN list = 1 .. Len(list)
      /\ DOMAIN l = 1 .. Len(list) - 1
      /\ \A i \in 1 .. Len(list) - 1 : l[i] = list[i + 1]
      /\ Head(list) = list[1]
  BY HeadTailProperties, LenProperties, EmptySeq
<1>2. NoDup(l)
  BY <1>1 DEF NoDup
<1>3. InList(list, Head(list))
  BY ListHead
<1>4. ASSUME NEW y, InList(l, y) PROVE InList(list, y) /\ y # Head(list)
  BY <1>1, <1>4 DEF InList, NoDup
<1>5. ASSUME NEW y, InList(list, y), y # Head(list) PROVE InList(l, y)
  <2>1. PICK i \in DOMAIN list : list[i] = y
    BY <1>5 DEF InList
  <2>2. i # 1 /\ i - 1 \in DOMAIN l /\ l[i - 1] = y
    BY <1>1, <1>5, <2>1
  <2> QED
    BY <2>2 DEF InList
<1>6. l # <<>> => InList(l, Head(l))
  BY <1>1, ListHead
<1> QED
  BY <1>2, <1>3, <1>4, <1>5, <1>6

\* With sync callers only, desc_lock leaves room for one queued transfer.
LEMMA OneListed ==
  ASSUME IInv, Asyncs = {}, transfer_list # <<>>
  PROVE  Tail(transfer_list) = <<>>
<1>1. /\ transfer_list \in Seq(Xfers)
      /\ NoDup(transfer_list)
      /\ \A x \in Xfers : InList(transfer_list, x) => desc_lock = x
  BY DEF IInv, TypeOK, EngineTypeOK, QueueIsLive, LockInv, Owned, Xfers
<1>2. SUFFICES ASSUME Tail(transfer_list) # <<>> PROVE FALSE
  OBVIOUS
<1> DEFINE g == Head(transfer_list)
           h == Head(Tail(transfer_list))
<1>3. g \in Xfers /\ Tail(transfer_list) \in Seq(Xfers)
  BY <1>1, ListType
<1>4. h \in Xfers
  BY <1>2, <1>3, ListType
<1>5. InList(transfer_list, g) /\ InList(transfer_list, h) /\ h # g
  BY <1>1, <1>2, ListTail
<1> QED
  BY <1>1, <1>3, <1>4, <1>5

\* A step of a caller that leaves the engine, the service and the hardware
\* alone only has to keep what the list says about the callers.
LEMMA CallerStep ==
  ASSUME IInv, TypeInv', UNCHANGED <<engine, service, device, hw>>,
         LockInv', CallerInv',
         \A y \in Xfers : xstate'[y] = "SUBMITTED" <=> xstate[y] = "SUBMITTED",
         \A y \in Xfers : xstate'[y] = "COMPLETED" => xstate[y] = "COMPLETED",
         \A y \in Xfers : xstate[y] = "SUBMITTED" /\ Owned(y) => Owned(y)'
  PROVE  IInv'
<1>1. QueueIsLive'
  BY DEF IInv, QueueIsLive, engine, InList, NoDup
<1>2. HeadInv' /\ CalmInv'
  BY DEF IInv, HeadInv, CalmInv, Calm, engine, service, device, hw
<1>3. CompletedMeansMoved'
  BY DEF IInv, CompletedMeansMoved, hw
<1> QED
  BY <1>1, <1>2, <1>3 DEF IInv, TypeInv

\* A step that leaves the callers alone only has to keep the hardware in step
\* with the list.
LEMMA FrameStep ==
  ASSUME IInv, TypeInv', UNCHANGED <<callers, transfer_list>>,
         HeadInv', CalmInv', CompletedMeansMoved'
  PROVE  IInv'
<1>1. LockInv' /\ CallerInv'
  BY DEF IInv, LockInv, CallerInv, callers
<1>2. QueueIsLive'
  BY DEF IInv, QueueIsLive, callers, InList, NoDup, Owned
<1> QED
  BY <1>1, <1>2 DEF IInv, TypeInv

\* Initially nothing is queued and nobody waits.
LEMMA InvInit == Init => IInv
<1> SUFFICES ASSUME Init PROVE IInv
  OBVIOUS
<1>1. TypeOK /\ HwOK
  BY TypeInit DEF TypeInv
<1>2. LockInv /\ CallerInv
  BY DEF Init, LockInv, CallerInv, Xfers
<1>3. QueueIsLive
  BY DEF Init, QueueIsLive, NoDup, InList
<1>4. HeadInv /\ CalmInv /\ CompletedMeansMoved
  BY DEF Init, HeadInv, CalmInv, CompletedMeansMoved
<1> QED
  BY <1>1, <1>2, <1>3, <1>4 DEF IInv

\* The steps of the callers outside the engine lock, and those that find their
\* transfer settled.
LEMMA InvCallers ==
  ASSUME IInv, TypeInv'
  PROVE  /\ \A x \in Syncs : (\/ SubmitSync(x) \/ LockDesc(x) \/ Woken(x)
                              \/ TimedOut(x) \/ Settled(x) \/ NextPart(x)
                              \/ Return(x)) => IInv'
         /\ \A x \in Asyncs : SubmitAsync(x) => IInv'
         /\ \A x \in Xfers : QueueCheck(x) \/ QueueRefused(x) => IInv'
<1>1. /\ CallersTypeOK
      /\ \A x \in Xfers : xstate[x] = "SUBMITTED" => Owned(x)
      /\ LockInv
      /\ CallerInv
  BY DEF IInv, TypeOK, QueueIsLive
<1> USE DEF CallersTypeOK, Xfers, Owned
<1>2. ASSUME NEW x \in Syncs, SubmitSync(x) PROVE IInv'
  <2>1. LockInv'
    BY <1>1, <1>2 DEF SubmitSync, LockInv
  <2>2. CallerInv'
    BY <1>1, <1>2 DEF SubmitSync, CallerInv
  <2>3. \A y \in Xfers :
          /\ xstate'[y] = "SUBMITTED" <=> xstate[y] = "SUBMITTED"
          /\ xstate'[y] = "COMPLETED" => xstate[y] = "COMPLETED"
          /\ xstate[y] = "SUBMITTED" /\ Owned(y) => Owned(y)'
    BY <1>1, <1>2 DEF SubmitSync
  <2>4. UNCHANGED <<engine, service, device, hw>>
    BY <1>2 DEF SubmitSync, engine, service, device, hw
  <2> QED
    BY <2>1, <2>2, <2>3, <2>4, CallerStep
<1>3. ASSUME NEW x \in Syncs, LockDesc(x) PROVE IInv'
  <2>1. LockInv'
    BY <1>1, <1>3 DEF LockDesc, LockInv
  <2>2. CallerInv'
    BY <1>1, <1>3 DEF LockDesc, CallerInv
  <2>3. \A y \in Xfers :
          /\ xstate'[y] = "SUBMITTED" <=> xstate[y] = "SUBMITTED"
          /\ xstate'[y] = "COMPLETED" => xstate[y] = "COMPLETED"
          /\ xstate[y] = "SUBMITTED" /\ Owned(y) => Owned(y)'
    BY <1>1, <1>3 DEF LockDesc
  <2>4. UNCHANGED <<engine, service, device, hw>>
    BY <1>3 DEF LockDesc, engine, service, device, hw
  <2> QED
    BY <2>1, <2>2, <2>3, <2>4, CallerStep
<1>4. ASSUME NEW x \in Syncs, Woken(x) PROVE IInv'
  <2>1. LockInv'
    BY <1>1, <1>4 DEF Woken, LockInv
  <2>2. CallerInv'
    BY <1>1, <1>4 DEF Woken, CallerInv
  <2>3. \A y \in Xfers :
          /\ xstate'[y] = "SUBMITTED" <=> xstate[y] = "SUBMITTED"
          /\ xstate'[y] = "COMPLETED" => xstate[y] = "COMPLETED"
          /\ xstate[y] = "SUBMITTED" /\ Owned(y) => Owned(y)'
    BY <1>1, <1>4 DEF Woken
  <2>4. UNCHANGED <<engine, service, device, hw>>
    BY <1>4 DEF Woken, engine, service, device, hw
  <2> QED
    BY <2>1, <2>2, <2>3, <2>4, CallerStep
<1>5. ASSUME NEW x \in Syncs, TimedOut(x) PROVE IInv'
  <2>1. LockInv'
    BY <1>1, <1>5 DEF TimedOut, LockInv
  <2>2. CallerInv'
    BY <1>1, <1>5 DEF TimedOut, CallerInv
  <2>3. \A y \in Xfers :
          /\ xstate'[y] = "SUBMITTED" <=> xstate[y] = "SUBMITTED"
          /\ xstate'[y] = "COMPLETED" => xstate[y] = "COMPLETED"
          /\ xstate[y] = "SUBMITTED" /\ Owned(y) => Owned(y)'
    BY <1>1, <1>5 DEF TimedOut
  <2>4. UNCHANGED <<engine, service, device, hw>>
    BY <1>5 DEF TimedOut, engine, service, device, hw
  <2> QED
    BY <2>1, <2>2, <2>3, <2>4, CallerStep
<1>6. ASSUME NEW x \in Syncs, Settled(x) PROVE IInv'
  <2>1. LockInv'
    BY <1>1, <1>6 DEF Settled, LockInv
  <2>2. CallerInv'
    BY <1>1, <1>6 DEF Settled, CallerInv
  <2>3. \A y \in Xfers :
          /\ xstate'[y] = "SUBMITTED" <=> xstate[y] = "SUBMITTED"
          /\ xstate'[y] = "COMPLETED" => xstate[y] = "COMPLETED"
          /\ xstate[y] = "SUBMITTED" /\ Owned(y) => Owned(y)'
    BY <1>1, <1>6 DEF Settled
  <2>4. UNCHANGED <<engine, service, device, hw>>
    BY <1>6 DEF Settled, engine, service, device, hw
  <2> QED
    BY <2>1, <2>2, <2>3, <2>4, CallerStep
<1>7. ASSUME NEW x \in Syncs, NextPart(x) PROVE IInv'
  <2>1. LockInv'
    BY <1>1, <1>7 DEF NextPart, LockInv
  <2>2. CallerInv'
    BY <1>1, <1>7 DEF NextPart, CallerInv
  <2>3. \A y \in Xfers :
          /\ xstate'[y] = "SUBMITTED" <=> xstate[y] = "SUBMITTED"
          /\ xstate'[y] = "COMPLETED" => xstate[y] = "COMPLETED"
          /\ xstate[y] = "SUBMITTED" /\ Owned(y) => Owned(y)'
    BY <1>1, <1>7 DEF NextPart
  <2>4. UNCHANGED <<engine, service, device, hw>>
    BY <1>7 DEF NextPart, engine, service, device, hw
  <2> QED
    BY <2>1, <2>2, <2>3, <2>4, CallerStep
<1>8. ASSUME NEW x \in Syncs, Return(x) PROVE IInv'
  <2>1. LockInv'
    BY <1>1, <1>8 DEF Return, Release, LockInv
  <2>2. CallerInv'
    BY <1>1, <1>8 DEF Return, Release, CallerInv
  <2>3. \A y \in Xfers :
          /\ xstate'[y] = "SUBMITTED" <=> xstate[y] = "SUBMITTED"
          /\ xstate'[y] = "COMPLETED" => xstate[y] = "COMPLETED"
          /\ xstate[y] = "SUBMITTED" /\ Owned(y) => Owned(y)'
    BY <1>1, <1>8 DEF Return, Release
  <2>4. UNCHANGED <<engine, service, device, hw>>
    BY <1>8 DEF Return, engine, service, device, hw
  <2> QED
    BY <2>1, <2>2, <2>3, <2>4, CallerStep
<1>9. ASSUME NEW x \in Asyncs, SubmitAsync(x) PROVE IInv'
  <2>1. LockInv'
    BY <1>1, <1>9 DEF SubmitAsync, LockInv
  <2>2. CallerInv'
    BY <1>1, <1>9 DEF SubmitAsync, CallerInv
  <2>3. \A y \in Xfers :
          /\ xstate'[y] = "SUBMITTED" <=> xstate[y] = "SUBMITTED"
          /\ xstate'[y] = "COMPLETED" => xstate[y] = "COMPLETED"
          /\ xstate[y] = "SUBMITTED" /\ Owned(y) => Owned(y)'
    BY <1>1, <1>9 DEF SubmitAsync
  <2>4. UNCHANGED <<engine, service, device, hw>>
    BY <1>9 DEF SubmitAsync, engine, service, device, hw
  <2> QED
    BY <2>1, <2>2, <2>3, <2>4, CallerStep
<1>10. ASSUME NEW x \in Xfers, QueueCheck(x) PROVE IInv'
  <2>1. LockInv'
    BY <1>1, <1>10 DEF QueueCheck, Release, LockInv
  <2>2. CallerInv'
    BY <1>1, <1>10 DEF QueueCheck, Release, CallerInv
  <2>3. \A y \in Xfers :
          /\ xstate'[y] = "SUBMITTED" <=> xstate[y] = "SUBMITTED"
          /\ xstate'[y] = "COMPLETED" => xstate[y] = "COMPLETED"
          /\ xstate[y] = "SUBMITTED" /\ Owned(y) => Owned(y)'
    BY <1>1, <1>10 DEF QueueCheck, Release
  <2>4. UNCHANGED <<engine, service, device, hw>>
    BY <1>10 DEF QueueCheck, engine, service, device, hw
  <2> QED
    BY <2>1, <2>2, <2>3, <2>4, CallerStep
<1>11. ASSUME NEW x \in Xfers, QueueRefused(x) PROVE IInv'
  <2>1. LockInv'
    BY <1>1, <1>11 DEF QueueRefused, Release, LockInv
  <2>2. CallerInv'
    BY <1>1, <1>11 DEF QueueRefused, Release, CallerInv
  <2>3. \A y \in Xfers :
          /\ xstate'[y] = "SUBMITTED" <=> xstate[y] = "SUBMITTED"
          /\ xstate'[y] = "COMPLETED" => xstate[y] = "COMPLETED"
          /\ xstate[y] = "SUBMITTED" /\ Owned(y) => Owned(y)'
    BY <1>1, <1>11 DEF QueueRefused, Release
  <2>4. UNCHANGED <<engine, service, device, hw>>
    BY <1>11 DEF QueueRefused, engine, service, device, hw
  <2> QED
    BY <2>1, <2>2, <2>3, <2>4, CallerStep
<1> QED
  BY <1>2, <1>3, <1>4, <1>5, <1>6, <1>7, <1>8, <1>9, <1>10, <1>11

\* transfer_queue appends a transfer that is not in the list.
LEMMA InvEnqueue ==
  ASSUME IInv, TypeInv', NEW x \in Xfers, Enqueue(x)
  PROVE  IInv'
<1> DEFINE l == Append(transfer_list, x)
<1>1. /\ CallersTypeOK /\ transfer_list \in Seq(Xfers)
      /\ hw_xfer \in Xfers \cup {NoXfer} /\ moved \in [Xfers -> Nat]
      /\ NoDup(transfer_list)
      /\ pc[x] = "spin_lock" /\ ~Owned(x)
      /\ ~InList(transfer_list, x)
      /\ svc = "idle"
  BY DEF IInv, TypeOK, EngineTypeOK, HwTypeOK, QueueIsLive, Enqueue, Owned
<1>2. /\ NoDup(l)
      /\ \A y : InList(l, y) <=> InList(transfer_list, y) \/ y = x
      /\ Head(l) = IF transfer_list = <<>> THEN x ELSE Head(transfer_list)
      /\ l # <<>> /\ l \in Seq(Xfers)
      /\ Head(l) \in Xfers /\ InList(l, Head(l))
  <2>1. l # <<>> /\ l \in Seq(Xfers)
    BY <1>1, ListType
  <2>2. Head(l) \in Xfers /\ InList(l, Head(l))
    BY <2>1, ListType, ListHead
  <2>3. /\ NoDup(l)
        /\ \A y : InList(l, y) <=> InList(transfer_list, y) \/ y = x
        /\ Head(l) = IF transfer_list = <<>> THEN x ELSE Head(transfer_list)
    BY <1>1, ListAppend
  <2> QED
    BY <2>1, <2>2, <2>3
<1>3. /\ transfer_list' = l
      /\ pc' = [pc EXCEPT ![x] = "wait_event"]
      /\ xstate' = [xstate EXCEPT ![x] = "SUBMITTED"]
      /\ UNCHANGED <<left, desc_lock, service, devstep>>
  BY DEF Enqueue, device
<1>4. LockInv'
  BY <1>1, <1>3 DEF IInv, LockInv, CallersTypeOK, Xfers
<1>5. CallerInv'
  BY <1>1, <1>3 DEF IInv, CallerInv, CallersTypeOK, Xfers
<1>6. QueueIsLive'
  <2>1. \A y \in Xfers : InList(transfer_list, y) => Owned(y)
    BY DEF IInv, QueueIsLive
  <2>2. \A y \in Xfers : xstate[y] = "SUBMITTED" <=> InList(transfer_list, y)
    BY DEF IInv, QueueIsLive
  <2>3. \A y \in Xfers : /\ Owned(y) => Owned(y)'
                         /\ y = x => Owned(y)'
    BY <1>1, <1>3 DEF CallersTypeOK, Owned
  <2>4. \A y \in Xfers : xstate'[y] = "SUBMITTED" <=> xstate[y] = "SUBMITTED" \/ y = x
    BY <1>1, <1>3 DEF CallersTypeOK
  <2> QED
    BY <1>2, <1>3, <2>1, <2>2, <2>3, <2>4 DEF QueueIsLive
<1>7. CASE running
  <2>1. UNCHANGED <<running, desc_dequeued, hw>> /\ transfer_list # <<>>
    BY <1>7 DEF Enqueue, IInv, HeadInv
  <2>2. HeadInv'
    BY <1>1, <1>2, <1>3, <2>1 DEF IInv, HeadInv, service, hw
  <2>3. CalmInv'
    BY <1>3, <2>1 DEF IInv, CalmInv, Calm, service, hw
  <2>4. CompletedMeansMoved'
    BY <1>1, <1>3, <2>1 DEF IInv, CompletedMeansMoved, CallersTypeOK, hw
  <2> QED
    BY <1>4, <1>5, <1>6, <2>2, <2>3, <2>4 DEF IInv, TypeInv
<1>8. CASE ~running
  <2>1. EngineStart(l)
    BY <1>8 DEF Enqueue
  <2>2. HeadInv'
    BY <1>1, <1>2, <1>3, <2>1 DEF EngineStart, HeadInv, service
  <2>3. CalmInv'
    BY <1>1, <1>3, <1>8, <2>1
    DEF EngineStart, StillInFlight, IInv, CalmInv, HeadInv, Calm, service
  <2>4. xstate'[Head(l)] = "SUBMITTED"
    BY <1>2, <1>3, <1>6 DEF QueueIsLive
  <2>5. CompletedMeansMoved'
    BY <1>1, <1>2, <1>3, <2>1, <2>4
    DEF EngineStart, IInv, CompletedMeansMoved, CallersTypeOK
  <2> QED
    BY <1>4, <1>5, <1>6, <2>2, <2>3, <2>5 DEF IInv, TypeInv
<1> QED
  BY <1>7, <1>8 DEF IInv, TypeOK, EngineTypeOK

\* An abort finds its transfer alone in the list: with async callers nobody
\* times out, and without them desc_lock admits one transfer at a time.
LEMMA InvAbort ==
  ASSUME IInv, TypeInv', Regime, NEW x \in Syncs, Abort(x)
  PROVE  IInv'
<1>1. /\ CallersTypeOK /\ transfer_list \in Seq(Xfers) /\ x \in Xfers
      /\ pc[x] = "settle" /\ svc = "idle"
      /\ xstate[x] = "SUBMITTED" /\ MayTimeout
      /\ InList(transfer_list, x)
      /\ NoDup(transfer_list)
  BY DEF IInv, TypeOK, EngineTypeOK, QueueIsLive, CallerInv, Abort, Xfers
<1>2. Asyncs = {} /\ ~Calm
  BY <1>1 DEF Regime, Calm
<1>3. transfer_list # <<>>
  BY <1>1 DEF InList
<1>4. Tail(transfer_list) = <<>>
  BY <1>2, <1>3, OneListed
<1>5. \A y \in Xfers : InList(transfer_list, y) => y = Head(transfer_list)
  <2>1. \A y : InList(Tail(transfer_list), y) <=>
               InList(transfer_list, y) /\ y # Head(transfer_list)
    BY <1>1, <1>3, ListTail
  <2>2. \A y : ~InList(Tail(transfer_list), y)
    BY <1>4 DEF InList
  <2> QED
    BY <2>1, <2>2
<1>6. /\ transfer_list' = <<>>
      /\ pc' = [pc EXCEPT ![x] = "destroy"]
      /\ xstate' = [xstate EXCEPT ![x] = "ABORTED"]
      /\ running' = FALSE /\ hw_busy' = FALSE
      /\ UNCHANGED <<left, desc_lock, svc, pdesc, work, moved>>
  BY <1>1, <1>3, <1>4, <1>5 DEF Abort, EngineStop, CallersTypeOK
<1>7. LockInv' /\ CallerInv'
  BY <1>1, <1>2, <1>6 DEF IInv, LockInv, CallerInv, CallersTypeOK, Xfers
<1>8. \A y \in Xfers : InList(transfer_list, y) => y = x
  BY <1>1, <1>5
<1>9. QueueIsLive'
  BY <1>1, <1>6, <1>8 DEF IInv, QueueIsLive, InList, NoDup, CallersTypeOK
<1>10. HeadInv' /\ CalmInv'
  BY <1>1, <1>2, <1>6 DEF HeadInv, CalmInv, Calm
<1>11. CompletedMeansMoved'
  BY <1>1, <1>6 DEF IInv, CompletedMeansMoved, CallersTypeOK
<1> QED
  BY <1>7, <1>9, <1>10, <1>11 DEF IInv, TypeInv

\* The count that engine_service works with is the hardware's while nothing
\* was dequeued.
LEMMA ModAdd == \A c \in 0 .. U32 - 1 : (U32 + c - 0) % U32 = c
  OBVIOUS

\* What the invariant says of a running or serviced engine.
LEMMA HeadFacts ==
  ASSUME IInv, running \/ svc # "idle"
  PROVE  /\ transfer_list \in Seq(Xfers) /\ transfer_list # <<>>
         /\ Head(transfer_list) \in Xfers
         /\ hw_xfer = Head(transfer_list)
         /\ InList(transfer_list, Head(transfer_list))
         /\ xstate[Head(transfer_list)] = "SUBMITTED"
<1>1. transfer_list \in Seq(Xfers) /\ transfer_list # <<>> /\ hw_xfer = Head(transfer_list)
  BY DEF IInv, TypeOK, EngineTypeOK, HeadInv
<1>2. Head(transfer_list) \in Xfers /\ InList(transfer_list, Head(transfer_list))
  BY <1>1, ListType, ListHead
<1> QED
  BY <1>1, <1>2 DEF IInv, QueueIsLive

\* The interrupt handler and the reading of the registers.
LEMMA InvService ==
  ASSUME IInv, TypeInv',
         \/ Isr \/ ServiceNotRunning \/ ServiceStatus
         \/ ServiceNothing \/ ServiceCount
  PROVE  IInv'
<1>1. CASE Isr
  <2>1. HeadInv' /\ CalmInv' /\ CompletedMeansMoved'
    BY <1>1 DEF Isr, IInv, HeadInv, CalmInv, Calm, CompletedMeansMoved,
       callers, engine, hw
  <2> QED
    BY <1>1, <2>1, FrameStep DEF Isr, engine
<1>2. CASE ServiceNotRunning
  <2>1. HeadInv' /\ CalmInv' /\ CompletedMeansMoved'
    BY <1>2 DEF ServiceNotRunning, ServiceDone, IInv, HeadInv, CalmInv, Calm,
       CompletedMeansMoved, callers, engine
  <2> QED
    BY <1>2, <2>1, FrameStep DEF ServiceNotRunning, engine
<1>3. CASE ServiceStatus
  <2>1. UNCHANGED <<callers, transfer_list, desc_dequeued, hw_xfer, hw_count, moved>>
    BY <1>3 DEF ServiceStatus
  <2>2. \/ UNCHANGED <<running, hw_busy, hw_inflight>>
        \/ EngineStop
    BY <1>3 DEF ServiceStatus
  <2>3. HeadInv'
    BY <1>3, <2>1, <2>2 DEF ServiceStatus, EngineStop, IInv, HeadInv
  <2>4. CalmInv'
    <3>1. ASSUME Calm PROVE EngineStop /\ ~hw_busy /\ hw_inflight = NoXfer
      BY <1>3, <3>1 DEF ServiceStatus, Calm, IInv, CalmInv, HwBusyBit
    <3>2. work' = FALSE /\ hw_event' = FALSE /\ UNCHANGED devstep
      BY <1>3 DEF ServiceStatus, device
    <3> QED
      BY <3>1, <3>2 DEF EngineStop, StillInFlight, IInv, CalmInv, Calm
  <2>5. CompletedMeansMoved'
    BY <2>1 DEF IInv, CompletedMeansMoved, callers
  <2> QED
    BY <2>1, <2>3, <2>4, <2>5, FrameStep
<1>4. CASE ServiceNothing
  <2>1. HeadInv' /\ CalmInv' /\ CompletedMeansMoved'
    BY <1>4 DEF ServiceNothing, ServiceDone, IInv, HeadInv, CalmInv, Calm,
       CompletedMeansMoved, callers, engine, hw
  <2> QED
    BY <1>4, <2>1, FrameStep DEF ServiceNothing, engine
<1>5. CASE ServiceCount
  <2>1. hw_count \in 0 .. U32 - 1 /\ desc_dequeued = 0 /\ transfer_list # <<>>
        /\ hw_xfer = Head(transfer_list) /\ hw_count <= moved[hw_xfer]
    BY <1>5 DEF ServiceCount, IInv, HeadInv, TypeOK, HwTypeOK
  <2>2. pdesc' = hw_count
    BY <1>5, <2>1, ModAdd DEF ServiceCount
  <2>3. UNCHANGED <<callers, engine, work, devstep, hw>> /\ svc' = "list" /\ svc # "idle"
    BY <1>5 DEF ServiceCount, device
  <2>4. HeadInv'
    BY <2>1, <2>2, <2>3 DEF IInv, HeadInv, engine, hw
  <2>5. CalmInv' /\ CompletedMeansMoved'
    BY <2>3 DEF IInv, CalmInv, Calm, CompletedMeansMoved, callers, engine, hw
  <2> QED
    BY <2>3, <2>4, <2>5, FrameStep DEF engine
<1> QED
  BY <1>1, <1>2, <1>3, <1>4, <1>5

\* The hardware works for the head of the list only.
LEMMA InvHardware ==
  ASSUME IInv, TypeInv', Hardware
  PROVE  IInv'
<1>1. CASE HwStep
  <2> DEFINE h == Head(transfer_list)
  <2>1. /\ hw_busy /\ running /\ hw_xfer = h /\ h \in Xfers
        /\ xstate[h] = "SUBMITTED" /\ transfer_list # <<>> /\ desc_dequeued = 0
        /\ moved \in [Xfers -> Nat] /\ moved[h] = hw_count /\ hw_count \in Nat
        /\ hw_count < DescNum[h] /\ DescNum[h] \in Nat
        /\ pdesc \in Nat
    BY <1>1, HeadFacts DEF HwStep, IInv, HeadInv, HwOK, TypeOK, HwTypeOK, ServiceTypeOK
  <2>2. /\ moved' = [moved EXCEPT ![h] = @ + 1]
        /\ hw_count' = hw_count + 1
        /\ hw_busy' = (hw_count + 1 < DescNum[h])
        /\ hw_event' = (hw_event \/ hw_count + 1 = DescNum[h])
        /\ UNCHANGED <<callers, engine, service, devstep, hw_xfer, hw_inflight>>
    BY <1>1, <2>1 DEF HwStep, device
  <2>3. moved'[h] = moved[h] + 1 /\ \A y \in Xfers : y # h => moved'[y] = moved[y]
    BY <2>1, <2>2
  <2>4. HeadInv'
    BY <2>1, <2>2, <2>3 DEF IInv, HeadInv, engine, service
  <2>5. CalmInv'
    BY <2>1, <2>2 DEF IInv, CalmInv, Calm, engine, service
  <2>6. CompletedMeansMoved'
    BY <2>1, <2>2, <2>3 DEF IInv, CompletedMeansMoved, callers
  <2> QED
    BY <2>2, <2>4, <2>5, <2>6, FrameStep DEF engine
<1>2. CASE HwError
  <2>1. HeadInv' /\ CalmInv' /\ CompletedMeansMoved'
    BY <1>2 DEF HwError, IInv, HeadInv, CalmInv, Calm, CompletedMeansMoved,
       callers, engine, service, device
  <2> QED
    BY <1>2, <2>1, FrameStep DEF HwError, engine
<1>3. CASE HwDrain
  <2>1. HeadInv' /\ CalmInv' /\ CompletedMeansMoved'
    BY <1>3 DEF HwDrain, IInv, HeadInv, CalmInv, Calm, CompletedMeansMoved,
       callers, engine, service, device
  <2> QED
    BY <1>3, <2>1, FrameStep DEF HwDrain, engine
<1> QED
  BY <1>1, <1>2, <1>3 DEF Hardware

\* Going offline and coming back leaves the list to its callers.
LEMMA InvDevice ==
  ASSUME IInv, TypeInv', Device
  PROVE  IInv'
<1>1. CASE OfflineFlag
  <2>1. HeadInv' /\ CalmInv' /\ CompletedMeansMoved'
    BY <1>1 DEF OfflineFlag, IInv, HeadInv, CalmInv, Calm, CompletedMeansMoved,
       callers, engine, service, hw
  <2> QED
    BY <1>1, <2>1, FrameStep DEF OfflineFlag, engine
<1>2. CASE OfflineIrq
  <2>1. HeadInv' /\ CalmInv' /\ CompletedMeansMoved'
    BY <1>2 DEF OfflineIrq, IInv, HeadInv, CalmInv, Calm, CompletedMeansMoved,
       callers, engine, service, hw
  <2> QED
    BY <1>2, <2>1, FrameStep DEF OfflineIrq, engine
<1>3. CASE OnlineEngine
  <2>1. HeadInv' /\ CalmInv' /\ CompletedMeansMoved'
    BY <1>3 DEF OnlineEngine, IInv, HeadInv, CalmInv, Calm, CompletedMeansMoved,
       callers, engine, service, hw
  <2> QED
    BY <1>3, <2>1, FrameStep DEF OnlineEngine, engine
<1>4. CASE OnlineIrq
  <2>1. HeadInv' /\ CalmInv' /\ CompletedMeansMoved'
    BY <1>4 DEF OnlineIrq, IInv, HeadInv, CalmInv, Calm, CompletedMeansMoved,
       callers, engine, service, hw
  <2> QED
    BY <1>4, <2>1, FrameStep DEF OnlineIrq, engine
<1>5. CASE OnlineFlag
  <2>1. HeadInv' /\ CalmInv' /\ CompletedMeansMoved'
    BY <1>5 DEF OnlineFlag, IInv, HeadInv, CalmInv, Calm, CompletedMeansMoved,
       callers, engine, service, hw
  <2> QED
    BY <1>5, <2>1, FrameStep DEF OnlineFlag, engine
<1>6. CASE OfflineEngine
  <2>1. HeadInv' /\ CompletedMeansMoved'
    BY <1>6 DEF OfflineEngine, EngineStop, IInv, HeadInv, CompletedMeansMoved,
       callers, service
  <2>2. CalmInv'
    BY <1>6 DEF OfflineEngine, IInv, CalmInv, Calm
  <2> QED
    BY <1>6, <2>1, <2>2, FrameStep DEF OfflineEngine
<1>7. CASE PciReset
  <2>1. moved \in [Xfers -> Nat]
    BY DEF IInv, TypeOK, HwTypeOK
  <2>2. HeadInv' /\ CompletedMeansMoved'
    BY <1>7, <2>1, HeadFacts DEF PciReset, IInv, HeadInv, CompletedMeansMoved,
       callers, engine, service
  <2>3. CalmInv'
    BY <1>7 DEF PciReset, IInv, CalmInv, Calm
  <2> QED
    BY <1>7, <2>2, <2>3, FrameStep DEF PciReset, engine
<1> QED
  BY <1>1, <1>2, <1>3, <1>4, <1>5, <1>6, <1>7 DEF Device

\* The verdict of engine_service on the head of the list.  The loop of
\* engine_service_transfer_list is never entered: the count is at most the
\* descriptors of the head, and the engine that is resumed was stopped.
LEMMA InvTransfer ==
  ASSUME IInv, TypeInv', Regime, ServiceTransfer
  PROVE  IInv'
<1> DEFINE h == Head(transfer_list)
           t == Tail(transfer_list)
           v == FinalState(h)
           stopped == status_err \/ ~running
           dequeued == IF status_err THEN desc_dequeued
                       ELSE (desc_dequeued + DescNum[h]) % U32
<1>1. /\ svc = "list"
      /\ transfer_list \in Seq(Xfers) /\ transfer_list # <<>>
      /\ h \in Xfers /\ hw_xfer = h
      /\ InList(transfer_list, h) /\ xstate[h] = "SUBMITTED"
  BY HeadFacts DEF ServiceTransfer
<1>2. /\ CallersTypeOK /\ moved \in [Xfers -> Nat] /\ pdesc \in Nat
      /\ DescNum[h] \in Nat /\ moved[h] \in Nat
      /\ pdesc <= moved[h] /\ moved[h] <= DescNum[h]
      /\ NoDup(transfer_list)
      /\ hw_busy => running
  BY <1>1 DEF IInv, TypeOK, HwTypeOK, HwOK, HeadInv, ServiceTypeOK, QueueIsLive
<1>3. /\ Settle(h, v)
      /\ transfer_list' = t
      /\ Resume(t, stopped, dequeued)
      /\ svc' = "idle"
      /\ UNCHANGED <<work, devstep>>
  <2>1. ~(pdesc > DescNum[h])
    BY <1>2
  <2>2. FinalTransfer(transfer_list) /\ ServiceDone /\ UNCHANGED <<work, devstep>>
    BY <2>1 DEF ServiceTransfer
  <2> QED
    BY <1>1, <2>2 DEF FinalTransfer, ServiceDone
<1>4. /\ t \in Seq(Xfers)
      /\ NoDup(t)
      /\ \A y : InList(t, y) <=> InList(transfer_list, y) /\ y # h
      /\ t # <<>> => Head(t) \in Xfers /\ Head(t) # h /\ InList(t, Head(t))
  <2>1. t \in Seq(Xfers)
    BY <1>1, ListType
  <2>2. /\ NoDup(t)
        /\ \A y : InList(t, y) <=> InList(transfer_list, y) /\ y # h
        /\ t # <<>> => InList(t, Head(t))
    BY <1>1, <1>2, ListTail
  <2>3. t # <<>> => Head(t) \in Xfers
    BY <2>1, ListType
  <2> QED
    BY <2>1, <2>2, <2>3
<1>5. /\ v \in {"COMPLETED", "FAILED"}
      /\ v = "COMPLETED" => moved[h] = DescNum[h]
  BY <1>2 DEF FinalState
<1>6. /\ xstate' = [xstate EXCEPT ![h] = v]
      /\ xstate'[h] = v
      /\ \A y \in Xfers : y # h => xstate'[y] = xstate[y] /\ pc'[y] = pc[y]
      /\ h \in Asyncs => pc'[h] = "idle"
      /\ h \notin Asyncs => pc'[h] = pc[h]
      /\ UNCHANGED <<left, desc_lock>>
  BY <1>1, <1>2, <1>3 DEF Settle, CallersTypeOK
<1>7. LockInv'
  <2>1. \A y \in Syncs : y \in Xfers /\ y \notin Asyncs
    BY DEF Xfers
  <2>2. ASSUME NEW y \in Syncs PROVE pc'[y] = pc[y]
    BY <1>6, <2>1
  <2> QED
    BY <1>6, <2>2 DEF IInv, LockInv
<1>8. CallerInv'
  <2>1. Asyncs \subseteq Xfers
    BY DEF Xfers
  <2> QED
    BY <1>1, <1>5, <1>6, <2>1 DEF IInv, CallerInv
<1>9. QueueIsLive'
  <2>1. \A y \in Xfers : InList(t, y) => Owned(y)'
    <3>1. ASSUME NEW y \in Xfers, InList(t, y) PROVE y # h /\ Owned(y)
      BY <1>4, <3>1 DEF IInv, QueueIsLive
    <3> QED
      BY <1>6, <3>1 DEF Owned
  <2>2. \A y \in Xfers : xstate'[y] = "SUBMITTED" <=> InList(t, y)
    BY <1>1, <1>2, <1>4, <1>5, <1>6 DEF IInv, QueueIsLive, CallersTypeOK
  <2> QED
    BY <1>3, <1>4, <2>1, <2>2 DEF QueueIsLive
<1>10. Calm => /\ ~running /\ ~hw_busy /\ ~work /\ ~hw_event
               /\ hw_inflight = NoXfer /\ devstep = "online"
  BY <1>1, <1>2 DEF IInv, CalmInv
<1>11. CASE stopped /\ t # <<>>
  <2>1. EngineStart(t)
    BY <1>3, <1>11 DEF Resume
  <2>2. HeadInv'
    <3>1. moved'[Head(t)] = 0 /\ hw_count' = 0 /\ desc_dequeued' = 0
          /\ hw_xfer' = Head(t) /\ running' = TRUE
      BY <1>2, <1>4, <1>11, <2>1 DEF EngineStart
    <3> QED
      BY <1>3, <1>11, <3>1 DEF HeadInv
  <2>3. CalmInv'
    BY <1>3, <1>10, <2>1 DEF EngineStart, StillInFlight, CalmInv, Calm
  <2>4. xstate'[Head(t)] = "SUBMITTED"
    BY <1>3, <1>4, <1>9, <1>11 DEF QueueIsLive
  <2>5. CompletedMeansMoved'
    BY <1>1, <1>2, <1>4, <1>5, <1>6, <1>11, <2>1, <2>4
    DEF EngineStart, IInv, CompletedMeansMoved, CallersTypeOK
  <2> QED
    BY <1>7, <1>8, <1>9, <2>2, <2>3, <2>5 DEF IInv, TypeInv
<1>12. CASE ~(stopped /\ t # <<>>)
  <2>1. stopped \/ t = <<>>
    BY <1>1, <1>10, OneListed DEF Regime
  <2>2. EngineStop /\ UNCHANGED <<hw_event, moved>>
    BY <1>3, <1>12, <2>1 DEF Resume
  <2>3. HeadInv'
    BY <1>3, <2>2 DEF EngineStop, HeadInv
  <2>4. CalmInv'
    BY <1>3, <1>10, <2>2 DEF EngineStop, StillInFlight, CalmInv, Calm
  <2>5. CompletedMeansMoved'
    BY <1>1, <1>2, <1>5, <1>6, <2>2 DEF IInv, CompletedMeansMoved, CallersTypeOK
  <2> QED
    BY <1>7, <1>8, <1>9, <2>3, <2>4, <2>5 DEF IInv, TypeInv
<1> QED
  BY <1>11, <1>12

\* Every step keeps the invariant.
LEMMA InvStep == Regime /\ IInv /\ [Next]_vars => IInv'
<1> SUFFICES ASSUME Regime, IInv, [Next]_vars PROVE IInv'
  OBVIOUS
<1>1. TypeInv'
  BY TypeStep DEF IInv, TypeInv
<1>2. ASSUME NEW x \in Syncs, SyncCaller(x) PROVE IInv'
  <2>1. CASE Abort(x)
    BY <1>1, <2>1, InvAbort
  <2>2. CASE \/ SubmitSync(x) \/ LockDesc(x) \/ Woken(x) \/ TimedOut(x)
             \/ Settled(x) \/ NextPart(x) \/ Return(x)
    BY <1>1, <2>2, InvCallers
  <2> QED
    BY <1>2, <2>1, <2>2 DEF SyncCaller
<1>3. ASSUME NEW x \in Asyncs, SubmitAsync(x) PROVE IInv'
  BY <1>1, <1>3, InvCallers
<1>4. ASSUME NEW x \in Xfers, TransferQueue(x) PROVE IInv'
  BY <1>1, <1>4, InvCallers, InvEnqueue DEF TransferQueue
<1>5. CASE Isr \/ EngineService
  BY <1>1, <1>5, InvService, InvTransfer DEF EngineService
<1>6. CASE Hardware
  BY <1>1, <1>6, InvHardware
<1>7. CASE Device
  BY <1>1, <1>7, InvDevice
<1>8. CASE UNCHANGED vars
  <2>1. UNCHANGED <<callers, engine, service, device, hw>>
    BY <1>8 DEF vars, callers, engine, service, device, hw
  <2>2. HeadInv' /\ CalmInv' /\ CompletedMeansMoved'
    BY <2>1 DEF IInv, HeadInv, CalmInv, Calm, CompletedMeansMoved, callers,
       engine, service, device, hw
  <2> QED
    BY <1>1, <2>1, <2>2, FrameStep DEF engine
<1> QED
  BY <1>2, <1>3, <1>4, <1>5, <1>6, <1>7, <1>8 DEF Next

\* The inductive invariant holds in every reachable state of the regime.
THEOREM Invariance == Regime => (Spec => []IInv)
<1> SUFFICES ASSUME Regime PROVE Spec => []IInv
  OBVIOUS
<1>1. IInv /\ [Next]_vars => IInv'
  BY InvStep
<1> QED
  BY <1>1, InvInit, PTL DEF Spec

\* A transfer that the driver reports COMPLETED was moved entirely, whenever
\* timeouts, resets and the BUSY race are kept away from async callers.
THEOREM CompletedMoved == Regime => (Spec => []CompletedMeansMoved)
<1>1. IInv => CompletedMeansMoved
  BY DEF IInv
<1> QED
  BY <1>1, Invariance, PTL

\* In the same regime the engine's list never holds a transfer twice, nor one
\* that its caller has released, and holds all that are SUBMITTED.
THEOREM QueueLive == Regime => (Spec => []QueueIsLive)
<1>1. IInv => QueueIsLive
  BY DEF IInv
<1> QED
  BY <1>1, Invariance, PTL
=============================================================================
