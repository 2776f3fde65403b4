-------------------------- MODULE UserEventsProofs --------------------------
(***************************************************************************)
(* Theorems about UserEvents, for every set of readers and clients.        *)
(***************************************************************************)
EXTENDS UserEvents, TLAPS

USE ClientsAssumption, CallsAssumption DEF Client

-----------------------------------------------------------------------------
(***************************************************************************)
(* Types, and nobody sleeps through an event.                              *)
(***************************************************************************)
EventTypeOK ==
  /\ events_irq \in {0, 1}
  /\ reader \in [Readers -> {"idle", "check", "asleep", "take"}]
  /\ events_user \in [Readers -> SUBSET {0, 1}]
  /\ beaten \subseteq Readers

EventInv == EventTypeOK /\ NoSleepThroughEvent

\* One step keeps the readers' invariant: the handler wakes whom it lets see
\* the first event, and a reader sleeps only if it saw none.
LEMMA EventStep == EventInv /\ [Next]_vars => EventInv'
<1> SUFFICES ASSUME EventInv, [Next]_vars PROVE EventInv'
  OBVIOUS
<1> USE DEF EventInv, EventTypeOK, NoSleepThroughEvent
<1>1. CASE UNCHANGED event
  BY <1>1 DEF event
<1>2. CASE Isr
  <2>1. CASE IsrTest
    BY <2>1 DEF IsrTest, Record, Woken, event
  <2>2. QED
    BY <1>1, <1>2, <2>1 DEF Isr, IsrEnter, IsrCall
<1>3. ASSUME NEW r \in Readers, EventsRead(r) PROVE EventInv'
  <2>1. CASE Read(r)
    BY <2>1 DEF Read, Move
  <2>2. CASE Wait(r)
    BY <2>2 DEF Wait, Move
  <2>3. CASE Signalled(r)
    BY <2>3 DEF Signalled, Move
  <2>4. CASE Take(r)
    BY <2>4 DEF Take, Move
  <2>5. QED
    BY <1>3, <2>1, <2>2, <2>3, <2>4 DEF EventsRead
<1>4. CASE UNCHANGED vars
  BY <1>1, <1>4 DEF vars, event
<1>5. CASE Raise \/ IsrControl \/ IsrRegister \/ Reset
  BY <1>1, <1>5 DEF Raise, IsrControl, Control, ControlMask, ControlWrite,
     IsrRegister, Register, RegisterDev, Reset, OfflineMask, OfflineTeardown,
     OnlineRead, OnlineWrite
<1>6. QED
  BY <1>2, <1>3, <1>4, <1>5 DEF Next

\* With any number of readers nobody sleeps through an event.
THEOREM NoSleep == Spec => []NoSleepThroughEvent
<1>1. Init => EventInv
  BY DEF Init, EventInv, EventTypeOK, NoSleepThroughEvent
<1>2. EventInv => NoSleepThroughEvent
  BY DEF EventInv
<1>3. QED
  BY <1>1, <1>2, EventStep, PTL DEF Spec

-----------------------------------------------------------------------------
(***************************************************************************)
(* Who is let through finds an event, or was beaten to it.                 *)
(***************************************************************************)
TakeInv ==
  /\ EventInv
  /\ \A r \in Readers : reader[r] = "take" => events_irq = 1 \/ r \in beaten
  /\ ReadReturnsEvent

\* One step keeps it: the one reader that zeroes events_irq beats the others.
LEMMA TakeStep == TakeInv /\ [Next]_vars => TakeInv'
<1> SUFFICES ASSUME TakeInv, [Next]_vars PROVE TakeInv'
  OBVIOUS
<1>0. EventInv'
  BY EventStep DEF TakeInv
<1> USE DEF TakeInv, EventInv, EventTypeOK, ReadReturnsEvent
<1>1. CASE UNCHANGED event
  BY <1>0, <1>1 DEF event
<1>2. CASE Isr
  <2>1. CASE IsrTest
    BY <1>0, <2>1 DEF IsrTest, Record, Woken, event
  <2>2. QED
    BY <1>1, <1>2, <2>1 DEF Isr, IsrEnter, IsrCall
<1>3. ASSUME NEW r \in Readers, EventsRead(r) PROVE TakeInv'
  <2>1. CASE Read(r)
    BY <1>0, <2>1 DEF Read, Move
  <2>2. CASE Wait(r)
    BY <1>0, <2>2 DEF Wait, Move
  <2>3. CASE Signalled(r)
    BY <1>0, <2>3 DEF Signalled, Move
  <2>4. CASE Take(r)
    BY <1>0, <2>4 DEF Take, Move
  <2>5. QED
    BY <1>3, <2>1, <2>2, <2>3, <2>4 DEF EventsRead
<1>4. CASE UNCHANGED vars
  BY <1>1, <1>4 DEF vars, event
<1>5. CASE Raise \/ IsrControl \/ IsrRegister \/ Reset
  BY <1>1, <1>5 DEF Raise, IsrControl, Control, ControlMask, ControlWrite,
     IsrRegister, Register, RegisterDev, Reset, OfflineMask, OfflineTeardown,
     OnlineRead, OnlineWrite
<1>6. QED
  BY <1>2, <1>3, <1>4, <1>5 DEF Next

\* With any number of readers, a completed read returns an event unless
\* another reader took it in between; so a lone reader always gets one.
THEOREM ReadGetsEvent == Spec => []ReadReturnsEvent
<1>1. Init => TakeInv
  BY DEF Init, TakeInv, EventInv, EventTypeOK, NoSleepThroughEvent, ReadReturnsEvent
<1>2. TakeInv => ReadReturnsEvent
  BY DEF TakeInv
<1>3. QED
  BY <1>1, <1>2, TakeStep, PTL DEF Spec

-----------------------------------------------------------------------------
(***************************************************************************)
(* The enable bit is as asked if disable never meets a reset.              *)
(***************************************************************************)
Separate == ~MayReset \/ "disable" \notin Controls

EnableInv ==
  /\ user_int_enable \in BOOLEAN /\ mask_irq_user \in BOOLEAN
  /\ restore \in BOOLEAN
  /\ control \in Controls \cup {"none"}
  /\ ~MayReset => reset = "online"
  /\ MayReset => /\ mask_irq_user => control \in {"none", "enable"}
                 /\ user_int_enable \/ restore => mask_irq_user
  /\ mask_irq_user /\ control = "none" =>
       /\ reset = "online" => user_int_enable
       /\ reset = "restore" => restore \/ user_int_enable
  /\ ~mask_irq_user /\ control = "none" => ~user_int_enable

\* One step keeps the mask and the enable bit in agreement.
LEMMA EnableStep == Separate /\ EnableInv /\ [Next]_vars => EnableInv'
<1> SUFFICES ASSUME Separate, EnableInv, [Next]_vars PROVE EnableInv'
  OBVIOUS
<1> USE DEF EnableInv, Separate
<1>1. CASE UNCHANGED <<ctl, rst>>
  BY <1>1 DEF ctl, rst
<1>2. CASE IsrControl
  <2>1. ASSUME NEW op \in Controls, Control(op) PROVE EnableInv'
    BY <2>1 DEF Control, rst
  <2>2. CASE ControlMask
    BY <2>2 DEF ControlMask, Enables, rst
  <2>3. CASE ControlWrite
    BY <2>3 DEF ControlWrite, Enables, rst
  <2>4. QED
    BY <1>2, <2>1, <2>2, <2>3 DEF IsrControl
<1>3. CASE Reset
  <2>1. CASE OfflineMask
    BY <2>1 DEF OfflineMask
  <2>2. CASE OfflineTeardown
    BY <2>2 DEF OfflineTeardown
  <2>3. CASE OnlineRead
    BY <2>3 DEF OnlineRead, ctl
  <2>4. CASE OnlineWrite
    BY <2>4 DEF OnlineWrite
  <2>5. QED
    BY <1>3, <2>1, <2>2, <2>3, <2>4 DEF Reset
<1>4. CASE UNCHANGED vars
  BY <1>1, <1>4 DEF vars, ctl, rst
<1>5. CASE Raise \/ Isr \/ IsrRegister \/ \E r \in Readers : EventsRead(r)
  BY <1>1, <1>5 DEF Raise, Isr, IsrEnter, IsrTest, IsrCall, IsrRegister,
     Register, RegisterDev, EventsRead, Read, Wait, Signalled, Take
<1>6. QED
  BY <1>2, <1>3, <1>4, <1>5 DEF Next

\* The enable bit is what the last enable or disable asked for, unless a
\* disable can overlap a reset.
THEOREM EnabledAsAsked == Separate => (Spec => []EnableIsAsAsked)
<1> SUFFICES ASSUME Separate PROVE Spec => []EnableIsAsAsked
  OBVIOUS
<1>0. EnableInv /\ [Next]_vars => EnableInv'
  BY EnableStep
<1>1. Init => EnableInv
  BY DEF Init, EnableInv
<1>2. EnableInv => EnableIsAsAsked
  BY DEF EnableInv, EnableIsAsAsked
<1>3. QED
  BY <1>0, <1>1, <1>2, PTL DEF Spec

-----------------------------------------------------------------------------
(***************************************************************************)
(* Registration at any time.                                               *)
(***************************************************************************)
DevInv ==
  /\ registering \in Client \cup {"none"}
  /\ registering = "none" => handler = dev
  /\ registering # "none" => handler = registering
  /\ isr \in {"idle", "test", "call"}
  /\ isr = "call" => /\ {loaded, handler, dev} \subseteq during
                     /\ during # {NoClient}
  /\ CalledAsRegistered

\* One step keeps handler and dev among the registrations in force.
LEMMA DevStep == DevInv /\ [Next]_vars => DevInv'
<1> SUFFICES ASSUME DevInv, [Next]_vars PROVE DevInv'
  OBVIOUS
<1> USE DEF DevInv, CalledAsRegistered
<1>1. CASE UNCHANGED <<reg, isr, loaded, during, called>>
  BY <1>1 DEF reg
<1>2. CASE Isr
  <2>1. CASE IsrEnter
    BY <2>1 DEF IsrEnter, reg
  <2>2. CASE IsrTest
    BY <2>2 DEF IsrTest, InForce, reg
  <2>3. CASE IsrCall
    BY <2>3 DEF IsrCall, reg
  <2>4. QED
    BY <1>2, <2>1, <2>2, <2>3 DEF Isr
<1>3. CASE IsrRegister
  <2>1. ASSUME NEW c \in Client, Register(c) PROVE DevInv'
    BY <2>1 DEF Register, irq
  <2>2. CASE RegisterDev
    BY <2>2 DEF RegisterDev, irq, irqs
  <2>3. QED
    BY <1>3, <2>1, <2>2 DEF IsrRegister
<1>4. CASE UNCHANGED vars
  BY <1>1, <1>4 DEF vars, reg
<1>5. CASE IsrControl \/ Reset
  BY <1>1, <1>5 DEF IsrControl, Control, ControlMask, ControlWrite, Reset,
     OfflineMask, OfflineTeardown, OnlineRead, OnlineWrite, irq, irqs
<1>6. CASE Raise \/ \E r \in Readers : EventsRead(r)
  BY <1>1, <1>6 DEF Raise, EventsRead, Read, Wait, Signalled, Take, irq, irqs
<1>7. QED
  BY <1>2, <1>3, <1>4, <1>5, <1>6 DEF Next

\* Whenever clients register, also while the interrupt is being serviced, a
\* call uses only what was registered in the course of it.
THEOREM AnyTimeRegister == Spec => []CalledAsRegistered
<1>1. Init => DevInv
  BY DEF Init, DevInv, CalledAsRegistered
<1>2. DevInv => CalledAsRegistered
  BY DEF DevInv
<1>3. QED
  BY <1>1, <1>2, DevStep, PTL DEF Spec
=============================================================================
