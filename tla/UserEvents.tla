----------------------------- MODULE UserEvents -----------------------------
(***************************************************************************)
(* One user interrupt of the XDMA driver: the interrupt handler            *)
(* user_irq_service, the event device /dev/xdma*_events_* that user space  *)
(* reads, the kernel interface by which another driver registers a handler *)
(* of its own, enables and disables the interrupt, and what a device reset *)
(* does to the interrupt.  A handler and its dev argument are both named   *)
(* by the client that registers them.                                      *)
(***************************************************************************)
EXTENDS Naturals

CONSTANTS Readers,       \* tasks that read the event device
          Clients,       \* drivers that register a handler
          NoClient,      \* no handler: a NULL pointer
          Controls,      \* the calls made: "enable" and perhaps "disable"
          MaxRegister,   \* bound: calls of xdma_user_isr_register
          MayReset       \* the device may go offline and online again

ASSUME ClientsAssumption == /\ NoClient \notin Clients
                            /\ "none" \notin Clients \cup {NoClient}
ASSUME CallsAssumption == /\ Controls \subseteq {"enable", "disable"}
                          /\ MaxRegister \in Nat
                          /\ MayReset \in BOOLEAN

VARIABLES
  raised,         \* the user logic has raised its interrupt
  user_int_enable,\* the enable bit in the interrupt controller
  mask_irq_user,  \* xdev->mask_irq_user
  control,        \* the call of enable or disable in progress
  handler, dev,   \* user_irq->handler, user_irq->dev
  registering,    \* the client whose registration is half done
  registered,     \* xdma_user_isr_register calls made
  isr,            \* progress of user_irq_service
  loaded,         \* the handler it has loaded
  during,         \* history: registrations in force in the course of a call
  called,         \* the last interrupt's call of a handler, if any
  events_irq,     \* user_irq->events_irq
  reader,         \* where each reader is
  events_user,    \* what its read has returned
  beaten,         \* history: let through for an event that another one took
  reset,          \* progress of xdma_device_offline / _online
  restore         \* the mask that xdma_device_online is about to write

ctl   == <<user_int_enable, mask_irq_user, control>>
reg   == <<handler, dev, registering, registered>>
irq   == <<raised, isr, loaded, called>>
irqs  == <<irq, during>>
event == <<events_irq, reader, events_user, beaten>>
rst   == <<reset, restore>>
vars  == <<raised, user_int_enable, mask_irq_user, control, handler, dev,
           registering, registered, isr, loaded, during, called, events_irq,
           reader, events_user, beaten, reset, restore>>

Client == Clients \cup {NoClient}

Init ==
  /\ raised = FALSE
  /\ user_int_enable = FALSE
  /\ mask_irq_user = FALSE
  /\ control = "none"
  /\ handler = NoClient /\ dev = NoClient
  /\ registering = "none"
  /\ registered = 0
  /\ isr = "idle"
  /\ loaded = NoClient
  /\ during = {}
  /\ called = {}
  /\ events_irq = 0
  /\ reader = [r \in Readers |-> "idle"]
  /\ events_user = [r \in Readers |-> {}]
  /\ beaten = {}
  /\ reset = "online"
  /\ restore = FALSE

-----------------------------------------------------------------------------
(***************************************************************************)
(* The interrupt.                                                          *)
(***************************************************************************)

\* The user logic in the FPGA (external).
Raise ==
  /\ ~raised
  /\ raised' = TRUE
  /\ UNCHANGED <<isr, loaded, during, called, ctl, reg, event, rst>>

\* xdma_isr() or xdma_user_irq() enters user_irq_service().
IsrEnter ==
  /\ raised
  /\ user_int_enable
  /\ reset # "offline"
  /\ isr = "idle"
  /\ raised' = FALSE
  /\ isr' = "test"
  /\ called' = {}
  /\ UNCHANGED <<loaded, during, ctl, reg, event, rst>>

\* wake_up_interruptible(): everyone asleep looks at the condition again.
Woken == [r \in Readers |-> IF reader[r] = "asleep" THEN "check" ELSE reader[r]]

\* The event is recorded under events_lock.
\* Mutant: nobody is woken.
RecordSilent ==
  /\ events_irq' = 1
  /\ UNCHANGED <<reader, events_user, beaten>>
Record ==
  /\ events_irq' = 1
  /\ reader' = IF events_irq = 0 THEN Woken ELSE reader
  /\ UNCHANGED <<events_user, beaten>>

\* The registrations in force: the last one, and until that one has stored its
\* dev the one before it too.
InForce == {handler} \cup (IF registering = "none" THEN {} ELSE {dev})

\* user_irq_service(): "if (user_irq->handler)", else the event.
IsrTest ==
  /\ isr = "test"
  /\ loaded' = handler
  /\ IF handler = NoClient
     THEN isr' = "idle" /\ during' = {} /\ Record
     ELSE isr' = "call" /\ during' = InForce /\ UNCHANGED event
  /\ UNCHANGED <<raised, called, ctl, reg, rst>>

\* The call: handler and dev are plain loads; the handler that was tested may
\* be kept or loaded again.
IsrCall ==
  /\ isr = "call"
  /\ \E h \in {loaded, handler} :
       called' = {[handler |-> h, dev |-> dev, during |-> during]}
  /\ isr' = "idle"
  /\ loaded' = NoClient
  /\ during' = {}
  /\ UNCHANGED <<raised, ctl, reg, event, rst>>

-----------------------------------------------------------------------------
(***************************************************************************)
(* char_events_read().                                                     *)
(***************************************************************************)
Move(r, to) == reader' = [reader EXCEPT ![r] = to]

Read(r) ==
  /\ reader[r] = "idle"
  /\ Move(r, "check")
  /\ events_user' = [events_user EXCEPT ![r] = {}]
  /\ beaten' = beaten \ {r}
  /\ UNCHANGED <<events_irq, ctl, reg, irqs, rst>>

\* wait_event_interruptible(), on its queue: the condition.
\* Mutant: an event is not noticed before sleeping.
WaitBlindly(r) ==
  /\ reader[r] = "check"
  /\ Move(r, "asleep")
  /\ UNCHANGED <<events_irq, events_user, beaten, ctl, reg, irqs, rst>>
Wait(r) ==
  /\ reader[r] = "check"
  /\ Move(r, IF events_irq # 0 THEN "take" ELSE "asleep")
  /\ UNCHANGED <<events_irq, events_user, beaten, ctl, reg, irqs, rst>>

\* A signal: -ERESTARTSYS.  Mutant: taken for a wake-up.
SignalIgnored(r) ==
  /\ reader[r] = "asleep"
  /\ Move(r, "take")
  /\ UNCHANGED <<events_irq, events_user, beaten, ctl, reg, irqs, rst>>
Signalled(r) ==
  /\ reader[r] = "asleep"
  /\ Move(r, "idle")
  /\ UNCHANGED <<events_irq, events_user, beaten, ctl, reg, irqs, rst>>

\* Under events_lock: decide which events are passed to the user.
Take(r) ==
  /\ reader[r] = "take"
  /\ events_user' = [events_user EXCEPT ![r] = {events_irq}]
  /\ events_irq' = 0
  /\ beaten' = IF events_irq = 0 THEN beaten
               ELSE beaten \cup {q \in Readers \ {r} : reader[q] = "take"}
  /\ Move(r, "idle")
  /\ UNCHANGED <<ctl, reg, irqs, rst>>

-----------------------------------------------------------------------------
(***************************************************************************)
(* The kernel interface, one call of each kind at a time.  Enable and      *)
(* disable change the mask first and the register second; probe_one()      *)
(* makes the first call of enable.                                         *)
(***************************************************************************)
Enables == control = "enable"

Control(op) ==
  /\ control = "none"
  /\ control' = op
  /\ UNCHANGED <<user_int_enable, mask_irq_user, reg, irqs, event, rst>>

ControlMask ==
  /\ control # "none"
  /\ mask_irq_user # Enables
  /\ mask_irq_user' = Enables
  /\ UNCHANGED <<user_int_enable, control, reg, irqs, event, rst>>

ControlWrite ==
  /\ control # "none"
  /\ mask_irq_user = Enables
  /\ user_int_enable' = Enables
  /\ control' = "none"
  /\ UNCHANGED <<mask_irq_user, reg, irqs, event, rst>>

\* xdma_user_isr_register(), at any time: the handler first (NULL takes it
\* back).
Register(c) ==
  /\ registering = "none"
  /\ registered < MaxRegister
  /\ registering' = c
  /\ registered' = registered + 1
  /\ handler' = c
  /\ during' = IF isr = "call" THEN during \cup {c} ELSE {}
  /\ UNCHANGED <<dev, ctl, irq, event, rst>>

\* xdma_user_isr_register(): dev second.  Mutant: only the first time.
RegisterDevOnce ==
  /\ registering # "none"
  /\ dev' = IF dev = NoClient THEN registering ELSE dev
  /\ registering' = "none"
  /\ UNCHANGED <<handler, registered, ctl, irqs, event, rst>>
RegisterDev ==
  /\ registering # "none"
  /\ dev' = registering
  /\ registering' = "none"
  /\ UNCHANGED <<handler, registered, ctl, irqs, event, rst>>

-----------------------------------------------------------------------------
(***************************************************************************)
(* The user interrupt in xdma_device_offline() and xdma_device_online().   *)
(***************************************************************************)

\* user_interrupts_disable(~0).
OfflineMask ==
  /\ MayReset
  /\ reset = "online"
  /\ user_int_enable' = FALSE
  /\ reset' = "masked"
  /\ UNCHANGED <<mask_irq_user, control, restore, reg, irqs, event>>

\* irq_teardown(): free_irq() waits for a running handler.  The function
\* reset that follows (external) masks the interrupt.
OfflineTeardown ==
  /\ reset = "masked"
  /\ isr = "idle"
  /\ user_int_enable' = FALSE
  /\ reset' = "offline"
  /\ UNCHANGED <<mask_irq_user, control, restore, reg, irqs, event>>

\* irq_setup(), then xdev->mask_irq_user is read as an argument.
\* Mutant: the mask is not restored.
OnlineReadNone ==
  /\ reset = "offline"
  /\ restore' = FALSE
  /\ reset' = "restore"
  /\ UNCHANGED <<ctl, reg, irqs, event>>
OnlineRead ==
  /\ reset = "offline"
  /\ restore' = mask_irq_user
  /\ reset' = "restore"
  /\ UNCHANGED <<ctl, reg, irqs, event>>

\* user_interrupts_enable(): write one to set.
OnlineWrite ==
  /\ reset = "restore"
  /\ user_int_enable' = (user_int_enable \/ restore)
  /\ reset' = "online"
  /\ UNCHANGED <<mask_irq_user, control, restore, reg, irqs, event>>

-----------------------------------------------------------------------------
Isr == IsrEnter \/ IsrTest \/ IsrCall

EventsRead(r) == Read(r) \/ Wait(r) \/ Signalled(r) \/ Take(r)

IsrControl == (\E op \in Controls : Control(op)) \/ ControlMask \/ ControlWrite

IsrRegister == (\E c \in Client : Register(c)) \/ RegisterDev

Reset == OfflineMask \/ OfflineTeardown \/ OnlineRead \/ OnlineWrite

Next ==
  \/ Raise
  \/ Isr
  \/ \E r \in Readers : EventsRead(r)
  \/ IsrControl
  \/ IsrRegister
  \/ Reset

Spec == Init /\ [][Next]_vars

\* The kernel runs interrupt handlers and runnable tasks.
Fairness == /\ WF_vars(Isr)
            /\ \A r \in Readers : WF_vars(Wait(r)) /\ WF_vars(Take(r))

FairSpec == Spec /\ Fairness

-----------------------------------------------------------------------------
(***************************************************************************)
(* Properties.                                                             *)
(***************************************************************************)

\* Nobody sleeps through an event: events_irq is raised and its waiters are
\* woken in one critical section (libxdma.c:1345), and later interrupts,
\* which wake nobody, find nobody asleep.
NoSleepThroughEvent ==
  \A r \in Readers : reader[r] = "asleep" => events_irq = 0

\* An event is passed to a reader, if one stays in char_events_read: also
\* when interrupts, signals and other readers come between.
EventIsTaken ==
  \A r \in Readers :
    (events_irq # 0 /\ reader[r] # "idle") ~> (events_irq = 0 \/ reader[r] = "idle")

\* A read that was not interrupted returns an event (cdev_events.c:52 "sleep
\* until any interrupt events have occurred"), unless another reader took the
\* event between the end of the wait and the lock.
ReadReturnsEvent == \A r \in Readers : 0 \in events_user[r] => r \in beaten

\* Handler and dev are stored and loaded one by one, without a lock.  Still,
\* what a call uses belongs to registrations in force in the course of that
\* call, from the test of the handler on: nothing of a client that was replaced
\* or taken back before is used, and a handler whose registration no other one
\* overlaps gets its own dev and is not NULL (libxdma_api.h:99-102).
CalledAsRegistered ==
  \A k \in called : /\ {k.handler, k.dev} \subseteq k.during
                    /\ k.during # {NoClient}

\* While nobody is changing it, the enable bit is what the last call of
\* xdma_user_isr_enable or _disable asked for, also after a reset.
EnableIsAsAsked ==
  control = "none" /\ reset = "online" => user_int_enable = mask_irq_user
=============================================================================
