-------------------------- MODULE DeviceLifecycle --------------------------
(***************************************************************************)
(* The life of one XDMA device in the driver: probe_one, which opens the   *)
(* device (xdma_device_open) and creates its character device nodes        *)
(* (xpdev_create_interfaces), the offline and online hooks, and remove_one,*)
(* which undoes all of it.  Any call into the kernel may fail where Faults *)
(* says so, and every failure path of the code is followed to its end.     *)
(* "ioctl" stands for XDMA_IOCOFFLINE and XDMA_IOCONLINE, which user space *)
(* may call out of turn.                                                   *)
(*                                                                         *)
(* The driver is in interrupt mode (poll_mode = 0) with MSI or MSI-X, and  *)
(* its class exists, as xdma_mod_init guarantees.  A step of probe_one     *)
(* that cannot fail once the device is open (the limits, which             *)
(* xdma_device_open has already enforced, and the look up of the device it *)
(* has just listed) is not a step here.                                    *)
(***************************************************************************)
EXTENDS Naturals, Sequences, Functions

CONSTANTS MAX_USER_IRQ, XDMA_CHANNEL_NUM_MAX,
          Faults    \* the places where a call of the code may fail

Places == {"xdev", "enabled", "regions", "bars", "mask", "vectors",
           "first irq", "later irq", "chrdev", "group head", "inside group",
           "slot reset", "online irq", "ioctl"}

ASSUME LimitsAssumption == /\ MAX_USER_IRQ \in Nat \ {0}
                           /\ XDMA_CHANNEL_NUM_MAX \in Nat \ {0}
ASSUME FaultsAssumption == Faults \subseteq Places

VARIABLES
  dev,      \* the hardware found: channels, optional BARs, MSI-X capability
  pc,       \* where the driver is with this device
  step,     \* the next stage of the open, or the next node to create
  held,     \* what xdma_device_open has acquired
  irqs,     \* the interrupt vectors with a handler installed
  flags,    \* xpdev->flags: the complete groups of nodes
  major,    \* is xpdev->major set?
  region,   \* is the region of device numbers registered?
  live,     \* the character devices that users can open
  hook,     \* the PCI recovery in progress
  again,    \* history: something was released that was not held
  failed    \* history: the faults that have occurred

vars == <<dev, pc, step, held, irqs, flags, major, region, live, hook, again,
          failed>>
-----------------------------------------------------------------------------
Channels == 0 .. XDMA_CHANNEL_NUM_MAX

(* What probe_engines, identify_bars and msi_msix_capable find. *)
Devices == [h2c : Channels, c2h : Channels, bypass : BOOLEAN,
            user : BOOLEAN, msix : BOOLEAN]

(***************************************************************************)
(* The nodes in the order of xpdev_create_interfaces.                      *)
(***************************************************************************)
Each(type, count) == [i \in 1 .. count |-> <<type, i - 1>>]
One(type) == << <<type, 0>> >>
If(present, nodes) == IF present THEN nodes ELSE <<>>

Plan == One("CTRL") \o Each("EVENTS", MAX_USER_IRQ)
        \o Each("H2C", dev.h2c) \o Each("C2H", dev.c2h)
        \o If(dev.bypass, Each("BYPASS_H2C", dev.h2c)
                          \o Each("BYPASS_C2H", dev.c2h) \o One("BYPASS"))
        \o If(dev.user, One("USER") \o One("XVC"))

(* The XDF_CDEV flag that stands for a node. *)
Group(node) ==
  CASE node[1] \in {"H2C", "C2H"} -> "SG"
    [] node[1] \in {"BYPASS_H2C", "BYPASS_C2H", "BYPASS"} -> "BYPASS"
    [] OTHER -> node[1]

(* The minor number create_xcdev gives to a node. *)
Minor(node) ==
  CASE node[1] = "USER"       -> 0
    [] node[1] = "CTRL"       -> 1
    [] node[1] = "XVC"        -> 2
    [] node[1] = "EVENTS"     -> 10 + node[2]
    [] node[1] = "H2C"        -> 32 + node[2]
    [] node[1] = "C2H"        -> 36 + node[2]
    [] node[1] = "BYPASS_H2C" -> 64 + node[2]
    [] node[1] = "BYPASS_C2H" -> 68 + node[2]
    [] node[1] = "BYPASS"     -> 100
XDMA_MINOR_BASE == 0
XDMA_MINOR_COUNT == 255

(***************************************************************************)
(* Interrupt vectors: one per channel and user with MSI-X, else one.       *)
(***************************************************************************)
ChannelVectors == dev.h2c + dev.c2h
Vectors == 1 .. (IF dev.msix THEN ChannelVectors + MAX_USER_IRQ ELSE 1)

(* irq_setup: the vectors requested when it returns, some request having   *)
(* failed or none.  A failure among the user vectors gives the user        *)
(* vectors back, one among the channel vectors gives nothing back.  A      *)
(* vector in use cannot be requested again.                                *)
irq_setup ==
  IF irqs # {} THEN {irqs}
  ELSE {Vectors, {}} \cup
       {1 .. k : k \in 1 .. (IF dev.msix THEN ChannelVectors ELSE 0)}

(* irq_teardown frees every vector, requested or not. *)
irq_teardown == /\ irqs' = irqs \ Vectors
                /\ again' = (again \/ ~ (Vectors \subseteq irqs))
-----------------------------------------------------------------------------
Init ==
  /\ dev \in Devices
  /\ pc = "absent" /\ step = 1 /\ held = {} /\ irqs = {}
  /\ flags = {} /\ major = FALSE /\ region = FALSE /\ live = {}
  /\ hook = "none" /\ again = FALSE /\ failed = {}

(* A fault that the instance allows occurs. *)
Occurs(fault) == fault \in Faults /\ failed' = failed \cup {fault}

NodesSame == UNCHANGED <<flags, major, region, live>>

(* xpdev_alloc: a zeroed book keeping structure. *)
Probe ==
  /\ pc = "absent"
  /\ pc' = "open" /\ step' = 1
  /\ UNCHANGED <<dev, held, irqs, hook, again, failed>> /\ NodesSame

(***************************************************************************)
(* xdma_device_open, one stage at a time, each with its failure.           *)
(***************************************************************************)
Stages == <<"xdev", "list", "enabled", "regions", "bars", "mask", "engines",
            "vectors">>

OpenStage ==
  /\ pc = "open" /\ step <= Len(Stages)
  /\ held' = held \cup {Stages[step]}
  /\ step' = step + 1
  /\ UNCHANGED <<dev, pc, irqs, hook, again, failed>> /\ NodesSame

(* Mutant: goto one label too far down. *)
Unwound_OneLess == {Stages[k] : k \in 1 .. step - 2}

(* The labels of xdma_device_open undo the stages before the one that      *)
(* failed; a device whose regions are taken is in use and stays enabled.   *)
Unwound == {Stages[k] : k \in 1 .. step - 1}
Kept == IF step <= Len(Stages) /\ Stages[step] = "regions"
        THEN {"enabled"} ELSE {}

OpenFail ==
  /\ pc = "open" /\ step <= Len(Stages) /\ Occurs(Stages[step])
  /\ held' = (held \ Unwound) \cup Kept
  /\ pc' = "gone"
  /\ UNCHANGED <<dev, step, irqs, hook, again>> /\ NodesSame

(* irq_setup, the last stage; probe_one then enables the user interrupts.  *)
OpenIrqs ==
  /\ pc = "open" /\ step = Len(Stages) + 1
  /\ irqs' \in irq_setup
  /\ \/ /\ irqs' = Vectors
        /\ pc' = "create" /\ step' = 1 /\ UNCHANGED <<held, failed>>
     \/ /\ irqs' # Vectors
        /\ Occurs(IF irqs' = {} THEN "first irq" ELSE "later irq")
        /\ held' = held \ Unwound
        /\ pc' = "gone" /\ UNCHANGED step
  /\ UNCHANGED <<dev, hook, again>> /\ NodesSame

(***************************************************************************)
(* xpdev_create_interfaces, one call of create_xcdev at a time.            *)
(***************************************************************************)
CreateNode ==
  /\ pc = "create" /\ step <= Len(Plan)
  /\ LET node == Plan[step]
     IN /\ live' = live \cup {node}
        /\ flags' = IF \E i \in step + 1 .. Len(Plan) :
                         Group(Plan[i]) = Group(node)
                    THEN flags ELSE flags \cup {Group(node)}
  /\ major' = TRUE /\ region' = (region \/ ~ major)
  /\ step' = step + 1
  /\ UNCHANGED <<dev, pc, held, irqs, hook, again, failed>>

(* Is the node the first of its group? *)
NodeFault(node) ==
  IF \E i \in 1 .. step - 1 : Group(Plan[i]) = Group(node)
  THEN "inside group" ELSE "group head"

(* The region cannot be allocated. *)
CreateNoRegion ==
  /\ pc = "create" /\ ~ major /\ Occurs("chrdev")
  /\ pc' = "unwind"
  /\ UNCHANGED <<dev, step, held, irqs, hook, again>> /\ NodesSame

(* config_kobject fails, or cdev_add does: unregister_chrdev_region then   *)
(* drops a region that starts at the node's own number, if there is one.   *)
CreateFail ==
  /\ pc = "create" /\ step <= Len(Plan) /\ Occurs(NodeFault(Plan[step]))
  /\ major' = TRUE
  /\ \/ region' = (region \/ ~ major)
     \/ region' = ((region \/ ~ major) /\ Minor(Plan[step]) # XDMA_MINOR_BASE)
  /\ pc' = "unwind"
  /\ UNCHANGED <<dev, step, held, irqs, flags, live, hook, again>>

CreateDone ==
  /\ pc = "create" /\ step = Len(Plan) + 1
  /\ pc' = "up"
  /\ UNCHANGED <<dev, step, held, irqs, hook, again, failed>> /\ NodesSame

(* xpdev_destroy_interfaces, called when the creation fails and by         *)
(* xpdev_free; destroy_xcdev deletes every node of a flagged group.        *)
Destroyed == {node \in Range(Plan) : Group(node) \in flags}

DestroyInterfaces ==
  /\ pc \in {"unwind", "free"}
  /\ live' = live \ Destroyed
  /\ again' = (again \/ ~ (Destroyed \subseteq live))
  /\ region' = (region /\ ~ major)
  /\ pc' = IF pc = "unwind" THEN "free" ELSE "close"
  /\ UNCHANGED <<dev, step, held, irqs, flags, major, hook, failed>>

(* remove_one, between recoveries or after one that failed. *)
RemoveOne ==
  /\ pc = "up" /\ hook \in {"none", "dead"}
  /\ pc' = "free"
  /\ UNCHANGED <<dev, step, held, irqs, hook, again, failed>> /\ NodesSame

(* xdma_device_close, and the end of xpdev_free. *)
Close ==
  /\ pc = "close"
  /\ irqs' = irqs \ Vectors
  /\ again' = (again \/ ~ (Vectors \subseteq irqs) \/ "enabled" \notin held)
  /\ held' = {} /\ pc' = "gone"
  /\ UNCHANGED <<dev, step, hook, failed>> /\ NodesSame

(***************************************************************************)
(* A device in service: the PCI recovery hooks and the two ioctls.         *)
(***************************************************************************)
ServiceSame == UNCHANGED <<dev, pc, step>> /\ NodesSame

(* Mutant: the handlers are not installed again. *)
xdma_device_online_NoSetup == UNCHANGED <<irqs, again, failed>>

(* xdma_device_online ignores the outcome of irq_setup. *)
xdma_device_online ==
  /\ irqs' \in irq_setup /\ UNCHANGED again
  /\ \/ irqs' = Vectors /\ UNCHANGED failed
     \/ irqs' # Vectors /\ Occurs("online irq")

ResetPrepare ==
  /\ pc = "up" /\ hook = "none" /\ hook' = "reset"
  /\ irq_teardown /\ UNCHANGED <<held, failed>> /\ ServiceSame

ResetDone ==
  /\ pc = "up" /\ hook = "reset" /\ hook' = "none"
  /\ xdma_device_online /\ UNCHANGED held /\ ServiceSame

(* xdma_error_detected in the frozen state. *)
ErrorFrozen ==
  /\ pc = "up" /\ hook = "none" /\ hook' = "slot"
  /\ irq_teardown /\ held' = held \ {"enabled"}
  /\ UNCHANGED failed /\ ServiceSame

(* Mutant: the PCI device is not enabled again. *)
SlotReset_NoEnable ==
  /\ pc = "up" /\ hook = "slot" /\ hook' = "none"
  /\ irqs' = Vectors /\ UNCHANGED <<held, again, failed>> /\ ServiceSame

SlotReset ==
  /\ pc = "up" /\ hook = "slot" /\ hook' = "none"
  /\ held' = held \cup {"enabled"}
  /\ xdma_device_online /\ ServiceSame

(* pci_enable_device_mem fails: the device is given up and later removed. *)
SlotResetFail ==
  /\ pc = "up" /\ hook = "slot" /\ Occurs("slot reset") /\ hook' = "dead"
  /\ UNCHANGED <<held, irqs, again>> /\ ServiceSame

IoctlOffline == /\ pc = "up" /\ Occurs("ioctl") /\ irq_teardown
                /\ UNCHANGED <<held, hook>> /\ ServiceSame
IoctlOnline == /\ pc = "up" /\ Occurs("ioctl") /\ UNCHANGED again
               /\ irqs' \in irq_setup
               /\ irqs' # Vectors => "online irq" \in Faults
               /\ UNCHANGED <<held, hook>> /\ ServiceSame

Next == \/ Probe \/ OpenStage \/ OpenFail \/ OpenIrqs
        \/ CreateNode \/ CreateNoRegion \/ CreateFail \/ CreateDone
        \/ DestroyInterfaces \/ RemoveOne \/ Close
        \/ ResetPrepare \/ ResetDone \/ ErrorFrozen \/ SlotReset
        \/ SlotResetFail \/ IoctlOffline \/ IoctlOnline

Spec == Init /\ [][Next]_vars
-----------------------------------------------------------------------------
(***************************************************************************)
(* Properties.                                                             *)
(***************************************************************************)

Clean == /\ live = {} /\ irqs = {} /\ ~ region
         /\ held = {} \/ held = Kept

(* When the driver is done with the device, by remove_one or by a failed   *)
(* probe_one, no node, interrupt handler, device number or PCI resource of *)
(* it is left (libxdma_api.h:70 "release all resources"); only a device    *)
(* found in use stays enabled.                                             *)
NothingLeft == pc = "gone" => Clean

(* The faults whose paths do not undo everything: a node inside its group, *)
(* and an interrupt vector after the first.                                *)
Leaky == {"inside group", "later irq"}

(* The faults after which the code releases what it has released before.   *)
Repeating == {"group head", "inside group", "slot reset", "online irq",
              "ioctl"}

(* Nothing is left behind unless one of the two leaky faults occurred,     *)
(* whichever other stage of open, creation, recovery or removal failed.    *)
CleanUnlessLeaky == pc = "gone" /\ failed \cap Leaky = {} => Clean

(* destroy_xcdev, free_irq and pci_disable_device are only called for what *)
(* exists, except after a fault that repeats a release.                    *)
ReleasedOnce == again => failed \cap Repeating # {}

(* A device in service and not in recovery has all its nodes, each under a *)
(* minor of its own inside the region, its PCI device enabled and a        *)
(* handler on every vector, after any sequence of resets whose request_irq *)
(* calls succeed.                                                          *)
InService ==
  pc = "up" /\ hook = "none" =>
    /\ live = Range(Plan) /\ "enabled" \in held
    /\ IsInjective([node \in live |-> Minor(node)])
    /\ \A node \in live : Minor(node) < XDMA_MINOR_BASE + XDMA_MINOR_COUNT
    /\ irqs = Vectors \/ failed \cap {"online irq", "ioctl"} # {}
=============================================================================
