----------------------------- MODULE ClockSetup -----------------------------
(***************************************************************************)
(* Programming the Si5324 clock generator over I2C, which the 10ge_recv    *)
(* and the UDP client firmware do first: I2cSetupHardware, MuxInit, then   *)
(* one I2cWriteData per entry of InitTable.  The program waits on flags    *)
(* that StatusHandler sets from the interrupt; the I2C controller, the     *)
(* multiplexer and the chip are external.                                  *)
(***************************************************************************)
EXTENDS Naturals, Sequences

CONSTANTS TableLen    \* sizeof(InitTable)/8

ASSUME TableAssumption == TableLen \in Nat \ {0}

Designs == {"10ge_recv", "axi_dma_poll", "udp_client"}

VARIABLES
  design,           \* the firmware that is loaded
  prog,             \* where ProgramSi5324 is; "ok" or "failed": its result
  index,            \* what it writes: 0 the multiplexer, i the i-th entry
  TransmitComplete,
  TotalErrorCount,
  bus,              \* the I2C bus: "free", "busy", or "stopping"
  irq,              \* the event the controller has to report, or "none"
  channel,          \* the channel that the multiplexer passes on
  chip              \* the entries the Si5324 has taken, in order

clock == <<prog, index, TransmitComplete, TotalErrorCount, bus, irq, channel,
           chip>>

ClockInit ==
  /\ prog = IF design = "axi_dma_poll" THEN "ok" ELSE "setup"
  /\ index = 0
  /\ TransmitComplete = FALSE
  /\ TotalErrorCount = 0
  /\ bus = "free"
  /\ irq = "none"
  /\ channel \in {"none", "other"}
  /\ chip = <<>>

ClockDone == prog \in {"ok", "failed"}

-----------------------------------------------------------------------------
(***************************************************************************)
(* The program.                                                            *)
(***************************************************************************)

\* SetupInterruptSystem: the handler is connected and enabled, or not.
SetupInterruptSystem == {"send", "failed"}

\* I2cSetupHardware: the calls before it may fail too.
I2cSetupHardware ==
  /\ prog = "setup"
  /\ prog' \in {"failed"} \cup SetupInterruptSystem
  /\ TotalErrorCount' = 0
  /\ TransmitComplete' = FALSE
  /\ UNCHANGED <<design, index, bus, irq, channel, chip>>

\* XIicPs_MasterSend sets off a transfer, unless the bus is busy (external).
MasterSend == bus' = IF bus = "free" THEN "busy" ELSE bus

\* I2cWriteData: "I2cLibPtr->TransmitComplete = FALSE", then the transfer.
\* Mutant: the flag of the previous transfer is left standing.
SendKeepsFlag ==
  /\ prog = "send"
  /\ MasterSend
  /\ prog' = "wait"
  /\ UNCHANGED <<design, index, TransmitComplete, TotalErrorCount, irq,
                 channel, chip>>
Send ==
  /\ prog = "send"
  /\ TransmitComplete' = FALSE
  /\ MasterSend
  /\ prog' = "wait"
  /\ UNCHANGED <<design, index, TotalErrorCount, irq, channel, chip>>

\* I2cWriteData: the two tests of the wait loop.
WaitSent ==
  /\ prog = "wait"
  /\ IF TransmitComplete THEN prog' = "idle"
     ELSE TotalErrorCount > 0 /\ prog' = "failed"
  /\ UNCHANGED <<design, index, TransmitComplete, TotalErrorCount, bus, irq,
                 channel, chip>>

\* I2cWriteData returns when the bus is idle; MuxInit and the loop of
\* ProgramSi5324 go on to the next entry.
WaitIdle ==
  /\ prog = "idle"
  /\ bus = "free"
  /\ IF index = TableLen
     THEN prog' = "ok" /\ UNCHANGED index
     ELSE prog' = "send" /\ index' = index + 1
  /\ UNCHANGED <<design, TransmitComplete, TotalErrorCount, bus, irq, channel,
                 chip>>

\* StatusHandler, from XIicPs_MasterInterruptHandler.
StatusHandler ==
  /\ irq # "none"
  /\ irq' = "none"
  /\ IF irq = "complete send"
     THEN TransmitComplete' = TRUE /\ UNCHANGED TotalErrorCount
     ELSE TotalErrorCount' = TotalErrorCount + 1 /\ UNCHANGED TransmitComplete
  /\ UNCHANGED <<design, prog, index, bus, channel, chip>>

-----------------------------------------------------------------------------
(***************************************************************************)
(* The bus (external).                                                     *)
(***************************************************************************)

\* The byte for the multiplexer is stored in an array of no elements
\* (u8 WrBuffer[0]): the store is undefined behaviour, and what is sent is
\* the byte or what else shares its place.
MuxTakes ==
  /\ index = 0
  /\ channel' \in {"clock", "other"}
  /\ UNCHANGED chip

\* The Si5324 answers behind its channel only.
ChipTakes ==
  /\ index > 0
  /\ channel = "clock"
  /\ chip' = Append(chip, index)
  /\ UNCHANGED channel

Acknowledged ==
  /\ bus = "busy"
  /\ MuxTakes \/ ChipTakes
  /\ bus' = "stopping"
  /\ irq' = "complete send"
  /\ UNCHANGED <<design, prog, index, TransmitComplete, TotalErrorCount>>

\* No acknowledge, a lost arbitration, a time-out of the slave.
Refused ==
  /\ bus = "busy"
  /\ bus' = "stopping"
  /\ irq' = "error"
  /\ UNCHANGED <<design, prog, index, TransmitComplete, TotalErrorCount,
                 channel, chip>>

Stopped ==
  /\ bus = "stopping"
  /\ bus' = "free"
  /\ UNCHANGED <<design, prog, index, TransmitComplete, TotalErrorCount, irq,
                 channel, chip>>

-----------------------------------------------------------------------------
ProgramSi5324 == I2cSetupHardware \/ Send \/ WaitSent \/ WaitIdle

ClockStep == ProgramSi5324 \/ StatusHandler \/ Acknowledged \/ Refused \/ Stopped

-----------------------------------------------------------------------------
\* When ProgramSi5324 returns XST_SUCCESS the chip has taken every entry of
\* InitTable, once and in order (si5324.c), although the byte for the
\* multiplexer is undefined and each transfer is only known by a flag: no
\* transfer is dropped by a bus that was still busy, and none is taken for
\* done by the flag of the one before.
ClockProgrammed ==
  design # "axi_dma_poll" /\ prog = "ok" => chip = [i \in 1 .. TableLen |-> i]
=============================================================================
