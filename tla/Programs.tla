------------------------------ MODULE Programs ------------------------------
(***************************************************************************)
(* The programs around the boards, one at a time: the firmware of a board  *)
(* (two of the three program the clock generator first, then the AXI DMA   *)
(* loops or the UDP client with its server run), a DMA tool of the XDMA    *)
(* driver that moves a file, or debuggers that shift bits through the      *)
(* driver's virtual cable.                                                 *)
(***************************************************************************)
EXTENDS AxiDmaLoop, UdpClient, DmaTool, XvcShift

VARIABLE program    \* which one is looked at

vars == <<program, design, clock, dma, udp, tool, xvc>>

Init ==
  /\ program \in {"firmware", "tool", "cable"}
  /\ design \in Designs
  /\ ClockInit /\ DmaInit /\ UdpInit /\ ToolInit /\ XvcInit
  /\ program # "firmware" => design = "axi_dma_poll" /\ channel = "none"
  /\ program # "tool" => cmd = CHOOSE c \in Commands : TRUE

FirmwareIdle == UNCHANGED <<program, design, clock, dma, udp>>
HostIdle     == UNCHANGED <<program, tool, xvc>>

Clock  == program = "firmware" /\ ClockStep /\ UNCHANGED <<dma, udp>> /\ HostIdle
Dma    == program = "firmware" /\ DmaStep /\ UNCHANGED udp /\ HostIdle
Udp    == program = "firmware" /\ UdpStep /\ UNCHANGED dma /\ HostIdle
Tool   == program = "tool" /\ ToolStep /\ UNCHANGED xvc /\ FirmwareIdle
Cable  == program = "cable" /\ XvcStep /\ UNCHANGED tool /\ FirmwareIdle

Next == Clock \/ Dma \/ Udp \/ Tool \/ Cable

Spec == Init /\ [][Next]_vars

\* The processor runs the firmware and takes its interrupts; the bus moves.
\* The network does not lose every datagram, nor does every send fail.
Fairness ==
  /\ WF_vars(ProgramSi5324 /\ Clock)
  /\ WF_vars((Memset \/ AxiDmaInit \/ ClearFlags \/ StartTx \/ StartRx \/ Wait
               \/ Flush \/ Invalidate) /\ Dma)
  /\ \A c \in Channels : WF_vars(IntrHandler(c) /\ Dma)
  /\ WF_vars(UdpMain /\ Udp)
  /\ SF_vars(UdpSend(TRUE) /\ Udp)
  /\ SF_vars(ServerRecv("ready") /\ Udp)

FairSpec == Spec /\ Fairness
=============================================================================
