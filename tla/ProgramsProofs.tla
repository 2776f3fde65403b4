--------------------------- MODULE ProgramsProofs ---------------------------
(***************************************************************************)
(* Proofs about the programs around the boards, for every length of the    *)
(* clock table, every set of packets, every pool of buffers and every      *)
(* width of the cable's registers.                                         *)
(***************************************************************************)
EXTENDS Programs, SequenceTheorems, TLAPS

USE TableAssumption, PoolAssumption, WidthsAssumption

-----------------------------------------------------------------------------
(***************************************************************************)
(* The clock generator.                                                    *)
(***************************************************************************)

\* The first n entries of InitTable, in order.
Upto(n) == [k \in 1 .. n |-> k]

\* Where a transfer over I2C stands, and what the chip has then.
ClockInv ==
  design # "axi_dma_poll" =>
    /\ index \in 0 .. TableLen
    /\ bus \in {"free", "busy", "stopping"}
    /\ prog \in {"setup", "send", "wait", "idle", "ok", "failed"}
    /\ prog \in {"setup", "send"} =>
         bus = "free" /\ irq = "none" /\ chip = Upto(index - 1)
    /\ prog = "setup" => index = 0
    /\ prog = "wait" =>
         /\ bus = "busy" => /\ irq = "none" /\ ~TransmitComplete
                            /\ chip = Upto(index - 1)
         /\ irq = "complete send" => /\ bus # "busy" /\ ~TransmitComplete
                                     /\ chip = Upto(index)
         /\ TransmitComplete => /\ bus # "busy" /\ irq = "none"
                                /\ chip = Upto(index)
    /\ prog = "idle" => bus # "busy" /\ irq = "none" /\ chip = Upto(index)
    /\ prog = "ok" => bus # "busy" /\ chip = Upto(TableLen)

\* One more entry is taken after the others.
LEMMA UptoNext ==
  ASSUME NEW n \in Nat, n > 0
  PROVE  Append(Upto(n - 1), n) = Upto(n)
<1> DEFINE s == Upto(n - 1)
<1>1. s \in Seq(Nat) /\ Len(s) = n - 1 /\ DOMAIN s = 1 .. n - 1
  BY DEF Upto
<1>2. /\ Append(s, n) \in Seq(Nat) /\ Len(Append(s, n)) = n
      /\ \A k \in 1 .. n - 1 : Append(s, n)[k] = k
      /\ Append(s, n)[n] = n
  BY <1>1, AppendProperties DEF Upto
<1>3. Upto(n) \in Seq(Nat) /\ Len(Upto(n)) = n
  BY DEF Upto
<1> QED
  BY <1>2, <1>3, SeqEqual DEF Upto

\* Nothing has been taken yet.
LEMMA UptoZero == Upto(0 - 1) = <<>> /\ Upto(0) = <<>>
  BY DEF Upto

\* The handler and the bus keep the order of the transfer in progress.
LEMMA ClockKept == ASSUME ClockInv, ClockStep PROVE ClockInv'
<1> SUFFICES ASSUME design # "axi_dma_poll" PROVE ClockInv'
  BY DEF ClockInv, ClockStep, ProgramSi5324, I2cSetupHardware, Send, WaitSent,
     WaitIdle, StatusHandler, Acknowledged, Refused, Stopped
<1>1. CASE I2cSetupHardware
  BY <1>1 DEF I2cSetupHardware, SetupInterruptSystem, ClockInv
<1>2. CASE Send
  BY <1>2 DEF Send, MasterSend, ClockInv
<1>3. CASE WaitSent
  BY <1>3 DEF WaitSent, ClockInv
<1>4. CASE WaitIdle
  <2>1. CASE index = TableLen
    BY <1>4, <2>1 DEF WaitIdle, ClockInv
  <2>2. CASE index # TableLen
    <3>1. index \in 0 .. TableLen
      BY DEF ClockInv
    <3>2. index + 1 \in 0 .. TableLen /\ index + 1 - 1 = index
      BY <2>2, <3>1
    <3> QED
      BY <1>4, <2>2, <3>2 DEF WaitIdle, ClockInv
  <2> QED
    BY <2>1, <2>2
<1>5. CASE StatusHandler
  BY <1>5 DEF StatusHandler, ClockInv
<1>6. CASE Acknowledged
  <2>1. index \in 0 .. TableLen
    BY DEF ClockInv
  <2>2. chip = Upto(index - 1) => chip' = Upto(index)
    <3>1. CASE index = 0
      <4>0. ~(index > 0)
        BY <3>1
      <4>1. chip' = chip
        BY <1>6, <4>0 DEF Acknowledged, MuxTakes, ChipTakes
      <4> QED
        BY <3>1, <4>1, UptoZero, Zenon
    <3>2. CASE index # 0
      <4>1. chip' = Append(chip, index)
        BY <1>6, <3>2 DEF Acknowledged, MuxTakes, ChipTakes
      <4>2. Append(Upto(index - 1), index) = Upto(index)
        <5>1. index \in Nat /\ index > 0
          BY <2>1, <3>2
        <5> QED
          BY <5>1, UptoNext
      <4> QED
        BY <4>1, <4>2
    <3> QED
      BY <3>1, <3>2
  <2>3. /\ bus = "busy" /\ bus' = "stopping" /\ irq' = "complete send"
        /\ UNCHANGED <<design, prog, index, TransmitComplete>>
    BY <1>6 DEF Acknowledged
  <2>4. prog \in {"wait", "failed"}
    BY <2>3 DEF ClockInv
  <2> QED
    BY <2>2, <2>3, <2>4 DEF ClockInv
<1>7. CASE Refused \/ Stopped
  BY <1>7 DEF Refused, Stopped, ClockInv
<1> QED
  BY <1>1, <1>2, <1>3, <1>4, <1>5, <1>6, <1>7 DEF ClockStep, ProgramSi5324

-----------------------------------------------------------------------------
(***************************************************************************)
(* The AXI DMA loops.                                                      *)
(***************************************************************************)

Settled(c) == chan[c] \in {"idle", "halted"}

\* Types, and what the handlers and the flags say about the channels.
FlagInv ==
  /\ main \in {"off", "init", "input", "clear", "start tx", "start rx", "wait",
               "flush", "invalidate"}
  /\ chan \in [Channels -> {"idle", "running", "complete", "error", "halted"}]
  /\ done \in [Channels -> BOOLEAN]
  /\ error = [c \in Channels |-> FALSE]
  /\ \A c \in Channels : done[c] => Settled(c)
  /\ main \notin {"start rx", "wait"} => \A c \in Channels : Settled(c)
  /\ main = "start tx" => \A c \in Channels : ~done[c]
  /\ main = "start rx" => ~done["rx"] /\ Settled("rx")
  /\ ~Loopback => ~done["tx"] /\ chan["tx"] = "idle" /\ main \notin {"input", "start tx"}
  /\ main \in {"off", "init"} => received = 0 /\ chan["rx"] = "idle" /\ ~done["rx"]

\* The payload on its way from the cache to the fabric.
PayloadSent == sent = [p \in Payload |-> filled]
SendInv ==
  /\ DOMAIN txmem = Parts /\ DOMAIN txline = Parts
  /\ Loopback =>
     /\ main \in {"clear", "start tx"} =>
          \A p \in Payload : Cleaned(txmem[p], txline[p]) = filled
     /\ main \in {"start rx", "wait"} =>
          /\ \A p \in Payload : txline[p].state # "dirty" /\ txmem[p] = filled
          /\ chan["tx"] = "complete" => PayloadSent
          /\ chan["tx"] = "idle" /\ done["tx"] => PayloadSent
     /\ main \in {"flush", "invalidate"} /\ chan["tx"] = "idle" => PayloadSent

\* The receive buffer: the zeros of memset may be in the cache until the first
\* flush, and a line fetched meanwhile until the invalidate.
ReceiveInv ==
  /\ received \in 0 .. 2
  /\ Loopback => rxline = None /\ (received > 0 => rxmem = packet)
  /\ rxline.state = "dirty" =>
       /\ main \in {"init", "start rx", "wait", "flush"}
       /\ main \in {"init", "start rx"} => received = 0
       /\ received < 2
       /\ received = 1 => chan["rx"] # "running"
  /\ received = 2 => rxmem = packet
  /\ main \in {"invalidate", "clear"} /\ rxline.state = "clean" => rxline.val = rxmem
  /\ rxline.state \in {"none", "clean", "dirty"}

DmaInv == FlagInv /\ SendInv /\ ReceiveInv

\* The way of main() through its loops, in which no error is ever seen.
LEMMA AtFacts ==
  ASSUME FlagInv
  PROVE  /\ At("clear") => main = "clear" /\ main' = IF Loopback THEN "start tx" ELSE "start rx"
         /\ At("start tx") => main = "start tx" /\ main' = "start rx"
         /\ At("start rx") => main = "start rx" /\ main' = "wait"
         /\ At("wait") => main = "wait" /\ main' = "flush"
         /\ At("flush") => main = "flush" /\ main' = "invalidate"
         /\ At("invalidate") => /\ main = "invalidate"
                               /\ main' = IF Loopback THEN "input" ELSE "clear"
<1>1. ~Failed
  BY DEF FlagInv, Failed, Channels
<1> QED
  BY <1>1 DEF At, After

\* main() keeps the flags, the send buffer and the receive buffer in order.
LEMMA DmaMainKept == ASSUME DmaInv, DmaMain PROVE DmaInv'
<1> USE DEF Channels, Settled, Loopback, None, Line
<1>0. FlagInv /\ SendInv /\ ReceiveInv
  BY DEF DmaInv
<1>1. CASE Memset
  <2>1. FlagInv'
    BY <1>0, <1>1 DEF Memset, FlagInv
  <2>2. SendInv'
    BY <1>0, <1>1 DEF Memset, SendInv, PayloadSent
  <2>3. ReceiveInv'
    BY <1>0, <1>1 DEF Memset, FlagInv, ReceiveInv
  <2> QED
    BY <2>1, <2>2, <2>3 DEF DmaInv
<1>2. CASE AxiDmaInit
  <2>1. FlagInv'
    BY <1>0, <1>2 DEF AxiDmaInit, FlagInv, buffers
  <2>2. SendInv'
    BY <1>0, <1>2 DEF AxiDmaInit, SendInv, buffers, PayloadSent
  <2>3. ReceiveInv'
    <3>1. /\ main = "init" /\ main' = IF Loopback THEN "input" ELSE "start rx"
          /\ UNCHANGED <<design, chan, rxmem, rxline, packet, received>>
      BY <1>2 DEF AxiDmaInit, buffers
    <3>2. received = 0
      BY <1>0, <3>1 DEF FlagInv
    <3>3. Loopback => rxline = [state |-> "none"]
      BY <1>0 DEF ReceiveInv
    <3>4. Loopback => rxline.state = "none"
      BY <3>3
    <3> QED
      BY <1>0, <3>1, <3>2, <3>4 DEF ReceiveInv
  <2> QED
    BY <2>1, <2>2, <2>3 DEF DmaInv
<1>3. CASE Input
  <2>1. FlagInv'
    BY <1>0, <1>3 DEF Input, FlagInv
  <2>2. SendInv'
    <3>1. PICK d : filled' = d /\ txline' = [p \in Parts |-> Line("dirty", d)]
      BY <1>3 DEF Input
    <3>2. main' = "clear" /\ txmem' = txmem
      BY <1>3 DEF Input
    <3>3. DOMAIN txmem' = Parts /\ DOMAIN txline' = Parts
      BY <1>0, <3>1, <3>2 DEF SendInv
    <3>4. \A p \in Payload : Cleaned(txmem'[p], txline'[p]) = filled'
      BY <3>1 DEF Cleaned, Line, Payload, Parts
    <3> QED
      BY <3>2, <3>3, <3>4 DEF SendInv
  <2>3. ReceiveInv'
    BY <1>0, <1>3 DEF Input, ReceiveInv, FlagInv
  <2> QED
    BY <2>1, <2>2, <2>3 DEF DmaInv
<1>4. CASE ClearFlags
  <2>0. /\ main = "clear" /\ main' = IF Loopback THEN "start tx" ELSE "start rx"
        /\ UNCHANGED <<design, chan, error, buffers>> /\ done' = DoneCleared
    BY <1>0, <1>4, AtFacts DEF ClearFlags
  <2>1. FlagInv'
    BY <1>0, <2>0 DEF FlagInv, DoneCleared, buffers
  <2>2. SendInv'
    BY <1>0, <2>0 DEF SendInv, Cleaned, buffers, PayloadSent
  <2>3. ReceiveInv'
    BY <1>0, <2>0 DEF ReceiveInv, buffers
  <2> QED
    BY <2>1, <2>2, <2>3 DEF DmaInv
<1>5. CASE StartTx
  <2>0. /\ main = "start tx" /\ main' = "start rx"
        /\ txmem' = [p \in Parts |-> IF p \in Payload THEN Cleaned(txmem[p], txline[p])
                                     ELSE txmem[p]]
        /\ txline' = [p \in Parts |-> IF p \in Payload THEN None ELSE txline[p]]
        /\ chan' = chan \/ chan' = [chan EXCEPT !["tx"] = "running"]
        /\ UNCHANGED <<design, done, error, rxmem, rxline, filled, sent, packet,
                       received>>
    BY <1>0, <1>5, AtFacts DEF StartTx, Started
  <2>1. FlagInv'
    BY <1>0, <2>0 DEF FlagInv
  <2>2. SendInv'
    <3>1. DOMAIN txmem' = Parts /\ DOMAIN txline' = Parts
      BY <2>0
    <3>2. ASSUME Loopback', NEW p \in Payload
          PROVE  txline'[p].state # "dirty" /\ txmem'[p] = filled'
      <4>1. p \in Parts
        BY DEF Payload, Parts
      <4>2. txline'[p] = None /\ txmem'[p] = Cleaned(txmem[p], txline[p])
        BY <2>0, <4>1
      <4>3. Cleaned(txmem[p], txline[p]) = filled
        BY <1>0, <2>0, <3>2 DEF SendInv
      <4>4. filled' = filled
        BY <2>0
      <4> QED
        BY <4>2, <4>3, <4>4
    <3>3. ~done'["tx"] /\ chan'["tx"] # "complete"
      BY <1>0, <2>0 DEF FlagInv
    <3>4. main' = "start rx"
      BY <2>0
    <3> QED
      BY <3>1, <3>2, <3>3, <3>4 DEF SendInv
  <2>3. ReceiveInv'
    BY <1>0, <2>0 DEF ReceiveInv, FlagInv
  <2> QED
    BY <2>1, <2>2, <2>3 DEF DmaInv
<1>6. CASE StartRx
  <2>0. /\ main = "start rx" /\ main' = "wait"
        /\ chan' = chan \/ chan' = [chan EXCEPT !["rx"] = "running"]
        /\ UNCHANGED <<design, done, error, buffers>>
    BY <1>0, <1>6, AtFacts DEF StartRx, Started
  <2>1. FlagInv'
    BY <1>0, <2>0 DEF FlagInv, buffers
  <2>2. SendInv'
    BY <1>0, <2>0 DEF SendInv, FlagInv, buffers, PayloadSent
  <2>3. ReceiveInv'
    <3>1. UNCHANGED <<design, rxmem, rxline, packet, received>>
      BY <2>0 DEF buffers
    <3>2. rxline.state = "dirty" => received = 0
      BY <1>0, <2>0 DEF ReceiveInv
    <3>3. (rxline.state = "dirty")' =>
            /\ (main \in {"init", "start rx", "wait", "flush"})'
            /\ (main \in {"init", "start rx"} => received = 0)'
            /\ (received < 2)'
            /\ (received = 1 => chan["rx"] # "running")'
      <4>1. main' = "wait"
        BY <2>0
      <4>2. rxline' = rxline /\ received' = received
        BY <3>1
      <4> QED
        BY <3>2, <4>1, <4>2
    <3>4. ~(main \in {"invalidate", "clear"})'
      BY <2>0
    <3> QED
      BY <1>0, <3>1, <3>3, <3>4 DEF ReceiveInv
  <2> QED
    BY <2>1, <2>2, <2>3 DEF DmaInv
<1>7. CASE Wait
  <2>0. /\ main = "wait" /\ main' = "flush"
        /\ done["rx"] /\ (Loopback => done["tx"])
        /\ UNCHANGED <<design, chan, done, error, buffers>>
    BY <1>0, <1>7, AtFacts DEF Wait
  <2>1. FlagInv'
    BY <1>0, <2>0 DEF FlagInv, buffers
  <2>2. SendInv'
    BY <1>0, <2>0 DEF SendInv, buffers, PayloadSent
  <2>3. ReceiveInv'
    BY <1>0, <2>0 DEF ReceiveInv, buffers
  <2> QED
    BY <2>1, <2>2, <2>3 DEF DmaInv
<1>8. CASE Flush
  <2>0. /\ main = "flush" /\ main' = "invalidate"
        /\ rxmem' = Cleaned(rxmem, rxline) /\ rxline' = None
        /\ UNCHANGED <<design, chan, done, error, txmem, txline, filled, sent,
                       packet, received>>
    BY <1>0, <1>8, AtFacts DEF Flush
  <2>1. FlagInv'
    BY <1>0, <2>0 DEF FlagInv
  <2>2. SendInv'
    BY <1>0, <2>0 DEF SendInv, PayloadSent
  <2>3. ReceiveInv'
    BY <1>0, <2>0 DEF ReceiveInv, Cleaned
  <2> QED
    BY <2>1, <2>2, <2>3 DEF DmaInv
<1>9. CASE Invalidate
  <2>0. /\ main = "invalidate" /\ main' = IF Loopback THEN "input" ELSE "clear"
        /\ rxline' = None
        /\ UNCHANGED <<design, chan, done, error, txmem, txline, rxmem, filled,
                       sent, packet, received>>
    BY <1>0, <1>9, AtFacts DEF Invalidate
  <2>1. FlagInv'
    BY <1>0, <2>0 DEF FlagInv
  <2>2. SendInv'
    BY <1>0, <2>0 DEF SendInv, PayloadSent
  <2>3. ReceiveInv'
    BY <1>0, <2>0 DEF ReceiveInv
  <2> QED
    BY <2>1, <2>2, <2>3 DEF DmaInv
<1> QED
  BY <1>1, <1>2, <1>3, <1>4, <1>5, <1>6, <1>7, <1>8, <1>9 DEF DmaMain

\* A handler settles its channel and never sees an error: the mask it compares
\* with TRUE is not 1.
LEMMA HandlerKept ==
  ASSUME DmaInv, NEW c \in Channels, IntrHandler(c) PROVE DmaInv'
<1> USE DEF Channels, Settled, Loopback
<1>0. FlagInv /\ SendInv /\ ReceiveInv
  BY DEF DmaInv
<1>1. ~ErrorSeen(chan[c])
  BY DEF ErrorSeen, IRQ_ERROR_MASK
<1>2. /\ chan[c] \in {"complete", "error"}
      /\ done' = [done EXCEPT ![c] = TRUE]
      /\ chan' = [chan EXCEPT ![c] = IF chan[c] = "error" THEN "halted" ELSE "idle"]
      /\ UNCHANGED <<design, main, error, txmem, txline, rxmem, rxline, filled,
                     sent, packet, received>>
  BY <1>1 DEF IntrHandler, buffers
<1>3. main \in {"start rx", "wait"} /\ (main = "start rx" => c = "tx")
  BY <1>0, <1>2 DEF FlagInv
<1>4. FlagInv'
  BY <1>0, <1>2, <1>3 DEF FlagInv
<1>5. SendInv'
  BY <1>0, <1>2, <1>3 DEF SendInv, FlagInv, PayloadSent
<1>6. ReceiveInv'
  <2>1. chan'["rx"] = "running" => chan["rx"] = "running"
    BY <1>0, <1>2 DEF FlagInv
  <2>2. UNCHANGED <<design, main, rxmem, rxline, packet, received>>
    BY <1>2
  <2> QED
    BY <1>0, <2>1, <2>2 DEF ReceiveInv
<1> QED
  BY <1>4, <1>5, <1>6 DEF DmaInv

\* A transfer that ends with an error is not one of the round.
LEMMA FailKept ==
  ASSUME DmaInv, NEW c \in Channels, ChannelFails(c) PROVE DmaInv'
<1> USE DEF Channels, Settled, Loopback
<1>0. FlagInv /\ SendInv /\ ReceiveInv
  BY DEF DmaInv
<1>2. /\ chan[c] = "running"
      /\ chan' = [chan EXCEPT ![c] = "error"]
      /\ UNCHANGED <<design, main, done, error, txmem, txline, rxmem, rxline,
                     filled, sent, packet, received>>
  BY DEF ChannelFails, buffers
<1>3. main \in {"start rx", "wait"} /\ ~done[c] /\ (main = "start rx" => c = "tx")
  BY <1>0, <1>2 DEF FlagInv
<1>4. FlagInv'
  BY <1>0, <1>2, <1>3 DEF FlagInv
<1>5. SendInv'
  BY <1>0, <1>2, <1>3 DEF SendInv, FlagInv, PayloadSent
<1>6. ReceiveInv'
  <2>1. chan'["rx"] = "running" => chan["rx"] = "running"
    BY <1>0, <1>2 DEF FlagInv
  <2>2. UNCHANGED <<design, main, rxmem, rxline, packet, received>>
    BY <1>2
  <2> QED
    BY <1>0, <2>1, <2>2 DEF ReceiveInv
<1> QED
  BY <1>4, <1>5, <1>6 DEF DmaInv

\* What the fabric is sent is in memory by then, and so is what it answers.
LEMMA FinishKept == ASSUME DmaInv, TxFinishes \/ RxFinishes PROVE DmaInv'
<1> USE DEF Channels, Settled, Loopback, None
<1>0. FlagInv /\ SendInv /\ ReceiveInv
  BY DEF DmaInv
<1>1. CASE TxFinishes
  <2>1. /\ chan["tx"] = "running"
        /\ chan' = [chan EXCEPT !["tx"] = "complete"]
        /\ sent' = [p \in Payload |-> txmem[p]]
        /\ UNCHANGED <<design, main, done, error, txmem, txline, rxmem, rxline,
                       filled, packet, received>>
    BY <1>1 DEF TxFinishes
  <2>2. main \in {"start rx", "wait"} /\ ~done["tx"]
    BY <1>0, <2>1 DEF FlagInv
  <2>3. FlagInv'
    BY <1>0, <2>1, <2>2 DEF FlagInv
  <2>4. SendInv'
    <3>1. ASSUME Loopback' PROVE PayloadSent'
      <4>1. \A p \in Payload : txmem[p] = filled
        BY <1>0, <2>1, <2>2, <3>1 DEF SendInv
      <4> QED
        BY <2>1, <4>1 DEF PayloadSent
    <3>2. UNCHANGED <<design, main, txmem, txline, filled>>
      BY <2>1
    <3> QED
      BY <1>0, <2>2, <3>1, <3>2 DEF SendInv
  <2>5. ReceiveInv'
    <3>1. chan'["rx"] = chan["rx"]
      BY <1>0, <2>1 DEF FlagInv
    <3>2. UNCHANGED <<design, main, rxmem, rxline, packet, received>>
      BY <2>1
    <3> QED
      BY <1>0, <3>1, <3>2 DEF ReceiveInv
  <2> QED
    BY <2>3, <2>4, <2>5 DEF DmaInv
<1>2. CASE RxFinishes
  <2>1. /\ chan["rx"] = "running"
        /\ chan' = [chan EXCEPT !["rx"] = "complete"]
        /\ packet' = rxmem'
        /\ received' = IF received < 2 THEN received + 1 ELSE 2
        /\ UNCHANGED <<design, main, done, error, txmem, txline, rxline,
                       filled, sent>>
    BY <1>2 DEF RxFinishes
  <2>2. main = "wait" /\ ~done["rx"]
    BY <1>0, <2>1 DEF FlagInv
  <2>3. FlagInv'
    BY <1>0, <2>1, <2>2 DEF FlagInv
  <2>4. SendInv'
    BY <1>0, <2>1, <2>2 DEF SendInv, FlagInv, PayloadSent
  <2>5. ReceiveInv'
    <3>1. chan'["rx"] = "complete" /\ main' = "wait" /\ design' = design
          /\ rxline' = rxline /\ packet' = rxmem'
      BY <1>0, <2>1, <2>2 DEF FlagInv
    <3>a. received \in 0 .. 2
      BY <1>0 DEF ReceiveInv
    <3>b. received' = IF received < 2 THEN received + 1 ELSE 2
      BY <2>1
    <3>2. received' \in 0 .. 2
      BY <3>a, <3>b
    <3>c. rxline.state = "dirty" => received < 2 /\ received # 1
      BY <1>0, <2>1 DEF ReceiveInv
    <3>3. rxline.state = "dirty" => received' = 1
      BY <3>a, <3>b, <3>c
    <3>4. Loopback => rxline = None
      BY <1>0 DEF ReceiveInv
    <3>5. rxline.state \in {"none", "clean", "dirty"}
      BY <1>0 DEF ReceiveInv
    <3> QED
      BY <3>1, <3>2, <3>3, <3>4, <3>5 DEF ReceiveInv
  <2> QED
    BY <2>3, <2>4, <2>5 DEF DmaInv
<1> QED
  BY <1>1, <1>2

\* The cache may fetch a line and write one back between any two steps.
LEMMA CacheKept == ASSUME DmaInv, Cache PROVE DmaInv'
<1> USE DEF Channels, Settled, Loopback, None, Line
<1>0. FlagInv /\ SendInv /\ ReceiveInv
  BY DEF DmaInv
<1>1. UNCHANGED <<design, main, chan, done, error, filled, sent, packet, received>>
  BY DEF Cache
<1>2. FlagInv'
  BY <1>0, <1>1 DEF FlagInv
<1>3. CASE Loopback
  <2>1. PICK p \in Parts :
          /\ txmem' = [txmem EXCEPT ![p] = Cleaned(txmem[p], txline[p])]
          /\ txline' = [txline EXCEPT ![p] = IF txline[p] = None THEN Line("clean", txmem[p])
                                             ELSE None]
    BY <1>3 DEF Cache, Shuffled
  <2>1a. UNCHANGED <<rxmem, rxline>>
    BY <1>3 DEF Cache
  <2>1b. DOMAIN txmem = Parts /\ DOMAIN txline = Parts
    BY <1>0 DEF SendInv
  <2>2. ASSUME NEW q \in Parts
        PROVE  \/ txmem'[q] = txmem[q] /\ txline'[q] = txline[q]
               \/ /\ Cleaned(txmem'[q], txline'[q]) = Cleaned(txmem[q], txline[q])
                  /\ txline'[q].state # "dirty"
                  /\ txmem'[q] = Cleaned(txmem[q], txline[q])
    <3>1. CASE q # p
      BY <2>1, <2>1b, <3>1
    <3>2. CASE q = p
      <4>1. /\ txmem'[q] = Cleaned(txmem[q], txline[q])
            /\ txline'[q] = IF txline[q] = None THEN Line("clean", txmem[q]) ELSE None
        BY <2>1, <2>1b, <3>2
      <4> QED
        BY <4>1 DEF Cleaned
    <3> QED
      BY <3>1, <3>2
  <2>3. SendInv'
    <3>1. DOMAIN txmem' = Parts /\ DOMAIN txline' = Parts
      BY <2>1, <2>1b
    <3>2. Payload \subseteq Parts
      BY DEF Payload, Parts
    <3>3. ASSUME NEW q \in Payload, Cleaned(txmem[q], txline[q]) = filled
          PROVE  Cleaned(txmem'[q], txline'[q]) = filled
      BY <2>2, <3>2, <3>3
    <3>4. ASSUME NEW q \in Payload, txline[q].state # "dirty", txmem[q] = filled
          PROVE  txline'[q].state # "dirty" /\ txmem'[q] = filled
      BY <2>2, <3>2, <3>4 DEF Cleaned
    <3> QED
      BY <1>0, <1>1, <3>1, <3>3, <3>4 DEF SendInv, PayloadSent
  <2>4. ReceiveInv'
    BY <1>0, <1>1, <2>1a DEF ReceiveInv
  <2> QED
    BY <1>2, <2>3, <2>4 DEF DmaInv
<1>4. CASE ~Loopback
  <2>1. /\ rxmem' = Cleaned(rxmem, rxline)
        /\ rxline' = IF rxline = None THEN Line("clean", rxmem) ELSE None
        /\ UNCHANGED <<txmem, txline>>
    BY <1>4 DEF Cache, Shuffled
  <2>2. SendInv'
    BY <1>0, <1>1, <1>4, <2>1 DEF SendInv
  <2>3. /\ rxline'.state \in {"none", "clean"}
        /\ rxline'.state = "clean" => rxline'.val = rxmem'
        /\ rxline.state # "dirty" => rxmem' = rxmem
    BY <2>1 DEF Cleaned
  <2>4. ReceiveInv'
    <3>0. /\ received \in 0 .. 2 /\ (received = 2 => rxmem = packet)
          /\ rxline.state = "dirty" => received < 2
      BY <1>0 DEF ReceiveInv
    <3>1. received \in 0 .. 2 /\ (received = 2 => rxmem = packet /\ rxline.state # "dirty")
      BY <3>0
    <3>2. received' \in 0 .. 2 /\ (received' = 2 => rxmem' = packet')
      BY <1>1, <2>3, <3>1
    <3>3. ~Loopback' /\ ~(rxline.state = "dirty")'
      BY <1>1, <1>4, <2>3
    <3> QED
      BY <2>3, <3>2, <3>3 DEF ReceiveInv
  <2> QED
    BY <1>2, <2>2, <2>4 DEF DmaInv
<1> QED
  BY <1>3, <1>4

\* Every step of the AXI DMA firmware, of the core and of the cache.
LEMMA DmaKept == ASSUME DmaInv, DmaStep PROVE DmaInv'
  BY DmaMainKept, HandlerKept, FailKept, FinishKept, CacheKept DEF DmaStep

-----------------------------------------------------------------------------
(***************************************************************************)
(* The UDP client.                                                         *)
(***************************************************************************)

\* The buffers are counted by natural numbers.
PoolInv == pool \in Nat /\ printed \in Nat /\ PbufsAccounted

\* Every step of the client, the server and the network.
LEMMA PoolKept == ASSUME PoolInv, UdpStep PROVE PoolInv'
<1> DEFINE Used == IF client \in {"send", "sent", "refused"} THEN 1 ELSE 0
<1>0. pool \in Nat /\ printed \in Nat /\ pool + printed + Used = PBUF_POOL_SIZE
  BY DEF PoolInv, PbufsAccounted
<1> SUFFICES (pool \in Nat)' /\ (printed \in Nat)'
             /\ (pool + printed + Used = PBUF_POOL_SIZE)'
  BY DEF PoolInv, PbufsAccounted
<1>1. CASE InitUdp \/ InitUdpTransfer
  BY <1>0, <1>1 DEF InitUdp, InitUdpTransfer
<1>2. CASE ReceiveInput
  BY <1>0, <1>2 DEF ReceiveInput
<1>3. CASE Alloc
  BY <1>0, <1>3 DEF Alloc
<1>4. CASE \E ok \in BOOLEAN : UdpSend(ok)
  BY <1>0, <1>4 DEF UdpSend
<1>5. CASE Free
  BY <1>0, <1>5 DEF Free
<1>6. CASE UdpServer \/ StrangerSends \/ Lose
  BY <1>0, <1>6 DEF UdpServer, ServerStart, ServerSend, ServerRecv, StrangerSends, Lose
<1> QED
  BY <1>1, <1>2, <1>3, <1>4, <1>5, <1>6 DEF UdpStep, UdpMain

-----------------------------------------------------------------------------
(***************************************************************************)
(* The virtual cable: what sequences of clocked bits look like.  A bit is  *)
(* a pair of its caller and its place.                                     *)
(***************************************************************************)

Bit == (Callers \cup {NoCaller}) \X Nat

\* Nothing in s is c's.
Absent(s, c) == \A x \in 1 .. Len(s) : s[x][1] # c

\* The last n bits of s are c's, in order, and no bit before them is.
EndsWith(s, c, n) ==
  \E k \in Nat :
    /\ k + n = Len(s)
    /\ \A x \in 1 .. k : s[x][1] # c
    /\ \A x \in 1 .. n : s[k + x] = <<c, x>>

\* w is the part of c's vector that follows its first n bits.
Follows(w, c, n) == \A x \in 1 .. Len(w) : w[x] = <<c, n + x>>

\* c's bits of s are n, one after the other and in order.
Whole(s, c, n) ==
  \E k \in 0 .. Len(s) :
    /\ k + n <= Len(s)
    /\ \A x \in 1 .. Len(s) :
         IF x \in (k + 1) .. (k + n) THEN s[x] = <<c, x - k>> ELSE s[x][1] # c

\* The places of a sequence that another one follows.
LEMMA ConcatPlaces ==
  ASSUME NEW s \in Seq(Bit), NEW w \in Seq(Bit)
  PROVE  /\ s \o w \in Seq(Bit)
         /\ Len(s) \in Nat /\ Len(w) \in Nat /\ Len(s \o w) = Len(s) + Len(w)
         /\ \A x \in 1 .. Len(s) : (s \o w)[x] = s[x]
         /\ \A x \in 1 .. Len(w) : (s \o w)[Len(s) + x] = w[x]
  BY ConcatProperties, LenProperties

\* Somebody else's bits leave a caller without any without any.
LEMMA AbsentKept ==
  ASSUME NEW s \in Seq(Bit), NEW w \in Seq(Bit), NEW c, Absent(s, c), Absent(w, c)
  PROVE  Absent(s \o w, c)
<1> SUFFICES ASSUME NEW x \in 1 .. Len(s \o w) PROVE (s \o w)[x][1] # c
  BY DEF Absent
<1>1. CASE x <= Len(s)
  BY <1>1, ConcatPlaces DEF Absent
<1>2. CASE x > Len(s)
  <2> DEFINE y == x - Len(s)
  <2>1. y \in 1 .. Len(w) /\ x = Len(s) + y
    BY <1>2, ConcatPlaces
  <2> HIDE DEF y
  <2> QED
    BY <2>1, ConcatPlaces DEF Absent
<1> QED
  BY <1>1, <1>2, ConcatPlaces

\* Somebody else's bits leave a whole vector whole.
LEMMA WholeKept ==
  ASSUME NEW s \in Seq(Bit), NEW w \in Seq(Bit), NEW c, NEW n \in Nat,
         Whole(s, c, n), Absent(w, c)
  PROVE  Whole(s \o w, c, n)
<1>1. PICK k \in 0 .. Len(s) :
        /\ k + n <= Len(s)
        /\ \A x \in 1 .. Len(s) :
             IF x \in (k + 1) .. (k + n) THEN s[x] = <<c, x - k>> ELSE s[x][1] # c
  BY DEF Whole
<1>2. k \in 0 .. Len(s \o w) /\ k + n <= Len(s \o w)
  BY <1>1, ConcatPlaces
<1>3. ASSUME NEW x \in 1 .. Len(s \o w)
      PROVE  IF x \in (k + 1) .. (k + n) THEN (s \o w)[x] = <<c, x - k>>
             ELSE (s \o w)[x][1] # c
  <2>1. CASE x <= Len(s)
    BY <1>1, <2>1, ConcatPlaces
  <2>2. CASE x > Len(s)
    <3> DEFINE y == x - Len(s)
    <3>1. y \in 1 .. Len(w) /\ x = Len(s) + y
      BY <2>2, ConcatPlaces
    <3>2. x \notin (k + 1) .. (k + n)
      BY <1>1, <2>2, ConcatPlaces
    <3> HIDE DEF y
    <3> QED
      BY <3>1, <3>2, ConcatPlaces DEF Absent
  <2> QED
    BY <2>1, <2>2, ConcatPlaces
<1> QED
  BY <1>2, <1>3 DEF Whole

\* The next m bits of a caller's vector follow the first n.
LEMMA EndsWithMore ==
  ASSUME NEW s \in Seq(Bit), NEW w \in Seq(Bit), NEW c, NEW n \in Nat,
         EndsWith(s, c, n), Follows(w, c, n)
  PROVE  EndsWith(s \o w, c, n + Len(w))
<1>0. /\ Len(s) \in Nat /\ Len(w) \in Nat /\ Len(s \o w) = Len(s) + Len(w)
      /\ \A x \in 1 .. Len(s) : (s \o w)[x] = s[x]
      /\ \A x \in 1 .. Len(w) : (s \o w)[Len(s) + x] = w[x]
  BY ConcatPlaces
<1>1. PICK k \in Nat :
        /\ k + n = Len(s)
        /\ \A x \in 1 .. k : s[x][1] # c
        /\ \A x \in 1 .. n : s[k + x] = <<c, x>>
  BY DEF EndsWith
<1>2. k + (n + Len(w)) = Len(s \o w)
  BY <1>1, <1>0
<1>3. \A x \in 1 .. k : (s \o w)[x][1] # c
  BY <1>1, <1>0
<1>4. ASSUME NEW x \in 1 .. n + Len(w) PROVE (s \o w)[k + x] = <<c, x>>
  <2>0. x \in Int /\ 1 <= x /\ x <= n + Len(w)
    BY <1>0
  <2>1. CASE x <= n
    <3>1. k + x \in 1 .. Len(s) /\ x \in 1 .. n
      BY <1>1, <2>1, <1>0
    <3> QED
      BY <1>1, <3>1, <1>0
  <2>2. CASE x > n
    <3> DEFINE y == x - n
    <3>1. y \in 1 .. Len(w) /\ k + x = Len(s) + y /\ n + y = x
      <4>1. k \in Nat /\ k + n = Len(s)
        BY <1>1
      <4> QED
        BY <2>0, <2>2, <4>1
    <3> HIDE DEF y
    <3> QED
      BY <3>1, <1>0 DEF Follows
  <2>3. x <= n \/ x > n
    BY <2>0
  <2> QED
    BY <2>1, <2>2, <2>3
<1> QED
  BY <1>2, <1>3, <1>4 DEF EndsWith

\* A vector that has just ended is whole.
LEMMA EndsWithWhole ==
  ASSUME NEW s \in Seq(Bit), NEW c, NEW n \in Nat, EndsWith(s, c, n)
  PROVE  Whole(s, c, n)
<1>1. PICK k \in Nat :
        /\ k + n = Len(s)
        /\ \A x \in 1 .. k : s[x][1] # c
        /\ \A x \in 1 .. n : s[k + x] = <<c, x>>
  BY DEF EndsWith
<1>2. k \in 0 .. Len(s) /\ k + n <= Len(s)
  BY <1>1
<1>3. ASSUME NEW x \in 1 .. Len(s)
      PROVE  IF x \in (k + 1) .. (k + n) THEN s[x] = <<c, x - k>> ELSE s[x][1] # c
  <2>1. CASE x <= k
    BY <1>1, <2>1
  <2>2. CASE x > k
    <3> DEFINE y == x - k
    <3>1. y \in 1 .. n /\ x = k + y /\ x \in (k + 1) .. (k + n)
      BY <1>1, <2>2
    <3> HIDE DEF y
    <3> QED
      BY <1>1, <3>1
  <2> QED
    BY <2>1, <2>2, <1>1
<1> QED
  BY <1>2, <1>3 DEF Whole

\* The bytes that are copied for a word hold all of its bits.
LEMMA WordFits ==
  ASSUME NEW left \in Nat
  PROVE  /\ ShiftBytes(left) * BYTE \in Nat
         /\ ShiftBytes(left) * BYTE >= Lesser(left, WORD)
<1>1. ASSUME NEW a \in Nat, NEW b \in Nat \ {0}
      PROVE  /\ ((a + b - 1) \div b) * b >= a /\ ((a + b - 1) \div b) * b \in Nat
             /\ a % b = 0 => (a \div b) * b = a
  BY Z3
<1> QED
  BY <1>1 DEF ShiftBytes, Lesser

-----------------------------------------------------------------------------
(***************************************************************************)
(* The virtual cable: xvc_shift_bits.                                      *)
(***************************************************************************)
XvcTypeOK ==
  /\ call \in [Callers -> {"idle", "lock", "word", "poll", "failed", "ok"}]
  /\ total_bits \in [Callers -> Nat] /\ bits \in [Callers -> Nat]
  /\ tdo \in [Callers -> SUBSET Nat]
  /\ length_reg \in Nat /\ tdo_reg \in SUBSET Nat
  /\ tdi_reg \in (Callers \cup {NoCaller}) \X (SUBSET Nat) \X Nat
  /\ chain \in Seq(Bit)
  /\ shifting \in BOOLEAN /\ late \in BOOLEAN

\* The lock is held around the words of one call.
LockInv == \A c \in Callers : call[c] \in {"word", "poll"} <=> holder = c

\* How far a call is: nothing of it is shifted before it has the lock; between
\* two words all of the words before are; while a word is shifted the register
\* has its length, and holds at least its bits.
CallInv(c) ==
  /\ call[c] \in {"idle", "lock"} => bits[c] = 0 /\ tdo[c] = {} /\ Absent(chain, c)
  /\ call[c] = "word" =>
       /\ tdo[c] = 1 .. Lesser(bits[c], total_bits[c])
       /\ EndsWith(chain, c, Lesser(bits[c], total_bits[c]))
       /\ total_bits[c] - bits[c] >= WORD => length_reg = WORD
  /\ call[c] = "poll" =>
       /\ bits[c] < total_bits[c]
       /\ length_reg = Lesser(total_bits[c] - bits[c], WORD)
       /\ tdo[c] = 1 .. bits[c]
       /\ shifting => /\ tdi_reg[1] = c /\ tdi_reg[3] = bits[c]
                      /\ (bits[c] + 1) .. (bits[c] + length_reg) \subseteq tdi_reg[2]
                      /\ EndsWith(chain, c, bits[c])
       /\ ~shifting => /\ tdo_reg = (bits[c] + 1) .. (bits[c] + length_reg)
                       /\ EndsWith(chain, c, bits[c] + length_reg)
  /\ call[c] = "ok" => tdo[c] = 1 .. total_bits[c] /\ Whole(chain, c, total_bits[c])
  /\ call[c] # "failed"

\* The bridge shifts for a call that waits for it, until one gives up.
XvcInv ==
  /\ XvcTypeOK
  /\ LockInv
  /\ ~late => /\ shifting => \E c \in Callers : call[c] = "poll"
              /\ \A c \in Callers : CallInv(c)

\* A call that does not hold the lock is left alone by the steps of the others
\* that do not clock the chain.
LEMMA AsideKept ==
  ASSUME NEW d \in Callers, CallInv(d), call[d] \notin {"word", "poll"},
         call'[d] = call[d], bits'[d] = bits[d], total_bits'[d] = total_bits[d],
         tdo'[d] = tdo[d], chain' = chain
  PROVE  CallInv(d)'
  BY DEF CallInv

\* The types of the cable's state.
LEMMA XvcTyped == ASSUME XvcTypeOK, XvcStep PROVE XvcTypeOK'
<1>1. CASE Shift
  <2> DEFINE bit(x) == IF tdi_reg[3] + x \in tdi_reg[2] THEN tdi_reg[3] + x ELSE 0
             w == [x \in 1 .. length_reg |-> <<tdi_reg[1], bit(x)>>]
  <2>1. w \in Seq(Bit)
    BY DEF XvcTypeOK, Bit
  <2>2. chain' = chain \o w /\ tdo_reg' = (tdi_reg[3] + 1) .. (tdi_reg[3] + length_reg)
        /\ shifting' = FALSE
        /\ UNCHANGED <<call, total_bits, bits, tdo, length_reg, tdi_reg, late>>
    BY <1>1 DEF Shift
  <2>3. chain' \in Seq(Bit)
    BY <2>1, <2>2, ConcatPlaces DEF XvcTypeOK
  <2>4. tdo_reg' \in SUBSET Nat
    BY <2>2 DEF XvcTypeOK
  <2> QED
    BY <2>2, <2>3, <2>4 DEF XvcTypeOK
<1>2. ASSUME NEW c \in Callers,
             XvcIoctl(c) \/ Lock(c) \/ Word(c) \/ Poll(c) \/ TimedOut(c) \/ Unlock(c)
      PROVE  XvcTypeOK'
  <2>1. CASE XvcIoctl(c)
    BY <2>1 DEF XvcIoctl, XvcTypeOK
  <2>2. CASE Lock(c)
    BY <2>2 DEF Lock, InitialLength, XvcTypeOK
  <2>3. CASE Word(c)
    <3> DEFINE left == total_bits[c] - bits[c]
    <3>1. left \in Nat /\ bits[c] \in Nat
      BY <2>3 DEF Word, XvcTypeOK
    <3>2. ShiftBytes(left) * BYTE \in Nat
      BY <3>1, WordFits
    <3>3. /\ length_reg' = IF left < WORD THEN left ELSE length_reg
          /\ tdi_reg' = <<c, (bits[c] + 1) .. (bits[c] + ShiftBytes(left) * BYTE), bits[c]>>
          /\ shifting' = TRUE
          /\ call' = [call EXCEPT ![c] = "poll"]
          /\ UNCHANGED <<total_bits, bits, tdo, tdo_reg, chain, late>>
      BY <2>3 DEF Word
    <3>4. length_reg' \in Nat
      BY <3>1, <3>3 DEF XvcTypeOK
    <3>5. tdi_reg' \in (Callers \cup {NoCaller}) \X (SUBSET Nat) \X Nat
      BY <3>1, <3>2, <3>3
    <3> QED
      BY <3>3, <3>4, <3>5 DEF XvcTypeOK
  <2>4. CASE Poll(c)
    <3>1. tdo' \in [Callers -> SUBSET Nat]
      <4>1. tdo[c] \cup tdo_reg \in SUBSET Nat
        BY DEF XvcTypeOK
      <4> QED
        BY <2>4, <4>1 DEF Poll, XvcTypeOK
    <3> QED
      BY <2>4, <3>1 DEF Poll, XvcTypeOK
  <2>5. CASE TimedOut(c)
    BY <2>5 DEF TimedOut, XvcTypeOK
  <2>6. CASE Unlock(c)
    BY <2>6 DEF Unlock, XvcTypeOK
  <2> QED
    BY <1>2, <2>1, <2>2, <2>3, <2>4, <2>5, <2>6
<1> QED
  BY <1>1, <1>2 DEF XvcStep

\* The lock.
LEMMA LockKept == ASSUME XvcTypeOK, LockInv, XvcStep PROVE LockInv'
<1> USE DEF LockInv, XvcTypeOK
<1>1. CASE Shift
  BY <1>1 DEF Shift
<1>2. ASSUME NEW c \in Callers,
             XvcIoctl(c) \/ Lock(c) \/ Word(c) \/ Poll(c) \/ TimedOut(c) \/ Unlock(c)
      PROVE  LockInv'
  <2>1. CASE XvcIoctl(c)
    BY <2>1 DEF XvcIoctl
  <2>2. CASE Lock(c)
    BY <2>2 DEF Lock
  <2>3. CASE Word(c)
    BY <2>3 DEF Word
  <2>4. CASE Poll(c)
    BY <2>4 DEF Poll
  <2>5. CASE TimedOut(c)
    BY <2>5 DEF TimedOut
  <2>6. CASE Unlock(c)
    BY <2>6 DEF Unlock
  <2> QED
    BY <1>2, <2>1, <2>2, <2>3, <2>4, <2>5, <2>6
<1> QED
  BY <1>1, <1>2 DEF XvcStep

\* The shift itself: the word of the call that waits goes through the chain.
LEMMA ShiftKept ==
  ASSUME XvcInv, Shift, ~late PROVE \A d \in Callers : CallInv(d)'
<1> DEFINE bit(x) == IF tdi_reg[3] + x \in tdi_reg[2] THEN tdi_reg[3] + x ELSE 0
           w == [x \in 1 .. length_reg |-> <<tdi_reg[1], bit(x)>>]
<1>1. PICK c \in Callers : call[c] = "poll" /\ shifting
  BY DEF XvcInv, Shift
<1>2. CallInv(c)
  BY DEF XvcInv
<1>3. /\ bits[c] < total_bits[c]
      /\ length_reg = Lesser(total_bits[c] - bits[c], WORD)
      /\ tdo[c] = 1 .. bits[c]
      /\ tdi_reg[1] = c /\ tdi_reg[3] = bits[c]
      /\ (bits[c] + 1) .. (bits[c] + length_reg) \subseteq tdi_reg[2]
      /\ EndsWith(chain, c, bits[c])
  BY <1>1, <1>2 DEF CallInv
<1>4. bits[c] \in Nat /\ length_reg \in Nat /\ chain \in Seq(Bit)
  BY DEF XvcInv, XvcTypeOK
<1>5. /\ chain' = chain \o w
      /\ tdo_reg' = (tdi_reg[3] + 1) .. (tdi_reg[3] + length_reg)
      /\ shifting' = FALSE
      /\ UNCHANGED <<call, total_bits, opcode, bits, tdo, length_reg>>
  BY DEF Shift
<1>6. /\ w \in Seq(Bit) /\ Len(w) = length_reg
      /\ \A x \in 1 .. Len(w) : w[x] = <<c, bits[c] + x>>
  <2>1. \A x \in 1 .. length_reg : bits[c] + x \in (bits[c] + 1) .. (bits[c] + length_reg)
    BY <1>4
  <2>2. \A x \in 1 .. length_reg : bit(x) = bits[c] + x
    BY <1>3, <2>1
  <2>3. w = [x \in 1 .. length_reg |-> <<c, bits[c] + x>>]
    BY <1>3, <2>2
  <2> HIDE DEF w
  <2> QED
    BY <1>4, <2>3 DEF Bit
<1> HIDE DEF w
<1>7. CallInv(c)'
  <2>1. EndsWith(chain', c, bits[c] + length_reg)
    BY <1>3, <1>4, <1>5, <1>6, EndsWithMore DEF Follows
  <2>2. /\ call'[c] = "poll" /\ bits'[c] = bits[c] /\ total_bits'[c] = total_bits[c]
        /\ tdo'[c] = tdo[c] /\ length_reg' = length_reg /\ ~shifting'
        /\ tdo_reg' = (bits[c] + 1) .. (bits[c] + length_reg)
    BY <1>1, <1>3, <1>5
  <2> QED
    BY <1>3, <2>1, <2>2 DEF CallInv
<1>8. ASSUME NEW d \in Callers, d # c PROVE CallInv(d)'
  <2>1. CallInv(d) /\ call[d] \notin {"word", "poll"}
    BY <1>1, <1>8 DEF XvcInv, LockInv
  <2>2. Absent(w, d)
    BY <1>6, <1>8 DEF Absent
  <2>3. Absent(chain, d) => Absent(chain', d)
    BY <1>4, <1>5, <1>6, <2>2, AbsentKept
  <2>4. total_bits[d] \in Nat
    BY DEF XvcInv, XvcTypeOK
  <2>5. Whole(chain, d, total_bits[d]) => Whole(chain', d, total_bits[d])
    BY <1>4, <1>5, <1>6, <2>2, <2>4, WholeKept
  <2>6. /\ call'[d] = call[d] /\ bits'[d] = bits[d] /\ total_bits'[d] = total_bits[d]
        /\ tdo'[d] = tdo[d]
    BY <1>5
  <2> QED
    BY <2>1, <2>3, <2>5, <2>6 DEF CallInv
<1> QED
  BY <1>7, <1>8

\* The steps of a call: the lock and the first length, a word, its answer, the
\* end.
LEMMA CallKept ==
  ASSUME XvcInv, ~late, NEW c \in Callers,
         XvcIoctl(c) \/ Lock(c) \/ Word(c) \/ Poll(c) \/ Unlock(c)
  PROVE  /\ \A d \in Callers : CallInv(d)'
         /\ shifting' => call'[c] = "poll" \/ (shifting /\ call[c] # "poll")
<1>1. CallInv(c) /\ XvcTypeOK /\ LockInv
  BY DEF XvcInv
<1>2. /\ bits[c] \in Nat /\ total_bits[c] \in Nat /\ chain \in Seq(Bit)
      /\ length_reg \in Nat
  BY <1>1 DEF XvcTypeOK
<1>3. chain' = chain
  BY DEF XvcIoctl, Lock, Word, Poll, Unlock
<1>4. ASSUME NEW d \in Callers, d # c
      PROVE  /\ call'[d] = call[d] /\ bits'[d] = bits[d]
             /\ total_bits'[d] = total_bits[d] /\ tdo'[d] = tdo[d]
  BY <1>1, <1>4 DEF XvcTypeOK, XvcIoctl, Lock, Word, Poll, Unlock
<1>5. CASE XvcIoctl(c)
  <2>1. CallInv(c)'
    BY <1>1, <1>3, <1>5 DEF XvcIoctl, CallInv, XvcTypeOK
  <2>2. ASSUME NEW d \in Callers, d # c PROVE CallInv(d)'
    <3>1. CallInv(d)
      BY DEF XvcInv
    <3>2. UNCHANGED <<chain, shifting, length_reg, tdi_reg, tdo_reg>>
      BY <1>5 DEF XvcIoctl
    <3> QED
      BY <1>4, <2>2, <3>1, <3>2 DEF CallInv
  <2> QED
    BY <1>1, <1>5, <2>1, <2>2 DEF XvcIoctl
<1>6. CASE ~XvcIoctl(c)
  <2>1. ASSUME NEW d \in Callers, d # c PROVE CallInv(d)'
    <3>1. CallInv(d)
      BY DEF XvcInv
    <3>2. call[d] \notin {"word", "poll"}
      BY <1>1, <1>6, <2>1 DEF LockInv, Lock, Word, Poll, Unlock
    <3> QED
      BY <1>3, <1>4, <2>1, <3>1, <3>2, AsideKept
  <2>2. CASE Lock(c)
    <3>1. /\ call[c] = "lock" /\ call'[c] = "word"
          /\ length_reg' = IF total_bits[c] >= WORD THEN WORD ELSE length_reg
          /\ UNCHANGED <<total_bits, bits, tdo, shifting>>
      BY <1>1, <2>2 DEF Lock, InitialLength, XvcTypeOK
    <3>2. bits[c] = 0 /\ tdo[c] = {} /\ Absent(chain, c)
      BY <1>1, <3>1 DEF CallInv
    <3>3. Lesser(0, total_bits[c]) = 0 /\ 1 .. 0 = {}
      BY <1>2 DEF Lesser
    <3>4. EndsWith(chain, c, 0)
      <4>1. Len(chain) \in Nat /\ Len(chain) + 0 = Len(chain)
        BY <1>2
      <4>2. \A x \in 1 .. Len(chain) : chain[x][1] # c
        BY <3>2 DEF Absent
      <4>3. \A x \in 1 .. 0 : chain[Len(chain) + x] = <<c, x>>
        BY <3>3
      <4> QED
        BY <4>1, <4>2, <4>3 DEF EndsWith
    <3>5. CallInv(c)'
      BY <1>2, <1>3, <3>1, <3>2, <3>3, <3>4 DEF CallInv
    <3> QED
      BY <2>1, <3>1, <3>5
  <2>3. CASE Word(c)
    <3> DEFINE left == total_bits[c] - bits[c]
               top  == bits[c] + ShiftBytes(left) * BYTE
    <3>1. /\ call[c] = "word" /\ call'[c] = "poll" /\ bits[c] < total_bits[c]
          /\ length_reg' = IF left < WORD THEN left ELSE length_reg
          /\ tdi_reg' = <<c, (bits[c] + 1) .. top, bits[c]>>
          /\ shifting' = TRUE
          /\ UNCHANGED <<total_bits, bits, tdo>>
      BY <1>1, <2>3 DEF Word, XvcTypeOK
    <3>2. left \in Nat /\ Lesser(bits[c], total_bits[c]) = bits[c]
      BY <1>2, <3>1 DEF Lesser
    <3>3. /\ tdo[c] = 1 .. bits[c] /\ EndsWith(chain, c, bits[c])
          /\ left >= WORD => length_reg = WORD
      BY <1>1, <3>1, <3>2 DEF CallInv
    <3>4. length_reg' = Lesser(left, WORD)
      BY <3>1, <3>2, <3>3 DEF Lesser
    <3>5. ShiftBytes(left) * BYTE \in Nat /\ ShiftBytes(left) * BYTE >= length_reg'
      BY <3>2, <3>4, WordFits
    <3>6. (bits[c] + 1) .. (bits[c] + length_reg') \subseteq (bits[c] + 1) .. top
      <4>1. length_reg' \in Nat
        BY <3>2, <3>4 DEF Lesser
      <4> QED
        BY <1>2, <3>5, <4>1
    <3>7. CallInv(c)'
      BY <1>3, <3>1, <3>3, <3>4, <3>6 DEF CallInv
    <3> QED
      BY <2>1, <3>1, <3>7
  <2>4. CASE Poll(c)
    <3> DEFINE all == bits[c] + length_reg
    <3>1. /\ call[c] = "poll" /\ call'[c] = "word" /\ ~shifting
          /\ tdo'[c] = tdo[c] \cup tdo_reg /\ bits'[c] = bits[c] + WORD
          /\ UNCHANGED <<total_bits, length_reg, shifting>>
      BY <1>1, <2>4 DEF Poll, XvcTypeOK
    <3>2. /\ bits[c] < total_bits[c]
          /\ length_reg = Lesser(total_bits[c] - bits[c], WORD)
          /\ tdo[c] = 1 .. bits[c]
          /\ tdo_reg = (bits[c] + 1) .. all
          /\ EndsWith(chain, c, all)
      BY <1>1, <3>1 DEF CallInv
    <3>3. all = Lesser(bits[c] + WORD, total_bits[c])
      BY <1>2, <3>2 DEF Lesser
    <3>4. tdo'[c] = 1 .. all
      BY <1>2, <3>1, <3>2
    <3>5. total_bits[c] - (bits[c] + WORD) >= WORD => length_reg = WORD
      BY <1>2, <3>2 DEF Lesser
    <3> HIDE DEF all
    <3>6. CallInv(c)'
      BY <1>3, <3>1, <3>2, <3>3, <3>4, <3>5 DEF CallInv
    <3> QED
      BY <2>1, <3>1, <3>6
  <2>5. CASE Unlock(c)
    <3>1. /\ call[c] = "word" /\ call'[c] = "ok" /\ bits[c] >= total_bits[c]
          /\ tdo'[c] = tdo[c] \/ tdo'[c] = 1 .. total_bits[c]
          /\ UNCHANGED <<total_bits, shifting>>
      BY <1>1, <2>5 DEF Unlock, XvcTypeOK
    <3>2. Lesser(bits[c], total_bits[c]) = total_bits[c]
      BY <1>2, <3>1 DEF Lesser
    <3>3. tdo[c] = 1 .. total_bits[c] /\ EndsWith(chain, c, total_bits[c])
      BY <1>1, <3>1, <3>2 DEF CallInv
    <3>4. Whole(chain, c, total_bits[c])
      BY <1>2, <3>3, EndsWithWhole
    <3>5. CallInv(c)'
      BY <1>3, <3>1, <3>3, <3>4 DEF CallInv
    <3> QED
      BY <2>1, <3>1, <3>5
  <2> QED
    BY <1>6, <2>2, <2>3, <2>4, <2>5
<1> QED
  BY <1>5, <1>6

\* Every step of the callers and of the bridge.
LEMMA XvcKept == ASSUME XvcInv, XvcStep PROVE XvcInv'
<1>1. XvcTypeOK' /\ LockInv'
  BY XvcTyped, LockKept DEF XvcInv
<1> SUFFICES ASSUME ~late'
             PROVE  /\ shifting' => \E c \in Callers : call'[c] = "poll"
                    /\ \A c \in Callers : CallInv(c)'
  BY <1>1 DEF XvcInv
<1>2. CASE Shift
  <2>1. ~late /\ ~shifting'
    BY <1>2 DEF Shift
  <2> QED
    BY <1>2, <2>1, ShiftKept
<1>3. ASSUME NEW c \in Callers, TimedOut(c) PROVE FALSE
  BY <1>3 DEF TimedOut
<1>4. ASSUME NEW c \in Callers,
             XvcIoctl(c) \/ Lock(c) \/ Word(c) \/ Poll(c) \/ Unlock(c)
      PROVE  /\ shifting' => \E d \in Callers : call'[d] = "poll"
             /\ \A d \in Callers : CallInv(d)'
  <2>1. ~late
    BY <1>4 DEF XvcIoctl, Lock, Word, Poll, Unlock
  <2>2. /\ \A d \in Callers : CallInv(d)'
        /\ shifting' => call'[c] = "poll" \/ (shifting /\ call[c] # "poll")
    BY <1>4, <2>1, CallKept
  <2>3. \A d \in Callers : d # c => call'[d] = call[d]
    BY <1>4 DEF XvcInv, XvcTypeOK, XvcIoctl, Lock, Word, Poll, Unlock
  <2>4. shifting => \E d \in Callers : call[d] = "poll"
    BY <2>1 DEF XvcInv
  <2> QED
    BY <2>2, <2>3, <2>4
<1> QED
  BY <1>2, <1>3, <1>4 DEF XvcStep

-----------------------------------------------------------------------------
(***************************************************************************)
(* The programs.                                                           *)
(***************************************************************************)
ProgramsInv == ClockInv /\ DmaInv /\ PoolInv /\ XvcInv

\* Every program starts in order.
LEMMA ProgramsInit == Init => ProgramsInv
<1> SUFFICES ASSUME Init PROVE ProgramsInv
  OBVIOUS
<1>1. ClockInv
  <2>1. chip = Upto(index - 1) /\ index = 0
    <3>1. chip = <<>> /\ index = 0
      BY DEF Init, ClockInit
    <3> QED
      BY <3>1, UptoZero
  <2> QED
    BY <2>1 DEF Init, ClockInit, ClockInv
<1>2. FlagInv
  BY DEF Init, DmaInit, FlagInv, Channels, Settled
<1>3. SendInv
  BY DEF Init, DmaInit, SendInv
<1>4. ReceiveInv
  <2>1. rxline.state = "none" /\ rxline = None
    BY DEF Init, DmaInit, None
  <2>2. received = 0 /\ main = "off"
    BY DEF Init, DmaInit
  <2> QED
    BY <2>1, <2>2 DEF ReceiveInv
<1>5. PoolInv
  BY DEF Init, UdpInit, PoolInv, PbufsAccounted
<1>6. XvcInv
  <2>1. XvcTypeOK
    <3>1. <<>> \in Seq(Bit)
      BY EmptySeq
    <3>2. /\ call = [c \in Callers |-> "idle"] /\ total_bits = [c \in Callers |-> 0]
          /\ bits = [c \in Callers |-> 0] /\ tdo = [c \in Callers |-> {}]
          /\ length_reg = 0 /\ tdi_reg = <<NoCaller, {}, 0>> /\ tdo_reg = {}
          /\ shifting = FALSE /\ chain = <<>> /\ late = FALSE
      BY DEF Init, XvcInit
    <3>3. tdi_reg \in (Callers \cup {NoCaller}) \X (SUBSET Nat) \X Nat
      BY <3>2
    <3> QED
      BY <3>1, <3>2, <3>3 DEF XvcTypeOK
  <2>2. LockInv
    BY DEF Init, XvcInit, LockInv
  <2>3. \A c \in Callers : CallInv(c)
    BY DEF Init, XvcInit, CallInv, Absent
  <2> QED
    BY <2>1, <2>2, <2>3 DEF Init, XvcInit, XvcInv
<1> QED
  BY <1>1, <1>2, <1>3, <1>4, <1>5, <1>6 DEF ProgramsInv, DmaInv

\* Each step is one of one program, and leaves the state of the others.
LEMMA ProgramsStep == ProgramsInv /\ [Next]_vars => ProgramsInv'
<1> SUFFICES ASSUME ProgramsInv, [Next]_vars PROVE ProgramsInv'
  OBVIOUS
<1>0. ClockInv /\ DmaInv /\ PoolInv /\ XvcInv
  BY DEF ProgramsInv
<1>1. UNCHANGED <<design, clock>> => ClockInv'
  <2> SUFFICES ASSUME UNCHANGED <<design, clock>> PROVE ClockInv'
    OBVIOUS
  <2>1. UNCHANGED <<design, prog, index, TransmitComplete, bus, irq, chip>>
    BY DEF clock
  <2> QED
    BY <1>0, <2>1 DEF ClockInv
<1>2. UNCHANGED <<design, dma>> => DmaInv'
  <2> SUFFICES ASSUME UNCHANGED <<design, dma>> PROVE DmaInv'
    OBVIOUS
  <2>1. UNCHANGED <<design, main, chan, done, error, txmem, txline, rxmem, rxline,
                    filled, sent, packet, received>>
    BY DEF dma, buffers
  <2>2. Loopback' <=> Loopback
    BY <2>1 DEF Loopback
  <2>3. FlagInv'
    BY <1>0, <2>1, <2>2 DEF DmaInv, FlagInv, Settled
  <2>4. SendInv'
    BY <1>0, <2>1, <2>2 DEF DmaInv, SendInv, PayloadSent
  <2>5. ReceiveInv'
    BY <1>0, <2>1, <2>2 DEF DmaInv, ReceiveInv
  <2> QED
    BY <2>3, <2>4, <2>5 DEF DmaInv
<1>3. UNCHANGED udp => PoolInv'
  BY <1>0 DEF udp, PoolInv, PbufsAccounted
<1>4. UNCHANGED xvc => XvcInv'
  <2> SUFFICES ASSUME UNCHANGED xvc PROVE XvcInv'
    OBVIOUS
  <2>1. UNCHANGED <<call, total_bits, opcode, bits, tdo, holder, length_reg,
                    tdi_reg, tdo_reg, shifting, chain, late>>
    BY DEF xvc
  <2> QED
    BY <1>0, <2>1 DEF XvcInv, XvcTypeOK, LockInv, CallInv
<1>5. CASE Clock
  <2>1. ClockInv'
    BY <1>0, <1>5, ClockKept DEF Clock
  <2>2. UNCHANGED <<design, dma>>
    BY <1>5 DEF Clock, ClockStep, ProgramSi5324, I2cSetupHardware, Send, WaitSent,
       WaitIdle, StatusHandler, Acknowledged, Refused, Stopped
  <2> QED
    BY <1>2, <1>3, <1>4, <1>5, <2>1, <2>2 DEF Clock, HostIdle, ProgramsInv
<1>6. CASE Dma
  <2>1. DmaInv'
    BY <1>0, <1>6, DmaKept DEF Dma
  <2>2. UNCHANGED <<design, clock>>
    BY <1>6 DEF Dma, DmaStep, DmaMain, Memset, AxiDmaInit, Input, ClearFlags,
       StartTx, StartRx, Wait, Flush, Invalidate, IntrHandler, ChannelFails,
       TxFinishes, RxFinishes, Cache
  <2> QED
    BY <1>1, <1>3, <1>4, <1>6, <2>1, <2>2 DEF Dma, HostIdle, ProgramsInv
<1>7. CASE Udp
  <2>1. PoolInv'
    BY <1>0, <1>7, PoolKept DEF Udp
  <2>2. UNCHANGED <<design, clock>>
    BY <1>7 DEF Udp, UdpStep, UdpMain, UdpServer, InitUdp, InitUdpTransfer,
       ReceiveInput, Alloc, UdpSend, Free, ServerStart, ServerSend, ServerRecv,
       StrangerSends, Lose
  <2> QED
    BY <1>1, <1>2, <1>4, <1>7, <2>1, <2>2 DEF Udp, HostIdle, ProgramsInv
<1>8. CASE Tool
  BY <1>1, <1>2, <1>3, <1>4, <1>8 DEF Tool, FirmwareIdle, ProgramsInv
<1>9. CASE Cable
  <2>1. XvcInv'
    BY <1>0, <1>9, XvcKept DEF Cable
  <2> QED
    BY <1>1, <1>2, <1>3, <1>9, <2>1 DEF Cable, FirmwareIdle, ProgramsInv
<1>10. CASE UNCHANGED vars
  BY <1>1, <1>2, <1>3, <1>4, <1>10 DEF vars, ProgramsInv
<1> QED
  BY <1>5, <1>6, <1>7, <1>8, <1>9, <1>10 DEF Next

\* The invariant of the programs.
THEOREM ProgramsInvariant == Spec => []ProgramsInv
  BY ProgramsInit, ProgramsStep, PTL DEF Spec

\* A ProgramSi5324 that returns XST_SUCCESS has written every entry of
\* InitTable, once and in order, whatever the length of the table.
THEOREM ClockWhole == Spec => []ClockProgrammed
<1>1. ProgramsInv => ClockProgrammed
  BY DEF ProgramsInv, ClockInv, ClockProgrammed, Upto
<1> QED
  BY <1>1, ProgramsInvariant, PTL

\* The wait loops of the AXI DMA firmware end with no transfer running and, in
\* axi_dma_poll, unless the sending one failed, with the payload of this round
\* sent and nothing else.
THEOREM RoundOver == Spec => []RoundIsOver
<1>1. ProgramsInv => RoundIsOver
  BY DEF ProgramsInv, DmaInv, FlagInv, SendInv, PayloadSent, RoundIsOver, Settled,
         Channels, Loopback
<1> QED
  BY <1>1, ProgramsInvariant, PTL

\* After the cache was synchronised the processor reads the packet that came
\* last, but for the first one of 10ge_recv.
THEOREM ReceivedSeen == Spec => []ReceivedIsSeen
<1>1. ASSUME ProgramsInv PROVE ReceivedIsSeen
  <2>0. FlagInv /\ ReceiveInv
    BY <1>1 DEF ProgramsInv, DmaInv
  <2>1. ASSUME main = "clear", ~Loopback, received = 2
        PROVE  Seen(rxmem, rxline) = packet
    <3>1. /\ rxmem = packet /\ rxline.state # "dirty"
          /\ rxline.state = "clean" => rxline.val = rxmem
          /\ rxline.state \in {"none", "clean", "dirty"}
      BY <2>0, <2>1 DEF ReceiveInv
    <3> QED
      BY <3>1 DEF Seen
  <2>2. ASSUME main = "input", received > 0
        PROVE  Seen(rxmem, rxline) = packet
    <3>1. Loopback
      BY <2>0, <2>2 DEF FlagInv
    <3>2. rxline = None /\ rxmem = packet
      BY <2>0, <2>2, <3>1 DEF ReceiveInv
    <3> QED
      BY <3>2 DEF Seen, None
  <2> QED
    BY <2>1, <2>2 DEF ReceivedIsSeen
<1> QED
  BY <1>1, ProgramsInvariant, PTL

\* No send of the UDP client leaks a buffer of the pool, with or without
\* errors; only received packets are kept.
THEOREM PbufsWhole == Spec => []PbufsAccounted
<1>1. ProgramsInv => PbufsAccounted
  BY DEF ProgramsInv, PoolInv
<1> QED
  BY <1>1, ProgramsInvariant, PTL

\* A virtual cable call that returns 0 has clocked exactly its own bits, for
\* every number of callers and every width of the registers.
THEOREM ShiftExact == Spec => []ShiftIsExact
<1>1. ProgramsInv => ShiftIsExact
  BY DEF ProgramsInv, XvcInv, CallInv, Whole, ShiftIsExact
<1> QED
  BY <1>1, ProgramsInvariant, PTL

-----------------------------------------------------------------------------
(***************************************************************************)
(* The DMA tools.                                                          *)
(***************************************************************************)

\* All bytes of m repetitions and n of the next one, and their files.
Moved(m, n) == {<<k[1], k[2], Place(k[2])>> :
                  k \in {p \in (0 .. m) \X (0 .. cmd.size - 1) : p[1] < m \/ p[2] < n}}
Saved(m) == {<<k[1] * cmd.size + k[2], k[1], k[2]>> :
               k \in (0 .. m - 1) \X (0 .. cmd.size - 1)}
MovedPairs == {<<m[1], m[2]>> : m \in moved}
SavedPairs == {<<s[2], s[3]>> : s \in saved}

\* Where the transfer stands, and what it has moved and saved, as long as no
\* lapse occurred.
ToolTypeOK ==
  /\ cmd \in Commands /\ step \in {"start", "move", "returned", "save", "gone"}
  /\ i \in 0 .. cmd.count - 1
  /\ from \in Nat /\ moving \in Nat /\ f_pos \in Nat /\ rc \in Int
  /\ bytes_done \in Nat /\ underflow \in BOOLEAN /\ out_offset \in Nat

PlaceInv ==
  /\ moving <= Piece /\ from <= cmd.size
  /\ IF cmd.aperture = 0 THEN from = 0
     ELSE from % cmd.aperture = 0 /\ (from < cmd.size \/ from = 0)
  /\ step = "start" => i = 0 /\ from = 0 /\ moving = 0
  /\ step = "returned" => rc = moving \/ (rc < 0 /\ cmd.aperture = 0)

WholeInv ==
  ~underflow =>
    /\ step \in {"start", "move", "returned"} =>
         /\ moved = Moved(i, from + moving)
         /\ from # 0 => bytes_done = from
    /\ step = "save" => moved = Moved(i, cmd.size) /\ bytes_done = cmd.size
    /\ step # "gone" /\ cmd.output => saved = Saved(i) /\ out_offset = i * cmd.size

ShortInv ==
  cmd.output /\ cmd.aperture = 0 /\ step # "gone" =>
    /\ MovedPairs = SavedPairs \cup {<<i, k>> : k \in 0 .. moving - 1}
    /\ step = "save" => bytes_done = moving

ExitInv == (step # "gone" => exit = {}) /\ ExitZeroMeansAll

RunInv == ToolTypeOK /\ PlaceInv /\ WholeInv /\ ShortInv /\ ExitInv

ToolInv == IF program = "tool" THEN lapses = {} => RunInv ELSE exit = {}

\* A product of naturals is not less than a factor.
LEMMA ProductFacts ==
  ASSUME NEW a \in Nat, NEW c \in Nat
  PROVE  a * c \in Nat /\ (c > 0 => a <= a * c) /\ (a + 1) * c = a * c + c
  OBVIOUS

\* What the proofs need of the sizes.
LEMMA SizeFacts ==
  /\ RW_MAX_SIZE \in Nat /\ RW_MAX_SIZE > 0 /\ MaxSize \in Nat /\ MaxCount \in Nat
  /\ U64 \in Nat /\ (MaxCount > 0 => MaxSize < U64) /\ Addrs \subseteq Nat
<1>0. RW_MAX_SIZE \in Nat \ {0} /\ MaxSize \in Nat /\ MaxCount \in Nat /\ U64 \in Nat
  BY SizesAssumption, Zenon
<1>1. /\ RW_MAX_SIZE \in Nat /\ RW_MAX_SIZE > 0 /\ MaxSize \in Nat /\ MaxCount \in Nat
      /\ U64 \in Nat
  BY <1>0
<1>2. Addrs \subseteq Nat
  BY SizesAssumption, Zenon
<1>3. MaxCount > 0 => MaxSize < U64
  <2> DEFINE product == MaxSize * MaxCount
  <2>1. product \in Nat /\ (MaxCount > 0 => MaxSize <= product)
    BY <1>1, ProductFacts
  <2>2. U64 > product + 2 * 5
    BY U64Assumption DEF EIO
  <2> HIDE DEF product
  <2> QED
    BY <1>1, <2>1, <2>2
<1> QED
  BY <1>1, <1>2, <1>3, Zenon

\* The fields of a command.
LEMMA CommandFacts ==
  ASSUME ToolTypeOK
  PROVE  /\ cmd.size \in Nat /\ cmd.size <= MaxSize /\ cmd.aperture \in 0 .. 2
         /\ cmd.count \in Nat /\ cmd.count > 0 /\ cmd.addr \in Nat
         /\ cmd.output \in BOOLEAN /\ cmd.eop_flush \in BOOLEAN
         /\ cmd.tool \in {"to_device", "from_device"} /\ 0 < MaxCount
<1>1. cmd \in [tool : {"to_device", "from_device"}, size : 0 .. MaxSize,
               aperture : 0 .. 2, count : 1 .. MaxCount, addr : Addrs,
               output : BOOLEAN, eop_flush : BOOLEAN]
  BY DEF ToolTypeOK, Commands
<1>2. /\ cmd.size \in 0 .. MaxSize /\ cmd.aperture \in 0 .. 2 /\ cmd.count \in 1 .. MaxCount
      /\ cmd.addr \in Addrs /\ cmd.output \in BOOLEAN /\ cmd.eop_flush \in BOOLEAN
      /\ cmd.tool \in {"to_device", "from_device"}
  BY <1>1
<1>3. MaxSize \in Nat /\ MaxCount \in Nat
  BY SizeFacts, Zenon
<1>4. cmd.addr \in Nat
  BY <1>2, SizeFacts, Zenon
<1> QED
  BY <1>2, <1>3, <1>4

\* A count that fits is kept by a uint64_t.
LEMMA FitsU64 ==
  ASSUME NEW x \in Nat, x <= MaxSize, 0 < MaxCount
  PROVE  AsU64(x) = x
<1>1. x < U64 /\ U64 \in Nat
  BY SizeFacts
<1>2. x % U64 = x
  BY <1>1
<1> QED
  BY <1>2 DEF AsU64

\* The places of an aperture.
LEMMA ApertureFacts ==
  ASSUME NEW a \in 1 .. 2, NEW f \in Nat, f % a = 0
  PROVE  /\ (f + a) % a = 0
         /\ \A x \in 0 .. a - 1 : (f + x) % a = x
<1>1. CASE a = 1
  BY <1>1
<1>2. CASE a = 2
  BY <1>2
<1> QED
  BY <1>1, <1>2

\* d bytes of repetition m, after the first n.
More(m, n, d) == {<<m, n + x, Place(n + x)>> : x \in 0 .. d - 1}

\* More bytes of a repetition follow the first n.
LEMMA MovedGrows ==
  ASSUME ToolTypeOK, NEW m \in Nat, NEW n \in Nat, NEW d \in Nat, n + d <= cmd.size
  PROVE  Moved(m, n) \cup More(m, n, d) = Moved(m, n + d)
<1>0. cmd.size \in Nat
  BY CommandFacts
<1>1. ASSUME NEW t \in Moved(m, n) PROVE t \in Moved(m, n + d)
  <2>1. PICK p \in (0 .. m) \X (0 .. cmd.size - 1) :
          (p[1] < m \/ p[2] < n) /\ t = <<p[1], p[2], Place(p[2])>>
    BY DEF Moved
  <2>2. p[1] < m \/ p[2] < n + d
    BY <1>0, <2>1
  <2> QED
    BY <2>1, <2>2 DEF Moved
<1>2. ASSUME NEW t \in More(m, n, d) PROVE t \in Moved(m, n + d)
  <2>1. PICK x \in 0 .. d - 1 : t = <<m, n + x, Place(n + x)>>
    BY DEF More
  <2> DEFINE p == <<m, n + x>>
  <2>2. p \in (0 .. m) \X (0 .. cmd.size - 1) /\ p[1] = m /\ p[2] = n + x /\ n + x < n + d
    BY <1>0, <2>1
  <2> QED
    BY <2>1, <2>2 DEF Moved
<1>3. ASSUME NEW t \in Moved(m, n + d) PROVE t \in Moved(m, n) \cup More(m, n, d)
  <2>1. PICK p \in (0 .. m) \X (0 .. cmd.size - 1) :
          (p[1] < m \/ p[2] < n + d) /\ t = <<p[1], p[2], Place(p[2])>>
    BY DEF Moved
  <2>2. CASE p[1] < m \/ p[2] < n
    BY <2>1, <2>2 DEF Moved
  <2>3. CASE ~(p[1] < m \/ p[2] < n)
    <3>1. p[1] \in 0 .. m /\ p[2] \in Nat
      BY <1>0, <2>1
    <3>2. p[1] = m /\ p[2] - n \in 0 .. d - 1 /\ n + (p[2] - n) = p[2]
      BY <2>1, <2>3, <3>1
    <3> QED
      BY <2>1, <3>2 DEF More
  <2> QED
    BY <2>2, <2>3
<1> QED
  BY <1>1, <1>2, <1>3

\* A repetition that is complete is followed by the next.
LEMMA MovedNext ==
  ASSUME ToolTypeOK, NEW m \in Nat
  PROVE  Moved(m, cmd.size) = Moved(m + 1, 0)
<1>0. cmd.size \in Nat
  BY CommandFacts
<1>1. {p \in (0 .. m) \X (0 .. cmd.size - 1) : p[1] < m \/ p[2] < cmd.size} =
      {p \in (0 .. m + 1) \X (0 .. cmd.size - 1) : p[1] < m + 1 \/ p[2] < 0}
  BY <1>0
<1> QED
  BY <1>1 DEF Moved

\* The output file grows by one repetition.
LEMMA SavedNext ==
  ASSUME ToolTypeOK, NEW m \in Nat
  PROVE  /\ Saved(m) \cup {<<m * cmd.size + x, m, x>> : x \in 0 .. cmd.size - 1} = Saved(m + 1)
         /\ (m + 1) * cmd.size = m * cmd.size + cmd.size
<1> DEFINE New == {<<m * cmd.size + x, m, x>> : x \in 0 .. cmd.size - 1}
<1>0. cmd.size \in Nat
  BY CommandFacts
<1>1. ASSUME NEW t \in Saved(m) PROVE t \in Saved(m + 1)
  <2>1. PICK p \in (0 .. m - 1) \X (0 .. cmd.size - 1) :
          t = <<p[1] * cmd.size + p[2], p[1], p[2]>>
    BY DEF Saved
  <2>2. p \in (0 .. (m + 1) - 1) \X (0 .. cmd.size - 1)
    BY <1>0, <2>1
  <2> QED
    BY <2>1, <2>2 DEF Saved
<1>2. ASSUME NEW t \in New PROVE t \in Saved(m + 1)
  <2>1. PICK x \in 0 .. cmd.size - 1 : t = <<m * cmd.size + x, m, x>>
    OBVIOUS
  <2> DEFINE p == <<m, x>>
  <2>2. p \in (0 .. (m + 1) - 1) \X (0 .. cmd.size - 1) /\ p[1] = m /\ p[2] = x
    BY <1>0
  <2> QED
    BY <2>1, <2>2 DEF Saved
<1>3. ASSUME NEW t \in Saved(m + 1) PROVE t \in Saved(m) \cup New
  <2>1. PICK p \in (0 .. (m + 1) - 1) \X (0 .. cmd.size - 1) :
          t = <<p[1] * cmd.size + p[2], p[1], p[2]>>
    BY DEF Saved
  <2>2. CASE p[1] = m
    BY <2>1, <2>2
  <2>3. CASE p[1] # m
    <3>1. p = <<p[1], p[2]>> /\ p[1] \in 0 .. m /\ p[2] \in 0 .. cmd.size - 1
      BY <2>1
    <3>2. p[1] \in 0 .. m - 1
      BY <2>3, <3>1
    <3>3. p \in (0 .. m - 1) \X (0 .. cmd.size - 1)
      BY <3>1, <3>2
    <3> QED
      BY <2>1, <3>3 DEF Saved
  <2> QED
    BY <2>2, <2>3
<1>4. (m + 1) * cmd.size = m * cmd.size + cmd.size
  BY <1>0
<1> QED
  BY <1>1, <1>2, <1>3, <1>4

\* All repetitions.
LEMMA AllOfThem ==
  ASSUME ToolTypeOK
  PROVE  /\ Moved(cmd.count, 0) = Everything
         /\ Saved(cmd.count) = {<<r * cmd.size + k, r, k>> : r \in 0 .. cmd.count - 1,
                                                              k \in 0 .. cmd.size - 1}
<1>0. cmd.size \in Nat /\ cmd.count \in Nat
  BY CommandFacts
<1>1. ASSUME NEW t \in Moved(cmd.count, 0) PROVE t \in Everything
  <2>1. PICK p \in (0 .. cmd.count) \X (0 .. cmd.size - 1) :
          (p[1] < cmd.count \/ p[2] < 0) /\ t = <<p[1], p[2], Place(p[2])>>
    BY DEF Moved
  <2>2. p[1] \in 0 .. cmd.count - 1 /\ p[2] \in 0 .. cmd.size - 1
    BY <1>0, <2>1
  <2> QED
    BY <2>1, <2>2 DEF Everything
<1>2. ASSUME NEW t \in Everything PROVE t \in Moved(cmd.count, 0)
  <2>1. PICK q \in 0 .. cmd.count - 1, k \in 0 .. cmd.size - 1 : t = <<q, k, Place(k)>>
    BY DEF Everything
  <2> DEFINE p == <<q, k>>
  <2>2. p \in (0 .. cmd.count) \X (0 .. cmd.size - 1) /\ p[1] = q /\ p[2] = k /\ q < cmd.count
    BY <1>0
  <2> QED
    BY <2>1, <2>2 DEF Moved
<1> DEFINE File == {<<r * cmd.size + k, r, k>> : r \in 0 .. cmd.count - 1,
                                                 k \in 0 .. cmd.size - 1}
<1>3. ASSUME NEW t \in Saved(cmd.count) PROVE t \in File
  <2>1. PICK p \in (0 .. cmd.count - 1) \X (0 .. cmd.size - 1) :
          t = <<p[1] * cmd.size + p[2], p[1], p[2]>>
    BY DEF Saved
  <2>2. p[1] \in 0 .. cmd.count - 1 /\ p[2] \in 0 .. cmd.size - 1
    BY <2>1
  <2> QED
    BY <2>1, <2>2
<1>4. ASSUME NEW t \in File PROVE t \in Saved(cmd.count)
  <2>1. PICK q \in 0 .. cmd.count - 1, k \in 0 .. cmd.size - 1 : t = <<q * cmd.size + k, q, k>>
    OBVIOUS
  <2> DEFINE p == <<q, k>>
  <2>2. p \in (0 .. cmd.count - 1) \X (0 .. cmd.size - 1) /\ p[1] = q /\ p[2] = k
    OBVIOUS
  <2> QED
    BY <2>1, <2>2 DEF Saved
<1>5. Moved(cmd.count, 0) = Everything
  BY <1>1, <1>2
<1>6. Saved(cmd.count) = File
  BY <1>3, <1>4
<1> QED
  BY <1>5, <1>6

\* The options do not change, nor does what they make of the sets.
LEMMA SetsKept ==
  ASSUME cmd' = cmd
  PROVE  /\ Moved(i, from + moving)' = Moved(i', from' + moving')
         /\ Moved(i, cmd.size)' = Moved(i', cmd.size) /\ Saved(i)' = Saved(i')
  BY DEF Moved, Saved, Place

\* The piece in progress.
LEMMA PieceFacts ==
  ASSUME ToolTypeOK, PlaceInv
  PROVE  /\ Piece \in Nat /\ from + Piece <= cmd.size
         /\ cmd.aperture = 0 => Piece = cmd.size
         /\ cmd.aperture # 0 => Piece <= cmd.aperture
         /\ cmd.aperture # 0 => IF from + cmd.aperture < cmd.size THEN Piece = cmd.aperture
                                ELSE from + Piece = cmd.size
<1>1. cmd.size \in Nat /\ cmd.aperture \in 0 .. 2 /\ from \in Nat /\ from <= cmd.size
  BY CommandFacts DEF ToolTypeOK, PlaceInv
<1>2. cmd.aperture = 0 => from = 0
  BY DEF PlaceInv
<1> QED
  BY <1>1, <1>2 DEF Piece, Lesser

\* The input file is read, or the tool leaves with an error.
LEMMA ReadInputKept ==
  ASSUME lapses' = {}, RunInv, ReadInput
  PROVE  RunInv'
<1>1. /\ ToolTypeOK /\ PlaceInv /\ WholeInv /\ ShortInv /\ ExitInv /\ step = "start"
      /\ cmd.size \in Nat /\ i = 0 /\ from = 0 /\ moving = 0 /\ exit = {}
  BY CommandFacts DEF RunInv, ReadInput, PlaceInv, ExitInv
<1>2. UNCHANGED <<cmd, i, from, moving, f_pos, rc, bytes_done, underflow, out_offset, moved, saved>>
  BY DEF ReadInput
<1>3. \/ step' = "move" /\ exit' = exit
      \/ step' = "gone" /\ exit' = {-EIO}
  <2>1. PICK v \in InputOutcomes :
          /\ IF v < cmd.size THEN Leave(v) ELSE step' = "move" /\ UNCHANGED exit
          /\ v \notin 0 .. cmd.size - 1
    BY DEF ReadInput, Lapse
  <2>2. CASE v = cmd.size
    BY <1>1, <2>1, <2>2
  <2>3. CASE v # cmd.size
    <3>1. v = -EIO /\ cmd.tool # "from_device"
      BY <1>1, <2>1, <2>3 DEF InputOutcomes
    <3>2. v < cmd.size /\ v < 0
      BY <1>1, <3>1 DEF EIO
    <3> QED
      BY <2>1, <3>1, <3>2 DEF Leave, Exits
  <2> QED
    BY <2>2, <2>3
<1>4. ToolTypeOK'
  BY <1>1, <1>2, <1>3 DEF ToolTypeOK
<1>5. PlaceInv'
  BY <1>1, <1>2, <1>3 DEF PlaceInv, Piece
<1>6. WholeInv'
  BY <1>1, <1>2, <1>3, SetsKept DEF WholeInv
<1>7. ShortInv'
  BY <1>1, <1>2, <1>3 DEF ShortInv, MovedPairs, SavedPairs
<1>8. ExitInv'
  BY <1>1, <1>2, <1>3 DEF ExitInv, ExitZeroMeansAll, EIO
<1> QED
  BY <1>4, <1>5, <1>6, <1>7, <1>8 DEF RunInv

\* A loop of read_to_buffer or write_from_buffer has moved everything.
LEMMA ChunksDoneKept ==
  ASSUME RunInv, ChunksDone
  PROVE  RunInv'
<1>1. /\ ToolTypeOK /\ PlaceInv /\ WholeInv /\ ShortInv /\ ExitInv /\ step = "move"
      /\ step' = "returned" /\ rc' = moving /\ moving \in Nat
  BY DEF RunInv, ChunksDone, ToolTypeOK
<1>2. UNCHANGED <<cmd, i, from, moving, f_pos, bytes_done, underflow, out_offset, moved, saved, exit>>
  BY DEF ChunksDone
<1>4. ToolTypeOK'
  BY <1>1, <1>2 DEF ToolTypeOK
<1>5. PlaceInv'
  BY <1>1, <1>2 DEF PlaceInv, Piece
<1>6. WholeInv'
  BY <1>1, <1>2, SetsKept DEF WholeInv
<1>7. ShortInv'
  BY <1>1, <1>2 DEF ShortInv, MovedPairs, SavedPairs
<1>8. ExitInv'
  BY <1>1, <1>2 DEF ExitInv, ExitZeroMeansAll
<1> QED
  BY <1>4, <1>5, <1>6, <1>7, <1>8 DEF RunInv

\* The seek puts the call at the place of its first byte: without one, at
\* address 0, the file position has not moved, or that is a lapse.
LEMMA SeekFacts ==
  ASSUME lapses' = {}, Chunk
  PROVE  f_pos' = cmd.addr + moving
<1>1. f_pos' = IF cmd.addr + moving # 0 THEN cmd.addr + moving ELSE f_pos
  BY DEF Chunk, Seek
<1>2. ~(cmd.addr + moving = 0 /\ f_pos # 0)
  BY DEF Chunk, Lapse
<1> QED
  BY <1>1, <1>2

\* One system call moves the next bytes, or the loop returns.
LEMMA ChunkKept ==
  ASSUME lapses' = {}, RunInv, Chunk
  PROVE  RunInv'
<1>1. /\ ToolTypeOK /\ PlaceInv /\ WholeInv /\ ShortInv /\ ExitInv /\ step = "move"
      /\ moving < Piece /\ moving \in Nat /\ from \in Nat /\ i \in Nat /\ Piece \in Nat
      /\ cmd.addr \in Nat /\ cmd.size \in Nat /\ cmd.aperture \in 0 .. 2 /\ RW_MAX_SIZE \in Nat
      /\ RW_MAX_SIZE > 0
  <2>1. RunInv /\ ToolTypeOK /\ step = "move" /\ moving < Piece
    BY DEF RunInv, Chunk
  <2> QED
    BY <2>1, CommandFacts, SizeFacts, PieceFacts DEF RunInv, ToolTypeOK
<1>2. UNCHANGED <<cmd, i, from, bytes_done, underflow, out_offset, saved, exit>>
  BY DEF Chunk
<1>3. f_pos' = cmd.addr + moving
  BY SeekFacts
<1>4. Bytes \in Nat /\ Bytes > 0 /\ (Bytes = Piece - moving \/ Bytes = RW_MAX_SIZE)
      /\ moving + Bytes <= Piece
  BY <1>1 DEF Bytes, Lesser
<1>5. PICK n \in Outcomes :
       /\ IF n < 0
          THEN /\ rc' = n /\ step' = "returned"
               /\ UNCHANGED <<moving, moved>>
          ELSE /\ moved' = moved \cup
                    {<<i, from + moving + x, f_pos' + x>> : x \in 0 .. n - 1}
               /\ moving' = moving + n
               /\ IF n < Bytes THEN step' = "returned" /\ rc' = moving'
                  ELSE UNCHANGED <<step, rc>>
       /\ ~(n < 0 /\ cmd.aperture # 0)
  BY DEF Chunk, Lapse
<1>6. (n = -EIO /\ cmd.aperture = 0) \/ (n \in Nat /\ n <= Bytes)
  <2>1. n \in 0 .. Bytes \/ n = -EIO
    BY <1>5 DEF Outcomes
  <2>2. n = -EIO => cmd.aperture = 0
    BY <1>5 DEF EIO
  <2>3. n \in 0 .. Bytes => n \in Nat /\ n <= Bytes
    BY <1>4
  <2> QED
    BY <2>1, <2>2, <2>3
<1>7. PlaceInv' /\ ToolTypeOK'
  <2>1. Piece' = Piece
    BY <1>2 DEF Piece
  <2>3. f_pos' \in Nat
    BY <1>1, <1>3
  <2>4. CASE n = -EIO /\ cmd.aperture = 0
    <3>1. n < 0 /\ n \in Int
      BY <2>4 DEF EIO
    <3> QED
      BY <1>1, <1>2, <1>5, <2>1, <2>3, <2>4, <3>1 DEF PlaceInv, ToolTypeOK
  <2>5. CASE n \in Nat /\ n <= Bytes
    <3>1. ~(n < 0) /\ moving' = moving + n /\ moving' \in Nat /\ moving' <= Piece
      BY <1>1, <1>4, <1>5, <2>5
    <3>2. IF n < Bytes THEN step' = "returned" /\ rc' = moving'
          ELSE step' = step /\ rc' = rc
      BY <1>5, <3>1
    <3>4. ToolTypeOK'
      BY <1>1, <1>2, <2>3, <3>1, <3>2 DEF ToolTypeOK
    <3>5. PlaceInv'
      BY <1>1, <1>2, <2>1, <3>1, <3>2 DEF PlaceInv
    <3> QED
      BY <3>4, <3>5
  <2> QED
    BY <1>6, <2>4, <2>5
<1>8. CASE n = -EIO /\ cmd.aperture = 0
  <2>1. step' = "returned" /\ UNCHANGED <<moving, moved>>
    BY <1>5, <1>8 DEF EIO
  <2>2. WholeInv'
    BY <1>1, <1>2, <2>1, SetsKept DEF WholeInv
  <2>3. ShortInv'
    BY <1>1, <1>2, <2>1 DEF ShortInv, MovedPairs, SavedPairs
  <2>4. ExitInv'
    BY <1>1, <1>2, <2>1 DEF ExitInv, ExitZeroMeansAll
  <2> QED
    BY <1>7, <2>2, <2>3, <2>4 DEF RunInv
<1>9. CASE n \in Nat /\ n <= Bytes
  <2>1. /\ moving' = moving + n /\ step' \in {"move", "returned"}
        /\ moved' = moved \cup {<<i, from + moving + x, f_pos' + x>> : x \in 0 .. n - 1}
    BY <1>1, <1>5, <1>9
  <2>2. \A x \in 0 .. n - 1 : /\ from + moving + x = (from + moving) + x
                              /\ f_pos' + x = Place((from + moving) + x)
    <3> SUFFICES ASSUME NEW x \in 0 .. n - 1
                 PROVE  f_pos' + x = Place((from + moving) + x)
      OBVIOUS
    <3>1. moving + x \in Nat /\ moving + x < Piece
      BY <1>1, <1>4, <1>9
    <3>2. CASE cmd.aperture = 0
      BY <1>1, <1>3, <3>1, <3>2 DEF Place, PlaceInv
    <3>3. CASE cmd.aperture # 0
      <4>1. moving + x \in 0 .. cmd.aperture - 1 /\ cmd.aperture \in 1 .. 2
        BY <1>1, <3>1, <3>3, PieceFacts
      <4>2. from % cmd.aperture = 0
        BY <1>1, <3>3 DEF PlaceInv
      <4>3. (from + (moving + x)) % cmd.aperture = moving + x
        BY <1>1, <4>1, <4>2, ApertureFacts
      <4>4. (from + moving) + x = from + (moving + x) /\ f_pos' + x = cmd.addr + (moving + x)
        BY <1>1, <1>3
      <4> QED
        BY <3>3, <4>3, <4>4 DEF Place
    <3> QED
      BY <3>2, <3>3
  <2>3. moved' = moved \cup More(i, from + moving, n)
    BY <2>1, <2>2 DEF More
  <2>4. WholeInv'
    <3>1. ~underflow => moved = Moved(i, from + moving)
      BY <1>1 DEF WholeInv
    <3>2. from + moving \in Nat /\ (from + moving) + n <= cmd.size
          /\ (from + moving) + n = from' + moving'
      BY <1>1, <1>2, <1>4, <1>9, <2>1, PieceFacts
    <3> DEFINE so == from + moving
    <3>4. Moved(i, so) \cup More(i, so, n) = Moved(i, so + n)
      <4>1. ToolTypeOK /\ i \in Nat /\ so \in Nat /\ n \in Nat /\ so + n <= cmd.size
        BY <1>1, <1>9, <3>2
      <4> HIDE DEF so
      <4> QED
        BY <4>1, MovedGrows
    <3>5. moved' = moved \cup More(i, so, n)
      BY <2>3
    <3>6. Moved(i, so + n) = Moved(i', from' + moving')
      BY <1>2, <3>2
    <3>3. ~underflow => moved' = Moved(i', from' + moving')
      BY <3>1, <3>4, <3>5, <3>6, Zenon
    <3> QED
      BY <1>1, <1>2, <2>1, <3>3, SetsKept DEF WholeInv
  <2>5. ShortInv'
    <3> SUFFICES ASSUME cmd.output, cmd.aperture = 0
                 PROVE  MovedPairs' = SavedPairs' \cup {<<i', k>> : k \in 0 .. moving' - 1}
      BY <1>2, <2>1 DEF ShortInv
    <3> DEFINE New == {<<i, k>> : k \in moving .. moving + n - 1}
    <3>1. from = 0
      BY <1>1 DEF PlaceInv
    <3>2. MovedPairs' = MovedPairs \cup New
      <4>1. ASSUME NEW x \in 0 .. n - 1
            PROVE  moving + x \in moving .. moving + n - 1
                   /\ <<i, (from + moving) + x, Place((from + moving) + x)>>[2] = moving + x
        BY <1>1, <1>9, <3>1
      <4>2. ASSUME NEW k \in moving .. moving + n - 1
            PROVE  k - moving \in 0 .. n - 1 /\ (from + moving) + (k - moving) = k
        BY <1>1, <1>9, <3>1
      <4>3. ASSUME NEW p \in MovedPairs' PROVE p \in MovedPairs \cup New
        <5>1. PICK m \in moved' : p = <<m[1], m[2]>>
          BY DEF MovedPairs
        <5>2. CASE m \in moved
          BY <5>1, <5>2 DEF MovedPairs
        <5>3. CASE m \notin moved
          <6>1. PICK x \in 0 .. n - 1 : m = <<i, (from + moving) + x, Place((from + moving) + x)>>
            BY <2>3, <5>3 DEF More
          <6> QED
            BY <4>1, <5>1, <6>1
        <5> QED
          BY <5>2, <5>3
      <4>4. ASSUME NEW p \in MovedPairs \cup New PROVE p \in MovedPairs'
        <5>1. CASE p \in MovedPairs
          BY <2>3, <5>1 DEF MovedPairs
        <5>2. CASE p \in New
          <6>1. PICK k \in moving .. moving + n - 1 : p = <<i, k>>
            BY <5>2
          <6>2. <<i, k, Place(k)>> \in moved'
            BY <2>3, <4>2 DEF More
          <6> QED
            BY <6>1, <6>2 DEF MovedPairs
        <5> QED
          BY <5>1, <5>2
      <4> QED
        BY <4>3, <4>4
    <3>3. MovedPairs = SavedPairs \cup {<<i, k>> : k \in 0 .. moving - 1}
      BY <1>1 DEF ShortInv
    <3>4. SavedPairs' = SavedPairs
      BY <1>2 DEF SavedPairs
    <3>5. {<<i, k>> : k \in 0 .. moving - 1} \cup New = {<<i', k>> : k \in 0 .. moving' - 1}
      BY <1>1, <1>2, <1>9, <2>1
    <3> QED
      BY <3>2, <3>3, <3>4, <3>5
  <2>6. ExitInv'
    BY <1>1, <1>2, <2>1 DEF ExitInv, ExitZeroMeansAll
  <2> QED
    BY <1>7, <2>4, <2>5, <2>6 DEF RunInv
<1> QED
  BY <1>6, <1>8, <1>9

\* test_dma has moved a whole buffer, or less.
LEMMA MovedWholeKept ==
  ASSUME RunInv, MovedWhole
  PROVE  RunInv'
<1>1. /\ ToolTypeOK /\ PlaceInv /\ WholeInv /\ ShortInv /\ ExitInv /\ step = "returned"
      /\ cmd.aperture = 0 /\ moving \in Nat /\ from = 0 /\ i \in Nat /\ rc \in Int
      /\ cmd.size \in Nat /\ moving <= cmd.size /\ underflow \in BOOLEAN
      /\ rc = moving \/ rc < 0
  BY CommandFacts, PieceFacts DEF RunInv, ToolTypeOK, PlaceInv, MovedWhole
<1>2. UNCHANGED <<cmd, i, from, moving, f_pos, rc, out_offset, moved, saved>>
  BY DEF MovedWhole
<1>3. CASE rc < 0
  <2>1. /\ step' = "gone" /\ exit' = {rc} /\ bytes_done' = bytes_done /\ underflow' = underflow
    BY <1>1, <1>3 DEF MovedWhole, Leave, Exits
  <2>2. ToolTypeOK'
    BY <1>1, <1>2, <2>1 DEF ToolTypeOK
  <2>3. PlaceInv'
    BY <1>1, <1>2, <2>1 DEF PlaceInv, Piece
  <2>4. WholeInv' /\ ShortInv'
    BY <2>1 DEF WholeInv, ShortInv
  <2>5. ExitInv'
    BY <1>1, <1>3, <2>1 DEF ExitInv, ExitZeroMeansAll
  <2> QED
    BY <2>2, <2>3, <2>4, <2>5 DEF RunInv
<1>4. CASE ~(rc < 0)
  <2>1. /\ step' = "save" /\ exit' = exit /\ bytes_done' = moving
        /\ underflow' = (underflow \/ moving < cmd.size)
    BY <1>1, <1>4 DEF MovedWhole
  <2>2. ToolTypeOK'
    BY <1>1, <1>2, <2>1 DEF ToolTypeOK
  <2>3. PlaceInv'
    BY <1>1, <1>2, <2>1 DEF PlaceInv, Piece
  <2>4. WholeInv'
    <3> SUFFICES ASSUME ~underflow' PROVE WholeInv'
      BY DEF WholeInv
    <3>0. ~underflow /\ ~(moving < cmd.size)
      BY <2>1, Zenon
    <3>1. ~underflow /\ moving = cmd.size /\ from + moving = cmd.size
      BY <1>1, <3>0
    <3> QED
      BY <1>1, <1>2, <2>1, <3>1, SetsKept DEF WholeInv
  <2>5. ShortInv'
    BY <1>1, <1>2, <2>1 DEF ShortInv, MovedPairs, SavedPairs
  <2>6. ExitInv'
    BY <1>1, <1>2, <2>1 DEF ExitInv, ExitZeroMeansAll
  <2> QED
    BY <2>2, <2>3, <2>4, <2>5, <2>6 DEF RunInv
<1> QED
  BY <1>3, <1>4

\* test_dma has moved the piece of an aperture.
LEMMA MovedApertureKept ==
  ASSUME RunInv, MovedAperture
  PROVE  RunInv'
<1>1. /\ ToolTypeOK /\ PlaceInv /\ WholeInv /\ ShortInv /\ ExitInv /\ step = "returned"
      /\ cmd.aperture # 0 /\ cmd.aperture \in 1 .. 2 /\ moving \in Nat /\ from \in Nat /\ i \in Nat
      /\ rc = moving /\ bytes_done \in Nat
      /\ cmd.size \in Nat /\ cmd.size <= MaxSize /\ MaxSize \in Nat /\ 0 < MaxCount
      /\ underflow \in BOOLEAN
      /\ moving <= Piece /\ Piece \in Nat /\ from + Piece <= cmd.size
  <2>1. ToolTypeOK /\ PlaceInv /\ cmd.aperture # 0 /\ step = "returned"
    BY DEF RunInv, MovedAperture
  <2>2. MaxSize \in Nat
    BY SizeFacts, Zenon
  <2> QED
    BY <2>1, <2>2, CommandFacts, PieceFacts DEF RunInv, ToolTypeOK, PlaceInv
<1>2. UNCHANGED <<cmd, i, f_pos, out_offset, moved, saved, exit>> /\ moving' = 0 /\ rc' = 0
  BY DEF MovedAperture
<1>3. AsU64(rc) = moving
  BY <1>1, FitsU64
<1>4. /\ bytes_done' = AsU64((IF from = 0 THEN 0 ELSE bytes_done) + moving)
      /\ underflow' = (underflow \/ moving < Piece)
  BY <1>3 DEF MovedAperture
<1>5. bytes_done' \in Nat
  <2>1. U64 \in Nat /\ U64 > 0
    BY <1>1, SizeFacts
  <2>2. \A x \in Nat : x % U64 \in Nat
    BY <2>1
  <2>3. (IF from = 0 THEN 0 ELSE bytes_done) + moving \in Nat
    BY <1>1
  <2> QED
    BY <1>4, <2>2, <2>3 DEF AsU64
<1>6. ~underflow' => /\ ~underflow /\ moving = Piece /\ bytes_done' = from + Piece
                     /\ moved = Moved(i, from + Piece)
  <2> SUFFICES ASSUME ~underflow' PROVE /\ ~underflow /\ moving = Piece
                                        /\ bytes_done' = from + Piece
                                        /\ moved = Moved(i, from + Piece)
    OBVIOUS
  <2>0. ~underflow /\ ~(moving < Piece)
    BY <1>4, Zenon
  <2>1. ~underflow /\ moving = Piece
    BY <1>1, <2>0
  <2>2. from # 0 => bytes_done = from
    BY <1>1, <2>1 DEF WholeInv
  <2>3. (IF from = 0 THEN 0 ELSE bytes_done) + moving = from + Piece
    BY <1>1, <2>1, <2>2
  <2>4. from + Piece \in Nat /\ from + Piece <= MaxSize
    BY <1>1
  <2>5. AsU64(from + Piece) = from + Piece
    BY <1>1, <2>4, FitsU64
  <2>6. bytes_done' = from + Piece
    BY <1>4, <2>3, <2>5
  <2> QED
    BY <1>1, <2>1, <2>6 DEF WholeInv
<1>7. \/ /\ from + cmd.aperture < cmd.size /\ Piece = cmd.aperture
         /\ step' = "move" /\ from' = from + cmd.aperture
      \/ /\ from + Piece = cmd.size /\ step' = "save" /\ from' = from
  BY <1>1, PieceFacts DEF MovedAperture
<1>8. ToolTypeOK'
  BY <1>1, <1>2, <1>4, <1>5, <1>7 DEF ToolTypeOK
<1>9. PlaceInv'
  <2>1. from % cmd.aperture = 0
    BY <1>1 DEF PlaceInv
  <2>2. from' % cmd.aperture = 0
    BY <1>1, <1>7, <2>1, ApertureFacts
  <2>3. 0 <= Piece' /\ from' <= cmd.size /\ (from' < cmd.size \/ from' = 0)
    <3>1. from' \in Nat /\ from' <= cmd.size /\ (from' < cmd.size \/ from' = 0)
      BY <1>1, <1>7 DEF PlaceInv
    <3> QED
      BY <1>1, <1>2, <3>1 DEF Piece, Lesser
  <2> QED
    BY <1>1, <1>2, <1>7, <2>2, <2>3 DEF PlaceInv
<1>10. WholeInv'
  <2> SUFFICES ASSUME ~underflow' PROVE WholeInv'
    BY DEF WholeInv
  <2>1. cmd.output => saved = Saved(i) /\ out_offset = i * cmd.size
    BY <1>1, <1>6 DEF WholeInv
  <2>2. from' \in Nat /\ from' + moving' = from'
    BY <1>1, <1>2, <1>7
  <2> QED
    BY <1>1, <1>2, <1>6, <1>7, <2>1, <2>2, SetsKept DEF WholeInv
<1>11. ShortInv' /\ ExitInv'
  BY <1>1, <1>2, <1>7 DEF ShortInv, ExitInv, ExitZeroMeansAll
<1> QED
  BY <1>8, <1>9, <1>10, <1>11 DEF RunInv

\* The bytes of a repetition are saved, and the next one follows.
LEMMA SaveKept ==
  ASSUME lapses' = {}, RunInv, Save
  PROVE  RunInv'
<1>1. /\ ToolTypeOK /\ PlaceInv /\ WholeInv /\ ShortInv /\ ExitInv /\ step = "save"
      /\ i \in Nat /\ i < cmd.count /\ cmd.count \in Nat /\ cmd.size \in Nat
      /\ cmd.aperture \in 0 .. 2 /\ bytes_done \in Nat /\ out_offset \in Nat /\ moving \in Nat
      /\ cmd.output \in BOOLEAN /\ underflow \in BOOLEAN /\ cmd.eop_flush \in BOOLEAN
      /\ exit = {}
  <2>1. RunInv /\ ToolTypeOK /\ step = "save"
    BY DEF RunInv, Save
  <2> QED
    BY <2>1, CommandFacts DEF RunInv, ToolTypeOK, ExitInv
<1>2. UNCHANGED <<cmd, f_pos, bytes_done, underflow, moved>> /\ from' = 0 /\ moving' = 0
  BY DEF Save
<1>3. PICK n \in SaveOutcomes :
       /\ saved' = saved \cup {<<out_offset + x, i, x>> : x \in 0 .. n - 1}
       /\ out_offset' = IF cmd.output THEN out_offset + bytes_done ELSE out_offset
       /\ rc' = n
       /\ IF cmd.output /\ (n < 0 \/ n < bytes_done)
          THEN Leave(n) /\ UNCHANGED i ELSE NextRound
       /\ ~(cmd.output /\ n \in 0 .. bytes_done - 1)
  BY DEF Save, Lapse
<1>4. \/ ~cmd.output /\ n = 0
      \/ cmd.output /\ n = bytes_done
      \/ cmd.output /\ n = -EIO
  <2>1. IF ~cmd.output THEN n = 0 ELSE n = -EIO \/ n \in 0 .. Lesser(bytes_done, cmd.size)
    BY <1>3 DEF SaveOutcomes
  <2>2. ASSUME cmd.output, n \in 0 .. Lesser(bytes_done, cmd.size) PROVE n = bytes_done
    BY <1>1, <1>3, <2>2 DEF Lesser
  <2> QED
    BY <1>1, <2>1, <2>2
<1>5. 0 <= Piece' /\ Piece' \in Nat
  BY <1>1, <1>2 DEF Piece, Lesser
<1>6. out_offset' \in Nat /\ rc' \in Int
  BY <1>1, <1>3, <1>4 DEF EIO
<1>7. cmd.aperture # 0 => 0 % cmd.aperture = 0
  BY <1>1
<1>8. CASE cmd.output /\ n = -EIO
  <2>1. step' = "gone" /\ i' = i /\ exit' = {-EIO}
    <3>1. n < 0
      BY <1>8 DEF EIO
    <3>2. Leave(n) /\ i' = i
      BY <1>3, <1>8, <3>1
    <3> QED
      BY <1>8, <3>1, <3>2 DEF Leave, Exits
  <2>2. ToolTypeOK'
    BY <1>1, <1>2, <1>6, <2>1 DEF ToolTypeOK
  <2>3. PlaceInv'
    BY <1>1, <1>2, <1>5, <1>7, <2>1 DEF PlaceInv
  <2>4. WholeInv' /\ ShortInv'
    BY <2>1 DEF WholeInv, ShortInv
  <2>5. ExitInv'
    BY <2>1 DEF ExitInv, ExitZeroMeansAll, EIO
  <2> QED
    BY <2>2, <2>3, <2>4, <2>5 DEF RunInv
<1>9. CASE ~(cmd.output /\ n = -EIO)
  <2>1. NextRound
    <3>1. ~(cmd.output /\ (n < 0 \/ n < bytes_done))
      BY <1>1, <1>4, <1>9
    <3> QED
      BY <1>3, <3>1
  <2>2. ~underflow => /\ moved = Moved(i + 1, 0)
                      /\ cmd.output => saved' = Saved(i + 1) /\ out_offset' = (i + 1) * cmd.size
    <3> SUFFICES ASSUME ~underflow
                 PROVE  /\ moved = Moved(i + 1, 0)
                        /\ cmd.output => /\ saved' = Saved(i + 1)
                                         /\ out_offset' = (i + 1) * cmd.size
      OBVIOUS
    <3>1. /\ moved = Moved(i, cmd.size) /\ bytes_done = cmd.size
          /\ cmd.output => saved = Saved(i) /\ out_offset = i * cmd.size
      BY <1>1 DEF WholeInv
    <3>2. moved = Moved(i + 1, 0)
      BY <1>1, <3>1, MovedNext
    <3>3. ASSUME cmd.output PROVE saved' = Saved(i + 1) /\ out_offset' = (i + 1) * cmd.size
      <4>1. n = cmd.size /\ out_offset = i * cmd.size /\ saved = Saved(i)
        BY <1>4, <1>9, <3>1, <3>3, Zenon
      <4>2. saved' = Saved(i) \cup {<<i * cmd.size + x, i, x>> : x \in 0 .. cmd.size - 1}
        BY <1>3, <4>1, Zenon
      <4>3. out_offset' = i * cmd.size + cmd.size
        BY <1>3, <3>1, <3>3, <4>1, Zenon
      <4> QED
        BY <1>1, <4>2, <4>3, SavedNext, Zenon
    <3> QED
      BY <3>2, <3>3
  <2>3. cmd.output /\ cmd.aperture = 0 => MovedPairs' = SavedPairs'
    <3> SUFFICES ASSUME cmd.output, cmd.aperture = 0 PROVE MovedPairs' = SavedPairs'
      OBVIOUS
    <3>1. n = moving /\ MovedPairs = SavedPairs \cup {<<i, k>> : k \in 0 .. moving - 1}
      BY <1>1, <1>4, <1>9 DEF ShortInv
    <3>2. saved' = saved \cup {<<out_offset + x, i, x>> : x \in 0 .. moving - 1}
      BY <1>3, <3>1, Zenon
    <3>3. SavedPairs' = SavedPairs \cup {<<i, k>> : k \in 0 .. moving - 1}
      <4>1. ASSUME NEW p \in SavedPairs' PROVE p \in SavedPairs \cup {<<i, k>> : k \in 0 .. moving - 1}
        <5>1. PICK s \in saved' : p = <<s[2], s[3]>>
          BY DEF SavedPairs
        <5>2. CASE s \in saved
          BY <5>1, <5>2 DEF SavedPairs
        <5>3. CASE s \notin saved
          <6>1. PICK x \in 0 .. moving - 1 : s = <<out_offset + x, i, x>>
            BY <3>2, <5>3
          <6> QED
            BY <5>1, <6>1
        <5> QED
          BY <5>2, <5>3
      <4>2. ASSUME NEW p \in SavedPairs \cup {<<i, k>> : k \in 0 .. moving - 1} PROVE p \in SavedPairs'
        <5>1. CASE p \in SavedPairs
          BY <3>2, <5>1 DEF SavedPairs
        <5>2. CASE p \in {<<i, k>> : k \in 0 .. moving - 1}
          <6>1. PICK k \in 0 .. moving - 1 : p = <<i, k>>
            BY <5>2
          <6>2. <<out_offset + k, i, k>> \in saved'
            BY <3>2
          <6> QED
            BY <6>1, <6>2 DEF SavedPairs
        <5> QED
          BY <5>1, <5>2
      <4> QED
        BY <4>1, <4>2
    <3>4. MovedPairs' = MovedPairs
      BY <1>2 DEF MovedPairs
    <3> QED
      BY <3>1, <3>3, <3>4
  <2>4. CASE i + 1 < cmd.count
    <3>1. i' = i + 1 /\ step' = "move" /\ exit' = exit
      BY <2>1, <2>4 DEF NextRound
    <3>2. ToolTypeOK'
      BY <1>1, <1>2, <1>6, <2>4, <3>1 DEF ToolTypeOK
    <3>3. PlaceInv'
      BY <1>1, <1>2, <1>5, <1>7, <3>1 DEF PlaceInv
    <3>4. WholeInv'
      <4>1. from' + moving' = 0
        BY <1>2
      <4> QED
        BY <1>2, <2>2, <3>1, <4>1, SetsKept DEF WholeInv
    <3>5. ShortInv'
      <4>1. {<<i', k>> : k \in 0 .. moving' - 1} = {}
        BY <1>2
      <4> QED
        BY <1>2, <2>3, <3>1, <4>1 DEF ShortInv
    <3>6. ExitInv'
      BY <1>1, <3>1 DEF ExitInv, ExitZeroMeansAll
    <3> QED
      BY <3>2, <3>3, <3>4, <3>5, <3>6 DEF RunInv
  <2>5. CASE ~(i + 1 < cmd.count)
    <3>1. /\ i' = i /\ step' = "gone" /\ i + 1 = cmd.count
          /\ exit' = {IF underflow /\ ~cmd.eop_flush THEN -EIO ELSE 0}
      BY <1>1, <2>1, <2>5 DEF NextRound
    <3>2. ToolTypeOK'
      BY <1>1, <1>2, <1>6, <3>1 DEF ToolTypeOK
    <3>3. PlaceInv'
      BY <1>1, <1>2, <1>5, <1>7, <3>1 DEF PlaceInv
    <3>4. WholeInv' /\ ShortInv'
      BY <3>1 DEF WholeInv, ShortInv
    <3>5. ExitZeroMeansAll'
      <4> SUFFICES ASSUME 0 \in exit' PROVE ExitZeroMeansAll'
        BY DEF ExitZeroMeansAll
      <4>1. cmd.eop_flush \/ ~underflow
        BY <3>1 DEF EIO
      <4>2. Everything' = Everything
        BY <1>2 DEF Everything, Place
      <4>3. ~cmd.eop_flush => moved' = Everything'
        BY <1>1, <1>2, <2>2, <3>1, <4>1, <4>2, AllOfThem
      <4>4. cmd.output /\ ~cmd.eop_flush =>
              saved' = {<<r * cmd.size + k, r, k>> : r \in 0 .. cmd.count - 1,
                                                     k \in 0 .. cmd.size - 1}
        BY <1>1, <2>2, <3>1, <4>1, AllOfThem
      <4> QED
        BY <1>2, <2>3, <4>3, <4>4 DEF ExitZeroMeansAll, MovedPairs, SavedPairs
    <3> QED
      BY <3>1, <3>2, <3>3, <3>4, <3>5 DEF RunInv, ExitInv
  <2> QED
    BY <2>4, <2>5
<1> QED
  BY <1>8, <1>9

\* A step of the tool keeps the state of its run.
LEMMA ToolKept ==
  ASSUME lapses' = {}, RunInv, ToolStep
  PROVE  RunInv'
  BY ReadInputKept, ChunkKept, ChunksDoneKept, MovedWholeKept, MovedApertureKept, SaveKept
     DEF ToolStep

\* The tool starts with nothing moved.
LEMMA ToolInitially == ASSUME Init PROVE ToolInv
<1>1. CASE program # "tool"
  BY <1>1 DEF ToolInv, Init, ToolInit
<1>2. CASE program = "tool"
  <2>1. ToolInit
    BY DEF Init
  <2>2. ToolTypeOK
    <3>1. cmd \in Commands /\ cmd.count \in 1 .. MaxCount
      BY <2>1 DEF ToolInit, Commands
    <3>2. 0 \in 0 .. cmd.count - 1
      BY <3>1, SizeFacts
    <3>3. /\ step = "start" /\ i = 0 /\ from = 0 /\ moving = 0 /\ f_pos = 0 /\ rc = 0
          /\ bytes_done = 0 /\ underflow = FALSE /\ out_offset = 0
      BY <2>1 DEF ToolInit
    <3>4. i \in 0 .. cmd.count - 1
      BY <3>2, <3>3, Zenon
    <3>5. underflow \in BOOLEAN
      BY <3>3, Zenon
    <3>6. /\ from \in Nat /\ moving \in Nat /\ f_pos \in Nat /\ rc \in Int
          /\ bytes_done \in Nat /\ out_offset \in Nat
      BY <3>3
    <3> QED
      BY <3>1, <3>3, <3>4, <3>5, <3>6, Zenon DEF ToolTypeOK
  <2>3. cmd.size \in Nat /\ cmd.aperture \in 0 .. 2
    BY <2>2, CommandFacts
  <2>4. PlaceInv
    <3>1. Piece \in Nat
      BY <2>1, <2>3 DEF ToolInit, Piece, Lesser
    <3>2. cmd.aperture # 0 => 0 % cmd.aperture = 0
      BY <2>3
    <3> QED
      BY <2>1, <2>3, <3>1, <3>2 DEF ToolInit, PlaceInv
  <2>5. WholeInv
    <3>1. Moved(0, 0) = {} /\ Saved(0) = {} /\ 0 * cmd.size = 0
      BY <2>3 DEF Moved, Saved
    <3> QED
      BY <2>1, <3>1 DEF ToolInit, WholeInv
  <2>6. ShortInv
    <3>1. MovedPairs = {} /\ SavedPairs = {} /\ {<<i, k>> : k \in 0 .. moving - 1} = {}
      BY <2>1 DEF ToolInit, MovedPairs, SavedPairs
    <3> QED
      BY <2>1, <3>1 DEF ToolInit, ShortInv
  <2>7. ExitInv
    BY <2>1 DEF ToolInit, ExitInv, ExitZeroMeansAll
  <2> QED
    BY <1>2, <2>2, <2>4, <2>5, <2>6, <2>7 DEF ToolInv, RunInv
<1> QED
  BY <1>1, <1>2

\* The other programs leave the tool alone.
LEMMA ToolAlways == ASSUME ToolInv, [Next]_vars PROVE ToolInv'
<1>1. ASSUME UNCHANGED <<program, tool>> PROVE ToolInv'
  <2>1. /\ program' = program
        /\ UNCHANGED <<cmd, step, i, from, moving, f_pos, rc, bytes_done, underflow,
                       out_offset, moved, saved, exit, lapses>>
    BY <1>1 DEF tool
  <2>2. CASE program # "tool"
    BY <2>1, <2>2 DEF ToolInv
  <2>3. CASE program = "tool"
    <3> SUFFICES ASSUME lapses' = {} PROVE RunInv'
      BY <2>1, <2>3 DEF ToolInv
    <3>0. RunInv
      BY <2>1, <2>3 DEF ToolInv
    <3>1. ToolTypeOK'
      BY <2>1, <3>0 DEF RunInv, ToolTypeOK
    <3>2. PlaceInv'
      BY <2>1, <3>0 DEF RunInv, PlaceInv, Piece
    <3>3. WholeInv'
      BY <2>1, <3>0 DEF RunInv, WholeInv, Moved, Saved, Place
    <3>4. ShortInv'
      BY <2>1, <3>0 DEF RunInv, ShortInv, MovedPairs, SavedPairs
    <3>5. ExitInv'
      BY <2>1, <3>0 DEF RunInv, ExitInv, ExitZeroMeansAll, Everything, Place
    <3> QED
      BY <3>1, <3>2, <3>3, <3>4, <3>5 DEF RunInv
  <2> QED
    BY <2>2, <2>3
<1>2. CASE Tool
  <2>1. program = "tool" /\ program' = program /\ ToolStep
    BY <1>2 DEF Tool, FirmwareIdle
  <2>2. lapses \subseteq lapses'
    BY <2>1 DEF ToolStep, ReadInput, Chunk, ChunksDone, MovedWhole, MovedAperture, Save
  <2>3. ASSUME lapses' = {} PROVE RunInv'
    <3>1. lapses = {}
      BY <2>2, <2>3
    <3>2. RunInv
      BY <2>1, <3>1 DEF ToolInv
    <3> QED
      BY <2>1, <2>3, <3>2, ToolKept
  <2> QED
    BY <2>1, <2>3 DEF ToolInv
<1>3. CASE Clock \/ Dma \/ Udp
  BY <1>1, <1>3 DEF Clock, Dma, Udp, HostIdle
<1>4. CASE Cable
  BY <1>1, <1>4 DEF Cable, FirmwareIdle
<1>5. CASE UNCHANGED vars
  BY <1>1, <1>5 DEF vars
<1> QED
  BY <1>2, <1>3, <1>4, <1>5 DEF Next

\* Whatever fails or falls short, and whatever the sizes, counts and addresses:
\* exit status 0 without one of the four lapses that ExitZeroMeansAll names means
\* that every byte was moved and saved at its own place (dma_to_device.c:98).
THEOREM ZeroMeansAll == Spec => []ExitZeroMeansAll
<1>1. ToolInv => ExitZeroMeansAll
  BY DEF ToolInv, RunInv, ExitInv, ExitZeroMeansAll
<1>2. Init => ToolInv
  BY ToolInitially
<1>3. ToolInv /\ [Next]_vars => ToolInv'
  BY ToolAlways
<1> QED
  BY <1>1, <1>2, <1>3, PTL DEF Spec
=============================================================================
