---------------------------- MODULE AxiDmaLoop ----------------------------
(***************************************************************************)
(* The AXI DMA firmware: axi_dma_init, the two start functions, the two    *)
(* interrupt handlers, and the main loops of 10ge_recv (receive into one   *)
(* buffer for ever) and axi_dma_poll (send a buffer to the fabric and take *)
(* the answer back, once for each coefficient the operator types).         *)
(* The buffers are tracked through the data cache: 10ge_recv receives into *)
(* cached memory, axi_dma_poll sends from it and receives into uncached    *)
(* block RAM.  axi_dma_poll fills 0x100 words of its send buffer, but      *)
(* PAYLOAD_SIZE counts bytes: only the first quarter is flushed and sent.  *)
(***************************************************************************)
EXTENDS ClockSetup

CONSTANTS Data    \* what a packet or a filled buffer may hold

Channels == {"tx", "rx"}

\* The send buffer: the first dma_to_dev_poll.size bytes, and what main() fills
\* beyond them.
Parts   == {"first", "rest"}
Payload == {"first"}

VARIABLES
  main,      \* where main() is
  dma_ready, \* what axi_dma_init has set up: "ok", "no irq", "no dma"
  chan,      \* each channel of the DMA core
  done,      \* tx_done_flag, rx_done_flag
  error,     \* tx_error, rx_error
  txmem, txline,  \* each part of the send buffer in memory, and its cache line
  rxmem, rxline,  \* the receive buffer
  filled,    \* what main() filled the send buffer with
  sent,      \* which parts the fabric was sent last, and what they held
  packet,    \* what the DMA last wrote to the receive buffer
  received   \* how many packets it wrote, up to 2

buffers == <<txmem, txline, rxmem, rxline, filled, sent, packet, received>>
dma  == <<main, dma_ready, chan, done, error, buffers>>

Loopback == design = "axi_dma_poll"

\* A line of the cache: absent, or a value, written back yet or not.
None     == [state |-> "none"]
Line(s, v) == [state |-> s, val |-> v]
\* What memory holds once the line has been cleaned.
Cleaned(mem, line) == IF line.state = "dirty" THEN line.val ELSE mem
\* What the processor reads.
Seen(mem, line) == IF line.state = "none" THEN mem ELSE line.val

DmaInit ==
  /\ main = "off"
  /\ dma_ready = "no dma"
  /\ chan = [c \in Channels |-> "idle"]
  /\ done = [c \in Channels |-> FALSE]
  /\ error = [c \in Channels |-> FALSE]
  /\ txmem = [p \in Parts |-> "old"] /\ txline = [p \in Parts |-> None]
  /\ rxmem = "old" /\ rxline = None
  /\ filled = "old" /\ sent = [p \in {} |-> "old"]
  /\ packet = "old" /\ received = 0

-----------------------------------------------------------------------------
(***************************************************************************)
(* main().  10ge_recv ignores the result of ProgramSi5324.                 *)
(***************************************************************************)

\* memset of the receive buffer.
Memset ==
  /\ main = "off"
  /\ ClockDone
  /\ design # "udp_client"
  /\ IF Loopback THEN rxmem' = "zero" /\ UNCHANGED rxline
     ELSE rxline' = Line("dirty", "zero") /\ UNCHANGED rxmem
  /\ main' = "init"
  /\ UNCHANGED <<clock, design, dma_ready, chan, done, error, txmem, txline,
                 filled, sent, packet, received>>

\* enable_intr_ connects both handlers and enables both interrupts, or leaves
\* with none enabled.
EnableIntr == {"ok", "no irq"}

\* axi_dma_init: no configuration or no simple mode, or enable_intr_ fails.
\* Both programs ignore its result.
AxiDmaInit ==
  /\ main = "init"
  /\ dma_ready' \in {"no dma"} \cup EnableIntr
  /\ main' = IF Loopback THEN "input" ELSE "start rx"
  /\ UNCHANGED <<clock, design, chan, done, error, buffers>>

\* axi_dma_poll does not look at the buffers after an error.
Failed == Loopback /\ \E c \in Channels : error[c]

\* What follows what in the two loops.  Mutants: the flag is cleared after
\* the transfer was started; the cache is not synchronised.
AfterLate(pc) ==
  CASE pc = "wait"       -> IF Failed THEN "input" ELSE "flush"
    [] pc = "flush"      -> "invalidate"
    [] pc = "invalidate" -> IF Loopback THEN "input" ELSE "start rx"
    [] pc = "clear"      -> IF Loopback THEN "start tx" ELSE "wait"
    [] pc = "start tx"   -> "start rx"
    [] pc = "start rx"   -> IF Loopback THEN "wait" ELSE "clear"
AfterUnsynced(pc) ==
  CASE pc = "wait"       -> IF Loopback THEN "input" ELSE "clear"
    [] pc = "clear"      -> IF Loopback THEN "start tx" ELSE "start rx"
    [] pc = "start tx"   -> "start rx"
    [] pc = "start rx"   -> "wait"
After(pc) ==
  CASE pc = "wait"       -> IF Failed THEN "input" ELSE "flush"
    [] pc = "flush"      -> "invalidate"
    [] pc = "invalidate" -> IF Loopback THEN "input" ELSE "clear"
    [] pc = "clear"      -> IF Loopback THEN "start tx" ELSE "start rx"
    [] pc = "start tx"   -> "start rx"
    [] pc = "start rx"   -> "wait"

At(pc) == main = pc /\ main' = After(pc)

\* A valid coefficient fills the send buffer; another one is asked for again.
Input ==
  /\ main = "input"
  /\ \E d \in Data : filled' = d /\ txline' = [p \in Parts |-> Line("dirty", d)]
  /\ main' = "clear"
  /\ UNCHANGED <<clock, design, dma_ready, chan, done, error, txmem, rxmem,
                 rxline, sent, packet, received>>

\* The flags are cleared: both in axi_dma_poll, the receive flag in 10ge_recv.
\* Mutant: the receive flag keeps the last round's value.
DoneClearedTxOnly == [done EXCEPT !["tx"] = FALSE]
DoneCleared == [c \in Channels |-> IF c = "rx" \/ Loopback THEN FALSE ELSE done[c]]

ClearFlags ==
  /\ At("clear")
  /\ done' = DoneCleared
  /\ UNCHANGED <<clock, design, dma_ready, chan, error, buffers>>

\* XAxiDma_SimpleTransfer: refused without an instance, without effect on a
\* channel that an error has halted.  Its callers' results are ignored.
Started(c) ==
  chan' = IF dma_ready # "no dma" /\ chan[c] = "idle"
          THEN [chan EXCEPT ![c] = "running"] ELSE chan

\* axi_dma_dma_to_dev_poll: flush size bytes, then start.
StartTx ==
  /\ At("start tx")
  /\ txmem' = [p \in Parts |-> IF p \in Payload THEN Cleaned(txmem[p], txline[p])
                               ELSE txmem[p]]
  /\ txline' = [p \in Parts |-> IF p \in Payload THEN None ELSE txline[p]]
  /\ Started("tx")
  /\ UNCHANGED <<clock, design, dma_ready, done, error, rxmem, rxline, filled,
                 sent, packet, received>>

\* axi_dma_dev_to_dma_poll.
StartRx ==
  /\ At("start rx")
  /\ Started("rx")
  /\ UNCHANGED <<clock, design, dma_ready, done, error, buffers>>

\* The loop that polls the flags.
Wait ==
  /\ At("wait")
  /\ done["rx"] /\ (Loopback => done["tx"])
  /\ UNCHANGED <<clock, design, dma_ready, chan, done, error, buffers>>

\* Xil_DCacheFlushRange.
Flush ==
  /\ At("flush")
  /\ rxmem' = Cleaned(rxmem, rxline)
  /\ rxline' = None
  /\ UNCHANGED <<clock, design, dma_ready, chan, done, error, txmem, txline,
                 filled, sent, packet, received>>

\* Xil_DCacheInvalidateRange; in axi_dma_poll the buffers are then printed.
Invalidate ==
  /\ At("invalidate")
  /\ rxline' = None
  /\ UNCHANGED <<clock, design, dma_ready, chan, done, error, txmem, txline,
                 rxmem, filled, sent, packet, received>>

-----------------------------------------------------------------------------
(***************************************************************************)
(* tx_intr_handler and rx_intr_handler.                                    *)
(***************************************************************************)

\* status & XAXIDMA_IRQ_ERROR_MASK, compared with TRUE, that is with 1.
IRQ_ERROR_MASK == 16384
ErrorSeen(status) == (IF status = "error" THEN IRQ_ERROR_MASK ELSE 0) = 1

IntrHandler(c) ==
  /\ dma_ready = "ok"
  /\ chan[c] \in {"complete", "error"}
  /\ done' = [done EXCEPT ![c] = TRUE]
  /\ IF ErrorSeen(chan[c])
     THEN /\ error' = [error EXCEPT ![c] = TRUE]
          /\ chan' = [x \in Channels |-> "idle"]
     ELSE /\ chan' = [chan EXCEPT ![c] =
                        IF chan[c] = "error" THEN "halted" ELSE "idle"]
          /\ UNCHANGED error
  /\ UNCHANGED <<clock, design, main, dma_ready, buffers>>

-----------------------------------------------------------------------------
(***************************************************************************)
(* The DMA core, the fabric and the cache (external).                      *)
(***************************************************************************)
TxFinishes ==
  /\ chan["tx"] = "running"
  /\ chan' = [chan EXCEPT !["tx"] = "complete"]
  /\ sent' = [p \in Payload |-> txmem[p]]
  /\ UNCHANGED <<clock, design, main, dma_ready, done, error, txmem, txline,
                 rxmem, rxline, filled, packet, received>>

RxFinishes ==
  /\ chan["rx"] = "running"
  /\ chan' = [chan EXCEPT !["rx"] = "complete"]
  /\ \E d \in Data : packet' = d /\ rxmem' = d
  /\ received' = IF received < 2 THEN received + 1 ELSE 2
  /\ UNCHANGED <<clock, design, main, dma_ready, done, error, txmem, txline,
                 rxline, filled, sent>>

ChannelFails(c) ==
  /\ chan[c] = "running"
  /\ chan' = [chan EXCEPT ![c] = "error"]
  /\ UNCHANGED <<clock, design, main, dma_ready, done, error, buffers>>

\* The lines of the cached buffer come and go as the processor likes.
Shuffled(line, mem) == IF line = None THEN Line("clean", mem) ELSE None

Cache ==
  /\ main # "off"
  /\ IF Loopback
     THEN /\ \E p \in Parts :
               /\ txmem' = [txmem EXCEPT ![p] = Cleaned(@, txline[p])]
               /\ txline' = [txline EXCEPT ![p] = Shuffled(@, txmem[p])]
          /\ UNCHANGED <<rxmem, rxline>>
     ELSE /\ rxmem' = Cleaned(rxmem, rxline)
          /\ rxline' = Shuffled(rxline, rxmem)
          /\ UNCHANGED <<txmem, txline>>
  /\ UNCHANGED <<clock, design, main, dma_ready, chan, done, error, filled,
                 sent, packet, received>>

-----------------------------------------------------------------------------
DmaMain == Memset \/ AxiDmaInit \/ Input \/ ClearFlags \/ StartTx \/ StartRx
           \/ Wait \/ Flush \/ Invalidate

DmaStep ==
  \/ DmaMain
  \/ \E c \in Channels : IntrHandler(c) \/ ChannelFails(c)
  \/ TxFinishes
  \/ RxFinishes
  \/ Cache

-----------------------------------------------------------------------------
\* When the wait loop ends, no transfer of the round is still running, and
\* unless the sending one failed the fabric was sent the payload that main()
\* had filled in for this round, and no more of the buffer than that: a flag of
\* the round before, or a line of it still in the cache, would break it
\* (axi_dma_poll main.c:71; the words behind the payload are never sent, main.c:39).
RoundIsOver ==
  main \in {"flush", "invalidate"} =>
    /\ \A c \in Channels : chan[c] # "running"
    /\ Loopback /\ chan["tx"] = "idle" => sent = [p \in Payload |-> filled]

\* Once the cache is synchronised the processor sees the packet that came
\* last, whatever the cache fetched meanwhile; but for the first packet of
\* 10ge_recv, which the flush may overwrite with the zeros of memset.
ReceivedIsSeen ==
  /\ main = "clear" /\ ~Loopback /\ received = 2 => Seen(rxmem, rxline) = packet
  /\ main = "input" /\ received > 0 => Seen(rxmem, rxline) = packet

\* The wait loop ends when every transfer it waits for has completed: no
\* completion is lost between the interrupt handler and the flags.
LoopGoesOn ==
  (main = "wait" /\ dma_ready = "ok" /\
     \A c \in Channels : chan[c] \in {"idle", "complete"}) ~> main # "wait"
=============================================================================
