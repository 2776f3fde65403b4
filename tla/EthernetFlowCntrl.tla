-------------------------- MODULE EthernetFlowCntrl --------------------------
(***************************************************************************)
(* ethernet_flow_cntrl.v: the state machine that configures the 10G MAC    *)
(* and, through the MAC's MDIO master, the 10GBASE-R PCS.  One step of the *)
(* model is one rising edge of s_axi_aclk: all processes of the Verilog    *)
(* module read the registers of the last edge and write their own.  The    *)
(* MAC, the PCS and the pins are the environment.                          *)
(*                                                                         *)
(* Words are named by their hexadecimal digits.  An MDIO control word is   *)
(* named by its opcode: its device field is DEV_ADDR in every state that   *)
(* issues a command.                                                       *)
(***************************************************************************)
CONSTANTS Straps,   \* how the pin pcs_loopback may be wired: the sets of
                    \* levels it takes, one of which is fixed on the board
          MayReset  \* s_axi_reset_n may be asserted again

ASSUME PinsAssumption == /\ Straps \subseteq SUBSET BOOLEAN
                         /\ {} \notin Straps
                         /\ MayReset \in BOOLEAN

VARIABLES
  main,              \* the registers of the management process
  mdio,              \* mdio_access_sm and mdio_wr_data
  axi_access_sm,     \* the AXI access state machine
  ar, r, aw, w, b,   \* the channels: valid or ready, payload, axi_status bit
  mdio_ready,        \* an MDIO transaction has been seen to end
  axi_rd_data,       \* the last word read, and where the MAC took it from
  strap,             \* the levels that the pin pcs_loopback takes
  pcs_loopback_reg,  \* the sampled pin
  mac,               \* the MAC's AXI slave and MDIO master, and the PCS
  locked             \* the PCS has block lock and no fault

fsm  == <<main, mdio, axi_access_sm>>
bus  == <<ar, r, aw, w, b>>
vars == <<main, mdio, axi_access_sm, ar, r, aw, w, b, mdio_ready, axi_rd_data,
          strap, pcs_loopback_reg, mac, locked>>

None == "none"

\* The low half of a word; the MAC configuration words only have high bits.
Low16(word) == IF word \in {"RxConfig", "TxConfig"} THEN "0" ELSE word

MainReset == [axi_state |-> "STARTUP", enable_gen |-> FALSE, block_lock |-> FALSE,
              start_access |-> FALSE, start_mdio |-> FALSE, drive_mdio |-> FALSE,
              mdio_op |-> "ADDR", writenread |-> FALSE, addr |-> "0",
              axi_wr_data |-> "0", pcs_loopback_conf_done |-> FALSE,
              pcs_default_conf_done |-> FALSE]

ChannelIdle == [on |-> FALSE, val |-> "0", done |-> FALSE]

\* The MAC out of reset; the PCS address register holds anything.
MacReset(reg) == [aw |-> None, w |-> None, ar |-> None, written |-> {},
                  tx |-> "0", op |-> None, reg |-> reg, ctrl |-> "2040",
                  rx |-> [reg |-> None, val |-> "0"]]

\* The registers without a reset and without an initial value hold anything.
Init ==
  /\ main = MainReset
  /\ mdio = [access_sm |-> "IDLE", wr_data |-> "0"]
  /\ axi_access_sm = "IDLE"
  /\ ar = ChannelIdle /\ r = ChannelIdle
  /\ aw = ChannelIdle /\ w = ChannelIdle /\ b = ChannelIdle
  /\ mdio_ready \in BOOLEAN
  /\ axi_rd_data = [reg |-> None, val |-> "0"]
  /\ strap \in Straps /\ pcs_loopback_reg = FALSE
  /\ mac \in {MacReset(reg) : reg \in {"0", "20"}}
  /\ locked \in BOOLEAN

-----------------------------------------------------------------------------
(***************************************************************************)
(* The management process: one action per state.                           *)
(***************************************************************************)

\* The main state machine stalls while an access takes place.
MainRuns == /\ axi_access_sm = "IDLE"
            /\ mdio.access_sm = "IDLE"
            /\ ~main.start_access
            /\ ~main.start_mdio

MainStall ==
  /\ ~MainRuns
  /\ main' = [main EXCEPT !.start_access = FALSE, !.start_mdio = FALSE]

\* A register write of the MAC.
Configure(state, addr, word, next) ==
  /\ main.axi_state = state
  /\ main' = [main EXCEPT !.start_access = TRUE, !.writenread = TRUE,
                          !.addr = addr, !.axi_wr_data = word,
                          !.axi_state = next]

Startup    == Configure("STARTUP", "CONFIG_MANAGEMENT", "45", "RESET_MAC_RX")
ResetMacRx == Configure("RESET_MAC_RX", "RECEIVER", "RxConfig", "RESET_MAC_TX")
ResetMacTx == Configure("RESET_MAC_TX", "TRANSMITTER", "TxConfig", "MDIO_ADDR_1")

\* Every MDIO state issues a command; the next one is entered when the
\* command that was issued on entry has ended.
Command == [main EXCEPT !.start_mdio = TRUE, !.drive_mdio = TRUE]
When(ended, then, otherwise) == main' = IF ended THEN then ELSE otherwise

MdioAddr1 ==
  /\ main.axi_state = "MDIO_ADDR_1"
  /\ LET m == [Command EXCEPT !.writenread = TRUE, !.addr = "MDIO_CONTROL"]
     IN  When(mdio_ready,
              [m EXCEPT !.mdio_op = "WR",
                        !.axi_wr_data = IF pcs_loopback_reg THEN "8000" ELSE "2000",
                        !.axi_state = IF pcs_loopback_reg
                                      THEN "MDIO_READ_PCS_RESET" ELSE "MDIO_WR"],
              m)

MdioReadPcsReset ==
  /\ main.axi_state = "MDIO_READ_PCS_RESET"
  /\ When(mdio_ready,
          [Command EXCEPT !.mdio_op = "RD", !.axi_state = "MDIO_READ_PCS_RESET_POLL"],
          Command)

MdioReadPcsResetPoll ==
  /\ main.axi_state = "MDIO_READ_PCS_RESET_POLL"
  /\ LET m == [Command EXCEPT !.writenread = FALSE, !.mdio_op = "RD"]
     IN  When(mdio_ready, [m EXCEPT !.axi_state = "MDIO_READ_PCS_RESET_READ"], m)

MdioReadPcsResetRead ==
  /\ main.axi_state = "MDIO_READ_PCS_RESET_READ"
  /\ LET m == [Command EXCEPT !.mdio_op = "RD"]
     IN  When(mdio_ready, [m EXCEPT !.addr = "MDIO_RX_DATA",
                                    !.axi_state = "MDIO_RESET_CHECK"], m)

\* axi_rd_data[15:0] == 16'h2040.  Mutant: any word.
ResetClearedAny == TRUE
ResetCleared == axi_rd_data.val = "2040"

MdioResetCheck ==
  /\ main.axi_state = "MDIO_RESET_CHECK"
  /\ When(mdio_ready /\ ResetCleared,
          [Command EXCEPT !.axi_state = "MDIO_ADDR_2"], Command)

MdioAddr2 ==
  /\ main.axi_state = "MDIO_ADDR_2"
  /\ LET m == [Command EXCEPT !.writenread = TRUE, !.addr = "MDIO_CONTROL"]
     IN  When(mdio_ready,
              [m EXCEPT !.mdio_op = "WR", !.axi_state = "MDIO_WR",
                        !.axi_wr_data = IF pcs_loopback_reg THEN "4000" ELSE "2000"],
              m)

MdioWr ==
  /\ main.axi_state = "MDIO_WR"
  /\ LET m == [Command EXCEPT !.writenread = TRUE, !.mdio_op = "WR"]
     IN  When(mdio_ready,
              [m EXCEPT !.axi_state = "MDIO_RD_1",
                        !.pcs_loopback_conf_done = @ \/ pcs_loopback_reg,
                        !.pcs_default_conf_done = @ \/ ~pcs_loopback_reg],
              m)

MdioRd1 ==
  /\ main.axi_state = "MDIO_RD_1"
  /\ LET m == [Command EXCEPT !.writenread = TRUE, !.mdio_op = "RD",
                              !.block_lock = FALSE]
         looped == main.pcs_loopback_conf_done /\ pcs_loopback_reg
         unloop == [m EXCEPT !.pcs_loopback_conf_done = FALSE]
     IN  IF looped
         THEN main' = [m EXCEPT !.enable_gen = TRUE]
         ELSE When(mdio_ready,
                   IF main.pcs_default_conf_done
                   THEN [unloop EXCEPT !.axi_state = "MDIO_ADDR", !.axi_wr_data = "20"]
                   ELSE [unloop EXCEPT !.axi_state = "MDIO_ADDR_1", !.axi_wr_data = "0"],
                   unloop)

\* Mutant: the address command is issued as a read.
MdioAddrNoOp ==
  /\ main.axi_state = "MDIO_ADDR"
  /\ LET m == [Command EXCEPT !.writenread = FALSE, !.mdio_op = "RD",
                              !.addr = "MDIO_CONTROL", !.axi_wr_data = "20"]
     IN  When(mdio_ready, [m EXCEPT !.axi_state = "MDIO_RD"], m)

MdioAddr ==
  /\ main.axi_state = "MDIO_ADDR"
  /\ LET m == [Command EXCEPT !.writenread = FALSE, !.mdio_op = "ADDR",
                              !.addr = "MDIO_CONTROL", !.axi_wr_data = "20"]
     IN  When(mdio_ready, [m EXCEPT !.axi_state = "MDIO_RD"], m)

MdioRd ==
  /\ main.axi_state = "MDIO_RD"
  /\ LET m == [Command EXCEPT !.writenread = FALSE, !.mdio_op = "RD"]
     IN  When(mdio_ready, [m EXCEPT !.axi_state = "MDIO_POLL_CHECK",
                                    !.addr = "MDIO_RX_DATA"], m)

MdioPollCheck ==
  /\ main.axi_state = "MDIO_POLL_CHECK"
  /\ When(mdio_ready, [Command EXCEPT !.axi_state = "MDIO_CHECK_DATA"], Command)

\* axi_rd_data[16:0] == 17'h11005; bit 16 is what set mdio_ready.
\* Mutant: the word with the reset value of register 0.
StatusGoodWrong == axi_rd_data.val = "2040"
StatusGood == axi_rd_data.val = "1005"

MdioCheckData ==
  /\ main.axi_state = "MDIO_CHECK_DATA"
  /\ When(mdio_ready,
          IF StatusGood
          THEN [main EXCEPT !.start_access = FALSE, !.start_mdio = FALSE,
                            !.drive_mdio = FALSE, !.mdio_op = "ADDR",
                            !.writenread = FALSE, !.addr = "0",
                            !.axi_state = "CONFIG_DONE", !.block_lock = TRUE]
          ELSE [Command EXCEPT !.axi_state = "MDIO_ADDR"],
          Command)

ConfigDone ==
  /\ main.axi_state = "CONFIG_DONE"
  /\ main' = IF pcs_loopback_reg
             THEN [main EXCEPT !.start_access = TRUE, !.axi_state = "RESET_MAC_TX",
                               !.pcs_default_conf_done = FALSE]
             ELSE [main EXCEPT !.enable_gen = TRUE]

Main ==
  \/ MainStall
  \/ /\ MainRuns
     /\ \/ Startup \/ ResetMacRx \/ ResetMacTx
        \/ MdioAddr1 \/ MdioReadPcsReset \/ MdioReadPcsResetPoll
        \/ MdioReadPcsResetRead \/ MdioResetCheck \/ MdioAddr2
        \/ MdioWr \/ MdioRd1 \/ MdioAddr \/ MdioRd
        \/ MdioPollCheck \/ MdioCheckData \/ ConfigDone

-----------------------------------------------------------------------------
(***************************************************************************)
(* The MDIO and the AXI access state machines.                             *)
(***************************************************************************)

\* The MDIO state machine moves between accesses.
MdioMoves == axi_access_sm \in {"IDLE", "DONE"}

Mdio ==
  \/ /\ mdio.access_sm = "IDLE"
     /\ mdio' = IF MdioMoves /\ main.start_mdio
                THEN [access_sm |-> "SET_DATA", wr_data |-> main.axi_wr_data]
                ELSE mdio
  \/ /\ mdio.access_sm = "SET_DATA"
     /\ mdio' = IF MdioMoves THEN [access_sm |-> "INIT", wr_data |-> main.mdio_op]
                ELSE mdio
  \/ /\ mdio.access_sm = "INIT"
     /\ mdio' = IF MdioMoves THEN [mdio EXCEPT !.access_sm = "POLL"] ELSE mdio
  \/ /\ mdio.access_sm = "POLL"
     /\ mdio' = IF mdio_ready THEN [mdio EXCEPT !.access_sm = "IDLE"] ELSE mdio

\* axi_status[4:2] == 3'b111.
WriteEnds == aw.done /\ w.done /\ b.done

\* axi_status[1:0] == 2'b11
ReadEnds == ar.done /\ r.done

AxiIdle ==
  /\ axi_access_sm = "IDLE"
  /\ axi_access_sm' =
       IF ~(main.start_access \/ main.start_mdio \/ mdio.access_sm # "IDLE")
       THEN "IDLE"
       ELSE IF mdio.access_sm = "POLL" THEN "READ"
       ELSE IF \/ main.start_access /\ main.writenread
               \/ mdio.access_sm \in {"SET_DATA", "INIT"}
               \/ main.start_mdio
            THEN "WRITE" ELSE "READ"

Axi ==
  \/ AxiIdle
  \/ axi_access_sm = "WRITE" /\ axi_access_sm' = IF WriteEnds THEN "DONE" ELSE "WRITE"
  \/ axi_access_sm = "READ" /\ axi_access_sm' = IF ReadEnds THEN "DONE" ELSE "READ"
  \/ axi_access_sm = "DONE" /\ axi_access_sm' = "IDLE"

-----------------------------------------------------------------------------
(***************************************************************************)
(* The five channels: each is driven until acknowledged, then a sticky     *)
(* status bit is set until the access state machine moves on.              *)
(***************************************************************************)
\* Mutant: the request is withdrawn when it is not acknowledged at once.
ChannelPulse(active, channel, acknowledged, val) ==
  CASE ~active        -> ChannelIdle
    [] active /\ channel.done -> channel
    [] active /\ ~channel.done /\ channel.on ->
         [ChannelIdle EXCEPT !.done = acknowledged]
    [] OTHER          -> [on |-> TRUE, val |-> val, done |-> FALSE]
ChannelNext(active, channel, acknowledged, val) ==
  CASE ~active        -> ChannelIdle
    [] active /\ channel.done -> channel
    [] active /\ ~channel.done /\ channel.on /\ acknowledged ->
         [ChannelIdle EXCEPT !.done = TRUE]
    [] OTHER          -> [on |-> TRUE, val |-> val, done |-> FALSE]

ReadAddr(in) ==
  ar' = ChannelNext(axi_access_sm = "READ", ar, "arready" \in in, main.addr)

\* The address of a write under drive_mdio: data first, then control.
WriteAddress == IF ~main.drive_mdio THEN main.addr
                ELSE IF mdio.access_sm = "SET_DATA" THEN "MDIO_TX_DATA"
                ELSE "MDIO_CONTROL"

WriteAddr(in) ==
  aw' = ChannelNext(axi_access_sm = "WRITE", aw, "awready" \in in, WriteAddress)

WriteData(in) ==
  w' = ChannelNext(axi_access_sm = "WRITE", w, "wready" \in in,
                   IF main.drive_mdio THEN mdio.wr_data ELSE main.axi_wr_data)

WriteResp(in) ==
  b' = ChannelNext(axi_access_sm = "WRITE", b, "bvalid" \in in, "0")

\* The word the MAC answers a read with, and whether its ready bit is set.
ReadWord == IF mac.ar = "MDIO_RX_DATA" THEN mac.rx ELSE [reg |-> None, val |-> "0"]
ReadyBit == mac.op = None

\* A new access clears mdio_ready.  Mutant: it does not.
AccessStartsNever == FALSE
AccessStarts == axi_access_sm = "IDLE" /\ (main.start_access \/ main.start_mdio)

ReadData(in) ==
  /\ r' = ChannelNext(axi_access_sm = "READ", r, "rvalid" \in in, "0")
  /\ IF axi_access_sm = "READ" /\ ~r.done /\ "rvalid" \in in
     THEN /\ axi_rd_data' = ReadWord
          /\ mdio_ready' = (mdio_ready \/ (main.drive_mdio /\ ReadyBit))
     ELSE IF AccessStarts
     THEN /\ axi_rd_data' = [reg |-> None, val |-> "0"]
          /\ mdio_ready' = FALSE
     ELSE UNCHANGED <<axi_rd_data, mdio_ready>>

-----------------------------------------------------------------------------
(***************************************************************************)
(* The environment (external): the MAC's AXI slave accepts and answers in  *)
(* its own time, its MDIO master executes commands on the PCS, a PCS in    *)
(* reset ignores writes until it ends by itself, block lock comes and goes.*)
(***************************************************************************)
Signal == {"awready", "wready", "bvalid", "arready", "rvalid", "mdio_done",
           "reset_done"}

\* The events that may happen at the next edge.
Possible(s) ==
  CASE s = "awready"    -> aw.on
    [] s = "wready"     -> w.on
    [] s = "bvalid"     -> b.on /\ mac.aw # None /\ mac.w # None
    [] s = "arready"    -> ar.on
    [] s = "rvalid"     -> r.on /\ mac.ar # None
    [] s = "mdio_done"  -> mac.op # None
    [] s = "reset_done" -> mac.ctrl = "8000"

\* What the PCS answers when the register reg is read.
PcsRead(reg) ==
  [reg |-> reg,
   val |-> IF reg = "0" THEN mac.ctrl
           ELSE IF reg = "20" /\ locked THEN "1005" ELSE "0"]

Mac(in) ==
  LET write == "bvalid" \in in
      ended(op) == "mdio_done" \in in /\ mac.op = op
  IN  mac' =
    [aw |-> IF write THEN None ELSE IF "awready" \in in THEN aw.val ELSE mac.aw,
     w  |-> IF write THEN None ELSE IF "wready" \in in THEN w.val ELSE mac.w,
     ar |-> IF "rvalid" \in in THEN None
            ELSE IF "arready" \in in THEN ar.val ELSE mac.ar,
     written |-> IF write THEN mac.written \cup {mac.aw} ELSE mac.written,
     tx |-> IF write /\ mac.aw = "MDIO_TX_DATA" THEN mac.w ELSE mac.tx,
     op |-> IF write /\ mac.aw = "MDIO_CONTROL" THEN mac.w
            ELSE IF "mdio_done" \in in THEN None ELSE mac.op,
     reg |-> IF ended("ADDR") THEN Low16(mac.tx) ELSE mac.reg,
     ctrl |-> IF ended("WR") /\ mac.reg = "0" /\ mac.ctrl # "8000" THEN Low16(mac.tx)
              ELSE IF "reset_done" \in in THEN "2040" ELSE mac.ctrl,
     rx |-> IF ended("RD") THEN PcsRead(mac.reg) ELSE mac.rx]

-----------------------------------------------------------------------------
\* What the MAC and the PCS may do on one edge.
Inputs == SUBSET {s \in Signal : Possible(s)}

Clock(in) ==
  /\ Main
  /\ Mdio
  /\ Axi
  /\ ReadAddr(in)
  /\ ReadData(in)
  /\ WriteAddr(in)
  /\ WriteData(in)
  /\ WriteResp(in)
  /\ Mac(in)
  /\ pcs_loopback_reg' \in strap /\ UNCHANGED strap
  /\ locked' \in BOOLEAN

\* s_axi_reset_n, which the reset block holds for many edges, so that the
\* channels, which have no reset of their own, come to rest.  An access
\* that was under way may still have set or cleared mdio_ready.
Reset ==
  /\ MayReset
  /\ main' = MainReset
  /\ mdio' = [mdio EXCEPT !.access_sm = "IDLE"]
  /\ axi_access_sm' = "IDLE"
  /\ ar' = ChannelIdle /\ r' = ChannelIdle
  /\ aw' = ChannelIdle /\ w' = ChannelIdle /\ b' = ChannelIdle
  /\ mac' \in {MacReset(reg) : reg \in {"0", "20"}}
  /\ pcs_loopback_reg' \in strap /\ UNCHANGED strap
  /\ mdio_ready' \in BOOLEAN
  /\ axi_rd_data' \in {axi_rd_data, [reg |-> None, val |-> "0"]}
  /\ locked' \in BOOLEAN

Next ==
  \/ \E in \in Inputs : Clock(in)
  \/ Reset

Spec == Init /\ [][Next]_vars

\* The clock ticks, and what the MAC and the PCS may do they do eventually.
Happens(s) == \E in \in Inputs : s \in in /\ Clock(in)

Fairness == /\ WF_vars(\E in \in Inputs : Clock(in))
            /\ \A s \in Signal : WF_vars(Happens(s))

FairSpec == Spec /\ Fairness

-----------------------------------------------------------------------------
(***************************************************************************)
(* Properties.                                                             *)
(***************************************************************************)

\* The simulation check of ethernet_flow_cntrl.v:193-206: the word the link
\* status is judged by was read from PCS register 32 after an address command
\* for it, and the word the end of a PCS reset is judged by from register 0.
DataFromRightRegister ==
  MainRuns /\ mdio_ready =>
    /\ main.axi_state = "MDIO_CHECK_DATA" => axi_rd_data.reg = "20"
    /\ main.axi_state = "MDIO_RESET_CHECK" => axi_rd_data.reg = "0"

\* The main, MDIO and AXI state machines and the channels stay in step with
\* the MAC: while it executes an MDIO command the main one waits
\* (ethernet_flow_cntrl.v:253), and the command and its operand are the ones
\* that it asked for, so that none overruns another, and MDIO was clocked and
\* the MAC configured before it; and between accesses the MAC owes no response
\* and has half of no request (:591-600).
InStep ==
  /\ mac.op # None => /\ ~MainRuns
                      /\ mac.op = main.mdio_op
                      /\ mac.tx = main.axi_wr_data
                      /\ {"CONFIG_MANAGEMENT", "RECEIVER", "TRANSMITTER"}
                           \subseteq mac.written
  /\ axi_access_sm \in {"IDLE", "DONE"} =>
       mac.aw = None /\ mac.w = None /\ mac.ar = None

\* A channel's request stays as it is until the MAC takes it.
Held(channel, next) == channel.on => next = channel \/ next.done

\* AXI (ethernet_flow_cntrl.v:611-716): a request that the MAC has not yet
\* acknowledged keeps its valid, its address and its data, whatever the three
\* state machines do meanwhile; only the reset withdraws it.
AxiStable ==
  [][main'.axi_state # "STARTUP" =>
       Held(aw, aw') /\ Held(w, w') /\ Held(ar, ar')]_vars

\* The pin is strapped to one level, as on the board.
Strapped == \A x, y \in strap : x = y

\* Traffic is enabled (ethernet_flow_cntrl.v:417, 505) only once the PCS itself
\* is configured for it, if the pin does not change: its control register has
\* the loopback bit, or the default value and the last word read is a good
\* link status.
EnabledMeansConfigured ==
  Strapped /\ main.enable_gen =>
    IF pcs_loopback_reg
    THEN mac.ctrl = "4000"
    ELSE /\ main.block_lock
         /\ mac.ctrl = "2000"
         /\ axi_rd_data = [reg |-> "20", val |-> "1005"]

\* The configuration reaches its end (ethernet_flow_cntrl.v:417, 505) once the
\* link stays up and no further reset comes, if the pin does not change: the
\* three state machines never wait for each other, or for an acknowledgement
\* they have missed.
ConfigCompletes ==
  Strapped /\ <>[]locked /\ <>[][~Reset]_vars => <>[]main.enable_gen
=============================================================================
