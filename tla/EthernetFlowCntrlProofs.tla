----------------------- MODULE EthernetFlowCntrlProofs -----------------------
(***************************************************************************)
(* Proofs about the configuration block of the 10G Ethernet core, for      *)
(* every way the pins may be driven.                                       *)
(***************************************************************************)
EXTENDS EthernetFlowCntrl, TLAPS

USE PinsAssumption

-----------------------------------------------------------------------------
(***************************************************************************)
(* Types.                                                                  *)
(***************************************************************************)
Words == {"0", "45", "RxConfig", "TxConfig", "8000", "4000", "2000", "20"}
Ops   == {"ADDR", "WR", "RD"}
Addrs == {"0", "CONFIG_MANAGEMENT", "RECEIVER", "TRANSMITTER", "MDIO_CONTROL",
          "MDIO_TX_DATA", "MDIO_RX_DATA"}
Vals  == Words \cup Ops \cup Addrs

\* The states of the main state machine in which it has the MDIO driven.
Driven == {"MDIO_READ_PCS_RESET", "MDIO_READ_PCS_RESET_POLL",
           "MDIO_READ_PCS_RESET_READ", "MDIO_RESET_CHECK", "MDIO_ADDR_2", "MDIO_WR",
           "MDIO_RD_1", "MDIO_ADDR", "MDIO_RD", "MDIO_POLL_CHECK", "MDIO_CHECK_DATA"}
States == {"STARTUP", "RESET_MAC_RX", "RESET_MAC_TX", "MDIO_ADDR_1", "CONFIG_DONE"}
          \cup Driven

MainType == [axi_state : States, enable_gen : BOOLEAN, block_lock : BOOLEAN,
             start_access : BOOLEAN, start_mdio : BOOLEAN, drive_mdio : BOOLEAN,
             mdio_op : Ops, writenread : BOOLEAN, addr : Addrs,
             axi_wr_data : Words, pcs_loopback_conf_done : BOOLEAN,
             pcs_default_conf_done : BOOLEAN]
ChannelType == [on : BOOLEAN, val : Vals, done : BOOLEAN]
MacVals == Vals \cup {None, "2040", "1005"}
Got == [reg : MacVals, val : MacVals]

TypeOK ==
  /\ main \in MainType
  /\ mdio \in [access_sm : {"IDLE", "SET_DATA", "INIT", "POLL"}, wr_data : Vals]
  /\ axi_access_sm \in {"IDLE", "WRITE", "READ", "DONE"}
  /\ ar \in ChannelType /\ r \in ChannelType
  /\ aw \in ChannelType /\ w \in ChannelType /\ b \in ChannelType
  /\ mdio_ready \in BOOLEAN
  /\ axi_rd_data \in Got
  /\ strap \in SUBSET BOOLEAN /\ strap # {} /\ pcs_loopback_reg \in BOOLEAN
  /\ mac \in [aw : MacVals, w : MacVals, ar : MacVals, written : SUBSET MacVals,
              tx : MacVals, op : MacVals, reg : MacVals, ctrl : MacVals, rx : Got]
  /\ locked \in BOOLEAN

-----------------------------------------------------------------------------
(***************************************************************************)
(* The invariant.                                                          *)
(***************************************************************************)

\* The word that the write in progress puts on the bus.
WriteWord == IF main.drive_mdio THEN mdio.wr_data ELSE main.axi_wr_data

\* The channels, and what the MAC has of the access in progress.
BusInv ==
  /\ axi_access_sm \in {"IDLE", "READ"} => aw = ChannelIdle /\ w = ChannelIdle /\ b = ChannelIdle
  /\ axi_access_sm \in {"IDLE", "WRITE"} => ar = ChannelIdle /\ r = ChannelIdle
  /\ axi_access_sm = "DONE" => ~aw.on /\ ~w.on /\ ~b.on /\ ~ar.on /\ ~r.on
  /\ axi_access_sm # "WRITE" => mac.aw = None /\ mac.w = None
  /\ axi_access_sm # "READ" => mac.ar = None
  /\ axi_access_sm = "WRITE" =>
       /\ aw.on => ~aw.done /\ aw.val = WriteAddress
       /\ w.on => ~w.done /\ w.val = WriteWord
       /\ b.on => ~b.done
       /\ mac.aw = IF aw.done /\ ~b.done THEN WriteAddress ELSE None
       /\ mac.w = IF w.done /\ ~b.done THEN WriteWord ELSE None
       /\ b.done => aw.done /\ w.done
  /\ axi_access_sm = "READ" =>
       /\ ar.on => ~ar.done /\ ar.val = main.addr
       /\ r.on => ~r.done
       /\ mac.ar = IF ar.done /\ ~r.done THEN main.addr ELSE None
       /\ r.done => ar.done

Starts == main.start_access \/ main.start_mdio

\* The access that was asked for has reached the MAC.
Committed == ~Starts /\ (axi_access_sm = "WRITE" => b.done)

\* The three state machines, and the MDIO command in progress.
StepInv ==
  /\ Starts => axi_access_sm = "IDLE" /\ mdio.access_sm = "IDLE"
  /\ main.start_mdio => main.drive_mdio
  /\ main.start_access => ~main.drive_mdio
  /\ mdio.access_sm # "IDLE" => main.drive_mdio
  /\ mdio.access_sm = "SET_DATA" => /\ axi_access_sm \in {"WRITE", "DONE"}
                                    /\ mdio.wr_data = main.axi_wr_data
                                    /\ Committed => mac.tx = main.axi_wr_data
  /\ mdio.access_sm = "INIT" => /\ axi_access_sm = "IDLE" /\ mdio.wr_data = main.mdio_op
  /\ mdio.access_sm = "POLL" => mdio.wr_data = main.mdio_op
  /\ mdio.access_sm \in {"INIT", "POLL"} => mac.tx = main.axi_wr_data
  /\ mdio.access_sm # "IDLE" /\ mdio_ready =>
       mdio.access_sm = "POLL" /\ axi_access_sm = "READ" /\ r.done
  /\ main.drive_mdio /\ mdio.access_sm = "IDLE" /\ ~main.start_mdio =>
       mdio_ready /\ axi_access_sm # "WRITE" /\ (axi_access_sm = "READ" => r.done)
  /\ mac.op # None => /\ mdio.access_sm = "POLL" /\ Committed /\ ~mdio_ready
                      /\ mac.op = main.mdio_op

Configured == {"CONFIG_MANAGEMENT", "RECEIVER", "TRANSMITTER"} \subseteq mac.written

\* The states before the MDIO is driven.
SetupInv ==
  /\ main.axi_state \in Driven => main.drive_mdio
  /\ main.drive_mdio => main.axi_state \in Driven \cup {"MDIO_ADDR_1"} /\ Configured
  /\ ~main.drive_mdio => main.mdio_op = "ADDR"
  /\ main.axi_state = "STARTUP" => ~Starts /\ axi_access_sm = "IDLE"
  /\ main.axi_state = "RESET_MAC_RX" =>
       /\ main.writenread /\ main.addr = "CONFIG_MANAGEMENT"
       /\ Committed => main.addr \in mac.written
  /\ main.axi_state = "RESET_MAC_TX" =>
       /\ main.addr = IF main.writenread THEN "RECEIVER" ELSE "0"
       /\ ~main.writenread => Configured
       /\ "CONFIG_MANAGEMENT" \in mac.written
       /\ main.writenread /\ Committed => main.addr \in mac.written
  /\ main.axi_state = "MDIO_ADDR_1" /\ ~main.drive_mdio =>
       /\ main.writenread /\ main.addr = "TRANSMITTER" /\ main.axi_wr_data = "TxConfig"
       /\ {"CONFIG_MANAGEMENT", "RECEIVER"} \subseteq mac.written
       /\ Committed => main.addr \in mac.written
       /\ ~main.start_access => ~mdio_ready
  /\ main.axi_state = "CONFIG_DONE" =>
       /\ Configured /\ ~Starts /\ axi_access_sm = "IDLE"
       /\ main.addr = "0" /\ ~main.writenread
  /\ ~main.drive_mdio /\ ~main.writenread => axi_access_sm # "WRITE"

\* The MDIO command that was asked for has been executed by the PCS.
Executed == /\ ~main.start_mdio /\ mac.op = None
            /\ \/ mdio.access_sm = "IDLE"
               \/ mdio.access_sm = "POLL" /\ Committed

Zero == {"MDIO_READ_PCS_RESET", "MDIO_READ_PCS_RESET_POLL", "MDIO_READ_PCS_RESET_READ",
         "MDIO_RESET_CHECK", "MDIO_ADDR_2", "MDIO_WR", "MDIO_RD_1"}

\* Which register of the PCS is addressed, and which one was read.
RegInv ==
  /\ main.drive_mdio /\ Executed =>
       /\ main.mdio_op = "ADDR" => mac.reg = Low16(main.axi_wr_data)
       /\ main.mdio_op = "RD" => mac.rx.reg = mac.reg
  /\ main.axi_state = "MDIO_ADDR_1" /\ main.drive_mdio =>
       \/ main.mdio_op = "ADDR" /\ main.axi_wr_data = "TxConfig"
       \/ main.mdio_op = "RD" /\ mac.reg = "0"
  /\ main.axi_state \in Zero => mac.reg = "0" /\ main.mdio_op # "ADDR"
  /\ main.axi_state = "MDIO_RESET_CHECK" =>
       /\ main.mdio_op = "RD" /\ main.addr = "MDIO_RX_DATA" /\ mac.rx.reg = "0"
       /\ mdio_ready /\ ~main.start_mdio => axi_rd_data.reg = "0"
  /\ main.axi_state = "MDIO_READ_PCS_RESET_READ" => main.mdio_op = "RD"
  /\ main.axi_state = "MDIO_RD" => main.mdio_op = "ADDR"
  /\ main.axi_state \in {"MDIO_ADDR", "MDIO_RD", "MDIO_POLL_CHECK", "MDIO_CHECK_DATA"} =>
       main.axi_wr_data = "20"
  /\ main.axi_state = "MDIO_POLL_CHECK" =>
       main.mdio_op = "RD" /\ main.addr = "MDIO_RX_DATA" /\ mac.reg = "20"
  /\ main.axi_state = "MDIO_CHECK_DATA" =>
       /\ main.mdio_op = "RD" /\ main.addr = "MDIO_RX_DATA"
       /\ mac.reg = "20" /\ mac.rx.reg = "20"
       /\ mdio_ready /\ ~main.start_mdio => axi_rd_data.reg = "20"

ResetStates == {"MDIO_READ_PCS_RESET", "MDIO_READ_PCS_RESET_POLL",
                "MDIO_READ_PCS_RESET_READ", "MDIO_RESET_CHECK"}
Early == {"STARTUP", "RESET_MAC_RX", "RESET_MAC_TX", "MDIO_ADDR_1"}

\* The control register of the PCS, when the pin does not change.
LoopInv ==
  /\ main.axi_state \in Early \cup {"MDIO_READ_PCS_RESET"} => mac.rx.val = "0"
  /\ main.axi_state \in Early => mac.ctrl = "2040" /\ main.mdio_op = "ADDR"
  /\ main.axi_state \in Early \cup ResetStates \cup {"MDIO_ADDR_2", "MDIO_WR", "MDIO_RD_1"}
  /\ main.axi_state = "MDIO_READ_PCS_RESET" => main.mdio_op = "WR" /\ main.axi_wr_data = "8000"
  /\ main.axi_state \in ResetStates =>
       /\ mac.ctrl \in {"8000", "2040"}
       /\ main.axi_state # "MDIO_READ_PCS_RESET" => main.mdio_op = "RD"
       /\ mac.rx.val = "2040" => mac.ctrl = "2040"
  /\ main.axi_state = "MDIO_RESET_CHECK" /\ mdio_ready /\ ~main.start_mdio
       /\ axi_rd_data.val = "2040" => mac.ctrl = "2040"
  /\ main.axi_state = "MDIO_ADDR_2" => main.mdio_op = "RD" /\ mac.ctrl = "2040"
  /\ main.axi_state \in {"MDIO_WR", "MDIO_RD_1"} => main.axi_wr_data = "4000"
  /\ main.axi_state = "MDIO_WR" => /\ main.mdio_op = "WR"
                                   /\ mac.ctrl \in {"2040", "4000"}
                                   /\ Executed => mac.ctrl = "4000"
  /\ main.axi_state = "MDIO_RD_1" => mac.ctrl = "4000" /\ main.pcs_loopback_conf_done
  /\ main.enable_gen => main.axi_state = "MDIO_RD_1"

LinkInv ==
  /\ main.axi_state \in Early => mac.ctrl = "2040" /\ main.mdio_op = "ADDR"
  /\ main.axi_state \notin ResetStates \cup {"MDIO_ADDR_2"}
  /\ main.axi_state \in {"MDIO_WR", "MDIO_RD_1"} => main.axi_wr_data = "2000"
  /\ main.axi_state = "MDIO_WR" => /\ main.mdio_op = "WR"
                                   /\ mac.ctrl \in {"2040", "2000"}
                                   /\ Executed => mac.ctrl = "2000"
  /\ main.axi_state \notin Early \cup {"MDIO_WR"} =>
       mac.ctrl = "2000" /\ main.pcs_default_conf_done
  /\ main.axi_state = "MDIO_ADDR" => main.mdio_op # "WR"
  /\ main.axi_state = "CONFIG_DONE" =>
       main.block_lock /\ axi_rd_data = [reg |-> "20", val |-> "1005"]
  /\ main.enable_gen => main.axi_state = "CONFIG_DONE"

PinInv ==
  Strapped =>
    /\ main.axi_state # "STARTUP" => pcs_loopback_reg \in strap
    /\ ~pcs_loopback_reg \/ TRUE \in strap
    /\ IF TRUE \in strap THEN LoopInv ELSE LinkInv

FlowInv == TypeOK /\ BusInv /\ StepInv /\ SetupInv /\ RegInv

-----------------------------------------------------------------------------
(***************************************************************************)
(* One edge of the clock, register by register.                            *)
(***************************************************************************)

\* What the MAC may do depends on what it was given.
LEMMA InputFacts ==
  ASSUME NEW in \in Inputs
  PROVE  /\ "awready" \in in => aw.on
         /\ "wready" \in in => w.on
         /\ "bvalid" \in in => b.on /\ mac.aw # None /\ mac.w # None
         /\ "arready" \in in => ar.on
         /\ "rvalid" \in in => r.on /\ mac.ar # None
         /\ "mdio_done" \in in => mac.op # None
         /\ "reset_done" \in in => mac.ctrl = "8000"
<1>1. \A s \in in : Possible(s)
  BY DEF Inputs
<1> QED
  BY <1>1 DEF Possible

\* What a channel holds: a request, and an acknowledged one.
Request(val) == [on |-> TRUE, val |-> val, done |-> FALSE]
Acknowledged == [ChannelIdle EXCEPT !.done = TRUE]

\* The contents of a channel.
LEMMA ChannelFacts ==
  /\ ChannelIdle \in ChannelType /\ ~ChannelIdle.on /\ ~ChannelIdle.done
  /\ Acknowledged \in ChannelType /\ ~Acknowledged.on /\ Acknowledged.done
  /\ \A val \in Vals : /\ Request(val) \in ChannelType /\ Request(val).on
                       /\ ~Request(val).done /\ Request(val).val = val
  /\ \A c \in ChannelType : c.on \in BOOLEAN /\ c.done \in BOOLEAN
<1>1. "0" \in Vals
  BY DEF Vals, Words
<1>2. ChannelIdle \in ChannelType /\ ~ChannelIdle.on /\ ~ChannelIdle.done
  BY <1>1 DEF ChannelIdle, ChannelType
<1>3. Acknowledged \in ChannelType
  BY <1>2 DEF ChannelType, Acknowledged
<1>4. ~Acknowledged.on /\ Acknowledged.done
  BY DEF ChannelIdle, Acknowledged
<1>5. ASSUME NEW val \in Vals
      PROVE  /\ Request(val) \in ChannelType /\ Request(val).on
             /\ ~Request(val).done /\ Request(val).val = val
  BY DEF Request, ChannelType
<1>6. \A c \in ChannelType : c.on \in BOOLEAN /\ c.done \in BOOLEAN
  BY DEF ChannelType
<1> QED
  BY <1>2, <1>3, <1>4, <1>5, <1>6

\* The registers of the main process that hold words.
LEMMA MainFacts ==
  ASSUME main \in MainType
  PROVE  /\ main.axi_state \in States /\ main.mdio_op \in Ops /\ main.addr \in Addrs
         /\ main.axi_wr_data \in Words
         /\ main.start_access \in BOOLEAN /\ main.start_mdio \in BOOLEAN
         /\ main.drive_mdio \in BOOLEAN /\ main.writenread \in BOOLEAN
  BY DEF MainType

\* The words on the bus.
LEMMA BusWords ==
  ASSUME TypeOK
  PROVE  main.addr \in Vals /\ WriteAddress \in Vals /\ WriteWord \in Vals /\ "0" \in Vals
<1>1. main.addr \in Addrs /\ main.axi_wr_data \in Words /\ mdio.wr_data \in Vals
  BY MainFacts DEF TypeOK
<1> QED
  BY <1>1 DEF WriteAddress, WriteWord, Vals, Words, Addrs

\* The read address channel of an edge.
LEMMA ARChannel ==
  ASSUME TypeOK, NEW in \in Inputs, Clock(in)
  PROVE  /\ ar' \in ChannelType
         /\ axi_access_sm # "READ" => ar' = ChannelIdle
         /\ axi_access_sm = "READ" /\ ar.done => ar' = ar
         /\ axi_access_sm = "READ" /\ ~ar.done /\ ar.on /\ "arready" \in in =>
            ~ar'.on /\ ar'.done
         /\ axi_access_sm = "READ" /\ ~ar.done /\ ~(ar.on /\ "arready" \in in) =>
            ar'.on /\ ~ar'.done /\ ar'.val = main.addr
<1>1. ar \in ChannelType
  BY DEF TypeOK
<1>2. CASE axi_access_sm # "READ"
  <2>1. ar' = ChannelIdle
    BY <1>2 DEF Clock, ReadAddr, ChannelNext
  <2> QED
    BY <1>2, <2>1, ChannelFacts
<1>3. CASE axi_access_sm = "READ" /\ ar.done
  <2>1. ar' = ar
    BY <1>3 DEF Clock, ReadAddr, ChannelNext
  <2> QED
    BY <1>1, <1>3, <2>1
<1>4. CASE axi_access_sm = "READ" /\ ~ar.done /\ ar.on /\ "arready" \in in
  <2>1. ar' = Acknowledged
    BY <1>4 DEF Clock, ReadAddr, ChannelNext, Acknowledged
  <2> QED
    BY <1>4, <2>1, ChannelFacts
<1>5. CASE axi_access_sm = "READ" /\ ~ar.done /\ ~(ar.on /\ "arready" \in in)
  <2>1. ar' = Request(main.addr)
    BY <1>5 DEF Clock, ReadAddr, ChannelNext, Request
  <2> QED
    BY <1>5, <2>1, ChannelFacts, BusWords
<1> QED
  BY <1>2, <1>3, <1>4, <1>5

\* The read data channel.
LEMMA RChannel ==
  ASSUME TypeOK, NEW in \in Inputs, Clock(in)
  PROVE  /\ r' \in ChannelType
         /\ axi_access_sm # "READ" => r' = ChannelIdle
         /\ axi_access_sm = "READ" /\ r.done => r' = r
         /\ axi_access_sm = "READ" /\ ~r.done /\ r.on /\ "rvalid" \in in =>
            ~r'.on /\ r'.done
         /\ axi_access_sm = "READ" /\ ~r.done /\ ~(r.on /\ "rvalid" \in in) =>
            r'.on /\ ~r'.done /\ r'.val = "0"
<1>1. r \in ChannelType
  BY DEF TypeOK
<1>2. CASE axi_access_sm # "READ"
  <2>1. r' = ChannelIdle
    BY <1>2 DEF Clock, ReadData, ChannelNext
  <2> QED
    BY <1>2, <2>1, ChannelFacts
<1>3. CASE axi_access_sm = "READ" /\ r.done
  <2>1. r' = r
    BY <1>3 DEF Clock, ReadData, ChannelNext
  <2> QED
    BY <1>1, <1>3, <2>1
<1>4. CASE axi_access_sm = "READ" /\ ~r.done /\ r.on /\ "rvalid" \in in
  <2>1. r' = Acknowledged
    BY <1>4 DEF Clock, ReadData, ChannelNext, Acknowledged
  <2> QED
    BY <1>4, <2>1, ChannelFacts
<1>5. CASE axi_access_sm = "READ" /\ ~r.done /\ ~(r.on /\ "rvalid" \in in)
  <2>1. r' = Request("0")
    BY <1>5 DEF Clock, ReadData, ChannelNext, Request
  <2> QED
    BY <1>5, <2>1, ChannelFacts, BusWords
<1> QED
  BY <1>2, <1>3, <1>4, <1>5

\* The write address channel.
LEMMA AWChannel ==
  ASSUME TypeOK, NEW in \in Inputs, Clock(in)
  PROVE  /\ aw' \in ChannelType
         /\ axi_access_sm # "WRITE" => aw' = ChannelIdle
         /\ axi_access_sm = "WRITE" /\ aw.done => aw' = aw
         /\ axi_access_sm = "WRITE" /\ ~aw.done /\ aw.on /\ "awready" \in in =>
            ~aw'.on /\ aw'.done
         /\ axi_access_sm = "WRITE" /\ ~aw.done /\ ~(aw.on /\ "awready" \in in) =>
            aw'.on /\ ~aw'.done /\ aw'.val = WriteAddress
<1>1. aw \in ChannelType
  BY DEF TypeOK
<1>2. CASE axi_access_sm # "WRITE"
  <2>1. aw' = ChannelIdle
    BY <1>2 DEF Clock, WriteAddr, ChannelNext
  <2> QED
    BY <1>2, <2>1, ChannelFacts
<1>3. CASE axi_access_sm = "WRITE" /\ aw.done
  <2>1. aw' = aw
    BY <1>3 DEF Clock, WriteAddr, ChannelNext
  <2> QED
    BY <1>1, <1>3, <2>1
<1>4. CASE axi_access_sm = "WRITE" /\ ~aw.done /\ aw.on /\ "awready" \in in
  <2>1. aw' = Acknowledged
    BY <1>4 DEF Clock, WriteAddr, ChannelNext, Acknowledged
  <2> QED
    BY <1>4, <2>1, ChannelFacts
<1>5. CASE axi_access_sm = "WRITE" /\ ~aw.done /\ ~(aw.on /\ "awready" \in in)
  <2>1. aw' = Request(WriteAddress)
    BY <1>5 DEF Clock, WriteAddr, ChannelNext, Request
  <2> QED
    BY <1>5, <2>1, ChannelFacts, BusWords
<1> QED
  BY <1>2, <1>3, <1>4, <1>5

\* The write data channel.
LEMMA WChannel ==
  ASSUME TypeOK, NEW in \in Inputs, Clock(in)
  PROVE  /\ w' \in ChannelType
         /\ axi_access_sm # "WRITE" => w' = ChannelIdle
         /\ axi_access_sm = "WRITE" /\ w.done => w' = w
         /\ axi_access_sm = "WRITE" /\ ~w.done /\ w.on /\ "wready" \in in =>
            ~w'.on /\ w'.done
         /\ axi_access_sm = "WRITE" /\ ~w.done /\ ~(w.on /\ "wready" \in in) =>
            w'.on /\ ~w'.done /\ w'.val = WriteWord
<1>1. w \in ChannelType
  BY DEF TypeOK
<1>2. CASE axi_access_sm # "WRITE"
  <2>1. w' = ChannelIdle
    BY <1>2 DEF Clock, WriteData, ChannelNext, WriteWord
  <2> QED
    BY <1>2, <2>1, ChannelFacts
<1>3. CASE axi_access_sm = "WRITE" /\ w.done
  <2>1. w' = w
    BY <1>3 DEF Clock, WriteData, ChannelNext, WriteWord
  <2> QED
    BY <1>1, <1>3, <2>1
<1>4. CASE axi_access_sm = "WRITE" /\ ~w.done /\ w.on /\ "wready" \in in
  <2>1. w' = Acknowledged
    BY <1>4 DEF Clock, WriteData, ChannelNext, WriteWord, Acknowledged
  <2> QED
    BY <1>4, <2>1, ChannelFacts
<1>5. CASE axi_access_sm = "WRITE" /\ ~w.done /\ ~(w.on /\ "wready" \in in)
  <2>1. w' = Request(WriteWord)
    BY <1>5 DEF Clock, WriteData, ChannelNext, WriteWord, Request
  <2> QED
    BY <1>5, <2>1, ChannelFacts, BusWords
<1> QED
  BY <1>2, <1>3, <1>4, <1>5

\* The write response channel.
LEMMA BChannel ==
  ASSUME TypeOK, NEW in \in Inputs, Clock(in)
  PROVE  /\ b' \in ChannelType
         /\ axi_access_sm # "WRITE" => b' = ChannelIdle
         /\ axi_access_sm = "WRITE" /\ b.done => b' = b
         /\ axi_access_sm = "WRITE" /\ ~b.done /\ b.on /\ "bvalid" \in in =>
            ~b'.on /\ b'.done
         /\ axi_access_sm = "WRITE" /\ ~b.done /\ ~(b.on /\ "bvalid" \in in) =>
            b'.on /\ ~b'.done /\ b'.val = "0"
<1>1. b \in ChannelType
  BY DEF TypeOK
<1>2. CASE axi_access_sm # "WRITE"
  <2>1. b' = ChannelIdle
    BY <1>2 DEF Clock, WriteResp, ChannelNext
  <2> QED
    BY <1>2, <2>1, ChannelFacts
<1>3. CASE axi_access_sm = "WRITE" /\ b.done
  <2>1. b' = b
    BY <1>3 DEF Clock, WriteResp, ChannelNext
  <2> QED
    BY <1>1, <1>3, <2>1
<1>4. CASE axi_access_sm = "WRITE" /\ ~b.done /\ b.on /\ "bvalid" \in in
  <2>1. b' = Acknowledged
    BY <1>4 DEF Clock, WriteResp, ChannelNext, Acknowledged
  <2> QED
    BY <1>4, <2>1, ChannelFacts
<1>5. CASE axi_access_sm = "WRITE" /\ ~b.done /\ ~(b.on /\ "bvalid" \in in)
  <2>1. b' = Request("0")
    BY <1>5 DEF Clock, WriteResp, ChannelNext, Request
  <2> QED
    BY <1>5, <2>1, ChannelFacts, BusWords
<1> QED
  BY <1>2, <1>3, <1>4, <1>5


\* The MAC of an edge, field by field.
LEMMA MacStep ==
  ASSUME TypeOK, NEW in \in Inputs, Clock(in)
  PROVE  /\ mac'.aw = IF "bvalid" \in in THEN None
                      ELSE IF "awready" \in in THEN aw.val ELSE mac.aw
         /\ mac'.w = IF "bvalid" \in in THEN None
                     ELSE IF "wready" \in in THEN w.val ELSE mac.w
         /\ mac'.ar = IF "rvalid" \in in THEN None
                      ELSE IF "arready" \in in THEN ar.val ELSE mac.ar
         /\ mac'.written = IF "bvalid" \in in THEN mac.written \cup {mac.aw} ELSE mac.written
         /\ mac'.tx = IF "bvalid" \in in /\ mac.aw = "MDIO_TX_DATA" THEN mac.w ELSE mac.tx
         /\ mac'.op = IF "bvalid" \in in /\ mac.aw = "MDIO_CONTROL" THEN mac.w
                      ELSE IF "mdio_done" \in in THEN None ELSE mac.op
         /\ mac'.reg = IF "mdio_done" \in in /\ mac.op = "ADDR" THEN Low16(mac.tx)
                       ELSE mac.reg
         /\ mac'.ctrl = IF /\ "mdio_done" \in in /\ mac.op = "WR"
                           /\ mac.reg = "0" /\ mac.ctrl # "8000" THEN Low16(mac.tx)
                        ELSE IF "reset_done" \in in THEN "2040" ELSE mac.ctrl
         /\ mac'.rx = IF "mdio_done" \in in /\ mac.op = "RD" THEN PcsRead(mac.reg)
                      ELSE mac.rx
  BY DEF Clock, Mac

\* What the MAC holds are words.
LEMMA MacType ==
  ASSUME TypeOK, NEW in \in Inputs, Clock(in)
  PROVE  mac' \in [aw : MacVals, w : MacVals, ar : MacVals, written : SUBSET MacVals,
                   tx : MacVals, op : MacVals, reg : MacVals, ctrl : MacVals, rx : Got]
<1>1. /\ mac.aw \in MacVals /\ mac.w \in MacVals /\ mac.ar \in MacVals
      /\ mac.written \subseteq MacVals /\ mac.tx \in MacVals /\ mac.op \in MacVals
      /\ mac.reg \in MacVals /\ mac.ctrl \in MacVals /\ mac.rx \in Got
  BY DEF TypeOK
<1>2. aw.val \in Vals /\ w.val \in Vals /\ ar.val \in Vals
  BY DEF TypeOK, ChannelType
<1>3. Vals \subseteq MacVals /\ {None, "0", "1005", "2040"} \subseteq MacVals
  BY DEF MacVals, Vals, Words
<1>4. Low16(mac.tx) \in MacVals
  BY <1>1, <1>3 DEF Low16
<1>5. PcsRead(mac.reg) \in Got
  BY <1>1, <1>3 DEF PcsRead, Got
<1>6. /\ mac'.aw \in MacVals /\ mac'.w \in MacVals /\ mac'.ar \in MacVals
      /\ mac'.tx \in MacVals /\ mac'.op \in MacVals
  BY <1>1, <1>2, <1>3, MacStep
<1>7. mac'.written \subseteq MacVals
  BY <1>1, MacStep
<1>8. mac'.reg \in MacVals /\ mac'.ctrl \in MacVals
  BY <1>1, <1>3, <1>4, MacStep
<1>9. mac'.rx \in Got
  BY <1>1, <1>5, MacStep
<1>10. mac' = [aw |-> mac'.aw, w |-> mac'.w, ar |-> mac'.ar, written |-> mac'.written,
               tx |-> mac'.tx, op |-> mac'.op, reg |-> mac'.reg, ctrl |-> mac'.ctrl,
               rx |-> mac'.rx]
  BY DEF Clock, Mac
<1> QED
  BY <1>6, <1>7, <1>8, <1>9, <1>10

\* What the edge leaves of the main registers when it stalls.
Kept == /\ main' \in MainType
        /\ ~main'.start_access /\ ~main'.start_mdio
        /\ main'.axi_state = main.axi_state /\ main'.enable_gen = main.enable_gen
        /\ main'.block_lock = main.block_lock /\ main'.drive_mdio = main.drive_mdio
        /\ main'.mdio_op = main.mdio_op /\ main'.writenread = main.writenread
        /\ main'.addr = main.addr /\ main'.axi_wr_data = main.axi_wr_data
        /\ main'.pcs_loopback_conf_done = main.pcs_loopback_conf_done
        /\ main'.pcs_default_conf_done = main.pcs_default_conf_done

\* An edge on which the main state machine stalls: it takes back its starts.
LEMMA StallFields ==
  ASSUME TypeOK, MainStall
  PROVE  Kept
  BY DEF TypeOK, MainStall, MainType, Kept

\* The types of an edge.
LEMMA TypeStep ==
  ASSUME TypeOK, NEW in \in Inputs, Clock(in), main' \in MainType
  PROVE  TypeOK'
<1>1. main.axi_wr_data \in Vals /\ main.mdio_op \in Vals
  BY MainFacts DEF TypeOK, Vals
<1>2. mdio' \in [access_sm : {"IDLE", "SET_DATA", "INIT", "POLL"}, wr_data : Vals]
  BY <1>1 DEF TypeOK, Clock, Mdio
<1>3. axi_access_sm' \in {"IDLE", "WRITE", "READ", "DONE"}
  BY DEF Clock, Axi, AxiIdle
<1>4. mdio_ready' \in BOOLEAN
  <2>1. (mdio_ready \/ (main.drive_mdio /\ ReadyBit)) \in BOOLEAN
    OBVIOUS
  <2> QED
    BY <2>1 DEF TypeOK, Clock, ReadData
<1>5. axi_rd_data' \in Got
  <2>1. ReadWord \in Got /\ [reg |-> None, val |-> "0"] \in Got
    BY DEF TypeOK, ReadWord, Got, MacVals, Vals, Words
  <2> QED
    BY <2>1 DEF TypeOK, Clock, ReadData
<1>6. strap' = strap /\ pcs_loopback_reg' \in BOOLEAN /\ locked' \in BOOLEAN
  BY DEF TypeOK, Clock
<1> QED
  BY <1>2, <1>3, <1>4, <1>5, <1>6, MacType, ARChannel, RChannel, AWChannel, WChannel,
     BChannel DEF TypeOK

-----------------------------------------------------------------------------
(***************************************************************************)
(* An edge on which the main state machine runs: nothing else does, except *)
(* that a reset of the PCS may end.                                        *)
(***************************************************************************)
Frame ==
  /\ mdio' = mdio /\ axi_access_sm' = "IDLE"
  /\ mdio_ready' = mdio_ready /\ axi_rd_data' = axi_rd_data
  /\ strap' = strap /\ pcs_loopback_reg' \in strap
  /\ mac'.op = None /\ mac'.written = mac.written /\ mac'.tx = mac.tx
  /\ mac'.reg = mac.reg /\ mac'.rx = mac.rx
  /\ mac'.ctrl # mac.ctrl => mac.ctrl = "8000" /\ mac'.ctrl = "2040"

\* No request is on the bus while neither access state machine works.
LEMMA IdleBus ==
  ASSUME FlowInv, NEW in \in Inputs, axi_access_sm = "IDLE"
  PROVE  /\ "awready" \notin in /\ "wready" \notin in /\ "bvalid" \notin in
         /\ "arready" \notin in /\ "rvalid" \notin in
         /\ ~aw.done /\ ~w.done /\ ~b.done /\ ~ar.done /\ ~r.done
<1>1. ar = ChannelIdle /\ r = ChannelIdle /\ aw = ChannelIdle /\ w = ChannelIdle /\ b = ChannelIdle
  BY DEF FlowInv, BusInv
<1> QED
  BY <1>1, InputFacts, ChannelFacts

\* Such an edge leaves the bus idle and the MAC as it is.
LEMMA RunFrame ==
  ASSUME FlowInv, NEW in \in Inputs, Clock(in), MainRuns
  PROVE  Frame /\ BusInv'
<1>1. TypeOK /\ axi_access_sm = "IDLE" /\ mdio.access_sm = "IDLE" /\ mac.op = None
  BY DEF FlowInv, StepInv, MainRuns
<1>2. /\ "awready" \notin in /\ "wready" \notin in /\ "bvalid" \notin in
      /\ "arready" \notin in /\ "rvalid" \notin in /\ "mdio_done" \notin in
  BY <1>1, IdleBus, InputFacts
<1>3. mdio' = mdio /\ axi_access_sm' = "IDLE"
  BY <1>1 DEF MainRuns, Clock, Mdio, Axi, AxiIdle
<1>4. mdio_ready' = mdio_ready /\ axi_rd_data' = axi_rd_data
  BY <1>1, <1>2 DEF MainRuns, Clock, ReadData, AccessStarts
<1>5. strap' = strap /\ pcs_loopback_reg' \in strap
  BY DEF Clock
<1>6. /\ mac'.op = None /\ mac'.written = mac.written /\ mac'.tx = mac.tx
      /\ mac'.reg = mac.reg /\ mac'.rx = mac.rx
      /\ mac'.ctrl # mac.ctrl => mac.ctrl = "8000" /\ mac'.ctrl = "2040"
      /\ mac'.aw = mac.aw /\ mac'.w = mac.w /\ mac'.ar = mac.ar
  BY <1>1, <1>2, MacStep, InputFacts
<1>7. /\ ar' = ChannelIdle /\ r' = ChannelIdle /\ aw' = ChannelIdle
      /\ w' = ChannelIdle /\ b' = ChannelIdle
  BY <1>1, ARChannel, RChannel, AWChannel, WChannel, BChannel
<1>8. mac.aw = None /\ mac.w = None /\ mac.ar = None
  BY <1>1 DEF FlowInv, BusInv
<1>9. BusInv'
  BY <1>3, <1>6, <1>7, <1>8 DEF BusInv
<1> QED
  BY <1>3, <1>4, <1>5, <1>6, <1>9 DEF Frame

\* The state machines when the main one has run.
Ran == main' \in MainType /\ StepInv' /\ SetupInv' /\ RegInv' /\ PinInv'

\* STARTUP asks for the MDIO clock.
LEMMA StartupRuns ==
  ASSUME FlowInv, PinInv, MainRuns, Frame, Startup
  PROVE  Ran
<1>1. /\ main \in MainType /\ mdio_ready \in BOOLEAN /\ pcs_loopback_reg \in BOOLEAN
      /\ strap # {} /\ strap \subseteq BOOLEAN /\ axi_rd_data \in Got
  BY DEF FlowInv, TypeOK
<1>2. main' \in MainType
  BY <1>1 DEF Startup, Configure, MainType, Addrs, Ops, Words, States, Driven
<1>3. /\ main'.axi_state = "RESET_MAC_RX" /\ main'.start_access /\ ~main'.start_mdio
      /\ main'.writenread /\ main'.addr = "CONFIG_MANAGEMENT" /\ main'.axi_wr_data = "45"
      /\ main'.enable_gen = main.enable_gen /\ main'.block_lock = main.block_lock
      /\ main'.drive_mdio = main.drive_mdio /\ main'.mdio_op = main.mdio_op
      /\ main'.pcs_loopback_conf_done = main.pcs_loopback_conf_done
      /\ main'.pcs_default_conf_done = main.pcs_default_conf_done
  BY <1>1 DEF Startup, Configure, MainType, MainRuns
<1>4. StepInv'
  BY <1>3 DEF FlowInv, SetupInv, Frame, MainRuns, StepInv, Starts, Committed, Driven, Startup, Configure
<1>5. SetupInv'
  BY <1>3 DEF FlowInv, StepInv, Frame, MainRuns, SetupInv, Starts, Committed, Configured,
      Driven, Startup, Configure
<1>6. RegInv'
  BY <1>3 DEF FlowInv, StepInv, SetupInv, Frame, MainRuns, RegInv, Executed, Zero, Driven,
      Low16, Startup, Configure
<1>7. PinInv'
  <2>1. CASE TRUE \in strap
    BY <1>1, <1>3, <2>1 DEF FlowInv, StepInv, SetupInv, RegInv, Driven, Frame, PinInv,
        LoopInv, Strapped, MainRuns, Early, ResetStates, Executed, Startup, Configure
  <2>2. CASE TRUE \notin strap
    BY <1>1, <1>3, <2>2 DEF FlowInv, StepInv, SetupInv, RegInv, Driven, Frame, PinInv,
        LinkInv, Strapped, MainRuns, Early, ResetStates, Executed, Got, Startup, Configure
  <2> QED
    BY <2>1, <2>2
<1> QED
  BY <1>2, <1>4, <1>5, <1>6, <1>7 DEF Ran

\* RESET_MAC_RX asks for the receiver, once the MDIO clock was written.
LEMMA ResetMacRxRuns ==
  ASSUME FlowInv, PinInv, MainRuns, Frame, ResetMacRx
  PROVE  Ran
<1>1. /\ main \in MainType /\ mdio_ready \in BOOLEAN /\ pcs_loopback_reg \in BOOLEAN
      /\ strap # {} /\ strap \subseteq BOOLEAN /\ axi_rd_data \in Got
  BY DEF FlowInv, TypeOK
<1>2. main' \in MainType
  BY <1>1 DEF ResetMacRx, Configure, MainType, Addrs, Ops, Words, States, Driven
<1>3. /\ main'.axi_state = "RESET_MAC_TX" /\ main'.start_access /\ ~main'.start_mdio
      /\ main'.writenread /\ main'.addr = "RECEIVER" /\ main'.axi_wr_data = "RxConfig"
      /\ main'.enable_gen = main.enable_gen /\ main'.block_lock = main.block_lock
      /\ main'.drive_mdio = main.drive_mdio /\ main'.mdio_op = main.mdio_op
      /\ main'.pcs_loopback_conf_done = main.pcs_loopback_conf_done
      /\ main'.pcs_default_conf_done = main.pcs_default_conf_done
  BY <1>1 DEF ResetMacRx, Configure, MainType, MainRuns
<1>4. StepInv'
  BY <1>3 DEF FlowInv, SetupInv, Frame, MainRuns, StepInv, Starts, Committed, Driven, ResetMacRx, Configure
<1>5. SetupInv'
  BY <1>3 DEF FlowInv, StepInv, Frame, MainRuns, SetupInv, Starts, Committed, Configured,
      Driven, ResetMacRx, Configure
<1>6. RegInv'
  BY <1>3 DEF FlowInv, StepInv, SetupInv, Frame, MainRuns, RegInv, Executed, Zero, Driven,
      Low16, ResetMacRx, Configure
<1>7. PinInv'
  <2>1. CASE TRUE \in strap
    BY <1>1, <1>3, <2>1 DEF FlowInv, StepInv, SetupInv, RegInv, Driven, Frame, PinInv,
        LoopInv, Strapped, MainRuns, Early, ResetStates, Executed, ResetMacRx, Configure
  <2>2. CASE TRUE \notin strap
    BY <1>1, <1>3, <2>2 DEF FlowInv, StepInv, SetupInv, RegInv, Driven, Frame, PinInv,
        LinkInv, Strapped, MainRuns, Early, ResetStates, Executed, Got, ResetMacRx, Configure
  <2> QED
    BY <2>1, <2>2
<1> QED
  BY <1>2, <1>4, <1>5, <1>6, <1>7 DEF Ran

\* RESET_MAC_TX asks for the transmitter; it is also where a configured
\* block begins again when the pin asks for a loopback.
LEMMA ResetMacTxRuns ==
  ASSUME FlowInv, PinInv, MainRuns, Frame, ResetMacTx
  PROVE  Ran
<1>1. /\ main \in MainType /\ mdio_ready \in BOOLEAN /\ pcs_loopback_reg \in BOOLEAN
      /\ strap # {} /\ strap \subseteq BOOLEAN /\ axi_rd_data \in Got
  BY DEF FlowInv, TypeOK
<1>2. main' \in MainType
  BY <1>1 DEF ResetMacTx, Configure, MainType, Addrs, Ops, Words, States, Driven
<1>3. /\ main'.axi_state = "MDIO_ADDR_1" /\ main'.start_access /\ ~main'.start_mdio
      /\ main'.writenread /\ main'.addr = "TRANSMITTER" /\ main'.axi_wr_data = "TxConfig"
      /\ main'.enable_gen = main.enable_gen /\ main'.block_lock = main.block_lock
      /\ main'.drive_mdio = main.drive_mdio /\ main'.mdio_op = main.mdio_op
      /\ main'.pcs_loopback_conf_done = main.pcs_loopback_conf_done
      /\ main'.pcs_default_conf_done = main.pcs_default_conf_done
  BY <1>1 DEF ResetMacTx, Configure, MainType, MainRuns
<1>4. StepInv'
  BY <1>3 DEF FlowInv, SetupInv, Frame, MainRuns, StepInv, Starts, Committed, Driven, ResetMacTx, Configure
<1>5. SetupInv'
  BY <1>3 DEF FlowInv, StepInv, Frame, MainRuns, SetupInv, Starts, Committed, Configured,
      Driven, ResetMacTx, Configure
<1>6. RegInv'
  BY <1>3 DEF FlowInv, StepInv, SetupInv, Frame, MainRuns, RegInv, Executed, Zero, Driven,
      Low16, ResetMacTx, Configure
<1>7. PinInv'
  <2>1. CASE TRUE \in strap
    BY <1>1, <1>3, <2>1 DEF FlowInv, StepInv, SetupInv, RegInv, Driven, Frame, PinInv,
        LoopInv, Strapped, MainRuns, Early, ResetStates, Executed, ResetMacTx, Configure
  <2>2. CASE TRUE \notin strap
    BY <1>1, <1>3, <2>2 DEF FlowInv, StepInv, SetupInv, RegInv, Driven, Frame, PinInv,
        LinkInv, Strapped, MainRuns, Early, ResetStates, Executed, Got, ResetMacTx, Configure
  <2> QED
    BY <2>1, <2>2
<1> QED
  BY <1>2, <1>4, <1>5, <1>6, <1>7 DEF Ran

\* MDIO_ADDR_1: the first address command; the low half of the word that
\* configured the transmitter addresses register 0.
LEMMA MdioAddr1Runs ==
  ASSUME FlowInv, PinInv, MainRuns, Frame, MdioAddr1
  PROVE  Ran
<1>1. /\ main \in MainType /\ mdio_ready \in BOOLEAN /\ pcs_loopback_reg \in BOOLEAN
      /\ strap # {} /\ strap \subseteq BOOLEAN /\ axi_rd_data \in Got
  BY DEF FlowInv, TypeOK
<1>2. main' \in MainType
  BY <1>1 DEF MdioAddr1, Command, When, MainType, Addrs, Ops, Words, States, Driven
<1>3. /\ ~main'.start_access /\ main'.start_mdio /\ main'.drive_mdio /\ main'.writenread
      /\ main'.addr = "MDIO_CONTROL" /\ main'.enable_gen = main.enable_gen
      /\ main'.block_lock = main.block_lock
      /\ main'.pcs_loopback_conf_done = main.pcs_loopback_conf_done
      /\ main'.pcs_default_conf_done = main.pcs_default_conf_done
      /\ IF mdio_ready
         THEN /\ main'.axi_state = IF pcs_loopback_reg THEN "MDIO_READ_PCS_RESET" ELSE "MDIO_WR"
              /\ main'.mdio_op = "WR"
              /\ main'.axi_wr_data = IF pcs_loopback_reg THEN "8000" ELSE "2000"
         ELSE /\ main'.axi_state = "MDIO_ADDR_1" /\ main'.mdio_op = main.mdio_op
              /\ main'.axi_wr_data = main.axi_wr_data
  BY <1>1 DEF MdioAddr1, Command, When, MainType, MainRuns
<1>4. StepInv'
  BY <1>3 DEF FlowInv, SetupInv, Frame, MainRuns, StepInv, Starts, Committed, MdioAddr1
<1>5. SetupInv'
  BY <1>3 DEF FlowInv, StepInv, Frame, MainRuns, SetupInv, Starts, Committed, Configured,
      Driven, MdioAddr1
<1>6. RegInv'
  BY <1>3 DEF FlowInv, StepInv, SetupInv, Frame, MainRuns, RegInv, Executed, Zero, Driven,
      Low16, MdioAddr1
<1>7. PinInv'
  <2>1. CASE TRUE \in strap
    BY <1>1, <1>3, <2>1 DEF FlowInv, StepInv, SetupInv, RegInv, Driven, Frame, PinInv,
        LoopInv, Strapped, MainRuns, Early, ResetStates, Executed, MdioAddr1
  <2>2. CASE TRUE \notin strap
    BY <1>1, <1>3, <2>2 DEF FlowInv, StepInv, SetupInv, RegInv, Driven, Frame, PinInv,
        LinkInv, Strapped, MainRuns, Early, ResetStates, Executed, Got, MdioAddr1
  <2> QED
    BY <2>1, <2>2
<1> QED
  BY <1>2, <1>4, <1>5, <1>6, <1>7 DEF Ran

\* MDIO_READ_PCS_RESET waits for the write that resets the PCS.
LEMMA MdioReadPcsResetRuns ==
  ASSUME FlowInv, PinInv, MainRuns, Frame, MdioReadPcsReset
  PROVE  Ran
<1>1. /\ main \in MainType /\ mdio_ready \in BOOLEAN /\ pcs_loopback_reg \in BOOLEAN
      /\ strap # {} /\ strap \subseteq BOOLEAN /\ axi_rd_data \in Got
  BY DEF FlowInv, TypeOK
<1>2. main' \in MainType
  BY <1>1 DEF MdioReadPcsReset, Command, When, MainType, Addrs, Ops, Words, States, Driven
<1>3. /\ ~main'.start_access /\ main'.start_mdio /\ main'.drive_mdio
      /\ main'.enable_gen = main.enable_gen /\ main'.block_lock = main.block_lock
      /\ main'.writenread = main.writenread /\ main'.addr = main.addr
      /\ main'.axi_wr_data = main.axi_wr_data
      /\ main'.pcs_loopback_conf_done = main.pcs_loopback_conf_done
      /\ main'.pcs_default_conf_done = main.pcs_default_conf_done
      /\ IF mdio_ready
         THEN /\ main'.axi_state = "MDIO_READ_PCS_RESET_POLL" /\ main'.mdio_op = "RD"
         ELSE /\ main'.axi_state = "MDIO_READ_PCS_RESET" /\ main'.mdio_op = main.mdio_op
  BY <1>1 DEF MdioReadPcsReset, Command, When, MainType, MainRuns
<1>4. StepInv'
  BY <1>3 DEF FlowInv, SetupInv, Frame, MainRuns, StepInv, Starts, Committed, MdioReadPcsReset
<1>5. SetupInv'
  BY <1>3 DEF FlowInv, StepInv, Frame, MainRuns, SetupInv, Starts, Committed, Configured,
      Driven, MdioReadPcsReset
<1>6. RegInv'
  BY <1>3 DEF FlowInv, StepInv, SetupInv, Frame, MainRuns, RegInv, Executed, Zero, Driven,
      Low16, MdioReadPcsReset
<1>7. PinInv'
  <2>1. CASE TRUE \in strap
    BY <1>1, <1>3, <2>1 DEF FlowInv, StepInv, SetupInv, RegInv, Driven, Frame, PinInv,
        LoopInv, Strapped, MainRuns, Early, ResetStates, Executed, MdioReadPcsReset
  <2>2. CASE TRUE \notin strap
    BY <1>1, <1>3, <2>2 DEF FlowInv, StepInv, SetupInv, RegInv, Driven, Frame, PinInv,
        LinkInv, Strapped, MainRuns, Early, ResetStates, Executed, Got, MdioReadPcsReset
  <2> QED
    BY <2>1, <2>2
<1> QED
  BY <1>2, <1>4, <1>5, <1>6, <1>7 DEF Ran

\* MDIO_READ_PCS_RESET_POLL reads the control register.
LEMMA MdioReadPcsResetPollRuns ==
  ASSUME FlowInv, PinInv, MainRuns, Frame, MdioReadPcsResetPoll
  PROVE  Ran
<1>1. /\ main \in MainType /\ mdio_ready \in BOOLEAN /\ pcs_loopback_reg \in BOOLEAN
      /\ strap # {} /\ strap \subseteq BOOLEAN /\ axi_rd_data \in Got
  BY DEF FlowInv, TypeOK
<1>2. main' \in MainType
  BY <1>1 DEF MdioReadPcsResetPoll, Command, When, MainType, Addrs, Ops, Words, States, Driven
<1>3. /\ ~main'.start_access /\ main'.start_mdio /\ main'.drive_mdio /\ main'.mdio_op = "RD"
      /\ ~main'.writenread /\ main'.enable_gen = main.enable_gen
      /\ main'.block_lock = main.block_lock /\ main'.addr = main.addr
      /\ main'.axi_wr_data = main.axi_wr_data
      /\ main'.pcs_loopback_conf_done = main.pcs_loopback_conf_done
      /\ main'.pcs_default_conf_done = main.pcs_default_conf_done
      /\ IF mdio_ready
         THEN /\ main'.axi_state = "MDIO_READ_PCS_RESET_READ"
         ELSE /\ main'.axi_state = "MDIO_READ_PCS_RESET_POLL"
  BY <1>1 DEF MdioReadPcsResetPoll, Command, When, MainType, MainRuns
<1>4. StepInv'
  BY <1>3 DEF FlowInv, SetupInv, Frame, MainRuns, StepInv, Starts, Committed, MdioReadPcsResetPoll
<1>5. SetupInv'
  BY <1>3 DEF FlowInv, StepInv, Frame, MainRuns, SetupInv, Starts, Committed, Configured,
      Driven, MdioReadPcsResetPoll
<1>6. RegInv'
  BY <1>3 DEF FlowInv, StepInv, SetupInv, Frame, MainRuns, RegInv, Executed, Zero, Driven,
      Low16, MdioReadPcsResetPoll
<1>7. PinInv'
  <2>1. CASE TRUE \in strap
    BY <1>1, <1>3, <2>1 DEF FlowInv, StepInv, SetupInv, RegInv, Driven, Frame, PinInv,
        LoopInv, Strapped, MainRuns, Early, ResetStates, Executed, MdioReadPcsResetPoll
  <2>2. CASE TRUE \notin strap
    BY <1>1, <1>3, <2>2 DEF FlowInv, StepInv, SetupInv, RegInv, Driven, Frame, PinInv,
        LinkInv, Strapped, MainRuns, Early, ResetStates, Executed, Got, MdioReadPcsResetPoll
  <2> QED
    BY <2>1, <2>2
<1> QED
  BY <1>2, <1>4, <1>5, <1>6, <1>7 DEF Ran

\* MDIO_READ_PCS_RESET_READ reads it once more, and has the answer fetched.
LEMMA MdioReadPcsResetReadRuns ==
  ASSUME FlowInv, PinInv, MainRuns, Frame, MdioReadPcsResetRead
  PROVE  Ran
<1>1. /\ main \in MainType /\ mdio_ready \in BOOLEAN /\ pcs_loopback_reg \in BOOLEAN
      /\ strap # {} /\ strap \subseteq BOOLEAN /\ axi_rd_data \in Got
  BY DEF FlowInv, TypeOK
<1>2. main' \in MainType
  BY <1>1 DEF MdioReadPcsResetRead, Command, When, MainType, Addrs, Ops, Words, States, Driven
<1>3. /\ ~main'.start_access /\ main'.start_mdio /\ main'.drive_mdio /\ main'.mdio_op = "RD"
      /\ main'.enable_gen = main.enable_gen /\ main'.block_lock = main.block_lock
      /\ main'.writenread = main.writenread /\ main'.axi_wr_data = main.axi_wr_data
      /\ main'.pcs_loopback_conf_done = main.pcs_loopback_conf_done
      /\ main'.pcs_default_conf_done = main.pcs_default_conf_done
      /\ IF mdio_ready
         THEN /\ main'.axi_state = "MDIO_RESET_CHECK" /\ main'.addr = "MDIO_RX_DATA"
         ELSE /\ main'.axi_state = "MDIO_READ_PCS_RESET_READ" /\ main'.addr = main.addr
  BY <1>1 DEF MdioReadPcsResetRead, Command, When, MainType, MainRuns
<1>4. StepInv'
  BY <1>3 DEF FlowInv, SetupInv, Frame, MainRuns, StepInv, Starts, Committed, MdioReadPcsResetRead
<1>5. SetupInv'
  BY <1>3 DEF FlowInv, StepInv, Frame, MainRuns, SetupInv, Starts, Committed, Configured,
      Driven, MdioReadPcsResetRead
<1>6. RegInv'
  BY <1>3 DEF FlowInv, StepInv, SetupInv, Frame, MainRuns, RegInv, Executed, Zero, Driven,
      Low16, MdioReadPcsResetRead
<1>7. PinInv'
  <2>1. CASE TRUE \in strap
    BY <1>1, <1>3, <2>1 DEF FlowInv, StepInv, SetupInv, RegInv, Driven, Frame, PinInv,
        LoopInv, Strapped, MainRuns, Early, ResetStates, Executed, MdioReadPcsResetRead
  <2>2. CASE TRUE \notin strap
    BY <1>1, <1>3, <2>2 DEF FlowInv, StepInv, SetupInv, RegInv, Driven, Frame, PinInv,
        LinkInv, Strapped, MainRuns, Early, ResetStates, Executed, Got, MdioReadPcsResetRead
  <2> QED
    BY <2>1, <2>2
<1> QED
  BY <1>2, <1>4, <1>5, <1>6, <1>7 DEF Ran

\* MDIO_RESET_CHECK goes on when the answer says that the reset is over.
LEMMA MdioResetCheckRuns ==
  ASSUME FlowInv, PinInv, MainRuns, Frame, MdioResetCheck
  PROVE  Ran
<1>1. /\ main \in MainType /\ mdio_ready \in BOOLEAN /\ pcs_loopback_reg \in BOOLEAN
      /\ strap # {} /\ strap \subseteq BOOLEAN /\ axi_rd_data \in Got
  BY DEF FlowInv, TypeOK
<1>2. main' \in MainType
  BY <1>1 DEF MdioResetCheck, ResetCleared, Command, When, MainType, Addrs, Ops, Words, States, Driven
<1>3. /\ ~main'.start_access /\ main'.start_mdio /\ main'.drive_mdio
      /\ main'.enable_gen = main.enable_gen /\ main'.block_lock = main.block_lock
      /\ main'.mdio_op = main.mdio_op /\ main'.writenread = main.writenread
      /\ main'.addr = main.addr /\ main'.axi_wr_data = main.axi_wr_data
      /\ main'.pcs_loopback_conf_done = main.pcs_loopback_conf_done
      /\ main'.pcs_default_conf_done = main.pcs_default_conf_done
      /\ IF mdio_ready /\ axi_rd_data.val = "2040"
         THEN /\ main'.axi_state = "MDIO_ADDR_2"
         ELSE /\ main'.axi_state = "MDIO_RESET_CHECK"
  BY <1>1 DEF MdioResetCheck, ResetCleared, Command, When, MainType, MainRuns
<1>4. StepInv'
  BY <1>3 DEF FlowInv, SetupInv, Frame, MainRuns, StepInv, Starts, Committed, MdioResetCheck
<1>5. SetupInv'
  BY <1>3 DEF FlowInv, StepInv, Frame, MainRuns, SetupInv, Starts, Committed, Configured,
      Driven, MdioResetCheck
<1>6. RegInv'
  BY <1>3 DEF FlowInv, StepInv, SetupInv, Frame, MainRuns, RegInv, Executed, Zero, Driven,
      Low16, MdioResetCheck
<1>7. PinInv'
  <2>1. CASE TRUE \in strap
    BY <1>1, <1>3, <2>1 DEF FlowInv, StepInv, SetupInv, RegInv, Driven, Frame, PinInv,
        LoopInv, Strapped, MainRuns, Early, ResetStates, Executed, MdioResetCheck
  <2>2. CASE TRUE \notin strap
    BY <1>1, <1>3, <2>2 DEF FlowInv, StepInv, SetupInv, RegInv, Driven, Frame, PinInv,
        LinkInv, Strapped, MainRuns, Early, ResetStates, Executed, Got, MdioResetCheck
  <2> QED
    BY <2>1, <2>2
<1> QED
  BY <1>2, <1>4, <1>5, <1>6, <1>7 DEF Ran

\* MDIO_ADDR_2 asks for the write of the loopback bit.
LEMMA MdioAddr2Runs ==
  ASSUME FlowInv, PinInv, MainRuns, Frame, MdioAddr2
  PROVE  Ran
<1>1. /\ main \in MainType /\ mdio_ready \in BOOLEAN /\ pcs_loopback_reg \in BOOLEAN
      /\ strap # {} /\ strap \subseteq BOOLEAN /\ axi_rd_data \in Got
  BY DEF FlowInv, TypeOK
<1>2. main' \in MainType
  BY <1>1 DEF MdioAddr2, Command, When, MainType, Addrs, Ops, Words, States, Driven
<1>3. /\ ~main'.start_access /\ main'.start_mdio /\ main'.drive_mdio /\ main'.writenread
      /\ main'.addr = "MDIO_CONTROL" /\ main'.enable_gen = main.enable_gen
      /\ main'.block_lock = main.block_lock
      /\ main'.pcs_loopback_conf_done = main.pcs_loopback_conf_done
      /\ main'.pcs_default_conf_done = main.pcs_default_conf_done
      /\ IF mdio_ready
         THEN /\ main'.axi_state = "MDIO_WR" /\ main'.mdio_op = "WR"
              /\ main'.axi_wr_data = IF pcs_loopback_reg THEN "4000" ELSE "2000"
         ELSE /\ main'.axi_state = "MDIO_ADDR_2" /\ main'.mdio_op = main.mdio_op
              /\ main'.axi_wr_data = main.axi_wr_data
  BY <1>1 DEF MdioAddr2, Command, When, MainType, MainRuns
<1>4. StepInv'
  BY <1>3 DEF FlowInv, SetupInv, Frame, MainRuns, StepInv, Starts, Committed, MdioAddr2
<1>5. SetupInv'
  BY <1>3 DEF FlowInv, StepInv, Frame, MainRuns, SetupInv, Starts, Committed, Configured,
      Driven, MdioAddr2
<1>6. RegInv'
  BY <1>3 DEF FlowInv, StepInv, SetupInv, Frame, MainRuns, RegInv, Executed, Zero, Driven,
      Low16, MdioAddr2
<1>7. PinInv'
  <2>1. CASE TRUE \in strap
    BY <1>1, <1>3, <2>1 DEF FlowInv, StepInv, SetupInv, RegInv, Driven, Frame, PinInv,
        LoopInv, Strapped, MainRuns, Early, ResetStates, Executed, MdioAddr2
  <2>2. CASE TRUE \notin strap
    BY <1>1, <1>3, <2>2 DEF FlowInv, StepInv, SetupInv, RegInv, Driven, Frame, PinInv,
        LinkInv, Strapped, MainRuns, Early, ResetStates, Executed, Got, MdioAddr2
  <2> QED
    BY <2>1, <2>2
<1> QED
  BY <1>2, <1>4, <1>5, <1>6, <1>7 DEF Ran

\* MDIO_WR: when the write has ended the control register has its value.
LEMMA MdioWrRuns ==
  ASSUME FlowInv, PinInv, MainRuns, Frame, MdioWr
  PROVE  Ran
<1>1. /\ main \in MainType /\ mdio_ready \in BOOLEAN /\ pcs_loopback_reg \in BOOLEAN
      /\ strap # {} /\ strap \subseteq BOOLEAN /\ axi_rd_data \in Got
  BY DEF FlowInv, TypeOK
<1>2. main' \in MainType
  <2>1. /\ (main.pcs_loopback_conf_done \/ pcs_loopback_reg) \in BOOLEAN
        /\ (main.pcs_default_conf_done \/ ~pcs_loopback_reg) \in BOOLEAN
    OBVIOUS
  <2>2. CASE mdio_ready
    BY <1>1, <2>1, <2>2 DEF MdioWr, Command, When, MainType, Addrs, Ops, Words, States, Driven
  <2>3. CASE ~mdio_ready
    BY <1>1, <2>3 DEF MdioWr, Command, When, MainType, Addrs, Ops, Words, States, Driven
  <2> QED
    BY <2>2, <2>3
<1>3. /\ ~main'.start_access /\ main'.start_mdio /\ main'.drive_mdio /\ main'.mdio_op = "WR"
      /\ main'.writenread /\ main'.enable_gen = main.enable_gen
      /\ main'.block_lock = main.block_lock /\ main'.addr = main.addr
      /\ main'.axi_wr_data = main.axi_wr_data
      /\ IF mdio_ready
         THEN /\ main'.axi_state = "MDIO_RD_1"
              /\ main'.pcs_loopback_conf_done = (main.pcs_loopback_conf_done \/ pcs_loopback_reg)
              /\ main'.pcs_default_conf_done = (main.pcs_default_conf_done \/ ~pcs_loopback_reg)
         ELSE /\ main'.axi_state = "MDIO_WR"
              /\ main'.pcs_loopback_conf_done = main.pcs_loopback_conf_done
              /\ main'.pcs_default_conf_done = main.pcs_default_conf_done
  BY <1>1 DEF MdioWr, Command, When, MainType, MainRuns
<1>4. StepInv'
  BY <1>3 DEF FlowInv, SetupInv, Frame, MainRuns, StepInv, Starts, Committed, MdioWr
<1>5. SetupInv'
  BY <1>3 DEF FlowInv, StepInv, Frame, MainRuns, SetupInv, Starts, Committed, Configured,
      Driven, MdioWr
<1>6. RegInv'
  BY <1>3 DEF FlowInv, StepInv, SetupInv, Frame, MainRuns, RegInv, Executed, Zero, Driven,
      Low16, MdioWr
<1>7. PinInv'
  <2>1. CASE TRUE \in strap
    BY <1>1, <1>3, <2>1 DEF FlowInv, StepInv, SetupInv, RegInv, Driven, Frame, PinInv,
        LoopInv, Strapped, MainRuns, Early, ResetStates, Executed, MdioWr
  <2>2. CASE TRUE \notin strap
    BY <1>1, <1>3, <2>2 DEF FlowInv, StepInv, SetupInv, RegInv, Driven, Frame, PinInv,
        LinkInv, Strapped, MainRuns, Early, ResetStates, Executed, Got, MdioWr
  <2> QED
    BY <2>1, <2>2
<1> QED
  BY <1>2, <1>4, <1>5, <1>6, <1>7 DEF Ran

\* MDIO_RD_1: traffic in loopback, or on to the link status.
LEMMA MdioRd1Runs ==
  ASSUME FlowInv, PinInv, MainRuns, Frame, MdioRd1
  PROVE  Ran
<1>1. /\ main \in MainType /\ mdio_ready \in BOOLEAN /\ pcs_loopback_reg \in BOOLEAN
      /\ strap # {} /\ strap \subseteq BOOLEAN /\ axi_rd_data \in Got
  BY DEF FlowInv, TypeOK
<1>2. main' \in MainType
  <2> DEFINE m == [Command EXCEPT !.writenread = TRUE, !.mdio_op = "RD",
                                  !.block_lock = FALSE]
             unloop == [m EXCEPT !.pcs_loopback_conf_done = FALSE]
  <2>1. /\ "RD" \in Ops /\ "20" \in Words /\ "0" \in Words
        /\ "MDIO_ADDR" \in States /\ "MDIO_ADDR_1" \in States
    BY DEF Ops, Words, States, Driven
  <2>2. m \in MainType /\ unloop \in MainType
    BY <1>1, <2>1 DEF Command, MainType
  <2>3. \/ main' = [m EXCEPT !.enable_gen = TRUE]
        \/ main' = [unloop EXCEPT !.axi_state = "MDIO_ADDR", !.axi_wr_data = "20"]
        \/ main' = [unloop EXCEPT !.axi_state = "MDIO_ADDR_1", !.axi_wr_data = "0"]
        \/ main' = unloop
    BY DEF MdioRd1, When
  <2> HIDE DEF m, unloop
  <2>4. \A x \in MainType : /\ [x EXCEPT !.enable_gen = TRUE] \in MainType
                          /\ [x EXCEPT !.axi_state = "MDIO_ADDR", !.axi_wr_data = "20"] \in MainType
                          /\ [x EXCEPT !.axi_state = "MDIO_ADDR_1", !.axi_wr_data = "0"] \in MainType
    BY <2>1 DEF MainType
  <2> QED
    BY <2>2, <2>3, <2>4
<1>3. /\ ~main'.start_access /\ main'.start_mdio /\ main'.drive_mdio
      /\ main'.writenread /\ main'.mdio_op = "RD" /\ ~main'.block_lock
      /\ main'.addr = main.addr /\ main'.pcs_default_conf_done = main.pcs_default_conf_done
      /\ IF main.pcs_loopback_conf_done /\ pcs_loopback_reg
         THEN /\ main'.enable_gen /\ main'.pcs_loopback_conf_done
              /\ main'.axi_state = "MDIO_RD_1" /\ main'.axi_wr_data = main.axi_wr_data
         ELSE /\ main'.enable_gen = main.enable_gen /\ ~main'.pcs_loopback_conf_done
              /\ ~mdio_ready => /\ main'.axi_state = "MDIO_RD_1"
                                /\ main'.axi_wr_data = main.axi_wr_data
              /\ mdio_ready /\ main.pcs_default_conf_done =>
                   main'.axi_state = "MDIO_ADDR" /\ main'.axi_wr_data = "20"
              /\ mdio_ready /\ ~main.pcs_default_conf_done =>
                   main'.axi_state = "MDIO_ADDR_1" /\ main'.axi_wr_data = "0"
  <2>1. CASE main.pcs_loopback_conf_done /\ pcs_loopback_reg
    BY <1>1, <2>1 DEF MdioRd1, Command, When, MainType, MainRuns
  <2>2. CASE ~(main.pcs_loopback_conf_done /\ pcs_loopback_reg) /\ ~mdio_ready
    BY <1>1, <2>2 DEF MdioRd1, Command, When, MainType, MainRuns
  <2>3. CASE ~(main.pcs_loopback_conf_done /\ pcs_loopback_reg) /\ mdio_ready
             /\ main.pcs_default_conf_done
    BY <1>1, <2>3 DEF MdioRd1, Command, When, MainType, MainRuns
  <2>4. CASE ~(main.pcs_loopback_conf_done /\ pcs_loopback_reg) /\ mdio_ready
             /\ ~main.pcs_default_conf_done
    <3> DEFINE m == [Command EXCEPT !.writenread = TRUE, !.mdio_op = "RD",
                                    !.block_lock = FALSE]
               unloop == [m EXCEPT !.pcs_loopback_conf_done = FALSE]
    <3>1. main' = [unloop EXCEPT !.axi_state = "MDIO_ADDR_1", !.axi_wr_data = "0"]
      BY <2>4 DEF MdioRd1, When
    <3>2. main'.axi_state = "MDIO_ADDR_1" /\ main'.axi_wr_data = "0"
      BY <1>1, <3>1 DEF Command, MainType
    <3>3. /\ ~main'.start_access /\ main'.start_mdio /\ main'.drive_mdio
          /\ main'.writenread /\ main'.mdio_op = "RD" /\ ~main'.block_lock
      BY <1>1, <3>1 DEF Command, MainType, MainRuns
    <3>4. /\ main'.addr = main.addr /\ main'.enable_gen = main.enable_gen
          /\ main'.pcs_default_conf_done = main.pcs_default_conf_done
          /\ ~main'.pcs_loopback_conf_done
      BY <1>1, <3>1 DEF Command, MainType
    <3> QED
      BY <2>4, <3>2, <3>3, <3>4
  <2> QED
    BY <2>1, <2>2, <2>3, <2>4
<1>4. StepInv'
  BY <1>3 DEF FlowInv, SetupInv, Frame, MainRuns, StepInv, Starts, Committed, MdioRd1
<1>5. SetupInv'
  BY <1>3 DEF FlowInv, StepInv, Frame, MainRuns, SetupInv, Starts, Committed, Configured,
      Driven, MdioRd1
<1>6. RegInv'
  BY <1>3 DEF FlowInv, StepInv, SetupInv, Frame, MainRuns, RegInv, Executed, Zero, Driven,
      Low16, MdioRd1
<1>7. PinInv'
  <2>1. CASE TRUE \in strap
    BY <1>1, <1>3, <2>1 DEF FlowInv, StepInv, SetupInv, RegInv, Driven, Frame, PinInv,
        LoopInv, Strapped, MainRuns, Early, ResetStates, Executed, MdioRd1
  <2>2. CASE TRUE \notin strap
    BY <1>1, <1>3, <2>2 DEF FlowInv, StepInv, SetupInv, RegInv, Driven, Frame, PinInv,
        LinkInv, Strapped, MainRuns, Early, ResetStates, Executed, Got, MdioRd1
  <2> QED
    BY <2>1, <2>2
<1> QED
  BY <1>2, <1>4, <1>5, <1>6, <1>7 DEF Ran

\* MDIO_ADDR addresses the status register.
LEMMA MdioAddrRuns ==
  ASSUME FlowInv, PinInv, MainRuns, Frame, MdioAddr
  PROVE  Ran
<1>1. /\ main \in MainType /\ mdio_ready \in BOOLEAN /\ pcs_loopback_reg \in BOOLEAN
      /\ strap # {} /\ strap \subseteq BOOLEAN /\ axi_rd_data \in Got
  BY DEF FlowInv, TypeOK
<1>2. main' \in MainType
  BY <1>1 DEF MdioAddr, Command, When, MainType, Addrs, Ops, Words, States, Driven
<1>3. /\ ~main'.start_access /\ main'.start_mdio /\ main'.drive_mdio
      /\ main'.mdio_op = "ADDR" /\ ~main'.writenread /\ main'.addr = "MDIO_CONTROL"
      /\ main'.axi_wr_data = "20" /\ main'.enable_gen = main.enable_gen
      /\ main'.block_lock = main.block_lock
      /\ main'.pcs_loopback_conf_done = main.pcs_loopback_conf_done
      /\ main'.pcs_default_conf_done = main.pcs_default_conf_done
      /\ IF mdio_ready
         THEN /\ main'.axi_state = "MDIO_RD"
         ELSE /\ main'.axi_state = "MDIO_ADDR"
  BY <1>1 DEF MdioAddr, Command, When, MainType, MainRuns
<1>4. StepInv'
  BY <1>3 DEF FlowInv, SetupInv, Frame, MainRuns, StepInv, Starts, Committed, MdioAddr
<1>5. SetupInv'
  BY <1>3 DEF FlowInv, StepInv, Frame, MainRuns, SetupInv, Starts, Committed, Configured,
      Driven, MdioAddr
<1>6. RegInv'
  BY <1>3 DEF FlowInv, StepInv, SetupInv, Frame, MainRuns, RegInv, Executed, Zero, Driven,
      Low16, MdioAddr
<1>7. PinInv'
  <2>1. CASE TRUE \in strap
    BY <1>1, <1>3, <2>1 DEF FlowInv, StepInv, SetupInv, RegInv, Driven, Frame, PinInv,
        LoopInv, Strapped, MainRuns, Early, ResetStates, Executed, MdioAddr
  <2>2. CASE TRUE \notin strap
    BY <1>1, <1>3, <2>2 DEF FlowInv, StepInv, SetupInv, RegInv, Driven, Frame, PinInv,
        LinkInv, Strapped, MainRuns, Early, ResetStates, Executed, Got, MdioAddr
  <2> QED
    BY <2>1, <2>2
<1> QED
  BY <1>2, <1>4, <1>5, <1>6, <1>7 DEF Ran

\* MDIO_RD reads it.
LEMMA MdioRdRuns ==
  ASSUME FlowInv, PinInv, MainRuns, Frame, MdioRd
  PROVE  Ran
<1>1. /\ main \in MainType /\ mdio_ready \in BOOLEAN /\ pcs_loopback_reg \in BOOLEAN
      /\ strap # {} /\ strap \subseteq BOOLEAN /\ axi_rd_data \in Got
  BY DEF FlowInv, TypeOK
<1>2. main' \in MainType
  BY <1>1 DEF MdioRd, Command, When, MainType, Addrs, Ops, Words, States, Driven
<1>3. /\ ~main'.start_access /\ main'.start_mdio /\ main'.drive_mdio /\ main'.mdio_op = "RD"
      /\ ~main'.writenread /\ main'.enable_gen = main.enable_gen
      /\ main'.block_lock = main.block_lock /\ main'.axi_wr_data = main.axi_wr_data
      /\ main'.pcs_loopback_conf_done = main.pcs_loopback_conf_done
      /\ main'.pcs_default_conf_done = main.pcs_default_conf_done
      /\ IF mdio_ready
         THEN /\ main'.axi_state = "MDIO_POLL_CHECK" /\ main'.addr = "MDIO_RX_DATA"
         ELSE /\ main'.axi_state = "MDIO_RD" /\ main'.addr = main.addr
  BY <1>1 DEF MdioRd, Command, When, MainType, MainRuns
<1>4. StepInv'
  BY <1>3 DEF FlowInv, SetupInv, Frame, MainRuns, StepInv, Starts, Committed, MdioRd
<1>5. SetupInv'
  BY <1>3 DEF FlowInv, StepInv, Frame, MainRuns, SetupInv, Starts, Committed, Configured,
      Driven, MdioRd
<1>6. RegInv'
  BY <1>3 DEF FlowInv, StepInv, SetupInv, Frame, MainRuns, RegInv, Executed, Zero, Driven,
      Low16, MdioRd
<1>7. PinInv'
  <2>1. CASE TRUE \in strap
    BY <1>1, <1>3, <2>1 DEF FlowInv, StepInv, SetupInv, RegInv, Driven, Frame, PinInv,
        LoopInv, Strapped, MainRuns, Early, ResetStates, Executed, MdioRd
  <2>2. CASE TRUE \notin strap
    BY <1>1, <1>3, <2>2 DEF FlowInv, StepInv, SetupInv, RegInv, Driven, Frame, PinInv,
        LinkInv, Strapped, MainRuns, Early, ResetStates, Executed, Got, MdioRd
  <2> QED
    BY <2>1, <2>2
<1> QED
  BY <1>2, <1>4, <1>5, <1>6, <1>7 DEF Ran

\* MDIO_POLL_CHECK has the answer fetched.
LEMMA MdioPollCheckRuns ==
  ASSUME FlowInv, PinInv, MainRuns, Frame, MdioPollCheck
  PROVE  Ran
<1>1. /\ main \in MainType /\ mdio_ready \in BOOLEAN /\ pcs_loopback_reg \in BOOLEAN
      /\ strap # {} /\ strap \subseteq BOOLEAN /\ axi_rd_data \in Got
  BY DEF FlowInv, TypeOK
<1>2. main' \in MainType
  BY <1>1 DEF MdioPollCheck, Command, When, MainType, Addrs, Ops, Words, States, Driven
<1>3. /\ ~main'.start_access /\ main'.start_mdio /\ main'.drive_mdio
      /\ main'.enable_gen = main.enable_gen /\ main'.block_lock = main.block_lock
      /\ main'.mdio_op = main.mdio_op /\ main'.writenread = main.writenread
      /\ main'.addr = main.addr /\ main'.axi_wr_data = main.axi_wr_data
      /\ main'.pcs_loopback_conf_done = main.pcs_loopback_conf_done
      /\ main'.pcs_default_conf_done = main.pcs_default_conf_done
      /\ IF mdio_ready
         THEN /\ main'.axi_state = "MDIO_CHECK_DATA"
         ELSE /\ main'.axi_state = "MDIO_POLL_CHECK"
  BY <1>1 DEF MdioPollCheck, Command, When, MainType, MainRuns
<1>4. StepInv'
  BY <1>3 DEF FlowInv, SetupInv, Frame, MainRuns, StepInv, Starts, Committed, MdioPollCheck
<1>5. SetupInv'
  BY <1>3 DEF FlowInv, StepInv, Frame, MainRuns, SetupInv, Starts, Committed, Configured,
      Driven, MdioPollCheck
<1>6. RegInv'
  BY <1>3 DEF FlowInv, StepInv, SetupInv, Frame, MainRuns, RegInv, Executed, Zero, Driven,
      Low16, MdioPollCheck
<1>7. PinInv'
  <2>1. CASE TRUE \in strap
    BY <1>1, <1>3, <2>1 DEF FlowInv, StepInv, SetupInv, RegInv, Driven, Frame, PinInv,
        LoopInv, Strapped, MainRuns, Early, ResetStates, Executed, MdioPollCheck
  <2>2. CASE TRUE \notin strap
    BY <1>1, <1>3, <2>2 DEF FlowInv, StepInv, SetupInv, RegInv, Driven, Frame, PinInv,
        LinkInv, Strapped, MainRuns, Early, ResetStates, Executed, Got, MdioPollCheck
  <2> QED
    BY <2>1, <2>2
<1> QED
  BY <1>2, <1>4, <1>5, <1>6, <1>7 DEF Ran

\* MDIO_CHECK_DATA judges it: the link is up, or it is read again.
LEMMA MdioCheckDataRuns ==
  ASSUME FlowInv, PinInv, MainRuns, Frame, MdioCheckData
  PROVE  Ran
<1>1. /\ main \in MainType /\ mdio_ready \in BOOLEAN /\ pcs_loopback_reg \in BOOLEAN
      /\ strap # {} /\ strap \subseteq BOOLEAN /\ axi_rd_data \in Got
  BY DEF FlowInv, TypeOK
<1>2. main' \in MainType
  <2>1. "ADDR" \in Ops /\ "0" \in Addrs /\ {"CONFIG_DONE", "MDIO_ADDR"} \subseteq States
    BY DEF Ops, Addrs, States, Driven
  <2>2. Command \in MainType
    BY <1>1 DEF Command, MainType
  <2>3. \/ main' = [main EXCEPT !.start_access = FALSE, !.start_mdio = FALSE,
                            !.drive_mdio = FALSE, !.mdio_op = "ADDR",
                            !.writenread = FALSE, !.addr = "0",
                            !.axi_state = "CONFIG_DONE", !.block_lock = TRUE]
        \/ main' = [Command EXCEPT !.axi_state = "MDIO_ADDR"]
        \/ main' = Command
    BY DEF MdioCheckData, When
  <2>4. [Command EXCEPT !.axi_state = "MDIO_ADDR"] \in MainType
    BY <2>1, <2>2 DEF MainType
  <2>5. [main EXCEPT !.start_access = FALSE, !.start_mdio = FALSE,
                     !.drive_mdio = FALSE, !.mdio_op = "ADDR",
                     !.writenread = FALSE, !.addr = "0",
                     !.axi_state = "CONFIG_DONE", !.block_lock = TRUE] \in MainType
    BY <1>1, <2>1 DEF MainType
  <2> QED
    BY <2>2, <2>3, <2>4, <2>5
<1>3. /\ main'.enable_gen = main.enable_gen /\ main'.axi_wr_data = main.axi_wr_data
      /\ main'.pcs_loopback_conf_done = main.pcs_loopback_conf_done
      /\ main'.pcs_default_conf_done = main.pcs_default_conf_done
      /\ ~main'.start_access
      /\ IF mdio_ready /\ axi_rd_data.val = "1005"
         THEN /\ ~main'.start_mdio /\ ~main'.drive_mdio /\ main'.mdio_op = "ADDR"
              /\ ~main'.writenread /\ main'.addr = "0"
              /\ main'.axi_state = "CONFIG_DONE" /\ main'.block_lock
         ELSE /\ main'.start_mdio /\ main'.drive_mdio /\ main'.mdio_op = main.mdio_op
              /\ main'.writenread = main.writenread /\ main'.addr = main.addr
              /\ main'.axi_state = IF mdio_ready THEN "MDIO_ADDR" ELSE "MDIO_CHECK_DATA"
              /\ main'.block_lock = main.block_lock
  BY <1>1 DEF MdioCheckData, StatusGood, Command, When, MainType, MainRuns
<1>4. StepInv'
  BY <1>3 DEF FlowInv, SetupInv, Frame, MainRuns, StepInv, Starts, Committed, MdioCheckData
<1>5. SetupInv'
  BY <1>3 DEF FlowInv, StepInv, Frame, MainRuns, SetupInv, Starts, Committed, Configured,
      Driven, MdioCheckData
<1>6. RegInv'
  BY <1>3 DEF FlowInv, StepInv, SetupInv, Frame, MainRuns, RegInv, Executed, Zero, Driven,
      Low16, MdioCheckData
<1>7. PinInv'
  <2>1. CASE TRUE \in strap
    BY <1>1, <1>3, <2>1 DEF FlowInv, StepInv, SetupInv, RegInv, Driven, Frame, PinInv,
        LoopInv, Strapped, MainRuns, Early, ResetStates, Executed, MdioCheckData
  <2>2. CASE TRUE \notin strap
    BY <1>1, <1>3, <2>2 DEF FlowInv, StepInv, SetupInv, RegInv, Driven, Frame, PinInv,
        LinkInv, Strapped, MainRuns, Early, ResetStates, Executed, Got, MdioCheckData
  <2> QED
    BY <2>1, <2>2
<1> QED
  BY <1>2, <1>4, <1>5, <1>6, <1>7 DEF Ran

\* CONFIG_DONE enables traffic, or begins again when the pin has changed.
LEMMA ConfigDoneRuns ==
  ASSUME FlowInv, PinInv, MainRuns, Frame, ConfigDone
  PROVE  Ran
<1>1. /\ main \in MainType /\ mdio_ready \in BOOLEAN /\ pcs_loopback_reg \in BOOLEAN
      /\ strap # {} /\ strap \subseteq BOOLEAN /\ axi_rd_data \in Got
  BY DEF FlowInv, TypeOK
<1>2. main' \in MainType
  BY <1>1 DEF ConfigDone, MainType, Addrs, Ops, Words, States, Driven
<1>3. /\ ~main'.start_mdio /\ main'.block_lock = main.block_lock
      /\ main'.drive_mdio = main.drive_mdio /\ main'.mdio_op = main.mdio_op
      /\ main'.writenread = main.writenread /\ main'.addr = main.addr
      /\ main'.axi_wr_data = main.axi_wr_data
      /\ main'.pcs_loopback_conf_done = main.pcs_loopback_conf_done
      /\ IF pcs_loopback_reg
         THEN /\ main'.axi_state = "RESET_MAC_TX" /\ main'.enable_gen = main.enable_gen
              /\ main'.start_access /\ ~main'.pcs_default_conf_done
         ELSE /\ main'.axi_state = "CONFIG_DONE" /\ main'.enable_gen /\ ~main'.start_access
              /\ main'.pcs_default_conf_done = main.pcs_default_conf_done
  BY <1>1 DEF ConfigDone, MainType, MainRuns
<1>4. StepInv'
  BY <1>3 DEF FlowInv, SetupInv, Frame, MainRuns, StepInv, Starts, Committed, Driven, ConfigDone
<1>5. SetupInv'
  BY <1>3 DEF FlowInv, StepInv, Frame, MainRuns, SetupInv, Starts, Committed, Configured,
      Driven, ConfigDone
<1>6. RegInv'
  BY <1>3 DEF FlowInv, StepInv, SetupInv, Frame, MainRuns, RegInv, Executed, Zero, Driven,
      Low16, ConfigDone
<1>7. PinInv'
  <2>1. CASE TRUE \in strap
    BY <1>1, <1>3, <2>1 DEF FlowInv, StepInv, SetupInv, RegInv, Driven, Frame, PinInv,
        LoopInv, Strapped, MainRuns, Early, ResetStates, Executed, ConfigDone
  <2>2. CASE TRUE \notin strap
    BY <1>1, <1>3, <2>2 DEF FlowInv, StepInv, SetupInv, RegInv, Driven, Frame, PinInv,
        LinkInv, Strapped, MainRuns, Early, ResetStates, Executed, Got, ConfigDone
  <2> QED
    BY <2>1, <2>2
<1> QED
  BY <1>2, <1>4, <1>5, <1>6, <1>7 DEF Ran


-----------------------------------------------------------------------------
(***************************************************************************)
(* An edge on which the main state machine stalls: the PCS executes a      *)
(* command, or one of the five phases of an access goes on.                *)
(***************************************************************************)

\* The MDIO command that is now executed was, or it ends on this edge; and the
\* word that the main state machine will judge was read before or is read now.
Progress(in) ==
  /\ main.drive_mdio /\ Executed' => Executed \/ "mdio_done" \in in
  /\ main.drive_mdio /\ mdio_ready' =>
       \/ mdio_ready /\ ~main.start_mdio /\ axi_rd_data' = axi_rd_data
       \/ /\ mac.op = None
          /\ main.addr = "MDIO_RX_DATA" => axi_rd_data' = mac.rx

\* The command that the PCS executes.
LEMMA Executing ==
  ASSUME FlowInv, NEW in \in Inputs, Clock(in), "mdio_done" \in in
  PROVE  /\ mac.op = main.mdio_op /\ mac.tx = main.axi_wr_data /\ ~mdio_ready
         /\ mdio.access_sm = "POLL" /\ "bvalid" \notin in /\ main.drive_mdio
         /\ mac'.op = None
<1>1. mac.op # None
  BY InputFacts
<1>2. /\ mac.op = main.mdio_op /\ mac.tx = main.axi_wr_data /\ ~mdio_ready
      /\ mdio.access_sm = "POLL" /\ Committed /\ main.drive_mdio
  BY <1>1 DEF FlowInv, StepInv
<1>3. "bvalid" \notin in
  <2>1. CASE axi_access_sm = "WRITE"
    BY <1>2, <2>1, InputFacts DEF Committed, FlowInv, BusInv
  <2>2. CASE axi_access_sm # "WRITE"
    BY <2>2, InputFacts DEF FlowInv, BusInv
  <2> QED
    BY <2>1, <2>2
<1> QED
  BY <1>2, <1>3, MacStep DEF FlowInv

\* Neither the first state nor the last stalls.
LEMMA StallStates ==
  ASSUME FlowInv, ~MainRuns
  PROVE  main.axi_state \notin {"STARTUP", "CONFIG_DONE"}
  BY DEF FlowInv, SetupInv, StepInv, MainRuns, Starts, Driven

\* The command that ends has addressed or read the register that was meant.
LEMMA StallReg ==
  ASSUME FlowInv, NEW in \in Inputs, Clock(in), Kept, Progress(in)
  PROVE  RegInv'
<1>1. TypeOK /\ StepInv /\ SetupInv /\ RegInv
  BY DEF FlowInv
<1>2. /\ mac'.reg = IF "mdio_done" \in in /\ mac.op = "ADDR" THEN Low16(mac.tx)
                    ELSE mac.reg
      /\ mac'.rx = IF "mdio_done" \in in /\ mac.op = "RD" THEN PcsRead(mac.reg)
                   ELSE mac.rx
  BY <1>1, MacStep
<1>3. PcsRead(mac.reg).reg = mac.reg
  BY DEF PcsRead
<1>4. CASE "mdio_done" \in in
  <2>1. /\ mac.op = main.mdio_op /\ mac.tx = main.axi_wr_data /\ ~mdio_ready
        /\ main.drive_mdio /\ mac.op # None
    BY <1>4, Executing, InputFacts
  <2>2. ~mdio_ready'
    BY <2>1 DEF Progress
  <2> QED
    BY <1>1, <1>2, <1>3, <1>4, <2>1, <2>2 DEF Kept, RegInv, SetupInv, Low16, Zero, Driven
<1>5. CASE "mdio_done" \notin in
  BY <1>1, <1>2, <1>5 DEF Kept, Progress, RegInv, SetupInv, Zero, Driven
<1> QED
  BY <1>4, <1>5

\* The command that ends leaves the control register as the pin wants it.
LEMMA StallPin ==
  ASSUME FlowInv, PinInv, NEW in \in Inputs, Clock(in), ~MainRuns, Kept, Progress(in)
  PROVE  PinInv'
<1>1. /\ TypeOK /\ SetupInv /\ RegInv /\ strap \in SUBSET BOOLEAN /\ strap # {}
      /\ main.axi_state \notin {"STARTUP", "CONFIG_DONE"}
  BY StallStates DEF FlowInv, TypeOK
<1>2. /\ mac'.ctrl = IF /\ "mdio_done" \in in /\ mac.op = "WR"
                        /\ mac.reg = "0" /\ mac.ctrl # "8000" THEN Low16(mac.tx)
                     ELSE IF "reset_done" \in in THEN "2040" ELSE mac.ctrl
      /\ mac'.rx = IF "mdio_done" \in in /\ mac.op = "RD" THEN PcsRead(mac.reg)
                   ELSE mac.rx
      /\ "reset_done" \in in => mac.ctrl = "8000"
  BY <1>1, MacStep, InputFacts
<1>3. mac.reg = "0" => PcsRead(mac.reg).val = mac.ctrl
  BY DEF PcsRead
<1>4. strap' = strap /\ pcs_loopback_reg' \in strap /\ (Strapped' => Strapped)
  BY DEF Clock, Strapped
<1>5. "mdio_done" \in in => /\ mac.op = main.mdio_op /\ mac.tx = main.axi_wr_data
                            /\ ~mdio_ready /\ main.drive_mdio /\ mac.op # None
                            /\ ~mdio_ready'
  BY Executing, InputFacts DEF Progress
<1>6. ASSUME Strapped, TRUE \in strap PROVE LoopInv'
  <2>1. LoopInv
    BY <1>6 DEF PinInv
  <2>2. CASE "mdio_done" \in in
    BY <1>1, <1>2, <1>3, <1>5, <2>1, <2>2 DEF Kept, LoopInv, RegInv, SetupInv, Low16,
        Early, ResetStates, Zero, Driven
  <2>3. CASE "mdio_done" \notin in
    BY <1>1, <1>2, <2>1, <2>3 DEF Kept, Progress, LoopInv, RegInv, SetupInv, Early,
        ResetStates, Driven
  <2> QED
    BY <2>2, <2>3
<1>7. ASSUME Strapped, TRUE \notin strap PROVE LinkInv'
  <2>1. LinkInv
    BY <1>7 DEF PinInv
  <2>2. CASE "mdio_done" \in in
    BY <1>1, <1>2, <1>5, <2>1, <2>2 DEF Kept, LinkInv, RegInv, SetupInv, Low16, Early,
        ResetStates, Zero, Driven
  <2>3. CASE "mdio_done" \notin in
    BY <1>1, <1>2, <2>1, <2>3 DEF Kept, Progress, LinkInv, SetupInv, Early, ResetStates,
        Driven
  <2> QED
    BY <2>2, <2>3
<1> QED
  BY <1>1, <1>4, <1>6, <1>7 DEF Kept, PinInv, Strapped

\* What the phases establish.
Phase(in) == BusInv' /\ StepInv' /\ SetupInv' /\ Progress(in)

\* The main state machine has asked for an access: it starts.
LEMMA AccessBegins ==
  ASSUME FlowInv, NEW in \in Inputs, Clock(in), Kept, Starts
  PROVE  Phase(in)
<1>1. TypeOK /\ axi_access_sm = "IDLE" /\ mdio.access_sm = "IDLE" /\ mac.op = None
  BY DEF FlowInv, StepInv, Committed
<1>2. /\ "awready" \notin in /\ "wready" \notin in /\ "bvalid" \notin in
      /\ "arready" \notin in /\ "rvalid" \notin in /\ "mdio_done" \notin in
  BY <1>1, IdleBus, InputFacts
<1>3. axi_access_sm' = IF main.start_mdio \/ main.writenread THEN "WRITE" ELSE "READ"
  BY <1>1 DEF Clock, Axi, AxiIdle, Starts
<1>4. mdio' = IF main.start_mdio THEN [access_sm |-> "SET_DATA", wr_data |-> main.axi_wr_data]
              ELSE mdio
  BY <1>1 DEF Clock, Mdio, MdioMoves
<1>5. ~mdio_ready'
  BY <1>1, <1>2 DEF Clock, ReadData, AccessStarts, Starts
<1>6. mac'.op = None /\ mac'.written = mac.written /\ mac'.aw = mac.aw /\ mac'.w = mac.w
      /\ mac'.ar = mac.ar
  BY <1>1, <1>2, MacStep
<1>7. /\ ar' = ChannelIdle /\ r' = ChannelIdle /\ aw' = ChannelIdle
      /\ w' = ChannelIdle /\ b' = ChannelIdle
  BY <1>1, ARChannel, RChannel, AWChannel, WChannel, BChannel
<1>8. mac.aw = None /\ mac.w = None /\ mac.ar = None
  BY <1>1 DEF FlowInv, BusInv
<1>9. BusInv'
  BY <1>3, <1>6, <1>7, <1>8, ChannelFacts DEF BusInv
<1>10. StepInv'
  BY <1>1, <1>3, <1>4, <1>5, <1>6, <1>7, ChannelFacts
     DEF Kept, FlowInv, StepInv, Starts, Committed
<1>11. SetupInv'
  BY <1>1, <1>3, <1>5, <1>6, <1>7, ChannelFacts
     DEF Kept, FlowInv, StepInv, SetupInv, Starts, Committed, Configured, Driven
<1>12. Progress(in)
  BY <1>1, <1>4, <1>5 DEF Progress, Executed, Starts, FlowInv, StepInv
<1> QED
  BY <1>9, <1>10, <1>11, <1>12 DEF Phase

\* Between two accesses of an MDIO command: the next one starts.
LEMMA CommandGoesOn ==
  ASSUME FlowInv, NEW in \in Inputs, Clock(in), Kept, axi_access_sm = "IDLE", ~Starts,
         mdio.access_sm # "IDLE"
  PROVE  Phase(in)
<1>1. /\ TypeOK /\ mdio.access_sm \in {"INIT", "POLL"} /\ ~mdio_ready /\ main.drive_mdio
      /\ mdio.wr_data = main.mdio_op /\ mac.tx = main.axi_wr_data
  BY DEF FlowInv, TypeOK, StepInv
<1>2. /\ "awready" \notin in /\ "wready" \notin in /\ "bvalid" \notin in
      /\ "arready" \notin in /\ "rvalid" \notin in
  BY IdleBus
<1>3. axi_access_sm' = IF mdio.access_sm = "POLL" THEN "READ" ELSE "WRITE"
  BY <1>1 DEF Clock, Axi, AxiIdle, Starts
<1>4. mdio'.access_sm = "POLL" /\ mdio'.wr_data = mdio.wr_data
  BY <1>1 DEF Clock, Mdio, MdioMoves, TypeOK
<1>5. ~mdio_ready'
  BY <1>1, <1>2 DEF Clock, ReadData, AccessStarts, Starts, TypeOK
<1>6. /\ mac'.op = IF "mdio_done" \in in THEN None ELSE mac.op
      /\ mac'.written = mac.written /\ mac'.tx = mac.tx
      /\ mac'.aw = mac.aw /\ mac'.w = mac.w /\ mac'.ar = mac.ar
  BY <1>1, <1>2, MacStep
<1>7. /\ ar' = ChannelIdle /\ r' = ChannelIdle /\ aw' = ChannelIdle
      /\ w' = ChannelIdle /\ b' = ChannelIdle
  BY <1>1, ARChannel, RChannel, AWChannel, WChannel, BChannel
<1>8. mac.aw = None /\ mac.w = None /\ mac.ar = None
  BY DEF FlowInv, BusInv
<1>9. BusInv'
  BY <1>3, <1>6, <1>7, <1>8, ChannelFacts DEF BusInv
<1>10. StepInv'
  BY <1>1, <1>3, <1>4, <1>5, <1>6, <1>7, ChannelFacts
     DEF Kept, FlowInv, StepInv, Starts, Committed
<1>11. SetupInv'
  BY <1>1, <1>3, <1>5, <1>6, <1>7, ChannelFacts
     DEF Kept, FlowInv, StepInv, SetupInv, Starts, Committed, Configured, Driven
<1>12. Progress(in)
  BY <1>1, <1>3, <1>4, <1>5, <1>6, <1>7, ChannelFacts
     DEF Progress, Executed, Starts, Committed
<1> QED
  BY <1>9, <1>10, <1>11, <1>12 DEF Phase

\* A write is on the bus.
LEMMA WriteGoesOn ==
  ASSUME FlowInv, NEW in \in Inputs, Clock(in), Kept, axi_access_sm = "WRITE"
  PROVE  Phase(in)
<1>1. /\ TypeOK /\ ~Starts /\ mdio.access_sm \in {"IDLE", "SET_DATA", "POLL"}
      /\ mdio.access_sm # "IDLE" => ~mdio_ready
      /\ mdio.access_sm = "IDLE" => ~main.drive_mdio
  BY DEF FlowInv, TypeOK, StepInv, Starts
<1>2. "arready" \notin in /\ "rvalid" \notin in
  BY InputFacts, ChannelFacts DEF FlowInv, BusInv
<1>3. mdio' = mdio
  BY <1>1 DEF Clock, Mdio, MdioMoves
<1>4. axi_access_sm' = IF aw.done /\ w.done /\ b.done THEN "DONE" ELSE "WRITE"
  BY DEF Clock, Axi, AxiIdle, WriteEnds
<1>5. mdio_ready' = mdio_ready /\ axi_rd_data' = axi_rd_data
  BY <1>1, <1>2 DEF Clock, ReadData, AccessStarts
<1>6. WriteAddress' = WriteAddress /\ WriteWord' = WriteWord
  BY <1>3 DEF Kept, WriteAddress, WriteWord
<1>7. /\ aw.on \in BOOLEAN /\ aw.done \in BOOLEAN /\ w.on \in BOOLEAN /\ w.done \in BOOLEAN
      /\ b.on \in BOOLEAN /\ b.done \in BOOLEAN
  BY <1>1, ChannelFacts DEF TypeOK
<1>8. WriteAddress # None /\ WriteWord # None
  <2>1. WriteAddress \in Vals /\ WriteWord \in Vals
    BY <1>1, BusWords
  <2> QED
    BY <2>1 DEF Vals, Words, Ops, Addrs, None
<1>9. /\ aw.on => ~aw.done /\ aw.val = WriteAddress
      /\ w.on => ~w.done /\ w.val = WriteWord
      /\ b.on => ~b.done
      /\ mac.aw = IF aw.done /\ ~b.done THEN WriteAddress ELSE None
      /\ mac.w = IF w.done /\ ~b.done THEN WriteWord ELSE None
      /\ b.done => aw.done /\ w.done
  BY DEF FlowInv, BusInv
<1>10. ar' = ChannelIdle /\ r' = ChannelIdle /\ mac'.ar = None
  BY <1>1, <1>2, ARChannel, RChannel, MacStep DEF FlowInv, BusInv
<1>11. "bvalid" \in in => /\ aw.done /\ w.done /\ b.on /\ ~b.done
                          /\ mac.aw = WriteAddress /\ mac.w = WriteWord
  BY <1>9, InputFacts
<1>12. b'.done => b.done \/ "bvalid" \in in
  BY <1>1, <1>7, BChannel
<1>13. BusInv'
  <2>1. CASE aw.done /\ w.done /\ b.done
    <3>1. aw' = aw /\ w' = w /\ b' = b
      BY <1>1, <2>1, AWChannel, WChannel, BChannel
    <3>2. mac'.aw = None /\ mac'.w = None
      BY <1>1, <1>9, <2>1, MacStep, InputFacts
    <3> QED
      BY <1>4, <1>9, <1>10, <2>1, <3>1, <3>2, ChannelFacts DEF BusInv
  <2>2. CASE ~(aw.done /\ w.done /\ b.done)
    <3>1. ~b.done
      BY <1>9, <2>2
    <3>2. aw'.on => ~aw'.done /\ aw'.val = WriteAddress
      BY <1>1, <1>7, <1>9, AWChannel
    <3>3. w'.on => ~w'.done /\ w'.val = WriteWord
      BY <1>1, <1>7, <1>9, WChannel
    <3>4. b'.on => ~b'.done
      BY <1>1, <1>7, <3>1, BChannel
    <3>5. aw'.done <=> aw.done \/ "awready" \in in
      BY <1>1, <1>7, <1>9, AWChannel, InputFacts
    <3>6. w'.done <=> w.done \/ "wready" \in in
      BY <1>1, <1>7, <1>9, WChannel, InputFacts
    <3>7. b'.done <=> "bvalid" \in in
      BY <1>1, <1>7, <3>1, BChannel, InputFacts
    <3>8. /\ mac'.aw = IF aw'.done /\ ~b'.done THEN WriteAddress ELSE None
          /\ mac'.w = IF w'.done /\ ~b'.done THEN WriteWord ELSE None
      BY <1>1, <1>9, <3>1, <3>5, <3>6, <3>7, MacStep, InputFacts
    <3>9. b'.done => aw'.done /\ w'.done
      BY <1>11, <3>5, <3>6, <3>7
    <3> QED
      BY <1>4, <1>6, <1>10, <2>2, <3>2, <3>3, <3>4, <3>8, <3>9 DEF BusInv
  <2> QED
    BY <2>1, <2>2
<1>14. /\ mac'.op = IF "bvalid" \in in /\ WriteAddress = "MDIO_CONTROL" THEN WriteWord
                    ELSE IF "mdio_done" \in in THEN None ELSE mac.op
       /\ mac'.tx = IF "bvalid" \in in /\ WriteAddress = "MDIO_TX_DATA" THEN WriteWord
                    ELSE mac.tx
       /\ mac'.written = IF "bvalid" \in in THEN mac.written \cup {WriteAddress}
                         ELSE mac.written
  BY <1>1, <1>11, MacStep
<1>15. StepInv'
  <2>1. /\ mdio.access_sm = "SET_DATA" => /\ WriteAddress = "MDIO_TX_DATA"
                                          /\ WriteWord = mdio.wr_data
        /\ mdio.access_sm = "POLL" => /\ WriteAddress = "MDIO_CONTROL"
                                      /\ WriteWord = mdio.wr_data
        /\ mdio.access_sm = "IDLE" => WriteAddress = main.addr
    BY <1>1 DEF FlowInv, StepInv, WriteAddress, WriteWord
  <2>2. mdio.access_sm = "IDLE" => main.addr # "MDIO_CONTROL" /\ main.addr # "MDIO_TX_DATA"
    BY <1>1 DEF FlowInv, SetupInv, TypeOK, MainType, States, Driven
  <2>3. /\ ~Starts' /\ mdio'.access_sm = mdio.access_sm /\ mdio'.wr_data = mdio.wr_data
        /\ axi_access_sm' \in {"WRITE", "DONE"} /\ (Committed' => b.done \/ "bvalid" \in in)
    BY <1>3, <1>4, <1>12 DEF Kept, Starts, Committed
  <2>4. mdio.access_sm = "SET_DATA" /\ Committed' => mac'.tx = main.axi_wr_data
    BY <1>1, <1>14, <2>1, <2>3 DEF FlowInv, StepInv, Committed
  <2>5. mdio.access_sm = "POLL" => mac'.tx = main.axi_wr_data
    BY <1>14, <2>1 DEF FlowInv, StepInv
  <2>6. mac'.op # None => /\ mdio.access_sm = "POLL" /\ Committed'
                          /\ mac'.op = main.mdio_op
    <3>1. CASE "bvalid" \in in
      <4>1. b'.done
        BY <1>1, <1>11, <3>1, BChannel
      <4>2. mdio.access_sm = "POLL" => mac'.op = main.mdio_op
        BY <1>14, <2>1, <3>1 DEF FlowInv, StepInv
      <4>3. mac.op = None
        BY <1>1, <1>11, <3>1 DEF FlowInv, StepInv, Committed
      <4>4. mdio.access_sm # "POLL" => mac'.op = None
        BY <1>1, <1>14, <2>1, <2>2, <4>3
      <4> QED
        BY <2>3, <4>1, <4>2, <4>4 DEF Committed
    <3>2. CASE "bvalid" \notin in
      <4>1. mac'.op # None => mac'.op = mac.op
        BY <1>14, <3>2
      <4>2. mac.op # None => mdio.access_sm = "POLL" /\ b.done /\ mac.op = main.mdio_op
        BY <1>1 DEF FlowInv, StepInv, Committed
      <4>3. b.done => b' = b
        BY <1>1, BChannel
      <4> QED
        BY <2>3, <4>1, <4>2, <4>3 DEF Committed
    <3> QED
      BY <3>1, <3>2
  <2> QED
    BY <1>1, <1>5, <2>3, <2>4, <2>5, <2>6 DEF Kept, FlowInv, StepInv, Starts
<1>16. SetupInv'
  <2>1. ~main.drive_mdio => WriteAddress = main.addr
    BY DEF WriteAddress
  <2> QED
    BY <1>1, <1>4, <1>5, <1>12, <1>14, <2>1
       DEF Kept, FlowInv, StepInv, SetupInv, Starts, Committed, Configured, Driven
<1>17. Progress(in)
  <2>1. mdio.access_sm = "POLL" => WriteAddress = "MDIO_CONTROL"
    BY <1>1 DEF FlowInv, StepInv, WriteAddress
  <2>2. ASSUME main.drive_mdio, Executed' PROVE Executed \/ "mdio_done" \in in
    <3>1. mdio.access_sm = "POLL" /\ Committed' /\ mac'.op = None
      BY <1>1, <1>3, <2>2 DEF Executed
    <3>2. b.done \/ "bvalid" \in in
      BY <1>4, <1>12, <3>1 DEF Committed
    <3>3. "bvalid" \notin in
      BY <1>8, <1>14, <2>1, <3>1
    <3>4. Committed /\ ("mdio_done" \notin in => mac.op = None)
      BY <1>1, <1>14, <3>1, <3>2, <3>3 DEF Committed
    <3> QED
      BY <1>1, <3>1, <3>4 DEF Executed, Starts
  <2>3. main.drive_mdio => ~mdio_ready'
    BY <1>1, <1>5
  <2> QED
    BY <2>2, <2>3 DEF Progress
<1> QED
  BY <1>13, <1>15, <1>16, <1>17 DEF Phase

\* A read is on the bus.
LEMMA ReadGoesOn ==
  ASSUME FlowInv, NEW in \in Inputs, Clock(in), Kept, axi_access_sm = "READ"
  PROVE  Phase(in)
<1>1. /\ TypeOK /\ ~Starts /\ mdio.access_sm \in {"IDLE", "POLL"} /\ mdio_ready \in BOOLEAN
      /\ mdio.access_sm = "POLL" => main.drive_mdio
      /\ main.drive_mdio /\ mdio_ready => r.done
      /\ main.drive_mdio /\ mdio.access_sm = "IDLE" => mdio_ready
  BY DEF FlowInv, TypeOK, StepInv, Starts
<1>2. "awready" \notin in /\ "wready" \notin in /\ "bvalid" \notin in
  BY InputFacts, ChannelFacts DEF FlowInv, BusInv
<1>3. /\ mdio'.access_sm = IF mdio_ready THEN "IDLE" ELSE mdio.access_sm
      /\ mdio'.wr_data = mdio.wr_data
  BY <1>1 DEF Clock, Mdio, MdioMoves, TypeOK
<1>4. axi_access_sm' = IF ar.done /\ r.done THEN "DONE" ELSE "READ"
  BY DEF Clock, Axi, AxiIdle, ReadEnds
<1>5. IF ~r.done /\ "rvalid" \in in
      THEN /\ axi_rd_data' = ReadWord
           /\ mdio_ready' = (mdio_ready \/ (main.drive_mdio /\ mac.op = None))
      ELSE axi_rd_data' = axi_rd_data /\ mdio_ready' = mdio_ready
  BY DEF Clock, ReadData, AccessStarts, ReadyBit
<1>6. /\ ar.on \in BOOLEAN /\ ar.done \in BOOLEAN /\ r.on \in BOOLEAN /\ r.done \in BOOLEAN
  BY <1>1, ChannelFacts DEF TypeOK
<1>7. /\ ar.on => ~ar.done /\ ar.val = main.addr
      /\ r.on => ~r.done
      /\ mac.ar = IF ar.done /\ ~r.done THEN main.addr ELSE None
      /\ r.done => ar.done
      /\ mac.aw = None /\ mac.w = None
  BY DEF FlowInv, BusInv
<1>8. /\ aw' = ChannelIdle /\ w' = ChannelIdle /\ b' = ChannelIdle
      /\ mac'.aw = None /\ mac'.w = None
  BY <1>1, <1>2, <1>7, AWChannel, WChannel, BChannel, MacStep
<1>9. "rvalid" \in in => ar.done /\ r.on /\ ~r.done /\ mac.ar = main.addr
  BY <1>7, InputFacts
<1>10. r'.done <=> r.done \/ "rvalid" \in in
  BY <1>1, <1>6, <1>9, RChannel
<1>11. /\ mac'.op = IF "mdio_done" \in in THEN None ELSE mac.op
       /\ mac'.tx = mac.tx /\ mac'.written = mac.written
  BY <1>1, <1>2, MacStep
<1>12. BusInv'
  <2>1. CASE ar.done /\ r.done
    <3>1. ar' = ar /\ r' = r
      BY <1>1, <2>1, ARChannel, RChannel
    <3>2. mac'.ar = None
      BY <1>1, <1>7, <2>1, MacStep, InputFacts
    <3> QED
      BY <1>4, <1>7, <1>8, <2>1, <3>1, <3>2, ChannelFacts DEF BusInv
  <2>2. CASE ~(ar.done /\ r.done)
    <3>1. ~r.done
      BY <1>7, <2>2
    <3>2. ar'.on => ~ar'.done /\ ar'.val = main.addr
      BY <1>1, <1>6, <1>7, ARChannel
    <3>3. r'.on => ~r'.done
      BY <1>1, <1>6, <3>1, RChannel
    <3>4. ar'.done <=> ar.done \/ "arready" \in in
      BY <1>1, <1>6, <1>7, ARChannel, InputFacts
    <3>5. mac'.ar = IF ar'.done /\ ~r'.done THEN main.addr ELSE None
      BY <1>1, <1>7, <1>10, <3>1, <3>4, MacStep, InputFacts
    <3>6. r'.done => ar'.done
      BY <1>9, <1>10, <3>1, <3>4
    <3> QED
      BY <1>4, <1>8, <2>2, <3>2, <3>3, <3>5, <3>6 DEF Kept, BusInv
  <2> QED
    BY <2>1, <2>2
<1>13. main.drive_mdio /\ mdio_ready' => r'.done /\ (mdio_ready \/ mac.op = None)
  BY <1>1, <1>5, <1>10
<1>14. main.drive_mdio => (mdio'.access_sm = "IDLE" => mdio_ready /\ mdio_ready')
  BY <1>1, <1>3, <1>5
<1>15. mac'.op # None => /\ mac.op # None /\ mac'.op = mac.op /\ mdio.access_sm = "POLL"
                         /\ mac.op = main.mdio_op /\ ~mdio_ready /\ main.drive_mdio
  BY <1>11 DEF FlowInv, StepInv
<1>16. mac'.op # None => ~mdio_ready'
  BY <1>1, <1>13, <1>15
<1>17. StepInv'
  <2>1. ~Starts' /\ axi_access_sm' \in {"READ", "DONE"} /\ Committed'
    BY <1>4 DEF Kept, Starts, Committed
  <2>2. mdio'.access_sm # "IDLE" /\ mdio_ready' => axi_access_sm' = "READ" /\ r'.done
    <3>1. CASE mdio_ready
      BY <1>1, <1>3, <3>1
    <3>2. CASE ~mdio_ready
      BY <1>1, <1>3, <1>4, <1>5, <1>10, <3>2
    <3> QED
      BY <3>1, <3>2
  <2>3. main.drive_mdio /\ mdio'.access_sm = "IDLE" =>
          mdio_ready' /\ axi_access_sm' # "WRITE" /\ (axi_access_sm' = "READ" => r'.done)
    BY <1>4, <1>13, <1>14
  <2>4. mac'.op # None => mdio'.access_sm = "POLL"
    BY <1>3, <1>15
  <2>5. mdio'.access_sm # "IDLE" => /\ mdio'.access_sm = "POLL" /\ mdio'.wr_data = main.mdio_op
                                    /\ mac'.tx = main.axi_wr_data /\ main.drive_mdio
    BY <1>1, <1>3, <1>11 DEF FlowInv, StepInv
  <2> QED
    BY <1>15, <1>16, <2>1, <2>2, <2>3, <2>4, <2>5 DEF Kept, StepInv, Starts
<1>18. SetupInv'
  <2>1. ~main.drive_mdio /\ mdio_ready' => mdio_ready
    BY <1>1, <1>5
  <2> QED
    BY <1>1, <1>4, <1>11, <2>1
       DEF Kept, FlowInv, SetupInv, Starts, Committed, Configured, Driven
<1>19. Progress(in)
  <2>1. ASSUME main.drive_mdio, Executed' PROVE Executed \/ "mdio_done" \in in
    <3>1. "mdio_done" \notin in => mac.op = None
      BY <1>11, <2>1 DEF Executed
    <3> QED
      BY <1>1, <3>1 DEF Executed, Committed, Starts
  <2>2. ASSUME main.drive_mdio, mdio_ready'
        PROVE  \/ mdio_ready /\ ~main.start_mdio /\ axi_rd_data' = axi_rd_data
               \/ /\ mac.op = None
                  /\ main.addr = "MDIO_RX_DATA" => axi_rd_data' = mac.rx
    <3>1. CASE mdio_ready
      BY <1>1, <1>5, <2>2, <3>1 DEF Starts
    <3>2. CASE ~mdio_ready
      BY <1>1, <1>5, <1>9, <2>2, <3>2 DEF ReadWord
    <3> QED
      BY <3>1, <3>2
  <2> QED
    BY <2>1, <2>2 DEF Progress
<1> QED
  BY <1>12, <1>17, <1>18, <1>19 DEF Phase

\* An access has ended.
LEMMA AccessEnds ==
  ASSUME FlowInv, NEW in \in Inputs, Clock(in), Kept, axi_access_sm = "DONE"
  PROVE  Phase(in)
<1>1. /\ TypeOK /\ ~Starts /\ mdio.access_sm \in {"IDLE", "SET_DATA", "POLL"}
      /\ mdio.access_sm # "IDLE" => main.drive_mdio /\ ~mdio_ready
      /\ main.drive_mdio /\ mdio.access_sm = "IDLE" => mdio_ready
      /\ mdio_ready \in BOOLEAN /\ Committed
  BY DEF FlowInv, TypeOK, StepInv, Starts, Committed
<1>2. /\ "awready" \notin in /\ "wready" \notin in /\ "bvalid" \notin in
      /\ "arready" \notin in /\ "rvalid" \notin in
  BY InputFacts DEF FlowInv, BusInv
<1>3. /\ mdio'.access_sm = IF mdio.access_sm = "SET_DATA" THEN "INIT" ELSE mdio.access_sm
      /\ mdio'.wr_data = IF mdio.access_sm = "SET_DATA" THEN main.mdio_op ELSE mdio.wr_data
  BY <1>1 DEF Clock, Mdio, MdioMoves, Starts, TypeOK
<1>4. axi_access_sm' = "IDLE"
  BY DEF Clock, Axi, AxiIdle
<1>5. mdio_ready' = mdio_ready /\ axi_rd_data' = axi_rd_data
  BY DEF Clock, ReadData, AccessStarts
<1>6. /\ ar' = ChannelIdle /\ r' = ChannelIdle /\ aw' = ChannelIdle
      /\ w' = ChannelIdle /\ b' = ChannelIdle
  BY <1>1, ARChannel, RChannel, AWChannel, WChannel, BChannel
<1>7. /\ mac'.op = IF "mdio_done" \in in THEN None ELSE mac.op
      /\ mac'.written = mac.written /\ mac'.tx = mac.tx
      /\ mac'.aw = mac.aw /\ mac'.w = mac.w /\ mac'.ar = mac.ar
  BY <1>1, <1>2, MacStep
<1>8. BusInv'
  BY <1>4, <1>6, <1>7 DEF FlowInv, BusInv
<1>9. StepInv'
  BY <1>1, <1>3, <1>4, <1>5, <1>7 DEF Kept, FlowInv, StepInv, Starts, Committed
<1>10. SetupInv'
  BY <1>1, <1>4, <1>5, <1>7
     DEF Kept, FlowInv, StepInv, SetupInv, Starts, Committed, Configured, Driven
<1>11. Progress(in)
  BY <1>1, <1>3, <1>5, <1>7 DEF Progress, Executed, Starts
<1> QED
  BY <1>8, <1>9, <1>10, <1>11 DEF Phase

-----------------------------------------------------------------------------
(***************************************************************************)
(* The theorems.                                                           *)
(***************************************************************************)

\* The block out of reset.
LEMMA ResetFacts ==
  ASSUME NEW m \in {MacReset(reg) : reg \in {"0", "20"}}
  PROVE  /\ m \in [aw : MacVals, w : MacVals, ar : MacVals, written : SUBSET MacVals,
                   tx : MacVals, op : MacVals, reg : MacVals, ctrl : MacVals, rx : Got]
         /\ m.aw = None /\ m.w = None /\ m.ar = None /\ m.op = None
         /\ m.ctrl = "2040" /\ m.rx.val = "0"
         /\ MainReset \in MainType
<1>1. PICK reg \in {"0", "20"} : m = MacReset(reg)
  OBVIOUS
<1>2. {"0", "20", "2040", None} \subseteq MacVals /\ [reg |-> None, val |-> "0"] \in Got
  BY DEF MacVals, Vals, Words, Got
<1>3. MainReset \in MainType
  BY DEF MainReset, MainType, States, Ops, Addrs, Words
<1> QED
  BY <1>1, <1>2, <1>3 DEF MacReset

\* The invariant holds when the block is configured into the device.
LEMMA FlowInit ==
  Init => FlowInv /\ PinInv
<1> SUFFICES ASSUME Init PROVE FlowInv /\ PinInv
  OBVIOUS
<1>1. /\ main = MainReset /\ mdio.access_sm = "IDLE" /\ axi_access_sm = "IDLE"
      /\ main.axi_state = "STARTUP" /\ ~main.enable_gen /\ ~main.start_access
      /\ ~main.start_mdio /\ ~main.drive_mdio /\ ~main.writenread /\ main.mdio_op = "ADDR"
  BY DEF Init, MainReset
<1>2. TypeOK
  <2>1. {"0", None} \subseteq MacVals /\ "0" \in Vals
    BY DEF MacVals, Vals, Words
  <2>2. axi_rd_data \in Got
    BY <2>1 DEF Init, Got
  <2>3. mdio \in [access_sm : {"IDLE", "SET_DATA", "INIT", "POLL"}, wr_data : Vals]
    BY <2>1 DEF Init
  <2> QED
    BY <1>1, <2>2, <2>3, ResetFacts, ChannelFacts DEF Init, TypeOK
<1>3. BusInv /\ StepInv /\ SetupInv /\ RegInv
  BY <1>1, ResetFacts DEF Init, BusInv, StepInv, Starts, Committed, SetupInv, Driven, RegInv,
      Executed, Zero
<1>4. PinInv
  BY <1>1, ResetFacts DEF Init, PinInv, LoopInv, LinkInv, Early, ResetStates
<1> QED
  BY <1>2, <1>3, <1>4 DEF FlowInv

\* The reset establishes it again, whatever was under way.
LEMMA FlowReset ==
  ASSUME FlowInv, PinInv, Reset
  PROVE  FlowInv' /\ PinInv'
<1>1. /\ main' = MainReset /\ mdio'.access_sm = "IDLE" /\ axi_access_sm' = "IDLE"
      /\ main'.axi_state = "STARTUP" /\ ~main'.enable_gen /\ ~main'.start_access
      /\ ~main'.start_mdio /\ ~main'.drive_mdio /\ ~main'.writenread
      /\ main'.mdio_op = "ADDR"
  BY DEF FlowInv, TypeOK, Reset, MainReset
<1>2. TypeOK'
  <2>1. {"0", None} \subseteq MacVals
    BY DEF MacVals, Vals, Words
  <2>2. axi_rd_data' \in Got
    BY <2>1 DEF FlowInv, TypeOK, Reset, Got
  <2>3. mdio' \in [access_sm : {"IDLE", "SET_DATA", "INIT", "POLL"}, wr_data : Vals]
    BY DEF FlowInv, TypeOK, Reset
  <2>4. mdio_ready' \in BOOLEAN /\ pcs_loopback_reg' \in BOOLEAN /\ strap' = strap
        /\ locked' \in BOOLEAN
    BY DEF FlowInv, TypeOK, Reset
  <2> QED
    BY <1>1, <2>2, <2>3, <2>4, ResetFacts, ChannelFacts DEF FlowInv, Reset, TypeOK
<1>3. BusInv' /\ StepInv' /\ SetupInv' /\ RegInv'
  BY <1>1, ResetFacts DEF Reset, BusInv, StepInv, Starts, Committed, SetupInv, Driven,
      RegInv, Executed, Zero
<1>4. PinInv'
  <2>1. mac'.ctrl = "2040" /\ mac'.rx.val = "0"
    BY ResetFacts DEF Reset
  <2>2. strap' = strap /\ pcs_loopback_reg' \in strap /\ strap \subseteq BOOLEAN
    BY DEF Reset, FlowInv, TypeOK
  <2> QED
    BY <1>1, <2>1, <2>2 DEF PinInv, LoopInv, LinkInv, Early, ResetStates
<1> QED
  BY <1>2, <1>3, <1>4 DEF FlowInv

\* An edge of the clock.
LEMMA FlowClock ==
  ASSUME FlowInv, PinInv, NEW in \in Inputs, Clock(in)
  PROVE  FlowInv' /\ PinInv'
<1>1. CASE MainRuns
  <2>1. Frame /\ BusInv'
    BY <1>1, RunFrame
  <2>2. ~MainStall
    BY <1>1 DEF MainStall
  <2>3. Ran
    BY <1>1, <2>1, <2>2, StartupRuns, ResetMacRxRuns, ResetMacTxRuns, MdioAddr1Runs,
       MdioReadPcsResetRuns, MdioReadPcsResetPollRuns, MdioReadPcsResetReadRuns,
       MdioResetCheckRuns, MdioAddr2Runs, MdioWrRuns, MdioRd1Runs, MdioAddrRuns,
       MdioRdRuns, MdioPollCheckRuns, MdioCheckDataRuns, ConfigDoneRuns
       DEF Clock, Main
  <2>4. TypeOK'
    BY <2>3, TypeStep DEF FlowInv, Ran
  <2> QED
    BY <2>1, <2>3, <2>4 DEF Ran, FlowInv
<1>2. CASE ~MainRuns
  <2>1. Kept
    BY <1>2, StallFields DEF Clock, Main, FlowInv
  <2>2. Phase(in)
    <3>1. axi_access_sm \in {"IDLE", "WRITE", "READ", "DONE"}
      BY DEF FlowInv, TypeOK
    <3>2. axi_access_sm = "IDLE" => Starts \/ mdio.access_sm # "IDLE"
      BY <1>2 DEF MainRuns, Starts
    <3> QED
      BY <2>1, <3>1, <3>2, AccessBegins, CommandGoesOn, WriteGoesOn, ReadGoesOn, AccessEnds
  <2>3. RegInv' /\ PinInv'
    BY <1>2, <2>1, <2>2, StallReg, StallPin DEF Phase
  <2>4. TypeOK'
    BY <2>1, TypeStep DEF FlowInv, Kept
  <2> QED
    BY <2>2, <2>3, <2>4 DEF Phase, FlowInv
<1> QED
  BY <1>1, <1>2

\* The inductive invariant.
THEOREM FlowInvariant == Spec => [](FlowInv /\ PinInv)
<1>1. ASSUME FlowInv, PinInv, [Next]_vars PROVE FlowInv' /\ PinInv'
  <2>1. CASE \E in \in Inputs : Clock(in)
    BY <1>1, <2>1, FlowClock
  <2>2. CASE Reset
    BY <1>1, <2>2, FlowReset
  <2>3. CASE UNCHANGED vars
    <3>1. TypeOK'
      BY <1>1, <2>3 DEF vars, FlowInv, TypeOK
    <3>2. BusInv'
      BY <1>1, <2>3 DEF vars, FlowInv, BusInv, WriteWord, WriteAddress
    <3>3. StepInv' /\ SetupInv'
      BY <1>1, <2>3 DEF vars, FlowInv, StepInv, SetupInv, Starts, Committed, Configured
    <3>4. RegInv'
      BY <1>1, <2>3 DEF vars, FlowInv, RegInv, Executed, Committed, Starts
    <3>5. LoopInv => LoopInv'
      BY <2>3 DEF vars, LoopInv, Executed, Committed, Starts
    <3>6. LinkInv => LinkInv'
      BY <2>3 DEF vars, LinkInv, Executed, Committed, Starts
    <3>7. PinInv'
      BY <1>1, <2>3, <3>5, <3>6 DEF vars, PinInv, Strapped
    <3> QED
      BY <3>1, <3>2, <3>3, <3>4, <3>7 DEF FlowInv
  <2> QED
    BY <1>1, <2>1, <2>2, <2>3 DEF Next
<1> QED
  BY <1>1, FlowInit, PTL DEF Spec

\* The three state machines, the channels and the MAC stay in step, whatever
\* the delays of the MAC and the PCS, the levels of the pin and the resets: no
\* command overruns another, and none is issued with another operand than the
\* one that the main state machine asked for.
THEOREM StaysInStep == Spec => []InStep
<1>1. FlowInv => InStep
  BY DEF FlowInv, StepInv, BusInv, SetupInv, InStep, MainRuns, Configured, Committed
<1> QED
  BY <1>1, FlowInvariant, PTL

\* The simulation check of ethernet_flow_cntrl.v:193-206 holds for every
\* timing: the link status is judged by register 32, the reset by register 0.
THEOREM RightRegister == Spec => []DataFromRightRegister
<1>1. FlowInv => DataFromRightRegister
  BY DEF FlowInv, RegInv, DataFromRightRegister, MainRuns
<1> QED
  BY <1>1, FlowInvariant, PTL

\* Traffic is enabled only while the control register of the PCS has the value
\* for it, if the pin does not change.
THEOREM TrafficConfigured == Spec => []EnabledMeansConfigured
<1>1. FlowInv /\ PinInv => EnabledMeansConfigured
  <2> SUFFICES ASSUME FlowInv, PinInv, Strapped, main.enable_gen
               PROVE  IF pcs_loopback_reg
                      THEN mac.ctrl = "4000"
                      ELSE /\ main.block_lock
                           /\ mac.ctrl = "2000"
                           /\ axi_rd_data = [reg |-> "20", val |-> "1005"]
    BY DEF EnabledMeansConfigured
  <2>1. strap \subseteq BOOLEAN /\ pcs_loopback_reg \in BOOLEAN
    BY DEF FlowInv, TypeOK
  <2>2. CASE TRUE \in strap
    <3>1. LoopInv /\ main.axi_state = "MDIO_RD_1"
      BY <2>2 DEF PinInv, LoopInv
    <3>2. pcs_loopback_reg
      BY <2>1, <2>2, <3>1 DEF PinInv, Strapped
    <3> QED
      BY <3>1, <3>2 DEF LoopInv
  <2>3. CASE TRUE \notin strap
    <3>1. LinkInv /\ main.axi_state = "CONFIG_DONE" /\ ~pcs_loopback_reg
      BY <2>1, <2>3 DEF PinInv, LinkInv
    <3> QED
      BY <3>1 DEF LinkInv, Early
  <2> QED
    BY <2>2, <2>3
<1> QED
  BY <1>1, FlowInvariant, PTL

\* A request on the AXI bus is not changed or withdrawn before the MAC takes
\* it (ethernet_flow_cntrl.v:611-716).
THEOREM RequestsHeld == Spec => AxiStable
<1>1. ASSUME FlowInv, [Next]_vars
      PROVE  [main'.axi_state # "STARTUP" =>
                Held(aw, aw') /\ Held(w, w') /\ Held(ar, ar')]_vars
  <2>1. ASSUME NEW in \in Inputs, Clock(in)
        PROVE  Held(aw, aw') /\ Held(w, w') /\ Held(ar, ar')
    <3>1. /\ TypeOK /\ aw \in ChannelType /\ w \in ChannelType /\ ar \in ChannelType
          /\ axi_access_sm \in {"IDLE", "WRITE", "READ", "DONE"}
      BY <1>1 DEF FlowInv, TypeOK
    <3>2. \A c, n \in ChannelType :
            c.on /\ ~c.done /\ n.on /\ ~n.done /\ n.val = c.val => n = c
      BY DEF ChannelType
    <3>3. aw.on => axi_access_sm = "WRITE" /\ ~aw.done /\ aw.val = WriteAddress
      BY <1>1, <3>1, ChannelFacts DEF FlowInv, BusInv
    <3>4. w.on => axi_access_sm = "WRITE" /\ ~w.done /\ w.val = WriteWord
      BY <1>1, <3>1, ChannelFacts DEF FlowInv, BusInv
    <3>5. ar.on => axi_access_sm = "READ" /\ ~ar.done /\ ar.val = main.addr
      BY <1>1, <3>1, ChannelFacts DEF FlowInv, BusInv
    <3>6. Held(aw, aw')
      BY <2>1, <3>1, <3>2, <3>3, AWChannel DEF Held
    <3>7. Held(w, w')
      BY <2>1, <3>1, <3>2, <3>4, WChannel DEF Held
    <3>8. Held(ar, ar')
      BY <2>1, <3>1, <3>2, <3>5, ARChannel DEF Held
    <3> QED
      BY <3>6, <3>7, <3>8
  <2>2. Reset => main'.axi_state = "STARTUP"
    BY DEF Reset, MainReset
  <2> QED
    BY <1>1, <2>1, <2>2 DEF Next
<1> QED
  BY <1>1, FlowInvariant, PTL DEF Spec, AxiStable
=============================================================================
