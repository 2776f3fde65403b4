------------------------------ MODULE XvcShift ------------------------------
(***************************************************************************)
(* The Xilinx virtual cable device: xvc_ioctl and xvc_shift_bits of        *)
(* cdev_xvc.c.  A caller shifts a vector of bits through the JTAG chain,   *)
(* in words whose length is kept in a register of the debug bridge         *)
(* (external) from one call to the next.  A bit is named by its place in   *)
(* the caller's vector; 0 is a bit that belongs to no place of it.         *)
(***************************************************************************)
EXTENDS Naturals, Sequences

CONSTANTS Callers, NoCaller,
          WORD, BYTE,    \* bits of a register, of a byte: 32, 8
          MaxBits        \* bound: length of a vector

ASSUME WidthsAssumption == WORD \in Nat \ {0} /\ BYTE \in 1 .. WORD
                           /\ WORD % BYTE = 0 /\ NoCaller \notin Callers

VARIABLES
  call,       \* where each caller is
  total_bits, \* xvc_obj.length
  opcode,     \* 1: shift, 2: test the access, TDI comes back
  bits,       \* bits of the vector already shifted
  tdo,        \* what the caller's TDO buffer holds
  holder,     \* who holds xcdev->lock
  length_reg, \* XVC_BAR_LENGTH_REG
  tdi_reg,    \* XVC_BAR_TDI_REG and TMS_REG: the bits in the word
  tdo_reg,    \* XVC_BAR_TDO_REG
  shifting,   \* bit 0 of XVC_BAR_CTRL_REG
  chain,      \* what went through the chain: who, which bit
  late        \* a shift was given up before it ended

xvc == <<call, total_bits, opcode, bits, tdo, holder, length_reg, tdi_reg,
         tdo_reg, shifting, chain, late>>

XvcInit ==
  /\ call = [c \in Callers |-> "idle"]
  /\ total_bits = [c \in Callers |-> 0]
  /\ opcode = [c \in Callers |-> 1]
  /\ bits = [c \in Callers |-> 0]
  /\ tdo = [c \in Callers |-> {}]
  /\ holder = NoCaller
  /\ length_reg = 0
  /\ tdi_reg = <<NoCaller, {}, 0>>
  /\ tdo_reg = {}
  /\ shifting = FALSE
  /\ chain = <<>>
  /\ late = FALSE

-----------------------------------------------------------------------------
\* The ioctl with its buffers copied in; other outcomes change nothing.
XvcIoctl(c) ==
  /\ call[c] = "idle"
  /\ \E n \in 0 .. MaxBits, op \in {1, 2} :
       /\ total_bits' = [total_bits EXCEPT ![c] = n]
       /\ opcode' = [opcode EXCEPT ![c] = op]
  /\ call' = [call EXCEPT ![c] = "lock"]
  /\ UNCHANGED <<bits, tdo, holder, length_reg, tdi_reg, tdo_reg, shifting,
                 chain, late>>

\* spin_lock, and "set length register to 32 initially".
\* Mutant: the register is taken as the last call left it.
InitialLengthKept(n) == IF length_reg = 0 THEN WORD ELSE length_reg
InitialLength(n) == IF n >= WORD THEN WORD ELSE length_reg

Lock(c) ==
  /\ call[c] = "lock"
  /\ holder = NoCaller
  /\ holder' = c
  /\ length_reg' = InitialLength(total_bits[c])
  /\ call' = [call EXCEPT ![c] = "word"]
  /\ UNCHANGED <<total_bits, opcode, bits, tdo, tdi_reg, tdo_reg, shifting,
                 chain, late>>

\* The bytes that memcpy moves for the word at hand.
ShiftBytes(left) == IF left < WORD THEN (left + BYTE - 1) \div BYTE ELSE WORD \div BYTE

\* One word: length, TMS, TDI, then the control bit.
Word(c) ==
  LET left == total_bits[c] - bits[c] IN
  /\ call[c] = "word"
  /\ bits[c] < total_bits[c]
  /\ length_reg' = IF left < WORD THEN left ELSE length_reg
  /\ tdi_reg' = <<c, (bits[c] + 1) .. (bits[c] + ShiftBytes(left) * BYTE), bits[c]>>
  /\ shifting' = TRUE
  /\ call' = [call EXCEPT ![c] = "poll"]
  /\ UNCHANGED <<total_bits, opcode, bits, tdo, holder, tdo_reg, chain, late>>

\* The shift, which takes its time (external): length_reg bits of the word.
Shift ==
  /\ shifting
  /\ shifting' = FALSE
  /\ LET bit(x) == IF tdi_reg[3] + x \in tdi_reg[2] THEN tdi_reg[3] + x ELSE 0
     IN chain' = chain \o [x \in 1 .. length_reg |-> <<tdi_reg[1], bit(x)>>]
  /\ tdo_reg' = (tdi_reg[3] + 1) .. (tdi_reg[3] + length_reg)
  /\ UNCHANGED <<call, total_bits, opcode, bits, tdo, holder, length_reg,
                 tdi_reg, late>>

\* The shift is over: read TDO, copy it out, next word.
Poll(c) ==
  /\ call[c] = "poll"
  /\ ~shifting
  /\ tdo' = [tdo EXCEPT ![c] = @ \cup tdo_reg]
  /\ bits' = [bits EXCEPT ![c] = @ + WORD]
  /\ call' = [call EXCEPT ![c] = "word"]
  /\ UNCHANGED <<total_bits, opcode, holder, length_reg, tdi_reg, tdo_reg,
                 shifting, chain, late>>

\* COMPLETION_LOOP_MAX polls were not enough: -ETIMEDOUT.
TimedOut(c) ==
  /\ call[c] = "poll"
  /\ shifting
  /\ late' = TRUE
  /\ holder' = NoCaller
  /\ call' = [call EXCEPT ![c] = "failed"]
  /\ UNCHANGED <<total_bits, opcode, bits, tdo, length_reg, tdi_reg, tdo_reg,
                 shifting, chain>>

\* Every word is done: with opcode 2 the TDI buffer is the one returned.
Unlock(c) ==
  /\ call[c] = "word"
  /\ bits[c] >= total_bits[c]
  /\ tdo' = IF opcode[c] = 2 THEN [tdo EXCEPT ![c] = 1 .. total_bits[c]] ELSE tdo
  /\ holder' = NoCaller
  /\ call' = [call EXCEPT ![c] = "ok"]
  /\ UNCHANGED <<total_bits, opcode, bits, length_reg, tdi_reg, tdo_reg,
                 shifting, chain, late>>

XvcStep ==
  \/ Shift
  \/ \E c \in Callers : XvcIoctl(c) \/ Lock(c) \/ Word(c) \/ Poll(c)
                        \/ TimedOut(c) \/ Unlock(c)

-----------------------------------------------------------------------------
\* A call that returns 0 has clocked exactly its own bits through the chain,
\* each once, in order and with nobody else's between, and returns the bit
\* that came out for each: although the length register is only written when
\* it has to change and keeps what the last call left.  A call after one that
\* timed out is exempt: the bridge may still be shifting.
ShiftIsExact ==
  \A c \in Callers : call[c] = "ok" /\ ~late =>
    /\ tdo[c] = 1 .. total_bits[c]
    /\ \E k \in 0 .. Len(chain) :
         /\ k + total_bits[c] <= Len(chain)
         /\ \A x \in 1 .. Len(chain) :
              IF x \in (k + 1) .. (k + total_bits[c]) THEN chain[x] = <<c, x - k>>
              ELSE chain[x][1] # c
=============================================================================
