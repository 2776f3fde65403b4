------------------------------ MODULE DmaTool ------------------------------
(***************************************************************************)
(* The user space tools dma_to_device and dma_from_device: test_dma, and   *)
(* the loops read_to_buffer and write_from_buffer of dma_utils.c, which    *)
(* cut a transfer into system calls of at most RW_MAX_SIZE bytes.  Bytes   *)
(* are named by the repetition and their place in the buffer.  The driver  *)
(* does not move the file position (char_sgdma_read_write), so every call  *)
(* depends on the seek before it.                                          *)
(***************************************************************************)
EXTENDS Integers

CONSTANTS RW_MAX_SIZE,
          U64,        \* the modulus of uint64_t, 2^64
          MaxSize,    \* bound: bytes of a transfer
          MaxCount,   \* bound: repetitions
          Addrs       \* addresses asked for

EIO == 5

ASSUME SizesAssumption ==
  /\ RW_MAX_SIZE \in Nat \ {0} /\ MaxSize \in Nat /\ MaxCount \in Nat
  /\ U64 \in Nat /\ Addrs \subseteq Nat

\* No count of bytes comes near 2^64.
ASSUME U64Assumption == U64 > MaxSize * MaxCount + 2 * EIO

\* The command line.
Commands ==
  {c \in [tool : {"to_device", "from_device"}, size : 0 .. MaxSize,
          aperture : 0 .. 2, count : 1 .. MaxCount, addr : Addrs,
          output : BOOLEAN, eop_flush : BOOLEAN] :
     c.tool = "to_device" => ~c.eop_flush}

VARIABLES
  cmd,        \* the options
  step,       \* where test_dma is
  i,          \* the repetition
  from,       \* where in the buffer the piece in progress begins
  moving,     \* count in read_to_buffer or write_from_buffer
  f_pos,      \* file position of the device
  rc,
  bytes_done,
  underflow,
  out_offset,
  moved,      \* transfers to or from the device: repetition, byte, address
  saved,      \* bytes of the output file: offset, repetition, byte
  exit,       \* exit status, in a set
  lapses      \* history: what went wrong that the tool takes for success

tool == <<cmd, step, i, from, moving, f_pos, rc, bytes_done, underflow,
          out_offset, moved, saved, exit, lapses>>

ToolInit ==
  /\ cmd \in Commands
  /\ step = "start"
  /\ i = 0 /\ from = 0 /\ moving = 0 /\ f_pos = 0
  /\ rc = 0 /\ bytes_done = 0 /\ underflow = FALSE /\ out_offset = 0
  /\ moved = {} /\ saved = {} /\ exit = {} /\ lapses = {}

Lesser(a, b) == IF a < b THEN a ELSE b

\* The size of the piece in progress: everything, or an aperture's share.
Piece == IF cmd.aperture = 0 THEN cmd.size
         ELSE Lesser(cmd.aperture, cmd.size - from)

\* A value of rc kept in a uint64_t.
AsU64(v) == v % U64

-----------------------------------------------------------------------------
\* What the two tools return: dma_from_device the last rc.
Exits(v) ==
  IF cmd.tool = "from_device" THEN v
  ELSE IF v < 0 THEN v ELSE IF underflow THEN -EIO ELSE 0

\* goto out.
Leave(v) == step' = "gone" /\ exit' = {Exits(v)}

Lapse(what, happens) == IF happens THEN {what} ELSE {}

\* dma_to_device reads its input file (abstracted to the outcome of
\* read_to_buffer on it) and leaves when that is too short, without an error.
InputOutcomes ==
  IF cmd.tool = "from_device" THEN {cmd.size} ELSE {-EIO} \cup 0 .. cmd.size

ReadInput ==
  /\ step = "start"
  /\ \E v \in InputOutcomes :
       /\ IF v < cmd.size THEN Leave(v) ELSE step' = "move" /\ UNCHANGED exit
       /\ lapses' = lapses \cup Lapse("short input", v \in 0 .. cmd.size - 1)
  /\ UNCHANGED <<cmd, i, from, moving, f_pos, rc, bytes_done, underflow,
                 out_offset, moved, saved>>

\* One turn of the loop: seek unless the offset is 0, then the system call.
\* It moves n bytes, or fails.  Without a seek it goes on where the last one
\* was.  Mutant: a later chunk is put at the base.
SeekBase(offset) == IF cmd.addr # 0 THEN cmd.addr ELSE f_pos
Seek(offset) == IF offset # 0 THEN offset ELSE f_pos

Bytes == Lesser(Piece - moving, RW_MAX_SIZE)

Outcomes == {-EIO} \cup 0 .. Bytes

Chunk ==
  /\ step = "move"
  /\ moving < Piece
  /\ f_pos' = Seek(cmd.addr + moving)
  /\ \E n \in Outcomes :
       /\ IF n < 0
          THEN /\ rc' = n /\ step' = "returned"
               /\ UNCHANGED <<moving, moved>>
          ELSE /\ moved' = moved \cup
                    {<<i, from + moving + x, f_pos' + x>> : x \in 0 .. n - 1}
               /\ moving' = moving + n
               /\ IF n < Bytes THEN step' = "returned" /\ rc' = moving'
                  ELSE UNCHANGED <<step, rc>>
       /\ lapses' = lapses \cup Lapse("rewind", cmd.addr + moving = 0 /\ f_pos # 0)
                           \cup Lapse("aperture error", n < 0 /\ cmd.aperture # 0)
  /\ UNCHANGED <<cmd, i, from, bytes_done, underflow, out_offset, saved, exit>>

ChunksDone ==
  /\ step = "move"
  /\ moving = Piece
  /\ rc' = moving
  /\ step' = "returned"
  /\ UNCHANGED <<cmd, i, from, moving, f_pos, bytes_done, underflow,
                 out_offset, moved, saved, exit, lapses>>

\* test_dma without an aperture.
MovedWhole ==
  /\ step = "returned" /\ cmd.aperture = 0
  /\ IF rc < 0 THEN Leave(rc) /\ UNCHANGED <<bytes_done, underflow>>
     ELSE /\ bytes_done' = rc
          /\ underflow' = (underflow \/ rc < cmd.size)
          /\ step' = "save" /\ UNCHANGED exit
  /\ UNCHANGED <<cmd, i, from, moving, f_pos, rc, out_offset, moved, saved,
                 lapses>>

\* test_dma, one aperture: the rc that takes the result is a uint64_t
\* declared in the loop, so the test for an error never holds.  At the end
\* the rc of the function is the 0 of clock_gettime.
MovedAperture ==
  /\ step = "returned" /\ cmd.aperture # 0
  /\ bytes_done' = AsU64((IF from = 0 THEN 0 ELSE bytes_done) + AsU64(rc))
  /\ underflow' = (underflow \/ AsU64(rc) < Piece)
  /\ IF from + cmd.aperture < cmd.size
     THEN step' = "move" /\ from' = from + cmd.aperture
     ELSE step' = "save" /\ UNCHANGED from
  /\ moving' = 0
  /\ rc' = 0
  /\ UNCHANGED <<cmd, i, f_pos, out_offset, moved, saved, exit, lapses>>

\* The output file: write_from_buffer (abstracted to its outcome; a length
\* beyond the buffer fails or falls short), then the next repetition or the end.
SaveOutcomes ==
  IF ~cmd.output THEN {0} ELSE {-EIO} \cup 0 .. Lesser(bytes_done, cmd.size)

NextRound ==
  IF i + 1 < cmd.count
  THEN /\ i' = i + 1 /\ step' = "move"
       /\ UNCHANGED exit
  ELSE /\ step' = "gone" /\ UNCHANGED i
       /\ exit' = {IF underflow /\ ~cmd.eop_flush THEN -EIO ELSE 0}

Save ==
  /\ step = "save"
  /\ \E n \in SaveOutcomes :
       /\ saved' = saved \cup {<<out_offset + x, i, x>> : x \in 0 .. n - 1}
       /\ out_offset' = IF cmd.output THEN out_offset + bytes_done ELSE out_offset
       /\ rc' = n
       /\ IF cmd.output /\ (n < 0 \/ n < bytes_done)
          THEN Leave(n) /\ UNCHANGED i ELSE NextRound
       /\ lapses' = lapses \cup
            Lapse("short output", cmd.output /\ n \in 0 .. bytes_done - 1)
  /\ from' = 0 /\ moving' = 0
  /\ UNCHANGED <<cmd, f_pos, bytes_done, underflow, moved>>

ToolStep == ReadInput \/ Chunk \/ ChunksDone \/ MovedWhole \/ MovedAperture \/ Save

-----------------------------------------------------------------------------
\* Where byte k belongs: the pieces of all apertures share one window.
Place(k) == cmd.addr + (IF cmd.aperture = 0 THEN k ELSE k % cmd.aperture)

Everything == {<<r, k, Place(k)>> : r \in 0 .. cmd.count - 1, k \in 0 .. cmd.size - 1}

\* "0: all bytes were dma'ed successfully" (dma_to_device.c:98,
\* dma_from_device.c:100): unless one of four lapses occurred, for each of which
\* the code breaks this promise, exit status 0 means that every byte of every
\* repetition was moved, to or from its own address, and is in the output file
\* at its own place.  With -e a packet may be short, and the file holds just
\* what was moved.  The lapses are a failed call in an aperture loop
\* (dma_to_device.c:255), an input or output file that takes or gives too little
\* (dma_to_device.c:238, 288), and a first chunk that is not put back to address
\* 0 (dma_utils.c:110).
ExitZeroMeansAll ==
  0 \in exit /\ lapses = {} =>
    /\ ~cmd.eop_flush => moved = Everything
    /\ cmd.output /\ ~cmd.eop_flush =>
         saved = {<<r * cmd.size + k, r, k>> : r \in 0 .. cmd.count - 1,
                                              k \in 0 .. cmd.size - 1}
    /\ cmd.output /\ cmd.aperture = 0 =>
         {<<s[2], s[3]>> : s \in saved} = {<<m[1], m[2]>> : m \in moved}
=============================================================================
