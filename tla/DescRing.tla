------------------------------ MODULE DescRing ------------------------------
(***************************************************************************)
(* The descriptor memory of one SG DMA engine (libxdma.c): Ring descriptors *)
(* in coherent memory, from which transfer_init takes a run of adjacent     *)
(* ones for every transfer, never across the end of the memory.            *)
(***************************************************************************)
EXTENDS Integers

CONSTANTS Ring,   \* XDMA_TRANSFER_MAX_DESC
          Block   \* XDMA_MAX_ADJ_BLOCK_SIZE, which divides a page

ASSUME RingAssumption == Ring \in Nat \ {0}
ASSUME BlockAssumption == Block \in Nat \ {0}

Smaller(a, b) == IF a < b THEN a ELSE b

\* desc_max in transfer_init(): how many of the left descriptors of a request
\* one transfer takes when the next free descriptor is idx.
Chunk(idx, left) ==
  LET desc_max == Smaller(left, Ring)
  IN  IF idx + desc_max >= Ring THEN Ring - idx ELSE desc_max

\* engine->desc_idx after transfer_init().
NextIdx(idx, left) == (idx + Chunk(idx, left)) % Ring

\* Mutant: the block the next descriptor starts in is not considered.
NextAdjUnaligned(remaining, next) ==
  IF remaining <= 1 THEN 0 ELSE Smaller(Block - 1, remaining - 1)

\* xdma_get_next_adj(): how many descriptors the engine may fetch together
\* with the next one, at index next, of the remaining ones.
NextAdj(remaining, next) ==
  IF remaining <= 1
  THEN 0
  ELSE Smaller(Block - (next % Block) - 1, remaining - 1)

\* The i-th descriptor (from 0) of a transfer of num descriptors at first, as
\* transfer_desc_init, transfer_build, xdma_desc_control_set and
\* xdma_desc_adjacent leave it; data names what it moves.
Descriptor(first, num, i, data) ==
  [data |-> data,
   next |-> IF i = num - 1 THEN -1 ELSE first + i + 1,
   stop |-> i = num - 1,
   adj  |-> NextAdj(num - i - 1, IF i = num - 1 THEN 0 ELSE first + i + 1)]

\* A descriptor that xdma_desc_done() has zeroed.
Zeroed == [data |-> <<>>, next |-> -1, stop |-> FALSE, adj |-> 0]
=============================================================================
