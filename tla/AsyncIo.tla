------------------------------- MODULE AsyncIo -------------------------------
(***************************************************************************)
(* Asynchronous reads and writes of an SG DMA device: cdev_aio_write and   *)
(* cdev_aio_read (cdev_sgdma.c) cut a call into one request per segment of *)
(* its iovec, xdma_xfer_submit_nowait (libxdma.c) cuts a request into      *)
(* transfers that fit into the descriptor ring, the engine settles them    *)
(* one by one, and async_io_handler puts the call together again.          *)
(*                                                                         *)
(* The engine is TransferContract.  A transfer is <<c, s, k>>: the k-th of *)
(* segment s of call c.  The handler runs in the engine's bottom half,     *)
(* under the engine lock; the call itself holds that lock only in          *)
(* transfer_init and in transfer_queue.                                    *)
(***************************************************************************)
EXTENDS DescRing, Sequences, FiniteSets, SequencesExt

CONSTANTS Calls,    \* one kiocb each
          Brings,   \* the shapes each call may have: for each segment the DMA
                    \* lengths of its scatterlist
          BlenMax,  \* desc_blen_max
          Faults    \* which steps may fail

MaxSegs == 2

Shapes == UNION {Brings[c] : c \in Calls}

SumSeq(s) ==
  LET sum[i \in 0 .. Len(s)] == IF i = 0 THEN 0 ELSE sum[i - 1] + s[i]
  IN  sum[Len(s)]

\* The descriptors one scatterlist entry needs: the inner loop of
\* xdma_init_request.
Pieces[len \in Nat] ==
  IF len = 0 THEN <<>>
  ELSE IF len > BlenMax THEN <<BlenMax>> \o Pieces[len - BlenMax]
  ELSE <<len>>

\* req->sdesc: the pieces of all entries.
SoftDescs(lens) == FlattenSeq([i \in DOMAIN lens |-> Pieces[lens[i]]])

\* The descriptors xdma_init_request allocates for: one per entry, and more
\* for each entry that is too long.
Allocated(lens) ==
  Len(lens) + SumSeq([i \in DOMAIN lens |->
                        IF lens[i] > BlenMax
                        THEN (lens[i] + BlenMax - 1) \div BlenMax ELSE 0])

ASSUME ShapeAssumption ==
  /\ BlenMax \in Nat \ {0}
  /\ \A sh \in Shapes :
       /\ sh \in Seq(Seq(Nat)) /\ Len(sh) \in 1 .. MaxSegs
       /\ \A s \in DOMAIN sh : Len(SoftDescs(sh[s])) \in 0 .. Ring
ASSUME FaultsAssumption ==
  Faults \subseteq {"align first", "align later", "pin", "refuse",
                    "queue first", "queue later", "first descriptor"}

Xfers == Calls \X (1 .. MaxSegs) \X (1 .. 2)

VARIABLES
  pc,         \* where each call is
  shape,      \* its segments
  seg,        \* the segment it works on
  nents,      \* descriptors of that segment's request still to be queued
  tfer,       \* req->tfer[] of each segment: place, size, last_in_request
  caio,       \* the call's struct cdev_async_io: allocated, cmpl_cnt, res
  held,       \* what the call has allocated, pinned and mapped
  result,     \* history: the results ki_complete() was called with
  astray,     \* history: calls whose handler ran on a caio that was freed
  misfreed,   \* history: calls for which kfree() was given a pointer into the
              \* array of control blocks that is not its start
  dropped,    \* history: what was freed while a transfer of the call needed it
  desc,       \* the descriptor memory
  desc_idx,   \* engine->desc_idx
  desc_used,  \* engine->desc_used
  overfull,   \* history: more descriptors were taken than the ring has
  crossed,    \* history: a call took descriptors while another call's request
              \* was being cut into transfers
  stalled,    \* the engine stopped at the first descriptor of its oldest
              \* transfer, with an error
  list, state, finished

misuse   == <<astray, misfreed, dropped>>
calls    == <<pc, shape, seg, nents, caio, held, result, misuse>>
ring     == <<tfer, desc, desc_idx, desc_used, overfull, crossed>>
contract == <<list, state, finished, stalled>>
vars     == <<pc, shape, seg, nents, tfer, caio, held, result, misuse, desc,
              desc_idx, desc_used, overfull, crossed, list, state, finished,
              stalled>>

Engine == INSTANCE TransferContract

NoCaio == [live |-> FALSE, cmpl |-> 0, res |-> 0]

\* Mutant: the count starts one too high.
NewCaioOne == [live |-> TRUE, cmpl |-> 1, res |-> 0]
NewCaio == [live |-> TRUE, cmpl |-> 0, res |-> 0]

Init ==
  /\ pc = [c \in Calls |-> "idle"]
  /\ shape = [c \in Calls |-> <<>>]
  /\ seg = [c \in Calls |-> 1]
  /\ nents = [c \in Calls |-> 0]
  /\ tfer = [c \in Calls |-> [s \in 1 .. MaxSegs |-> <<>>]]
  /\ caio = [c \in Calls |-> NoCaio]
  /\ held = [c \in Calls |-> {}]
  /\ result = [c \in Calls |-> <<>>]
  /\ astray = {}
  /\ misfreed = {}
  /\ dropped = [c \in Calls |-> {}]
  /\ desc = [i \in 0 .. Ring - 1 |-> Zeroed]
  /\ desc_idx = 0
  /\ desc_used = 0
  /\ overfull = FALSE
  /\ crossed = FALSE
  /\ stalled = FALSE
  /\ Engine!ContractInit

-----------------------------------------------------------------------------
\* The beginning of cdev_aio_write and cdev_aio_read: the call's structures.
AioCall(c) ==
  /\ pc[c] = "idle"
  /\ \E sh \in Brings[c] : shape' = [shape EXCEPT ![c] = sh]
  /\ caio' = [caio EXCEPT ![c] = NewCaio]
  /\ held' = [held EXCEPT ![c] = {<<"caio", 0>>, <<"cb", 0>>}]
  /\ pc' = [pc EXCEPT ![c] = "segment"]
  /\ UNCHANGED <<seg, nents, result, misuse, ring, contract>>

\* The loop over the segments goes on, or the call returns -EIOCBQUEUED.
NextSegment(c) ==
  IF seg[c] < Len(shape[c])
  THEN /\ seg' = [seg EXCEPT ![c] = @ + 1]
       /\ pc' = [pc EXCEPT ![c] = "segment"]
  ELSE /\ pc' = [pc EXCEPT ![c] = "queued"]
       /\ UNCHANGED seg

\* check_transfer_align(): whether the buffer and the position of the segment
\* suit the engine is left open.
MayMisalign(c) == (IF seg[c] = 1 THEN "align first" ELSE "align later") \in Faults

\* A transfer of segment s of call c is queued.
InFlight(c, s) == \E k \in 1 .. 2 : state[<<c, s, k>>] = "SUBMITTED"

\* It fails: the caio is freed, whatever is in flight.
AlignFails(c) ==
  /\ pc[c] = "segment"
  /\ MayMisalign(c)
  /\ caio' = [caio EXCEPT ![c].live = FALSE]
  /\ held' = [held EXCEPT ![c] = @ \ {<<"caio", 0>>}]
  /\ dropped' = [dropped EXCEPT ![c] =
                    @ \cup (IF \E s \in 1 .. MaxSegs : InFlight(c, s)
                            THEN {<<"caio", 0>>} ELSE {})]
  /\ pc' = [pc EXCEPT ![c] = "error"]
  /\ UNCHANGED <<shape, seg, nents, result, astray, misfreed, ring, contract>>

\* char_sgdma_map_user_buf_to_sgl() fails and has undone its own part.
PinFails(c) ==
  /\ pc[c] = "segment"
  /\ "pin" \in Faults
  /\ pc' = [pc EXCEPT ![c] = "error"]
  /\ UNCHANGED <<shape, seg, nents, caio, held, result, misuse, ring, contract>>

\* char_sgdma_map_user_buf_to_sgl() pins the pages of the segment.
PinPages(c) ==
  /\ pc[c] = "segment"
  /\ held' = [held EXCEPT ![c] = @ \cup {<<"pages", seg[c]>>}]
  /\ pc' = [pc EXCEPT ![c] = "submit"]
  /\ UNCHANGED <<shape, seg, nents, caio, result, misuse, ring, contract>>

\* xdma_xfer_submit_nowait() gives up before a transfer is built: the device
\* is offline, pci_map_sg or xdma_request_alloc fails.  The caller of
\* cdev_aio_write never learns of it: rv is overwritten.
SubmitFails(c) ==
  /\ pc[c] = "submit"
  /\ "refuse" \in Faults
  /\ NextSegment(c)
  /\ UNCHANGED <<shape, nents, caio, held, result, misuse, ring, contract>>

Mapped(s) == {<<"sg", s>>, <<"req", s>>}

\* pci_map_sg() and xdma_init_request().  A request without data has no
\* transfers and is never completed.
InitRequest(c) ==
  /\ pc[c] = "submit"
  /\ held' = [held EXCEPT ![c] = @ \cup Mapped(seg[c])]
  /\ nents' = [nents EXCEPT ![c] = Len(SoftDescs(shape[c][seg[c]]))]
  /\ IF nents'[c] = 0
     THEN NextSegment(c)
     ELSE pc' = [pc EXCEPT ![c] = "init"] /\ UNCHANGED seg
  /\ UNCHANGED <<shape, caio, result, misuse, ring, contract>>

\* The transfer that a call is building.
Building(c) == <<c, seg[c], Len(tfer[c][seg[c]]) + 1>>
Built(c)    == <<c, seg[c], Len(tfer[c][seg[c]])>>

\* What descriptor i (from 0) of transfer x moves: the soft descriptors of
\* the segment that x's predecessors have left.
DataOf(x, i, before) == <<x[1], x[2], before + i + 1>>

\* req->sw_desc_idx when transfer x is built.
Before(x) == IF x[3] = 1 THEN 0 ELSE tfer[x[1]][x[2]][1].num

\* Call c has taken descriptors for its request and wants more, or has not
\* queued the transfer it took them for.
Cutting(c) == pc[c] = "queue" \/ (pc[c] = "init" /\ tfer[c][seg[c]] # <<>>)

\* transfer_init(), under the engine lock.
TransferInit(c) ==
  LET x     == Building(c)
      first == desc_idx
      num   == Chunk(desc_idx, nents[c])
      slots == first .. first + num - 1
      sw    == Len(SoftDescs(shape[c][seg[c]])) - nents[c]
  IN  /\ pc[c] = "init"
      /\ x[3] <= 2
      /\ tfer' = [tfer EXCEPT ![c][seg[c]] =
                    Append(@, [first |-> first, num |-> num,
                               last |-> nents[c] = num])]
      /\ desc' = [i \in DOMAIN desc |->
                    IF i \in slots
                    THEN Descriptor(first, num, i - first,
                                    DataOf(x, i - first, sw))
                    ELSE desc[i]]
      /\ desc_idx' = NextIdx(desc_idx, nents[c])
      /\ desc_used' = desc_used + num
      /\ nents' = [nents EXCEPT ![c] = @ - num]
      /\ Engine!Renew(x) /\ UNCHANGED stalled
      /\ pc' = [pc EXCEPT ![c] = "queue"]
      /\ overfull' = (overfull \/ desc_used + num > Ring)
      /\ crossed' = (crossed \/ \E d \in Calls \ {c} : Cutting(d))
      /\ UNCHANGED <<shape, seg, caio, held, result, misuse>>

\* transfer_init() is given a third transfer, beyond the end of req->tfer[]:
\* what follows is undefined, and the call is not followed any further.
TferOverrun(c) ==
  /\ pc[c] = "init"
  /\ Building(c)[3] > 2
  /\ pc' = [pc EXCEPT ![c] = "overrun"]
  /\ UNCHANGED <<shape, seg, nents, caio, held, result, misuse, ring, contract>>

\* transfer_queue() accepts the transfer, and starts an engine that is not
\* running with the oldest one.
TransferQueue(c) ==
  /\ pc[c] = "queue"
  /\ Engine!Submit(Built(c))
  /\ stalled' = FALSE
  /\ IF nents[c] = 0
     THEN NextSegment(c)
     ELSE pc' = [pc EXCEPT ![c] = "init"] /\ UNCHANGED seg
  /\ UNCHANGED <<shape, nents, caio, held, result, misuse, ring>>

\* transfer_queue() refuses it: the request is unmapped and freed, whether or
\* not its first transfer is queued, with the descriptors still counted as used.
QueueFails(c) ==
  /\ pc[c] = "queue"
  /\ (IF Built(c)[3] = 1 THEN "queue first" ELSE "queue later") \in Faults
  /\ held' = [held EXCEPT ![c] = @ \ Mapped(seg[c])]
  /\ dropped' = [dropped EXCEPT ![c] =
                    @ \cup (IF InFlight(c, seg[c]) THEN Mapped(seg[c]) ELSE {})]
  /\ NextSegment(c)
  /\ UNCHANGED <<shape, nents, caio, result, astray, misfreed, ring, contract>>

-----------------------------------------------------------------------------
\* The number of a request's transfers that xdma_xfer_completion() takes back:
\* it stops after the first that did not complete.
TakenBack(ts, verdict) ==
  LET bad == {k \in DOMAIN ts : verdict[k] # "COMPLETED"}
  IN  IF bad = {} THEN Len(ts) ELSE CHOOSE k \in bad : \A j \in bad : k <= j

\* Mutant: the whole request is credited.
DoneBytesAll(c, s, verdict) == SumSeq(SoftDescs(shape[c][s]))

\* done in xdma_xfer_completion(): the lengths of the completed transfers.
DoneBytes(c, s, verdict) ==
  LET ts == tfer[c][s]
      n  == SumSeq([k \in DOMAIN ts |->
                      IF \A j \in 1 .. k : verdict[j] = "COMPLETED"
                      THEN ts[k].num ELSE 0])
  IN  SumSeq(SubSeq(SoftDescs(shape[c][s]), 1, n))

\* desc_used -= desc_num, for every transfer taken back.
Returned(ts, n) == SumSeq([k \in 1 .. n |-> ts[k].num])

\* kfree(cb) is given the control block of the segment that came last; only
\* the first one is the start of the array and frees it.  Any other pointer is
\* an invalid free (misfreed): the array stays, and what the allocator does
\* from then on is undefined and not followed.
FreedByLast(s) == {<<"caio", 0>>} \cup (IF s = 1 THEN {<<"cb", 0>>} ELSE {})

\* char_sgdma_unmap_user_buf() and the end of xdma_xfer_completion().
\* Mutant: the pages stay pinned.
FreedBySegmentNotPages(s) == {<<"sg", s>>, <<"req", s>>}
FreedBySegment(s) == {<<"pages", s>>, <<"sg", s>>, <<"req", s>>}

\* async_io_handler() for segment s of call c, whose transfers have the given
\* verdicts: xdma_xfer_completion, then the call's counters, and at the last
\* segment ki_complete and the release of the call.  err is always 0.
AsyncIoHandler(c, s, verdict) ==
  LET ts   == tfer[c][s]
      n    == TakenBack(ts, verdict)
      gone == UNION {ts[k].first .. ts[k].first + ts[k].num - 1 : k \in 1 .. n}
      res  == caio[c].res + DoneBytes(c, s, verdict)
      cmpl == caio[c].cmpl + 1
      over == cmpl = Len(shape[c])
  IN  /\ desc' = [i \in DOMAIN desc |-> IF i \in gone THEN Zeroed ELSE desc[i]]
      /\ desc_used' = desc_used - Returned(ts, n)
      /\ caio' = [caio EXCEPT ![c] = [live |-> ~over, cmpl |-> cmpl, res |-> res]]
      /\ held' = [held EXCEPT ![c] = (@ \ FreedBySegment(s))
                                     \ (IF over THEN FreedByLast(s) ELSE {})]
      /\ result' = IF over THEN [result EXCEPT ![c] = Append(@, res)] ELSE result
      /\ misfreed' = IF over /\ s # 1 THEN misfreed \cup {c} ELSE misfreed
      /\ UNCHANGED <<astray, dropped>>

\* engine_transfer_completion(): the bottom half settles the oldest transfer
\* and runs the handler after the last one of a request.  On a caio that was
\* freed the handler is undefined, and the call is not followed any further.
EngineCompletes ==
  \E v \in {"COMPLETED", "FAILED"} :
    /\ ~stalled
    /\ Engine!Settle(v)
    /\ LET x == Head(list)
           c == x[1]
           s == x[2]
       IN  IF ~tfer[c][s][x[3]].last
           THEN UNCHANGED <<desc, desc_used, caio, held, result, misuse>>
           ELSE IF ~caio[c].live
           THEN /\ astray' = astray \cup {c}
                /\ UNCHANGED <<desc, desc_used, caio, held, result, misfreed,
                               dropped>>
           ELSE AsyncIoHandler(c, s, [k \in DOMAIN tfer[c][s] |->
                                         state'[<<c, s, k>>]])
    /\ UNCHANGED <<pc, shape, seg, nents, tfer, desc_idx, overfull, crossed,
                   stalled>>

\* The hardware has moved the oldest transfer (external).
HardwareMoves ==
  /\ ~finished
  /\ ~stalled
  /\ Engine!Finish
  /\ UNCHANGED <<calls, ring, stalled>>

\* The hardware stops with an error before the oldest transfer's first
\* descriptor is done: engine_service() shuts the engine down, finds no
\* descriptor completed and returns.  The transfer stays queued.
EngineStalls ==
  /\ "first descriptor" \in Faults
  /\ list # <<>> /\ ~finished /\ ~stalled
  /\ stalled' = TRUE
  /\ UNCHANGED <<calls, ring, list, state, finished>>

AioStep(c) ==
  \/ AlignFails(c)
  \/ PinFails(c)
  \/ PinPages(c)
  \/ SubmitFails(c)
  \/ InitRequest(c)
  \/ TransferInit(c)
  \/ TferOverrun(c)
  \/ TransferQueue(c)
  \/ QueueFails(c)

Next ==
  \/ \E c \in Calls : AioCall(c) \/ AioStep(c)
  \/ EngineCompletes
  \/ HardwareMoves
  \/ EngineStalls

Spec == Init /\ [][Next]_vars

(***************************************************************************)
(* Fairness: a task inside a system call is scheduled, hardware that runs  *)
(* finishes what it was given, and the bottom half runs.  Nobody has to    *)
(* issue a call, nor to wake an engine that has stalled.                   *)
(***************************************************************************)
FairSpec ==
  /\ Spec
  /\ \A c \in Calls : WF_vars(AioStep(c))
  /\ WF_vars(EngineCompletes)
  /\ WF_vars(HardwareMoves)

-----------------------------------------------------------------------------
Descs(c, s) == SoftDescs(shape[c][s])

\* The bytes of the transfers of segment s that are reported as moved.
Moved(c, s) ==
  SumSeq([k \in DOMAIN tfer[c][s] |->
            IF \A j \in 1 .. k : state[<<c, s, j>>] = "COMPLETED"
            THEN SumSeq(SubSeq(Descs(c, s), Before(<<c, s, k>>) + 1,
                               Before(<<c, s, k>>) + tfer[c][s][k].num))
            ELSE 0])

\* A call is answered at most once, never if it had returned an error, only
\* when no transfer of it is queued any more, and with exactly the bytes its
\* segments moved, all of them if nothing failed (cdev_sgdma.c:104).
AnsweredExactly ==
  \A c \in Calls :
    result[c] # <<>> =>
      /\ Len(result[c]) = 1
      /\ pc[c] # "error"
      /\ \A i \in DOMAIN list : list[i][1] # c
      /\ result[c][1] = SumSeq([s \in DOMAIN shape[c] |-> Moved(c, s)])
      /\ (\A s \in DOMAIN shape[c] : \A k \in DOMAIN tfer[c][s] :
             state[<<c, s, k>>] = "COMPLETED") =>
           result[c][1] = SumSeq([s \in DOMAIN shape[c] |-> SumSeq(shape[c][s])])

\* The descriptors of a queued transfer stay as they were built until it is
\* settled: as long as desc_used never exceeds the ring (libxdma.c:2981 "Need
\* to handle desc_used >= XDMA_TRANSFER_MAX_DESC") and no two requests are cut
\* into transfers at the same time, no other transfer's transfer_init or
\* transfer_destroy touches them, and no prefetch leaves the transfer or its
\* block.
RingIntact ==
  ~overfull /\ ~crossed =>
    \A n \in DOMAIN list :
      LET x == list[n]
          t == tfer[x[1]][x[2]][x[3]]
      IN  /\ \A i \in 0 .. t.num - 1 :
               desc[t.first + i] =
                 Descriptor(t.first, t.num, i, DataOf(x, i, Before(x)))
          /\ \A i \in 0 .. t.num - 2 :
               LET d == desc[t.first + i]
               IN  /\ d.next + d.adj < t.first + t.num
                   /\ d.next \div Block = (d.next + d.adj) \div Block

\* What a queued transfer of segment s needs.
Needs(s) == {<<"pages", s>>} \cup Mapped(s)

\* Memory.  A queued transfer keeps its pages pinned and mapped and its request
\* allocated, but for what was dropped under it, and that only in two places: the
\* second transfer of its request is refused (libxdma.c:3628), or a later
\* segment is misaligned, which frees the caio (cdev_sgdma.c:468); no other
\* caio is gone when its handler runs.  Requests fit what was allocated for them
\* and the two transfers of libxdma.h:468, unless another call took descriptors
\* while the request was cut.  An answered call has given everything back,
\* except that a call of several segments may keep its array and give kfree()
\* an invalid pointer (cdev_sgdma.c:115) instead.
MemoryKept ==
  /\ \A i \in DOMAIN list :
       Needs(list[i][2]) \subseteq held[list[i][1]] \cup dropped[list[i][1]]
  /\ \A c \in Calls :
       /\ \A h \in dropped[c] :
            \/ h = <<"caio", 0>> /\ pc[c] = "error" /\ seg[c] > 1
            \/ \E s \in DOMAIN shape[c] : h \in Mapped(s) /\ Len(tfer[c][s]) = 2
       /\ c \in astray => <<"caio", 0>> \in dropped[c]
       /\ c \in misfreed => result[c] # <<>> /\ Len(shape[c]) > 1
       /\ pc[c] = "overrun" => crossed
       /\ \A s \in DOMAIN shape[c] : Len(Descs(c, s)) <= Allocated(shape[c][s])
       /\ result[c] # <<>> =>
            held[c] \subseteq (IF c \in misfreed THEN {<<"cb", 0>>} ELSE {})

\* A call that was queued is answered in the end, if none of its segments was
\* refused behind its back and none is empty, or an error at a transfer's first
\* descriptor keeps the engine stalled: there is no timeout on this path, and
\* only another submission starts the engine again (libxdma.c:1150).
QueuedIsAnswered ==
  \A c \in Calls :
    (/\ pc[c] = "queued"
     /\ \A s \in DOMAIN shape[c] :
          /\ tfer[c][s] # <<>>
          /\ tfer[c][s][Len(tfer[c][s])].last
          /\ \A k \in DOMAIN tfer[c][s] : state[<<c, s, k>>] # "NEW")
      ~> (result[c] # <<>> \/ stalled)
=============================================================================
