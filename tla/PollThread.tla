----------------------------- MODULE PollThread -----------------------------
(***************************************************************************)
(* Poll mode of the XDMA driver (xdma_thread.c, libxdma.c): instead of     *)
(* interrupts, every engine has a write-back word in host memory, and      *)
(* kernel threads watch the words of the engines assigned to them.  One    *)
(* thread serves several engines, one after the other, and sleeps when     *)
(* none has a transfer queued.                                             *)
(*                                                                         *)
(* A transfer of a blocking engine comes from xdma_xfer_submit, which      *)
(* takes desc_lock and may time out; the others come from aio calls.       *)
(* Engines are memory mapped, so that a transfer is written back once, at  *)
(* its last descriptor (desc_cmpl_th = desc_num), or when it fails.        *)
(***************************************************************************)
EXTENDS Integers, Sequences, FiniteSets

CONSTANTS Engines, Blocking,   \* the engines, and those with blocking callers
          Xfers,               \* transfers
          EngineOf, DescNum,   \* of each its engine, and desc_num
          MaxThreads,          \* CPUs online, at most
          Faulty               \* the engines that may report errors

ASSUME XferAssumption ==
  /\ Blocking \subseteq Engines
  /\ EngineOf \in [Xfers -> Engines]
  /\ DescNum \in [Xfers -> Nat \ {0}]
ASSUME ThreadAssumption == MaxThreads \in Nat \ {0} /\ Faulty \subseteq Engines

Threads == 0 .. MaxThreads - 1

VARIABLES
  thread_cnt,    \* threads created, with ids from 0
  work_list,     \* thp->work_list: the engines of each thread
  cmplthp,       \* engine->cmplthp, or -1
  life,          \* each engine from probe to removal
  schedule,      \* thp->schedule
  pc, todo,      \* each thread, and the engines it has still to look at
  expected,      \* expected_wb of the engine it polls
  desc_wb,       \* what it read from the write-back word
  stop,          \* progress of xdma_kthread_stop
  call,          \* each transfer's caller
  list, state,   \* engine->transfer_list, transfer->state
  running,       \* engine->running
  status,        \* engine->status has an error bit
  wb,            \* the write-back word in memory
  hw,            \* the engine: busy, descriptors completed, error latched
  struck         \* history: transfers that met a hardware error at their
                 \* first descriptor

threadVars == <<schedule, pc, todo, expected, desc_wb, stop>>
workVars   == <<thread_cnt, work_list, cmplthp, life>>
engineVars == <<list, state, running, status, wb, hw, struck>>
vars == <<thread_cnt, work_list, cmplthp, life, schedule, pc, todo, expected,
          desc_wb, stop, call, list, state, running, status, wb, hw, struck>>

Nothing == [n |-> 0, err |-> FALSE]

\* xdma_kthread_start(): no work, the flag clear as kzalloc() left it, and
\* xthread_main() about to run.
KthreadStart ==
  /\ work_list = [t \in Threads |-> <<>>]
  /\ schedule = [t \in Threads |-> FALSE]
  /\ pc = [t \in Threads |-> "test"]
  /\ todo = [t \in Threads |-> <<>>]
  /\ expected = [t \in Threads |-> 0]
  /\ desc_wb = [t \in Threads |-> Nothing]
  /\ stop = [t \in Threads |-> "no"]

\* xdma_threads_create() has started one thread per CPU.
Init ==
  /\ thread_cnt \in 1 .. MaxThreads
  /\ KthreadStart
  /\ cmplthp = [e \in Engines |-> -1]
  /\ life = [e \in Engines |-> "probe"]
  /\ call = [x \in Xfers |-> "idle"]
  /\ list = [e \in Engines |-> <<>>]
  /\ state = [x \in Xfers |-> "NEW"]
  /\ running = [e \in Engines |-> FALSE]
  /\ status = [e \in Engines |-> FALSE]
  /\ wb = [e \in Engines |-> Nothing]
  /\ hw = [e \in Engines |-> [busy |-> FALSE, done |-> 0, err |-> FALSE]]
  /\ struck = {}

Alive == 0 .. thread_cnt - 1

-----------------------------------------------------------------------------
(***************************************************************************)
(* Work lists.                                                             *)
(***************************************************************************)
Cnt(t) == Len(work_list[t])

\* The choice of xdma_thread_add_work(): the second or a later thread that is
\* empty, else the last one with less work than the first.
Chosen ==
  LET free == {t \in Alive \ {0} : Cnt(t) = 0}
      less == {t \in Alive \ {0} : Cnt(t) < Cnt(0)}
  IN  IF free # {} THEN CHOOSE t \in free : \A u \in free : t <= u
      ELSE IF less # {} THEN CHOOSE t \in less : \A u \in less : t >= u
      ELSE 0

\* Threads that are inside lock_thread().
Locked(t) == pc[t] \in {"clear", "poll", "zero", "service"}

\* engine_init() calls xdma_thread_add_work().
AddWork(e) ==
  /\ life[e] = "probe"
  /\ ~Locked(Chosen)
  /\ work_list' = [work_list EXCEPT ![Chosen] = Append(@, e)]
  /\ cmplthp' = [cmplthp EXCEPT ![e] = Chosen]
  /\ life' = [life EXCEPT ![e] = "ready"]
  /\ UNCHANGED <<thread_cnt, threadVars, call, engineVars>>

\* engine_destroy() calls xdma_thread_remove_work(), once the device is no
\* longer used (bound: after its last transfer): under the engine lock the
\* engine gives up its thread.
RemoveWork(e) ==
  /\ life[e] = "ready"
  /\ \A x \in Xfers : EngineOf[x] = e => call[x] = "done"
  /\ list[e] = <<>>
  /\ cmplthp' = [cmplthp EXCEPT ![e] = -1]
  /\ life' = [life EXCEPT ![e] = "unlink"]
  /\ UNCHANGED <<thread_cnt, work_list, threadVars, call, engineVars>>

\* list_del() of the entry at position i.
Unlinked(l, i) == [j \in 1 .. Len(l) - 1 |-> IF j < i THEN l[j] ELSE l[j + 1]]

\* Mutant: lock_thread() is left out.
ListDelUnlocked(e) ==
  /\ life[e] = "unlink"
  /\ \E t \in Alive : \E i \in 1 .. Cnt(t) :
       /\ work_list[t][i] = e
       /\ work_list' = [work_list EXCEPT ![t] = Unlinked(@, i)]
  /\ life' = [life EXCEPT ![e] = "gone"]
  /\ UNCHANGED <<thread_cnt, cmplthp, threadVars, call, engineVars>>

\* Then list_del() under the lock of the thread the engine had; the engine is
\* freed and zeroed.
ListDel(e) ==
  /\ life[e] = "unlink"
  /\ \E t \in Alive : \E i \in 1 .. Cnt(t) :
       /\ work_list[t][i] = e
       /\ ~Locked(t)
       /\ work_list' = [work_list EXCEPT ![t] = Unlinked(@, i)]
  /\ life' = [life EXCEPT ![e] = "gone"]
  /\ UNCHANGED <<thread_cnt, cmplthp, threadVars, call, engineVars>>

\* xdma_threads_destroy(), after the last device, stops the threads one after
\* the other: it is t's turn.
ThreadsDestroy(t) ==
  /\ \A e \in Engines : life[e] = "gone"
  /\ t \in Alive
  /\ \A u \in 0 .. t - 1 : pc[u] = "exit"

\* xdma_kthread_stop() sets the flag, wakes nobody, and calls kthread_stop().
StopFlag(t) ==
  /\ ThreadsDestroy(t)
  /\ stop[t] = "no"
  /\ schedule' = [schedule EXCEPT ![t] = TRUE]
  /\ stop' = [stop EXCEPT ![t] = "flagged"]
  /\ UNCHANGED <<workVars, pc, todo, expected, desc_wb, call, engineVars>>

\* A thread asleep in wait_event_interruptible() looks at its condition again.
Awake(t) == IF pc[t] = "asleep" THEN [pc EXCEPT ![t] = "wait"] ELSE pc

\* kthread_stop() (external) sets the flag of kthread_should_stop() and wakes.
KthreadStop(t) ==
  /\ stop[t] = "flagged"
  /\ stop' = [stop EXCEPT ![t] = "asked"]
  /\ pc' = Awake(t)
  /\ UNCHANGED <<workVars, schedule, todo, expected, desc_wb, call, engineVars>>

-----------------------------------------------------------------------------
(***************************************************************************)
(* The engine, under its lock.                                             *)
(***************************************************************************)

\* What engine_start() and xdma_engine_stop() make of the hardware, whose
\* count is only looked at while it runs; neither touches the write-back word.
Started(h) == [h EXCEPT !.busy = TRUE, !.done = 0]
Stopped(h) == [h EXCEPT !.busy = FALSE, !.done = 0]

\* transfer_queue() (bound: once all devices were probed).
TransferQueue(x) ==
  LET e == EngineOf[x]
  IN  /\ call[x] = "idle"
      /\ \A f \in Engines : life[f] # "probe"
      /\ life[e] = "ready"
      /\ e \in Blocking =>
           \A y \in Xfers : EngineOf[y] = e => call[y] \in {"idle", "done"}
      /\ list' = [list EXCEPT ![e] = Append(@, x)]
      /\ state' = [state EXCEPT ![x] = "SUBMITTED"]
      /\ running' = [running EXCEPT ![e] = TRUE]
      /\ hw' = IF running[e] THEN hw ELSE [hw EXCEPT ![e] = Started(@)]
      /\ status' = IF running[e] THEN status ELSE [status EXCEPT ![e] = hw[e].err]
      /\ call' = [call EXCEPT ![x] = "queued"]
      /\ UNCHANGED <<workVars, threadVars, wb, struck>>

\* xdma_kthread_wakeup(), after the transfer was queued.  Mutant: the flag is
\* left to the thread.
WakeupNoFlag(x) ==
  /\ call[x] = "queued"
  /\ pc' = Awake(cmplthp[EngineOf[x]])
  /\ call' = [call EXCEPT ![x] = IF EngineOf[x] \in Blocking THEN "waits" ELSE "done"]
  /\ UNCHANGED <<workVars, schedule, todo, expected, desc_wb, stop, engineVars>>
Wakeup(x) ==
  /\ call[x] = "queued"
  /\ schedule' = [schedule EXCEPT ![cmplthp[EngineOf[x]]] = TRUE]
  /\ pc' = Awake(cmplthp[EngineOf[x]])
  /\ call' = [call EXCEPT ![x] = IF EngineOf[x] \in Blocking THEN "waits" ELSE "done"]
  /\ UNCHANGED <<workVars, todo, expected, desc_wb, stop, engineVars>>

\* The blocking caller wakes up and finds its transfer settled.
Returns(x) ==
  /\ call[x] = "waits"
  /\ state[x] # "SUBMITTED"
  /\ call' = [call EXCEPT ![x] = "done"]
  /\ UNCHANGED <<workVars, threadVars, engineVars>>

\* It times out: transfer_abort() and xdma_engine_stop().
TimesOut(x) ==
  LET e == EngineOf[x]
  IN  /\ call[x] = "waits"
      /\ state[x] = "SUBMITTED"
      /\ state' = [state EXCEPT ![x] = "ABORTED"]
      /\ list' = [list EXCEPT ![e] = Tail(@)]
      /\ running' = [running EXCEPT ![e] = FALSE]
      /\ hw' = [hw EXCEPT ![e] = Stopped(@)]
      /\ status' = [status EXCEPT ![e] = hw[e].err]
      /\ call' = [call EXCEPT ![x] = "done"]
      /\ UNCHANGED <<workVars, threadVars, wb, struck>>

\* The hardware completes a descriptor of the head of the list (external).
HwMove(e) ==
  LET num == DescNum[Head(list[e])]
  IN  /\ hw[e].busy
      /\ list[e] # <<>>
      /\ hw' = [hw EXCEPT ![e].done = @ + 1, ![e].busy = hw[e].done + 1 < num]
      /\ wb' = IF hw[e].done + 1 < num THEN wb
               ELSE [wb EXCEPT ![e] = [n |-> num, err |-> FALSE]]
      /\ UNCHANGED <<workVars, threadVars, call, list, state, running, status,
                     struck>>

\* The hardware stops on an error and writes that back (external).
HwError(e) ==
  /\ e \in Faulty
  /\ hw[e].busy
  /\ list[e] # <<>>
  /\ hw' = [hw EXCEPT ![e].busy = FALSE, ![e].err = TRUE]
  /\ wb' = [wb EXCEPT ![e] = [n |-> hw[e].done, err |-> TRUE]]
  /\ struck' = IF hw[e].done = 0 THEN struck \cup {Head(list[e])} ELSE struck
  /\ UNCHANGED <<workVars, threadVars, call, list, state, running, status>>

\* Descriptors of the first k transfers of l.
Total(l, k) ==
  LET sum[i \in 0 .. Len(l)] == IF i = 0 THEN 0 ELSE sum[i - 1] + DescNum[l[i]]
  IN  sum[k]

\* engine_service() settles the transfers that a count covers entirely and
\* the one it ends in: the number of them, and the verdict on the last.
Passed(l, count) == Cardinality({k \in 1 .. Len(l) : Total(l, k) < count})

FinalState(l, count, error) ==
  LET k == Passed(l, count)
  IN  IF error \/ count - Total(l, k) < DescNum[l[k + 1]] THEN "FAILED"
      ELSE "COMPLETED"

\* engine_service() with a write-back word that is not zero;
\* engine_service_resume() starts the engine again for the rest.
EngineService(e, word) ==
  LET reads == word.n = 0 \/ word.err \/ ~running[e]
      error == IF reads THEN hw[e].err ELSE status[e]
      stops == word.n # 0 \/ ~hw[e].busy
      count == IF word.n # 0 THEN word.n ELSE hw[e].done
      k     == Passed(list[e], count)
      rest  == SubSeq(list[e], k + 2, Len(list[e]))
      on    == ~stops /\ ~(error /\ k < Len(list[e])) /\ rest # <<>>
      again == ~on /\ rest # <<>>
      h     == IF reads THEN [hw[e] EXCEPT !.err = FALSE] ELSE hw[e]
  IN  IF ~running[e] \/ count = 0
      THEN /\ running' = [running EXCEPT ![e] = @ /\ ~stops]
           /\ hw' = [hw EXCEPT ![e] = IF stops THEN Stopped(h) ELSE h]
           /\ status' = [status EXCEPT ![e] = error]
           /\ UNCHANGED <<list, state>>
      ELSE /\ state' = [x \in Xfers |->
                          IF \E i \in 1 .. k : list[e][i] = x THEN "COMPLETED"
                          ELSE IF k < Len(list[e]) /\ x = list[e][k + 1]
                          THEN FinalState(list[e], count, error)
                          ELSE state[x]]
           /\ list' = [list EXCEPT ![e] = rest]
           /\ running' = [running EXCEPT ![e] = on \/ again]
           /\ hw' = [hw EXCEPT ![e] = IF again THEN Started(h)
                                      ELSE IF on THEN h ELSE Stopped(h)]
           /\ status' = [status EXCEPT ![e] = IF again THEN h.err ELSE error]

-----------------------------------------------------------------------------
(***************************************************************************)
(* xthread_main().                                                         *)
(***************************************************************************)
Go(t, to) == pc' = [pc EXCEPT ![t] = to]

\* The loop condition, then xthread_work_pending().
Test(t) ==
  /\ pc[t] = "test"
  /\ Go(t, IF stop[t] = "asked" THEN "exit"
           ELSE IF \E i \in 1 .. Cnt(t) : list[work_list[t][i]] # <<>>
           THEN "clear" ELSE "wait")
  /\ UNCHANGED <<workVars, schedule, todo, expected, desc_wb, stop, call,
                 engineVars>>

\* xthread_reschedule(), without a timeout.
Wait(t) ==
  /\ pc[t] = "wait"
  /\ Go(t, IF schedule[t] THEN "clear" ELSE "asleep")
  /\ UNCHANGED <<workVars, schedule, todo, expected, desc_wb, stop, call,
                 engineVars>>

\* xdma_thread_cmpl_status_proc(): desc_cmpl_th of the head, read without the
\* engine lock.  If the list is empty the head is the list head itself, and
\* the word read there is the unlocked lock of shutdown_wq: zero.
Threshold(e) == IF list[e] = <<>> THEN 0 ELSE DescNum[Head(list[e])]

\* list_for_each_safe(): the thread turns to the first of the engines that are
\* left, or goes back to the loop condition.
Turn(t, engines) ==
  /\ todo' = [todo EXCEPT ![t] = engines]
  /\ desc_wb' = [desc_wb EXCEPT ![t] = Nothing]
  /\ expected' = [expected EXCEPT ![t] = IF engines = <<>> THEN 0
                                         ELSE Threshold(Head(engines))]
  /\ Go(t, IF engines = <<>> THEN "test" ELSE "poll")

\* thp->schedule = 0, then the work list is gone through.
Clear(t) ==
  /\ pc[t] = "clear"
  /\ schedule' = [schedule EXCEPT ![t] = FALSE]
  /\ Turn(t, work_list[t])
  /\ UNCHANGED <<workVars, stop, call, engineVars>>

\* engine_service_poll() returns.
Polled(t) ==
  /\ Turn(t, Tail(todo[t]))
  /\ UNCHANGED schedule

\* engine_service_wb_monitor(): nothing is expected, or nothing comes within
\* ten seconds.
PollEnds(t) ==
  /\ pc[t] = "poll"
  /\ expected[t] = 0 \/ wb[Head(todo[t])] = Nothing
  /\ Polled(t)
  /\ UNCHANGED <<workVars, stop, call, engineVars>>

\* It reads a word that is not zero.
PollRead(t) ==
  /\ pc[t] = "poll"
  /\ expected[t] # 0
  /\ wb[Head(todo[t])] # Nothing
  /\ desc_wb' = [desc_wb EXCEPT ![t] = wb[Head(todo[t])]]
  /\ Go(t, "zero")
  /\ UNCHANGED <<workVars, schedule, todo, expected, stop, call, engineVars>>

\* Mutant: the word is left as it is.
ZeroedNot(e) == wb[e]

\* completed_desc_count = 0, whatever is there by now.
Zeroed(e) == Nothing

\* The word is zeroed; it is enough, or it is not and the loop goes on, or
\* ends because the time is over.
PollZero(t) ==
  LET e == Head(todo[t])
      w == desc_wb[t]
  IN  /\ pc[t] = "zero"
      /\ wb' = [wb EXCEPT ![e] = Zeroed(e)]
      /\ \/ Go(t, "service")
         \/ ~w.err /\ w.n < expected[t] /\ Go(t, "poll")
      /\ UNCHANGED <<workVars, schedule, todo, expected, desc_wb, stop, call,
                     list, state, running, status, hw, struck>>

\* engine_service_poll() takes the engine lock and calls engine_service().
Service(t) ==
  /\ pc[t] = "service"
  /\ EngineService(Head(todo[t]), desc_wb[t])
  /\ Polled(t)
  /\ UNCHANGED <<workVars, stop, call, wb, struck>>

-----------------------------------------------------------------------------
ThreadStep(t) ==
  \/ Test(t)
  \/ Wait(t)
  \/ Clear(t)
  \/ PollEnds(t)
  \/ PollRead(t)
  \/ PollZero(t)
  \/ Service(t)

CallStep(x) == Wakeup(x) \/ Returns(x) \/ TimesOut(x)

Unload == \/ \E e \in Engines : ListDel(e)
          \/ \E t \in Threads : StopFlag(t) \/ KthreadStop(t)

Next ==
  \/ \E e \in Engines : AddWork(e) \/ RemoveWork(e) \/ HwMove(e) \/ HwError(e)
  \/ \E x \in Xfers : TransferQueue(x) \/ CallStep(x)
  \/ \E t \in Alive : ThreadStep(t)
  \/ Unload

Spec == Init /\ [][Next]_vars

(***************************************************************************)
(* Fairness: threads and callers are scheduled, the hardware goes on, and  *)
(* the removal of the driver, once begun, proceeds.  The ten seconds after *)
(* which PollEnds gives up are longer than anything else a thread does.    *)
(***************************************************************************)
FairSpec ==
  /\ Spec
  /\ \A t \in Threads : WF_vars(ThreadStep(t)) /\ WF_vars(KthreadStop(t))
  /\ \A x \in Xfers : WF_vars(CallStep(x))
  /\ \A e \in Engines : WF_vars(HwMove(e) \/ HwError(e)) /\ WF_vars(ListDel(e))

-----------------------------------------------------------------------------
(***************************************************************************)
(* Properties.                                                             *)
(***************************************************************************)
Of(e) == {x \in Xfers : EngineOf[x] = e}

\* An engine whose callers do not time out keeps the contract of interrupt
\* mode, although it shares its thread with one whose callers do: the
\* write-back word is read and zeroed without a lock (libxdma.c:1260), yet each
\* count is credited to the transfer it was written for, in order, and none
\* reports completion before the data has moved.
Contract(e) ==
  INSTANCE TransferContract
    WITH Xfers <- Of(e), list <- list[e], state <- [x \in Of(e) |-> state[x]],
         finished <- /\ list[e] # <<>>
                     /\ hw[e].done = DescNum[Head(list[e])]

PolledKeepsContract ==
  /\ \A e \in Engines \ Blocking : Contract(e)!ContractInit
  /\ [][\A e \in Engines \ Blocking :
           Contract(e)!ContractNext \/ UNCHANGED Contract(e)!contractVars]_vars

\* Every transfer is settled in the end, without an interrupt: no wake-up is
\* lost between the flag, the sleep and the clearing of the flag
\* (xdma_thread.c:109-121), no engine of a thread starves behind another, and
\* an engine with transfers left is started again.  The exception is the one
\* of interrupt mode: an error at the first descriptor settles nothing.
PolledSettles ==
  \A x \in Xfers :
    state[x] = "SUBMITTED" ~>
      \/ state[x] # "SUBMITTED"
      \/ struck \cap Of(EngineOf[x]) # {}

\* xdma_thread_remove_work returns only when the thread is not, and will not
\* be, looking at the engine: engine_destroy frees and zeroes it next
\* (libxdma.c:2618).
GoneIsUnused ==
  \A t \in Alive :
    Locked(t) => \A i \in 1 .. Len(todo[t]) : life[todo[t][i]] # "gone"
=============================================================================
