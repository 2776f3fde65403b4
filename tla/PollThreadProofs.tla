-------------------------- MODULE PollThreadProofs --------------------------
(***************************************************************************)
(* Proofs about PollThread, for every number of threads, engines and       *)
(* transfers: who is on which work list, that a removed engine is not      *)
(* looked at any more, and that an engine whose callers do not time out    *)
(* keeps the contract of interrupt mode.                                   *)
(***************************************************************************)
EXTENDS PollThread, FiniteSetTheorems, SequenceTheorems, WellFoundedInduction, TLAPS

USE XferAssumption, ThreadAssumption

-----------------------------------------------------------------------------
(***************************************************************************)
(* Natural numbers: least and greatest elements, and induction, stated     *)
(* over sets.                                                              *)
(***************************************************************************)

\* A set of naturals that is not empty has a least element.
LEMMA LeastNat ==
  ASSUME NEW S \in SUBSET Nat, S # {}
  PROVE  \E n \in S : \A m \in S : n <= m
<1>1. IsWellFoundedOn(OpToRel(<, Nat), Nat)
  BY NatLessThanWellFounded
<1>2. PICK n \in S : \A m \in S : ~(<<m, n>> \in OpToRel(<, Nat))
  BY <1>1, WFMin
<1>3. \A m \in S : ~(m < n)
  BY <1>2 DEF OpToRel
<1> QED
  BY <1>3

\* A bounded set of naturals that is not empty has a greatest element.
LEMMA GreatestNat ==
  ASSUME NEW b \in Nat, NEW S \in SUBSET (0 .. b), S # {}
  PROVE  \E n \in S : \A m \in S : n >= m
<1> DEFINE R == {k \in Nat : b - k \in S}
<1>1. PICK s \in S : TRUE
  OBVIOUS
<1>2. s \in 0 .. b /\ b - s \in Nat /\ b - (b - s) = s
  BY <1>1
<1>3. R \in SUBSET Nat /\ R # {}
  BY <1>1, <1>2
<1>4. PICK k \in R : \A l \in R : k <= l
  BY <1>3, LeastNat
<1>5. ASSUME NEW m \in S PROVE b - k >= m
  <2>1. m \in 0 .. b /\ b - m \in Nat /\ b - (b - m) = m
    BY <1>5
  <2>2. b - m \in R
    BY <2>1
  <2>3. k <= b - m
    BY <1>4, <2>2
  <2> HIDE DEF R
  <2>4. k \in Nat
    BY <1>3
  <2> QED
    BY <2>1, <2>3, <2>4
<1> QED
  BY <1>4, <1>5

-----------------------------------------------------------------------------
(***************************************************************************)
(* Work lists.                                                             *)
(***************************************************************************)

Engaged(t) == pc[t] \in {"poll", "zero", "service"}
Entry(e, t) == \E i \in 1 .. Len(work_list[t]) : work_list[t][i] = e

WorkTypeOK ==
  /\ thread_cnt \in 1 .. MaxThreads
  /\ work_list \in [Threads -> Seq(Engines)]
  /\ todo \in [Threads -> Seq(Engines)]
  /\ pc \in [Threads -> {"test", "wait", "asleep", "clear", "poll", "zero",
                         "service", "exit"}]
  /\ cmplthp \in [Engines -> Threads \cup {-1}]
  /\ life \in [Engines -> {"probe", "ready", "unlink", "gone"}]
  /\ call \in [Xfers -> {"idle", "queued", "waits", "done"}]

\* Work lists hold engines between add_work and list_del, each once.
ListedOnce ==
  /\ \A t \in Threads : \A i \in 1 .. Len(work_list[t]) :
       life[work_list[t][i]] \in {"ready", "unlink"}
  /\ \A t, u \in Threads :
       \A i \in 1 .. Len(work_list[t]), j \in 1 .. Len(work_list[u]) :
         work_list[t][i] = work_list[u][j] => t = u /\ i = j

\* A thread has engines to look at while it holds its lock, from its own list.
TodoListed ==
  \A t \in Threads :
    IF Engaged(t) THEN /\ todo[t] # <<>>
                       /\ \A i \in 1 .. Len(todo[t]) : Entry(todo[t][i], t)
                  ELSE todo[t] = <<>>

\* An engine in use is on the list of the thread that its callers wake.
WokenIsPoller ==
  /\ \A e \in Engines : life[e] = "ready" =>
                          cmplthp[e] \in Alive /\ Entry(e, cmplthp[e])
  /\ \A x \in Xfers : call[x] \in {"queued", "waits"} =>
                        life[EngineOf[x]] = "ready"

WorkInv == WorkTypeOK /\ ListedOnce /\ TodoListed /\ WokenIsPoller

\* Threads that were created are threads.
LEMMA AliveThreads == WorkTypeOK => Alive \subseteq Threads /\ 0 \in Alive
  BY DEF WorkTypeOK, Alive, Threads

\* xdma_thread_add_work() finds a thread: neither search returns nothing.
LEMMA ChosenAlive == ASSUME WorkTypeOK PROVE Chosen \in Alive
<1> DEFINE free == {t \in Alive \ {0} : Cnt(t) = 0}
           less == {t \in Alive \ {0} : Cnt(t) < Cnt(0)}
<1>0. thread_cnt \in Nat \ {0} /\ Alive = 0 .. thread_cnt - 1
  BY DEF WorkTypeOK, Alive
<1>1. CASE free # {}
  <2>1. \E t \in free : \A u \in free : t <= u
    <3>1. free \in SUBSET Nat
      BY <1>0
    <3> QED
      BY <1>1, <3>1, LeastNat
  <2>2. (CHOOSE t \in free : \A u \in free : t <= u) \in free
    BY <2>1
  <2>3. Chosen = CHOOSE t \in free : \A u \in free : t <= u
    BY <1>1 DEF Chosen
  <2> QED
    BY <2>2, <2>3
<1>2. CASE free = {} /\ less # {}
  <2>1. \E t \in less : \A u \in less : t >= u
    <3>1. thread_cnt - 1 \in Nat /\ less \in SUBSET (0 .. thread_cnt - 1)
      BY <1>0
    <3> QED
      BY <1>2, <3>1, GreatestNat
  <2>2. (CHOOSE t \in less : \A u \in less : t >= u) \in less
    BY <2>1
  <2>3. Chosen = CHOOSE t \in less : \A u \in less : t >= u
    BY <1>2 DEF Chosen
  <2> QED
    BY <2>2, <2>3
<1>3. CASE free = {} /\ less = {}
  BY <1>0, <1>3 DEF Chosen
<1> QED
  BY <1>1, <1>2, <1>3

\* No list of a thread has an engine before the first is created.
LEMMA WorkInit == Init => WorkInv
<1> SUFFICES ASSUME Init PROVE WorkInv
  OBVIOUS
<1>1. WorkTypeOK
  BY EmptySeq DEF Init, KthreadStart, WorkTypeOK, Threads
<1>2. \A t \in Threads : Len(work_list[t]) = 0
  BY DEF Init, KthreadStart
<1>3. ListedOnce /\ TodoListed /\ WokenIsPoller
  BY <1>2 DEF Init, KthreadStart, ListedOnce, TodoListed, WokenIsPoller, Engaged
<1> QED
  BY <1>1, <1>3 DEF WorkInv

Once(l) == \A j, k \in 1 .. Len(l) : l[j] = l[k] => j = k

\* u is l without its i-th entry.
Lacks(u, l, i) ==
  /\ u \in Seq(Engines)
  /\ \A j \in 1 .. Len(u) : \E k \in 1 .. Len(l) : k # i /\ u[j] = l[k]
  /\ Once(u)
  /\ \A k \in 1 .. Len(l) : k # i => \E j \in 1 .. Len(u) : u[j] = l[k]

\* What list_del() does to a list without repetitions.
LEMMA UnlinkedFacts ==
  ASSUME NEW l \in Seq(Engines), NEW i \in 1 .. Len(l), Once(l)
  PROVE  Lacks(Unlinked(l, i), l, i)
<1> DEFINE u == Unlinked(l, i)
<1>0. Len(l) \in Nat \ {0} /\ \A k \in 1 .. Len(l) : l[k] \in Engines
  BY LenProperties
<1>1. /\ u = [j \in 1 .. Len(l) - 1 |-> IF j < i THEN l[j] ELSE l[j + 1]]
      /\ Len(l) - 1 \in Nat
  BY <1>0 DEF Unlinked
<1>2. u \in Seq(Engines) /\ Len(u) = Len(l) - 1
  <2>1. \A j \in 1 .. Len(l) - 1 : u[j] \in Engines
    BY <1>0, <1>1
  <2> QED
    BY <1>1, <2>1, LenProperties
<1>3. ASSUME NEW j \in 1 .. Len(l) - 1
      PROVE  \E k \in 1 .. Len(l) : k # i /\ u[j] = l[k]
  <2>1. CASE j < i
    BY <1>0, <1>1, <2>1
  <2>2. CASE ~(j < i)
    <3>1. j + 1 \in 1 .. Len(l) /\ j + 1 # i /\ u[j] = l[j + 1]
      BY <1>0, <1>1, <2>2
    <3> QED
      BY <3>1
  <2> QED
    BY <2>1, <2>2
<1>4. ASSUME NEW j \in 1 .. Len(l) - 1, NEW k \in 1 .. Len(l) - 1, u[j] = u[k]
      PROVE  j = k
  <2> DEFINE p(m) == IF m < i THEN m ELSE m + 1
  <2>1. u[j] = l[p(j)] /\ u[k] = l[p(k)] /\ p(j) \in 1 .. Len(l) /\ p(k) \in 1 .. Len(l)
    BY <1>0, <1>1
  <2>2. p(j) = p(k)
    BY <1>4, <2>1 DEF Once
  <2> QED
    BY <1>0, <2>2
<1>5. ASSUME NEW k \in 1 .. Len(l), k # i
      PROVE  \E j \in 1 .. Len(l) - 1 : u[j] = l[k]
  <2>1. CASE k < i
    BY <1>0, <1>1, <2>1
  <2>2. CASE ~(k < i)
    <3>1. k - 1 \in 1 .. Len(l) - 1 /\ ~(k - 1 < i) /\ k - 1 + 1 = k
      BY <1>0, <1>5, <2>2
    <3>2. u[k - 1] = l[k]
      BY <1>1, <3>1
    <3> QED
      BY <3>1, <3>2
  <2> QED
    BY <2>1, <2>2
<1> QED
  BY <1>2, <1>3, <1>4, <1>5 DEF Once, Lacks

\* add_work() puts an engine that is on no list on that of a thread that is not
\* going through its list.
LEMMA WorkAdd ==
  ASSUME WorkInv, NEW e \in Engines, AddWork(e)
  PROVE  WorkInv'
<1> PICK c : c = Chosen
  OBVIOUS
<1> DEFINE w == work_list[c]
<1>0. /\ WorkTypeOK /\ ListedOnce /\ TodoListed /\ WokenIsPoller
      /\ c \in Alive /\ c \in Threads /\ ~Engaged(c)
      /\ UNCHANGED <<thread_cnt, pc, todo, call>> /\ life[e] = "probe"
  BY ChosenAlive, AliveThreads
     DEF WorkInv, AddWork, threadVars, Locked, Engaged
<1>1. /\ work_list' = [work_list EXCEPT ![c] = Append(w, e)]
      /\ cmplthp' = [cmplthp EXCEPT ![e] = c]
      /\ life' = [life EXCEPT ![e] = "ready"]
      /\ w \in Seq(Engines) /\ Len(w) \in Nat
  BY <1>0, LenProperties DEF AddWork, WorkTypeOK
<1>2. /\ Append(w, e) \in Seq(Engines) /\ Len(Append(w, e)) = Len(w) + 1
      /\ \A i \in 1 .. Len(w) : Append(w, e)[i] = w[i]
      /\ Append(w, e)[Len(w) + 1] = e
  BY <1>1, AppendProperties
<1>3. /\ work_list'[c] = Append(w, e)
      /\ \A t \in Threads : t # c => work_list'[t] = work_list[t]
      /\ \A t \in Threads : Len(work_list[t]) \in Nat
  BY <1>0, <1>1, LenProperties DEF WorkTypeOK
<1>4. WorkTypeOK'
  BY <1>0, <1>1, <1>2 DEF WorkTypeOK
<1>5. \A t \in Threads : \A i \in 1 .. Len(work_list[t]) :
        work_list[t][i] # e /\ work_list[t][i] \in Engines
  BY <1>0, ElementOfSeq DEF ListedOnce, WorkTypeOK
<1>6. ListedOnce'
  <2>1. ASSUME NEW t \in Threads, NEW i \in 1 .. Len(work_list'[t])
        PROVE  life'[work_list'[t][i]] \in {"ready", "unlink"}
    <3>1. CASE t = c /\ i = Len(w) + 1
      BY <1>0, <1>1, <1>2, <1>3, <3>1 DEF WorkTypeOK
    <3>2. CASE ~(t = c /\ i = Len(w) + 1)
      <4>1. i \in 1 .. Len(work_list[t]) /\ work_list'[t][i] = work_list[t][i]
        BY <1>1, <1>2, <1>3, <2>1, <3>2
      <4> QED
        BY <1>0, <1>1, <1>5, <4>1 DEF ListedOnce, WorkTypeOK
    <3> QED
      BY <3>1, <3>2
  <2>2. ASSUME NEW t \in Threads, NEW u \in Threads,
               NEW i \in 1 .. Len(work_list'[t]), NEW j \in 1 .. Len(work_list'[u]),
               work_list'[t][i] = work_list'[u][j]
        PROVE  t = u /\ i = j
    <3> DEFINE new(s, k) == s = c /\ k = Len(w) + 1
    <3>1. ~new(t, i) => i \in 1 .. Len(work_list[t]) /\ work_list'[t][i] = work_list[t][i]
      BY <1>1, <1>2, <1>3, <2>2
    <3>2. ~new(u, j) => j \in 1 .. Len(work_list[u]) /\ work_list'[u][j] = work_list[u][j]
      BY <1>1, <1>2, <1>3, <2>2
    <3>3. /\ new(t, i) => work_list'[t][i] = e
          /\ new(u, j) => work_list'[u][j] = e
      BY <1>2, <1>3
    <3> QED
      BY <1>0, <1>5, <2>2, <3>1, <3>2, <3>3 DEF ListedOnce
  <2> QED
    BY <2>1, <2>2 DEF ListedOnce
<1>7. \A f, t : t \in Threads /\ Entry(f, t) => Entry(f, t)'
  BY <1>1, <1>2, <1>3 DEF Entry
<1>8. TodoListed'
  BY <1>0, <1>7 DEF TodoListed, Engaged
<1>9. Entry(e, c)'
  BY <1>1, <1>2, <1>3 DEF Entry
<1>10. WokenIsPoller'
  <2>1. Alive' = Alive
    BY <1>0 DEF Alive
  <2>2. ASSUME NEW f \in Engines, life'[f] = "ready"
        PROVE  cmplthp'[f] \in Alive' /\ Entry(f, cmplthp[f])'
    BY <1>0, <1>1, <1>7, <1>9, <2>1, <2>2, AliveThreads DEF WokenIsPoller, WorkTypeOK
  <2>3. ASSUME NEW x \in Xfers, call'[x] \in {"queued", "waits"}
        PROVE  life'[EngineOf[x]] = "ready"
    BY <1>0, <1>1, <2>3 DEF WokenIsPoller, WorkTypeOK
  <2> QED
    BY <2>2, <2>3 DEF WokenIsPoller
<1> QED
  BY <1>4, <1>6, <1>8, <1>10 DEF WorkInv

\* list_del() under the thread lock takes the engine off a list nobody is going
\* through, and off the only one it is on.
LEMMA WorkDel ==
  ASSUME WorkInv, NEW e \in Engines, ListDel(e)
  PROVE  WorkInv'
<1>0. PICK t \in Alive : \E i \in 1 .. Cnt(t) :
        /\ work_list[t][i] = e
        /\ ~Locked(t)
        /\ work_list' = [work_list EXCEPT ![t] = Unlinked(@, i)]
  BY DEF ListDel
<1>1. PICK i \in 1 .. Cnt(t) :
        /\ work_list[t][i] = e
        /\ ~Locked(t)
        /\ work_list' = [work_list EXCEPT ![t] = Unlinked(@, i)]
  BY <1>0
<1> PICK w : w = work_list[t]
  OBVIOUS
<1> PICK u : u = Unlinked(w, i)
  OBVIOUS
<1>2. /\ WorkTypeOK /\ ListedOnce /\ TodoListed /\ WokenIsPoller
      /\ t \in Threads /\ ~Engaged(t) /\ life[e] = "unlink"
      /\ life' = [life EXCEPT ![e] = "gone"]
      /\ UNCHANGED <<thread_cnt, pc, todo, call, cmplthp>>
  BY <1>1, AliveThreads DEF WorkInv, ListDel, threadVars, Locked, Engaged
<1>3. /\ w \in Seq(Engines) /\ i \in 1 .. Len(w)
      /\ Once(w)
  BY <1>1, <1>2 DEF WorkTypeOK, ListedOnce, Cnt, Once
<1>4. Lacks(u, w, i)
  BY <1>3, UnlinkedFacts
<1>5. /\ work_list'[t] = u
      /\ \A s \in Threads : s # t => work_list'[s] = work_list[s]
  BY <1>1, <1>2 DEF WorkTypeOK
<1>6. WorkTypeOK'
  BY <1>1, <1>2, <1>4 DEF WorkTypeOK, Lacks
<1>7. ASSUME NEW s \in Threads, NEW j \in 1 .. Len(work_list'[s])
      PROVE  \E k \in 1 .. Len(work_list[s]) :
               work_list'[s][j] = work_list[s][k] /\ work_list[s][k] # e
  <2>1. CASE s = t
    BY <1>1, <1>3, <1>4, <1>5, <1>7, <2>1 DEF Once, Lacks
  <2>2. CASE s # t
    BY <1>1, <1>2, <1>3, <1>5, <1>7, <2>2 DEF ListedOnce
  <2> QED
    BY <2>1, <2>2
<1>8. ListedOnce'
  <2>1. ASSUME NEW s \in Threads, NEW j \in 1 .. Len(work_list'[s])
        PROVE  life'[work_list'[s][j]] \in {"ready", "unlink"}
    <3>1. PICK k \in 1 .. Len(work_list[s]) :
            work_list'[s][j] = work_list[s][k] /\ work_list[s][k] # e
      BY <1>7, <2>1
    <3>2. work_list[s][k] \in Engines
      BY <1>2, ElementOfSeq DEF WorkTypeOK
    <3> QED
      BY <1>2, <3>1, <3>2 DEF ListedOnce, WorkTypeOK
  <2>2. ASSUME NEW s \in Threads, NEW r \in Threads,
               NEW j \in 1 .. Len(work_list'[s]), NEW k \in 1 .. Len(work_list'[r]),
               work_list'[s][j] = work_list'[r][k]
        PROVE  s = r /\ j = k
    <3>1. s = r
      <4>1. PICK m \in 1 .. Len(work_list[s]) : work_list'[s][j] = work_list[s][m]
        BY <1>7, <2>2
      <4>2. PICK n \in 1 .. Len(work_list[r]) : work_list'[r][k] = work_list[r][n]
        BY <1>7, <2>2
      <4>3. work_list[s][m] = work_list[r][n]
        BY <2>2, <4>1, <4>2
      <4> QED
        BY <1>2, <4>3 DEF ListedOnce
    <3>2. CASE s = t
      BY <1>4, <1>5, <2>2, <3>1, <3>2 DEF Once, Lacks
    <3>3. CASE s # t
      BY <1>2, <1>5, <2>2, <3>1, <3>3 DEF ListedOnce
    <3> QED
      BY <3>1, <3>2, <3>3
  <2> QED
    BY <2>1, <2>2 DEF ListedOnce
<1>9. TodoListed'
  <2>1. ASSUME NEW s \in Threads, s # t, NEW f, Entry(f, s) PROVE Entry(f, s)'
    BY <1>5, <2>1 DEF Entry
  <2> QED
    BY <1>2, <2>1 DEF TodoListed, Engaged
<1>10. WokenIsPoller'
  <2>1. ASSUME NEW f \in Engines, life'[f] = "ready"
        PROVE  cmplthp'[f] \in Alive' /\ Entry(f, cmplthp[f])'
    <3>1. f # e /\ life[f] = "ready" /\ cmplthp' = cmplthp /\ Alive' = Alive
      BY <1>2, <2>1 DEF WorkTypeOK, Alive
    <3>2. cmplthp[f] \in Alive /\ Entry(f, cmplthp[f])
      BY <1>2, <3>1 DEF WokenIsPoller
    <3>3. PICK s \in Threads : s = cmplthp[f]
      BY <1>2, <3>2, AliveThreads
    <3>4. PICK k \in 1 .. Len(work_list[s]) : work_list[s][k] = f
      BY <3>2, <3>3 DEF Entry
    <3>5. \E j \in 1 .. Len(work_list'[s]) : work_list'[s][j] = f
      <4>1. CASE s = t
        <5>1. k \in 1 .. Len(w) /\ w[k] = f /\ k # i
          BY <1>1, <3>1, <3>4, <4>1
        <5>2. PICK j \in 1 .. Len(u) : u[j] = w[k]
          BY <1>4, <5>1 DEF Lacks
        <5> QED
          BY <1>5, <4>1, <5>1, <5>2
      <4>2. CASE s # t
        BY <1>5, <3>4, <4>2
      <4> QED
        BY <4>1, <4>2
    <3> QED
      BY <3>1, <3>2, <3>3, <3>5 DEF Entry
  <2>2. ASSUME NEW x \in Xfers, call'[x] \in {"queued", "waits"}
        PROVE  life'[EngineOf[x]] = "ready"
    BY <1>2, <2>2 DEF WokenIsPoller, WorkTypeOK
  <2> QED
    BY <2>1, <2>2 DEF WokenIsPoller
<1> QED
  BY <1>6, <1>8, <1>9, <1>10 DEF WorkInv

\* A step of a thread goes through its own list and changes no list.
LEMMA WorkThread ==
  ASSUME WorkInv, NEW t \in Alive, ThreadStep(t)
  PROVE  WorkInv'
<1>0. /\ WorkTypeOK /\ ListedOnce /\ TodoListed /\ WokenIsPoller
      /\ t \in Threads
      /\ UNCHANGED <<thread_cnt, work_list, cmplthp, life, call>>
  BY AliveThreads DEF WorkInv, ThreadStep, Test, Wait, Clear, PollEnds, PollRead,
     PollZero, Service, workVars
<1>1. ListedOnce' /\ WokenIsPoller'
  BY <1>0, SMTT(30) DEF ListedOnce, WokenIsPoller, Entry, Alive
<1>2. SUFFICES ASSUME NEW l \in Seq(Engines),
                      todo' = [todo EXCEPT ![t] = l],
                      NEW p, pc' = [pc EXCEPT ![t] = p],
                      p \in {"test", "wait", "asleep", "clear", "poll", "zero",
                             "service", "exit"},
                      IF p \in {"poll", "zero", "service"}
                      THEN l # <<>> /\ \A i \in 1 .. Len(l) : Entry(l[i], t)
                      ELSE l = <<>>
               PROVE  WorkInv'
  <2>1. /\ todo[t] \in Seq(Engines) /\ todo = [todo EXCEPT ![t] = todo[t]]
        /\ Engaged(t) => /\ todo[t] # <<>>
                         /\ \A i \in 1 .. Len(todo[t]) : Entry(todo[t][i], t)
        /\ ~Engaged(t) => todo[t] = <<>>
    BY <1>0 DEF WorkTypeOK, TodoListed
  <2>2. ASSUME NEW l \in Seq(Engines), \A i \in 1 .. Len(l) : Entry(l[i], t),
               Turn(t, l)
        PROVE  WorkInv'
    <3>1. todo' = [todo EXCEPT ![t] = l]
      BY <2>2 DEF Turn
    <3>2. CASE l = <<>>
      <4>1. pc' = [pc EXCEPT ![t] = "test"]
        BY <2>2, <3>2 DEF Turn, Go
      <4> QED
        BY <1>2, <3>1, <3>2, <4>1
    <3>3. CASE l # <<>>
      <4>1. pc' = [pc EXCEPT ![t] = "poll"]
        BY <2>2, <3>3 DEF Turn, Go
      <4> QED
        BY <1>2, <2>2, <3>1, <3>3, <4>1
    <3> QED
      BY <3>2, <3>3
  <2>3. CASE Test(t) \/ Wait(t)
    <3>1. PICK p \in {"exit", "clear", "wait", "asleep"} :
            pc' = [pc EXCEPT ![t] = p]
      BY <2>3 DEF Test, Wait, Go
    <3>2. ~Engaged(t) /\ todo' = todo
      BY <2>3 DEF Test, Wait, Engaged
    <3> QED
      BY <1>2, <2>1, <3>1, <3>2
  <2>4. CASE Clear(t)
    <3>1. Turn(t, work_list[t]) /\ work_list[t] \in Seq(Engines)
      BY <1>0, <2>4 DEF Clear, WorkTypeOK
    <3>2. \A i \in 1 .. Len(work_list[t]) : Entry(work_list[t][i], t)
      BY DEF Entry
    <3> QED
      BY <2>2, <3>1, <3>2
  <2>5. CASE PollEnds(t) \/ Service(t)
    <3>1. Turn(t, Tail(todo[t])) /\ Engaged(t)
      BY <2>5 DEF PollEnds, Service, Polled, Engaged
    <3>2. /\ Tail(todo[t]) \in Seq(Engines)
          /\ Len(Tail(todo[t])) = Len(todo[t]) - 1 /\ Len(todo[t]) \in Nat
          /\ \A i \in 1 .. Len(Tail(todo[t])) : Tail(todo[t])[i] = todo[t][i + 1]
      BY <2>1, <3>1, HeadTailProperties, LenProperties
    <3>3. \A i \in 1 .. Len(Tail(todo[t])) : Entry(Tail(todo[t])[i], t)
      BY <2>1, <3>1, <3>2
    <3> QED
      BY <2>2, <3>1, <3>2, <3>3
  <2>6. CASE PollRead(t) \/ PollZero(t)
    <3>1. PICK p \in {"poll", "zero", "service"} : pc' = [pc EXCEPT ![t] = p]
      BY <2>6 DEF PollRead, PollZero, Go
    <3>2. Engaged(t) /\ todo' = todo
      BY <2>6 DEF PollRead, PollZero, Engaged
    <3> QED
      BY <1>2, <2>1, <3>1, <3>2
  <2> QED
    BY <2>3, <2>4, <2>5, <2>6 DEF ThreadStep
<1>3. WorkTypeOK'
  BY <1>0, <1>2 DEF WorkTypeOK
<1>4. TodoListed'
  <2>1. \A f, s : s \in Threads => (Entry(f, s)' <=> Entry(f, s))
    BY <1>0 DEF Entry
  <2>2. ASSUME NEW s \in Threads, s # t
        PROVE  todo'[s] = todo[s] /\ (Engaged(s)' <=> Engaged(s))
    BY <1>0, <1>2, <2>2 DEF Engaged, WorkTypeOK
  <2>3. todo'[t] = l /\ pc'[t] = p
    BY <1>0, <1>2 DEF WorkTypeOK
  <2> QED
    BY <1>0, <1>2, <2>1, <2>2, <2>3 DEF TodoListed, Engaged
<1> QED
  BY <1>1, <1>3, <1>4 DEF WorkInv

\* A step that only wakes a thread, or moves a caller or an engine on.
LEMMA WorkFrame ==
  ASSUME WorkInv, UNCHANGED <<thread_cnt, work_list, todo>>,
         \/ UNCHANGED pc
         \/ \E t \in Threads : pc' = Awake(t),
         WokenIsPoller', WorkTypeOK',
         \A e \in Engines : \/ life'[e] = life[e]
                            \/ life[e] = "ready" /\ life'[e] = "unlink"
  PROVE  WorkInv'
<1>0. WorkTypeOK /\ ListedOnce /\ TodoListed
  BY DEF WorkInv
<1>1. ListedOnce'
  <2>1. \A t \in Threads : \A i \in 1 .. Len(work_list[t]) : work_list[t][i] \in Engines
    BY <1>0, ElementOfSeq DEF WorkTypeOK
  <2> QED
    BY <1>0, <2>1 DEF ListedOnce
<1>2. \A t \in Threads : Engaged(t)' <=> Engaged(t)
  BY <1>0 DEF Engaged, Awake, WorkTypeOK
<1>3. TodoListed'
  BY <1>0, <1>2 DEF TodoListed, Entry
<1> QED
  BY <1>1, <1>3 DEF WorkInv

\* Everything else leaves the lists alone.
LEMMA WorkOther ==
  ASSUME WorkInv,
         \/ \E e \in Engines : RemoveWork(e) \/ HwMove(e) \/ HwError(e)
         \/ \E x \in Xfers : TransferQueue(x) \/ CallStep(x)
         \/ \E t \in Threads : StopFlag(t) \/ KthreadStop(t)
  PROVE  WorkInv'
<1>0. WorkTypeOK /\ ListedOnce /\ TodoListed /\ WokenIsPoller
  BY DEF WorkInv
<1>1. UNCHANGED <<thread_cnt, work_list, todo>>
  BY DEF RemoveWork, HwMove, HwError, TransferQueue, CallStep, Wakeup, Returns,
     TimesOut, StopFlag, KthreadStop, workVars, threadVars
<1>2. ASSUME NEW e \in Engines, RemoveWork(e) PROVE WorkInv'
  <2>1. /\ life' = [life EXCEPT ![e] = "unlink"] /\ life[e] = "ready"
        /\ cmplthp' = [cmplthp EXCEPT ![e] = -1] /\ UNCHANGED <<pc, call>>
        /\ \A x \in Xfers : EngineOf[x] = e => call[x] = "done"
    BY <1>2 DEF RemoveWork, threadVars
  <2>2. WorkTypeOK'
    BY <1>0, <1>1, <2>1 DEF WorkTypeOK
  <2>3. WokenIsPoller'
    BY <1>0, <1>1, <2>1 DEF WokenIsPoller, WorkTypeOK, Entry, Alive
  <2>4. \A f \in Engines : life'[f] = life[f] \/ f = e
    BY <1>0, <2>1 DEF WorkTypeOK
  <2>5. life'[e] = "unlink"
    BY <1>0, <2>1 DEF WorkTypeOK
  <2> QED
    BY <1>1, <2>1, <2>2, <2>3, <2>4, <2>5, WorkFrame
<1>3. ASSUME UNCHANGED <<cmplthp, life>>, WorkTypeOK',
             \A x \in Xfers : call'[x] \in {"queued", "waits"} =>
                                \/ call[x] \in {"queued", "waits"}
                                \/ life[EngineOf[x]] = "ready",
             \/ UNCHANGED pc
             \/ \E t \in Threads : pc' = Awake(t)
      PROVE  WorkInv'
  <2>1. WokenIsPoller'
    BY <1>0, <1>1, <1>3 DEF WokenIsPoller, Entry, Alive
  <2> QED
    BY <1>1, <1>3, <2>1, WorkFrame
<1>4. ASSUME NEW e \in Engines, HwMove(e) \/ HwError(e) PROVE WorkInv'
  <2>1. UNCHANGED <<cmplthp, life, pc, call>>
    BY <1>4 DEF HwMove, HwError, workVars, threadVars
  <2> QED
    BY <1>0, <1>1, <1>3, <2>1 DEF WorkTypeOK
<1>5. ASSUME NEW x \in Xfers, TransferQueue(x) PROVE WorkInv'
  <2>1. /\ UNCHANGED <<cmplthp, life, pc>>
        /\ call' = [call EXCEPT ![x] = "queued"]
        /\ life[EngineOf[x]] = "ready"
    BY <1>5 DEF TransferQueue, workVars, threadVars
  <2>2. WorkTypeOK'
    BY <1>0, <1>1, <2>1 DEF WorkTypeOK
  <2> QED
    BY <1>0, <1>3, <2>1, <2>2 DEF WorkTypeOK
<1>6. ASSUME NEW x \in Xfers, CallStep(x) PROVE WorkInv'
  <2>1. PICK c \in {"waits", "done"} : call' = [call EXCEPT ![x] = c]
    BY <1>6 DEF CallStep, Wakeup, Returns, TimesOut
  <2>2. UNCHANGED <<cmplthp, life>> /\ call[x] \in {"queued", "waits"}
    BY <1>6 DEF CallStep, Wakeup, Returns, TimesOut, workVars
  <2>3. \/ UNCHANGED pc
        \/ \E t \in Threads : pc' = Awake(t)
    <3>1. life[EngineOf[x]] = "ready" /\ EngineOf[x] \in Engines
      BY <1>0, <2>2 DEF WokenIsPoller
    <3>2. cmplthp[EngineOf[x]] \in Threads
      BY <1>0, <3>1, AliveThreads DEF WokenIsPoller
    <3> QED
      BY <1>6, <3>2 DEF CallStep, Wakeup, Returns, TimesOut, threadVars
  <2>4. WorkTypeOK'
    BY <1>0, <1>1, <2>1, <2>2, <2>3 DEF WorkTypeOK, Awake
  <2> QED
    BY <1>0, <1>3, <2>1, <2>2, <2>3, <2>4 DEF WorkTypeOK
<1>7. ASSUME NEW t \in Threads, StopFlag(t) \/ KthreadStop(t) PROVE WorkInv'
  <2>1. UNCHANGED <<cmplthp, life, call>> /\ (pc' = pc \/ pc' = Awake(t))
    BY <1>7 DEF StopFlag, KthreadStop, workVars
  <2>2. WorkTypeOK'
    BY <1>0, <1>1, <2>1 DEF WorkTypeOK, Awake
  <2> QED
    BY <1>0, <1>3, <2>1, <2>2
<1> QED
  BY <1>2, <1>4, <1>5, <1>6, <1>7

\* Every step keeps the lists and the engines on them together.
LEMMA WorkStep == WorkInv /\ [Next]_vars => WorkInv'
<1> SUFFICES ASSUME WorkInv, [Next]_vars PROVE WorkInv'
  OBVIOUS
<1>1. CASE UNCHANGED vars
  BY <1>1 DEF vars, WorkInv, WorkTypeOK, ListedOnce, TodoListed, WokenIsPoller,
     Entry, Engaged, Alive
<1>2. CASE Next
  BY <1>2, WorkAdd, WorkDel, WorkThread, WorkOther DEF Next, Unload
<1> QED
  BY <1>1, <1>2

\* The thread that is woken for an engine is the one that polls it, for any
\* number of threads and engines: xdma_thread_add_work always finds a thread,
\* and no engine is on two lists.
THEOREM WakesPoller == Spec => []WokenIsPoller
<1>1. WorkInv => WokenIsPoller
  BY DEF WorkInv
<1> QED
  BY <1>1, WorkInit, WorkStep, PTL DEF Spec

\* xdma_thread_remove_work returns only when no thread looks, or will look, at
\* the engine, for any number of threads and engines: the thread lock keeps the
\* entry until the pass over the list that has seen it is over.
THEOREM GoneUnused == Spec => []GoneIsUnused
<1>1. WorkInv => GoneIsUnused
  <2> SUFFICES ASSUME WorkInv, NEW t \in Alive, Locked(t),
                      NEW i \in 1 .. Len(todo[t])
               PROVE  life[todo[t][i]] # "gone"
    BY DEF GoneIsUnused
  <2>1. t \in Threads /\ ListedOnce /\ TodoListed
    BY AliveThreads DEF WorkInv
  <2>2. Entry(todo[t][i], t)
    <3>1. todo[t] # <<>>
      OBVIOUS
    <3> QED
      BY <2>1, <3>1 DEF TodoListed
  <2> QED
    BY <2>1, <2>2 DEF Entry, ListedOnce
<1> QED
  BY <1>1, WorkInit, WorkStep, PTL DEF Spec

-----------------------------------------------------------------------------
(***************************************************************************)
(* The count of a write-back word.                                         *)
(***************************************************************************)
\* Induction up to a bound, over sets.
LEMMA UpTo ==
  ASSUME NEW n \in Nat, NEW S, 0 \in S,
         \A i \in 0 .. n : i + 1 \in 0 .. n /\ i \in S => i + 1 \in S
  PROVE  \A i \in 0 .. n : i \in S
<1> SUFFICES ASSUME NEW b \in 0 .. n, b \notin S PROVE FALSE
  OBVIOUS
<1> DEFINE Bad == {i \in 0 .. n : i \notin S}
<1>1. Bad \in SUBSET Nat /\ Bad # {}
  OBVIOUS
<1>2. PICK m \in Bad : \A k \in Bad : m <= k
  BY <1>1, LeastNat
<1>3. m \in 0 .. n /\ m \notin S /\ m # 0
  BY <1>2
<1>4. m - 1 \in 0 .. n /\ (m - 1) + 1 = m /\ ~(m <= m - 1)
  BY <1>3
<1>5. m - 1 \in S
  BY <1>2, <1>4
<1> QED
  BY <1>3, <1>4, <1>5

\* f adds up the first n values of a.
Adds(f, a, n) ==
  /\ f \in [0 .. n -> Nat]
  /\ f[0] = 0
  /\ \A i \in 1 .. n : f[i] = f[i - 1] + a[i]

\* There are sums.
LEMMA SumExists ==
  ASSUME NEW n \in Nat, NEW a, \A i \in 1 .. n : a[i] \in Nat
  PROVE  \E f : Adds(f, a, n)
<1> DEFINE S == {m \in 0 .. n : \E f : Adds(f, a, m)}
<1>1. 0 \in S
  <2> DEFINE g == [i \in 0 .. 0 |-> 0]
  <2>1. Adds(g, a, 0)
    BY DEF Adds
  <2> QED
    BY <2>1
<1>2. ASSUME NEW m \in 0 .. n, m + 1 \in 0 .. n, m \in S PROVE m + 1 \in S
  <2>1. PICK f : Adds(f, a, m)
    BY <1>2
  <2> DEFINE g == [i \in 0 .. m + 1 |-> IF i = m + 1 THEN f[m] + a[m + 1] ELSE f[i]]
  <2>2. f \in [0 .. m -> Nat] /\ f[0] = 0 /\ a[m + 1] \in Nat
    BY <1>2, <2>1 DEF Adds
  <2>3. g \in [0 .. m + 1 -> Nat] /\ g[0] = 0
    BY <2>2
  <2>4. ASSUME NEW i \in 1 .. m + 1 PROVE g[i] = g[i - 1] + a[i]
    <3>1. CASE i = m + 1
      BY <2>2, <3>1
    <3>2. CASE i # m + 1
      <4>1. i \in 1 .. m /\ i - 1 \in 0 .. m /\ i - 1 # m + 1
        BY <3>2
      <4>2. f[i] = f[i - 1] + a[i]
        BY <2>1, <4>1 DEF Adds
      <4> QED
        BY <4>1, <4>2
    <3> QED
      BY <3>1, <3>2
  <2>5. Adds(g, a, m + 1)
    BY <2>3, <2>4 DEF Adds
  <2> QED
    BY <1>2, <2>5
<1>3. \A i \in 0 .. n : i \in S
  <2> HIDE DEF S
  <2> QED
    BY <1>1, <1>2, UpTo
<1>4. n \in S
  BY <1>3
<1> QED
  BY <1>4

\* The sum that Total is.
LEMMA TotalFacts ==
  ASSUME NEW l \in Seq(Xfers)
  PROVE  /\ Total(l, 0) = 0
         /\ \A k \in 1 .. Len(l) : Total(l, k) \in Nat /\ DescNum[l[1]] <= Total(l, k)
<1> DEFINE n == Len(l)
           a == [i \in 1 .. n |-> DescNum[l[i]]]
           Rec(f) == f = [i \in 0 .. n |-> IF i = 0 THEN 0 ELSE f[i - 1] + DescNum[l[i]]]
           sum == CHOOSE f : Rec(f)
<1>0. n \in Nat /\ \A i \in 1 .. n : l[i] \in Xfers /\ a[i] \in Nat /\ a[i] = DescNum[l[i]]
  BY LenProperties, ElementOfSeq
<1>1. PICK g : Adds(g, a, n)
  <2> HIDE DEF a, n
  <2> QED
    BY <1>0, SumExists
<1>2. Rec(g)
  <2> HIDE DEF a, n
  <2>1. g \in [0 .. n -> Nat] /\ g[0] = 0 /\ \A i \in 1 .. n : g[i] = g[i - 1] + DescNum[l[i]]
    BY <1>0, <1>1 DEF Adds
  <2> QED
    BY <1>0, <2>1
<1>3. Rec(sum)
  BY <1>2
<1>4. \A k : Total(l, k) = sum[k]
  BY DEF Total
<1> HIDE DEF sum, a, n
<1>5. sum[0] = 0
  BY <1>0, <1>3
<1>6. \A i \in 1 .. n : sum[i] = sum[i - 1] + DescNum[l[i]]
  BY <1>0, <1>3
<1> DEFINE S == {i \in 0 .. n : sum[i] \in Nat /\ (i # 0 => DescNum[l[1]] <= sum[i])}
<1>7. 0 \in S
  BY <1>0, <1>5
<1>8. ASSUME NEW m \in 0 .. n, m + 1 \in 0 .. n, m \in S PROVE m + 1 \in S
  <2>1. m + 1 \in 1 .. n /\ 1 \in 1 .. n
    BY <1>0, <1>8
  <2>2. PICK d : d = DescNum[l[m + 1]]
    OBVIOUS
  <2>3. d \in Nat /\ DescNum[l[1]] \in Nat
    BY <1>0, <2>1, <2>2
  <2>4. sum[m + 1] = sum[m] + d
    BY <1>6, <2>1, <2>2
  <2>5. CASE m = 0
    BY <1>5, <1>8, <2>2, <2>3, <2>4, <2>5
  <2>6. CASE m # 0
    BY <1>8, <2>3, <2>4, <2>6
  <2> QED
    BY <2>5, <2>6
<1>9. \A i \in 0 .. n : i \in S
  <2> HIDE DEF S
  <2> QED
    BY <1>0, <1>7, <1>8, UpTo
<1>10. ASSUME NEW k \in 1 .. n PROVE sum[k] \in Nat /\ DescNum[l[1]] <= sum[k]
  <2>1. k \in 0 .. n /\ k # 0
    BY <1>0
  <2>2. k \in S
    BY <1>9, <2>1
  <2> QED
    BY <2>1, <2>2
<1> HIDE DEF S
<1> QED
  BY <1>4, <1>5, <1>10, Zenon DEF n

\* engine_service() passes over no more transfers than there are, and over none
\* if the count does not exceed the first.
LEMMA PassedFacts ==
  ASSUME NEW l \in Seq(Xfers), NEW c \in Nat
  PROVE  /\ Passed(l, c) \in 0 .. Len(l)
         /\ l # <<>> /\ c <= DescNum[l[1]] => Passed(l, c) = 0
<1> DEFINE P == {k \in 1 .. Len(l) : Total(l, k) < c}
<1>0. PICK n \in Nat : n = Len(l)
  BY LenProperties
<1>1. IsFiniteSet(1 .. n) /\ Cardinality(1 .. n) = n
  <2>1. IsFiniteSet(1 .. n) /\ Cardinality(1 .. n) = IF 1 > n THEN 0 ELSE n - 1 + 1
    BY FS_Interval
  <2> QED
    BY <2>1
<1>2. P \subseteq 1 .. n
  BY <1>0
<1>3. Cardinality(P) \in Nat /\ Cardinality(P) <= n
  <2> HIDE DEF P
  <2>1. IsFiniteSet(P) /\ Cardinality(P) <= Cardinality(1 .. n)
    BY <1>1, <1>2, FS_Subset
  <2> QED
    BY <1>1, <2>1, FS_CardinalityType
<1>4. ASSUME l # <<>>, c <= DescNum[l[1]] PROVE Cardinality(P) = 0
  <2>1. n # 0
    BY <1>0, <1>4, EmptySeq
  <2>2. PICK d : d = DescNum[l[1]]
    OBVIOUS
  <2>3. d \in Nat
    <3>1. 1 \in 1 .. n
      BY <1>0, <2>1
    <3> QED
      BY <1>0, <2>2, <3>1, ElementOfSeq
  <2>4. ASSUME NEW k \in 1 .. Len(l) PROVE ~(Total(l, k) < c)
    <3>1. PICK z : z = Total(l, k)
      OBVIOUS
    <3>2. z \in Nat /\ d <= z
      BY <2>2, <3>1, TotalFacts
    <3>3. ~(z < c)
      BY <1>4, <2>2, <2>3, <3>2
    <3> QED
      BY <3>1, <3>3
  <2>5. P = {}
    BY <2>4
  <2> QED
    BY <2>5, FS_EmptySet
<1>5. Passed(l, c) = Cardinality(P)
  BY DEF Passed
<1> HIDE DEF P
<1> QED
  BY <1>0, <1>3, <1>4, <1>5

-----------------------------------------------------------------------------
(***************************************************************************)
(* Engines whose callers do not time out.                                  *)
(***************************************************************************)

Free  == Engines \ Blocking
Words == [n : Nat, err : BOOLEAN]

PollTypeOK ==
  /\ DOMAIN list = Engines /\ list = [e \in Engines |-> list[e]]
  /\ \A e \in Engines : list[e] \in Seq(Of(e))
  /\ state \in [Xfers -> {"NEW", "SUBMITTED", "COMPLETED", "FAILED", "ABORTED"}]
  /\ running \in [Engines -> BOOLEAN] /\ status \in [Engines -> BOOLEAN]
  /\ wb \in [Engines -> Words] /\ desc_wb \in [Threads -> Words]
  /\ hw \in [Engines -> [busy : BOOLEAN, done : Nat, err : BOOLEAN]]

Num(e) == DescNum[Head(list[e])]
Listed(x) == \E i \in 1 .. Len(list[EngineOf[x]]) : list[EngineOf[x]][i] = x

\* Word w is the count of the oldest transfer, at which the engine stands.
WordOK(e, w) ==
  /\ running[e] /\ list[e] # <<>> /\ ~hw[e].busy
  /\ w.n = hw[e].done /\ w.n <= Num(e)

\* An engine that runs has something to do, one that does not has counted
\* nothing, and what it has written back is about the oldest transfer.
FreeOK(e) ==
  /\ running[e] => list[e] # <<>>
  /\ ~running[e] => ~hw[e].busy /\ hw[e].done = 0
  /\ hw[e].busy => hw[e].done < Num(e)
  /\ wb[e] # Nothing => WordOK(e, wb[e])

\* So is what a thread has read, until the engine is serviced for it.
ReadOK ==
  \A t \in Alive : pc[t] \in {"zero", "service"} /\ Head(todo[t]) \in Free =>
    /\ WordOK(Head(todo[t]), desc_wb[t])
    /\ pc[t] = "service" => wb[Head(todo[t])] = Nothing

\* Only the callers of blocking engines wait, and one at a time.
Open(x) == call[x] \in {"queued", "waits"}
CallsOK ==
  \A x \in Xfers :
    /\ call[x] = "idle" => state[x] = "NEW" /\ ~Listed(x)
    /\ call[x] = "waits" => EngineOf[x] \in Blocking
    /\ EngineOf[x] \in Blocking /\ state[x] = "SUBMITTED" => Open(x) /\ Listed(x)
    /\ \A y \in Xfers : /\ EngineOf[x] \in Blocking /\ EngineOf[y] = EngineOf[x]
                        /\ Open(x) /\ Open(y)
                        => x = y

PollInv == PollTypeOK /\ CallsOK /\ ReadOK /\ \A e \in Free : FreeOK(e)

\* A step of the contract of engine e.
Keeps(e) == Contract(e)!ContractNext \/ UNCHANGED Contract(e)!contractVars

\* The contract does not see what happens elsewhere.
LEMMA KeepsFrame ==
  ASSUME NEW e, list'[e] = list[e], hw'[e].done = hw[e].done,
         \A x \in Of(e) : state'[x] = state[x]
  PROVE  Keeps(e)
  BY DEF Keeps, Contract!contractVars, Of

\* A step leaves engine e alone.
Stays(e) == list'[e] = list[e] /\ running'[e] = running[e] /\ hw'[e] = hw[e]

\* What is known of an engine outlives steps that leave it alone.
LEMMA StaysOK ==
  ASSUME NEW e, Stays(e)
  PROVE  /\ \A w : WordOK(e, w)' <=> WordOK(e, w)
         /\ FreeOK(e) /\ wb'[e] \in {wb[e], Nothing} => FreeOK(e)'
  BY DEF Stays, WordOK, FreeOK, Num

\* The head of a list.
LEMMA HeadFacts ==
  ASSUME PollTypeOK, NEW e \in Engines, list[e] # <<>>
  PROVE  /\ Head(list[e]) = list[e][1] /\ Head(list[e]) \in Of(e) /\ list[e][1] \in Xfers
         /\ Num(e) \in Nat /\ Num(e) > 0
         /\ 1 \in 1 .. Len(list[e]) /\ Tail(list[e]) \in Seq(Of(e))
<1>1. list[e] \in Seq(Of(e))
  BY DEF PollTypeOK
<1>2. Head(list[e]) = list[e][1] /\ Head(list[e]) \in Of(e) /\ Tail(list[e]) \in Seq(Of(e))
  BY <1>1, HeadTailProperties
<1>3. Len(list[e]) \in Nat /\ Len(list[e]) # 0
  BY <1>1, EmptySeq, LenProperties
<1> QED
  BY <1>2, <1>3 DEF Of, Num

\* Two threads look at different engines.
LEMMA OneReader ==
  ASSUME WorkInv, NEW t \in Alive, NEW u \in Alive, Engaged(t), Engaged(u),
         Head(todo[t]) = Head(todo[u])
  PROVE  t = u
<1>1. t \in Threads /\ u \in Threads /\ ListedOnce /\ TodoListed /\ WorkTypeOK
  BY AliveThreads DEF WorkInv
<1>2. ASSUME NEW v \in Threads, Engaged(v)
      PROVE  Entry(Head(todo[v]), v) /\ Head(todo[v]) \in Engines
  <2>1. todo[v] # <<>> /\ todo[v] \in Seq(Engines)
    BY <1>1, <1>2 DEF TodoListed, WorkTypeOK
  <2>2. Len(todo[v]) \in Nat /\ Len(todo[v]) # 0
    BY <2>1, EmptySeq, LenProperties
  <2>3. 1 \in 1 .. Len(todo[v]) /\ Head(todo[v]) = todo[v][1] /\ todo[v][1] \in Engines
    BY <2>1, <2>2, HeadTailProperties
  <2> QED
    BY <1>1, <1>2, <2>3 DEF TodoListed
<1>3. Entry(Head(todo[t]), t) /\ Entry(Head(todo[t]), u)
  BY <1>1, <1>2
<1> QED
  BY <1>1, <1>3 DEF Entry, ListedOnce

\* The engine a thread looks at.
LEMMA HeadTodo ==
  ASSUME WorkInv, NEW t \in Alive, Engaged(t)
  PROVE  t \in Threads /\ Head(todo[t]) \in Engines
<1>1. t \in Threads /\ TodoListed /\ WorkTypeOK
  BY AliveThreads DEF WorkInv
<1>2. todo[t] # <<>> /\ todo[t] \in Seq(Engines)
  BY <1>1 DEF TodoListed, WorkTypeOK
<1> QED
  BY <1>1, <1>2, HeadTailProperties

\* Everything is idle.
LEMMA PollInit == Init => PollInv /\ \A e \in Free : Contract(e)!ContractInit
<1> SUFFICES ASSUME Init PROVE PollInv /\ \A e \in Free : Contract(e)!ContractInit
  OBVIOUS
<1>1. PollTypeOK
  <2>1. Nothing \in Words
    BY DEF Nothing, Words
  <2>2. \A e \in Engines : list[e] = <<>> /\ <<>> \in Seq(Of(e))
    BY DEF Init
  <2>3. status \in [Engines -> BOOLEAN] /\ running \in [Engines -> BOOLEAN]
    BY DEF Init
  <2>4. hw \in [Engines -> [busy : BOOLEAN, done : Nat, err : BOOLEAN]]
    BY DEF Init
  <2> QED
    BY <2>1, <2>2, <2>3, <2>4 DEF Init, KthreadStart, PollTypeOK
<1>2. CallsOK
  <2>1. \A x \in Xfers : ~Listed(x)
    <3>1. \A x \in Xfers : list[EngineOf[x]] = <<>>
      BY DEF Init
    <3>2. \A x \in Xfers : Len(list[EngineOf[x]]) = 0
      BY <3>1
    <3> QED
      BY <3>2 DEF Listed
  <2> QED
    BY <2>1 DEF Init, CallsOK, Open
<1>3. ReadOK
  <2>1. Alive \subseteq Threads
    BY WorkInit, AliveThreads DEF WorkInv
  <2> QED
    BY <2>1 DEF Init, KthreadStart, ReadOK
<1>4. \A e \in Free : FreeOK(e)
  BY DEF Init, Free, FreeOK
<1>5. ASSUME NEW e \in Free PROVE Contract(e)!ContractInit
  BY DEF Init, Free, Contract!ContractInit, Of
<1> QED
  BY <1>1, <1>2, <1>3, <1>4, <1>5 DEF PollInv

\* A step that does not take a thread to a word.
Reads(t) == pc'[t] \in {"zero", "service"} =>
              pc'[t] = pc[t] /\ todo'[t] = todo[t] /\ desc_wb'[t] = desc_wb[t]

\* A step of one engine: what is to be shown of it.
LEMMA PollAt ==
  ASSUME PollInv, NEW e \in Engines, thread_cnt' = thread_cnt,
         \A f \in Engines : f # e => /\ Stays(f) /\ wb'[f] = wb[f]
                                     /\ \A x \in Of(f) : state'[x] = state[x],
         \A t \in Alive : Reads(t),
         e \in Free =>
           /\ FreeOK(e)' /\ Keeps(e)
           /\ \A t \in Alive, w \in Words :
                /\ pc'[t] \in {"zero", "service"} /\ Head(todo[t]) = e /\ w = desc_wb[t]
                => WordOK(e, w)' /\ (pc[t] = "service" => wb'[e] = Nothing),
         desc_wb \in [Threads -> Words], Alive \subseteq Threads
  PROVE  ReadOK' /\ \A f \in Free : FreeOK(f)' /\ Keeps(f)
<1>0. ReadOK /\ \A f \in Free : FreeOK(f) /\ f \in Engines
  BY DEF PollInv, Free
<1>1. ASSUME NEW f \in Free PROVE FreeOK(f)' /\ Keeps(f)
  <2>1. CASE f = e
    BY <1>1, <2>1
  <2>2. CASE f # e
    <3>1. Stays(f) /\ wb'[f] = wb[f] /\ \A x \in Of(f) : state'[x] = state[x]
      BY <1>0, <2>2
    <3>2. FreeOK(f)'
      BY <1>0, <3>1, StaysOK
    <3>3. Keeps(f)
      BY <3>1, KeepsFrame DEF Stays
    <3> QED
      BY <3>2, <3>3
  <2> QED
    BY <2>1, <2>2
<1>2. ASSUME NEW t \in Alive, pc'[t] \in {"zero", "service"}, Head(todo'[t]) \in Free
      PROVE  /\ WordOK(Head(todo[t]), desc_wb[t])'
             /\ pc'[t] = "service" => wb'[Head(todo'[t])] = Nothing
  <2>1. pc'[t] = pc[t] /\ todo'[t] = todo[t] /\ desc_wb'[t] = desc_wb[t]
    BY <1>2 DEF Reads
  <2>2. PICK f, w : f = Head(todo[t]) /\ w = desc_wb[t]
    OBVIOUS
  <2>3. f \in Free /\ f \in Engines /\ w \in Words
    BY <1>0, <1>2, <2>1, <2>2
  <2>4. WordOK(f, w) /\ (pc[t] = "service" => wb[f] = Nothing)
    BY <1>0, <1>2, <2>1, <2>2, <2>3 DEF ReadOK
  <2>5. WordOK(f, w)' /\ (pc[t] = "service" => wb'[f] = Nothing)
    <3>1. CASE f = e
      BY <1>2, <2>1, <2>2, <2>3, <3>1
    <3>2. CASE f # e
      BY <2>3, <2>4, <3>2, StaysOK
    <3> QED
      BY <3>1, <3>2
  <2> QED
    BY <2>1, <2>2, <2>5
<1>3. Alive' = Alive
  BY DEF Alive
<1>4. ReadOK'
  BY <1>2, <1>3 DEF ReadOK
<1> QED
  BY <1>1, <1>4

\* A step of a caller or of a thread that leaves the engines alone.
LEMMA PollCalm ==
  ASSUME WorkInv, PollInv, thread_cnt' = thread_cnt,
         UNCHANGED <<list, state, running, status, wb, hw>>,
         desc_wb' \in [Threads -> Words], CallsOK', \A t \in Alive : Reads(t)
  PROVE  PollInv' /\ \A e \in Free : Keeps(e)
<1>0. PollTypeOK /\ ReadOK /\ \A f \in Free : FreeOK(f)
  BY DEF PollInv
<1>1. \A e : Stays(e) /\ wb'[e] = wb[e]
  BY DEF Stays
<1>2. PollTypeOK'
  BY <1>0 DEF PollTypeOK, Of
<1>3. ASSUME NEW e \in Free PROVE FreeOK(e)' /\ Keeps(e)
  <2>1. FreeOK(e)'
    BY <1>0, <1>1, StaysOK
  <2>2. Keeps(e)
    BY KeepsFrame
  <2> QED
    BY <2>1, <2>2
<1>4. ReadOK'
  <2>1. Alive' = Alive
    BY DEF Alive
  <2>2. ASSUME NEW t \in Alive, pc'[t] \in {"zero", "service"}, Head(todo'[t]) \in Free
        PROVE  /\ WordOK(Head(todo[t]), desc_wb[t])'
               /\ pc'[t] = "service" => wb'[Head(todo'[t])] = Nothing
    <3>1. pc'[t] = pc[t] /\ todo'[t] = todo[t] /\ desc_wb'[t] = desc_wb[t]
      BY <2>2 DEF Reads
    <3>2. PICK f, w : f = Head(todo[t]) /\ w = desc_wb[t]
      OBVIOUS
    <3>3. WordOK(f, w) /\ (pc[t] = "service" => wb[f] = Nothing)
      BY <1>0, <2>2, <3>1, <3>2 DEF ReadOK
    <3>4. WordOK(f, w)'
      BY <1>1, <3>3, StaysOK
    <3> QED
      BY <3>1, <3>2, <3>3, <3>4
  <2> QED
    BY <2>1, <2>2 DEF ReadOK
<1> QED
  BY <1>2, <1>3, <1>4 DEF PollInv

\* Callers that are left alone.
LEMMA CallsFrame ==
  ASSUME CallsOK, UNCHANGED <<list, state, call>>
  PROVE  CallsOK'
  BY DEF CallsOK, Open, Listed

\* The steps that leave the engines alone.
LEMMA PollOther ==
  ASSUME WorkInv, PollInv,
         \/ UNCHANGED vars
         \/ \E e \in Engines : AddWork(e) \/ RemoveWork(e) \/ ListDel(e)
         \/ \E t \in Threads : StopFlag(t) \/ KthreadStop(t)
         \/ \E t \in Alive : Test(t) \/ Wait(t) \/ Clear(t) \/ PollEnds(t)
         \/ \E x \in Xfers : Wakeup(x) \/ Returns(x)
  PROVE  PollInv' /\ \A e \in Free : Keeps(e)
<1>0. /\ PollTypeOK /\ CallsOK /\ WorkTypeOK /\ Alive \subseteq Threads
      /\ pc \in [Threads -> {"test", "wait", "asleep", "clear", "poll", "zero",
                             "service", "exit"}]
  BY AliveThreads DEF PollInv, WorkInv, WorkTypeOK
<1>1. thread_cnt' = thread_cnt /\ UNCHANGED <<list, state, running, status, wb, hw>>
  BY DEF vars, AddWork, RemoveWork, ListDel, StopFlag, KthreadStop, Test, Wait, Clear,
     PollEnds, Wakeup, Returns, workVars, engineVars
<1>2. ASSUME NEW t \in Threads, pc' = pc \/ pc' = Awake(t), UNCHANGED <<todo, desc_wb>>
      PROVE  desc_wb' \in [Threads -> Words] /\ \A u \in Alive : Reads(u)
  BY <1>0, <1>2 DEF PollTypeOK, Reads, Awake
<1>3. CASE \/ UNCHANGED vars
           \/ \E e \in Engines : AddWork(e) \/ RemoveWork(e) \/ ListDel(e)
  <2>1. UNCHANGED <<pc, todo, desc_wb, call>>
    BY <1>3 DEF vars, AddWork, RemoveWork, ListDel, threadVars
  <2>2. CallsOK'
    BY <1>0, <1>1, <2>1, CallsFrame
  <2>3. desc_wb' \in [Threads -> Words] /\ \A u \in Alive : Reads(u)
    BY <1>0, <2>1 DEF PollTypeOK, Reads
  <2> QED
    BY <1>1, <2>2, <2>3, PollCalm
<1>4. ASSUME NEW t \in Threads, StopFlag(t) \/ KthreadStop(t)
      PROVE  PollInv' /\ \A e \in Free : Keeps(e)
  <2>1. UNCHANGED <<todo, desc_wb, call>> /\ (pc' = pc \/ pc' = Awake(t))
    BY <1>4 DEF StopFlag, KthreadStop
  <2>2. CallsOK'
    BY <1>0, <1>1, <2>1, CallsFrame
  <2> QED
    BY <1>1, <1>2, <2>1, <2>2, PollCalm
<1>5. ASSUME NEW t \in Alive, Test(t) \/ Wait(t) \/ Clear(t) \/ PollEnds(t)
      PROVE  PollInv' /\ \A e \in Free : Keeps(e)
  <2>1. CallsOK'
    <3>1. UNCHANGED call
      BY <1>5 DEF Test, Wait, Clear, PollEnds
    <3> QED
      BY <1>0, <1>1, <3>1, CallsFrame
  <2>2. \E p : /\ pc' = [pc EXCEPT ![t] = p]
               /\ p \in {"exit", "clear", "wait", "asleep", "test", "poll"}
    BY <1>5 DEF Test, Wait, Clear, PollEnds, Polled, Turn, Go
  <2>3. \/ UNCHANGED <<todo, desc_wb>>
        \/ /\ \E l : todo' = [todo EXCEPT ![t] = l]
           /\ desc_wb' = [desc_wb EXCEPT ![t] = Nothing]
    BY <1>5 DEF Test, Wait, Clear, PollEnds, Polled, Turn
  <2>4. Nothing \in Words
    BY DEF Nothing, Words
  <2>5. desc_wb' \in [Threads -> Words]
    BY <1>0, <2>3, <2>4 DEF PollTypeOK
  <2>6. ASSUME NEW u \in Alive PROVE Reads(u)
    <3>1. u \in Threads /\ t \in Threads
      BY <1>0
    <3>2. CASE u = t
      BY <1>0, <2>2, <3>1, <3>2 DEF Reads
    <3>3. CASE u # t
      BY <1>0, <2>2, <2>3, <3>1, <3>3 DEF Reads, PollTypeOK, WorkTypeOK
    <3> QED
      BY <3>2, <3>3
  <2> QED
    BY <1>1, <2>1, <2>5, <2>6, PollCalm
<1>6. ASSUME NEW x \in Xfers, Wakeup(x) \/ Returns(x)
      PROVE  PollInv' /\ \A e \in Free : Keeps(e)
  <2>1. PICK c \in {"waits", "done"} :
          /\ call' = [call EXCEPT ![x] = c]
          /\ c = "waits" => EngineOf[x] \in Blocking
          /\ c = "done" /\ EngineOf[x] \in Blocking => state[x] # "SUBMITTED"
          /\ Open(x)
    BY <1>6 DEF Wakeup, Returns, Open
  <2>2. UNCHANGED <<todo, desc_wb>>
    BY <1>6 DEF Wakeup, Returns, threadVars
  <2>3. pc' = pc \/ pc' = Awake(cmplthp[EngineOf[x]])
    BY <1>6 DEF Wakeup, Returns, threadVars
  <2>4. cmplthp[EngineOf[x]] \in Threads
    BY <1>0, <2>1 DEF WorkInv, WokenIsPoller, Open
  <2>5. /\ call'[x] = c
        /\ \A y \in Xfers : y # x => call'[y] = call[y]
    BY <1>0, <2>1 DEF WorkTypeOK
  <2>6. \A y \in Xfers : Open(y)' => Open(y)
    BY <2>1, <2>5 DEF Open
  <2>7. \A y \in Xfers : Listed(y)' <=> Listed(y)
    BY <1>1 DEF Listed
  <2>8. CallsOK'
    <3> SUFFICES ASSUME NEW y \in Xfers
                 PROVE  /\ call'[y] = "idle" => state'[y] = "NEW" /\ ~Listed(y)'
                        /\ call'[y] = "waits" => EngineOf[y] \in Blocking
                        /\ EngineOf[y] \in Blocking /\ state'[y] = "SUBMITTED"
                             => Open(y)' /\ Listed(y)'
                        /\ \A z \in Xfers :
                             /\ EngineOf[y] \in Blocking /\ EngineOf[z] = EngineOf[y]
                             /\ Open(y)' /\ Open(z)'
                             => y = z
      BY DEF CallsOK
    <3>1. CASE y = x
      BY <1>0, <1>1, <2>1, <2>5, <2>6, <2>7, <3>1 DEF CallsOK, Open
    <3>2. CASE y # x
      BY <1>0, <1>1, <2>1, <2>5, <2>6, <2>7, <3>2 DEF CallsOK, Open
    <3> QED
      BY <3>1, <3>2
  <2> QED
    BY <1>1, <1>2, <2>2, <2>3, <2>4, <2>8, PollCalm
<1> QED
  BY <1>3, <1>4, <1>5, <1>6

\* A thread reads a word, and zeroes it.
LEMMA PollReads ==
  ASSUME WorkInv, PollInv, NEW t \in Alive, PollRead(t) \/ PollZero(t)
  PROVE  PollInv' /\ \A e \in Free : Keeps(e)
<1>0. /\ PollTypeOK /\ CallsOK /\ ReadOK /\ WorkTypeOK /\ Alive \subseteq Threads
      /\ \A f \in Free : FreeOK(f) /\ f \in Engines
  BY AliveThreads DEF PollInv, WorkInv, Free
<1>1. PICK e : e = Head(todo[t])
  OBVIOUS
<1>2. Engaged(t)
  BY DEF PollRead, PollZero, Engaged
<1>3. e \in Engines /\ t \in Threads
  BY <1>1, <1>2, HeadTodo
<1>4. UNCHANGED <<thread_cnt, todo, call, list, state, running, status, hw>>
  BY DEF PollRead, PollZero, workVars, engineVars
<1>5. \A f : Stays(f)
  BY <1>4 DEF Stays
<1>6. wb' = wb \/ wb' = [wb EXCEPT ![e] = Nothing]
  BY <1>1 DEF PollRead, PollZero, Zeroed, engineVars
<1>7. Nothing \in Words
  BY DEF Nothing, Words
<1>8. \A f \in Engines : wb'[f] \in {wb[f], Nothing}
  BY <1>0, <1>6 DEF PollTypeOK
<1>9. PollTypeOK'
  <2>1. wb' \in [Engines -> Words]
    <3>1. wb \in [Engines -> Words]
      BY <1>0 DEF PollTypeOK
    <3>2. CASE wb' = wb
      BY <3>1, <3>2
    <3>3. CASE wb' = [wb EXCEPT ![e] = Nothing]
      BY <1>3, <1>7, <3>1, <3>3
    <3> QED
      BY <1>6, <3>2, <3>3
  <2>2. desc_wb' \in [Threads -> Words]
    BY <1>0, <1>1, <1>3 DEF PollTypeOK, PollRead, PollZero
  <2> QED
    BY <1>0, <1>4, <2>1, <2>2 DEF PollTypeOK, Of
<1>10. CallsOK'
  BY <1>0, <1>4, CallsFrame
<1>11. ASSUME NEW f \in Free PROVE FreeOK(f)' /\ Keeps(f)
  <2>1. FreeOK(f)'
    BY <1>0, <1>5, <1>8, StaysOK
  <2>2. Keeps(f)
    BY <1>4, KeepsFrame
  <2> QED
    BY <2>1, <2>2
<1>12. ReadOK'
  <2>1. Alive' = Alive
    BY <1>4 DEF Alive
  <2>2. ASSUME NEW u \in Alive, pc'[u] \in {"zero", "service"}, Head(todo'[u]) \in Free
        PROVE  /\ WordOK(Head(todo[u]), desc_wb[u])'
               /\ pc'[u] = "service" => wb'[Head(todo'[u])] = Nothing
    <3>1. PICK f, w : f = Head(todo[u]) /\ w = desc_wb'[u]
      OBVIOUS
    <3>2. todo'[u] = todo[u] /\ f \in Free /\ f \in Engines /\ u \in Threads
      BY <1>0, <1>4, <2>2, <3>1
    <3>3. CASE u # t
      <4>1. pc'[u] = pc[u] /\ desc_wb'[u] = desc_wb[u]
        BY <1>0, <1>3, <3>2, <3>3 DEF PollRead, PollZero, Go, WorkTypeOK, PollTypeOK
      <4>2. WordOK(f, w) /\ (pc[u] = "service" => wb[f] = Nothing)
        BY <1>0, <2>2, <3>1, <3>2, <4>1 DEF ReadOK
      <4>3. WordOK(f, w)' /\ (pc[u] = "service" => wb'[f] = Nothing)
        BY <1>5, <1>8, <3>2, <4>2, StaysOK
      <4> QED
        BY <3>1, <3>2, <4>1, <4>3
    <3>4. CASE u = t /\ PollRead(t)
      <4>1. pc'[u] = "zero" /\ w = wb[e] /\ wb[e] # Nothing /\ f = e
        BY <1>0, <1>1, <1>3, <3>1, <3>4 DEF PollRead, Go, WorkTypeOK, PollTypeOK
      <4>2. WordOK(f, w)
        BY <1>0, <3>2, <4>1 DEF FreeOK
      <4>3. WordOK(f, w)'
        BY <1>5, <4>2, StaysOK
      <4> QED
        BY <3>1, <3>2, <4>1, <4>3
    <3>5. CASE u = t /\ PollZero(t)
      <4>1. pc[t] = "zero" /\ desc_wb'[u] = desc_wb[u] /\ f = e /\ wb' = [wb EXCEPT ![e] = Nothing]
        BY <1>1, <3>1, <3>5 DEF PollZero, Zeroed
      <4>2. WordOK(f, w)
        BY <1>0, <3>1, <3>2, <3>5, <4>1 DEF ReadOK
      <4>3. WordOK(f, w)'
        BY <1>5, <4>2, StaysOK
      <4>4. wb'[f] = Nothing
        BY <1>0, <1>3, <4>1 DEF PollTypeOK
      <4> QED
        BY <3>1, <3>2, <4>3, <4>4
    <3> QED
      BY <3>3, <3>4, <3>5
  <2> QED
    BY <2>1, <2>2 DEF ReadOK
<1> QED
  BY <1>9, <1>10, <1>11, <1>12 DEF PollInv

\* The hardware moves on, or stops at an error.
LEMMA PollHw ==
  ASSUME WorkInv, PollInv, NEW e \in Engines, HwMove(e) \/ HwError(e)
  PROVE  PollInv' /\ \A f \in Free : Keeps(f)
<1>0. /\ PollTypeOK /\ CallsOK /\ ReadOK /\ WorkTypeOK /\ Alive \subseteq Threads
      /\ \A f \in Free : FreeOK(f) /\ f \in Engines
  BY AliveThreads DEF PollInv, WorkInv, Free
<1>1. /\ UNCHANGED <<thread_cnt, pc, todo, desc_wb, call, list, state, running, status>>
      /\ hw[e].busy /\ list[e] # <<>>
  BY DEF HwMove, HwError, workVars, threadVars
<1>2. PICK h \in [busy : BOOLEAN, done : Nat, err : BOOLEAN] : h = hw[e]
  BY <1>0 DEF PollTypeOK
<1>3. Num(e) \in Nat /\ Num(e) > 0
  BY <1>0, <1>1, HeadFacts
<1>4. PICK g \in [busy : BOOLEAN, done : Nat, err : BOOLEAN], w \in Words :
        /\ hw' = [hw EXCEPT ![e] = g]
        /\ \/ /\ h.done + 1 < Num(e) /\ g.busy /\ g.done = h.done + 1 /\ wb' = wb
           \/ /\ ~(h.done + 1 < Num(e)) /\ ~g.busy /\ g.done = h.done + 1
              /\ wb' = [wb EXCEPT ![e] = w] /\ w.n = Num(e)
           \/ /\ ~g.busy /\ g.done = h.done
              /\ wb' = [wb EXCEPT ![e] = w] /\ w.n = h.done
  <2>1. CASE HwMove(e)
    <3> DEFINE more == h.done + 1 < Num(e)
               g == [h EXCEPT !.done = @ + 1, !.busy = more]
               w == [n |-> Num(e), err |-> FALSE]
    <3>1. hw' = [hw EXCEPT ![e] = g]
      BY <1>0, <1>2, <2>1 DEF HwMove, Num, PollTypeOK
    <3>2. wb' = IF more THEN wb ELSE [wb EXCEPT ![e] = w]
      BY <1>2, <2>1 DEF HwMove, Num
    <3>3. /\ g \in [busy : BOOLEAN, done : Nat, err : BOOLEAN]
          /\ g.done = h.done + 1 /\ g.busy = more
      <4>1. h.done + 1 \in Nat
        BY <1>2
      <4>2. more \in BOOLEAN
        OBVIOUS
      <4> HIDE DEF more
      <4> QED
        BY <1>2, <4>1, <4>2
    <3>6. w \in Words /\ w.n = Num(e)
      BY <1>3 DEF Words
    <3>4. more => g.busy
      <4> HIDE DEF more, g
      <4> QED
        BY <3>3
    <3>5. ~more => ~g.busy
      <4> HIDE DEF more, g
      <4> QED
        BY <3>3
    <3> HIDE DEF g, w
    <3> QED
      BY <3>1, <3>2, <3>3, <3>4, <3>5, <3>6
  <2>2. CASE HwError(e)
    <3> DEFINE g == [h EXCEPT !.busy = FALSE, !.err = TRUE]
               w == [n |-> h.done, err |-> TRUE]
    <3>1. hw' = [hw EXCEPT ![e] = g] /\ wb' = [wb EXCEPT ![e] = w]
      BY <1>0, <1>2, <2>2 DEF HwError, PollTypeOK
    <3>2. /\ g \in [busy : BOOLEAN, done : Nat, err : BOOLEAN] /\ w \in Words
          /\ g.done = h.done /\ w.n = h.done /\ ~g.busy
      BY <1>2 DEF Words
    <3> HIDE DEF g, w
    <3> QED
      BY <3>1, <3>2
  <2> QED
    BY <2>1, <2>2
<1>5. PollTypeOK'
  <2>1. hw' \in [Engines -> [busy : BOOLEAN, done : Nat, err : BOOLEAN]]
    BY <1>0, <1>4 DEF PollTypeOK
  <2>2. wb' \in [Engines -> Words]
    <3>1. wb \in [Engines -> Words]
      BY <1>0 DEF PollTypeOK
    <3>2. CASE wb' = wb
      BY <3>1, <3>2
    <3>3. CASE wb' = [wb EXCEPT ![e] = w]
      BY <1>4, <3>1, <3>3
    <3> QED
      BY <1>4, <3>2, <3>3
  <2>3. \A f \in Engines : list'[f] \in Seq(Of(f))
    BY <1>0, <1>1 DEF PollTypeOK
  <2> QED
    BY <1>0, <1>1, <2>1, <2>2, <2>3 DEF PollTypeOK, Of
<1>6. CallsOK'
  BY <1>0, <1>1, CallsFrame
<1>7. ASSUME NEW f \in Engines, f # e
      PROVE  Stays(f) /\ wb'[f] = wb[f] /\ \A x \in Of(f) : state'[x] = state[x]
  BY <1>0, <1>1, <1>4, <1>7 DEF Stays, PollTypeOK
<1>8. \A t \in Alive : Reads(t)
  BY <1>1 DEF Reads
<1>9. ASSUME e \in Free
      PROVE  /\ FreeOK(e)' /\ Keeps(e)
             /\ \A t \in Alive : ~(pc[t] \in {"zero", "service"} /\ Head(todo[t]) = e)
  <2>1. PICK m, d : m = Num(e) /\ d = h.done
    OBVIOUS
  <2>2. m \in Nat /\ d \in Nat /\ d < m /\ running[e]
    BY <1>0, <1>1, <1>2, <1>3, <1>9, <2>1 DEF FreeOK, PollTypeOK
  <2>3. Num(e)' = m /\ hw'[e] = g /\ list'[e] = list[e] /\ running'[e]
    BY <1>0, <1>1, <1>4, <2>1, <2>2 DEF Num, PollTypeOK
  <2>4. \A t \in Alive : ~(pc[t] \in {"zero", "service"} /\ Head(todo[t]) = e)
    BY <1>0, <1>1, <1>9 DEF ReadOK, WordOK
  <2>5. wb[e] = Nothing
    BY <1>0, <1>1, <1>9 DEF FreeOK, WordOK
  <2>6. CASE d + 1 < m /\ g.busy /\ g.done = d + 1 /\ wb' = wb
    <3>1. FreeOK(e)'
      BY <1>1, <2>3, <2>5, <2>6 DEF FreeOK
    <3>2. Keeps(e)
      <4>1. d # m /\ d + 1 # m
        BY <2>2, <2>6
      <4>2. /\ ~(hw[e].done = DescNum[Head(list[e])])
            /\ ~(hw'[e].done = DescNum[Head(list'[e])])
        BY <1>2, <2>1, <2>3, <2>6, <4>1 DEF Num
      <4> QED
        BY <1>1, <4>2 DEF Keeps, Contract!contractVars
    <3> QED
      BY <2>4, <3>1, <3>2
  <2>7. CASE ~(d + 1 < m) /\ ~g.busy /\ g.done = d + 1 /\ wb' = [wb EXCEPT ![e] = w] /\ w.n = m
    <3>1. d + 1 = m
      BY <2>2, <2>7
    <3>2. wb'[e] = w
      BY <1>0, <2>7 DEF PollTypeOK
    <3>3. m <= m
      BY <2>2
    <3>4. FreeOK(e)'
      BY <1>1, <2>3, <2>7, <3>1, <3>2, <3>3 DEF FreeOK, WordOK
    <3>5. hw'[e].done = DescNum[Head(list'[e])]
      BY <2>3, <2>7, <3>1 DEF Num
    <3>6. Contract(e)!Finish
      BY <1>1, <2>3, <3>5 DEF Contract!Finish
    <3> QED
      BY <2>4, <3>4, <3>6 DEF Keeps, Contract!ContractNext
  <2>8. CASE ~g.busy /\ g.done = d /\ wb' = [wb EXCEPT ![e] = w] /\ w.n = d
    <3>1. wb'[e] = w /\ d <= m
      BY <1>0, <2>2, <2>8 DEF PollTypeOK
    <3>2. FreeOK(e)'
      BY <1>1, <2>3, <2>8, <3>1 DEF FreeOK, WordOK
    <3>3. hw'[e].done = hw[e].done
      BY <1>2, <2>1, <2>3, <2>8
    <3>4. Keeps(e)
      BY <1>1, <3>3, KeepsFrame
    <3> QED
      BY <2>4, <3>2, <3>4
  <2> QED
    BY <1>4, <2>1, <2>6, <2>7, <2>8
<1>10. ReadOK' /\ \A f \in Free : FreeOK(f)' /\ Keeps(f)
  <2>1. desc_wb \in [Threads -> Words]
    BY <1>0 DEF PollTypeOK
  <2> QED
    BY <1>0, <1>1, <1>7, <1>8, <1>9, <2>1, PollAt
<1> QED
  BY <1>5, <1>6, <1>10 DEF PollInv

\* A transfer is queued.
LEMMA PollQueue ==
  ASSUME WorkInv, PollInv, NEW x \in Xfers, TransferQueue(x)
  PROVE  PollInv' /\ \A f \in Free : Keeps(f)
<1>0. /\ PollTypeOK /\ CallsOK /\ ReadOK /\ WorkTypeOK /\ Alive \subseteq Threads
      /\ \A f \in Free : FreeOK(f) /\ f \in Engines
  BY AliveThreads DEF PollInv, WorkInv, Free
<1>1. PICK e \in Engines : e = EngineOf[x] /\ x \in Of(e)
  BY XferAssumption DEF Of
<1>2. PICK l \in Seq(Of(e)) : l = list[e]
  BY <1>0 DEF PollTypeOK
<1>3. PICK h \in [busy : BOOLEAN, done : Nat, err : BOOLEAN] : h = hw[e]
  BY <1>0 DEF PollTypeOK
<1>4. PICK n \in Nat : n = Len(l)
  BY LenProperties
<1>5. PICK m : m = Append(l, x)
  OBVIOUS
<1>6. /\ m \in Seq(Of(e)) /\ Len(m) = n + 1 /\ m # <<>>
      /\ \A i \in 1 .. n : m[i] = l[i]
      /\ m[n + 1] = x
      /\ l # <<>> => Head(m) = Head(l)
  <2>1. m \in Seq(Of(e)) /\ Len(m) = n + 1 /\ m[n + 1] = x /\ \A i \in 1 .. n : m[i] = l[i]
    BY <1>1, <1>2, <1>4, <1>5, AppendProperties
  <2>2. m # <<>>
    BY <1>4, <2>1, EmptySeq
  <2>3. ASSUME l # <<>> PROVE Head(m) = Head(l)
    <3>1. n # 0
      BY <1>2, <1>4, <2>3, EmptySeq
    <3>2. 1 \in 1 .. n
      BY <1>4, <3>1
    <3> QED
      BY <2>1, <2>2, <2>3, <3>2, HeadTailProperties
  <2> QED
    BY <2>1, <2>2, <2>3
<1>7. /\ UNCHANGED <<thread_cnt, pc, todo, desc_wb, wb>>
      /\ list' = [list EXCEPT ![e] = m]
      /\ state' = [state EXCEPT ![x] = "SUBMITTED"]
      /\ running' = [running EXCEPT ![e] = TRUE]
      /\ call' = [call EXCEPT ![x] = "queued"]
      /\ call[x] = "idle"
      /\ e \in Blocking => \A y \in Xfers : EngineOf[y] = e => call[y] \in {"idle", "done"}
  BY <1>0, <1>1, <1>2, <1>5 DEF TransferQueue, workVars, threadVars, PollTypeOK
<1>8. PICK g \in [busy : BOOLEAN, done : Nat, err : BOOLEAN] :
        /\ hw' = [hw EXCEPT ![e] = g]
        /\ running[e] => g = h
        /\ ~running[e] => g.busy /\ g.done = 0
  <2>1. CASE running[e]
    <3>1. hw' = [hw EXCEPT ![e] = h]
      BY <1>0, <1>1, <1>3, <2>1 DEF TransferQueue, PollTypeOK
    <3> QED
      BY <2>1, <3>1
  <2>2. CASE ~running[e]
    <3> DEFINE g == Started(h)
    <3>1. hw' = [hw EXCEPT ![e] = g]
      BY <1>0, <1>1, <1>3, <2>2 DEF TransferQueue, PollTypeOK
    <3>2. g \in [busy : BOOLEAN, done : Nat, err : BOOLEAN] /\ g.busy /\ g.done = 0
      BY <1>3 DEF Started
    <3> HIDE DEF g
    <3> QED
      BY <2>2, <3>1, <3>2
  <2> QED
    BY <2>1, <2>2
<1>9. status' \in [Engines -> BOOLEAN]
  <2>1. hw[e].err \in BOOLEAN /\ status \in [Engines -> BOOLEAN]
    BY <1>0 DEF PollTypeOK
  <2>2. status' = status \/ status' = [status EXCEPT ![e] = hw[e].err]
    BY <1>1 DEF TransferQueue
  <2> QED
    BY <2>1, <2>2
<1>10. /\ list'[e] = m /\ \A f \in Engines : f # e => list'[f] = list[f]
       /\ DOMAIN list' = Engines /\ list' = [f \in Engines |-> list'[f]]
  <2>1. DOMAIN list = Engines /\ list = [f \in Engines |-> list[f]]
    BY <1>0 DEF PollTypeOK
  <2>2. list' = [f \in Engines |-> IF f = e THEN m ELSE list[f]]
    BY <1>7, <2>1
  <2> QED
    BY <2>2
<1>11. PollTypeOK'
  <2>1. \A f \in Engines : list'[f] \in Seq(Of(f))
    BY <1>0, <1>6, <1>10 DEF PollTypeOK
  <2>2. hw' \in [Engines -> [busy : BOOLEAN, done : Nat, err : BOOLEAN]]
    BY <1>0, <1>8 DEF PollTypeOK
  <2>3. running' \in [Engines -> BOOLEAN]
    BY <1>0, <1>7 DEF PollTypeOK
  <2>4. state' \in [Xfers -> {"NEW", "SUBMITTED", "COMPLETED", "FAILED", "ABORTED"}]
    BY <1>0, <1>7 DEF PollTypeOK
  <2>5. wb' \in [Engines -> Words] /\ desc_wb' \in [Threads -> Words]
    BY <1>0, <1>7 DEF PollTypeOK
  <2> QED
    BY <1>9, <1>10, <2>1, <2>2, <2>3, <2>4, <2>5 DEF PollTypeOK, Of
<1>12. /\ state'[x] = "SUBMITTED" /\ state[x] = "NEW" /\ call'[x] = "queued"
       /\ \A y \in Xfers : y # x => state'[y] = state[y] /\ call'[y] = call[y]
  BY <1>0, <1>7 DEF PollTypeOK, WorkTypeOK, CallsOK
<1>13. /\ Listed(x)'
       /\ \A y \in Xfers : y # x => (Listed(y)' <=> Listed(y))
  <2>1. Listed(x)'
    <3>1. n + 1 \in 1 .. Len(m)
      BY <1>4, <1>6
    <3> QED
      BY <1>1, <1>6, <1>10, <3>1 DEF Listed
  <2>2. ASSUME NEW y \in Xfers, y # x PROVE Listed(y)' <=> Listed(y)
    <3>1. CASE EngineOf[y] # e
      <4>1. list'[EngineOf[y]] = list[EngineOf[y]]
        BY <1>10, <3>1, XferAssumption
      <4> QED
        BY <4>1 DEF Listed
    <3>2. CASE EngineOf[y] = e
      <4>1. \A i : i \in 1 .. Len(m) <=> i \in 1 .. n \/ i = n + 1
        BY <1>4, <1>6
      <4>2. (\E i \in 1 .. Len(m) : m[i] = y) <=> \E i \in 1 .. n : l[i] = y
        BY <1>6, <2>2, <4>1
      <4> QED
        BY <1>2, <1>4, <1>10, <3>2, <4>2 DEF Listed
    <3> QED
      BY <3>1, <3>2
  <2> QED
    BY <2>1, <2>2
<1>14. CallsOK'
  <2> SUFFICES ASSUME NEW y \in Xfers
               PROVE  /\ call'[y] = "idle" => state'[y] = "NEW" /\ ~Listed(y)'
                      /\ call'[y] = "waits" => EngineOf[y] \in Blocking
                      /\ EngineOf[y] \in Blocking /\ state'[y] = "SUBMITTED"
                           => Open(y)' /\ Listed(y)'
                      /\ \A z \in Xfers :
                           /\ EngineOf[y] \in Blocking /\ EngineOf[z] = EngineOf[y]
                           /\ Open(y)' /\ Open(z)'
                           => y = z
    BY DEF CallsOK
  <2>1. CASE y = x
    BY <1>1, <1>7, <1>12, <1>13, <2>1 DEF Open
  <2>2. CASE y # x
    BY <1>0, <1>1, <1>7, <1>12, <1>13, <2>2 DEF CallsOK, Open
  <2> QED
    BY <2>1, <2>2
<1>15. ASSUME NEW f \in Engines, f # e
       PROVE  Stays(f) /\ wb'[f] = wb[f] /\ \A y \in Of(f) : state'[y] = state[y]
  <2>1. \A y \in Of(f) : y \in Xfers /\ y # x
    BY <1>1, <1>15 DEF Of
  <2> QED
    BY <1>0, <1>7, <1>8, <1>10, <1>12, <1>15, <2>1 DEF Stays, PollTypeOK
<1>16. \A t \in Alive : Reads(t)
  BY <1>7 DEF Reads
<1>17. ASSUME e \in Free
       PROVE  /\ FreeOK(e)' /\ Keeps(e)
              /\ \A t \in Alive, w \in Words :
                   /\ pc'[t] \in {"zero", "service"} /\ Head(todo[t]) = e /\ w = desc_wb[t]
                   => WordOK(e, w)' /\ (pc[t] = "service" => wb'[e] = Nothing)
  <2>1. running'[e] /\ list'[e] = m /\ hw'[e] = g /\ wb'[e] = wb[e] /\ FreeOK(e)
    BY <1>0, <1>7, <1>8, <1>10, <1>17 DEF PollTypeOK
  <2>2. Num(e)' \in Nat /\ Num(e)' > 0
    <3>1. Head(m) \in Of(e)
      BY <1>6, HeadTailProperties
    <3> QED
      BY <2>1, <3>1, XferAssumption DEF Num, Of
  <2>3. \A t \in Alive : pc'[t] \in {"zero", "service"} /\ Head(todo[t]) = e =>
          WordOK(e, desc_wb[t]) /\ (pc[t] = "service" => wb[e] = Nothing)
    BY <1>0, <1>7, <1>17 DEF ReadOK
  <2>4. [y \in Of(e) |-> state'[y]] = [[y \in Of(e) |-> state[y]] EXCEPT ![x] = "SUBMITTED"]
    <3>1. \A y \in Of(e) : y \in Xfers
      BY DEF Of
    <3> QED
      BY <1>1, <1>12, <3>1
  <2>5. CASE running[e]
    <3>1. l # <<>> /\ g = h
      BY <1>2, <1>8, <2>1, <2>5 DEF FreeOK
    <3>2. Num(e)' = Num(e) /\ hw'[e] = hw[e]
      BY <1>2, <1>3, <1>6, <2>1, <3>1 DEF Num
    <3>3. \A w : WordOK(e, w) => WordOK(e, w)'
      BY <1>6, <2>1, <3>2 DEF WordOK
    <3>4. FreeOK(e)'
      BY <1>6, <2>1, <3>2, <3>3 DEF FreeOK
    <3>5. Contract(e)!Submit(x)
      BY <1>1, <1>2, <1>5, <1>6, <1>12, <2>1, <2>4, <3>1, <3>2 DEF Contract!Submit, Num
    <3>6. Keeps(e)
      BY <1>1, <3>5 DEF Keeps, Contract!ContractNext
    <3> QED
      BY <2>1, <2>3, <3>3, <3>4, <3>6
  <2>6. CASE ~running[e]
    <3>1. g.busy /\ g.done = 0 /\ h.done = 0 /\ wb[e] = Nothing
      BY <1>3, <1>8, <2>1, <2>6 DEF FreeOK, WordOK
    <3>2. \A w : ~WordOK(e, w)
      BY <2>6 DEF WordOK
    <3>3. FreeOK(e)'
      BY <1>6, <2>1, <2>2, <3>1 DEF FreeOK
    <3>4. ASSUME list[e] # <<>> PROVE Num(e) # 0
      BY <1>0, <3>4, HeadFacts
    <3>5. ~(list[e] # <<>> /\ hw[e].done = DescNum[Head(list[e])])
      BY <1>3, <3>1, <3>4 DEF Num
    <3>6. ~(hw'[e].done = DescNum[Head(list'[e])])
      BY <2>1, <2>2, <3>1 DEF Num
    <3>7. Contract(e)!Submit(x)
      BY <1>1, <1>2, <1>5, <1>12, <2>1, <2>4, <3>5, <3>6 DEF Contract!Submit
    <3>8. Keeps(e)
      BY <1>1, <3>7 DEF Keeps, Contract!ContractNext
    <3> QED
      BY <2>3, <3>2, <3>3, <3>8
  <2> QED
    BY <2>5, <2>6
<1>18. ReadOK' /\ \A f \in Free : FreeOK(f)' /\ Keeps(f)
  <2>1. desc_wb \in [Threads -> Words]
    BY <1>0 DEF PollTypeOK
  <2> QED
    BY <1>0, <1>7, <1>15, <1>16, <1>17, <2>1, PollAt
<1> QED
  BY <1>11, <1>14, <1>18 DEF PollInv

\* A blocking caller times out: its engine is not a free one.
LEMMA PollTimesOut ==
  ASSUME WorkInv, PollInv, NEW x \in Xfers, TimesOut(x)
  PROVE  PollInv' /\ \A f \in Free : Keeps(f)
<1>0. /\ PollTypeOK /\ CallsOK /\ ReadOK /\ WorkTypeOK /\ Alive \subseteq Threads
      /\ \A f \in Free : FreeOK(f) /\ f \in Engines
  BY AliveThreads DEF PollInv, WorkInv, Free
<1>1. PICK e \in Engines : e = EngineOf[x] /\ x \in Of(e)
  BY XferAssumption DEF Of
<1>2. PICK l \in Seq(Of(e)) : l = list[e]
  BY <1>0 DEF PollTypeOK
<1>3. PICK h \in [busy : BOOLEAN, done : Nat, err : BOOLEAN] : h = hw[e]
  BY <1>0 DEF PollTypeOK
<1>4. /\ UNCHANGED <<thread_cnt, pc, todo, desc_wb, wb>>
      /\ list' = [list EXCEPT ![e] = Tail(l)]
      /\ state' = [state EXCEPT ![x] = "ABORTED"]
      /\ running' = [running EXCEPT ![e] = FALSE]
      /\ call' = [call EXCEPT ![x] = "done"]
      /\ call[x] = "waits" /\ state[x] = "SUBMITTED"
      /\ hw' = [hw EXCEPT ![e] = Stopped(h)]
      /\ status' = [status EXCEPT ![e] = h.err]
  BY <1>0, <1>1, <1>2, <1>3 DEF TimesOut, workVars, threadVars, PollTypeOK
<1>5. e \in Blocking /\ e \notin Free /\ Open(x) /\ Listed(x)
  BY <1>0, <1>1, <1>4 DEF CallsOK, Free, Open
<1>6. l # <<>>
  BY <1>1, <1>2, <1>5 DEF Listed
<1>7. PICK m \in Seq(Of(e)) : m = Tail(l)
  BY <1>2, <1>6, HeadTailProperties
<1>8. PICK g \in [busy : BOOLEAN, done : Nat, err : BOOLEAN] : g = Stopped(h)
  BY <1>3 DEF Stopped
<1>9. /\ list'[e] = m /\ \A f \in Engines : f # e => list'[f] = list[f]
      /\ DOMAIN list' = Engines /\ list' = [f \in Engines |-> list'[f]]
  <2>1. DOMAIN list = Engines /\ list = [f \in Engines |-> list[f]]
    BY <1>0 DEF PollTypeOK
  <2>2. list' = [f \in Engines |-> IF f = e THEN m ELSE list[f]]
    BY <1>4, <1>7, <2>1
  <2> QED
    BY <2>2
<1>10. PollTypeOK'
  <2>1. \A f \in Engines : list'[f] \in Seq(Of(f))
    BY <1>0, <1>9 DEF PollTypeOK
  <2>2. hw' \in [Engines -> [busy : BOOLEAN, done : Nat, err : BOOLEAN]]
    BY <1>0, <1>4, <1>8 DEF PollTypeOK
  <2>3. running' \in [Engines -> BOOLEAN]
    BY <1>0, <1>4 DEF PollTypeOK
  <2>4. state' \in [Xfers -> {"NEW", "SUBMITTED", "COMPLETED", "FAILED", "ABORTED"}]
    BY <1>0, <1>4 DEF PollTypeOK
  <2>5. wb' \in [Engines -> Words] /\ desc_wb' \in [Threads -> Words]
    BY <1>0, <1>4 DEF PollTypeOK
  <2>6. status' \in [Engines -> BOOLEAN]
    <3>1. h.err \in BOOLEAN
      BY <1>3
    <3> QED
      BY <1>0, <1>4, <3>1 DEF PollTypeOK
  <2> QED
    BY <1>9, <2>1, <2>2, <2>3, <2>4, <2>5, <2>6 DEF PollTypeOK, Of
<1>11. /\ state'[x] = "ABORTED" /\ call'[x] = "done"
       /\ \A y \in Xfers : y # x => state'[y] = state[y] /\ call'[y] = call[y]
  BY <1>0, <1>4 DEF PollTypeOK, WorkTypeOK
<1>12. \A y \in Xfers : EngineOf[y] # e => (Listed(y)' <=> Listed(y))
  <2>1. \A y \in Xfers : EngineOf[y] # e => list'[EngineOf[y]] = list[EngineOf[y]]
    BY <1>9, XferAssumption
  <2> QED
    BY <2>1 DEF Listed
<1>13. ASSUME NEW y \in Xfers, EngineOf[y] = e, ~Listed(y) PROVE ~Listed(y)'
  <2>1. PICK n \in Nat : n = Len(l) /\ n # 0
    BY <1>2, <1>6, EmptySeq, LenProperties
  <2>2. Len(m) = n - 1 /\ \A i \in 1 .. n - 1 : m[i] = l[i + 1] /\ i + 1 \in 1 .. n
    <3>1. Len(m) = n - 1 /\ \A i \in 1 .. Len(m) : m[i] = l[i + 1]
      BY <1>2, <1>6, <1>7, <2>1, HeadTailProperties
    <3> QED
      BY <2>1, <3>1
  <2>3. \A i \in 1 .. n : l[i] # y
    BY <1>2, <1>13, <2>1 DEF Listed
  <2>4. \A i \in 1 .. Len(m) : m[i] # y
    BY <2>2, <2>3
  <2> QED
    BY <1>9, <1>13, <2>4 DEF Listed
<1>14. CallsOK'
  <2> SUFFICES ASSUME NEW y \in Xfers
               PROVE  /\ call'[y] = "idle" => state'[y] = "NEW" /\ ~Listed(y)'
                      /\ call'[y] = "waits" => EngineOf[y] \in Blocking
                      /\ EngineOf[y] \in Blocking /\ state'[y] = "SUBMITTED"
                           => Open(y)' /\ Listed(y)'
                      /\ \A z \in Xfers :
                           /\ EngineOf[y] \in Blocking /\ EngineOf[z] = EngineOf[y]
                           /\ Open(y)' /\ Open(z)'
                           => y = z
    BY DEF CallsOK
  <2>1. CASE y = x
    BY <1>11, <2>1 DEF Open
  <2>2. CASE y # x /\ EngineOf[y] = e
    <3>1. ~Open(y)
      BY <1>0, <1>1, <1>5, <2>2 DEF CallsOK
    <3>2. ~Open(y)' /\ state'[y] # "SUBMITTED" /\ call'[y] # "waits"
      BY <1>0, <1>5, <1>11, <2>2, <3>1 DEF CallsOK, Open
    <3>3. call'[y] = "idle" => state'[y] = "NEW" /\ ~Listed(y)'
      BY <1>0, <1>11, <1>13, <2>2 DEF CallsOK
    <3> QED
      BY <3>2, <3>3
  <2>3. CASE EngineOf[y] # e
    <3>1. \A z \in Xfers : EngineOf[z] = EngineOf[y] => (Open(z)' <=> Open(z)) /\ z # x
      BY <1>1, <1>11, <2>3 DEF Open
    <3>2. y # x
      BY <1>1, <2>3
    <3> QED
      BY <1>0, <1>11, <1>12, <2>3, <3>1, <3>2 DEF CallsOK
  <2> QED
    BY <2>1, <2>2, <2>3
<1>15. ASSUME NEW f \in Engines, f # e
       PROVE  Stays(f) /\ wb'[f] = wb[f] /\ \A y \in Of(f) : state'[y] = state[y]
  <2>1. \A y \in Of(f) : y \in Xfers /\ y # x
    BY <1>1, <1>15 DEF Of
  <2> QED
    BY <1>0, <1>4, <1>9, <1>11, <1>15, <2>1 DEF Stays, PollTypeOK
<1>16. \A t \in Alive : Reads(t)
  BY <1>4 DEF Reads
<1>17. ReadOK' /\ \A f \in Free : FreeOK(f)' /\ Keeps(f)
  <2>1. desc_wb \in [Threads -> Words]
    BY <1>0 DEF PollTypeOK
  <2> QED
    BY <1>0, <1>4, <1>5, <1>15, <1>16, <2>1, PollAt
<1> QED
  BY <1>10, <1>14, <1>17 DEF PollInv

HwStates == [busy : BOOLEAN, done : Nat, err : BOOLEAN]

\* Starting and stopping an engine.
LEMMA HwFacts ==
  ASSUME NEW h \in HwStates
  PROVE  /\ Started(h) \in HwStates /\ Started(h).busy /\ Started(h).done = 0
         /\ Stopped(h) \in HwStates /\ ~Stopped(h).busy /\ Stopped(h).done = 0
         /\ [h EXCEPT !.err = FALSE] \in HwStates
         /\ [h EXCEPT !.err = FALSE].busy = h.busy /\ [h EXCEPT !.err = FALSE].done = h.done
  BY DEF HwStates, Started, Stopped

\* What it does to the list and to the verdicts.
ListAfter(e) ==
  \E m \in Seq(Of(e)) :
    /\ list' = [list EXCEPT ![e] = m]
    /\ \A j \in 1 .. Len(m) : \E i \in 1 .. Len(list[e]) : list[e][i] = m[j]
    /\ \A i \in 1 .. Len(list[e]) :
         state'[list[e][i]] = "SUBMITTED" => \E j \in 1 .. Len(m) : m[j] = list[e][i]

StateAfter(e) ==
  /\ state' \in [Xfers -> {"NEW", "SUBMITTED", "COMPLETED", "FAILED", "ABORTED"}]
  /\ \A x \in Xfers :
       state'[x] # state[x] => /\ \E i \in 1 .. Len(list[e]) : list[e][i] = x
                               /\ state'[x] \in {"COMPLETED", "FAILED"}

\* What engine_service() leaves behind, for any engine and any word: the
\* transfers that it settles are the ones it takes off the list.
LEMMA ServiceFrame ==
  ASSUME PollTypeOK, NEW e \in Engines, NEW w \in Words, EngineService(e, w)
  PROVE  /\ \E r \in BOOLEAN : running' = [running EXCEPT ![e] = r]
         /\ \E g \in HwStates : hw' = [hw EXCEPT ![e] = g]
         /\ \E s \in BOOLEAN : status' = [status EXCEPT ![e] = s]
         /\ ListAfter(e) /\ StateAfter(e)
<1> DEFINE reads == w.n = 0 \/ w.err \/ ~running[e]
           error == IF reads THEN hw[e].err ELSE status[e]
           stops == w.n # 0 \/ ~hw[e].busy
           count == IF w.n # 0 THEN w.n ELSE hw[e].done
           k     == Passed(list[e], count)
           rest  == SubSeq(list[e], k + 2, Len(list[e]))
           on    == ~stops /\ ~(error /\ k < Len(list[e])) /\ rest # <<>>
           again == ~on /\ rest # <<>>
           h     == IF reads THEN [hw[e] EXCEPT !.err = FALSE] ELSE hw[e]
           v     == FinalState(list[e], count, error)
<1>1. IF ~running[e] \/ count = 0
      THEN /\ running' = [running EXCEPT ![e] = @ /\ ~stops]
           /\ hw' = [hw EXCEPT ![e] = IF stops THEN Stopped(h) ELSE h]
           /\ status' = [status EXCEPT ![e] = error]
           /\ UNCHANGED <<list, state>>
      ELSE /\ state' = [x \in Xfers |->
                          IF \E i \in 1 .. k : list[e][i] = x THEN "COMPLETED"
                          ELSE IF k < Len(list[e]) /\ x = list[e][k + 1] THEN v
                          ELSE state[x]]
           /\ list' = [list EXCEPT ![e] = rest]
           /\ running' = [running EXCEPT ![e] = on \/ again]
           /\ hw' = [hw EXCEPT ![e] = IF again THEN Started(h)
                                      ELSE IF on THEN h ELSE Stopped(h)]
           /\ status' = [status EXCEPT ![e] = IF again THEN h.err ELSE error]
  BY DEF EngineService
<1>2. /\ hw \in [Engines -> HwStates] /\ status \in [Engines -> BOOLEAN]
      /\ running \in [Engines -> BOOLEAN] /\ list[e] \in Seq(Of(e))
      /\ DOMAIN list = Engines /\ list = [f \in Engines |-> list[f]]
      /\ state \in [Xfers -> {"NEW", "SUBMITTED", "COMPLETED", "FAILED", "ABORTED"}]
  BY DEF PollTypeOK, HwStates
<1>3. error \in BOOLEAN
  <2>1. hw[e].err \in BOOLEAN /\ status[e] \in BOOLEAN
    BY <1>2 DEF HwStates
  <2> HIDE DEF reads
  <2> QED
    BY <2>1
<1>4. h \in HwStates /\ h.err \in BOOLEAN
  <2>1. h \in HwStates
    <3>1. hw[e] \in HwStates
      BY <1>2
    <3>2. [hw[e] EXCEPT !.err = FALSE] \in HwStates
      BY <3>1, HwFacts
    <3> HIDE DEF reads
    <3> QED
      BY <3>1, <3>2
  <2> QED
    BY <2>1 DEF HwStates
<1>5. count \in Nat
  BY <1>2 DEF HwStates, Words
<1>6. v \in {"COMPLETED", "FAILED"}
  BY DEF FinalState
<1>7. PICK l \in Seq(Of(e)), n \in Nat : l = list[e] /\ n = Len(l)
  BY <1>2, LenProperties
<1>8. k \in 0 .. n
  <2> HIDE DEF count
  <2>1. l \in Seq(Xfers)
    BY DEF Of
  <2> QED
    BY <1>5, <1>7, <2>1, PassedFacts
<1>9. on \in BOOLEAN /\ again \in BOOLEAN /\ stops \in BOOLEAN
  OBVIOUS
<1> HIDE DEF reads, error, stops, count, k, on, again, h, v
<1>10. running[e] \in BOOLEAN /\ (running[e] /\ ~stops) \in BOOLEAN /\ (on \/ again) \in BOOLEAN
  BY <1>2, <1>9
<1>11. \E r \in BOOLEAN : running' = [running EXCEPT ![e] = r]
  BY <1>1, <1>10
<1>12. \E g \in HwStates : hw' = [hw EXCEPT ![e] = g]
  <2>1. Started(h) \in HwStates /\ Stopped(h) \in HwStates
    BY <1>4, HwFacts
  <2> QED
    BY <1>1, <1>4, <2>1
<1>13. \E s \in BOOLEAN : status' = [status EXCEPT ![e] = s]
  BY <1>1, <1>3, <1>4
<1>14. CASE ~running[e] \/ count = 0
  <2>1. list' = [list EXCEPT ![e] = l] /\ state' = state
    BY <1>1, <1>2, <1>7, <1>14
  <2>2. list' = [list EXCEPT ![e] = l]
    BY <2>1
  <2>3. state' \in [Xfers -> {"NEW", "SUBMITTED", "COMPLETED", "FAILED", "ABORTED"}]
    BY <1>2, <2>1
  <2>4. ASSUME NEW x \in Xfers, state'[x] # state[x]
        PROVE  /\ \E i \in 1 .. n : l[i] = x
               /\ state'[x] \in {"COMPLETED", "FAILED"}
    BY <2>1, <2>4
  <2>5. StateAfter(e)
    BY <1>7, <2>3, <2>4 DEF StateAfter
  <2>6. ListAfter(e)
    <3>1. /\ \A j \in 1 .. Len(l) : \E i \in 1 .. Len(list[e]) : list[e][i] = l[j]
          /\ \A i \in 1 .. Len(list[e]) : \E j \in 1 .. Len(l) : l[j] = list[e][i]
      BY <1>7
    <3> QED
      BY <2>2, <3>1 DEF ListAfter
  <2> QED
    BY <1>11, <1>12, <1>13, <2>5, <2>6
<1>15. CASE ~(~running[e] \/ count = 0)
  <2>1. /\ rest \in Seq(Of(e))
        /\ Len(rest) = IF k + 2 <= n THEN n - (k + 2) + 1 ELSE 0
        /\ \A j \in 1 .. Len(rest) : rest[j] = l[k + 2 + j - 1]
    <3>1. \A i \in k + 2 .. n : l[i] \in Of(e)
      <4>1. \A i \in k + 2 .. n : i \in 1 .. n
        BY <1>7, <1>8
      <4> QED
        BY <1>7, <4>1, ElementOfSeq
    <3>2. k + 2 \in Int /\ n \in Int
      BY <1>7, <1>8
    <3>3. /\ SubSeq(l, k + 2, n) \in Seq(Of(e))
          /\ Len(SubSeq(l, k + 2, n)) = IF k + 2 <= n THEN n - (k + 2) + 1 ELSE 0
          /\ \A i \in 1 .. n - (k + 2) + 1 : SubSeq(l, k + 2, n)[i] = l[k + 2 + i - 1]
      BY <3>1, <3>2, SubSeqProperties
    <3>4. rest = SubSeq(l, k + 2, n)
      BY <1>7
    <3> HIDE DEF rest
    <3> QED
      BY <1>7, <1>8, <3>3, <3>4
  <2> HIDE DEF rest
  <2>2. \A j \in 1 .. Len(rest) : k + 2 + j - 1 \in 1 .. n
    BY <1>7, <1>8, <2>1
  <2>3. \A i \in 1 .. n : ~(i \in 1 .. k) /\ i # k + 1 =>
          \E j \in 1 .. Len(rest) : rest[j] = l[i]
    <3> SUFFICES ASSUME NEW i \in 1 .. n, ~(i \in 1 .. k), i # k + 1
                 PROVE  \E j \in 1 .. Len(rest) : rest[j] = l[i]
      OBVIOUS
    <3>1. i - k - 1 \in 1 .. Len(rest) /\ k + 2 + (i - k - 1) - 1 = i
      BY <1>7, <1>8, <2>1
    <3> QED
      BY <2>1, <3>1
  <2>4. /\ list' = [list EXCEPT ![e] = rest]
        /\ state' = [x \in Xfers |->
                       IF \E i \in 1 .. k : l[i] = x THEN "COMPLETED"
                       ELSE IF k < n /\ x = l[k + 1] THEN v
                       ELSE state[x]]
    BY <1>1, <1>7, <1>15
  <2>5. state' \in [Xfers -> {"NEW", "SUBMITTED", "COMPLETED", "FAILED", "ABORTED"}]
    BY <1>2, <1>6, <2>4
  <2>6. ASSUME NEW x \in Xfers, state'[x] # state[x]
        PROVE  /\ \E i \in 1 .. n : l[i] = x
               /\ state'[x] \in {"COMPLETED", "FAILED"}
    <3>1. CASE \E i \in 1 .. k : l[i] = x
      <4>1. \A i \in 1 .. k : i \in 1 .. n
        BY <1>7, <1>8
      <4>2. state'[x] = "COMPLETED"
        BY <2>4, <3>1
      <4> QED
        BY <3>1, <4>1, <4>2
    <3>2. CASE (~\E i \in 1 .. k : l[i] = x) /\ k < n /\ x = l[k + 1]
      <4>1. k + 1 \in 1 .. n
        BY <1>7, <1>8, <3>2
      <4>2. state'[x] = v
        BY <2>4, <3>2
      <4> QED
        BY <1>6, <3>2, <4>1, <4>2
    <3> QED
      BY <2>4, <2>6, <3>1, <3>2
  <2>7. ASSUME NEW i \in 1 .. n, state'[l[i]] = "SUBMITTED"
        PROVE  \E j \in 1 .. Len(rest) : rest[j] = l[i]
    <3>1. l[i] \in Xfers
      BY <1>7, ElementOfSeq DEF Of
    <3>2. ~(i \in 1 .. k)
      BY <2>4, <2>7, <3>1
    <3>3. i # k + 1
      <4> SUFFICES ASSUME i = k + 1 PROVE FALSE
        OBVIOUS
      <4>1. k < n
        BY <1>7, <1>8
      <4> QED
        BY <1>6, <2>4, <2>7, <3>1, <4>1
    <3> QED
      BY <2>3, <3>2, <3>3
  <2>8. \A j \in 1 .. Len(rest) : \E i \in 1 .. n : l[i] = rest[j]
    BY <2>1, <2>2
  <2>9. StateAfter(e)
    BY <1>7, <2>5, <2>6 DEF StateAfter
  <2>10. ListAfter(e)
    <3>1. PICK m \in Seq(Of(e)) : m = rest
      BY <2>1
    <3>2. list' = [list EXCEPT ![e] = m]
      BY <2>4, <3>1
    <3>3. \A j \in 1 .. Len(m) : \E i \in 1 .. Len(list[e]) : list[e][i] = m[j]
      BY <1>7, <2>8, <3>1
    <3>4. \A i \in 1 .. Len(list[e]) :
            state'[list[e][i]] = "SUBMITTED" => \E j \in 1 .. Len(m) : m[j] = list[e][i]
      BY <1>7, <2>7, <3>1
    <3> QED
      BY <3>2, <3>3, <3>4 DEF ListAfter
  <2> QED
    BY <1>11, <1>12, <1>13, <2>9, <2>10
<1> QED
  BY <1>14, <1>15

\* What it does with a word about the oldest transfer of a free engine: that
\* one is settled, and the engine goes on with the rest.
LEMMA ServiceFree ==
  ASSUME PollTypeOK, NEW e \in Engines, NEW w \in Words, EngineService(e, w),
         WordOK(e, w), wb[e] = Nothing, wb' = wb
  PROVE  FreeOK(e)' /\ Keeps(e)
<1> DEFINE reads == w.n = 0 \/ w.err \/ ~running[e]
           error == IF reads THEN hw[e].err ELSE status[e]
           stops == w.n # 0 \/ ~hw[e].busy
           count == IF w.n # 0 THEN w.n ELSE hw[e].done
           k     == Passed(list[e], count)
           rest  == SubSeq(list[e], k + 2, Len(list[e]))
           on    == ~stops /\ ~(error /\ k < Len(list[e])) /\ rest # <<>>
           again == ~on /\ rest # <<>>
           h     == IF reads THEN [hw[e] EXCEPT !.err = FALSE] ELSE hw[e]
           v     == FinalState(list[e], count, error)
<1>1. IF ~running[e] \/ count = 0
      THEN /\ running' = [running EXCEPT ![e] = @ /\ ~stops]
           /\ hw' = [hw EXCEPT ![e] = IF stops THEN Stopped(h) ELSE h]
           /\ status' = [status EXCEPT ![e] = error]
           /\ UNCHANGED <<list, state>>
      ELSE /\ state' = [x \in Xfers |->
                          IF \E i \in 1 .. k : list[e][i] = x THEN "COMPLETED"
                          ELSE IF k < Len(list[e]) /\ x = list[e][k + 1] THEN v
                          ELSE state[x]]
           /\ list' = [list EXCEPT ![e] = rest]
           /\ running' = [running EXCEPT ![e] = on \/ again]
           /\ hw' = [hw EXCEPT ![e] = IF again THEN Started(h)
                                      ELSE IF on THEN h ELSE Stopped(h)]
           /\ status' = [status EXCEPT ![e] = IF again THEN h.err ELSE error]
  BY DEF EngineService
<1>2. /\ hw \in [Engines -> HwStates] /\ list[e] \in Seq(Of(e)) /\ DOMAIN list = Engines
      /\ running \in [Engines -> BOOLEAN]
  BY DEF PollTypeOK, HwStates
<1>3. running[e] /\ list[e] # <<>> /\ ~hw[e].busy /\ w.n = hw[e].done /\ w.n <= Num(e)
  BY DEF WordOK
<1>4. stops /\ ~on /\ (again <=> rest # <<>>)
  BY <1>3
<1>5. count = hw[e].done /\ count \in Nat
  BY <1>2, <1>3 DEF HwStates
<1>6. h \in HwStates
  <2>1. hw[e] \in HwStates
    BY <1>2
  <2>2. [hw[e] EXCEPT !.err = FALSE] \in HwStates
    BY <2>1, HwFacts
  <2> HIDE DEF reads
  <2> QED
    BY <2>1, <2>2
<1>7. PICK l \in Seq(Of(e)), n \in Nat : l = list[e] /\ n = Len(l)
  BY <1>2, LenProperties
<1>8. /\ Head(l) = l[1] /\ l[1] \in Of(e) /\ l[1] \in Xfers /\ l # <<>>
      /\ Num(e) = DescNum[l[1]] /\ Num(e) \in Nat /\ Num(e) > 0
      /\ 1 \in 1 .. n /\ Tail(l) \in Seq(Of(e))
  BY <1>3, <1>7, HeadFacts DEF Num
<1>9. k = 0
  <2> HIDE DEF count
  <2>1. l \in Seq(Xfers)
    BY <1>7 DEF Of
  <2>2. count <= DescNum[l[1]]
    BY <1>3, <1>5, <1>8
  <2> QED
    BY <1>5, <1>7, <1>8, <2>1, <2>2, PassedFacts
<1>10. rest = Tail(l)
  <2> HIDE DEF k
  <2>1. rest = SubSeq(l, 2, n)
    BY <1>7, <1>9
  <2> QED
    BY <1>7, <1>8, <2>1, TailIsSubSeq
<1>11. /\ v \in {"COMPLETED", "FAILED"}
       /\ v = "COMPLETED" => count = Num(e)
  <2>1. v \in {"COMPLETED", "FAILED"}
    BY DEF FinalState
  <2>2. l \in Seq(Xfers)
    BY <1>7 DEF Of
  <2>3. Total(l, 0) = 0
    BY <2>2, TotalFacts
  <2>4. Passed(list[e], count) = 0
    BY <1>9
  <2> HIDE DEF error, count, k
  <2>5. v = IF error \/ count - Total(l, 0) < DescNum[l[0 + 1]] THEN "FAILED" ELSE "COMPLETED"
    BY <1>7, <2>4 DEF FinalState
  <2>6. v = "COMPLETED" => ~(count - 0 < DescNum[l[1]])
    BY <2>3, <2>5
  <2>7. PICK c \in Nat, d \in Nat : c = count /\ d = Num(e)
    BY <1>5, <1>8
  <2>8. c <= d
    BY <1>3, <1>5, <2>7
  <2>9. ~(c - 0 < d) => c = d
    BY <2>7, <2>8
  <2> QED
    BY <1>8, <2>1, <2>6, <2>7, <2>9
<1>12. PICK g \in HwStates : g = (IF again THEN Started(h) ELSE Stopped(h))
                             /\ g.done = 0 /\ (~again => ~g.busy)
  <2> HIDE DEF again, h
  <2> QED
    BY <1>6, HwFacts
<1>13. Stopped(h) \in HwStates /\ ~Stopped(h).busy /\ Stopped(h).done = 0
  <2> HIDE DEF h
  <2> QED
    BY <1>6, HwFacts
<1> HIDE DEF reads, error, stops, count, k, rest, on, again, h, v
<1>14. CASE count = 0
  <2>1. /\ running'[e] = (running[e] /\ ~stops) /\ list' = list /\ state' = state
        /\ hw'[e] = Stopped(h) /\ wb'[e] = Nothing
    BY <1>1, <1>2, <1>4, <1>14
  <2>2. ~running'[e] /\ ~hw'[e].busy /\ hw'[e].done = 0
    BY <1>4, <1>13, <2>1
  <2>3. FreeOK(e)'
    BY <2>1, <2>2 DEF FreeOK
  <2>4. Keeps(e)
    BY <1>5, <1>14, <2>1, <2>2, KeepsFrame
  <2> QED
    BY <2>3, <2>4
<1>15. CASE count # 0
  <2>1. /\ state' = [x \in Xfers |->
                       IF \E i \in 1 .. 0 : list[e][i] = x THEN "COMPLETED"
                       ELSE IF 0 < Len(list[e]) /\ x = list[e][0 + 1] THEN v
                       ELSE state[x]]
        /\ list' = [list EXCEPT ![e] = rest]
        /\ running' = [running EXCEPT ![e] = on \/ again]
        /\ hw' = [hw EXCEPT ![e] = IF again THEN Started(h)
                                   ELSE IF on THEN h ELSE Stopped(h)]
    BY <1>1, <1>3, <1>9, <1>15
  <2>2. list'[e] = Tail(l) /\ hw'[e] = g /\ wb'[e] = Nothing
    BY <1>2, <1>4, <1>10, <1>12, <2>1
  <2>3. running'[e] <=> again
    BY <1>2, <1>4, <2>1
  <2>4. state'[l[1]] = v /\ \A x \in Xfers : x # l[1] => state'[x] = state[x]
    <3>1. 0 < n /\ ~\E i \in 1 .. 0 : TRUE
      BY <1>7, <1>8
    <3> QED
      BY <1>7, <1>8, <2>1, <3>1
  <2>5. list'[e] # <<>> => Num(e)' \in Nat /\ Num(e)' > 0
    <3> SUFFICES ASSUME Tail(l) # <<>> PROVE Num(e)' \in Nat /\ Num(e)' > 0
      BY <2>2
    <3>1. Head(Tail(l)) \in Of(e)
      BY <1>8, HeadTailProperties
    <3> QED
      BY <2>2, <3>1, XferAssumption DEF Num, Of
  <2>6. FreeOK(e)'
    <3>1. running'[e] => list'[e] # <<>>
      BY <1>4, <1>10, <2>2, <2>3
    <3>2. ~running'[e] => ~hw'[e].busy /\ hw'[e].done = 0
      BY <1>12, <2>2, <2>3
    <3>3. hw'[e].busy => hw'[e].done < Num(e)'
      <4> SUFFICES ASSUME hw'[e].busy PROVE hw'[e].done < Num(e)'
        OBVIOUS
      <4>1. list'[e] # <<>>
        BY <3>1, <3>2
      <4> QED
        BY <1>12, <2>2, <2>5, <4>1
    <3> QED
      BY <2>2, <3>1, <3>2, <3>3 DEF FreeOK
  <2>7. PICK u \in {"COMPLETED", "FAILED", "ABORTED"} : u = v
    BY <1>11
  <2>8. Contract(e)!Settle(u)
    <3>1. v = "COMPLETED" => hw[e].done = DescNum[Head(list[e])]
      BY <1>5, <1>11 DEF Num
    <3>2. ~(list'[e] # <<>> /\ hw'[e].done = DescNum[Head(list'[e])])
      BY <1>12, <2>2, <2>5 DEF Num
    <3>3. [x \in Of(e) |-> state'[x]] = [[x \in Of(e) |-> state[x]] EXCEPT ![Head(list[e])] = v]
      <4>1. \A x \in Of(e) : x \in Xfers
        BY DEF Of
      <4> QED
        BY <1>7, <1>8, <2>4, <4>1
    <3> QED
      BY <1>3, <1>7, <2>2, <2>7, <3>1, <3>2, <3>3 DEF Contract!Settle
  <2>9. Keeps(e)
    BY <2>8 DEF Keeps, Contract!ContractNext
  <2> QED
    BY <2>6, <2>9
<1> QED
  BY <1>14, <1>15

\* A thread services an engine.
LEMMA PollService ==
  ASSUME WorkInv, PollInv, NEW t \in Alive, Service(t)
  PROVE  PollInv' /\ \A f \in Free : Keeps(f)
<1>0. /\ PollTypeOK /\ CallsOK /\ ReadOK /\ WorkTypeOK /\ Alive \subseteq Threads
      /\ \A f \in Free : FreeOK(f) /\ f \in Engines
  BY AliveThreads DEF PollInv, WorkInv, Free
<1>1. Engaged(t)
  BY DEF Service, Engaged
<1>2. PICK e \in Engines, w \in Words : e = Head(todo[t]) /\ w = desc_wb[t]
  BY <1>0, <1>1, HeadTodo DEF PollTypeOK
<1>3. t \in Threads /\ pc[t] = "service" /\ EngineService(e, w)
  BY <1>0, <1>2 DEF Service
<1>4. UNCHANGED <<thread_cnt, call, wb>>
  BY DEF Service, workVars
<1>5. PICK r \in BOOLEAN : running' = [running EXCEPT ![e] = r]
  BY <1>0, <1>3, ServiceFrame
<1>6. PICK g \in HwStates : hw' = [hw EXCEPT ![e] = g]
  BY <1>0, <1>3, ServiceFrame
<1>7. PICK s \in BOOLEAN : status' = [status EXCEPT ![e] = s]
  BY <1>0, <1>3, ServiceFrame
<1>8. PICK m \in Seq(Of(e)) :
        /\ list' = [list EXCEPT ![e] = m]
        /\ \A j \in 1 .. Len(m) : \E i \in 1 .. Len(list[e]) : list[e][i] = m[j]
        /\ \A i \in 1 .. Len(list[e]) :
             state'[list[e][i]] = "SUBMITTED" => \E j \in 1 .. Len(m) : m[j] = list[e][i]
  BY <1>0, <1>3, ServiceFrame DEF ListAfter
<1>9. /\ state' \in [Xfers -> {"NEW", "SUBMITTED", "COMPLETED", "FAILED", "ABORTED"}]
      /\ \A x \in Xfers :
           state'[x] # state[x] => /\ \E i \in 1 .. Len(list[e]) : list[e][i] = x
                                   /\ state'[x] \in {"COMPLETED", "FAILED"}
  BY <1>0, <1>3, ServiceFrame DEF StateAfter
<1>10. /\ list'[e] = m /\ \A f \in Engines : f # e => list'[f] = list[f]
       /\ DOMAIN list' = Engines /\ list' = [f \in Engines |-> list'[f]]
  <2>1. DOMAIN list = Engines /\ list = [f \in Engines |-> list[f]]
    BY <1>0 DEF PollTypeOK
  <2>2. list' = [f \in Engines |-> IF f = e THEN m ELSE list[f]]
    BY <1>8, <2>1
  <2> QED
    BY <2>2
<1>11. PICK p \in {"test", "poll"} : pc' = [pc EXCEPT ![t] = p]
  BY DEF Service, Polled, Turn, Go
<1>12. /\ \E l : todo' = [todo EXCEPT ![t] = l]
       /\ desc_wb' = [desc_wb EXCEPT ![t] = Nothing]
  BY DEF Service, Polled, Turn
<1>13. PollTypeOK'
  <2>1. \A f \in Engines : list'[f] \in Seq(Of(f))
    BY <1>0, <1>10 DEF PollTypeOK
  <2>2. hw' \in [Engines -> [busy : BOOLEAN, done : Nat, err : BOOLEAN]]
    BY <1>0, <1>6 DEF PollTypeOK, HwStates
  <2>3. running' \in [Engines -> BOOLEAN]
    BY <1>0, <1>5 DEF PollTypeOK
  <2>4. status' \in [Engines -> BOOLEAN]
    BY <1>0, <1>7 DEF PollTypeOK
  <2>5. wb' \in [Engines -> Words]
    BY <1>0, <1>4 DEF PollTypeOK
  <2>6. desc_wb' \in [Threads -> Words]
    <3>1. Nothing \in Words
      BY DEF Nothing, Words
    <3> QED
      BY <1>0, <1>12, <3>1 DEF PollTypeOK
  <2> QED
    BY <1>9, <1>10, <2>1, <2>2, <2>3, <2>4, <2>5, <2>6 DEF PollTypeOK, Of
<1>14. ASSUME NEW y \in Xfers
       PROVE  /\ Listed(y)' => Listed(y)
              /\ Listed(y) /\ state'[y] = "SUBMITTED" => Listed(y)'
              /\ ~Listed(y) => state'[y] = state[y]
              /\ state'[y] = "SUBMITTED" => state[y] = "SUBMITTED"
  <2>1. state'[y] = "SUBMITTED" => state[y] = "SUBMITTED"
    BY <1>9
  <2>2. CASE EngineOf[y] = e
    <3>1. Listed(y)' <=> \E j \in 1 .. Len(m) : m[j] = y
      BY <1>10, <2>2 DEF Listed
    <3>2. Listed(y) <=> \E i \in 1 .. Len(list[e]) : list[e][i] = y
      BY <2>2 DEF Listed
    <3>3. Listed(y)' => Listed(y)
      BY <1>8, <3>1, <3>2
    <3>4. Listed(y) /\ state'[y] = "SUBMITTED" => Listed(y)'
      BY <1>8, <3>1, <3>2
    <3>5. ~Listed(y) => state'[y] = state[y]
      BY <1>9, <3>2
    <3> QED
      BY <2>1, <3>3, <3>4, <3>5
  <2>3. CASE EngineOf[y] # e
    <3>1. list'[EngineOf[y]] = list[EngineOf[y]]
      BY <1>10, <2>3, XferAssumption
    <3>2. state'[y] = state[y]
      <4>1. \A i \in 1 .. Len(list[e]) : list[e][i] \in Of(e)
        BY <1>0, ElementOfSeq DEF PollTypeOK
      <4> QED
        BY <1>9, <2>3, <4>1 DEF Of
    <3> QED
      BY <2>1, <3>1, <3>2 DEF Listed
  <2> QED
    BY <2>2, <2>3
<1>15. CallsOK'
  <2> SUFFICES ASSUME NEW y \in Xfers
               PROVE  /\ call'[y] = "idle" => state'[y] = "NEW" /\ ~Listed(y)'
                      /\ call'[y] = "waits" => EngineOf[y] \in Blocking
                      /\ EngineOf[y] \in Blocking /\ state'[y] = "SUBMITTED"
                           => Open(y)' /\ Listed(y)'
                      /\ \A z \in Xfers :
                           /\ EngineOf[y] \in Blocking /\ EngineOf[z] = EngineOf[y]
                           /\ Open(y)' /\ Open(z)'
                           => y = z
    BY DEF CallsOK
  <2>1. \A z : Open(z)' <=> Open(z)
    BY <1>4 DEF Open
  <2>2. call'[y] = call[y]
    BY <1>4
  <2> QED
    BY <1>0, <1>14, <2>1, <2>2 DEF CallsOK
<1>16. ASSUME NEW f \in Engines, f # e
       PROVE  Stays(f) /\ wb'[f] = wb[f] /\ \A y \in Of(f) : state'[y] = state[y]
  <2>1. \A y \in Of(f) : y \in Xfers /\ EngineOf[y] # e
    BY <1>16 DEF Of
  <2>2. \A i \in 1 .. Len(list[e]) : list[e][i] \in Of(e)
    BY <1>0, ElementOfSeq DEF PollTypeOK
  <2>3. \A y \in Of(f) : state'[y] = state[y]
    BY <1>9, <2>1, <2>2, SMTT(30) DEF Of
  <2> QED
    BY <1>0, <1>4, <1>5, <1>6, <1>10, <1>16, <2>3 DEF Stays, PollTypeOK
<1>17. \A u \in Alive : Reads(u)
  <2> SUFFICES ASSUME NEW u \in Alive PROVE Reads(u)
    OBVIOUS
  <2>1. u \in Threads
    BY <1>0
  <2>2. CASE u = t
    BY <1>0, <1>11, <2>1, <2>2 DEF Reads, WorkTypeOK
  <2>3. CASE u # t
    BY <1>0, <1>3, <1>11, <1>12, <2>1, <2>3 DEF Reads, PollTypeOK, WorkTypeOK
  <2> QED
    BY <2>2, <2>3
<1>18. ASSUME e \in Free
       PROVE  /\ FreeOK(e)' /\ Keeps(e)
              /\ \A u \in Alive : ~(pc'[u] \in {"zero", "service"} /\ Head(todo[u]) = e)
  <2>1. WordOK(e, w) /\ wb[e] = Nothing
    BY <1>0, <1>2, <1>3, <1>18 DEF ReadOK
  <2>2. FreeOK(e)' /\ Keeps(e)
    BY <1>0, <1>3, <1>4, <2>1, ServiceFree
  <2>3. ASSUME NEW u \in Alive, pc'[u] \in {"zero", "service"}, Head(todo[u]) = e
        PROVE  FALSE
    <3>1. pc[u] \in {"zero", "service"}
      BY <1>17, <2>3 DEF Reads
    <3>2. u = t
      BY <1>1, <1>2, <2>3, <3>1, OneReader DEF Engaged
    <3> QED
      BY <1>0, <1>3, <1>11, <2>3, <3>2 DEF WorkTypeOK
  <2> QED
    BY <2>2, <2>3
<1>19. ReadOK' /\ \A f \in Free : FreeOK(f)' /\ Keeps(f)
  <2>1. desc_wb \in [Threads -> Words]
    BY <1>0 DEF PollTypeOK
  <2>2. thread_cnt' = thread_cnt
    BY <1>4
  <2> QED
    BY <1>0, <1>16, <1>17, <1>18, <2>1, <2>2, PollAt
<1> QED
  BY <1>13, <1>15, <1>19 DEF PollInv

\* Every step keeps the invariant and the contract of every free engine.
LEMMA PollStep ==
  WorkInv /\ PollInv /\ [Next]_vars => PollInv' /\ \A e \in Free : Keeps(e)
<1> SUFFICES ASSUME WorkInv, PollInv, [Next]_vars
             PROVE  PollInv' /\ \A e \in Free : Keeps(e)
  OBVIOUS
<1>1. ASSUME NEW e \in Engines, HwMove(e) \/ HwError(e)
      PROVE  PollInv' /\ \A f \in Free : Keeps(f)
  BY <1>1, PollHw
<1>2. ASSUME NEW x \in Xfers, TransferQueue(x) PROVE PollInv' /\ \A e \in Free : Keeps(e)
  BY <1>2, PollQueue
<1>3. ASSUME NEW x \in Xfers, TimesOut(x) PROVE PollInv' /\ \A e \in Free : Keeps(e)
  BY <1>3, PollTimesOut
<1>4. ASSUME NEW t \in Alive, PollRead(t) \/ PollZero(t)
      PROVE  PollInv' /\ \A e \in Free : Keeps(e)
  BY <1>4, PollReads
<1>5. ASSUME NEW t \in Alive, Service(t) PROVE PollInv' /\ \A e \in Free : Keeps(e)
  BY <1>5, PollService
<1>6. CASE \/ UNCHANGED vars
           \/ \E e \in Engines : AddWork(e) \/ RemoveWork(e) \/ ListDel(e)
           \/ \E t \in Threads : StopFlag(t) \/ KthreadStop(t)
           \/ \E t \in Alive : Test(t) \/ Wait(t) \/ Clear(t) \/ PollEnds(t)
           \/ \E x \in Xfers : Wakeup(x) \/ Returns(x)
  BY <1>6, PollOther
<1> QED
  BY <1>1, <1>2, <1>3, <1>4, <1>5, <1>6 DEF Next, ThreadStep, CallStep, Unload

\* In poll mode an engine whose callers do not time out implements the contract
\* of interrupt mode, for any number of engines, threads and transfers of any
\* length: although the write-back word is read, zeroed and acted upon in three
\* steps (libxdma.c:1260-1340), engine_service() credits every count to the
\* oldest transfer, and reports it completed only once all of it has moved.
THEOREM PolledContract == Spec => PolledKeepsContract
<1>1. Init => WorkInv /\ PollInv /\ \A e \in Engines \ Blocking : Contract(e)!ContractInit
  BY WorkInit, PollInit DEF Free
<1>2. WorkInv /\ PollInv /\ [Next]_vars
        => /\ WorkInv' /\ PollInv'
           /\ \A e \in Engines \ Blocking :
                Contract(e)!ContractNext \/ UNCHANGED Contract(e)!contractVars
  BY WorkStep, PollStep DEF Free, Keeps
<1> QED
  BY <1>1, <1>2, PTL DEF Spec, PolledKeepsContract
=============================================================================
