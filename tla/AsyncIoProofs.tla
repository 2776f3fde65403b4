---------------------------- MODULE AsyncIoProofs ----------------------------
(***************************************************************************)
(* Theorems about the descriptor memory, for every size of it and of a     *)
(* block, and about AsyncIo, for every set of calls and shapes: what is in *)
(* the memory, who holds what, and what a call is answered.                *)
(***************************************************************************)
EXTENDS AsyncIo, SequenceTheorems, WellFoundedInduction, TLAPS

-----------------------------------------------------------------------------
(***************************************************************************)
(* Natural numbers and sums.                                               *)
(***************************************************************************)

\* A set of naturals that is not empty has a least element.
LEMMA LeastNat ==
  ASSUME NEW S \in SUBSET Nat, S # {}
  PROVE  \E n \in S : \A m \in S : n <= m
<1>1. IsWellFoundedOn(OpToRel(<, Nat), Nat)
  BY NatLessThanWellFounded
<1>2. PICK n \in S : \A m \in S : ~(<<m, n>> \in OpToRel(<, Nat))
  BY <1>1, WFMin
<1>3. \A m \in S : ~(m < n)
  BY <1>2 DEF OpToRel
<1> QED
  BY <1>3

\* Induction up to a bound, over sets.
LEMMA UpTo ==
  ASSUME NEW n \in Nat, NEW S, 0 \in S,
         \A i \in 0 .. n : i + 1 \in 0 .. n /\ i \in S => i + 1 \in S
  PROVE  \A i \in 0 .. n : i \in S
<1> SUFFICES ASSUME NEW b \in 0 .. n, b \notin S PROVE FALSE
  OBVIOUS
<1> DEFINE Bad == {i \in 0 .. n : i \notin S}
<1>1. Bad \in SUBSET Nat /\ Bad # {}
  OBVIOUS
<1>2. PICK m \in Bad : \A k \in Bad : m <= k
  BY <1>1, LeastNat
<1>3. m \in 0 .. n /\ m \notin S /\ m # 0
  BY <1>2
<1>4. m - 1 \in 0 .. n /\ (m - 1) + 1 = m /\ ~(m <= m - 1)
  BY <1>3
<1>5. m - 1 \in S
  BY <1>2, <1>4
<1> QED
  BY <1>3, <1>4, <1>5

\* f adds up the first n values of a.
Adds(f, a, n) ==
  /\ f \in [0 .. n -> Nat]
  /\ f[0] = 0
  /\ \A i \in 1 .. n : f[i] = f[i - 1] + a[i]

\* There are sums.
LEMMA SumExists ==
  ASSUME NEW n \in Nat, NEW a, \A i \in 1 .. n : a[i] \in Nat
  PROVE  \E f : Adds(f, a, n)
<1> DEFINE S == {m \in 0 .. n : \E f : Adds(f, a, m)}
<1>1. 0 \in S
  <2> DEFINE g == [i \in 0 .. 0 |-> 0]
  <2>1. Adds(g, a, 0)
    BY DEF Adds
  <2> QED
    BY <2>1
<1>2. ASSUME NEW m \in 0 .. n, m + 1 \in 0 .. n, m \in S PROVE m + 1 \in S
  <2>1. PICK f : Adds(f, a, m)
    BY <1>2
  <2> DEFINE g == [i \in 0 .. m + 1 |-> IF i = m + 1 THEN f[m] + a[m + 1] ELSE f[i]]
  <2>2. f \in [0 .. m -> Nat] /\ f[0] = 0 /\ a[m + 1] \in Nat
    BY <1>2, <2>1 DEF Adds
  <2>3. g \in [0 .. m + 1 -> Nat] /\ g[0] = 0
    BY <2>2
  <2>4. ASSUME NEW i \in 1 .. m + 1 PROVE g[i] = g[i - 1] + a[i]
    <3>1. CASE i = m + 1
      BY <2>2, <3>1
    <3>2. CASE i # m + 1
      <4>1. i \in 1 .. m /\ i - 1 \in 0 .. m /\ i - 1 # m + 1
        BY <3>2
      <4>2. f[i] = f[i - 1] + a[i]
        BY <2>1, <4>1 DEF Adds
      <4> QED
        BY <4>1, <4>2
    <3> QED
      BY <3>1, <3>2
  <2>5. Adds(g, a, m + 1)
    BY <2>3, <2>4 DEF Adds
  <2> QED
    BY <1>2, <2>5
<1>3. \A i \in 0 .. n : i \in S
  <2> HIDE DEF S
  <2> QED
    BY <1>1, <1>2, UpTo
<1>4. n \in S
  BY <1>3
<1> QED
  BY <1>4

\* SumSeq is the sum, and a natural number.
LEMMA SumSeqIs ==
  ASSUME NEW s \in Seq(Nat), NEW g, Adds(g, s, Len(s))
  PROVE  SumSeq(s) = g[Len(s)] /\ SumSeq(s) \in Nat
<1> DEFINE n == Len(s)
           Rec(f) == f = [i \in 0 .. n |-> IF i = 0 THEN 0 ELSE f[i - 1] + s[i]]
           sum == CHOOSE f : Rec(f)
<1>0. n \in Nat
  BY LenProperties
<1>1. Rec(g)
  BY <1>0 DEF Adds
<1>2. Rec(sum)
  BY <1>1
<1>3. SumSeq(s) = sum[n]
  BY DEF SumSeq
<1> DEFINE S == {i \in 0 .. n : sum[i] = g[i]}
<1> HIDE DEF sum
<1>4. 0 \in S
  BY <1>0, <1>2 DEF Adds
<1>5. ASSUME NEW m \in 0 .. n, m + 1 \in 0 .. n, m \in S PROVE m + 1 \in S
  <2>1. sum[m + 1] = sum[m] + s[m + 1]
    BY <1>0, <1>2, <1>5
  <2>2. g[m + 1] = g[m] + s[m + 1]
    BY <1>0, <1>5 DEF Adds
  <2> QED
    BY <1>5, <2>1, <2>2
<1>6. \A i \in 0 .. n : i \in S
  <2> HIDE DEF S
  <2> QED
    BY <1>0, <1>4, <1>5, UpTo
<1>7. sum[n] = g[n] /\ g[n] \in Nat
  BY <1>0, <1>6 DEF Adds
<1> QED
  BY <1>3, <1>7

\* A sequence of naturals has a sum that SumSeq is.
LEMMA SumSeqHas ==
  ASSUME NEW s \in Seq(Nat)
  PROVE  \E g : Adds(g, s, Len(s)) /\ SumSeq(s) = g[Len(s)] /\ SumSeq(s) \in Nat
<1>1. Len(s) \in Nat /\ \A i \in 1 .. Len(s) : s[i] \in Nat
  BY LenProperties
<1>2. PICK g : Adds(g, s, Len(s))
  BY <1>1, SumExists
<1> QED
  BY <1>2, SumSeqIs

\* Sums of short sequences.
LEMMA SumSeqShort ==
  ASSUME NEW s \in Seq(Nat)
  PROVE  /\ Len(s) = 0 => SumSeq(s) = 0
         /\ Len(s) = 1 => SumSeq(s) = s[1]
         /\ Len(s) = 2 => SumSeq(s) = s[1] + s[2]
         /\ SumSeq(s) \in Nat
<1>1. PICK g : Adds(g, s, Len(s)) /\ SumSeq(s) = g[Len(s)] /\ SumSeq(s) \in Nat
  BY SumSeqHas
<1>2. Len(s) \in Nat /\ \A i \in 1 .. Len(s) : s[i] \in Nat
  BY LenProperties
<1>3. ASSUME Len(s) = 1 PROVE SumSeq(s) = s[1]
  <2>1. g[1] = g[0] + s[1] /\ g[0] = 0 /\ s[1] \in Nat
    BY <1>1, <1>2, <1>3 DEF Adds
  <2> QED
    BY <1>1, <1>3, <2>1
<1>4. ASSUME Len(s) = 2 PROVE SumSeq(s) = s[1] + s[2]
  <2>1. g[1] = g[0] + s[1] /\ g[0] = 0 /\ s[1] \in Nat /\ s[2] \in Nat
    BY <1>1, <1>2, <1>4 DEF Adds
  <2>2. g[2] = g[1] + s[2]
    BY <1>1, <1>2, <1>4 DEF Adds
  <2> QED
    BY <1>1, <1>4, <2>1, <2>2
<1> QED
  BY <1>1, <1>2, <1>3, <1>4 DEF Adds

\* The sum of two sequences, one after the other.
LEMMA SumSeqConcat ==
  ASSUME NEW s \in Seq(Nat), NEW t \in Seq(Nat)
  PROVE  SumSeq(s \o t) = SumSeq(s) + SumSeq(t)
<1> DEFINE n == Len(s)
           m == Len(t)
<1>0. /\ n \in Nat /\ m \in Nat
      /\ \A i \in 1 .. n : s[i] \in Nat
      /\ \A i \in 1 .. m : t[i] \in Nat
  BY LenProperties
<1>1. PICK g : Adds(g, s, n) /\ SumSeq(s) = g[n]
  BY SumSeqHas
<1>2. PICK h : Adds(h, t, m) /\ SumSeq(t) = h[m]
  BY SumSeqHas
<1>3. /\ s \o t \in Seq(Nat) /\ Len(s \o t) = n + m
      /\ \A i \in 1 .. n + m : (s \o t)[i] = IF i <= n THEN s[i] ELSE t[i - n]
  BY ConcatProperties
<1> PICK u : u = s \o t
  OBVIOUS
<1> HIDE DEF n, m
<1> DEFINE f == [i \in 0 .. n + m |-> IF i <= n THEN g[i] ELSE g[n] + h[i - n]]
<1>4. g \in [0 .. n -> Nat] /\ h \in [0 .. m -> Nat] /\ g[0] = 0 /\ h[0] = 0
  BY <1>1, <1>2 DEF Adds
<1>5. f \in [0 .. n + m -> Nat] /\ f[0] = 0
  BY <1>0, <1>4
<1>6. ASSUME NEW i \in 1 .. n + m PROVE f[i] = f[i - 1] + u[i]
  <2>1. CASE i <= n
    <3>1. g[i] = g[i - 1] + s[i] /\ u[i] = s[i]
      BY <1>0, <1>1, <1>3, <2>1 DEF Adds
    <3> QED
      BY <1>0, <2>1, <3>1
  <2>2. CASE i > n
    <3>1. i - n \in 1 .. m /\ u[i] = t[i - n]
      BY <1>0, <1>3, <2>2
    <3>2. h[i - n] = h[(i - n) - 1] + t[i - n]
      BY <1>2, <3>1 DEF Adds
    <3>3. f[i] = g[n] + h[i - n] /\ t[i - n] \in Nat
      BY <1>0, <2>2, <3>1
    <3>4. f[i - 1] = g[n] + h[(i - n) - 1]
      <4>1. CASE i - 1 = n
        BY <1>0, <1>4, <4>1
      <4>2. CASE i - 1 > n
        <5>1. f[i - 1] = g[n] + h[(i - 1) - n] /\ (i - 1) - n = (i - n) - 1
          BY <1>0, <4>2
        <5> QED
          BY <5>1
      <4> QED
        BY <1>0, <2>2, <4>1, <4>2
    <3>5. (i - n) - 1 \in 0 .. m /\ n \in 0 .. n
      BY <1>0, <3>1
    <3>6. h[(i - n) - 1] \in Nat /\ g[n] \in Nat
      BY <1>4, <3>5
    <3> HIDE DEF f
    <3> QED
      BY <3>1, <3>2, <3>3, <3>4, <3>6, SMTT(30)
  <2>3. i <= n \/ i > n
    BY <1>0
  <2> QED
    BY <2>1, <2>2, <2>3
<1>7. Adds(f, u, n + m)
  BY <1>5, <1>6 DEF Adds
<1>8. SumSeq(u) = f[n + m]
  BY <1>3, <1>7, SumSeqIs
<1>9. f[n + m] = g[n] + h[m]
  <2>1. CASE m = 0
    BY <1>0, <1>4, <2>1
  <2>2. CASE m > 0
    BY <1>0, <2>2
  <2> QED
    BY <1>0, <2>1, <2>2
<1> QED
  BY <1>1, <1>2, <1>8, <1>9

-----------------------------------------------------------------------------
(***************************************************************************)
(* The arithmetic of the descriptor memory.                                *)
(***************************************************************************)

USE RingAssumption, BlockAssumption

\* Remainders of a division by the size of the memory and of a block.
LEMMA Mods == /\ \A a \in Nat : a % Block \in 0 .. Block - 1
              /\ \A a \in 0 .. Ring - 1 : a % Ring = a
              /\ Ring % Ring = 0
  OBVIOUS

\* What transfer_init() takes: all that is left if it ends before the last
\* descriptor of the memory, else everything up to that.
LEMMA ChunkCases ==
  ASSUME NEW idx \in 0 .. Ring - 1, NEW left \in Nat
  PROVE  \/ idx + left < Ring /\ Chunk(idx, left) = left
         \/ idx + left >= Ring /\ Chunk(idx, left) = Ring - idx
  BY DEF Chunk, Smaller

\* transfer_init() takes at least one descriptor, never more than the request
\* has left and never past the end of the memory, and leaves desc_idx inside
\* the memory, exactly behind what it took or at the start again.
THEOREM ChunkFits ==
  ASSUME NEW idx \in 0 .. Ring - 1, NEW left \in Nat \ {0}
  PROVE  /\ Chunk(idx, left) \in 1 .. left
         /\ idx + Chunk(idx, left) <= Ring
         /\ NextIdx(idx, left) \in 0 .. Ring - 1
         /\ NextIdx(idx, left) \in {idx + Chunk(idx, left), 0}
<1>1. /\ Chunk(idx, left) \in 1 .. left
      /\ idx + Chunk(idx, left) <= Ring
  BY ChunkCases
<1>2. CASE idx + Chunk(idx, left) < Ring
  <2>1. idx + Chunk(idx, left) \in 0 .. Ring - 1
    BY <1>1, <1>2
  <2> QED
    BY <1>1, <2>1, Mods DEF NextIdx
<1>3. CASE idx + Chunk(idx, left) = Ring
  BY <1>1, <1>3, Mods DEF NextIdx
<1> QED
  BY <1>1, <1>2, <1>3

\* The two entries of req->tfer[] are enough for a request that fits into the
\* memory, if nobody else takes descriptors between its two transfer_init: what
\* the first one leaves over, the second takes entirely.
THEOREM TwoTransfersSuffice ==
  ASSUME NEW idx \in 0 .. Ring - 1, NEW left \in 1 .. Ring,
         Chunk(idx, left) # left
  PROVE  Chunk(NextIdx(idx, left), left - Chunk(idx, left))
           = left - Chunk(idx, left)
<1>1. idx + left >= Ring /\ Chunk(idx, left) = Ring - idx
  BY ChunkCases
<1>2. NextIdx(idx, left) = 0
  BY <1>1, Mods DEF NextIdx
<1>3. /\ left - Chunk(idx, left) \in Nat
      /\ left - Chunk(idx, left) < Ring
  BY <1>1
<1> QED
  BY <1>2, <1>3, ChunkCases

\* The prefetch that a descriptor asks for stays inside the transfer, and
\* inside the block the next descriptor lies in: the engine never fetches what
\* transfer_build did not write, nor across a page.
THEOREM PrefetchStays ==
  ASSUME NEW first \in Nat, NEW num \in Nat, NEW i \in Nat, i + 1 < num,
         NEW data
  PROVE  LET d == Descriptor(first, num, i, data)
         IN  /\ d.next = first + i + 1
             /\ d.next + d.adj < first + num
             /\ (d.next % Block) + d.adj < Block
<1> DEFINE d == Descriptor(first, num, i, data)
           next == first + i + 1
           rest == num - i - 1
<1>1. d.next = next /\ d.adj = NextAdj(rest, next)
  BY DEF Descriptor
<1>2. next % Block \in 0 .. Block - 1 /\ next \in Nat /\ rest \in Nat \ {0}
  BY Mods
<1> HIDE DEF d
<1>3. /\ NextAdj(rest, next) \in Nat
      /\ NextAdj(rest, next) <= rest - 1
      /\ (next % Block) + NextAdj(rest, next) < Block
  <2> DEFINE m == next % Block
  <2>1. m \in 0 .. Block - 1
    BY <1>2
  <2>2. NextAdj(rest, next) = IF rest <= 1 THEN 0
                              ELSE Smaller(Block - m - 1, rest - 1)
    BY DEF NextAdj
  <2> HIDE DEF m, rest, next
  <2>3. /\ NextAdj(rest, next) \in Nat
        /\ NextAdj(rest, next) <= rest - 1
        /\ m + NextAdj(rest, next) < Block
    BY <1>2, <2>1, <2>2 DEF Smaller
  <2> QED
    BY <2>3 DEF m
<1>4. next + NextAdj(rest, next) < first + num
  <2> DEFINE a == NextAdj(rest, next)
  <2>1. a \in Nat /\ a <= rest - 1
    BY <1>3
  <2> HIDE DEF a
  <2>2. next + a < first + num
    BY <2>1
  <2> QED
    BY <2>2 DEF a
<1>5. /\ d.next = next
      /\ d.next + d.adj < first + num
      /\ (d.next % Block) + d.adj < Block
  BY <1>1, <1>3, <1>4
<1> QED
  BY <1>5 DEF d

\* Adding less than what is left of a block does not leave the block.
LEMMA SameBlock ==
  ASSUME NEW a \in Nat, NEW j \in Nat, (a % Block) + j < Block
  PROVE  a \div Block = (a + j) \div Block
<1>1. /\ a = Block * (a \div Block) + (a % Block)
      /\ a \div Block \in Nat /\ a % Block \in 0 .. Block - 1
  OBVIOUS
<1>2. /\ a + j = Block * ((a + j) \div Block) + ((a + j) % Block)
      /\ (a + j) \div Block \in Nat /\ (a + j) % Block \in 0 .. Block - 1
  OBVIOUS
<1> PICK q \in Nat : q = a \div Block
  BY <1>1
<1> PICK p \in Nat : p = (a + j) \div Block
  BY <1>2
<1> PICK r \in Nat : r = a % Block
  BY <1>1
<1> PICK u \in Nat : u = (a + j) % Block
  BY <1>2
<1>3. Block * q + (r + j) = Block * p + u /\ u < Block
  BY <1>1, <1>2
<1>4. CASE p < q
  <2>1. Block * (q - p) = u - (r + j)
    BY <1>3
  <2>2. Block * (q - p) >= Block
    BY <1>4
  <2> QED
    BY <1>3, <2>1, <2>2
<1>5. CASE q < p
  <2>1. Block * (p - q) = (r + j) - u
    BY <1>3
  <2>2. Block * (p - q) >= Block
    BY <1>5
  <2> QED
    BY <1>3, <2>1, <2>2
<1> QED
  BY <1>4, <1>5

-----------------------------------------------------------------------------
(***************************************************************************)
(* Calls, their transfers and the list.                                    *)
(***************************************************************************)

Tfers == {t \in [first : 0 .. Ring - 1, num : 1 .. Ring, last : BOOLEAN] :
            t.first + t.num <= Ring}

\* The entry of req->tfer[] that transfer x is.
T(x) == tfer[x[1]][x[2]][x[3]]

TypeOK ==
  /\ pc \in [Calls -> {"idle", "segment", "submit", "init", "queue", "overrun",
                       "queued", "error"}]
  /\ shape \in [Calls -> Shapes \cup {<<>>}]
  /\ seg \in [Calls -> 1 .. MaxSegs]
  /\ nents \in [Calls -> 0 .. Ring]
  /\ tfer \in [Calls -> [1 .. MaxSegs -> Seq(Tfers)]]
  /\ overfull \in BOOLEAN /\ crossed \in BOOLEAN
  /\ desc = [i \in 0 .. Ring - 1 |-> desc[i]]
  /\ desc_idx \in 0 .. Ring - 1
  /\ list \in Seq(Xfers)
  /\ state \in [Xfers -> {"NEW", "SUBMITTED", "COMPLETED", "FAILED"}]

\* The descriptors of a request's transfers.
Taken(ts) == IF Len(ts) = 0 THEN 0
             ELSE IF Len(ts) = 1 THEN ts[1].num ELSE ts[1].num + ts[2].num

\* How far a call is: nothing is built for a segment before its turn.
Placed(c) ==
  /\ pc[c] # "idle" => shape[c] \in Shapes /\ seg[c] <= Len(shape[c])
  /\ pc[c] = "idle" => seg[c] = 1
  /\ \A s \in 1 .. MaxSegs : s > seg[c] => tfer[c][s] = <<>>
  /\ pc[c] \in {"idle", "segment", "submit", "error"} => tfer[c][seg[c]] = <<>>

\* A request has at most two transfers, and last_in_request marks the one that
\* ends it.
SegOK(c, s) ==
  /\ Len(tfer[c][s]) <= 2
  /\ \A k \in 1 .. Len(tfer[c][s]) :
       tfer[c][s][k].last => /\ k = Len(tfer[c][s])
                             /\ Taken(tfer[c][s]) = Len(Descs(c, s))

\* A request that is being cut: what is taken and what is left is all of it.
CutOK(c) ==
  /\ pc[c] \in {"init", "queue"} =>
       nents[c] + Taken(tfer[c][seg[c]]) = Len(Descs(c, seg[c]))
  /\ pc[c] = "init" =>
       /\ nents[c] > 0
       /\ \A k \in 1 .. Len(tfer[c][seg[c]]) : ~tfer[c][seg[c]][k].last
       /\ tfer[c][seg[c]] # <<>> => state[Built(c)] # "NEW"
  /\ pc[c] = "queue" =>
       /\ tfer[c][seg[c]] # <<>>
       /\ tfer[c][seg[c]][Len(tfer[c][seg[c]])].last <=> nents[c] = 0
       /\ state[Built(c)] = "NEW"

CallOK(c) == Placed(c) /\ CutOK(c) /\ \A s \in 1 .. MaxSegs : SegOK(c, s)

Settled(x) == state[x] \in {"COMPLETED", "FAILED"}

\* The list holds what was submitted and not settled, each once, and the two
\* transfers of a request in their order.
ListOK ==
  /\ \A n \in 1 .. Len(list) : /\ list[n][3] <= Len(tfer[list[n][1]][list[n][2]])
                               /\ state[list[n]] = "SUBMITTED"
  /\ \A x \in Xfers : state[x] = "SUBMITTED" =>
                        \E n \in 1 .. Len(list) : list[n] = x
  /\ \A m, n \in 1 .. Len(list) : list[m] = list[n] => m = n
  /\ \A m, n \in 1 .. Len(list) :
       list[m][1] = list[n][1] /\ list[m][2] = list[n][2] /\ m < n =>
         list[m][3] = 1

\* A transfer that was not built is new, and the second comes after the first.
StateOK ==
  /\ \A x \in Xfers : x[3] > Len(tfer[x[1]][x[2]]) => state[x] = "NEW"
  /\ \A c \in Calls, s \in 1 .. MaxSegs :
       /\ Len(tfer[c][s]) = 2 => state[<<c, s, 1>>] # "NEW"
       /\ Settled(<<c, s, 2>>) => Settled(<<c, s, 1>>)

BaseInv == TypeOK /\ (\A c \in Calls : CallOK(c)) /\ ListOK /\ StateOK

\* The parts of a transfer's name.
LEMMA XferParts ==
  /\ \A x \in Xfers : /\ x[1] \in Calls /\ x[2] \in 1 .. MaxSegs /\ x[3] \in 1 .. 2
                      /\ x = <<x[1], x[2], x[3]>>
  /\ \A c \in Calls, s \in 1 .. MaxSegs, k \in 1 .. 2 : <<c, s, k>> \in Xfers
  BY DEF Xfers

\* Only the empty sequence has no entries.
LEMMA NoEntries ==
  ASSUME NEW S, NEW q \in Seq(S)
  PROVE  q = <<>> <=> Len(q) = 0
  BY EmptySeq, LenProperties

\* Short sequences.
LEMMA ShortSeq ==
  ASSUME NEW S, NEW q \in Seq(S), Len(q) <= 2
  PROVE  \/ q = <<>> /\ Len(q) = 0
         \/ q # <<>> /\ Len(q) = 1
         \/ q # <<>> /\ Len(q) = 2
<1>1. PICK n : n = Len(q)
  OBVIOUS
<1>2. n \in Nat
  BY <1>1, LenProperties
<1>3. n \in 0 .. 2
  BY <1>1, <1>2
<1>4. n = 0 \/ n = 1 \/ n = 2
  BY <1>3
<1>5. q = <<>> <=> n = 0
  BY <1>1, NoEntries
<1> QED
  BY <1>1, <1>4, <1>5

\* One more transfer of a request.
LEMMA TakenAppend ==
  ASSUME NEW ts \in Seq(Tfers), Len(ts) <= 1, NEW t \in Tfers
  PROVE  /\ Append(ts, t) \in Seq(Tfers) /\ Len(Append(ts, t)) = Len(ts) + 1
         /\ \A k \in 1 .. Len(ts) : Append(ts, t)[k] = ts[k]
         /\ Append(ts, t)[Len(ts) + 1] = t
         /\ Taken(Append(ts, t)) = Taken(ts) + t.num
         /\ Taken(ts) \in Nat
<1>1. /\ Append(ts, t) \in Seq(Tfers) /\ Len(Append(ts, t)) = Len(ts) + 1
      /\ \A k \in 1 .. Len(ts) : Append(ts, t)[k] = ts[k]
      /\ Append(ts, t)[Len(ts) + 1] = t
      /\ Len(ts) \in Nat /\ \A k \in 1 .. Len(ts) : ts[k] \in Tfers
  BY AppendProperties, LenProperties
<1>2. t.num \in Nat /\ \A k \in 1 .. Len(ts) : ts[k].num \in Nat
  BY <1>1 DEF Tfers
<1>3. CASE Len(ts) = 0
  <2>1. Taken(ts) = 0 /\ Taken(Append(ts, t)) = t.num
    BY <1>1, <1>3 DEF Taken
  <2> QED
    BY <1>1, <1>2, <2>1
<1>4. CASE Len(ts) = 1
  <2>1. Taken(ts) = ts[1].num /\ Taken(Append(ts, t)) = ts[1].num + t.num
    BY <1>1, <1>4 DEF Taken
  <2> QED
    BY <1>1, <1>2, <1>4, <2>1
<1>5. Len(ts) = 0 \/ Len(ts) = 1
  <2>1. PICK n : n = Len(ts)
    OBVIOUS
  <2>2. n \in Nat /\ n <= 1
    BY <1>1, <2>1
  <2>3. n = 0 \/ n = 1
    BY <2>2
  <2> QED
    BY <2>1, <2>3
<1> QED
  BY <1>3, <1>4, <1>5

\* Steps that leave the transfers of call d alone, or only settle some.
LEMMA CallFrame ==
  ASSUME TypeOK, TypeOK', NEW d \in Calls, CallOK(d),
         pc'[d] = pc[d], shape'[d] = shape[d], seg'[d] = seg[d],
         nents'[d] = nents[d], tfer'[d] = tfer[d],
         \A s \in 1 .. MaxSegs, k \in 1 .. 2 :
           state'[<<d, s, k>>] = "NEW" <=> state[<<d, s, k>>] = "NEW"
  PROVE  CallOK(d)'
<1>1. Placed(d)'
  BY DEF CallOK, Placed
<1>2. \A s \in 1 .. MaxSegs : SegOK(d, s)'
  BY DEF CallOK, SegOK, Descs
<1>3. CutOK(d)'
  <2>1. seg[d] \in 1 .. MaxSegs /\ tfer[d][seg[d]] \in Seq(Tfers)
    BY DEF TypeOK
  <2>2. Len(tfer[d][seg[d]]) <= 2
    BY <2>1 DEF CallOK, SegOK
  <2>3. tfer[d][seg[d]] # <<>> => Len(tfer[d][seg[d]]) \in 1 .. 2
    <3>1. tfer[d][seg[d]] # <<>> =>
            Len(tfer[d][seg[d]]) = 1 \/ Len(tfer[d][seg[d]]) = 2
      BY <2>1, <2>2, ShortSeq
    <3> QED
      BY <3>1
  <2>4. /\ Built(d)' = Built(d)
        /\ Descs(d, seg[d])' = Descs(d, seg[d])
    BY DEF Built, Descs
  <2>5. tfer[d][seg[d]] # <<>> =>
          (state'[Built(d)] = "NEW" <=> state[Built(d)] = "NEW")
    BY <2>1, <2>3 DEF Built
  <2> QED
    BY <2>4, <2>5 DEF CallOK, CutOK
<1> QED
  BY <1>1, <1>2, <1>3 DEF CallOK

\* In the beginning no call has been made and nothing is queued.
LEMMA BaseInit == Init => BaseInv
<1> SUFFICES ASSUME Init PROVE BaseInv
  OBVIOUS
<1>1. /\ pc = [c \in Calls |-> "idle"] /\ shape = [c \in Calls |-> <<>>]
      /\ seg = [c \in Calls |-> 1] /\ nents = [c \in Calls |-> 0]
      /\ tfer = [c \in Calls |-> [s \in 1 .. MaxSegs |-> <<>>]]
      /\ desc = [i \in 0 .. Ring - 1 |-> Zeroed]
      /\ desc_idx = 0 /\ overfull = FALSE /\ crossed = FALSE
      /\ list = <<>> /\ state = [x \in Xfers |-> "NEW"]
  BY DEF Init, Engine!ContractInit
<1>2. TypeOK
  <2>1. <<>> \in Seq(Tfers) /\ <<>> \in Seq(Xfers) /\ 1 \in 1 .. MaxSegs
    BY EmptySeq DEF MaxSegs
  <2>2. tfer \in [Calls -> [1 .. MaxSegs -> Seq(Tfers)]] /\ list \in Seq(Xfers)
    BY <1>1, <2>1
  <2>3. desc_idx \in 0 .. Ring - 1 /\ desc = [i \in 0 .. Ring - 1 |-> desc[i]]
    BY <1>1
  <2>4. nents \in [Calls -> 0 .. Ring] /\ seg \in [Calls -> 1 .. MaxSegs]
    BY <1>1, <2>1
  <2> QED
    BY <1>1, <2>2, <2>3, <2>4 DEF TypeOK
<1>3. \A c \in Calls, s \in 1 .. MaxSegs : tfer[c][s] = <<>> /\ Len(tfer[c][s]) = 0
  BY <1>1
<1>4. ASSUME NEW c \in Calls PROVE CallOK(c)
  <2>1. pc[c] = "idle" /\ seg[c] = 1
    BY <1>1
  <2>2. Placed(c) /\ CutOK(c)
    BY <1>3, <2>1 DEF Placed, CutOK, MaxSegs
  <2>3. \A s \in 1 .. MaxSegs : SegOK(c, s)
    BY <1>3 DEF SegOK
  <2> QED
    BY <2>2, <2>3 DEF CallOK
<1>5. ListOK /\ StateOK
  BY <1>1, <1>3, XferParts DEF ListOK, StateOK, Settled
<1> QED
  BY <1>2, <1>4, <1>5 DEF BaseInv

\* A request's transfers and their number.
LEMMA TferFacts ==
  ASSUME BaseInv, NEW c \in Calls, NEW s \in 1 .. MaxSegs
  PROVE  /\ tfer[c][s] \in Seq(Tfers)
         /\ \A k \in 1 .. Len(tfer[c][s]) : tfer[c][s][k] \in Tfers
         /\ \/ tfer[c][s] = <<>> /\ Len(tfer[c][s]) = 0
            \/ tfer[c][s] # <<>> /\ Len(tfer[c][s]) = 1
            \/ tfer[c][s] # <<>> /\ Len(tfer[c][s]) = 2
<1>1. tfer[c][s] \in Seq(Tfers) /\ Len(tfer[c][s]) <= 2
  <2>1. tfer \in [Calls -> [1 .. MaxSegs -> Seq(Tfers)]]
    BY DEF BaseInv, TypeOK
  <2>2. CallOK(c)
    BY DEF BaseInv
  <2>3. SegOK(c, s)
    BY <2>2, Zenon DEF CallOK
  <2>4. tfer[c][s] \in Seq(Tfers)
    BY <2>1
  <2>5. Len(tfer[c][s]) <= 2
    BY <2>3 DEF SegOK
  <2> QED
    BY <2>4, <2>5
<1>2. \A k \in 1 .. Len(tfer[c][s]) : tfer[c][s][k] \in Tfers
  BY <1>1, ElementOfSeq
<1> QED
  BY <1>1, <1>2, ShortSeq

\* What a call brings is one of the shapes.
LEMMA Brought ==
  ASSUME NEW c \in Calls, AioCall(c)
  PROVE  \E sh \in Shapes : shape' = [shape EXCEPT ![c] = sh]
<1>1. PICK sh \in Brings[c] : shape' = [shape EXCEPT ![c] = sh]
  BY DEF AioCall
<1>2. sh \in Shapes
  BY DEF Shapes
<1> QED
  BY <1>1, <1>2

\* The shape of a call that was made.
LEMMA ShapeFacts ==
  ASSUME NEW sh \in Shapes
  PROVE  /\ sh \in Seq(Seq(Nat)) /\ (Len(sh) = 1 \/ Len(sh) = 2)
         /\ \A s \in 1 .. Len(sh) : sh[s] \in Seq(Nat) /\ Len(SoftDescs(sh[s])) \in 0 .. Ring
<1>1. /\ sh \in Seq(Seq(Nat)) /\ Len(sh) \in 1 .. MaxSegs
      /\ \A s \in DOMAIN sh : Len(SoftDescs(sh[s])) \in 0 .. Ring
  BY ShapeAssumption
<1>2. PICK n : n = Len(sh)
  OBVIOUS
<1>3. n = 1 \/ n = 2
  BY <1>1, <1>2 DEF MaxSegs
<1>4. /\ DOMAIN sh = 1 .. Len(sh)
      /\ \A s \in 1 .. Len(sh) : sh[s] \in Seq(Nat)
  BY <1>1, LenProperties, ElementOfSeq
<1> QED
  BY <1>1, <1>2, <1>3, <1>4

\* The step of a call from one place to another, which takes no descriptors.
Moves(c, p, g, m) ==
  /\ pc' = [pc EXCEPT ![c] = p]
  /\ seg' = [seg EXCEPT ![c] = g]
  /\ nents' = [nents EXCEPT ![c] = m]
  /\ pc[c] # "idle"
  /\ \/ p \in {"submit", "error"} /\ g = seg[c] /\ tfer[c][g] = <<>>
     \/ p \in {"overrun", "queued"} /\ g = seg[c]
     \/ p = "segment" /\ g = seg[c] + 1 /\ g <= Len(shape[c])
     \/ /\ p = "init" /\ g = seg[c] /\ tfer[c][g] = <<>>
        /\ m = Len(Descs(c, g)) /\ m > 0
  /\ m \in 0 .. Ring

\* Such a step keeps what is known of the calls.
LEMMA BaseMoves ==
  ASSUME BaseInv, NEW c \in Calls, NEW p, NEW g, NEW m, Moves(c, p, g, m),
         UNCHANGED <<shape, tfer, desc, desc_idx, overfull, crossed, list, state>>
  PROVE  BaseInv'
<1>0. TypeOK /\ ListOK /\ StateOK /\ \A d \in Calls : CallOK(d)
  BY DEF BaseInv
<1>1. g \in 1 .. MaxSegs /\ shape[c] \in Shapes
  <2>1. shape[c] \in Shapes /\ seg[c] \in 1 .. MaxSegs
    BY <1>0 DEF Moves, CallOK, Placed, TypeOK
  <2>2. PICK n : n = Len(shape[c])
    OBVIOUS
  <2>3. n = 1 \/ n = 2
    BY <2>1, <2>2, ShapeFacts
  <2>4. g = seg[c] \/ (g = seg[c] + 1 /\ g <= n)
    BY <2>2 DEF Moves
  <2>5. g \in 1 .. MaxSegs
    BY <2>1, <2>3, <2>4 DEF MaxSegs
  <2> QED
    BY <2>1, <2>5
<1>2. TypeOK'
  BY <1>0, <1>1 DEF TypeOK, Moves
<1>3. ListOK' /\ StateOK'
  BY <1>0 DEF ListOK, StateOK, Settled
<1>4. pc'[c] = p /\ seg'[c] = g /\ nents'[c] = m
  BY <1>0 DEF Moves, TypeOK
<1>5. Placed(c)'
  <2>1. /\ seg[c] <= Len(shape[c]) /\ seg[c] \in 1 .. MaxSegs
        /\ \A s \in 1 .. MaxSegs : s > seg[c] => tfer[c][s] = <<>>
    BY <1>0 DEF Moves, CallOK, Placed, TypeOK
  <2>2. g <= Len(shape[c]) /\ p # "idle" /\ g >= seg[c]
    BY <2>1 DEF Moves
  <2>3. \A s \in 1 .. MaxSegs : s > g => tfer[c][s] = <<>>
    BY <1>1, <2>1, <2>2
  <2>4. p \in {"idle", "segment", "submit", "error"} => tfer[c][g] = <<>>
    BY <1>1, <2>1 DEF Moves
  <2> QED
    BY <1>1, <1>4, <2>2, <2>3, <2>4 DEF Placed
<1>6. CutOK(c)'
  <2>1. CASE p # "init"
    BY <1>4, <2>1 DEF CutOK, Moves
  <2>2. CASE p = "init"
    <3>1. tfer[c][g] = <<>> /\ m = Len(Descs(c, g)) /\ m > 0 /\ m \in 0 .. Ring
      BY <2>2 DEF Moves
    <3>2. Len(tfer[c][g]) = 0
      BY <3>1
    <3>3. Taken(tfer[c][g]) = 0
      BY <3>2 DEF Taken
    <3>4. Descs(c, seg[c])' = Descs(c, g)
      BY <1>4 DEF Descs
    <3>6. m + 0 = m
      BY <3>1
    <3> QED
      BY <1>4, <2>2, <3>1, <3>2, <3>3, <3>4, <3>6 DEF CutOK
  <2> QED
    BY <2>1, <2>2
<1>7. CallOK(c)'
  <2>1. \A s \in 1 .. MaxSegs : SegOK(c, s)'
    BY <1>0 DEF CallOK, SegOK, Descs
  <2> QED
    BY <1>5, <1>6, <2>1 DEF CallOK
<1>8. ASSUME NEW d \in Calls, d # c PROVE CallOK(d)'
  <2>1. pc'[d] = pc[d] /\ seg'[d] = seg[d] /\ nents'[d] = nents[d]
    BY <1>0, <1>8 DEF TypeOK, Moves
  <2> QED
    BY <1>0, <1>2, <2>1, CallFrame
<1> QED
  BY <1>2, <1>3, <1>7, <1>8 DEF BaseInv

\* transfer_init() builds transfer t for call c.
Takes(c, t) ==
  /\ pc[c] = "init" /\ pc' = [pc EXCEPT ![c] = "queue"]
  /\ t \in Tfers /\ t.first = desc_idx /\ t.num = Chunk(desc_idx, nents[c])
  /\ t.last <=> nents[c] = t.num
  /\ t.num \in 1 .. nents[c] /\ nents' = [nents EXCEPT ![c] = @ - t.num]
  /\ \/ tfer[c][seg[c]] = <<>> /\ Len(tfer[c][seg[c]]) = 0
     \/ tfer[c][seg[c]] # <<>> /\ Len(tfer[c][seg[c]]) = 1
  /\ tfer' = [tfer EXCEPT ![c][seg[c]] = Append(@, t)]
  /\ desc_idx' = NextIdx(desc_idx, nents[c]) /\ desc_idx' \in 0 .. Ring - 1
  /\ UNCHANGED <<shape, seg, list, state>>

\* It does so, and finds the state as kzalloc() left it.
LEMMA TransferInitTakes ==
  ASSUME BaseInv, NEW c \in Calls, TransferInit(c)
  PROVE  \E t : Takes(c, t)
<1> DEFINE s == seg[c]
           ts == tfer[c][s]
           num == Chunk(desc_idx, nents[c])
           t == [first |-> desc_idx, num |-> num, last |-> nents[c] = num]
<1>0. TypeOK /\ CallOK(c) /\ StateOK
  BY DEF BaseInv
<1>1. /\ pc[c] = "init" /\ Len(ts) + 1 <= 2
      /\ tfer' = [tfer EXCEPT ![c][s] = Append(@, t)]
      /\ desc_idx' = NextIdx(desc_idx, nents[c])
      /\ nents' = [nents EXCEPT ![c] = @ - num]
      /\ pc' = [pc EXCEPT ![c] = "queue"]
      /\ state' = [state EXCEPT ![Building(c)] = "NEW"]
      /\ UNCHANGED <<shape, seg, list>>
  BY DEF TransferInit, Building, Engine!Renew
<1>2. /\ s \in 1 .. MaxSegs /\ nents[c] \in Nat \ {0} /\ nents[c] <= Ring
      /\ desc_idx \in 0 .. Ring - 1
  BY <1>0, <1>1 DEF TypeOK, CallOK, CutOK
<1>3. /\ num \in 1 .. nents[c] /\ desc_idx + num <= Ring
      /\ desc_idx' \in 0 .. Ring - 1
  BY <1>1, <1>2, ChunkFits
<1>4. t \in Tfers /\ t.num = num /\ t.first = desc_idx /\ (t.last <=> nents[c] = num)
  <2> HIDE DEF num
  <2>1. num \in 1 .. Ring /\ (nents[c] = num) \in BOOLEAN
    BY <1>2, <1>3
  <2> QED
    BY <1>2, <1>3, <2>1 DEF Tfers
<1>5. \/ ts = <<>> /\ Len(ts) = 0
      \/ ts # <<>> /\ Len(ts) = 1
  <2>1. PICK n : n = Len(ts)
    OBVIOUS
  <2>2. (ts = <<>> /\ n = 0) \/ (ts # <<>> /\ (n = 1 \/ n = 2))
    BY <1>2, <2>1, TferFacts
  <2>3. n + 1 <= 2
    BY <1>1, <2>1
  <2>4. n # 2
    BY <2>3
  <2> QED
    BY <2>1, <2>2, <2>4
<1>6. state' = state
  <2>1. Building(c) = <<c, s, Len(ts) + 1>>
    BY DEF Building
  <2>2. PICK n : n = Len(ts) /\ (n = 0 \/ n = 1)
    BY <1>5
  <2>3. Building(c) \in Xfers
    <3>0. n = 0 \/ n = 1
      BY <2>2
    <3>1. n + 1 \in 1 .. 2
      BY <3>0
    <3>2. <<c, s, n + 1>> \in Xfers
      BY <1>2, <3>1, XferParts
    <3> QED
      BY <2>1, <2>2, <3>2
  <2>4. Building(c)[3] > Len(tfer[Building(c)[1]][Building(c)[2]])
    BY <1>5, <2>1
  <2>5. state[Building(c)] = "NEW"
    BY <1>0, <2>3, <2>4 DEF StateOK
  <2>6. state \in [Xfers -> {"NEW", "SUBMITTED", "COMPLETED", "FAILED"}]
    BY <1>0 DEF TypeOK
  <2> QED
    BY <1>1, <2>3, <2>5, <2>6
<1>7. Takes(c, t)
  <2> HIDE DEF t
  <2> QED
    BY <1>1, <1>3, <1>4, <1>5, <1>6 DEF Takes
<1> QED
  BY <1>7

\* The entries of req->tfer[] after that.
LEMMA TakesTfer ==
  ASSUME BaseInv, NEW c \in Calls, NEW t, Takes(c, t)
  PROVE  LET s == seg[c] IN
         /\ s \in 1 .. MaxSegs
         /\ tfer'[c][s] = Append(tfer[c][s], t)
         /\ tfer'[c][s] \in Seq(Tfers)
         /\ tfer'[c][s] # <<>>
         /\ \/ /\ tfer[c][s] = <<>> /\ Len(tfer[c][s]) = 0
               /\ Len(tfer'[c][s]) = 1 /\ tfer'[c][s][1] = t
            \/ /\ tfer[c][s] # <<>> /\ Len(tfer[c][s]) = 1
               /\ Len(tfer'[c][s]) = 2
               /\ tfer'[c][s][1] = tfer[c][s][1] /\ tfer'[c][s][2] = t
         /\ Taken(tfer'[c][s]) = Taken(tfer[c][s]) + t.num
         /\ Taken(tfer[c][s]) \in Nat
         /\ \A d \in Calls : d # c => tfer'[d] = tfer[d]
         /\ \A r \in 1 .. MaxSegs : r # s => tfer'[c][r] = tfer[c][r]
<1> DEFINE s == seg[c]
           ts == tfer[c][s]
<1>0. s \in 1 .. MaxSegs /\ tfer \in [Calls -> [1 .. MaxSegs -> Seq(Tfers)]]
  BY DEF BaseInv, TypeOK
<1>1. ts \in Seq(Tfers) /\ t \in Tfers
  BY <1>0 DEF Takes
<1>2. /\ tfer'[c][s] = Append(ts, t)
      /\ \A d \in Calls : d # c => tfer'[d] = tfer[d]
      /\ \A r \in 1 .. MaxSegs : r # s => tfer'[c][r] = tfer[c][r]
  BY <1>0 DEF Takes
<1>3. CASE ts = <<>> /\ Len(ts) = 0
  <2>1. PICK u : u = ts
    OBVIOUS
  <2>2. PICK v : v = Append(u, t)
    OBVIOUS
  <2>3. u \in Seq(Tfers) /\ Len(u) = 0
    BY <1>1, <1>3, <2>1, Zenon
  <2>4. /\ v \in Seq(Tfers) /\ Len(v) = 1 /\ v[1] = t
        /\ Taken(v) = Taken(u) + t.num /\ Taken(u) \in Nat
    <3>1. Len(u) <= 1
      BY <2>3
    <3>2. /\ Append(u, t) \in Seq(Tfers) /\ Len(Append(u, t)) = Len(u) + 1
          /\ Append(u, t)[Len(u) + 1] = t
          /\ Taken(Append(u, t)) = Taken(u) + t.num
          /\ Taken(u) \in Nat
      BY <1>1, <2>3, <3>1, TakenAppend
    <3> QED
      BY <2>2, <2>3, <3>2
  <2>5. v # <<>>
    <3>1. v \in Seq(Tfers) /\ Len(v) = 1
      BY <2>4
    <3> QED
      BY <3>1
  <2> QED
    BY <1>0, <1>2, <1>3, <2>1, <2>2, <2>4, <2>5, Zenon
<1>4. CASE ts # <<>> /\ Len(ts) = 1
  <2>1. /\ Append(ts, t) \in Seq(Tfers) /\ Len(Append(ts, t)) = 2
        /\ Append(ts, t)[1] = ts[1]
        /\ Append(ts, t)[2] = t
        /\ Taken(Append(ts, t)) = Taken(ts) + t.num
        /\ Taken(ts) \in Nat
    <3> PICK u : u = ts
      OBVIOUS
    <3>1. u \in Seq(Tfers) /\ Len(u) = 1
      BY <1>1, <1>4
    <3>2. Len(u) <= 1
      BY <3>1
    <3>3. /\ Append(u, t) \in Seq(Tfers) /\ Len(Append(u, t)) = Len(u) + 1
          /\ \A k \in 1 .. Len(u) : Append(u, t)[k] = u[k]
          /\ Append(u, t)[Len(u) + 1] = t
          /\ Taken(Append(u, t)) = Taken(u) + t.num
          /\ Taken(u) \in Nat
      BY <1>1, <3>1, <3>2, TakenAppend
    <3> QED
      BY <3>1, <3>3
  <2>2. Append(ts, t) # <<>>
    <3>1. PICK v : v = Append(ts, t)
      OBVIOUS
    <3>2. v \in Seq(Tfers) /\ Len(v) = 2
      BY <2>1, <3>1, Zenon
    <3>3. v # <<>>
      BY <3>2
    <3> QED
      BY <3>1, <3>3
  <2> QED
    BY <1>0, <1>2, <1>4, <2>1, <2>2
<1> QED
  BY <1>3, <1>4 DEF Takes

\* transfer_init() keeps what is known of the calls.
LEMMA BaseTakes ==
  ASSUME BaseInv, NEW c \in Calls, NEW t, Takes(c, t),
         desc' = [i \in 0 .. Ring - 1 |-> desc'[i]],
         overfull' \in BOOLEAN, crossed' \in BOOLEAN
  PROVE  BaseInv'
<1> PICK s : s = seg[c]
  OBVIOUS
<1> DEFINE ts == tfer[c][s]
           us == tfer'[c][s]
<1>0. TypeOK /\ ListOK /\ StateOK /\ \A d \in Calls : CallOK(d)
  BY DEF BaseInv
<1>1. /\ s \in 1 .. MaxSegs
      /\ us = Append(ts, t) /\ us \in Seq(Tfers)
      /\ us # <<>>
      /\ \/ ts = <<>> /\ Len(ts) = 0 /\ Len(us) = 1 /\ us[1] = t
         \/ ts # <<>> /\ Len(ts) = 1 /\ Len(us) = 2 /\ us[1] = ts[1] /\ us[2] = t
      /\ Taken(us) = Taken(ts) + t.num
      /\ Taken(ts) \in Nat
      /\ \A d \in Calls : d # c => tfer'[d] = tfer[d]
      /\ \A r \in 1 .. MaxSegs : r # s => tfer'[c][r] = tfer[c][r]
  BY TakesTfer
<1>2. /\ pc'[c] = "queue" /\ \A d \in Calls : d # c => pc'[d] = pc[d]
      /\ nents'[c] = nents[c] - t.num /\ \A d \in Calls : d # c => nents'[d] = nents[d]
      /\ UNCHANGED <<shape, seg, list, state>>
      /\ nents[c] \in 0 .. Ring /\ t.num \in 1 .. nents[c]
  BY <1>0 DEF Takes, TypeOK
<1>3. TypeOK'
  <2>1. /\ pc' \in [Calls -> {"idle", "segment", "submit", "init", "queue",
                              "overrun", "queued", "error"}]
        /\ desc_idx' \in 0 .. Ring - 1
    BY <1>0 DEF Takes, TypeOK
  <2>2. nents' \in [Calls -> 0 .. Ring]
    <3>1. nents[c] - t.num \in 0 .. Ring
      BY <1>2
    <3> QED
      BY <1>0, <3>1 DEF Takes, TypeOK
  <2>3. tfer' \in [Calls -> [1 .. MaxSegs -> Seq(Tfers)]]
    BY <1>0, <1>1, SMTT(30) DEF Takes, TypeOK
  <2>4. /\ shape' \in [Calls -> Shapes \cup {<<>>}] /\ seg' \in [Calls -> 1 .. MaxSegs]
        /\ list' \in Seq(Xfers)
        /\ state' \in [Xfers -> {"NEW", "SUBMITTED", "COMPLETED", "FAILED"}]
    <3>1. /\ shape \in [Calls -> Shapes \cup {<<>>}] /\ seg \in [Calls -> 1 .. MaxSegs]
          /\ list \in Seq(Xfers)
          /\ state \in [Xfers -> {"NEW", "SUBMITTED", "COMPLETED", "FAILED"}]
      BY <1>0 DEF TypeOK
    <3> QED
      BY <1>2, <3>1
  <2> QED
    BY <2>1, <2>2, <2>3, <2>4 DEF TypeOK
<1>4. ListOK'
  <2>1. ASSUME NEW n \in 1 .. Len(list)
        PROVE  list[n][3] <= Len(tfer'[list[n][1]][list[n][2]])
    <3>1. list[n] \in Xfers
      BY <1>0, ElementOfSeq DEF TypeOK
    <3>2. list[n][1] \in Calls /\ list[n][2] \in 1 .. MaxSegs /\ list[n][3] \in 1 .. 2
      BY <3>1, XferParts
    <3>3. list[n][3] <= Len(tfer[list[n][1]][list[n][2]])
      BY <1>0 DEF ListOK
    <3>4. CASE list[n][1] = c /\ list[n][2] = s
      <4>1. PICK k, l : k = Len(ts) /\ l = Len(us)
        OBVIOUS
      <4>2. (k = 0 /\ l = 1) \/ (k = 1 /\ l = 2)
        BY <1>1, <4>1
      <4>3. list[n][3] <= k
        BY <3>3, <3>4, <4>1
      <4>4. list[n][3] <= l
        BY <3>2, <4>2, <4>3
      <4> QED
        BY <3>4, <4>1, <4>4
    <3>5. CASE ~(list[n][1] = c /\ list[n][2] = s)
      <4>1. tfer'[list[n][1]][list[n][2]] = tfer[list[n][1]][list[n][2]]
        BY <1>1, <3>2, <3>5
      <4> QED
        BY <3>3, <4>1
    <3> QED
      BY <3>4, <3>5
  <2> QED
    BY <1>0, <1>2, <2>1 DEF ListOK
<1>5. StateOK'
  <2>1. ASSUME NEW x \in Xfers, x[3] > Len(tfer'[x[1]][x[2]]) PROVE state[x] = "NEW"
    <3>1. x[1] \in Calls /\ x[2] \in 1 .. MaxSegs /\ x[3] \in 1 .. 2
      BY XferParts
    <3>2. x[3] > Len(tfer[x[1]][x[2]])
      <4>1. CASE x[1] = c /\ x[2] = s
        <5>1. PICK k, l : k = Len(ts) /\ l = Len(us)
          OBVIOUS
        <5>2. (k = 0 /\ l = 1) \/ (k = 1 /\ l = 2)
          BY <1>1, <5>1
        <5>3. x[3] > l
          BY <2>1, <4>1, <5>1
        <5>4. x[3] > k
          BY <3>1, <5>2, <5>3
        <5> QED
          BY <4>1, <5>1, <5>4
      <4>2. CASE ~(x[1] = c /\ x[2] = s)
        <5>1. tfer'[x[1]][x[2]] = tfer[x[1]][x[2]]
          BY <1>1, <3>1, <4>2
        <5> QED
          BY <2>1, <5>1
      <4> QED
        BY <4>1, <4>2
    <3> QED
      BY <1>0, <3>2 DEF StateOK
  <2>2. ASSUME NEW d \in Calls, NEW r \in 1 .. MaxSegs, Len(tfer'[d][r]) = 2
        PROVE  state[<<d, r, 1>>] # "NEW"
    <3>1. CASE d = c /\ r = s
      <4>1. Len(ts) = 1 /\ ts # <<>>
        <5>1. Len(us) = 2 /\ 1 # 2
          BY <2>2, <3>1
        <5> QED
          BY <1>1, <5>1, Zenon
      <4>2. Built(c) = <<c, s, 1>>
        BY <4>1 DEF Built
      <4>3. state[Built(c)] # "NEW"
        BY <1>0, <4>1 DEF CallOK, CutOK, Takes
      <4> QED
        BY <3>1, <4>2, <4>3
    <3>2. CASE ~(d = c /\ r = s)
      <4>1. tfer'[d][r] = tfer[d][r]
        BY <1>1, <3>2
      <4> QED
        BY <1>0, <2>2, <4>1 DEF StateOK
    <3> QED
      BY <3>1, <3>2
  <2>3. \A d \in Calls, r \in 1 .. MaxSegs :
          Settled(<<d, r, 2>>)' => Settled(<<d, r, 1>>)'
    BY <1>0, <1>2, SMTT(30) DEF StateOK, Settled
  <2> QED
    BY <1>2, <2>1, <2>2, <2>3 DEF StateOK
<1>6. Placed(c)'
  BY <1>0, <1>1, <1>2, SMTT(30) DEF CallOK, Placed, Takes
<1>7. /\ nents[c] + Taken(ts) = Len(Descs(c, s))
      /\ \A k \in 1 .. Len(ts) : ~ts[k].last
      /\ Descs(c, s)' = Descs(c, s)
      /\ t.last <=> nents[c] = t.num
  BY <1>0, <1>2 DEF CallOK, CutOK, Takes, Descs
<1>8. nents'[c] + Taken(us) = Len(Descs(c, s))
  BY <1>1, <1>2, <1>7, SMTT(30)
<1>9. t.last <=> nents'[c] = 0
  BY <1>2, <1>7
<1>10. \A r \in 1 .. MaxSegs : SegOK(c, r)'
  <2>1. ASSUME NEW r \in 1 .. MaxSegs, r # s PROVE SegOK(c, r)'
    <3>1. SegOK(c, r) /\ tfer'[c][r] = tfer[c][r] /\ Descs(c, r)' = Descs(c, r)
      BY <1>0, <1>1, <1>2, <2>1 DEF CallOK, Descs
    <3> QED
      BY <3>1 DEF SegOK
  <2>2. SegOK(c, s)'
    <3>1. t.last => Taken(us) = Len(Descs(c, s))
      BY <1>1, <1>8, <1>9, <1>2
    <3>2. CASE Len(us) = 1
      BY <1>1, <1>2, <1>7, <3>1, <3>2 DEF SegOK
    <3>3. CASE Len(us) = 2
      <4>1. ~ts[1].last
        BY <1>1, <1>7, <3>3
      <4>2. us[1] = ts[1] /\ us[2] = t
        <5>1. 1 # 2
          OBVIOUS
        <5> QED
          BY <1>1, <3>3, <5>1, Zenon
      <4>3. PICK vs : vs = us
        OBVIOUS
      <4>4. /\ Len(vs) = 2 /\ ~vs[1].last
            /\ vs[2].last => Taken(vs) = Len(Descs(c, s)')
        BY <1>7, <3>1, <3>3, <4>1, <4>2, <4>3
      <4>5. /\ Len(vs) <= 2
            /\ \A k \in 1 .. Len(vs) :
                 vs[k].last => k = Len(vs) /\ Taken(vs) = Len(Descs(c, s)')
        BY <4>4
      <4> QED
        BY <4>3, <4>5 DEF SegOK
    <3> QED
      BY <1>1, <3>2, <3>3
  <2> QED
    BY <2>1, <2>2
<1>11. CutOK(c)'
  <2>1. Built(c)' = <<c, s, Len(us)>>
    BY <1>2 DEF Built
  <2>2. us # <<>> /\ us[Len(us)] = t
    BY <1>1
  <2>3. state[<<c, s, Len(us)>>] = "NEW"
    <3>1. CASE Len(us) = 1
      <4>1. <<c, s, 1>> \in Xfers /\ Len(tfer[c][s]) = 0
        <5>1. 1 \in 1 .. 2 /\ 1 # 2
          OBVIOUS
        <5> QED
          BY <1>1, <3>1, <5>1, XferParts, Zenon
      <4>2. 1 > Len(tfer[c][s])
        BY <4>1
      <4> QED
        BY <1>0, <3>1, <4>1, <4>2 DEF StateOK
    <3>2. CASE Len(us) = 2
      <4>1. <<c, s, 2>> \in Xfers /\ Len(tfer[c][s]) = 1
        <5>1. 2 \in 1 .. 2 /\ 1 # 2
          OBVIOUS
        <5> QED
          BY <1>1, <3>2, <5>1, XferParts, Zenon
      <4>2. 2 > Len(tfer[c][s])
        BY <4>1
      <4> QED
        BY <1>0, <3>2, <4>1, <4>2 DEF StateOK
    <3> QED
      BY <1>1, <3>1, <3>2
  <2> QED
    BY <1>2, <1>7, <1>8, <1>9, <2>1, <2>2, <2>3 DEF CutOK
<1>12. ASSUME NEW d \in Calls, d # c PROVE CallOK(d)'
  BY <1>0, <1>1, <1>2, <1>3, <1>12, CallFrame
<1> QED
  BY <1>3, <1>4, <1>5, <1>6, <1>10, <1>11, <1>12 DEF BaseInv, CallOK

\* transfer_queue() puts transfer x of call c at the end of the list.
Queues(c, x) ==
  /\ pc[c] = "queue" /\ x = Built(c) /\ x \in Xfers /\ state[x] = "NEW"
  /\ state' = [state EXCEPT ![x] = "SUBMITTED"]
  /\ list' = Append(list, x)
  /\ \/ nents[c] # 0 /\ pc' = [pc EXCEPT ![c] = "init"] /\ seg' = seg
     \/ nents[c] = 0 /\ pc' = [pc EXCEPT ![c] = "queued"] /\ seg' = seg
     \/ /\ nents[c] = 0 /\ pc' = [pc EXCEPT ![c] = "segment"]
        /\ seg' = [seg EXCEPT ![c] = @ + 1] /\ seg[c] < Len(shape[c])
  /\ UNCHANGED <<shape, nents, tfer, desc, desc_idx, desc_used, overfull, crossed>>

\* The transfer a call has built.
LEMMA BuiltFacts ==
  ASSUME BaseInv, NEW c \in Calls, tfer[c][seg[c]] # <<>>
  PROVE  /\ seg[c] \in 1 .. MaxSegs
         /\ Built(c) = <<c, seg[c], Len(tfer[c][seg[c]])>> /\ Built(c) \in Xfers
         /\ T(Built(c)) = tfer[c][seg[c]][Len(tfer[c][seg[c]])]
         /\ T(Built(c)) \in Tfers
         /\ Len(tfer[c][seg[c]]) = 1 \/ Len(tfer[c][seg[c]]) = 2
<1> PICK s : s = seg[c]
  OBVIOUS
<1>0. s \in 1 .. MaxSegs
  BY DEF BaseInv, TypeOK
<1> PICK ts : ts = tfer[c][s]
  OBVIOUS
<1>1. /\ ts \in Seq(Tfers) /\ (Len(ts) = 1 \/ Len(ts) = 2)
      /\ \A k \in 1 .. Len(ts) : ts[k] \in Tfers
  BY <1>0, TferFacts
<1>2. PICK n : n = Len(ts)
  OBVIOUS
<1>3. n = 1 \/ n = 2
  BY <1>1, <1>2
<1>4. n \in 1 .. 2 /\ n \in 1 .. n
  BY <1>3
<1>5. <<c, s, n>> \in Xfers /\ ts[n] \in Tfers
  BY <1>0, <1>1, <1>2, <1>4, XferParts
<1> QED
  BY <1>0, <1>2, <1>3, <1>5 DEF Built, T

\* It does so.
LEMMA TransferQueueQueues ==
  ASSUME BaseInv, NEW c \in Calls, TransferQueue(c)
  PROVE  Queues(c, Built(c))
<1>1. /\ pc[c] = "queue" /\ tfer[c][seg[c]] # <<>>
  BY DEF BaseInv, CallOK, CutOK, TransferQueue
<1>2. Built(c) \in Xfers
  BY <1>1, BuiltFacts
<1>3. /\ state[Built(c)] = "NEW"
      /\ state' = [state EXCEPT ![Built(c)] = "SUBMITTED"]
      /\ list' = Append(list, Built(c))
      /\ UNCHANGED <<shape, nents, tfer, desc, desc_idx, desc_used, overfull, crossed>>
  BY DEF TransferQueue, Engine!Submit, ring
<1>4. \/ nents[c] # 0 /\ pc' = [pc EXCEPT ![c] = "init"] /\ seg' = seg
      \/ nents[c] = 0 /\ pc' = [pc EXCEPT ![c] = "queued"] /\ seg' = seg
      \/ /\ nents[c] = 0 /\ pc' = [pc EXCEPT ![c] = "segment"]
         /\ seg' = [seg EXCEPT ![c] = @ + 1] /\ seg[c] < Len(shape[c])
  BY DEF TransferQueue, NextSegment
<1> QED
  BY <1>1, <1>2, <1>3, <1>4 DEF Queues

\* The list with one more entry.
LEMMA Longer ==
  ASSUME NEW l \in Seq(Xfers), NEW x \in Xfers
  PROVE  /\ Append(l, x) \in Seq(Xfers)
         /\ \E n \in Nat : /\ n = Len(l) /\ n + 1 = Len(Append(l, x))
                           /\ \A k \in 1 .. n : Append(l, x)[k] = l[k]
                           /\ Append(l, x)[n + 1] = x
  BY AppendProperties, LenProperties

\* transfer_queue() keeps the list in order.
LEMMA QueueList ==
  ASSUME BaseInv, NEW c \in Calls, NEW x, Queues(c, x)
  PROVE  ListOK' /\ StateOK' /\ list' \in Seq(Xfers)
<1>0. TypeOK /\ ListOK /\ StateOK
  BY DEF BaseInv
<1>1. list \in Seq(Xfers) /\ x \in Xfers /\ list' = Append(list, x) /\ tfer' = tfer
  BY <1>0 DEF TypeOK, Queues
<1>2. PICK n \in Nat : /\ n = Len(list) /\ n + 1 = Len(list')
                       /\ \A k \in 1 .. n : list'[k] = list[k]
                       /\ list'[n + 1] = x
  BY <1>1, Longer
<1>3. /\ state[x] = "NEW" /\ state'[x] = "SUBMITTED"
      /\ \A y \in Xfers : y # x => state'[y] = state[y]
  BY <1>0, <1>1 DEF Queues, TypeOK
<1>4. \A k \in 1 .. n : list[k] \in Xfers /\ list[k] # x /\ state[list[k]] = "SUBMITTED"
  BY <1>0, <1>2, <1>3, ElementOfSeq DEF ListOK, TypeOK
<1>5. /\ x = <<c, seg[c], Len(tfer[c][seg[c]])>> /\ seg[c] \in 1 .. MaxSegs
      /\ x[1] = c /\ x[2] = seg[c] /\ x[3] = Len(tfer[c][seg[c]]) /\ x[3] \in 1 .. 2
  BY <1>0, <1>1, XferParts DEF Queues, Built, TypeOK
<1>6. ListOK'
  <2>1. \A k \in 1 .. n + 1 : /\ list'[k][3] <= Len(tfer[list'[k][1]][list'[k][2]])
                              /\ state'[list'[k]] = "SUBMITTED"
    <3>1. \A k \in 1 .. n : list[k][3] <= Len(tfer[list[k][1]][list[k][2]])
      BY <1>0, <1>2 DEF ListOK
    <3>2. x[3] <= Len(tfer[x[1]][x[2]])
      BY <1>5
    <3> QED
      BY <1>2, <1>3, <1>4, <3>1, <3>2
  <2>2. ASSUME NEW y \in Xfers, state'[y] = "SUBMITTED"
        PROVE  \E k \in 1 .. n + 1 : list'[k] = y
    <3>1. CASE y = x
      BY <1>2, <3>1
    <3>2. CASE y # x
      <4>1. PICK k \in 1 .. n : list[k] = y
        BY <1>0, <1>2, <1>3, <2>2, <3>2 DEF ListOK
      <4> QED
        BY <1>2, <4>1
    <3> QED
      BY <3>1, <3>2
  <2>3. \A k, m \in 1 .. n + 1 : list'[k] = list'[m] => k = m
    <3>1. \A k, m \in 1 .. n : list[k] = list[m] => k = m
      BY <1>0, <1>2 DEF ListOK
    <3> QED
      BY <1>2, <1>4, <3>1
  <2>4. ASSUME NEW k \in 1 .. n + 1, NEW m \in 1 .. n + 1,
               list'[k][1] = list'[m][1], list'[k][2] = list'[m][2], k < m
        PROVE  list'[k][3] = 1
    <3>1. k \in 1 .. n /\ list'[k] = list[k]
      BY <1>2, <2>4
    <3>2. CASE m = n + 1
      <4>1. list[k] \in Xfers /\ list[k] # x
        BY <1>4, <3>1
      <4>2. list[k] = <<list[k][1], list[k][2], list[k][3]>> /\ list[k][3] \in 1 .. 2
        BY <4>1, XferParts
      <4>3. list[k][1] = c /\ list[k][2] = seg[c] /\ list[k][3] <= x[3]
        BY <1>0, <1>2, <1>5, <2>4, <3>1, <3>2 DEF ListOK
      <4>4. list[k][3] # x[3]
        BY <1>5, <4>1, <4>2, <4>3
      <4>5. x[3] \in 1 .. 2
        BY <1>5
      <4>6. list[k][3] = 1
        BY <4>2, <4>3, <4>4, <4>5
      <4> QED
        BY <3>1, <4>6
    <3>3. CASE m # n + 1
      <4>1. m \in 1 .. n /\ list'[m] = list[m]
        BY <1>2, <3>3
      <4> QED
        BY <1>0, <1>2, <2>4, <3>1, <4>1 DEF ListOK
    <3> QED
      BY <3>2, <3>3
  <2> QED
    BY <1>1, <1>2, <2>1, <2>2, <2>3, <2>4, ZenonT(30) DEF ListOK
<1>7. StateOK'
  <2>1. ASSUME NEW y \in Xfers, y[3] > Len(tfer[y[1]][y[2]]) PROVE state'[y] = "NEW"
    <3>1. state[y] = "NEW"
      BY <1>0, <2>1 DEF StateOK
    <3>2. y # x
      BY <1>5, <2>1
    <3> QED
      BY <1>3, <3>1, <3>2
  <2>2. ASSUME NEW d \in Calls, NEW r \in 1 .. MaxSegs
        PROVE  /\ Len(tfer[d][r]) = 2 => state'[<<d, r, 1>>] # "NEW"
               /\ Settled(<<d, r, 2>>)' => Settled(<<d, r, 1>>)'
    <3>1. <<d, r, 1>> \in Xfers /\ <<d, r, 2>> \in Xfers
      BY XferParts
    <3>2. Len(tfer[d][r]) = 2 => state'[<<d, r, 1>>] # "NEW"
      BY <1>0, <1>3, <3>1 DEF StateOK
    <3>3. ASSUME Settled(<<d, r, 2>>)' PROVE Settled(<<d, r, 1>>)'
      <4>1. <<d, r, 2>> # x /\ Settled(<<d, r, 2>>)
        BY <1>3, <3>1, <3>3 DEF Settled
      <4>2. Settled(<<d, r, 1>>)
        BY <1>0, <4>1 DEF StateOK
      <4> QED
        BY <1>3, <3>1, <4>2 DEF Settled
    <3> QED
      BY <3>2, <3>3
  <2> QED
    BY <1>1, <2>1, <2>2 DEF StateOK
<1> QED
  BY <1>1, <1>6, <1>7, Longer

\* transfer_queue() keeps what is known of the calls.
LEMMA BaseQueue ==
  ASSUME BaseInv, NEW c \in Calls, NEW x, Queues(c, x)
  PROVE  BaseInv'
<1> PICK s : s = seg[c]
  OBVIOUS
<1>0. TypeOK /\ \A d \in Calls : CallOK(d)
  BY DEF BaseInv
<1>1. /\ ListOK' /\ StateOK' /\ list' \in Seq(Xfers)
      /\ pc[c] = "queue" /\ x = Built(c) /\ x \in Xfers
      /\ UNCHANGED <<shape, nents, tfer, desc, desc_idx, overfull, crossed>>
  BY QueueList DEF Queues
<1>2. /\ s \in 1 .. MaxSegs /\ shape[c] \in Shapes /\ s <= Len(shape[c])
      /\ \A r \in 1 .. MaxSegs : r > s => tfer[c][r] = <<>>
  BY <1>0, <1>1 DEF CallOK, Placed, TypeOK
<1>3. PICK p, g : /\ pc' = [pc EXCEPT ![c] = p] /\ seg' = [seg EXCEPT ![c] = g]
                  /\ \/ p = "init" /\ nents[c] # 0 /\ g = s
                     \/ p = "queued" /\ g = s
                     \/ p = "segment" /\ g = s + 1 /\ s < Len(shape[c])
  <2>1. seg = [seg EXCEPT ![c] = s] /\ [seg EXCEPT ![c] = @ + 1] = [seg EXCEPT ![c] = s + 1]
    BY <1>0 DEF TypeOK
  <2> QED
    BY <2>1 DEF Queues
<1>4. g \in 1 .. MaxSegs /\ g <= Len(shape[c]) /\ g >= s
  <2>1. PICK n : n = Len(shape[c]) /\ n \in 1 .. 2
    BY <1>2, ShapeAssumption DEF MaxSegs
  <2>2. n \in 1 .. 2 /\ s <= n /\ (g = s \/ (g = s + 1 /\ s < n)) /\ s \in 1 .. 2
    BY <1>2, <1>3, <2>1 DEF MaxSegs
  <2>3. g \in 1 .. 2 /\ g <= n /\ g >= s
    BY <2>2
  <2> QED
    BY <2>1, <2>3 DEF MaxSegs
<1>5. TypeOK'
  <2>1. state' \in [Xfers -> {"NEW", "SUBMITTED", "COMPLETED", "FAILED"}]
    BY <1>0 DEF Queues, TypeOK
  <2> QED
    BY <1>0, <1>1, <1>3, <1>4, <2>1 DEF TypeOK
<1>6. pc'[c] = p /\ seg'[c] = g
  BY <1>0, <1>3 DEF TypeOK
<1>7. Placed(c)'
  <2>1. \A r \in 1 .. MaxSegs : r > g => tfer[c][r] = <<>>
    BY <1>2, <1>4
  <2>2. p = "segment" => tfer[c][g] = <<>>
    BY <1>2, <1>3, <1>4
  <2>3. p \notin {"idle", "submit", "error"}
    BY <1>3
  <2> QED
    BY <1>1, <1>2, <1>4, <1>6, <2>1, <2>2, <2>3 DEF Placed
<1>8. CutOK(c)'
  <2>1. CASE p # "init"
    <3>1. p \notin {"init", "queue"}
      BY <1>3, <2>1
    <3> QED
      BY <1>6, <3>1 DEF CutOK
  <2>2. CASE p = "init"
    <3>1. g = s /\ nents[c] # 0
      BY <1>3, <2>2
    <3>2. CutOK(c) /\ SegOK(c, s)
      BY <1>0, <1>2 DEF CallOK
    <3>3. /\ nents[c] + Taken(tfer[c][s]) = Len(Descs(c, s))
          /\ tfer[c][s] # <<>>
          /\ tfer[c][s][Len(tfer[c][s])].last <=> nents[c] = 0
      BY <1>1, <3>2 DEF CutOK
    <3>4. \A k \in 1 .. Len(tfer[c][s]) : ~tfer[c][s][k].last
      <4>1. \A k \in 1 .. Len(tfer[c][s]) : tfer[c][s][k].last => k = Len(tfer[c][s])
        BY <3>2 DEF SegOK
      <4> QED
        BY <3>1, <3>3, <4>1, Zenon
    <3>5. nents[c] > 0
      BY <1>0, <3>1 DEF TypeOK
    <3>6. Built(c)' = x /\ state'[x] # "NEW"
      BY <1>0, <1>1, <1>6, <3>1 DEF Built, Queues, TypeOK
    <3>7. Descs(c, g)' = Descs(c, s)
      BY <1>1, <3>1 DEF Descs
    <3> QED
      BY <1>1, <1>6, <2>2, <3>1, <3>3, <3>4, <3>5, <3>6, <3>7 DEF CutOK
  <2> QED
    BY <2>1, <2>2
<1>9. CallOK(c)'
  <2>1. \A r \in 1 .. MaxSegs : SegOK(c, r)'
    BY <1>0, <1>1 DEF CallOK, SegOK, Descs
  <2> QED
    BY <1>7, <1>8, <2>1 DEF CallOK
<1>10. ASSUME NEW d \in Calls, d # c PROVE CallOK(d)'
  <2>1. pc'[d] = pc[d] /\ seg'[d] = seg[d]
    BY <1>0, <1>3, <1>10 DEF TypeOK
  <2>2. \A r \in 1 .. MaxSegs, k \in 1 .. 2 : state'[<<d, r, k>>] = state[<<d, r, k>>]
    BY <1>0, <1>1, <1>10, XferParts DEF TypeOK, Queues, Built
  <2> QED
    BY <1>0, <1>1, <1>5, <2>1, <2>2, CallFrame
<1> QED
  BY <1>1, <1>5, <1>9, <1>10 DEF BaseInv

\* The head of the list gets its verdict.
Settles(x, v) ==
  /\ list # <<>> /\ x = list[1] /\ v \in {"COMPLETED", "FAILED"}
  /\ state' = [state EXCEPT ![x] = v]
  /\ list' = Tail(list)
  /\ UNCHANGED <<pc, shape, seg, nents, tfer, desc_idx, overfull, crossed>>

\* The list without its head.
LEMMA Shorter ==
  ASSUME BaseInv, list # <<>>
  PROVE  /\ list[1] \in Xfers /\ Tail(list) \in Seq(Xfers)
         /\ \E n \in Nat : /\ n + 1 = Len(list) /\ n = Len(Tail(list))
                           /\ \A k \in 1 .. n : Tail(list)[k] = list[k + 1]
<1>1. list \in Seq(Xfers)
  BY DEF BaseInv, TypeOK
<1>2. PICK m : m = Len(list)
  OBVIOUS
<1>3. m \in Nat \ {0}
  BY <1>1, <1>2, EmptySeq
<1>4. 1 \in 1 .. m /\ m - 1 \in Nat /\ (m - 1) + 1 = m
  BY <1>3
<1>5. /\ Tail(list) \in Seq(Xfers) /\ Len(Tail(list)) = m - 1
      /\ \A k \in 1 .. m - 1 : Tail(list)[k] = list[k + 1]
  BY <1>1, <1>2, HeadTailProperties
<1>6. list[1] \in Xfers
  BY <1>1, <1>2, <1>4, ElementOfSeq
<1> QED
  BY <1>2, <1>4, <1>5, <1>6

\* Settling the head keeps the list in order.
LEMMA SettleList ==
  ASSUME BaseInv, NEW x, NEW v, Settles(x, v)
  PROVE  ListOK' /\ StateOK' /\ list' \in Seq(Xfers)
<1>0. TypeOK /\ ListOK /\ StateOK
  BY DEF BaseInv
<1>1. /\ x \in Xfers /\ list' \in Seq(Xfers) /\ tfer' = tfer /\ x = list[1]
      /\ v \in {"COMPLETED", "FAILED"}
  BY Shorter DEF Settles
<1>2. PICK n \in Nat : /\ n + 1 = Len(list) /\ n = Len(list')
                       /\ \A k \in 1 .. n : list'[k] = list[k + 1]
  BY Shorter DEF Settles
<1>3. /\ state'[x] = v /\ \A y \in Xfers : y # x => state'[y] = state[y]
      /\ v # "SUBMITTED" /\ v # "NEW"
  BY <1>0, <1>1 DEF Settles, TypeOK
<1>4. 1 \in 1 .. n + 1 /\ \A k \in 1 .. n : k + 1 \in 1 .. n + 1 /\ k + 1 # 1
  OBVIOUS
<1>5. \A k \in 1 .. n + 1 : list[k] \in Xfers /\ state[list[k]] = "SUBMITTED"
  BY <1>0, <1>2, ElementOfSeq DEF ListOK, TypeOK
<1>6. \A k \in 1 .. n : list[k + 1] # x
  BY <1>0, <1>1, <1>2, <1>4 DEF ListOK
<1>7. ListOK'
  <2>1. \A k \in 1 .. n : /\ list'[k][3] <= Len(tfer[list'[k][1]][list'[k][2]])
                          /\ state'[list'[k]] = "SUBMITTED"
    <3>1. \A k \in 1 .. n + 1 : list[k][3] <= Len(tfer[list[k][1]][list[k][2]])
      BY <1>0, <1>2 DEF ListOK
    <3> SUFFICES ASSUME NEW k \in 1 .. n
                 PROVE  /\ list'[k][3] <= Len(tfer[list'[k][1]][list'[k][2]])
                        /\ state'[list'[k]] = "SUBMITTED"
      OBVIOUS
    <3>2. PICK y : y = list[k + 1]
      OBVIOUS
    <3>3. k + 1 \in 1 .. n + 1 /\ list'[k] = y
      BY <1>2, <1>4, <3>2
    <3>4. y[3] <= Len(tfer[y[1]][y[2]])
      BY <3>1, <3>2, <3>3
    <3>5. y \in Xfers /\ y # x /\ state[y] = "SUBMITTED"
      BY <1>5, <1>6, <3>2, <3>3
    <3>6. state'[y] = "SUBMITTED"
      BY <1>3, <3>5
    <3> QED
      BY <3>3, <3>4, <3>6
  <2>2. ASSUME NEW y \in Xfers, state'[y] = "SUBMITTED"
        PROVE  \E k \in 1 .. n : list'[k] = y
    <3>1. y # x /\ state[y] = "SUBMITTED"
      BY <1>3, <2>2
    <3>2. PICK k \in 1 .. n + 1 : list[k] = y
      BY <1>0, <1>2, <3>1 DEF ListOK
    <3>3. k # 1
      BY <1>1, <3>1, <3>2
    <3>4. k - 1 \in 1 .. n /\ (k - 1) + 1 = k
      BY <3>3
    <3> QED
      BY <1>2, <3>2, <3>4
  <2>3. \A k, m \in 1 .. n : list'[k] = list'[m] => k = m
    <3>1. \A k, m \in 1 .. n + 1 : list[k] = list[m] => k = m
      BY <1>0, <1>2 DEF ListOK
    <3> QED
      BY <1>2, <1>4, <3>1
  <2>4. \A k, m \in 1 .. n :
          list'[k][1] = list'[m][1] /\ list'[k][2] = list'[m][2] /\ k < m =>
            list'[k][3] = 1
    <3>1. \A k, m \in 1 .. n + 1 :
            list[k][1] = list[m][1] /\ list[k][2] = list[m][2] /\ k < m =>
              list[k][3] = 1
      BY <1>0, <1>2 DEF ListOK
    <3>2. \A k, m \in 1 .. n : k < m => k + 1 < m + 1
      OBVIOUS
    <3> QED
      BY <1>2, <1>4, <3>1, <3>2
  <2> QED
    BY <1>1, <1>2, <2>1, <2>2, <2>3, <2>4 DEF ListOK
<1>8. StateOK'
  <2>1. ASSUME NEW y \in Xfers, y[3] > Len(tfer[y[1]][y[2]]) PROVE state'[y] = "NEW"
    <3>1. state[y] = "NEW"
      BY <1>0, <2>1 DEF StateOK
    <3>2. y # x
      BY <1>1, <1>4, <1>5, <3>1
    <3> QED
      BY <1>3, <3>1, <3>2
  <2>2. ASSUME NEW d \in Calls, NEW r \in 1 .. MaxSegs
        PROVE  /\ Len(tfer[d][r]) = 2 => state'[<<d, r, 1>>] # "NEW"
               /\ Settled(<<d, r, 2>>)' => Settled(<<d, r, 1>>)'
    <3>1. <<d, r, 1>> \in Xfers /\ <<d, r, 2>> \in Xfers
      BY XferParts
    <3>2. Len(tfer[d][r]) = 2 => state'[<<d, r, 1>>] # "NEW"
      BY <1>0, <1>3, <3>1 DEF StateOK
    <3>3. ASSUME Settled(<<d, r, 2>>)' PROVE Settled(<<d, r, 1>>)'
      <4>1. CASE <<d, r, 2>> # x
        <5>1. Settled(<<d, r, 2>>)
          BY <1>3, <3>1, <3>3, <4>1 DEF Settled
        <5>2. Settled(<<d, r, 1>>)
          BY <1>0, <5>1 DEF StateOK
        <5> QED
          BY <1>1, <1>3, <3>1, <5>2 DEF Settled
      <4>2. CASE <<d, r, 2>> = x
        <5>1. x[1] = d /\ x[2] = r /\ x[3] = 2
          BY <4>2
        <5>2. Len(tfer[d][r]) = 2
          <6>1. PICK m : m = Len(tfer[d][r])
            OBVIOUS
          <6>2. m = 0 \/ m = 1 \/ m = 2
            BY <6>1, TferFacts
          <6>3. 2 <= m
            BY <1>0, <1>1, <1>2, <1>4, <5>1, <6>1 DEF ListOK
          <6>4. m = 2
            BY <6>2, <6>3
          <6> QED
            BY <6>1, <6>4
        <5>3. state[<<d, r, 1>>] # "NEW"
          BY <1>0, <5>2 DEF StateOK
        <5>4. state[<<d, r, 1>>] # "SUBMITTED"
          <6> SUFFICES ASSUME state[<<d, r, 1>>] = "SUBMITTED" PROVE FALSE
            OBVIOUS
          <6>1. PICK k \in 1 .. n + 1 : list[k] = <<d, r, 1>>
            BY <1>0, <1>2, <3>1 DEF ListOK
          <6>2. k # 1
            BY <1>1, <5>1, <6>1
          <6>3. 1 < k /\ 1 \in 1 .. n + 1
            BY <6>2
          <6>4. list[1][3] = 1
            BY <1>0, <1>1, <1>2, <5>1, <6>1, <6>3 DEF ListOK
          <6> QED
            BY <1>1, <5>1, <6>4
        <5>5. state[<<d, r, 1>>] \in {"NEW", "SUBMITTED", "COMPLETED", "FAILED"}
          BY <1>0, <3>1 DEF TypeOK
        <5>6. <<d, r, 1>> # x
          BY <5>1
        <5> QED
          BY <1>3, <3>1, <5>3, <5>4, <5>5, <5>6 DEF Settled
      <4> QED
        BY <4>1, <4>2
    <3> QED
      BY <3>2, <3>3
  <2> QED
    BY <1>1, <2>1, <2>2 DEF StateOK
<1> QED
  BY <1>1, <1>7, <1>8

\* Settling the head keeps what is known of the calls.
LEMMA BaseSettle ==
  ASSUME BaseInv, NEW x, NEW v, Settles(x, v),
         desc' = [i \in 0 .. Ring - 1 |-> desc'[i]]
  PROVE  BaseInv'
<1>0. TypeOK /\ \A d \in Calls : CallOK(d)
  BY DEF BaseInv
<1>1. ListOK' /\ StateOK' /\ list' \in Seq(Xfers)
  BY SettleList
<1>2. x \in Xfers /\ state[x] = "SUBMITTED"
  <2>1. x = list[1] /\ x \in Xfers
    BY Shorter DEF Settles
  <2>2. PICK n \in Nat : n + 1 = Len(list)
    BY Shorter DEF Settles
  <2>3. 1 \in 1 .. n + 1
    OBVIOUS
  <2> QED
    BY <2>1, <2>2, <2>3 DEF BaseInv, ListOK
<1>3. TypeOK'
  BY <1>0, <1>1, <1>2 DEF TypeOK, Settles
<1>4. ASSUME NEW d \in Calls PROVE CallOK(d)'
  <2>1. \A y \in Xfers : state'[y] = "NEW" <=> state[y] = "NEW"
    BY <1>0, <1>2 DEF Settles, TypeOK
  <2> QED
    BY <1>0, <1>3, <2>1, XferParts, CallFrame DEF Settles
<1> QED
  BY <1>1, <1>3, <1>4 DEF BaseInv

\* The bottom half does so.
LEMMA CompletesSettles ==
  ASSUME BaseInv, EngineCompletes
  PROVE  /\ \E v : Settles(list[1], v)
         /\ desc' = [i \in 0 .. Ring - 1 |-> desc'[i]]
<1>1. PICK v \in {"COMPLETED", "FAILED"} :
        /\ Engine!Settle(v)
        /\ UNCHANGED <<pc, shape, seg, nents, tfer, desc_idx, overfull, crossed>>
  BY DEF EngineCompletes
<1>2. Head(list) = list[1]
  OBVIOUS
<1>3. Settles(list[1], v)
  BY <1>1, <1>2 DEF Engine!Settle, Settles
<1>4. desc = [i \in 0 .. Ring - 1 |-> desc[i]] /\ DOMAIN desc = 0 .. Ring - 1
  BY SMTT(30) DEF BaseInv, TypeOK
<1>5. \/ desc' = desc
      \/ \E g : desc' = [i \in DOMAIN desc |-> IF i \in g THEN Zeroed ELSE desc[i]]
  <2>1. desc' = desc \/ \E c, s, w : AsyncIoHandler(c, s, w)
    BY ZenonT(30) DEF EngineCompletes
  <2>2. ASSUME NEW c, NEW s, NEW w, AsyncIoHandler(c, s, w)
        PROVE  \E g : desc' = [i \in DOMAIN desc |-> IF i \in g THEN Zeroed ELSE desc[i]]
    BY <2>2, ZenonT(30) DEF AsyncIoHandler
  <2> QED
    BY <2>1, <2>2
<1>6. desc' = [i \in 0 .. Ring - 1 |-> desc'[i]]
  BY <1>4, <1>5
<1> QED
  BY <1>3, <1>6

\* A call begins.
LEMMA BaseCall ==
  ASSUME BaseInv, NEW c \in Calls, AioCall(c)
  PROVE  BaseInv'
<1>0. TypeOK /\ ListOK /\ StateOK /\ \A d \in Calls : CallOK(d)
  BY DEF BaseInv
<1>1. PICK sh \in Shapes : shape' = [shape EXCEPT ![c] = sh]
  BY Brought
<1>2. /\ pc[c] = "idle" /\ pc' = [pc EXCEPT ![c] = "segment"]
      /\ UNCHANGED <<seg, nents, tfer, desc, desc_idx, overfull, crossed, list, state>>
  BY DEF AioCall, ring, contract
<1>3. /\ seg[c] = 1 /\ \A s \in 1 .. MaxSegs : tfer[c][s] = <<>>
  BY <1>0, <1>2 DEF CallOK, Placed, TypeOK, MaxSegs
<1>4. TypeOK'
  BY <1>0, <1>1, <1>2 DEF TypeOK
<1>5. ListOK' /\ StateOK'
  BY <1>0, <1>2 DEF ListOK, StateOK, Settled
<1>6. pc'[c] = "segment" /\ shape'[c] = sh
  BY <1>0, <1>1, <1>2 DEF TypeOK
<1>7. CallOK(c)'
  <2>1. 1 <= Len(sh)
    <3>1. Len(sh) = 1 \/ Len(sh) = 2
      BY ShapeFacts
    <3> QED
      BY <3>1
  <2>2. Placed(c)'
    BY <1>2, <1>3, <1>6, <2>1 DEF Placed, MaxSegs
  <2>3. CutOK(c)'
    BY <1>6 DEF CutOK
  <2>4. ASSUME NEW s \in 1 .. MaxSegs PROVE SegOK(c, s)'
    <3>1. Len(tfer'[c][s]) = 0
      BY <1>2, <1>3
    <3> QED
      BY <3>1 DEF SegOK
  <2> QED
    BY <2>2, <2>3, <2>4 DEF CallOK
<1>8. ASSUME NEW d \in Calls, d # c PROVE CallOK(d)'
  <2>1. pc'[d] = pc[d] /\ shape'[d] = shape[d]
    BY <1>0, <1>1, <1>2, <1>8 DEF TypeOK
  <2> QED
    BY <1>0, <1>2, <1>4, <2>1, CallFrame
<1> QED
  BY <1>4, <1>5, <1>7, <1>8 DEF BaseInv

\* The steps of a call that take and queue nothing.
Quiet(c) == \/ AlignFails(c) \/ PinFails(c) \/ PinPages(c) \/ SubmitFails(c)
            \/ InitRequest(c) \/ TferOverrun(c) \/ QueueFails(c)

\* They move the call on.
LEMMA QuietMoves ==
  ASSUME BaseInv, NEW c \in Calls, Quiet(c)
  PROVE  /\ \E p, g, m : Moves(c, p, g, m)
         /\ UNCHANGED <<shape, result, astray, misfreed, tfer, desc, desc_idx, desc_used,
                        overfull, crossed, list, state, finished>>
<1>0. TypeOK /\ CallOK(c)
  BY DEF BaseInv
<1>1. /\ seg[c] \in 1 .. MaxSegs /\ nents[c] \in 0 .. Ring
      /\ seg = [seg EXCEPT ![c] = seg[c]]
      /\ [seg EXCEPT ![c] = @ + 1] = [seg EXCEPT ![c] = seg[c] + 1]
      /\ nents = [nents EXCEPT ![c] = nents[c]]
  BY <1>0 DEF TypeOK
<1>2. UNCHANGED <<shape, result, astray, misfreed, tfer, desc, desc_idx, desc_used,
                  overfull, crossed, list, state, finished>>
  BY DEF Quiet, AlignFails, PinFails, PinPages, SubmitFails, InitRequest,
         TferOverrun, QueueFails, misuse, ring, contract
<1>3. CASE AlignFails(c) \/ PinFails(c) \/ PinPages(c)
  <2>1. PICK p \in {"submit", "error"} : pc' = [pc EXCEPT ![c] = p]
    BY <1>3 DEF AlignFails, PinFails, PinPages
  <2>2. pc[c] = "segment" /\ seg' = seg /\ nents' = nents
    BY <1>3 DEF AlignFails, PinFails, PinPages
  <2>3. tfer[c][seg[c]] = <<>>
    BY <1>0, <2>2 DEF CallOK, Placed
  <2>4. Moves(c, p, seg[c], nents[c])
    BY <1>1, <2>1, <2>2, <2>3 DEF Moves
  <2> QED
    BY <1>2, <2>4
<1>4. ASSUME NextSegment(c), NEW m \in 0 .. Ring, pc[c] # "idle",
             nents' = [nents EXCEPT ![c] = m]
      PROVE  \E p, g : Moves(c, p, g, m)
  <2>1. CASE seg[c] < Len(shape[c])
    <3>1. seg' = [seg EXCEPT ![c] = seg[c] + 1] /\ pc' = [pc EXCEPT ![c] = "segment"]
      BY <1>1, <1>4, <2>1 DEF NextSegment
    <3>2. seg[c] + 1 <= Len(shape[c])
      <4>1. PICK n : n = Len(shape[c])
        OBVIOUS
      <4>2. shape[c] \in Shapes
        BY <1>0, <1>4 DEF CallOK, Placed
      <4>3. n = 1 \/ n = 2
        BY <4>1, <4>2, ShapeFacts
      <4>4. seg[c] + 1 <= n
        BY <1>1, <2>1, <4>1, <4>3
      <4> QED
        BY <4>1, <4>4
    <3>3. Moves(c, "segment", seg[c] + 1, m)
      BY <1>4, <3>1, <3>2 DEF Moves
    <3> QED
      BY <3>3
  <2>2. CASE ~(seg[c] < Len(shape[c]))
    <3>1. seg' = [seg EXCEPT ![c] = seg[c]] /\ pc' = [pc EXCEPT ![c] = "queued"]
      BY <1>1, <1>4, <2>2 DEF NextSegment
    <3>2. Moves(c, "queued", seg[c], m)
      BY <1>4, <3>1 DEF Moves
    <3> QED
      BY <3>2
  <2> QED
    BY <2>1, <2>2
<1>5. CASE SubmitFails(c) \/ QueueFails(c)
  <2>1. NextSegment(c) /\ pc[c] # "idle" /\ nents' = [nents EXCEPT ![c] = nents[c]]
    BY <1>1, <1>5 DEF SubmitFails, QueueFails
  <2> QED
    BY <1>1, <1>2, <1>4, <2>1
<1>6. CASE TferOverrun(c)
  <2>1. Moves(c, "overrun", seg[c], nents[c])
    BY <1>1, <1>6 DEF TferOverrun, Moves
  <2> QED
    BY <1>2, <2>1
<1>7. CASE InitRequest(c)
  <2> PICK m : m = Len(Descs(c, seg[c]))
    OBVIOUS
  <2>1. /\ pc[c] = "submit" /\ nents' = [nents EXCEPT ![c] = m]
        /\ IF nents'[c] = 0 THEN NextSegment(c)
           ELSE pc' = [pc EXCEPT ![c] = "init"] /\ seg' = seg
    BY <1>7 DEF InitRequest, Descs
  <2>2. nents'[c] = m
    BY <1>0, <2>1 DEF TypeOK
  <2>3. m \in 0 .. Ring /\ tfer[c][seg[c]] = <<>>
    <3>1. shape[c] \in Shapes /\ seg[c] <= Len(shape[c]) /\ tfer[c][seg[c]] = <<>>
      BY <1>0, <2>1 DEF CallOK, Placed
    <3>2. seg[c] \in 1 .. Len(shape[c])
      <4>1. PICK n : n = Len(shape[c])
        OBVIOUS
      <4>2. n = 1 \/ n = 2
        BY <3>1, <4>1, ShapeFacts
      <4>3. seg[c] \in 1 .. n
        BY <1>1, <3>1, <4>1, <4>2
      <4> QED
        BY <4>1, <4>3
    <3> QED
      BY <3>1, <3>2, ShapeFacts DEF Descs
  <2>4. CASE m = 0
    <3>1. NextSegment(c) /\ pc[c] # "idle"
      BY <2>1, <2>2, <2>4
    <3> QED
      BY <1>2, <1>4, <2>1, <2>3, <3>1
  <2>5. CASE m # 0
    <3>1. /\ pc' = [pc EXCEPT ![c] = "init"] /\ seg' = [seg EXCEPT ![c] = seg[c]]
          /\ m > 0
      BY <1>1, <2>1, <2>2, <2>3, <2>5
    <3>2. Moves(c, "init", seg[c], m)
      BY <2>1, <2>3, <3>1 DEF Moves
    <3> QED
      BY <1>2, <3>2
  <2> QED
    BY <2>4, <2>5
<1> QED
  BY <1>3, <1>5, <1>6, <1>7 DEF Quiet

\* The steps there are.
LEMMA Steps ==
  ASSUME BaseInv, [Next]_vars
  PROVE  \/ UNCHANGED vars
         \/ \E c \in Calls : AioCall(c)
         \/ \E c \in Calls : Quiet(c)
         \/ \E c \in Calls : TransferInit(c) /\ \E t : Takes(c, t)
         \/ \E c \in Calls : TransferQueue(c) /\ Queues(c, Built(c))
         \/ EngineCompletes
         \/ HardwareMoves \/ EngineStalls
  BY TransferInitTakes, TransferQueueQueues DEF Next, AioStep, Quiet

\* Every step keeps what is known of the calls and of the list.
LEMMA BaseStep == BaseInv /\ [Next]_vars => BaseInv'
<1> SUFFICES ASSUME BaseInv, [Next]_vars PROVE BaseInv'
  OBVIOUS
<1>1. CASE UNCHANGED vars
  BY <1>1, SMTT(30) DEF vars, BaseInv, TypeOK, CallOK, Placed, SegOK, CutOK, ListOK,
     StateOK, Settled, Descs, Built
<1>2. ASSUME NEW c \in Calls, AioCall(c) PROVE BaseInv'
  BY <1>2, BaseCall
<1>3. ASSUME NEW c \in Calls, Quiet(c) PROVE BaseInv'
  BY <1>3, QuietMoves, BaseMoves
<1>4. ASSUME NEW c \in Calls, TransferInit(c), NEW t, Takes(c, t) PROVE BaseInv'
  <2>1. desc' = [i \in 0 .. Ring - 1 |-> desc'[i]]
    <3>1. DOMAIN desc = 0 .. Ring - 1
      BY DEF BaseInv, TypeOK
    <3> QED
      BY <1>4, <3>1 DEF TransferInit
  <2>2. overfull' \in BOOLEAN /\ crossed' \in BOOLEAN
    BY <1>4 DEF TransferInit
  <2> QED
    BY <1>4, <2>1, <2>2, BaseTakes
<1>5. ASSUME NEW c \in Calls, Queues(c, Built(c)) PROVE BaseInv'
  BY <1>5, BaseQueue
<1>6. CASE EngineCompletes
  BY <1>6, CompletesSettles, BaseSettle
<1>7. CASE HardwareMoves \/ EngineStalls
  <2>1. UNCHANGED <<pc, shape, seg, nents, tfer, desc, desc_idx, overfull, crossed,
                    list, state>>
    BY <1>7 DEF HardwareMoves, EngineStalls, Engine!Finish, calls, ring
  <2> QED
    BY <2>1 DEF BaseInv, TypeOK, CallOK, Placed, SegOK, CutOK, ListOK, StateOK,
       Settled, Descs, Built
<1> QED
  BY <1>1, <1>2, <1>3, <1>4, <1>5, <1>6, <1>7, Steps

-----------------------------------------------------------------------------
(***************************************************************************)
(* One request is cut at a time, as long as nobody crosses.                *)
(***************************************************************************)

\* The call works on the second transfer of a request, the first is queued.
HasFirst(c) == \/ pc[c] = "init" /\ tfer[c][seg[c]] # <<>>
               \/ pc[c] = "queue" /\ Len(tfer[c][seg[c]]) = 2

EndsWith(x) == list = <<>> \/ list[Len(list)] = x

\* Nobody cuts at the same time; a request that needs a second transfer found
\* the end of the memory, so that desc_idx is zero; and the second transfer
\* comes right behind the first.
CutInv ==
  ~crossed =>
    /\ \A c, d \in Calls : Cutting(c) /\ Cutting(d) => c = d
    /\ \A c \in Calls :
         /\ pc[c] # "overrun"
         /\ Cutting(c) /\ nents[c] # 0 =>
              Len(tfer[c][seg[c]]) = 1 /\ desc_idx = 0
         /\ HasFirst(c) => EndsWith(<<c, seg[c], 1>>)
    /\ \A n \in 2 .. Len(list) :
         list[n][3] = 2 => list[n - 1] = <<list[n][1], list[n][2], 1>>

\* In the beginning.
LEMMA CutInit == Init => CutInv
  BY DEF Init, CutInv, Cutting, HasFirst, EndsWith, Engine!ContractInit

\* A call that moves on without descriptors is not cutting afterwards.
LEMMA CutQuiet ==
  ASSUME BaseInv, CutInv, NEW c \in Calls, Quiet(c)
  PROVE  CutInv'
<1>0. TypeOK /\ CallOK(c)
  BY DEF BaseInv
<1>1. PICK p, g, m : Moves(c, p, g, m)
  BY QuietMoves
<1>2. UNCHANGED <<shape, tfer, desc_idx, crossed, list, state>>
  BY QuietMoves
<1>3. /\ pc'[c] = p /\ seg'[c] = g
      /\ \A d \in Calls : d # c => pc'[d] = pc[d] /\ seg'[d] = seg[d] /\ nents'[d] = nents[d]
  BY <1>0, <1>1 DEF Moves, TypeOK
<1>4. ~Cutting(c)' /\ ~HasFirst(c)'
  BY <1>1, <1>2, <1>3 DEF Moves, Cutting, HasFirst
<1>5. ASSUME ~crossed PROVE p # "overrun"
  <2> SUFFICES ASSUME p = "overrun" PROVE FALSE
    OBVIOUS
  <2>1. TferOverrun(c)
    <3>1. pc'[c] = "overrun"
      BY <1>3
    <3>2. CASE AlignFails(c) \/ PinFails(c) \/ PinPages(c)
      BY <1>0, <3>1, <3>2 DEF AlignFails, PinFails, PinPages, TypeOK
    <3>3. ASSUME NextSegment(c) PROVE FALSE
      BY <1>0, <3>1, <3>3 DEF NextSegment, TypeOK
    <3>4. CASE SubmitFails(c) \/ InitRequest(c) \/ QueueFails(c)
      BY <1>0, <3>1, <3>3, <3>4 DEF SubmitFails, InitRequest, QueueFails, TypeOK
    <3> QED
      BY <3>2, <3>4 DEF Quiet
  <2>2. pc[c] = "init" /\ Len(tfer[c][seg[c]]) + 1 > 2
    BY <2>1 DEF TferOverrun, Building
  <2>3. PICK n : n = Len(tfer[c][seg[c]])
    OBVIOUS
  <2>4. seg[c] \in 1 .. MaxSegs /\ nents[c] # 0
    BY <1>0, <2>2 DEF TypeOK, CallOK, CutOK
  <2>5. (tfer[c][seg[c]] = <<>> /\ n = 0) \/ (tfer[c][seg[c]] # <<>> /\ (n = 1 \/ n = 2))
    BY <2>3, <2>4, TferFacts
  <2>6. n + 1 > 2
    BY <2>2, <2>3
  <2>7. tfer[c][seg[c]] # <<>> /\ n = 2
    BY <2>5, <2>6
  <2>8. Cutting(c)
    BY <2>2, <2>7 DEF Cutting
  <2>9. n = 1
    BY <1>5, <2>3, <2>4, <2>8 DEF CutInv
  <2> QED
    BY <2>7, <2>9
<1>6. ASSUME NEW d \in Calls, d # c
      PROVE  (Cutting(d)' <=> Cutting(d)) /\ (HasFirst(d)' <=> HasFirst(d))
  BY <1>2, <1>3, <1>6 DEF Cutting, HasFirst
<1> QED
  BY <1>2, <1>3, <1>4, <1>5, <1>6 DEF CutInv, EndsWith

\* transfer_init() under the engine lock: it either finds another request being
\* cut, or is the only one.
LEMMA CutTakes ==
  ASSUME BaseInv, CutInv, NEW c \in Calls, TransferInit(c), NEW t, Takes(c, t)
  PROVE  CutInv'
<1> SUFFICES ASSUME ~crossed' PROVE CutInv'
  BY DEF CutInv
<1> PICK s : s = seg[c]
  OBVIOUS
<1>0. TypeOK /\ CallOK(c)
  BY DEF BaseInv
<1>1. ~crossed /\ \A d \in Calls : d # c => ~Cutting(d)
  BY DEF TransferInit
<1>2. /\ pc[c] = "init" /\ pc'[c] = "queue" /\ \A d \in Calls : d # c => pc'[d] = pc[d]
      /\ nents'[c] = nents[c] - t.num
      /\ UNCHANGED <<seg, list>>
      /\ s \in 1 .. MaxSegs /\ nents[c] \in 1 .. Ring
      /\ t.num = Chunk(desc_idx, nents[c]) /\ desc_idx' = NextIdx(desc_idx, nents[c])
      /\ desc_idx \in 0 .. Ring - 1
  BY <1>0 DEF Takes, TypeOK, CallOK, CutOK
<1>3. /\ \/ /\ tfer[c][s] = <<>> /\ Len(tfer[c][s]) = 0 /\ Len(tfer'[c][s]) = 1
         \/ /\ tfer[c][s] # <<>> /\ Len(tfer[c][s]) = 1 /\ Len(tfer'[c][s]) = 2
            /\ tfer[c][s][1] \in Tfers
      /\ \A d \in Calls : d # c => tfer'[d] = tfer[d]
  <2>1. tfer[c][s] # <<>> /\ Len(tfer[c][s]) = 1 => tfer[c][s][1] \in Tfers
    BY <1>2, TferFacts
  <2> QED
    BY <2>1, TakesTfer
<1>4. \A d \in Calls : d # c => ~Cutting(d)' /\ ~HasFirst(d)' /\ pc'[d] # "overrun"
  <2>1. ASSUME NEW d \in Calls, d # c
        PROVE  ~Cutting(d)' /\ ~HasFirst(d)' /\ pc'[d] # "overrun"
    <3>1. ~Cutting(d) /\ pc[d] # "overrun"
      BY <1>1, <2>1 DEF CutInv
    <3>2. pc'[d] = pc[d] /\ seg' = seg /\ tfer'[d] = tfer[d]
      BY <1>2, <1>3, <2>1
    <3> QED
      BY <3>1, <3>2 DEF Cutting, HasFirst
  <2> QED
    BY <2>1
<1>5. ASSUME nents'[c] # 0
      PROVE  Len(tfer'[c][s]) = 1 /\ desc_idx' = 0
  <2>1. t.num # nents[c]
    BY <1>2, <1>5
  <2>2. desc_idx + nents[c] >= Ring /\ t.num = Ring - desc_idx
    BY <1>2, <2>1, ChunkCases
  <2>3. desc_idx' = 0
    BY <1>2, <2>2, Mods DEF NextIdx
  <2>4. ASSUME tfer[c][s] # <<>>, Len(tfer[c][s]) = 1, tfer[c][s][1] \in Tfers PROVE FALSE
    <3>1. Cutting(c) /\ nents[c] # 0
      BY <1>2, <2>4 DEF Cutting
    <3>2. desc_idx = 0
      BY <1>1, <3>1 DEF CutInv
    <3>3. nents[c] + Taken(tfer[c][s]) = Len(Descs(c, s))
      BY <1>0, <1>2 DEF CallOK, CutOK
    <3>4. Taken(tfer[c][s]) = tfer[c][s][1].num /\ tfer[c][s][1].num \in 1 .. Ring
      BY <2>4 DEF Taken, Tfers
    <3>5. Len(Descs(c, s)) <= Ring
      <4>1. shape[c] \in Shapes /\ s <= Len(shape[c])
        BY <1>0, <1>2 DEF CallOK, Placed
      <4>2. PICK n : n = Len(shape[c])
        OBVIOUS
      <4>3. n = 1 \/ n = 2
        BY <4>1, <4>2, ShapeFacts
      <4>4. s \in 1 .. n
        BY <1>2, <4>1, <4>2, <4>3
      <4>5. Len(Descs(c, s)) \in 0 .. Ring
        BY <4>1, <4>2, <4>4, ShapeFacts DEF Descs
      <4> QED
        BY <4>5
    <3>6. PICK l : l = Len(Descs(c, s))
      OBVIOUS
    <3>7. nents[c] + tfer[c][s][1].num <= Ring
      BY <3>3, <3>4, <3>5, <3>6
    <3> QED
      BY <1>2, <2>2, <3>2, <3>4, <3>7
  <2> QED
    BY <1>3, <2>3, <2>4
<1>6. HasFirst(c)' => EndsWith(<<c, s, 1>>)'
  <2> SUFFICES ASSUME HasFirst(c)' PROVE EndsWith(<<c, s, 1>>)'
    OBVIOUS
  <2>1. Len(tfer'[c][s]) = 2 /\ 1 # 2
    BY <1>2 DEF HasFirst
  <2>2. tfer[c][s] # <<>>
    BY <1>3, <2>1, Zenon
  <2>3. HasFirst(c)
    BY <1>2, <2>2 DEF HasFirst
  <2> QED
    BY <1>1, <1>2, <2>3 DEF CutInv, EndsWith
<1> QED
  BY <1>1, <1>2, <1>4, <1>5, <1>6 DEF CutInv

\* transfer_queue() puts the second transfer behind the first.
LEMMA CutQueues ==
  ASSUME BaseInv, CutInv, NEW c \in Calls, NEW x, Queues(c, x)
  PROVE  CutInv'
<1> SUFFICES ASSUME ~crossed PROVE CutInv'
  BY DEF CutInv, Queues
<1> PICK s : s = seg[c]
  OBVIOUS
<1>0. TypeOK /\ CallOK(c)
  BY DEF BaseInv
<1>1. /\ pc[c] = "queue" /\ x \in Xfers /\ list' = Append(list, x)
      /\ UNCHANGED <<nents, tfer, desc_idx, crossed>>
      /\ Cutting(c)
  BY DEF Queues, Cutting
<1>2. /\ tfer[c][s] # <<>> /\ s \in 1 .. MaxSegs /\ x = <<c, s, Len(tfer[c][s])>>
      /\ Len(tfer[c][s]) = 1 \/ Len(tfer[c][s]) = 2
  <2>1. tfer[c][s] # <<>>
    BY <1>0, <1>1 DEF CallOK, CutOK
  <2> QED
    BY <2>1, BuiltFacts DEF Queues
<1>3. /\ \A d \in Calls : d # c => pc'[d] = pc[d] /\ seg'[d] = seg[d]
      /\ \/ nents[c] # 0 /\ pc'[c] = "init" /\ seg'[c] = s
         \/ pc'[c] \in {"queued", "segment"}
  BY <1>0 DEF Queues, TypeOK
<1>4. \A d \in Calls : d # c => ~Cutting(d)
  BY <1>1 DEF CutInv
<1>5. \A d \in Calls : d # c => ~Cutting(d)' /\ ~HasFirst(d)' /\ pc'[d] # "overrun"
  <2>1. ASSUME NEW d \in Calls, d # c
        PROVE  ~Cutting(d)' /\ ~HasFirst(d)' /\ pc'[d] # "overrun"
    <3>1. ~Cutting(d) /\ pc[d] # "overrun"
      BY <1>4, <2>1 DEF CutInv
    <3>2. pc'[d] = pc[d] /\ seg'[d] = seg[d] /\ tfer'[d] = tfer[d]
      BY <1>1, <1>3, <2>1
    <3> QED
      BY <3>1, <3>2 DEF Cutting, HasFirst
  <2> QED
    BY <2>1
<1>6. list \in Seq(Xfers)
  BY <1>0 DEF TypeOK
<1>7. PICK n \in Nat : /\ n = Len(list) /\ n + 1 = Len(list')
                       /\ \A k \in 1 .. n : list'[k] = list[k]
                       /\ list'[n + 1] = x
  BY <1>1, <1>6, Longer
<1>8. list = <<>> <=> n = 0
  BY <1>6, <1>7, NoEntries
<1>9. ASSUME NEW k \in 2 .. n + 1, list'[k][3] = 2
      PROVE  list'[k - 1] = <<list'[k][1], list'[k][2], 1>>
  <2>1. CASE k = n + 1
    <3>1. list'[k] = x /\ x[1] = c /\ x[2] = s /\ x[3] = Len(tfer[c][s])
      BY <1>2, <1>7, <2>1
    <3>2. Len(tfer[c][s]) = 2
      BY <1>9, <3>1
    <3>3. HasFirst(c)
      BY <1>1, <3>2 DEF HasFirst
    <3>4. EndsWith(<<c, s, 1>>) /\ list # <<>>
      BY <1>8, <2>1, <3>3 DEF CutInv
    <3>5. list[n] = <<c, s, 1>>
      BY <1>7, <3>4 DEF EndsWith
    <3>6. list'[n] = list[n] /\ k - 1 = n
      BY <1>7, <2>1
    <3> QED
      BY <3>1, <3>5, <3>6
  <2>2. CASE k # n + 1
    <3>1. k \in 2 .. n /\ k \in 1 .. n /\ k - 1 \in 1 .. n
      BY <2>2
    <3>2. list'[k] = list[k] /\ list'[k - 1] = list[k - 1]
      BY <1>7, <3>1
    <3> QED
      BY <1>7, <1>9, <3>1, <3>2 DEF CutInv
  <2> QED
    BY <2>1, <2>2
<1>10. pc'[c] # "overrun"
  BY <1>3
<1>11. ASSUME Cutting(c)', nents'[c] # 0
       PROVE  Len(tfer'[c][seg'[c]]) = 1 /\ desc_idx' = 0
  <2>1. seg'[c] = s
    BY <1>3, <1>11 DEF Cutting
  <2> QED
    BY <1>1, <1>11, <2>1 DEF CutInv
<1>12. HasFirst(c)' => EndsWith(<<c, seg[c], 1>>)'
  <2> SUFFICES ASSUME HasFirst(c)' PROVE EndsWith(<<c, seg[c], 1>>)'
    OBVIOUS
  <2>1. nents[c] # 0 /\ seg'[c] = s
    BY <1>3 DEF HasFirst
  <2>2. Len(tfer[c][s]) = 1
    BY <1>1, <2>1 DEF CutInv
  <2>3. x = <<c, s, 1>>
    BY <1>2, <2>2
  <2>4. list'[Len(list')] = x
    BY <1>7
  <2> QED
    BY <2>1, <2>3, <2>4 DEF EndsWith
<1>13. \A d, e \in Calls : Cutting(d)' /\ Cutting(e)' => d = e
  BY <1>5
<1>14. \A k \in 2 .. Len(list') :
         list'[k][3] = 2 => list'[k - 1] = <<list'[k][1], list'[k][2], 1>>
  BY <1>7, <1>9
<1> QED
  BY <1>5, <1>10, <1>11, <1>12, <1>13, <1>14 DEF CutInv

\* Settling takes from the other end.
LEMMA CutSettles ==
  ASSUME BaseInv, CutInv, NEW x, NEW v, Settles(x, v)
  PROVE  CutInv'
<1> SUFFICES ASSUME ~crossed PROVE CutInv'
  BY DEF CutInv, Settles
<1>1. UNCHANGED <<pc, seg, nents, tfer, desc_idx, crossed>> /\ list # <<>>
  BY DEF Settles
<1>2. PICK n \in Nat : /\ n + 1 = Len(list) /\ n = Len(list')
                       /\ \A k \in 1 .. n : list'[k] = list[k + 1]
  BY Shorter DEF Settles
<1>3. list' \in Seq(Xfers)
  BY Shorter DEF Settles
<1>4. list' = <<>> <=> n = 0
  BY <1>2, <1>3, NoEntries
<1>5. ASSUME NEW y, EndsWith(y) PROVE EndsWith(y)'
  <2>1. list[n + 1] = y
    BY <1>1, <1>2, <1>5 DEF EndsWith
  <2>2. CASE n = 0
    BY <1>4, <2>2 DEF EndsWith
  <2>3. CASE n # 0
    <3>1. n \in 1 .. n
      BY <2>3
    <3>2. list'[n] = y
      BY <1>2, <2>1, <3>1
    <3> QED
      BY <1>2, <3>2 DEF EndsWith
  <2> QED
    BY <2>2, <2>3
<1>6. ASSUME NEW k \in 2 .. n, list'[k][3] = 2
      PROVE  list'[k - 1] = <<list'[k][1], list'[k][2], 1>>
  <2>1. /\ k \in 1 .. n /\ k - 1 \in 1 .. n /\ k + 1 \in 2 .. n + 1
        /\ (k - 1) + 1 = k /\ (k + 1) - 1 = k
    OBVIOUS
  <2>2. list'[k] = list[k + 1] /\ list'[k - 1] = list[k]
    BY <1>2, <2>1
  <2>3. list[k] = <<list[k + 1][1], list[k + 1][2], 1>>
    <3>1. \A m \in 2 .. n + 1 :
            list[m][3] = 2 => list[m - 1] = <<list[m][1], list[m][2], 1>>
      BY <1>2 DEF CutInv
    <3> QED
      BY <1>6, <2>1, <2>2, <3>1
  <2> QED
    BY <2>2, <2>3
<1>7. \A k \in 2 .. Len(list') :
        list'[k][3] = 2 => list'[k - 1] = <<list'[k][1], list'[k][2], 1>>
  BY <1>2, <1>6
<1>8. \A d \in Calls : (Cutting(d)' <=> Cutting(d)) /\ (HasFirst(d)' <=> HasFirst(d))
  BY <1>1 DEF Cutting, HasFirst
<1>9. ASSUME NEW d \in Calls, HasFirst(d)' PROVE EndsWith(<<d, seg[d], 1>>)'
  <2>1. EndsWith(<<d, seg[d], 1>>) /\ seg' = seg
    BY <1>1, <1>8, <1>9 DEF CutInv
  <2>2. PICK y : y = <<d, seg[d], 1>>
    OBVIOUS
  <2> QED
    BY <1>5, <2>1, <2>2
<1> QED
  BY <1>1, <1>7, <1>8, <1>9 DEF CutInv

\* Every step keeps the order in which requests are cut.
LEMMA CutStep == BaseInv /\ CutInv /\ [Next]_vars => CutInv'
<1> SUFFICES ASSUME BaseInv, CutInv, [Next]_vars PROVE CutInv'
  OBVIOUS
<1>1. ASSUME UNCHANGED <<pc, seg, nents, tfer, desc_idx, crossed, list>> PROVE CutInv'
  BY <1>1 DEF CutInv, Cutting, HasFirst, EndsWith
<1>2. CASE UNCHANGED vars \/ HardwareMoves \/ EngineStalls
  BY <1>1, <1>2 DEF vars, HardwareMoves, EngineStalls, calls, ring, Engine!Finish
<1>3. ASSUME NEW c \in Calls, AioCall(c) PROVE CutInv'
  <2>1. /\ pc[c] = "idle" /\ pc' = [pc EXCEPT ![c] = "segment"]
        /\ UNCHANGED <<seg, nents, tfer, desc_idx, crossed, list>>
        /\ pc'[c] = "segment" /\ \A d \in Calls : d # c => pc'[d] = pc[d]
    BY <1>3 DEF AioCall, ring, contract, BaseInv, TypeOK
  <2>2. \A d \in Calls : (Cutting(d)' <=> Cutting(d)) /\ (HasFirst(d)' <=> HasFirst(d))
    BY <2>1 DEF Cutting, HasFirst
  <2> QED
    BY <2>1, <2>2 DEF CutInv, EndsWith
<1>4. CASE EngineCompletes
  BY <1>4, CompletesSettles, CutSettles
<1> QED
  BY <1>2, <1>3, <1>4, CutQuiet, CutTakes, CutQueues, Steps

\* The two entries of req->tfer[] are never overrun unless another call took
\* descriptors while the request was cut.
LEMMA OverrunCrossed == BaseInv /\ CutInv => \A c \in Calls : pc[c] = "overrun" => crossed
  BY DEF CutInv

-----------------------------------------------------------------------------
(***************************************************************************)
(* What is in the descriptor memory.  Distances are measured backwards     *)
(* from desc_idx: the transfers queued lie behind it, oldest farthest, and *)
(* desc_used reaches behind them all.                                      *)
(***************************************************************************)

Back(p, idx) == IF p < idx THEN idx - p ELSE Ring - p + idx

\* desc_idx moves on over num descriptors.
LEMMA BackMoves ==
  ASSUME NEW p \in 0 .. Ring - 1, NEW idx \in 0 .. Ring - 1, NEW num \in 1 .. Ring,
         idx + num <= Ring, NEW new,
         new = idx + num \/ (idx + num = Ring /\ new = 0), new \in 0 .. Ring - 1
  PROVE  /\ Back(p, idx) + num <= Ring => Back(p, new) = Back(p, idx) + num
         /\ Back(idx, new) = num
         /\ Back(p, idx) \in 1 .. Ring
  BY DEF Back

\* Two runs of descriptors, one behind the other, do not meet.
LEMMA Apart ==
  ASSUME NEW idx \in 0 .. Ring - 1,
         NEW p \in 0 .. Ring - 1, NEW n \in 1 .. Ring, p + n <= Ring,
         NEW q \in 0 .. Ring - 1, NEW m \in 1 .. Ring, q + m <= Ring,
         m <= Back(q, idx), Back(q, idx) + n <= Back(p, idx),
         NEW i \in 0 .. m - 1
  PROVE  q + i \notin p .. p + n - 1
  BY DEF Back

\* Nor does one that lies behind desc_idx meet what is taken next.
LEMMA InFront ==
  ASSUME NEW idx \in 0 .. Ring - 1, NEW m \in 1 .. Ring, idx + m <= Ring,
         NEW p \in 0 .. Ring - 1, NEW n \in 1 .. Ring, p + n <= Ring,
         n <= Back(p, idx), Back(p, idx) + m <= Ring,
         NEW i \in 0 .. n - 1
  PROVE  p + i \notin idx .. idx + m - 1
  BY DEF Back

\* The i-th descriptor of a run.
LEMMA Within ==
  ASSUME NEW p \in 0 .. Ring - 1, NEW n \in 1 .. Ring, p + n <= Ring,
         NEW i \in 0 .. n - 1
  PROVE  p + i \in 0 .. Ring - 1 /\ p + i \in p .. p + n - 1 /\ (p + i) - p = i
  OBVIOUS

Span(t) == Back(t.first, desc_idx)

Slots(t) == t.first .. t.first + t.num - 1

\* The descriptors of x are as transfer_init() left them.
Intact(x) ==
  \A i \in 0 .. T(x).num - 1 :
    desc[T(x).first + i] =
      Descriptor(T(x).first, T(x).num, i, DataOf(x, i, Before(x)))

ListRing ==
  /\ \A n \in 1 .. Len(list) :
       /\ T(list[n]).num <= Span(T(list[n])) /\ Span(T(list[n])) <= desc_used
       /\ Intact(list[n])
  /\ \A m, n \in 1 .. Len(list) :
       m < n => Span(T(list[n])) + T(list[m]).num <= Span(T(list[m]))

\* The transfer that is built and not yet queued lies in front of them all.
BuiltRing(c) ==
  pc[c] = "queue" =>
    /\ Span(T(Built(c))) = T(Built(c)).num /\ T(Built(c)).num <= desc_used
    /\ Intact(Built(c))
    /\ \A n \in 1 .. Len(list) :
         T(Built(c)).num + T(list[n]).num <= Span(T(list[n]))

\* The first transfer of a request lies just behind the second, and stays
\* counted until the second is settled.
FirstRing(c, s) ==
  /\ pc[c] = "init" /\ seg[c] = s /\ tfer[c][s] # <<>> =>
       Span(tfer[c][s][1]) = tfer[c][s][1].num /\ tfer[c][s][1].num <= desc_used
  /\ /\ Len(tfer[c][s]) = 2
     /\ state[<<c, s, 2>>] = "SUBMITTED" \/ (pc[c] = "queue" /\ seg[c] = s)
     => /\ Span(tfer[c][s][1]) = Span(tfer[c][s][2]) + tfer[c][s][1].num
        /\ Span(tfer[c][s][1]) <= desc_used

RingOK == /\ desc_used \in 0 .. Ring
          /\ ListRing
          /\ \A c \in Calls : BuiltRing(c)
          /\ \A c \in Calls, s \in 1 .. MaxSegs : FirstRing(c, s)

RingInv == ~overfull /\ ~crossed => RingOK

\* In the beginning the memory is empty.
LEMMA RingInit == Init => RingInv
<1> SUFFICES ASSUME Init PROVE RingInv
  OBVIOUS
<1>1. /\ pc = [c \in Calls |-> "idle"] /\ desc_used = 0 /\ list = <<>>
      /\ tfer = [c \in Calls |-> [s \in 1 .. MaxSegs |-> <<>>]]
  BY DEF Init, Engine!ContractInit
<1>2. \A c \in Calls, s \in 1 .. MaxSegs : Len(tfer[c][s]) = 0
  BY <1>1
<1>3. \A c \in Calls, s \in 1 .. MaxSegs : Len(tfer[c][s]) # 2
  BY <1>2
<1>4. Len(list) = 0
  BY <1>1
<1>5. ListRing
  BY <1>4 DEF ListRing
<1>6. \A c \in Calls : BuiltRing(c)
  BY <1>1 DEF BuiltRing
<1>7. \A c \in Calls, s \in 1 .. MaxSegs : FirstRing(c, s)
  BY <1>1, <1>3 DEF FirstRing
<1> QED
  BY <1>1, <1>5, <1>6, <1>7 DEF RingInv, RingOK

\* Steps that neither build nor settle leave the memory alone.
LEMMA RingFrame ==
  ASSUME RingOK, UNCHANGED <<tfer, desc, desc_idx, desc_used, list, state>>,
         \A c \in Calls : \/ pc'[c] = pc[c] /\ seg'[c] = seg[c]
                          \/ pc'[c] \notin {"init", "queue"}
                          \/ pc'[c] = "init" /\ tfer'[c][seg'[c]] = <<>>
  PROVE  RingOK'
<1>1. \A x : T(x)' = T(x) /\ Before(x)' = Before(x) /\ (Intact(x)' <=> Intact(x))
  BY DEF T, Before, Intact
<1>2. \A t : Span(t)' = Span(t)
  BY DEF Span
<1>3. ListRing'
  BY <1>1, <1>2 DEF RingOK, ListRing
<1>4. ASSUME NEW c \in Calls PROVE BuiltRing(c)'
  <2> SUFFICES ASSUME pc'[c] = "queue" PROVE BuiltRing(c)'
    BY DEF BuiltRing
  <2>1. pc'[c] = pc[c] /\ seg'[c] = seg[c]
    OBVIOUS
  <2>2. Built(c)' = Built(c)
    BY <2>1 DEF Built
  <2> QED
    BY <1>1, <1>2, <2>1, <2>2 DEF RingOK, BuiltRing
<1>5. ASSUME NEW c \in Calls, NEW s \in 1 .. MaxSegs PROVE FirstRing(c, s)'
  <2>1. FirstRing(c, s)
    BY DEF RingOK
  <2> QED
    BY <1>2, <2>1 DEF FirstRing
<1> QED
  BY <1>3, <1>4, <1>5 DEF RingOK

\* The transfers in the list and their places.
LEMMA ListedTfers ==
  ASSUME BaseInv, NEW n \in 1 .. Len(list)
  PROVE  /\ list[n] \in Xfers /\ T(list[n]) \in Tfers
         /\ list[n][1] \in Calls /\ list[n][2] \in 1 .. MaxSegs
         /\ list[n][3] \in 1 .. 2
         /\ list[n][3] <= Len(tfer[list[n][1]][list[n][2]])
<1> PICK x : x = list[n]
  OBVIOUS
<1>1. /\ x \in Xfers /\ x[3] <= Len(tfer[x[1]][x[2]])
  BY ElementOfSeq DEF BaseInv, TypeOK, ListOK
<1>2. x[1] \in Calls /\ x[2] \in 1 .. MaxSegs /\ x[3] \in 1 .. 2
  BY <1>1, XferParts
<1>3. PICK k : k = Len(tfer[x[1]][x[2]])
  OBVIOUS
<1>4. k = 0 \/ k = 1 \/ k = 2
  BY <1>2, <1>3, TferFacts
<1>5. x[3] \in 1 .. k
  BY <1>1, <1>2, <1>3, <1>4
<1>6. T(x) \in Tfers
  BY <1>2, <1>3, <1>5, TferFacts DEF T
<1> QED
  BY <1>1, <1>2, <1>6

\* transfer_init() leaves the transfers built before as they are.
LEMMA TakesOld ==
  ASSUME BaseInv, NEW c \in Calls, NEW t, Takes(c, t),
         NEW y \in Xfers, y[3] <= Len(tfer[y[1]][y[2]])
  PROVE  T(y)' = T(y) /\ Before(y)' = Before(y)
<1> PICK s : s = seg[c]
  OBVIOUS
<1>0. y[1] \in Calls /\ y[2] \in 1 .. MaxSegs /\ y[3] \in 1 .. 2
  BY XferParts
<1>1. CASE y[1] = c /\ y[2] = s
  <2>1. PICK n : n = Len(tfer[c][s])
    OBVIOUS
  <2>2. \/ n = 0
        \/ n = 1 /\ tfer'[c][s][1] = tfer[c][s][1]
    BY <2>1, TakesTfer
  <2>3. y[3] <= n
    BY <1>1, <2>1
  <2>4. y[3] = 1 /\ tfer'[c][s][1] = tfer[c][s][1]
    BY <1>0, <2>2, <2>3
  <2> QED
    BY <1>1, <2>4 DEF T, Before
<1>2. CASE ~(y[1] = c /\ y[2] = s)
  <2>1. tfer'[y[1]][y[2]] = tfer[y[1]][y[2]]
    BY <1>0, <1>2, TakesTfer
  <2> QED
    BY <2>1 DEF T, Before
<1> QED
  BY <1>1, <1>2

\* What it writes: its own descriptors, in front of all others.
LEMMA TakesDesc ==
  ASSUME BaseInv, NEW c \in Calls, TransferInit(c), NEW t, Takes(c, t)
  PROVE  /\ \A i \in 0 .. Ring - 1 : i \notin Slots(t) => desc'[i] = desc[i]
         /\ \A i \in 0 .. t.num - 1 :
              desc'[t.first + i] =
                Descriptor(t.first, t.num, i,
                           DataOf(Building(c), i, Taken(tfer[c][seg[c]])))
         /\ desc_used' = desc_used + t.num
         /\ overfull' = (overfull \/ desc_used + t.num > Ring)
         /\ \/ desc_idx' = desc_idx + t.num
            \/ desc_idx + t.num = Ring /\ desc_idx' = 0
<1> PICK s : s = seg[c]
  OBVIOUS
<1>0. /\ t \in Tfers /\ t.first = desc_idx /\ t.num = Chunk(desc_idx, nents[c])
      /\ pc[c] = "init"
  BY DEF Takes
<1>1. PICK b : b = Len(Descs(c, s)) - nents[c]
  OBVIOUS
<1>2. /\ desc' = [i \in DOMAIN desc |->
                    IF i \in t.first .. t.first + t.num - 1
                    THEN Descriptor(t.first, t.num, i - t.first,
                                    DataOf(Building(c), i - t.first, b))
                    ELSE desc[i]]
      /\ desc_used' = desc_used + t.num
      /\ overfull' = (overfull \/ desc_used + t.num > Ring)
  BY <1>0, <1>1 DEF TransferInit, Descs
<1>3. b = Taken(tfer[c][s])
  <2>1. nents[c] + Taken(tfer[c][s]) = Len(Descs(c, s)) /\ nents[c] \in Nat
    BY <1>0 DEF BaseInv, CallOK, CutOK, TypeOK
  <2>2. Taken(tfer[c][s]) \in Nat
    BY TakesTfer
  <2>3. PICK k : k = Len(Descs(c, s))
    OBVIOUS
  <2> QED
    BY <1>1, <2>1, <2>2, <2>3
<1>4. /\ DOMAIN desc = 0 .. Ring - 1 /\ desc_idx \in 0 .. Ring - 1
      /\ t.first \in 0 .. Ring - 1 /\ t.num \in 1 .. Ring /\ t.first + t.num <= Ring
  BY <1>0 DEF BaseInv, TypeOK, Tfers
<1>5. ASSUME NEW i \in 0 .. t.num - 1
      PROVE  desc'[t.first + i] =
                Descriptor(t.first, t.num, i, DataOf(Building(c), i, b))
  <2>1. PICK j : j = t.first + i
    OBVIOUS
  <2>2. j \in 0 .. Ring - 1 /\ j \in t.first .. t.first + t.num - 1 /\ j - t.first = i
    BY <1>4, <2>1, Within
  <2>3. desc'[j] = Descriptor(t.first, t.num, j - t.first, DataOf(Building(c), j - t.first, b))
    BY <1>2, <1>4, <2>2
  <2> QED
    BY <2>1, <2>2, <2>3
<1>6. \A i \in 0 .. Ring - 1 : i \notin Slots(t) => desc'[i] = desc[i]
  BY <1>2, <1>4 DEF Slots
<1>7. \/ desc_idx' = desc_idx + t.num
      \/ desc_idx + t.num = Ring /\ desc_idx' = 0
  <2>1. desc_idx' = (desc_idx + t.num) % Ring
    BY <1>0 DEF Takes, NextIdx
  <2>2. PICK e : e = desc_idx + t.num
    OBVIOUS
  <2>3. e \in 0 .. Ring - 1 \/ e = Ring
    BY <1>0, <1>4, <2>2
  <2>4. (e % Ring = e) \/ (e = Ring /\ e % Ring = 0)
    BY <2>3, Mods
  <2> QED
    BY <2>1, <2>2, <2>4
<1> QED
  BY <1>2, <1>3, <1>5, <1>6, <1>7

\* transfer_init() takes descriptors that nobody uses, unless it overfills the
\* ring or crosses another request.
LEMMA RingTakes ==
  ASSUME BaseInv, CutInv, RingInv, NEW c \in Calls, TransferInit(c), NEW t, Takes(c, t)
  PROVE  RingInv'
<1> SUFFICES ASSUME ~overfull', ~crossed' PROVE RingOK'
  BY DEF RingInv
<1> PICK s : s = seg[c]
  OBVIOUS
<1>0. /\ ~overfull /\ ~crossed /\ desc_used' = desc_used + t.num
      /\ ~(desc_used + t.num > Ring)
      /\ \A d \in Calls : d # c => ~Cutting(d)
  BY TakesDesc DEF TransferInit
<1>1. RingOK
  BY <1>0 DEF RingInv
<1>2. /\ t \in Tfers /\ t.first = desc_idx /\ t.num \in 1 .. Ring
      /\ desc_idx \in 0 .. Ring - 1 /\ desc_idx' \in 0 .. Ring - 1
      /\ t.first + t.num <= Ring
      /\ desc_used \in 0 .. Ring /\ desc_used + t.num <= Ring
      /\ pc[c] = "init" /\ pc'[c] = "queue" /\ \A d \in Calls : d # c => pc'[d] = pc[d]
      /\ UNCHANGED <<seg, list, state>> /\ s \in 1 .. MaxSegs
  <2>1. /\ t \in Tfers /\ t.first = desc_idx /\ t.num \in 1 .. Ring
        /\ t.first + t.num <= Ring /\ desc_idx' \in 0 .. Ring - 1
    BY DEF Takes, Tfers
  <2>2. desc_used \in 0 .. Ring
    BY <1>1 DEF RingOK
  <2>3. desc_used + t.num <= Ring
    BY <1>0, <2>1, <2>2
  <2> QED
    BY <2>1, <2>2, <2>3 DEF Takes, BaseInv, TypeOK
<1>3. /\ \A u \in Tfers : Span(u) \in 1 .. Ring /\ u.num \in 1 .. Ring
      /\ \A u \in Tfers : Span(u) <= desc_used => Span(u)' = Span(u) + t.num
      /\ Span(t)' = t.num
  <2>1. desc_idx' = desc_idx + t.num \/ (desc_idx + t.num = Ring /\ desc_idx' = 0)
    BY TakesDesc
  <2>2. ASSUME NEW u \in Tfers
        PROVE  /\ Span(u) \in 1 .. Ring /\ u.num \in 1 .. Ring
               /\ Span(u) <= desc_used => Span(u)' = Span(u) + t.num
               /\ Back(desc_idx, desc_idx') = t.num
    <3>1. u.first \in 0 .. Ring - 1 /\ u.num \in 1 .. Ring
      BY DEF Tfers
    <3>2. /\ Back(u.first, desc_idx) + t.num <= Ring =>
               Back(u.first, desc_idx') = Back(u.first, desc_idx) + t.num
          /\ Back(u.first, desc_idx) \in 1 .. Ring
          /\ Back(desc_idx, desc_idx') = t.num
      <4>1. PICK p, m : p = u.first /\ m = t.num
        OBVIOUS
      <4>2. /\ p \in 0 .. Ring - 1 /\ m \in 1 .. Ring /\ desc_idx + m <= Ring
            /\ desc_idx' = desc_idx + m \/ (desc_idx + m = Ring /\ desc_idx' = 0)
            /\ desc_idx \in 0 .. Ring - 1 /\ desc_idx' \in 0 .. Ring - 1
        BY <1>2, <2>1, <3>1, <4>1
      <4>3. /\ Back(p, desc_idx) + m <= Ring =>
                 Back(p, desc_idx') = Back(p, desc_idx) + m
            /\ Back(p, desc_idx) \in 1 .. Ring
            /\ Back(desc_idx, desc_idx') = m
        BY <4>2, BackMoves
      <4> QED
        BY <4>1, <4>3
    <3> QED
      BY <1>2, <3>1, <3>2 DEF Span
  <2> QED
    BY <1>2, <2>2 DEF Span
<1>4. ASSUME NEW k \in 1 .. Len(list)
      PROVE  /\ T(list[k])' = T(list[k]) /\ T(list[k]) \in Tfers
             /\ T(list[k]).num \in 1 .. Ring
             /\ T(list[k]).num <= Span(T(list[k])) /\ Span(T(list[k])) <= desc_used
             /\ Span(T(list[k])) \in 1 .. Ring
             /\ Span(T(list[k]))' = Span(T(list[k])) + t.num
             /\ Intact(list[k])'
  <2> PICK y : y = list[k]
    OBVIOUS
  <2>1. y \in Xfers /\ T(y) \in Tfers /\ y[3] <= Len(tfer[y[1]][y[2]])
    BY ListedTfers
  <2>2. T(y)' = T(y) /\ Before(y)' = Before(y)
    BY <2>1, TakesOld
  <2>3. T(y).num <= Span(T(y)) /\ Span(T(y)) <= desc_used /\ Intact(y)
    BY <1>1 DEF RingOK, ListRing
  <2> PICK u : u = T(y)
    OBVIOUS
  <2>4. Span(u)' = Span(u) + t.num /\ Span(u) \in 1 .. Ring /\ u.num \in 1 .. Ring
    BY <1>3, <2>1, <2>3
  <2>5. Span(T(y))' = Span(u)'
    BY <2>2 DEF Span
  <2>6. ASSUME NEW i \in 0 .. u.num - 1 PROVE desc'[u.first + i] = desc[u.first + i]
    <3>1. /\ u.first \in 0 .. Ring - 1 /\ u.num \in 1 .. Ring /\ u.first + u.num <= Ring
      BY <2>1 DEF Tfers
    <3>2. /\ Back(desc_idx, desc_idx') = t.num
          /\ Back(u.first, desc_idx') = Back(u.first, desc_idx) + t.num
          /\ Back(u.first, desc_idx) \in 1 .. Ring
          /\ u.num <= Back(u.first, desc_idx)
      BY <1>2, <1>3, <2>3, <2>4 DEF Span
    <3>3. u.first + i \notin desc_idx .. desc_idx + t.num - 1
      <4>1. PICK p, n, m, b : p = u.first /\ n = u.num /\ m = t.num /\ b = Back(p, desc_idx)
        OBVIOUS
      <4>2. b \in 1 .. Ring /\ n <= b /\ b <= desc_used /\ m \in 1 .. Ring
        BY <1>2, <2>3, <3>2, <4>1 DEF Span
      <4>3. b + m <= Ring
        BY <1>2, <4>1, <4>2
      <4>4. /\ p \in 0 .. Ring - 1 /\ n \in 1 .. Ring /\ p + n <= Ring /\ i \in 0 .. n - 1
            /\ desc_idx \in 0 .. Ring - 1 /\ desc_idx + m <= Ring
        BY <1>2, <3>1, <4>1
      <4>5. p + i \notin desc_idx .. desc_idx + m - 1
        BY <4>1, <4>2, <4>3, <4>4, InFront
      <4> QED
        BY <4>1, <4>5
    <3>4. u.first + i \in 0 .. Ring - 1
      BY <3>1, Within
    <3> QED
      BY <1>2, <3>3, <3>4, TakesDesc DEF Slots
  <2>7. Intact(y)'
    BY <2>2, <2>3, <2>6 DEF Intact
  <2>8. Intact(list[k])'
    BY <1>2, <2>7
  <2>9. T(list[k])' = T(list[k]) /\ Span(T(list[k]))' = Span(T(list[k])) + t.num
    <3>1. list'[k] = y
      BY <1>2
    <3> QED
      BY <2>2, <2>4, <2>5, <3>1
  <2> QED
    BY <2>1, <2>3, <2>4, <2>8, <2>9
<1>5. ListRing'
  <2>1. ASSUME NEW k \in 1 .. Len(list)
        PROVE  /\ T(list[k])'.num <= Span(T(list[k]))' /\ Span(T(list[k]))' <= desc_used'
               /\ Intact(list[k])'
    <3>1. PICK a, e : a = Span(T(list[k])) /\ e = T(list[k]).num
      OBVIOUS
    <3>2. a \in 1 .. Ring /\ e \in 1 .. Ring /\ e <= a /\ a <= desc_used
      BY <1>4, <3>1
    <3>3. Span(T(list[k]))' = a + t.num /\ T(list[k])'.num = e /\ Intact(list[k])'
      BY <1>4, <3>1
    <3>4. e <= a + t.num /\ a + t.num <= desc_used'
      BY <1>0, <1>2, <3>2, SMTT(30)
    <3> QED
      BY <3>3, <3>4
  <2>2. ASSUME NEW m \in 1 .. Len(list), NEW k \in 1 .. Len(list), m < k
        PROVE  Span(T(list[k]))' + T(list[m])'.num <= Span(T(list[m]))'
    <3>1. Span(T(list[k])) + T(list[m]).num <= Span(T(list[m]))
      BY <1>1, <2>2 DEF RingOK, ListRing
    <3>2. PICK a, b, e : a = Span(T(list[k])) /\ b = Span(T(list[m])) /\ e = T(list[m]).num
      OBVIOUS
    <3>3. /\ a \in Nat /\ b \in Nat /\ e \in Nat /\ t.num \in Nat /\ a + e <= b
          /\ Span(T(list[k]))' = a + t.num /\ Span(T(list[m]))' = b + t.num
          /\ T(list[m])'.num = e
      <4>1. a \in 1 .. Ring /\ b \in 1 .. Ring /\ e \in 1 .. Ring
        BY <1>4, <3>2
      <4>2. /\ Span(T(list[k]))' = a + t.num /\ Span(T(list[m]))' = b + t.num
            /\ T(list[m])'.num = e
        BY <1>4, <3>2
      <4>3. a \in Nat /\ b \in Nat /\ e \in Nat /\ t.num \in Nat
        BY <1>2, <4>1
      <4> QED
        BY <3>1, <3>2, <4>2, <4>3
    <3>4. (a + t.num) + e <= b + t.num
      BY <3>3
    <3> QED
      BY <3>3, <3>4
  <2>3. list' = list
    BY <1>2
  <2> QED
    BY <2>1, <2>2, <2>3 DEF ListRing
<1>6. ASSUME NEW d \in Calls, d # c PROVE BuiltRing(d)'
  BY <1>0, <1>2, <1>6 DEF BuiltRing, Cutting
<1>7. BuiltRing(c)'
  <2>1. PICK x : x = Building(c)
    OBVIOUS
  <2>2. Built(c)' = x /\ x[1] = c /\ x[2] = s /\ T(x)' = t /\ Before(x)' = Taken(tfer[c][s])
    <3>1. PICK n : n = Len(tfer[c][s])
      OBVIOUS
    <3>2. \/ n = 0 /\ Len(tfer'[c][s]) = 1 /\ tfer'[c][s][1] = t
          \/ /\ n = 1 /\ Len(tfer'[c][s]) = 2 /\ tfer'[c][s][2] = t
             /\ tfer'[c][s][1] = tfer[c][s][1]
      BY <3>1, TakesTfer
    <3>3. x = <<c, s, n + 1>> /\ Built(c)' = <<c, s, Len(tfer'[c][s])>>
      BY <1>2, <2>1, <3>1 DEF Building, Built
    <3>4. CASE n = 0
      <4>1. x = <<c, s, 1>> /\ Len(tfer'[c][s]) = 1 /\ tfer'[c][s][1] = t
        BY <3>2, <3>3, <3>4
      <4>2. Taken(tfer[c][s]) = 0
        BY <3>1, <3>4 DEF Taken
      <4> QED
        BY <3>3, <4>1, <4>2 DEF T, Before
    <3>5. CASE n = 1
      <4>1. /\ x = <<c, s, 2>> /\ Len(tfer'[c][s]) = 2 /\ tfer'[c][s][2] = t
            /\ tfer'[c][s][1] = tfer[c][s][1]
        BY <3>2, <3>3, <3>5
      <4>2. Taken(tfer[c][s]) = tfer[c][s][1].num
        BY <3>1, <3>5 DEF Taken
      <4> QED
        BY <3>3, <4>1, <4>2 DEF T, Before
    <3> QED
      BY <3>2, <3>4, <3>5
  <2>3. Intact(x)'
    BY <2>1, <2>2, TakesDesc DEF Intact
  <2>4. Span(T(x))' = t.num
    <3>1. Span(T(x))' = Span(t)'
      BY <2>2 DEF Span
    <3> QED
      BY <1>3, <3>1
  <2>5. t.num <= desc_used'
    BY <1>0, <1>2
  <2>6. ASSUME NEW k \in 1 .. Len(list)
        PROVE  t.num + T(list[k])'.num <= Span(T(list[k]))'
    <3>1. PICK a, e : a = Span(T(list[k])) /\ e = T(list[k]).num
      OBVIOUS
    <3>2. /\ a \in Nat /\ e \in Nat /\ t.num \in Nat /\ e <= a
          /\ Span(T(list[k]))' = a + t.num /\ T(list[k])'.num = e
      <4>1. a \in 1 .. Ring /\ e \in 1 .. Ring /\ e <= a
        BY <1>4, <3>1
      <4>2. Span(T(list[k]))' = a + t.num /\ T(list[k])'.num = e
        BY <1>4, <3>1
      <4>3. a \in Nat /\ e \in Nat /\ t.num \in Nat
        BY <1>2, <4>1
      <4> QED
        BY <4>1, <4>2, <4>3
    <3>3. t.num + e <= a + t.num
      BY <3>2
    <3> QED
      BY <3>2, <3>3
  <2>7. list' = list
    BY <1>2
  <2> QED
    BY <2>2, <2>3, <2>4, <2>5, <2>6, <2>7 DEF BuiltRing
<1>8. ASSUME NEW d \in Calls, NEW r \in 1 .. MaxSegs, ~(d = c /\ r = s)
      PROVE  FirstRing(d, r)'
  <2>1. tfer'[d][r] = tfer[d][r]
    BY <1>8, TakesTfer
  <2>2. ~(pc'[d] = "init" /\ seg'[d] = r /\ tfer'[d][r] # <<>>)
    <3>1. CASE d = c
      BY <1>2, <3>1
    <3>2. CASE d # c
      BY <1>0, <1>2, <2>1, <3>2 DEF Cutting
    <3> QED
      BY <3>1, <3>2
  <2>3. ~(pc'[d] = "queue" /\ seg'[d] = r)
    <3>1. CASE d = c
      BY <1>2, <1>8, <3>1
    <3>2. CASE d # c
      BY <1>0, <1>2, <3>2 DEF Cutting
    <3> QED
      BY <3>1, <3>2
  <2> PICK u, w : u = tfer[d][r][1] /\ w = tfer[d][r][2]
    OBVIOUS
  <2>4. ASSUME Len(tfer[d][r]) = 2, state[<<d, r, 2>>] = "SUBMITTED"
        PROVE  Span(u)' = Span(w)' + u.num /\ Span(u)' <= desc_used'
    <3>1. Span(u) = Span(w) + u.num /\ Span(u) <= desc_used
      <4>1. FirstRing(d, r)
        BY <1>1 DEF RingOK
      <4> QED
        BY <2>4, <4>1 DEF FirstRing
    <3>2. u \in Tfers /\ w \in Tfers
      <4>1. \A k \in 1 .. 2 : tfer[d][r][k] \in Tfers
        BY <2>4, TferFacts
      <4> QED
        BY <4>1
    <3>3. Span(u) \in Nat /\ Span(w) \in Nat /\ u.num \in Nat
      BY <1>3, <3>2
    <3>4. Span(w) <= desc_used
      BY <1>2, <3>1, <3>3
    <3>5. Span(u)' = Span(u) + t.num /\ Span(w)' = Span(w) + t.num
      BY <1>3, <3>1, <3>2, <3>4
    <3> QED
      BY <1>0, <1>2, <3>1, <3>3, <3>5
  <2>5. Span(tfer[d][r][1])' = Span(u)' /\ Span(tfer[d][r][2])' = Span(w)'
    BY <2>1 DEF Span
  <2> QED
    BY <1>2, <2>1, <2>2, <2>3, <2>4, <2>5 DEF FirstRing
<1>9. FirstRing(c, s)'
  <2>1. pc'[c] # "init"
    BY <1>2
  <2>2. ASSUME Len(tfer'[c][s]) = 2
        PROVE  /\ Span(tfer[c][s][1])' = Span(tfer[c][s][2])' + tfer'[c][s][1].num
               /\ Span(tfer[c][s][1])' <= desc_used'
    <3>0. 1 # 2
      OBVIOUS
    <3>1. /\ tfer[c][s] # <<>> /\ Len(tfer[c][s]) = 1
          /\ tfer'[c][s][1] = tfer[c][s][1] /\ tfer'[c][s][2] = t
      BY <2>2, <3>0, TakesTfer, Zenon
    <3> PICK u : u = tfer[c][s][1]
      OBVIOUS
    <3>2. u \in Tfers
      <4>1. \A k \in 1 .. 1 : tfer[c][s][k] \in Tfers
        BY <1>2, <3>1, TferFacts
      <4> QED
        BY <4>1
    <3>3. Span(u) = u.num /\ u.num <= desc_used
      <4>1. FirstRing(c, s)
        BY <1>1, <1>2 DEF RingOK
      <4> QED
        BY <1>2, <3>1, <4>1 DEF FirstRing
    <3>4. Span(u)' = u.num + t.num /\ Span(t)' = t.num /\ u.num \in Nat
      BY <1>3, <3>2, <3>3
    <3>5. Span(tfer[c][s][1])' = Span(u)' /\ Span(tfer[c][s][2])' = Span(t)'
      BY <3>1 DEF Span
    <3> QED
      BY <1>0, <1>2, <3>1, <3>3, <3>4, <3>5, SMTT(30)
  <2> QED
    BY <2>1, <2>2 DEF FirstRing
<1>10. desc_used' \in 0 .. Ring
  BY <1>0, <1>2
<1> QED
  BY <1>5, <1>6, <1>7, <1>8, <1>9, <1>10 DEF RingOK

\* transfer_queue() leaves the memory alone: what was built is now queued.
LEMMA RingQueues ==
  ASSUME BaseInv, CutInv, RingInv, NEW c \in Calls, NEW x, Queues(c, x)
  PROVE  RingInv'
<1> SUFFICES ASSUME ~overfull, ~crossed PROVE RingOK'
  BY DEF RingInv, Queues
<1> PICK s : s = seg[c]
  OBVIOUS
<1>0. RingOK /\ TypeOK
  BY DEF RingInv, BaseInv
<1>1. /\ pc[c] = "queue" /\ x = Built(c) /\ x \in Xfers
      /\ UNCHANGED <<tfer, desc, desc_idx, desc_used>>
      /\ \A y \in Xfers : y # x => state'[y] = state[y]
      /\ list' = Append(list, x) /\ list \in Seq(Xfers) /\ s \in 1 .. MaxSegs
      /\ pc'[c] # "queue" /\ \A d \in Calls : d # c => pc'[d] = pc[d] /\ seg'[d] = seg[d]
      /\ pc'[c] = "init" => nents[c] # 0 /\ seg' = seg
  BY <1>0 DEF Queues, TypeOK
<1>2. /\ \A y : T(y)' = T(y) /\ Before(y)' = Before(y) /\ (Intact(y)' <=> Intact(y))
      /\ \A u : Span(u)' = Span(u)
  BY <1>1 DEF T, Before, Intact, Span
<1>3. /\ Span(T(x)) = T(x).num /\ T(x).num <= desc_used /\ Intact(x)
      /\ \A n \in 1 .. Len(list) : T(x).num + T(list[n]).num <= Span(T(list[n]))
  BY <1>0, <1>1 DEF RingOK, BuiltRing
<1>4. tfer[c][s] # <<>>
  BY <1>1 DEF BaseInv, CallOK, CutOK
<1>5. T(x) \in Tfers /\ T(x).num \in Nat
  BY <1>1, <1>4, BuiltFacts DEF Tfers
<1>6. PICK n \in Nat : /\ n = Len(list) /\ n + 1 = Len(list')
                       /\ \A k \in 1 .. n : list'[k] = list[k]
                       /\ list'[n + 1] = x
  BY <1>1, Longer
<1>7. \A k \in 1 .. n + 1 : k \in 1 .. n \/ k = n + 1
  OBVIOUS
<1>8. ListRing'
  <2>1. ASSUME NEW k \in 1 .. n + 1
        PROVE  /\ T(list'[k]).num <= Span(T(list'[k])) /\ Span(T(list'[k])) <= desc_used
               /\ Intact(list'[k])
    <3>1. CASE k \in 1 .. n
      <4>1. list'[k] = list[k] /\ k \in 1 .. Len(list)
        BY <1>6, <3>1
      <4> QED
        BY <1>0, <4>1 DEF RingOK, ListRing
    <3>2. CASE k = n + 1
      <4>1. list'[k] = x
        BY <1>6, <3>2
      <4>2. T(x).num <= Span(T(x))
        BY <1>3, <1>5
      <4>3. Span(T(x)) <= desc_used
        BY <1>3
      <4> QED
        BY <1>3, <4>1, <4>2, <4>3
    <3> QED
      BY <1>7, <3>1, <3>2
  <2>2. ASSUME NEW m \in 1 .. n + 1, NEW k \in 1 .. n + 1, m < k
        PROVE  Span(T(list'[k])) + T(list'[m]).num <= Span(T(list'[m]))
    <3>0. m \in 1 .. n
      BY <2>2
    <3>1. list'[m] = list[m] /\ m \in 1 .. Len(list)
      BY <1>6, <3>0
    <3>2. CASE k \in 1 .. n
      <4>1. list'[k] = list[k] /\ k \in 1 .. Len(list)
        BY <1>6, <3>2
      <4> QED
        BY <1>0, <2>2, <3>1, <4>1 DEF RingOK, ListRing
    <3>3. CASE k = n + 1
      <4>1. list'[k] = x
        BY <1>6, <3>3
      <4> QED
        BY <1>3, <3>1, <4>1
    <3> QED
      BY <1>7, <3>2, <3>3
  <2>3. \A k \in 1 .. n + 1 :
          /\ T(list[k])' = T(list'[k]) /\ Span(T(list[k]))' = Span(T(list'[k]))
          /\ Intact(list[k])' <=> Intact(list'[k])
    BY <1>1 DEF T, Before, Intact, Span
  <2> QED
    BY <1>1, <1>6, <2>1, <2>2, <2>3 DEF ListRing
<1>9. ASSUME NEW d \in Calls PROVE BuiltRing(d)'
  <2>1. CASE d = c
    BY <1>1, <2>1 DEF BuiltRing
  <2>2. CASE d # c
    <3>1. pc[d] # "queue"
      BY <1>1, <2>2 DEF CutInv, Cutting
    <3> QED
      BY <1>1, <2>2, <3>1 DEF BuiltRing
  <2> QED
    BY <2>1, <2>2
<1>10. ASSUME NEW d \in Calls, NEW r \in 1 .. MaxSegs PROVE FirstRing(d, r)'
  <2>0. FirstRing(d, r) /\ \A u : Span(u)' = Span(u)
    BY <1>0, <1>2 DEF RingOK
  <2>1. ASSUME pc'[d] = "init", seg'[d] = r, tfer[d][r] # <<>>
        PROVE  Span(tfer[d][r][1]) = tfer[d][r][1].num /\ tfer[d][r][1].num <= desc_used
    <3>1. CASE d # c
      BY <1>1, <2>0, <2>1, <3>1 DEF FirstRing
    <3>2. CASE d = c
      <4>1. r = s /\ nents[c] # 0
        BY <1>1, <2>1, <3>2
      <4>2. Len(tfer[c][s]) = 1
        BY <1>1, <4>1 DEF CutInv, Cutting
      <4>3. T(x) = tfer[d][r][1]
        BY <1>1, <3>2, <4>1, <4>2 DEF T, Built
      <4> QED
        BY <1>3, <4>3
    <3> QED
      BY <3>1, <3>2
  <2>2. ASSUME Len(tfer[d][r]) = 2,
               state'[<<d, r, 2>>] = "SUBMITTED" \/ (pc'[d] = "queue" /\ seg'[d] = r)
        PROVE  /\ Span(tfer[d][r][1]) = Span(tfer[d][r][2]) + tfer[d][r][1].num
               /\ Span(tfer[d][r][1]) <= desc_used
    <3>1. \/ state[<<d, r, 2>>] = "SUBMITTED"
          \/ pc[d] = "queue" /\ seg[d] = r
      <4>1. <<d, r, 2>> \in Xfers
        BY DEF Xfers
      <4>2. CASE <<d, r, 2>> = x
        BY <1>1, <4>2 DEF Built
      <4>3. CASE <<d, r, 2>> # x
        BY <1>1, <2>2, <4>1, <4>3
      <4> QED
        BY <4>2, <4>3
    <3> QED
      BY <2>0, <2>2, <3>1 DEF FirstRing
  <2>3. /\ Span(tfer[d][r][1])' = Span(tfer[d][r][1])
        /\ Span(tfer[d][r][2])' = Span(tfer[d][r][2])
    BY <1>1 DEF Span
  <2> QED
    BY <1>1, <2>1, <2>2, <2>3 DEF FirstRing
<1> QED
  BY <1>0, <1>1, <1>8, <1>9, <1>10 DEF RingOK

\* xdma_xfer_completion() takes back the first transfer of a request, or both.
LEMMA TakesBack ==
  ASSUME NEW ts \in Seq(Tfers), Len(ts) = 1 \/ Len(ts) = 2, NEW verdict
  PROVE  \/ TakenBack(ts, verdict) = 1 /\ Returned(ts, 1) = ts[1].num
         \/ /\ Len(ts) = 2 /\ TakenBack(ts, verdict) = 2
            /\ Returned(ts, 2) = ts[1].num + ts[2].num
<1> DEFINE bad == {k \in DOMAIN ts : verdict[k] # "COMPLETED"}
<1>0. DOMAIN ts = 1 .. Len(ts) /\ \A k \in 1 .. Len(ts) : ts[k] \in Tfers
  BY LenProperties, ElementOfSeq
<1>1. TakenBack(ts, verdict) = 1 \/ (Len(ts) = 2 /\ TakenBack(ts, verdict) = 2)
  <2>1. CASE bad = {}
    BY <2>1 DEF TakenBack
  <2>2. CASE bad # {}
    <3>1. bad \in SUBSET Nat
      BY <1>0
    <3>2. \E k \in bad : \A j \in bad : k <= j
      BY <2>2, <3>1, LeastNat
    <3>3. TakenBack(ts, verdict) = CHOOSE k \in bad : \A j \in bad : k <= j
      BY <2>2 DEF TakenBack
    <3>4. TakenBack(ts, verdict) \in bad
      BY <3>2, <3>3
    <3>5. TakenBack(ts, verdict) \in 1 .. Len(ts)
      BY <1>0, <3>4
    <3>6. PICK b, n : b = TakenBack(ts, verdict) /\ n = Len(ts)
      OBVIOUS
    <3>7. b \in 1 .. n /\ (n = 1 \/ n = 2)
      BY <3>5, <3>6
    <3>8. b = 1 \/ (n = 2 /\ b = 2)
      BY <3>7
    <3> QED
      BY <3>6, <3>8
  <2> QED
    BY <2>1, <2>2
<1>2. 1 \in 1 .. Len(ts) /\ (Len(ts) = 2 => 2 \in 1 .. Len(ts))
  OBVIOUS
<1>3. ts[1].num \in Nat /\ (Len(ts) = 2 => ts[2].num \in Nat)
  BY <1>0, <1>2 DEF Tfers
<1>4. Returned(ts, 1) = ts[1].num
  <2> DEFINE r == [k \in 1 .. 1 |-> ts[k].num]
  <2>1. r \in Seq(Nat) /\ Len(r) = 1 /\ r[1] = ts[1].num
    BY <1>3
  <2> HIDE DEF r
  <2>2. SumSeq(r) = r[1]
    BY <2>1, SumSeqShort
  <2> QED
    BY <2>1, <2>2 DEF Returned, r
<1>5. ASSUME Len(ts) = 2 PROVE Returned(ts, 2) = ts[1].num + ts[2].num
  <2> DEFINE r == [k \in 1 .. 2 |-> ts[k].num]
  <2>1. r \in Seq(Nat) /\ Len(r) = 2 /\ r[1] = ts[1].num /\ r[2] = ts[2].num
    BY <1>3, <1>5
  <2> HIDE DEF r
  <2>2. SumSeq(r) = r[1] + r[2]
    BY <2>1, SumSeqShort, SMTT(30)
  <2> QED
    BY <2>1, <2>2 DEF Returned, r
<1> QED
  BY <1>1, <1>4, <1>5

\* The handler of a request: what it gives back.
Gives(c, s, n) ==
  /\ desc' = [i \in DOMAIN desc |->
                IF \E k \in 1 .. n : i \in Slots(tfer[c][s][k])
                THEN Zeroed ELSE desc[i]]
  /\ desc_used' = desc_used - Returned(tfer[c][s], n)

\* The bottom half gives back what the handler does, or nothing.
LEMMA CompletesGives ==
  ASSUME BaseInv, EngineCompletes
  PROVE  LET x == list[1] IN
         \/ UNCHANGED <<desc, desc_used>>
         \/ T(x).last /\ \E v : Gives(x[1], x[2], TakenBack(tfer[x[1]][x[2]], v))
<1>1. Head(list) = list[1]
  BY DEF EngineCompletes, Engine!Settle
<1> PICK x : x = list[1]
  BY SMTT(30)
<1>2. \/ UNCHANGED <<desc, desc_used>>
      \/ T(x).last /\ \E v : AsyncIoHandler(x[1], x[2], v)
  BY <1>1 DEF EngineCompletes, T
<1>3. ASSUME NEW v, AsyncIoHandler(x[1], x[2], v)
      PROVE  Gives(x[1], x[2], TakenBack(tfer[x[1]][x[2]], v))
  <2> DEFINE ts == tfer[x[1]][x[2]]
             n  == TakenBack(ts, v)
             g  == UNION {ts[k].first .. ts[k].first + ts[k].num - 1 : k \in 1 .. n}
  <2>1. /\ desc' = [i \in DOMAIN desc |-> IF i \in g THEN Zeroed ELSE desc[i]]
        /\ desc_used' = desc_used - Returned(ts, n)
    BY <1>3, Zenon DEF AsyncIoHandler
  <2>2. \A i : i \in g <=> \E k \in 1 .. n : i \in Slots(ts[k])
    <3> HIDE DEF n
    <3> QED
      BY DEF Slots
  <2> HIDE DEF g
  <2> QED
    BY <2>1, <2>2 DEF Gives
<1> QED
  BY <1>2, <1>3

\* What lies in front of the head of the list stays as it is and stays counted.
LEMMA CompletesKeeps ==
  ASSUME BaseInv, RingOK, EngineCompletes
  PROVE  /\ desc_used' \in 0 .. Ring
         /\ ~T(list[1]).last => desc_used' = desc_used
         /\ \A u \in Tfers :
              /\ u.num <= Span(u)
              /\ Span(u) + T(list[1]).num <= Span(T(list[1]))
              => /\ Span(u) <= desc_used'
                 /\ \A i \in 0 .. u.num - 1 : desc'[u.first + i] = desc[u.first + i]
<1> PICK x : x = list[1]
  OBVIOUS
<1> PICK c, s, ts : c = x[1] /\ s = x[2] /\ ts = tfer[c][s]
  OBVIOUS
<1>0. list # <<>>
  BY DEF EngineCompletes, Engine!Settle
<1>1. 1 \in 1 .. Len(list)
  <2>1. PICK n \in Nat : n + 1 = Len(list)
    BY <1>0, Shorter
  <2>2. 1 \in 1 .. n + 1
    OBVIOUS
  <2> QED
    BY <2>1, <2>2
<1>2. /\ x \in Xfers /\ T(x) \in Tfers /\ c \in Calls /\ s \in 1 .. MaxSegs
      /\ x[3] \in 1 .. 2 /\ x[3] <= Len(ts)
  BY <1>1, ListedTfers
<1>3. \A u \in Tfers : /\ u.first \in 0 .. Ring - 1 /\ u.num \in 1 .. Ring
                       /\ u.first + u.num <= Ring /\ Span(u) \in 1 .. Ring
  <2>1. desc_idx \in 0 .. Ring - 1
    BY DEF BaseInv, TypeOK
  <2> QED
    BY <2>1 DEF Tfers, Span, Back
<1>4. /\ T(x).num <= Span(T(x)) /\ Span(T(x)) <= desc_used /\ desc_used \in 0 .. Ring
  BY <1>1 DEF RingOK, ListRing
<1>5. CASE UNCHANGED <<desc, desc_used>>
  <2>1. \A u \in Tfers : Span(u) + T(x).num <= Span(T(x)) => Span(u) <= desc_used'
    BY <1>2, <1>3, <1>4, <1>5
  <2> QED
    BY <1>4, <1>5, <2>1
<1>6. ASSUME T(x).last, NEW v, Gives(c, s, TakenBack(ts, v))
      PROVE  /\ desc_used' \in 0 .. Ring
             /\ \A u \in Tfers :
                  /\ u.num <= Span(u)
                  /\ Span(u) + T(x).num <= Span(T(x))
                  => /\ Span(u) <= desc_used'
                     /\ \A i \in 0 .. u.num - 1 : desc'[u.first + i] = desc[u.first + i]
  <2>1. /\ ts \in Seq(Tfers) /\ (Len(ts) = 1 \/ Len(ts) = 2)
        /\ \A k \in 1 .. Len(ts) : ts[k] \in Tfers
    <3>1. 0 # x[3] /\ ~(x[3] <= 0)
      BY <1>2
    <3> QED
      BY <1>2, <3>1, TferFacts, Zenon
  <2>2. x[3] = Len(ts)
    <3>1. PICK n : n = Len(ts)
      OBVIOUS
    <3>2. x[3] \in 1 .. n
      BY <1>2, <2>1, <3>1
    <3>3. SegOK(c, s)
      BY <1>2 DEF BaseInv, CallOK
    <3>4. ts[x[3]].last
      BY <1>6 DEF T
    <3> QED
      BY <3>1, <3>2, <3>3, <3>4 DEF SegOK
  <2>3. PICK n : n = TakenBack(ts, v)
    BY SMTT(30)
  <2>4. \/ n = 1 /\ Returned(ts, n) = ts[1].num
        \/ Len(ts) = 2 /\ n = 2 /\ Returned(ts, n) = ts[1].num + ts[2].num
    BY <2>1, <2>3, TakesBack, SMTT(30)
  \* What is given back lies between the head's place and the others'.
  <2>5. /\ Returned(ts, n) \in Nat
        /\ \A a \in Nat : a + T(x).num <= Span(T(x)) => a + Returned(ts, n) <= desc_used
        /\ \A k \in 1 .. n : /\ ts[k] \in Tfers
                             /\ \A a \in Nat : a + T(x).num <= Span(T(x)) =>
                                                 a + ts[k].num <= Span(ts[k])
    <3>1. CASE Len(ts) = 1
      <4>1. n = 1 /\ Returned(ts, n) = ts[1].num
        BY <2>4, <3>1
      <4>2. T(x) = ts[1]
        BY <2>2, <3>1 DEF T
      <4>3. \A k \in 1 .. n : k = 1
        BY <4>1
      <4>4. PICK e, b : e = ts[1].num /\ b = Span(ts[1])
        BY SMTT(30)
      <4>5. e \in 1 .. Ring /\ b \in 1 .. Ring /\ b <= desc_used /\ desc_used \in 0 .. Ring
        BY <1>2, <1>3, <1>4, <4>2, <4>4
      <4>6. \A a \in Nat : a + e <= b => a + e <= desc_used
        BY <4>5
      <4>7. Returned(ts, n) = e /\ e \in Nat
        <5>1. e \in Nat
          BY <4>5
        <5> QED
          BY <4>1, <4>4, <5>1, Zenon
      <4>8. \A a \in Nat : a + T(x).num <= Span(T(x)) => a + Returned(ts, n) <= desc_used
        BY <4>2, <4>4, <4>6, <4>7, ZenonT(30)
      <4> QED
        BY <1>2, <4>2, <4>3, <4>7, <4>8, ZenonT(30)
    <3>2. CASE Len(ts) = 2
      <4>1. T(x) = ts[2] /\ ts[1] \in Tfers /\ x = <<c, s, 2>>
        <5>1. 1 \in 1 .. 2 /\ x = <<x[1], x[2], x[3]>>
          BY <1>2, XferParts, SMTT(30)
        <5> QED
          BY <2>1, <2>2, <3>2, <5>1 DEF T
      <4>2. Span(ts[1]) = Span(ts[2]) + ts[1].num /\ Span(ts[1]) <= desc_used
        <5>1. state[<<c, s, 2>>] = "SUBMITTED"
          <6>1. state[list[1]] = "SUBMITTED"
            BY <1>1 DEF BaseInv, ListOK
          <6> QED
            BY <4>1, <6>1
        <5>2. FirstRing(c, s)
          BY <1>2 DEF RingOK
        <5> QED
          BY <3>2, <5>1, <5>2 DEF FirstRing
      <4>3. PICK a1, a2, b1, b2 : /\ a1 = ts[1].num /\ a2 = ts[2].num
                                  /\ b1 = Span(ts[1]) /\ b2 = Span(ts[2])
        BY ZenonT(30)
      <4>4. /\ a1 \in 1 .. Ring /\ a2 \in 1 .. Ring /\ b1 \in 1 .. Ring /\ b2 \in 1 .. Ring
            /\ b1 = b2 + a1 /\ b1 <= desc_used /\ a2 <= b2 /\ desc_used \in 0 .. Ring
        BY <1>2, <1>3, <1>4, <4>1, <4>2, <4>3, ZenonT(30)
      <4>5. \A a \in Nat : a + a2 <= b2 => /\ a + (a1 + a2) <= desc_used
                                           /\ a + a1 <= desc_used /\ a + a1 <= b1
        BY <4>4, SMTT(30)
      <4>6. Returned(ts, n) = a1 \/ Returned(ts, n) = a1 + a2
        BY <2>4, <4>3, ZenonT(30)
      <4>7. n = 1 \/ n = 2
        BY <2>4
      <4>8. \A k \in 1 .. n : k = 1 \/ k = 2
        BY <4>7
      <4>9. Returned(ts, n) \in Nat
        BY <4>4, <4>6, SMTT(30)
      <4>10. \A a \in Nat : a + T(x).num <= Span(T(x)) => a + Returned(ts, n) <= desc_used
        BY <4>1, <4>3, <4>5, <4>6, ZenonT(30)
      <4>11. ASSUME NEW k \in 1 .. n
             PROVE  /\ ts[k] \in Tfers
                    /\ \A a \in Nat : a + T(x).num <= Span(T(x)) =>
                                        a + ts[k].num <= Span(ts[k])
        <5>1. CASE k = 1
          BY <4>1, <4>3, <4>5, <5>1, ZenonT(30)
        <5>2. CASE k = 2
          BY <1>2, <4>1, <5>2
        <5> QED
          BY <4>8, <5>1, <5>2, SMTT(30)
      <4> QED
        BY <4>9, <4>10, <4>11
    <3> QED
      BY <2>1, <3>1, <3>2, SMTT(30)
  <2>6. /\ desc_used' = desc_used - Returned(ts, n)
        /\ desc' = [i \in DOMAIN desc |->
                      IF \E k \in 1 .. n : i \in Slots(ts[k]) THEN Zeroed ELSE desc[i]]
        /\ DOMAIN desc = 0 .. Ring - 1 /\ desc_idx \in 0 .. Ring - 1
    BY <1>6, <2>3, SMTT(30) DEF Gives, BaseInv, TypeOK
  <2>7. desc_used' \in 0 .. Ring
    <3>1. 0 \in Nat /\ 0 + T(x).num <= Span(T(x))
      BY <1>2, <1>3, <1>4, SMTT(30)
    <3>2. 0 + Returned(ts, n) <= desc_used
      BY <2>5, <3>1, SMTT(30)
    <3> QED
      BY <1>4, <2>5, <2>6, <3>2
  <2>8. ASSUME NEW u \in Tfers, u.num <= Span(u), Span(u) + T(x).num <= Span(T(x))
        PROVE  Span(u) <= desc_used'
    <3>1. Span(u) \in Nat
      BY <1>3
    <3>2. Span(u) + Returned(ts, n) <= desc_used
      BY <2>5, <2>8, <3>1
    <3> QED
      BY <1>4, <2>5, <2>6, <3>1, <3>2, SMTT(30)
  <2>9. ASSUME NEW u \in Tfers, u.num <= Span(u), Span(u) + T(x).num <= Span(T(x)),
               NEW i \in 0 .. u.num - 1
        PROVE  desc'[u.first + i] = desc[u.first + i]
    <3>1. u.first + i \in 0 .. Ring - 1
      BY <1>3
    <3>2. ASSUME NEW k \in 1 .. n PROVE u.first + i \notin Slots(ts[k])
      <4>1. ts[k] \in Tfers /\ Span(u) \in Nat
        BY <1>3, <2>5, SMTT(30)
      <4>2. Span(u) + ts[k].num <= Span(ts[k])
        BY <2>5, <2>9, <4>1
      <4>3. PICK w : w = ts[k]
        BY SMTT(30)
      <4>4. /\ w.first \in 0 .. Ring - 1 /\ w.num \in 1 .. Ring /\ w.first + w.num <= Ring
            /\ u.first \in 0 .. Ring - 1 /\ u.num \in 1 .. Ring /\ u.first + u.num <= Ring
            /\ u.num <= Back(u.first, desc_idx)
            /\ Back(u.first, desc_idx) + w.num <= Back(w.first, desc_idx)
        BY <1>3, <2>9, <4>1, <4>2, <4>3 DEF Span
      <4>5. u.first + i \notin w.first .. w.first + w.num - 1
        BY <2>6, <4>4, Apart
      <4> QED
        BY <4>3, <4>5, SMTT(30) DEF Slots
    <3>3. PICK j : j = u.first + i
      OBVIOUS
    <3>4. desc'[j] = desc[j]
      BY <2>6, <3>1, <3>2, <3>3
    <3> QED
      BY <3>3, <3>4
  <2> QED
    BY <2>7, <2>8, <2>9
<1> QED
  BY <1>4, <1>5, <1>6, CompletesGives

\* The bottom half gives back the oldest descriptors only.
LEMMA RingSettles ==
  ASSUME BaseInv, CutInv, RingInv, EngineCompletes
  PROVE  RingInv'
<1>0. PICK v : Settles(list[1], v)
  BY CompletesSettles
<1> SUFFICES ASSUME ~overfull, ~crossed PROVE RingOK'
  BY <1>0 DEF RingInv, Settles
<1> PICK x : x = list[1]
  OBVIOUS
<1>1. RingOK /\ TypeOK
  BY DEF RingInv, BaseInv
<1>2. /\ list # <<>> /\ v \in {"COMPLETED", "FAILED"}
      /\ UNCHANGED <<pc, seg, tfer, desc_idx>> /\ list' = Tail(list)
  BY <1>0 DEF Settles
<1>3. PICK n \in Nat : /\ n + 1 = Len(list) /\ n = Len(list')
                       /\ \A k \in 1 .. n : list'[k] = list[k + 1]
  BY <1>2, Shorter
<1>4. /\ \A k \in 1 .. n : k + 1 \in 1 .. n + 1 /\ 1 < k + 1
      /\ 1 \in 1 .. n + 1
      /\ \A k \in 1 .. n + 1 : k # 1 => k - 1 \in 1 .. n /\ (k - 1) + 1 = k
  OBVIOUS
<1>5. x \in Xfers /\ T(x) \in Tfers /\ \A y \in Xfers : y # x => state'[y] = state[y]
  <2>1. x \in Xfers /\ T(x) \in Tfers
    BY <1>3, <1>4, ListedTfers
  <2> QED
    BY <1>0, <1>1, <2>1 DEF Settles, TypeOK
<1>6. state'[x] # "SUBMITTED"
  BY <1>0, <1>1, <1>2, <1>5 DEF Settles, TypeOK
<1>7. /\ \A u \in Tfers : u.num \in 1 .. Ring /\ Span(u) \in 1 .. Ring
      /\ \A u : Span(u)' = Span(u)
      /\ \A y : T(y)' = T(y) /\ Before(y)' = Before(y)
  <2>1. desc_idx \in 0 .. Ring - 1
    BY <1>1 DEF TypeOK
  <2>2. \A u \in Tfers : u.num \in 1 .. Ring /\ Span(u) \in 1 .. Ring
    BY <2>1 DEF Tfers, Span, Back
  <2> QED
    BY <1>2, <2>2 DEF Span, T, Before
<1>8. ASSUME NEW y, T(y) \in Tfers, T(y).num <= Span(T(y)),
             Span(T(y)) + T(x).num <= Span(T(x)), Intact(y)
      PROVE  Span(T(y)) <= desc_used' /\ Intact(y)'
  <2>1. PICK u : u = T(y)
    OBVIOUS
  <2>2. /\ Span(u) <= desc_used'
        /\ \A i \in 0 .. u.num - 1 : desc'[u.first + i] = desc[u.first + i]
    BY <1>1, <1>8, <2>1, CompletesKeeps
  <2> QED
    BY <1>7, <1>8, <2>1, <2>2 DEF Intact
\* The transfers that stay in the list.
<1>9. ASSUME NEW k \in 1 .. n
      PROVE  /\ list[k + 1] = list'[k] /\ T(list'[k]) \in Tfers
             /\ T(list'[k]).num <= Span(T(list'[k]))
             /\ Span(T(list'[k])) <= desc_used' /\ Intact(list[k])'
  <2>1. list[k + 1] = list'[k] /\ k + 1 \in 1 .. Len(list) /\ 1 \in 1 .. Len(list) /\ 1 < k + 1
    BY <1>3, <1>4
  <2>2. T(list[k + 1]) \in Tfers
    BY <2>1, ListedTfers
  <2>3. /\ T(list[k + 1]).num <= Span(T(list[k + 1])) /\ Intact(list[k + 1])
        /\ Span(T(list[k + 1])) + T(x).num <= Span(T(x))
    BY <1>1, <2>1 DEF RingOK, ListRing
  <2>4. PICK y : y = list[k + 1] /\ y = list'[k]
    BY <2>1
  <2>5. Span(T(y)) <= desc_used' /\ Intact(y)'
    BY <1>8, <2>2, <2>3, <2>4
  <2>6. Intact(list[k])'
    BY <2>4, <2>5
  <2> QED
    BY <2>1, <2>2, <2>3, <2>4, <2>5, <2>6
<1>10. ListRing'
  <2>1. \A k \in 1 .. n :
          /\ T(list[k])' = T(list'[k]) /\ Span(T(list[k]))' = Span(T(list'[k]))
    BY <1>2 DEF T, Span
  <2>2. ASSUME NEW m \in 1 .. n, NEW k \in 1 .. n, m < k
        PROVE  Span(T(list'[k])) + T(list'[m]).num <= Span(T(list'[m]))
    <3>1. m + 1 \in 1 .. Len(list) /\ k + 1 \in 1 .. Len(list) /\ m + 1 < k + 1
      BY <1>3, <1>4, <2>2
    <3>2. Span(T(list[k + 1])) + T(list[m + 1]).num <= Span(T(list[m + 1]))
      BY <1>1, <3>1 DEF RingOK, ListRing
    <3> QED
      BY <1>9, <3>2
  <2> QED
    BY <1>3, <1>9, <2>1, <2>2 DEF ListRing
<1>11. ASSUME NEW d \in Calls PROVE BuiltRing(d)'
  <2> SUFFICES ASSUME pc[d] = "queue" PROVE BuiltRing(d)'
    BY <1>2 DEF BuiltRing
  <2> PICK y : y = Built(d)
    OBVIOUS
  <2>1. tfer[d][seg[d]] # <<>>
    BY DEF BaseInv, CallOK, CutOK
  <2>2. T(y) \in Tfers
    BY <2>1, BuiltFacts
  <2>3. /\ Span(T(y)) = T(y).num /\ Intact(y)
        /\ \A k \in 1 .. Len(list) : T(y).num + T(list[k]).num <= Span(T(list[k]))
    BY <1>1 DEF RingOK, BuiltRing
  <2>4. T(y).num <= Span(T(y)) /\ Span(T(y)) + T(x).num <= Span(T(x))
    BY <1>3, <1>4, <1>7, <2>2, <2>3
  <2>5. T(y).num <= desc_used' /\ Intact(y)'
    BY <1>8, <2>2, <2>3, <2>4
  <2>6. \A k \in 1 .. n : T(y).num + T(list'[k]).num <= Span(T(list'[k]))
    BY <1>3, <1>4, <2>3
  <2>7. /\ Built(d)' = y /\ T(y)' = T(y) /\ Span(T(y))' = Span(T(y))
        /\ \A k \in 1 .. n : /\ T(list[k])' = T(list'[k])
                             /\ Span(T(list[k]))' = Span(T(list'[k]))
    BY <1>2 DEF Built, T, Span
  <2> QED
    BY <1>3, <2>3, <2>5, <2>6, <2>7 DEF BuiltRing
\* The first transfer of a request whose second is not settled stays counted.
<1>12. ASSUME NEW d \in Calls, NEW r \in 1 .. MaxSegs, NEW k \in 1 .. n + 1,
              list[k] = <<d, r, 1>>, ~tfer[d][r][1].last,
              Span(tfer[d][r][1]) <= desc_used
       PROVE  Span(tfer[d][r][1]) <= desc_used'
  <2>1. T(list[k]) = tfer[d][r][1]
    BY <1>12 DEF T
  <2>2. CASE k = 1
    <3>1. desc_used' = desc_used
      BY <1>1, <1>12, <2>1, <2>2, CompletesKeeps
    <3> QED
      BY <1>12, <3>1
  <2>3. CASE k # 1
    <3>1. k - 1 \in 1 .. n /\ (k - 1) + 1 = k
      BY <1>4, <2>3
    <3>2. PICK j : j = k - 1
      OBVIOUS
    <3>3. j \in 1 .. n /\ j + 1 = k
      BY <3>1, <3>2
    <3>4. list'[j] = list[k] /\ Span(T(list'[j])) <= desc_used'
      BY <1>3, <1>9, <3>3
    <3> QED
      BY <2>1, <3>4
  <2> QED
    BY <2>2, <2>3
<1>13. ASSUME NEW d \in Calls, NEW r \in 1 .. MaxSegs PROVE FirstRing(d, r)'
  <2>0. FirstRing(d, r) /\ SegOK(d, r) /\ CutOK(d)
    BY <1>1 DEF RingOK, BaseInv, CallOK
  <2>1. ASSUME HasFirst(d), seg[d] = r, ~tfer[d][r][1].last,
               Span(tfer[d][r][1]) <= desc_used
        PROVE  Span(tfer[d][r][1]) <= desc_used'
    <3>1. EndsWith(<<d, r, 1>>)
      BY <2>1 DEF CutInv
    <3>2. n + 1 \in 1 .. n + 1 /\ list[n + 1] = <<d, r, 1>>
      BY <1>2, <1>3, <3>1 DEF EndsWith
    <3> QED
      BY <1>12, <2>1, <3>2
  <2>2. ASSUME pc[d] = "init", seg[d] = r, tfer[d][r] # <<>>
        PROVE  /\ Span(tfer[d][r][1]) = tfer[d][r][1].num
               /\ tfer[d][r][1].num <= desc_used'
    <3>1. Span(tfer[d][r][1]) = tfer[d][r][1].num /\ tfer[d][r][1].num <= desc_used
      BY <2>0, <2>2 DEF FirstRing
    <3>2. ~tfer[d][r][1].last
      <4>1. \A k \in 1 .. Len(tfer[d][r]) : ~tfer[d][r][k].last
        BY <2>0, <2>2 DEF CutOK
      <4>2. Len(tfer[d][r]) = 1 \/ Len(tfer[d][r]) = 2
        BY <2>2, TferFacts
      <4>3. 1 \in 1 .. Len(tfer[d][r])
        BY <4>2, SMTT(30)
      <4> QED
        BY <4>1, <4>3
    <3>3. Span(tfer[d][r][1]) <= desc_used'
      BY <2>1, <2>2, <3>1, <3>2 DEF HasFirst
    <3> QED
      BY <3>1, <3>3
  <2>3. ASSUME Len(tfer[d][r]) = 2,
               state'[<<d, r, 2>>] = "SUBMITTED" \/ (pc[d] = "queue" /\ seg[d] = r)
        PROVE  /\ Span(tfer[d][r][1]) = Span(tfer[d][r][2]) + tfer[d][r][1].num
               /\ Span(tfer[d][r][1]) <= desc_used'
    <3>0. /\ ~tfer[d][r][1].last /\ <<d, r, 2>> \in Xfers
      <4>1. 1 \in 1 .. Len(tfer[d][r]) /\ 1 # 2
        BY <2>3
      <4>2. <<d, r, 2>> \in Xfers
        BY DEF Xfers
      <4> QED
        BY <2>0, <2>3, <4>1, <4>2 DEF SegOK
    <3>1. CASE pc[d] = "queue" /\ seg[d] = r
      <4>1. /\ Span(tfer[d][r][1]) = Span(tfer[d][r][2]) + tfer[d][r][1].num
            /\ Span(tfer[d][r][1]) <= desc_used
        BY <2>0, <2>3, <3>1 DEF FirstRing
      <4>2. HasFirst(d)
        BY <2>3, <3>1 DEF HasFirst
      <4> QED
        BY <2>1, <3>0, <3>1, <4>1, <4>2
    <3>2. CASE state'[<<d, r, 2>>] = "SUBMITTED"
      <4>1. <<d, r, 2>> # x /\ state[<<d, r, 2>>] = "SUBMITTED"
        BY <1>5, <1>6, <3>0, <3>2
      <4>2. /\ Span(tfer[d][r][1]) = Span(tfer[d][r][2]) + tfer[d][r][1].num
            /\ Span(tfer[d][r][1]) <= desc_used
        BY <2>0, <2>3, <4>1 DEF FirstRing
      <4>3. PICK k \in 1 .. n + 1 : list[k] = <<d, r, 2>>
        BY <1>3, <3>0, <4>1 DEF BaseInv, ListOK
      <4>4. k # 1
        BY <4>1, <4>3
      <4>5. k \in 2 .. n + 1 /\ k - 1 \in 1 .. n + 1
        BY <4>4
      <4>6. list[k - 1] = <<d, r, 1>>
        BY <1>3, <4>3, <4>5 DEF CutInv
      <4> QED
        BY <1>12, <3>0, <4>2, <4>5, <4>6
    <3> QED
      BY <2>3, <3>1, <3>2
  <2>4. /\ Span(tfer[d][r][1])' = Span(tfer[d][r][1])
        /\ Span(tfer[d][r][2])' = Span(tfer[d][r][2])
    BY <1>2 DEF Span
  <2> QED
    BY <1>2, <2>2, <2>3, <2>4 DEF FirstRing
<1>14. desc_used' \in 0 .. Ring
  BY <1>1, CompletesKeeps
<1> QED
  BY <1>10, <1>11, <1>13, <1>14 DEF RingOK

\* Every step keeps the memory.
LEMMA RingStep == BaseInv /\ CutInv /\ RingInv /\ [Next]_vars => RingInv'
<1> SUFFICES ASSUME BaseInv, CutInv, RingInv, [Next]_vars PROVE RingInv'
  OBVIOUS
<1>1. CASE UNCHANGED vars \/ HardwareMoves \/ EngineStalls
  <2>1. UNCHANGED <<pc, seg, tfer, desc, desc_idx, desc_used, list, state, overfull, crossed>>
    BY <1>1 DEF vars, HardwareMoves, EngineStalls, Engine!Finish, calls, ring
  <2> QED
    BY <2>1, RingFrame DEF RingInv
<1>2. ASSUME NEW c \in Calls, AioCall(c) PROVE RingInv'
  <2>1. /\ UNCHANGED <<seg, tfer, desc, desc_idx, desc_used, list, state, overfull, crossed>>
        /\ pc'[c] = "segment" /\ \A d \in Calls : d # c => pc'[d] = pc[d]
    BY <1>2 DEF AioCall, ring, contract, BaseInv, TypeOK
  <2> QED
    BY <2>1, RingFrame DEF RingInv
<1>3. ASSUME NEW c \in Calls, Quiet(c) PROVE RingInv'
  <2>1. PICK p, g, m : Moves(c, p, g, m)
    BY <1>3, QuietMoves
  <2>2. UNCHANGED <<tfer, desc, desc_idx, desc_used, overfull, crossed, list, state>>
    BY <1>3, QuietMoves
  <2>3. /\ pc'[c] = p /\ seg'[c] = g
        /\ \A d \in Calls : d # c => pc'[d] = pc[d] /\ seg'[d] = seg[d]
        /\ p \notin {"init", "queue"} \/ (p = "init" /\ tfer[c][g] = <<>>)
    BY <2>1 DEF Moves, BaseInv, TypeOK
  <2> QED
    BY <2>2, <2>3, RingFrame DEF RingInv
<1> QED
  BY <1>1, <1>2, <1>3, RingTakes, RingQueues, RingSettles, Steps

\* An intact transfer is one whose prefetch stays inside it and its block.
LEMMA IntactPrefetch ==
  ASSUME BaseInv, NEW n \in 1 .. Len(list), Intact(list[n]),
         NEW i \in 0 .. T(list[n]).num - 2
  PROVE  LET t == T(list[n])
             d == desc[t.first + i]
         IN  /\ d.next + d.adj < t.first + t.num
             /\ d.next \div Block = (d.next + d.adj) \div Block
<1> PICK x : x = list[n]
  OBVIOUS
<1> PICK t : t = T(x)
  OBVIOUS
<1>1. t \in Tfers
  BY ListedTfers
<1>2. t.first \in 0 .. Ring - 1 /\ t.num \in 1 .. Ring /\ t.first + t.num <= Ring
  BY <1>1 DEF Tfers
<1>3. i \in 0 .. t.num - 1 /\ i # t.num - 1
  BY <1>2
<1>4. desc[t.first + i] = Descriptor(t.first, t.num, i, DataOf(x, i, Before(x)))
  BY <1>3 DEF Intact
<1> PICK d : d = desc[t.first + i]
  OBVIOUS
<1>5. PICK f, m : f = t.first /\ m = t.num
  OBVIOUS
<1>6. /\ f \in Nat /\ m \in Nat /\ i \in Nat /\ i + 1 < m
      /\ f + i + 1 \in Nat /\ m - i - 1 \in Nat
  <2>1. i \in 0 .. m - 2 /\ f \in 0 .. Ring - 1 /\ m \in 1 .. Ring
    BY <1>2, <1>5
  <2> QED
    BY <2>1
<1>7. d = Descriptor(f, m, i, DataOf(x, i, Before(x)))
  BY <1>4, <1>5
<1>8. PICK a, j : a = d.next /\ j = d.adj
  OBVIOUS
<1>9. /\ a = f + i + 1 /\ a + j < f + m /\ (a % Block) + j < Block
      /\ a \in Nat /\ j \in Nat
  <2>1. /\ d.next = f + i + 1 /\ d.next + d.adj < f + m
        /\ (d.next % Block) + d.adj < Block
    BY <1>6, <1>7, PrefetchStays
  <2>2. d.adj = NextAdj(m - i - 1, f + i + 1)
    BY <1>3, <1>5, <1>7 DEF Descriptor
  <2>3. \A b, r \in Nat : NextAdj(r, b) \in Nat
    <3>1. ASSUME NEW b \in Nat, NEW r \in Nat PROVE NextAdj(r, b) \in Nat
      <4>1. b % Block \in 0 .. Block - 1
        BY Mods
      <4> QED
        BY <4>1 DEF NextAdj, Smaller
    <3> QED
      BY <3>1
  <2>4. d.adj \in Nat
    BY <1>6, <2>2, <2>3
  <2> QED
    BY <1>6, <1>8, <2>1, <2>4
<1>10. a \div Block = (a + j) \div Block
  BY <1>9, SameBlock
<1> QED
  BY <1>5, <1>8, <1>9, <1>10

IInv == BaseInv /\ CutInv /\ RingInv

\* The descriptor memory, whatever the calls, their segments and the faults: as
\* long as desc_used stays within the ring and no two requests are cut into
\* transfers at once, the descriptors of a queued transfer stay as
\* transfer_init() built them until async_io_handler() is done with it, and no
\* prefetch of the hardware leaves the transfer or its block.
THEOREM RingStaysIntact == Spec => []RingIntact
<1>1. Init => IInv
  BY BaseInit, CutInit, RingInit DEF IInv
<1>2. IInv /\ [Next]_vars => IInv'
  BY BaseStep, CutStep, RingStep DEF IInv
<1>3. IInv => RingIntact
  <2> SUFFICES ASSUME IInv, ~overfull, ~crossed, NEW n \in DOMAIN list
               PROVE  LET x == list[n]
                          t == tfer[x[1]][x[2]][x[3]]
                      IN  /\ \A i \in 0 .. t.num - 1 :
                               desc[t.first + i] =
                                 Descriptor(t.first, t.num, i, DataOf(x, i, Before(x)))
                          /\ \A i \in 0 .. t.num - 2 :
                               LET d == desc[t.first + i]
                               IN  /\ d.next + d.adj < t.first + t.num
                                   /\ d.next \div Block = (d.next + d.adj) \div Block
    BY ZenonT(30) DEF RingIntact
  <2>1. BaseInv /\ RingOK
    BY DEF IInv, RingInv
  <2>2. n \in 1 .. Len(list)
    BY <2>1, LenProperties DEF BaseInv, TypeOK
  <2>3. Intact(list[n])
    BY <2>1, <2>2 DEF RingOK, ListRing
  <2>4. \A i \in 0 .. T(list[n]).num - 2 :
          LET t == T(list[n])
              d == desc[t.first + i]
          IN  /\ d.next + d.adj < t.first + t.num
              /\ d.next \div Block = (d.next + d.adj) \div Block
    BY <2>1, <2>2, <2>3, IntactPrefetch
  <2> QED
    BY <2>3, <2>4, ZenonT(30) DEF Intact, T
<1> QED
  BY <1>1, <1>2, <1>3, PTL DEF Spec

-----------------------------------------------------------------------------
(***************************************************************************)
(* The soft descriptors of a request: as many bytes as its scatterlist, in *)
(* no more pieces than xdma_init_request() allocates for.                  *)
(***************************************************************************)

\* One turn of the inner loop of xdma_init_request(), f being the rest.
PieceOf(f, i) == IF i = 0 THEN <<>>
                 ELSE IF i > BlenMax THEN <<BlenMax>> \o f[i - BlenMax]
                 ELSE <<i>>

Cuts(f, n) == /\ f = [i \in 0 .. n |-> f[i]]
              /\ \A i \in 0 .. n : f[i] = PieceOf(f, i)

\* desc_blen_max is positive.
LEMMA BlenFacts == BlenMax \in Nat /\ BlenMax > 0
  BY ShapeAssumption

\* Up to any length there are the pieces.
LEMMA CutsExist ==
  ASSUME NEW n \in Nat
  PROVE  \E f : Cuts(f, n)
<1> DEFINE S == {m \in 0 .. n : \E f : Cuts(f, m)}
<1>1. 0 \in S
  <2> DEFINE g == [i \in 0 .. 0 |-> <<>>]
  <2>1. Cuts(g, 0)
    BY DEF Cuts, PieceOf
  <2> QED
    BY <2>1
<1>2. ASSUME NEW m \in 0 .. n, m + 1 \in 0 .. n, m \in S PROVE m + 1 \in S
  <2>1. PICK f : Cuts(f, m)
    BY <1>2
  <2>2. PICK p : p = PieceOf(f, m + 1)
    OBVIOUS
  <2> DEFINE g == [i \in 0 .. m + 1 |-> IF i = m + 1 THEN p ELSE f[i]]
  <2>3. g = [i \in 0 .. m + 1 |-> g[i]]
    OBVIOUS
  <2>4. ASSUME NEW i \in 0 .. m + 1 PROVE PieceOf(g, i) = PieceOf(f, i)
    <3>1. i > BlenMax => i - BlenMax \in 0 .. m /\ i - BlenMax # m + 1
      BY BlenFacts
    <3>2. i > BlenMax => g[i - BlenMax] = f[i - BlenMax]
      BY <3>1
    <3> HIDE DEF g
    <3> QED
      BY <3>2 DEF PieceOf
  <2>5. ASSUME NEW i \in 0 .. m + 1 PROVE g[i] = PieceOf(f, i)
    <3>1. CASE i = m + 1
      BY <2>2, <3>1
    <3>2. CASE i # m + 1
      <4>1. i \in 0 .. m
        BY <3>2
      <4> QED
        BY <2>1, <3>2, <4>1 DEF Cuts
    <3> QED
      BY <3>1, <3>2
  <2> HIDE DEF g
  <2>6. Cuts(g, m + 1)
    BY <2>3, <2>4, <2>5 DEF Cuts
  <2> QED
    BY <1>2, <2>6
<1>3. \A i \in 0 .. n : i \in S
  <2> HIDE DEF S
  <2> QED
    BY <1>1, <1>2, UpTo
<1>4. n \in S
  BY <1>3
<1> QED
  BY <1>4

\* They are always the same.
LEMMA CutsAgree ==
  ASSUME NEW n \in Nat, NEW m \in Nat, NEW f, NEW g, Cuts(f, n), Cuts(g, m),
         NEW i \in 0 .. n, i \in 0 .. m
  PROVE  f[i] = g[i]
<1> SUFFICES ASSUME f[i] # g[i] PROVE FALSE
  OBVIOUS
<1> DEFINE Bad == {j \in 0 .. n : j \in 0 .. m /\ f[j] # g[j]}
<1>1. Bad \in SUBSET Nat /\ Bad # {}
  OBVIOUS
<1>2. PICK b \in Bad : \A j \in Bad : b <= j
  BY <1>1, LeastNat
<1>3. b \in 0 .. n /\ b \in 0 .. m /\ f[b] # g[b]
  BY <1>2
<1>4. f[b] = PieceOf(f, b) /\ g[b] = PieceOf(g, b)
  BY <1>3 DEF Cuts
<1>5. b > BlenMax => b - BlenMax \in 0 .. n /\ b - BlenMax \in 0 .. m /\ ~(b <= b - BlenMax)
  BY <1>3, BlenFacts
<1>6. b > BlenMax => f[b - BlenMax] = g[b - BlenMax]
  BY <1>2, <1>5
<1>7. PieceOf(f, b) = PieceOf(g, b)
  BY <1>6 DEF PieceOf
<1> QED
  BY <1>3, <1>4, <1>7

\* So Pieces is what it says.
LEMMA PiecesAre ==
  ASSUME NEW len \in Nat
  PROVE  Pieces[len] = PieceOf(Pieces, len)
<1> DEFINE C(n) == CHOOSE f : Cuts(f, n)
           F == [n \in Nat |-> C(n)[n]]
           Rec(f) == f = [n \in Nat |-> IF n = 0 THEN <<>>
                                        ELSE IF n > BlenMax THEN <<BlenMax>> \o f[n - BlenMax]
                                        ELSE <<n>>]
<1>1. ASSUME NEW n \in Nat PROVE Cuts(C(n), n)
  BY CutsExist
<1> HIDE DEF C
<1>2. ASSUME NEW n \in Nat PROVE F[n] = PieceOf(F, n)
  <2>1. F[n] = PieceOf(C(n), n)
    <3>1. n \in 0 .. n
      OBVIOUS
    <3> QED
      BY <1>1, <3>1 DEF Cuts
  <2>2. n > BlenMax => n - BlenMax \in 0 .. n /\ n - BlenMax \in Nat
    BY BlenFacts
  <2>3. ASSUME n > BlenMax PROVE F[n - BlenMax] = C(n)[n - BlenMax]
    <3>1. PICK k \in Nat : k = n - BlenMax
      BY <2>2, <2>3
    <3>2. k \in 0 .. k /\ k \in 0 .. n
      BY <2>2, <2>3, <3>1
    <3>3. C(k)[k] = C(n)[k]
      BY <1>1, <3>2, CutsAgree
    <3> QED
      BY <3>1, <3>3
  <2> HIDE DEF F
  <2> QED
    BY <2>1, <2>3 DEF PieceOf
<1>3. Rec(F)
  <2>1. F = [n \in Nat |-> F[n]]
    OBVIOUS
  <2> HIDE DEF F
  <2> QED
    BY <1>2, <2>1, ZenonT(30) DEF PieceOf
<1> HIDE DEF F
<1>4. Pieces = CHOOSE f : Rec(f)
  BY DEF Pieces
<1>5. Rec(Pieces)
  BY <1>3, <1>4, ZenonT(30)
<1> QED
  BY <1>5 DEF PieceOf

\* Dividing one more desc_blen_max.
LEMMA DivStep ==
  ASSUME NEW B \in Nat, B > 0, NEW a \in Nat
  PROVE  (a + B) \div B = (a \div B) + 1 /\ a \div B \in Nat
<1>1. /\ a = B * (a \div B) + (a % B)
      /\ a \div B \in Nat /\ a % B \in 0 .. B - 1
  OBVIOUS
<1>2. /\ a + B = B * ((a + B) \div B) + ((a + B) % B)
      /\ (a + B) \div B \in Nat /\ (a + B) % B \in 0 .. B - 1
  OBVIOUS
<1> PICK q \in Nat : q = a \div B
  BY <1>1
<1> PICK p \in Nat : p = (a + B) \div B
  BY <1>2
<1> PICK r \in Nat : r = a % B
  BY <1>1
<1> PICK u \in Nat : u = (a + B) % B
  BY <1>2
<1>3. B * (q + 1) + r = B * p + u /\ u < B /\ r < B
  <2>1. a = B * q + r /\ a + B = B * p + u /\ u < B /\ r < B
    BY <1>1, <1>2
  <2>2. B * (q + 1) = B * q + B
    OBVIOUS
  <2> QED
    BY <2>1, <2>2
<1>4. CASE p < q + 1
  <2>1. B * ((q + 1) - p) = u - r
    BY <1>3
  <2>2. B * ((q + 1) - p) >= B
    BY <1>4
  <2> QED
    BY <1>3, <2>1, <2>2
<1>5. CASE q + 1 < p
  <2>1. B * (p - (q + 1)) = r - u
    BY <1>3
  <2>2. B * (p - (q + 1)) >= B
    BY <1>5
  <2> QED
    BY <1>3, <2>1, <2>2
<1> QED
  BY <1>4, <1>5

\* The pieces of a scatterlist entry: its bytes, and no more pieces than there
\* is room for.
LEMMA PiecesFacts ==
  ASSUME NEW len \in Nat
  PROVE  /\ Pieces[len] \in Seq(Nat)
         /\ SumSeq(Pieces[len]) = len
         /\ Len(Pieces[len]) <= (len + BlenMax - 1) \div BlenMax
         /\ len <= BlenMax => Len(Pieces[len]) <= 1
<1> DEFINE B == BlenMax
           Good(n) == /\ Pieces[n] \in Seq(Nat)
                      /\ SumSeq(Pieces[n]) = n
                      /\ Len(Pieces[n]) <= (n + B - 1) \div B
                      /\ n <= B => Len(Pieces[n]) <= 1
           Bad == {n \in Nat : ~Good(n)}
<1>0. B \in Nat /\ B > 0
  BY BlenFacts
<1>1. ASSUME NEW n \in Nat, \A k \in Nat : k < n => Good(k) PROVE Good(n)
  <2>1. Pieces[n] = PieceOf(Pieces, n)
    BY PiecesAre
  <2>2. CASE n = 0
    <3>1. Pieces[n] = <<>>
      BY <2>1, <2>2 DEF PieceOf
    <3>2. <<>> \in Seq(Nat) /\ Len(<<>>) = 0
      OBVIOUS
    <3>3. SumSeq(<<>>) = 0
      BY <3>2, SumSeqShort
    <3>4. (n + B - 1) \div B \in Nat /\ 0 <= (n + B - 1) \div B
      <4>1. n + B - 1 \in Nat
        BY <1>0
      <4> QED
        BY <1>0, <4>1, DivStep
    <3> QED
      BY <2>2, <3>1, <3>2, <3>3, <3>4
  <2>3. CASE n # 0 /\ n <= B
    <3>1. Pieces[n] = <<n>>
      BY <1>0, <2>1, <2>3 DEF PieceOf
    <3>2. <<n>> \in Seq(Nat) /\ Len(<<n>>) = 1 /\ <<n>>[1] = n
      OBVIOUS
    <3>3. SumSeq(<<n>>) = n
      BY <3>2, SumSeqShort
    <3>4. 1 <= (n + B - 1) \div B
      <4>1. n - 1 \in Nat /\ (n - 1) + B = n + B - 1
        BY <1>0, <2>3
      <4>2. ((n - 1) + B) \div B = ((n - 1) \div B) + 1 /\ (n - 1) \div B \in Nat
        BY <1>0, <4>1, DivStep
      <4>3. PICK a : a = (n - 1) \div B
        OBVIOUS
      <4>4. (n + B - 1) \div B = a + 1 /\ a \in Nat
        BY <4>1, <4>2, <4>3
      <4> QED
        BY <4>4
    <3> QED
      BY <3>1, <3>2, <3>3, <3>4
  <2>4. CASE n > B
    <3>0. PICK k \in Nat : k = n - B
      BY <1>0, <2>4
    <3> PICK p : p = Pieces[k]
      OBVIOUS
    <3>1. Pieces[n] = <<B>> \o p
      BY <1>0, <2>1, <2>4, <3>0 DEF PieceOf
    <3>2. p \in Seq(Nat) /\ SumSeq(p) = k /\ Len(p) <= (k + B - 1) \div B
      BY <1>0, <1>1, <2>4, <3>0
    <3>3. <<B>> \in Seq(Nat) /\ Len(<<B>>) = 1 /\ <<B>>[1] = B
      BY <1>0
    <3>4. SumSeq(<<B>>) = B
      BY <3>3, SumSeqShort
    <3>5. /\ <<B>> \o p \in Seq(Nat) /\ Len(<<B>> \o p) = 1 + Len(p)
      BY <3>2, <3>3, ConcatProperties
    <3>6. SumSeq(<<B>> \o p) = n
      <4>1. SumSeq(<<B>> \o p) = B + k
        BY <3>2, <3>3, <3>4, SumSeqConcat
      <4> QED
        BY <1>0, <3>0, <4>1
    <3>7. Len(<<B>> \o p) <= (n + B - 1) \div B
      <4>1. k + B - 1 \in Nat /\ (k + B - 1) + B = n + B - 1
        BY <1>0, <3>0
      <4>2. ((k + B - 1) + B) \div B = ((k + B - 1) \div B) + 1 /\ (k + B - 1) \div B \in Nat
        BY <1>0, <4>1, DivStep
      <4>3. PICK a, l : a = (k + B - 1) \div B /\ l = Len(p)
        OBVIOUS
      <4>4. (n + B - 1) \div B = a + 1 /\ a \in Nat
        BY <4>1, <4>2, <4>3
      <4>5. l \in Nat /\ l <= a
        BY <3>2, <4>3, LenProperties
      <4>6. 1 + l <= a + 1
        BY <4>4, <4>5
      <4> QED
        BY <3>5, <4>3, <4>4, <4>6
    <3> QED
      BY <1>0, <2>4, <3>1, <3>5, <3>6, <3>7
  <2> QED
    BY <1>0, <2>2, <2>3, <2>4
<1> HIDE DEF Good
<1>2. Bad = {}
  <2> SUFFICES ASSUME Bad # {} PROVE FALSE
    OBVIOUS
  <2>1. Bad \in SUBSET Nat
    OBVIOUS
  <2>2. PICK n \in Bad : \A k \in Bad : n <= k
    BY <2>1, LeastNat
  <2>3. n \in Nat /\ \A k \in Nat : k < n => Good(k)
    BY <2>2
  <2> QED
    BY <1>1, <2>2, <2>3
<1> QED
  BY <1>2 DEF Good

\* f puts the first n sequences of q one after the other.
Joins(f, q, n) == /\ f = [i \in 1 .. n |-> f[i]]
                  /\ \A i \in 1 .. n : f[i] = IF i = 1 THEN q[i] ELSE f[i - 1] \o q[i]

\* It can be done.
LEMMA JoinsExist ==
  ASSUME NEW n \in Nat, NEW q
  PROVE  \E f : Joins(f, q, n)
<1> DEFINE S == {m \in 0 .. n : \E f : Joins(f, q, m)}
<1>1. 0 \in S
  <2> DEFINE g == [i \in 1 .. 0 |-> <<>>]
  <2>1. Joins(g, q, 0)
    BY DEF Joins
  <2> QED
    BY <2>1
<1>2. ASSUME NEW m \in 0 .. n, m + 1 \in 0 .. n, m \in S PROVE m + 1 \in S
  <2>1. PICK f : Joins(f, q, m)
    BY <1>2
  <2>2. PICK p : p = IF m + 1 = 1 THEN q[m + 1] ELSE f[m] \o q[m + 1]
    OBVIOUS
  <2> DEFINE g == [i \in 1 .. m + 1 |-> IF i = m + 1 THEN p ELSE f[i]]
  <2>3. g = [i \in 1 .. m + 1 |-> g[i]]
    OBVIOUS
  <2>4. ASSUME NEW i \in 1 .. m + 1
        PROVE  g[i] = IF i = 1 THEN q[i] ELSE g[i - 1] \o q[i]
    <3>1. i # 1 => i - 1 \in 1 .. m + 1 /\ i - 1 # m + 1
      OBVIOUS
    <3>2. i # 1 => g[i - 1] = f[i - 1]
      BY <3>1
    <3>3. CASE i = m + 1
      <4>1. g[i] = p /\ i - 1 = m
        BY <3>3
      <4> HIDE DEF g
      <4> QED
        BY <2>2, <3>2, <3>3, <4>1
    <3>4. CASE i # m + 1
      <4>1. i \in 1 .. m /\ g[i] = f[i]
        BY <3>4
      <4> HIDE DEF g
      <4> QED
        BY <2>1, <3>2, <4>1 DEF Joins
    <3> QED
      BY <3>3, <3>4
  <2> HIDE DEF g
  <2>5. Joins(g, q, m + 1)
    BY <2>3, <2>4 DEF Joins
  <2> QED
    BY <1>2, <2>5
<1>3. \A i \in 0 .. n : i \in S
  <2> HIDE DEF S
  <2> QED
    BY <1>1, <1>2, UpTo
<1>4. n \in S
  BY <1>3
<1> QED
  BY <1>4

\* FlattenSeq does it.
LEMMA Flattens ==
  ASSUME NEW q, Len(q) \in Nat, Len(q) # 0
  PROVE  \E f : Joins(f, q, Len(q)) /\ FlattenSeq(q) = f[Len(q)]
<1> DEFINE Rec(f) == f = [i \in 1 .. Len(q) |-> IF i = 1 THEN q[i] ELSE f[i - 1] \o q[i]]
           flatten == CHOOSE f : Rec(f)
<1>1. PICK g : Joins(g, q, Len(q))
  BY JoinsExist
<1>2. Rec(g)
  BY <1>1, ZenonT(30) DEF Joins
<1>3. Rec(flatten)
  BY <1>2, ZenonT(30)
<1>4. FlattenSeq(q) = flatten[Len(q)]
  BY DEF FlattenSeq
<1> HIDE DEF flatten
<1>5. Joins(flatten, q, Len(q))
  BY <1>3 DEF Joins
<1> QED
  BY <1>4, <1>5

\* What xdma_init_request() allocates more for an entry that is too long.
More(l) == IF l > BlenMax THEN (l + BlenMax - 1) \div BlenMax ELSE 0

\* The soft descriptors of a request carry the bytes of its scatterlist, and
\* there is room for them.
LEMMA SoftDescsFacts ==
  ASSUME NEW lens \in Seq(Nat)
  PROVE  /\ SoftDescs(lens) \in Seq(Nat)
         /\ SumSeq(SoftDescs(lens)) = SumSeq(lens)
         /\ Len(SoftDescs(lens)) <= Allocated(lens)
<1> DEFINE q == [i \in DOMAIN lens |-> Pieces[lens[i]]]
           a == [i \in DOMAIN lens |-> More(lens[i])]
<1>1. PICK n \in Nat : n = Len(lens)
  BY LenProperties
<1>2. DOMAIN lens = 1 .. n /\ \A i \in 1 .. n : lens[i] \in Nat
  BY <1>1, LenProperties, ElementOfSeq
<1>3. ASSUME NEW i \in 1 .. n
      PROVE  /\ q[i] \in Seq(Nat) /\ SumSeq(q[i]) = lens[i]
             /\ Len(q[i]) <= 1 + a[i] /\ a[i] \in Nat
  <2>1. q[i] = Pieces[lens[i]] /\ a[i] = More(lens[i])
    BY <1>2
  <2>2. PICK l \in Nat : l = lens[i]
    BY <1>2
  <2>3. More(l) \in Nat
    <3>1. l + BlenMax - 1 \in Nat
      BY BlenFacts
    <3>2. (l + BlenMax - 1) \div BlenMax \in Nat
      BY <3>1, BlenFacts, DivStep
    <3> QED
      BY <3>2 DEF More
  <2>4. PICK k : k = Len(Pieces[l])
    OBVIOUS
  <2>5. k \in Nat /\ k <= 1 + More(l)
    <3>1. /\ Pieces[l] \in Seq(Nat) /\ k <= (l + BlenMax - 1) \div BlenMax
          /\ l <= BlenMax => k <= 1
      BY <2>4, PiecesFacts
    <3>2. k \in Nat
      BY <2>4, <3>1, LenProperties
    <3>3. CASE l <= BlenMax
      BY <2>3, <3>1, <3>2, <3>3
    <3>4. CASE l > BlenMax
      BY <2>3, <3>1, <3>2, <3>4 DEF More
    <3> QED
      BY <3>3, <3>4, BlenFacts
  <2>6. Pieces[l] \in Seq(Nat) /\ SumSeq(Pieces[l]) = l
    BY PiecesFacts
  <2> QED
    BY <2>1, <2>2, <2>3, <2>4, <2>5, <2>6
<1>4. /\ Len(q) = n /\ Len(a) = n /\ a \in Seq(Nat)
      /\ SoftDescs(lens) = FlattenSeq(q) /\ Allocated(lens) = n + SumSeq(a)
  <2>1. Len(q) = n /\ Len(a) = n
    BY <1>2
  <2>2. a \in Seq(Nat)
    <3>1. a = [i \in 1 .. n |-> a[i]]
      BY <1>2
    <3>2. \A i \in 1 .. n : a[i] \in Nat
      BY <1>3
    <3> HIDE DEF a
    <3>3. a \in [1 .. n -> Nat]
      BY <3>1, <3>2
    <3> QED
      BY <3>3, SeqDef
  <2> QED
    BY <1>1, <2>1, <2>2 DEF SoftDescs, Allocated, More
<1>5. PICK g : Adds(g, lens, n) /\ SumSeq(lens) = g[n]
  BY <1>1, SumSeqHas
<1>6. PICK h : Adds(h, a, n) /\ SumSeq(a) = h[n]
  BY <1>4, SumSeqHas
<1> HIDE DEF a
<1>7. CASE n = 0
  <2>1. FlattenSeq(q) = q
    BY <1>4, <1>7 DEF FlattenSeq
  <2>2. q = <<>>
    BY <1>2, <1>7
  <2>3. <<>> \in Seq(Nat) /\ Len(<<>>) = 0
    OBVIOUS
  <2>4. SumSeq(<<>>) = 0
    BY <2>3, SumSeqShort
  <2>5. SumSeq(lens) = 0 /\ SumSeq(a) \in Nat
    BY <1>1, <1>4, <1>7, SumSeqShort
  <2>6. SoftDescs(lens) = <<>>
    BY <1>4, <2>1, <2>2
  <2>7. PICK e : e = SumSeq(a)
    OBVIOUS
  <2>8. 0 <= n + e
    BY <1>7, <2>5, <2>7
  <2> QED
    BY <1>4, <2>3, <2>4, <2>5, <2>6, <2>7, <2>8
<1>8. CASE n # 0
  <2>1. PICK f : Joins(f, q, n) /\ FlattenSeq(q) = f[n]
    BY <1>4, <1>8, Flattens
  <2> HIDE DEF q
  <2> DEFINE S == {i \in 0 .. n : i = 0 \/ (/\ f[i] \in Seq(Nat) /\ SumSeq(f[i]) = g[i]
                                            /\ Len(f[i]) <= i + h[i])}
  <2>2. 0 \in S
    OBVIOUS
  <2>3. ASSUME NEW m \in 0 .. n, m + 1 \in 0 .. n, m \in S PROVE m + 1 \in S
    <3>1. m + 1 \in 1 .. n /\ (m + 1) - 1 = m
      BY <2>3
    <3>2. /\ g[m + 1] = g[m] + lens[m + 1] /\ h[m + 1] = h[m] + a[m + 1]
          /\ g[m] \in Nat /\ h[m] \in Nat
      BY <1>5, <1>6, <3>1 DEF Adds
    <3>3. PICK p : p = q[m + 1]
      OBVIOUS
    <3>4. PICK k : k = Len(p)
      OBVIOUS
    <3>5. /\ p \in Seq(Nat) /\ SumSeq(p) = lens[m + 1] /\ lens[m + 1] \in Nat
          /\ k \in Nat /\ k <= 1 + a[m + 1] /\ a[m + 1] \in Nat
      BY <1>2, <1>3, <3>1, <3>3, <3>4, LenProperties
    <3>6. CASE m = 0
      <4>1. f[m + 1] = p /\ g[m] = 0 /\ h[m] = 0
        <5>1. g[m] = 0 /\ h[m] = 0
          BY <1>5, <1>6, <3>6 DEF Adds
        <5>2. m + 1 = 1
          BY <3>6
        <5>3. f[m + 1] = q[m + 1]
          BY <2>1, <3>1, <5>2 DEF Joins
        <5> QED
          BY <3>3, <5>1, <5>3
      <4>2. k <= (m + 1) + h[m + 1] /\ g[m + 1] = lens[m + 1]
        BY <3>2, <3>5, <3>6, <4>1
      <4> QED
        BY <3>1, <3>4, <3>5, <4>1, <4>2
    <3>7. CASE m # 0
      <4> PICK r : r = f[m]
        OBVIOUS
      <4>1. r \in Seq(Nat) /\ SumSeq(r) = g[m] /\ Len(r) <= m + h[m]
        BY <2>3, <3>7
      <4>2. f[m + 1] = r \o p
        <5>1. m + 1 # 1
          BY <3>7
        <5> QED
          BY <2>1, <3>1, <3>3, <5>1 DEF Joins
      <4>3. r \o p \in Seq(Nat) /\ Len(r \o p) = Len(r) + Len(p)
        BY <3>5, <4>1, ConcatProperties
      <4>4. SumSeq(r \o p) = g[m + 1]
        BY <3>2, <3>5, <4>1, SumSeqConcat
      <4>5. PICK j : j = Len(r)
        OBVIOUS
      <4>6. j \in Nat /\ j <= m + h[m]
        BY <4>1, <4>5, LenProperties
      <4>7. j + k <= (m + 1) + h[m + 1]
        BY <3>2, <3>5, <4>6, SMTT(30)
      <4>8. Len(r \o p) <= (m + 1) + h[m + 1]
        BY <3>4, <4>3, <4>5, <4>7
      <4>9. PICK o : o = f[m + 1]
        OBVIOUS
      <4>10. o \in Seq(Nat) /\ SumSeq(o) = g[m + 1] /\ Len(o) <= (m + 1) + h[m + 1]
        BY <4>2, <4>3, <4>4, <4>8, <4>9, Zenon
      <4> QED
        BY <2>3, <4>9, <4>10
    <3> QED
      BY <3>6, <3>7
  <2>4. \A i \in 0 .. n : i \in S
    <3> HIDE DEF S
    <3> QED
      BY <2>2, <2>3, UpTo
  <2>5. n \in S
    BY <2>4
  <2>6. f[n] \in Seq(Nat) /\ SumSeq(f[n]) = g[n] /\ Len(f[n]) <= n + h[n]
    BY <1>8, <2>5
  <2> QED
    BY <1>4, <1>5, <1>6, <2>1, <2>6
<1> QED
  BY <1>7, <1>8

-----------------------------------------------------------------------------
(***************************************************************************)
(* What async_io_handler() credits to a call.                              *)
(***************************************************************************)

Splits(ds, a, e, m) ==
  SumSeq(SubSeq(ds, 1, m)) = SumSeq(SubSeq(ds, 1, a)) + SumSeq(SubSeq(ds, e, m))

\* The bytes of soft descriptors that lie together.
LEMMA SumPrefix ==
  ASSUME NEW ds \in Seq(Nat), NEW a \in Nat, NEW e, e = a + 1,
         NEW m \in Nat, a <= m, NEW n \in Nat, n = Len(ds), m <= n
  PROVE  /\ SumSeq(SubSeq(ds, 1, 0)) = 0
         /\ SumSeq(SubSeq(ds, 1, a)) \in Nat
         /\ SumSeq(SubSeq(ds, e, m)) \in Nat
         /\ Splits(ds, a, e, m)
         /\ m = n => SumSeq(SubSeq(ds, 1, m)) = SumSeq(ds)
<1>0. n = Len(ds)
  OBVIOUS
<1> PICK b \in Nat : m = a + b
  <2>1. m - a \in Nat /\ m = a + (m - a)
    OBVIOUS
  <2> QED
    BY <2>1
<1>1. \A i \in 1 .. n : ds[i] \in Nat
  BY <1>0, LenProperties, ElementOfSeq
<1>2. a <= n /\ a + b <= n /\ a + b \in Nat
  BY <1>0
<1> DEFINE p == SubSeq(ds, 1, a)
           q == SubSeq(ds, a + 1, a + b)
           w == SubSeq(ds, 1, a + b)
<1>3. p = [i \in 1 .. a |-> ds[i]] /\ w = [i \in 1 .. a + b |-> ds[i]]
  <2>1. \A k \in Nat : SubSeq(ds, 1, k) = [i \in 1 .. k |-> ds[i]]
    OBVIOUS
  <2> QED
    BY <1>2, <2>1
<1>4. q = [i \in 1 .. b |-> ds[a + i]]
  <2>1. q = [i \in 1 .. ((a + b) - (a + 1) + 1) |-> ds[i + (a + 1) - 1]]
    OBVIOUS
  <2>2. (a + b) - (a + 1) + 1 = b
    OBVIOUS
  <2>3. \A i \in 1 .. b : i + (a + 1) - 1 = a + i
    OBVIOUS
  <2> QED
    BY <2>1, <2>2, <2>3
<1> HIDE DEF p, q, w
<1>5. p \in Seq(Nat) /\ Len(p) = a
  <2>1. p \in [1 .. a -> Nat]
    BY <1>1, <1>2, <1>3
  <2> QED
    BY <1>3, <2>1, SeqDef
<1>6. q \in Seq(Nat) /\ Len(q) = b
  <2>0. \A i \in 1 .. b : a + i \in 1 .. n
    BY <1>2
  <2>1. q \in [1 .. b -> Nat]
    BY <1>1, <1>4, <2>0
  <2> QED
    BY <1>4, <2>1, SeqDef
<1>7. w \in Seq(Nat) /\ Len(w) = a + b
  <2>0. \A i \in 1 .. a + b : i \in 1 .. n
    BY <1>2
  <2>1. w \in [1 .. a + b -> Nat]
    BY <1>1, <1>3, <2>0
  <2> QED
    BY <1>2, <1>3, <2>1, SeqDef
<1>8. w = p \o q
  <2>1. /\ p \o q \in Seq(Nat) /\ Len(p \o q) = a + b
        /\ \A i \in 1 .. a + b : (p \o q)[i] = IF i <= a THEN p[i] ELSE q[i - a]
    BY <1>5, <1>6, ConcatProperties, ZenonT(30)
  <2>2. ASSUME NEW i \in 1 .. a + b PROVE w[i] = (p \o q)[i]
    <3>1. CASE i <= a
      <4>1. i \in 1 .. a
        BY <3>1
      <4> QED
        BY <1>3, <2>1, <3>1, <4>1
    <3>2. CASE ~(i <= a)
      <4>1. i - a \in 1 .. b /\ a + (i - a) = i
        BY <3>2
      <4>2. q[i - a] = ds[i]
        BY <1>4, <4>1
      <4> QED
        BY <1>3, <2>1, <3>2, <4>2
    <3> QED
      BY <3>1, <3>2
  <2>3. PICK z : z = p \o q
    OBVIOUS
  <2>4. z \in Seq(Nat) /\ Len(z) = Len(w) /\ \A i \in 1 .. Len(w) : w[i] = z[i]
    BY <1>7, <2>1, <2>2, <2>3
  <2>5. w = z
    BY <1>7, <2>4, SeqEqual
  <2> QED
    BY <2>3, <2>5
<1>9. SumSeq(w) = SumSeq(p) + SumSeq(q) /\ SumSeq(p) \in Nat /\ SumSeq(q) \in Nat
  BY <1>5, <1>6, <1>8, SumSeqConcat, SumSeqShort
<1>10. a + b = n => w = ds
  <2> SUFFICES ASSUME a + b = n PROVE w = ds
    OBVIOUS
  <2>1. \A i \in 1 .. Len(w) : w[i] = ds[i]
    BY <1>3, <1>7
  <2> QED
    BY <1>0, <1>7, <2>1, SeqEqual
<1>11. SumSeq(SubSeq(ds, 1, 0)) = 0
  <2>1. SubSeq(ds, 1, 0) = <<>>
    OBVIOUS
  <2>2. <<>> \in Seq(Nat) /\ Len(<<>>) = 0
    OBVIOUS
  <2> QED
    BY <2>1, <2>2, SumSeqShort
<1>12. /\ p = SubSeq(ds, 1, a) /\ q = SubSeq(ds, e, m) /\ w = SubSeq(ds, 1, m)
       /\ (m = n => a + b = n)
  BY <1>0 DEF p, q, w
<1> QED
  BY <1>9, <1>10, <1>11, <1>12, Zenon DEF Splits

\* The bytes of the transfers up to the first that did not complete.
Paid(ts, ds, st) ==
  SumSeq([k \in DOMAIN ts |->
            IF \A j \in 1 .. k : st[j] = "COMPLETED"
            THEN SumSeq(SubSeq(ds, (IF k = 1 THEN 0 ELSE ts[1].num) + 1,
                                   (IF k = 1 THEN 0 ELSE ts[1].num) + ts[k].num))
            ELSE 0])

\* The descriptors of those transfers.
Through(ts, st) ==
  SumSeq([k \in DOMAIN ts |->
            IF \A j \in 1 .. k : st[j] = "COMPLETED" THEN ts[k].num ELSE 0])

\* They are exactly the bytes of the descriptors the handler counts, and all
\* bytes of the request when all transfers completed.
LEMMA PaidFacts ==
  ASSUME NEW ts \in Seq(Tfers), Len(ts) = 1 \/ Len(ts) = 2,
         NEW ds \in Seq(Nat), Taken(ts) <= Len(ds), NEW st
  PROVE  /\ Paid(ts, ds, st) \in Nat
         /\ SumSeq(SubSeq(ds, 1, Through(ts, st))) = Paid(ts, ds, st)
         /\ (\A k \in 1 .. Len(ts) : st[k] = "COMPLETED") /\ Taken(ts) = Len(ds) =>
              Paid(ts, ds, st) = SumSeq(ds)
<1> DEFINE u == [k \in DOMAIN ts |->
                   IF \A j \in 1 .. k : st[j] = "COMPLETED" THEN ts[k].num ELSE 0]
           w == [k \in DOMAIN ts |->
                   IF \A j \in 1 .. k : st[j] = "COMPLETED"
                   THEN SumSeq(SubSeq(ds, (IF k = 1 THEN 0 ELSE ts[1].num) + 1,
                                          (IF k = 1 THEN 0 ELSE ts[1].num) + ts[k].num))
                   ELSE 0]
           C == \A k \in 1 .. Len(ts) : st[k] = "COMPLETED"
<1>0. /\ DOMAIN ts = 1 .. Len(ts) /\ \A k \in 1 .. Len(ts) : ts[k] \in Tfers
      /\ \A t \in Tfers : t.num \in Nat
  <2>1. \A t \in Tfers : t.num \in Nat
    BY DEF Tfers
  <2> QED
    BY <2>1, LenProperties, ElementOfSeq
<1>1. PICK n \in Nat : n = Len(ds)
  BY LenProperties
<1>2. SumSeq(SubSeq(ds, 1, 0)) = 0
  <2>1. 0 <= n /\ 0 <= 0 /\ 1 = 0 + 1
    BY <1>1
  <2> QED
    BY <1>1, <2>1, SumPrefix
<1>3. CASE Len(ts) = 1
  <2>1. PICK a \in Nat : a = ts[1].num
    <3>1. 1 \in 1 .. Len(ts)
      BY <1>3
    <3> QED
      BY <1>0, <3>1
  <2>2. Taken(ts) = a /\ a <= n
    BY <1>1, <1>3, <2>1 DEF Taken
  <2>3. /\ SumSeq(SubSeq(ds, 1, a)) \in Nat
        /\ a = n => SumSeq(SubSeq(ds, 1, a)) = SumSeq(ds)
    <3>1. PICK f : f = a + 1
      OBVIOUS
    <3>2. a <= n /\ a <= a
      BY <2>2
    <3> QED
      BY <1>1, <3>1, <3>2, SumPrefix
  <2>4. PICK z : z = SumSeq(SubSeq(ds, 1, a))
    OBVIOUS
  <2> DEFINE b == st[1] = "COMPLETED"
  <2>6. (\A j \in 1 .. 1 : st[j] = "COMPLETED") <=> b
    OBVIOUS
  <2>7. u = [k \in 1 .. 1 |-> IF b THEN a ELSE 0]
    <3>1. ASSUME NEW k \in 1 .. 1
          PROVE  (IF \A j \in 1 .. k : st[j] = "COMPLETED" THEN ts[k].num ELSE 0)
                   = IF b THEN a ELSE 0
      <4>1. k = 1
        OBVIOUS
      <4> QED
        BY <2>1, <2>6, <4>1
    <3> QED
      BY <1>0, <1>3, <3>1
  <2>8. w = [k \in 1 .. 1 |-> IF b THEN z ELSE 0]
    <3>1. ASSUME NEW k \in 1 .. 1
          PROVE  (IF \A j \in 1 .. k : st[j] = "COMPLETED"
                  THEN SumSeq(SubSeq(ds, (IF k = 1 THEN 0 ELSE ts[1].num) + 1,
                                          (IF k = 1 THEN 0 ELSE ts[1].num) + ts[k].num))
                  ELSE 0) = IF b THEN z ELSE 0
      <4>1. k = 1
        OBVIOUS
      <4>2. 0 + 1 = 1 /\ 0 + a = a
        OBVIOUS
      <4> QED
        BY <2>1, <2>4, <2>6, <4>1, <4>2
    <3> QED
      BY <1>0, <1>3, <3>1
  <2>9. /\ u \in Seq(Nat) /\ Len(u) = 1 /\ u[1] = IF b THEN a ELSE 0
        /\ w \in Seq(Nat) /\ Len(w) = 1 /\ w[1] = IF b THEN z ELSE 0
    <3> HIDE DEF u, w
    <3> QED
      BY <2>3, <2>4, <2>7, <2>8
  <2>10. SumSeq(u) = (IF b THEN a ELSE 0) /\ SumSeq(w) = (IF b THEN z ELSE 0)
    <3> HIDE DEF u, w
    <3> QED
      BY <2>9, SumSeqShort
  <2>11. Through(ts, st) = SumSeq(u) /\ Paid(ts, ds, st) = SumSeq(w)
    BY DEF Through, Paid
  <2>12. C => b
    BY <1>3
  <2> HIDE DEF u, w, C
  <2>13. SumSeq(w) \in Nat
    BY <2>3, <2>4, <2>10
  <2>14. SumSeq(SubSeq(ds, 1, SumSeq(u))) = SumSeq(w)
    BY <1>2, <2>4, <2>10
  <2>15. C /\ Taken(ts) = Len(ds) => SumSeq(w) = SumSeq(ds)
    BY <1>1, <2>2, <2>3, <2>4, <2>10, <2>12
  <2> QED
    BY <2>11, <2>13, <2>14, <2>15 DEF C
<1>4. CASE Len(ts) = 2
  <2>1. PICK a \in Nat, e \in Nat : a = ts[1].num /\ e = ts[2].num
    <3>1. 1 \in 1 .. Len(ts) /\ 2 \in 1 .. Len(ts)
      BY <1>4
    <3> QED
      BY <1>0, <3>1
  <2>2. Taken(ts) = a + e /\ a + e <= n
    BY <1>1, <1>4, <2>1 DEF Taken
  <2>3. /\ SumSeq(SubSeq(ds, 1, a)) \in Nat
        /\ SumSeq(SubSeq(ds, a + 1, a + e)) \in Nat
        /\ SumSeq(SubSeq(ds, 1, a + e)) =
             SumSeq(SubSeq(ds, 1, a)) + SumSeq(SubSeq(ds, a + 1, a + e))
        /\ a + e = n => SumSeq(SubSeq(ds, 1, a + e)) = SumSeq(ds)
    <3>1. PICK f, m : f = a + 1 /\ m = a + e
      OBVIOUS
    <3>2. m \in Nat /\ a <= m /\ m <= n
      BY <2>2, <3>1
    <3>3. /\ SumSeq(SubSeq(ds, 1, a)) \in Nat
          /\ SumSeq(SubSeq(ds, f, m)) \in Nat
          /\ Splits(ds, a, f, m)
          /\ m = n => SumSeq(SubSeq(ds, 1, m)) = SumSeq(ds)
      <4>1. ds \in Seq(Nat) /\ a \in Nat /\ f = a + 1 /\ m \in Nat /\ a <= m
        BY <3>1, <3>2
      <4>2. n \in Nat /\ n = Len(ds) /\ m <= n
        BY <1>1, <3>2
      <4>3. SumSeq(SubSeq(ds, 1, a)) \in Nat
        BY <4>1, <4>2, SumPrefix
      <4>4. SumSeq(SubSeq(ds, f, m)) \in Nat
        BY <4>1, <4>2, SumPrefix
      <4>5. Splits(ds, a, f, m)
        BY <4>1, <4>2, SumPrefix
      <4>6. m = n => SumSeq(SubSeq(ds, 1, m)) = SumSeq(ds)
        BY <4>1, <4>2, SumPrefix
      <4> QED
        BY <4>3, <4>4, <4>5, <4>6
    <3> QED
      BY <1>1, <3>1, <3>3 DEF Splits
  <2>4. PICK z, y : z = SumSeq(SubSeq(ds, 1, a)) /\ y = SumSeq(SubSeq(ds, a + 1, a + e))
    OBVIOUS
  <2> DEFINE b == st[1] = "COMPLETED"
             c == st[1] = "COMPLETED" /\ st[2] = "COMPLETED"
  <2>6. /\ (\A j \in 1 .. 1 : st[j] = "COMPLETED") <=> b
        /\ (\A j \in 1 .. 2 : st[j] = "COMPLETED") <=> c
    <3>1. \A j \in 1 .. 2 : j = 1 \/ j = 2
      OBVIOUS
    <3> QED
      BY <3>1
  <2>7. u = [k \in 1 .. 2 |-> IF k = 1 THEN IF b THEN a ELSE 0 ELSE IF c THEN e ELSE 0]
    <3>1. ASSUME NEW k \in 1 .. 2
          PROVE  (IF \A j \in 1 .. k : st[j] = "COMPLETED" THEN ts[k].num ELSE 0)
                   = IF k = 1 THEN IF b THEN a ELSE 0 ELSE IF c THEN e ELSE 0
      <4>1. CASE k = 1
        BY <2>1, <2>6, <4>1
      <4>2. CASE k = 2
        BY <2>1, <2>6, <4>2
      <4> QED
        BY <4>1, <4>2
    <3> QED
      BY <1>0, <1>4, <3>1
  <2>8. w = [k \in 1 .. 2 |-> IF k = 1 THEN IF b THEN z ELSE 0 ELSE IF c THEN y ELSE 0]
    <3>1. ASSUME NEW k \in 1 .. 2
          PROVE  (IF \A j \in 1 .. k : st[j] = "COMPLETED"
                  THEN SumSeq(SubSeq(ds, (IF k = 1 THEN 0 ELSE ts[1].num) + 1,
                                          (IF k = 1 THEN 0 ELSE ts[1].num) + ts[k].num))
                  ELSE 0) = IF k = 1 THEN IF b THEN z ELSE 0 ELSE IF c THEN y ELSE 0
      <4>1. CASE k = 1
        <5>1. 0 + 1 = 1 /\ 0 + a = a
          OBVIOUS
        <5> QED
          BY <2>1, <2>4, <2>6, <4>1, <5>1
      <4>2. CASE k = 2
        <5>1. k # 1
          BY <4>2
        <5> QED
          BY <2>1, <2>4, <2>6, <4>2, <5>1
      <4> QED
        BY <4>1, <4>2
    <3> QED
      BY <1>0, <1>4, <3>1
  <2>9. /\ u \in Seq(Nat) /\ Len(u) = 2
        /\ u[1] = (IF b THEN a ELSE 0) /\ u[2] = (IF c THEN e ELSE 0)
        /\ w \in Seq(Nat) /\ Len(w) = 2
        /\ w[1] = (IF b THEN z ELSE 0) /\ w[2] = (IF c THEN y ELSE 0)
    <3> HIDE DEF u, w
    <3> QED
      BY <2>3, <2>4, <2>7, <2>8
  <2>10. /\ SumSeq(u) = (IF b THEN a ELSE 0) + (IF c THEN e ELSE 0)
         /\ SumSeq(w) = (IF b THEN z ELSE 0) + (IF c THEN y ELSE 0)
    <3> HIDE DEF u, w
    <3> QED
      BY <2>9, SumSeqShort
  <2>11. Through(ts, st) = SumSeq(u) /\ Paid(ts, ds, st) = SumSeq(w)
    BY DEF Through, Paid
  <2>12. (C => c) /\ (c => b)
    BY <1>4
  <2> HIDE DEF u, w, C, b, c
  <2>13. z \in Nat /\ y \in Nat
    BY <2>3, <2>4
  <2>14. \/ b /\ c /\ SumSeq(u) = a + e /\ SumSeq(w) = z + y
         \/ b /\ ~c /\ SumSeq(u) = a /\ SumSeq(w) = z
         \/ ~b /\ ~c /\ SumSeq(u) = 0 /\ SumSeq(w) = 0
    BY <2>10, <2>12, <2>13
  <2>15. SumSeq(w) \in Nat
    BY <2>13, <2>14
  <2>16. SumSeq(SubSeq(ds, 1, SumSeq(u))) = SumSeq(w)
    BY <1>2, <2>3, <2>4, <2>14
  <2>17. C /\ Taken(ts) = Len(ds) => SumSeq(w) = SumSeq(ds)
    BY <1>1, <2>2, <2>3, <2>4, <2>12, <2>14
  <2> QED
    BY <2>11, <2>15, <2>16, <2>17 DEF C
<1> QED
  BY <1>3, <1>4

\* The verdicts on the transfers of a request.
St(c, s) == [k \in 1 .. 2 |-> state[<<c, s, k>>]]

\* What counts as moved is paid.
LEMMA MovedIs ==
  ASSUME BaseInv, NEW c \in Calls, NEW s \in 1 .. MaxSegs
  PROVE  Moved(c, s) = Paid(tfer[c][s], Descs(c, s), St(c, s))
<1> PICK ts, ds : ts = tfer[c][s] /\ ds = Descs(c, s)
  OBVIOUS
<1>1. DOMAIN ts = 1 .. Len(ts) /\ (Len(ts) = 0 \/ Len(ts) = 1 \/ Len(ts) = 2)
  BY TferFacts, LenProperties
<1>2. \A k \in DOMAIN ts : k \in 1 .. 2 /\ \A j \in 1 .. k : j \in 1 .. 2
  <2>1. PICK n : n = Len(ts)
    OBVIOUS
  <2>2. DOMAIN ts = 1 .. n /\ (n = 0 \/ n = 1 \/ n = 2)
    BY <1>1, <2>1
  <2>3. \A k \in 1 .. n : k \in 1 .. 2 /\ \A j \in 1 .. k : j \in 1 .. 2
    BY <2>2
  <2> QED
    BY <2>2, <2>3
<1>3. \A k \in DOMAIN ts :
        /\ (\A j \in 1 .. k : state[<<c, s, j>>] = "COMPLETED") <=>
           (\A j \in 1 .. k : St(c, s)[j] = "COMPLETED")
        /\ Before(<<c, s, k>>) = IF k = 1 THEN 0 ELSE ts[1].num
  BY <1>2 DEF St, Before
<1> QED
  BY <1>3, Zenon DEF Moved, Paid

\* The same after a step that leaves the request alone.
LEMMA MovedNext ==
  ASSUME BaseInv, NEW c \in Calls, NEW s \in 1 .. MaxSegs,
         tfer'[c][s] = tfer[c][s], shape'[c] = shape[c]
  PROVE  Moved(c, s)' = Paid(tfer[c][s], Descs(c, s), St(c, s)')
<1> PICK ts, ds : ts = tfer[c][s] /\ ds = Descs(c, s)
  OBVIOUS
<1>1. DOMAIN ts = 1 .. Len(ts) /\ (Len(ts) = 0 \/ Len(ts) = 1 \/ Len(ts) = 2)
  BY TferFacts, LenProperties
<1>2. \A k \in DOMAIN ts : k \in 1 .. 2 /\ \A j \in 1 .. k : j \in 1 .. 2
  <2>1. PICK n : n = Len(ts)
    OBVIOUS
  <2>2. DOMAIN ts = 1 .. n /\ (n = 0 \/ n = 1 \/ n = 2)
    BY <1>1, <2>1
  <2>3. \A k \in 1 .. n : k \in 1 .. 2 /\ \A j \in 1 .. k : j \in 1 .. 2
    BY <2>2
  <2> QED
    BY <2>2, <2>3
<1>3. \A k \in DOMAIN ts :
        /\ (\A j \in 1 .. k : state'[<<c, s, j>>] = "COMPLETED") <=>
           (\A j \in 1 .. k : St(c, s)'[j] = "COMPLETED")
        /\ Before(<<c, s, k>>)' = IF k = 1 THEN 0 ELSE ts[1].num
  BY <1>2 DEF St, Before
<1>4. Descs(c, s)' = ds
  BY DEF Descs
<1>5. tfer'[c][s] = ts
  OBVIOUS
<1>6. Moved(c, s)' =
        SumSeq([k \in DOMAIN ts |->
                  IF \A j \in 1 .. k : state'[<<c, s, j>>] = "COMPLETED"
                  THEN SumSeq(SubSeq(ds, Before(<<c, s, k>>)' + 1,
                                         Before(<<c, s, k>>)' + ts[k].num))
                  ELSE 0])
  BY <1>4, <1>5 DEF Moved
<1> QED
  BY <1>3, <1>6, Zenon DEF Paid

\* The handler has run for segment s of call c.
Final(c, s) == tfer[c][s] # <<>> /\ tfer[c][s][Len(tfer[c][s])].last
Handled(c, s) == Final(c, s) /\ Settled(<<c, s, Len(tfer[c][s])>>)

One(b) == IF b THEN 1 ELSE 0
Count(c) == One(Handled(c, 1)) + One(Handled(c, 2))
Credit(c, s) == IF Handled(c, s) THEN Moved(c, s) ELSE 0

\* A segment that has a transfer is one of the call.
LEMMA SegIn ==
  ASSUME BaseInv, NEW c \in Calls, NEW s \in 1 .. MaxSegs, tfer[c][s] # <<>>
  PROVE  /\ pc[c] # "idle" /\ shape[c] \in Shapes
         /\ s \in 1 .. Len(shape[c]) /\ s <= seg[c]
<1>1. Placed(c) /\ seg[c] \in 1 .. MaxSegs
  BY DEF BaseInv, CallOK, TypeOK
<1>2. ~(s > seg[c])
  BY <1>1 DEF Placed
<1>3. s <= seg[c]
  BY <1>1, <1>2 DEF MaxSegs
<1>4. pc[c] # "idle"
  <2> SUFFICES ASSUME pc[c] = "idle" PROVE FALSE
    OBVIOUS
  <2>1. seg[c] = 1 /\ tfer[c][1] = <<>>
    BY <1>1 DEF Placed
  <2>2. s = 1
    BY <1>3, <2>1 DEF MaxSegs
  <2> QED
    BY <2>1, <2>2
<1>5. shape[c] \in Shapes /\ seg[c] <= Len(shape[c])
  BY <1>1, <1>4 DEF Placed
<1>6. PICK n : n = Len(shape[c])
  OBVIOUS
<1>7. n = 1 \/ n = 2
  BY <1>5, <1>6, ShapeFacts
<1>8. s \in 1 .. n
  BY <1>1, <1>3, <1>5, <1>6, <1>7 DEF MaxSegs
<1> QED
  BY <1>3, <1>4, <1>5, <1>6, <1>8

\* The handler runs at most once for each segment of the call.
LEMMA CountFacts ==
  ASSUME BaseInv, NEW c \in Calls, pc[c] # "idle"
  PROVE  /\ shape[c] \in Shapes
         /\ Len(shape[c]) = 1 => ~Handled(c, 2)
         /\ Count(c) \in Nat /\ Count(c) <= Len(shape[c])
         /\ Count(c) = Len(shape[c]) =>
              \A s \in 1 .. Len(shape[c]) : Handled(c, s)
<1>1. shape[c] \in Shapes
  BY DEF BaseInv, CallOK, Placed
<1>2. PICK n : n = Len(shape[c])
  OBVIOUS
<1>3. n = 1 \/ n = 2
  BY <1>1, <1>2, ShapeFacts
<1>4. n = 1 => ~Handled(c, 2)
  <2> SUFFICES ASSUME n = 1, Handled(c, 2) PROVE FALSE
    OBVIOUS
  <2>1. tfer[c][2] # <<>> /\ 2 \in 1 .. MaxSegs
    BY DEF Handled, Final, MaxSegs
  <2>2. 2 \in 1 .. n
    BY <1>2, <2>1, SegIn
  <2> QED
    BY <2>2
<1>5. Count(c) \in Nat /\ Count(c) <= n
  BY <1>3, <1>4 DEF Count, One
<1>6. ASSUME Count(c) = n, NEW s \in 1 .. n PROVE Handled(c, s)
  <2>1. s = 1 \/ (n = 2 /\ s = 2)
    BY <1>3
  <2>2. CASE n = 1
    BY <1>4, <1>6, <2>1, <2>2 DEF Count, One
  <2>3. CASE n = 2
    BY <1>6, <2>1, <2>3 DEF Count, One
  <2> QED
    BY <1>3, <2>2, <2>3
<1> QED
  BY <1>1, <1>2, <1>4, <1>5, <1>6

\* The handler is not run twice, and what it found stays.
Same(c, s) == /\ Handled(c, s)' <=> Handled(c, s)
              /\ Credit(c, s)' = Credit(c, s)

\* A step that leaves the transfers of a segment alone.
LEMMA SameFrame ==
  ASSUME BaseInv, NEW c \in Calls, NEW s \in 1 .. MaxSegs,
         tfer'[c][s] = tfer[c][s],
         tfer[c][s] # <<>> => shape'[c] = shape[c],
         \A k \in 1 .. 2 : state'[<<c, s, k>>] = state[<<c, s, k>>]
  PROVE  Same(c, s)
<1>1. CASE tfer[c][s] = <<>>
  BY <1>1 DEF Same, Credit, Handled, Final
<1>2. CASE tfer[c][s] # <<>>
  <2>1. St(c, s)' = St(c, s)
    BY DEF St
  <2>2. Moved(c, s)' = Moved(c, s)
    BY <1>2, <2>1, MovedIs, MovedNext
  <2>3. Len(tfer[c][s]) = 1 \/ Len(tfer[c][s]) = 2
    BY <1>2, TferFacts
  <2>4. Len(tfer[c][s]) \in 1 .. 2
    BY <2>3
  <2>5. Handled(c, s)' <=> Handled(c, s)
    BY <2>4 DEF Handled, Final, Settled
  <2> QED
    BY <2>2, <2>5 DEF Same, Credit
<1> QED
  BY <1>1, <1>2

\* A step after which the handler has not run, as before.
LEMMA SameNot ==
  ASSUME NEW c, NEW s, ~Handled(c, s), ~Handled(c, s)'
  PROVE  Same(c, s)
  BY DEF Same, Credit

\* Nor then is a call's count or credit another.
LEMMA SameCount ==
  ASSUME NEW c, Same(c, 1), Same(c, 2)
  PROVE  Count(c)' = Count(c)
  BY DEF Same, Count, One

-----------------------------------------------------------------------------
(***************************************************************************)
(* The handler and the call's counters.                                    *)
(***************************************************************************)

\* The handler has not run for a segment that has not come to its end.
LEMMA Unhandled ==
  ASSUME BaseInv, NEW c \in Calls,
         pc[c] \in {"idle", "segment", "submit", "init", "queue", "error"}
  PROVE  ~Handled(c, seg[c])
<1>0. CallOK(c)
  BY DEF BaseInv
<1>1. CASE pc[c] \in {"idle", "segment", "submit", "error"}
  BY <1>0, <1>1 DEF CallOK, Placed, Handled, Final
<1>2. CASE pc[c] = "queue"
  <2>1. state[<<c, seg[c], Len(tfer[c][seg[c]])>>] = "NEW"
    BY <1>0, <1>2 DEF CallOK, CutOK, Built
  <2> QED
    BY <2>1 DEF Handled, Settled
<1>3. CASE pc[c] = "init"
  <2> SUFFICES ASSUME tfer[c][seg[c]] # <<>>
               PROVE  ~tfer[c][seg[c]][Len(tfer[c][seg[c]])].last
    BY DEF Handled, Final
  <2>1. PICK n : n = Len(tfer[c][seg[c]])
    OBVIOUS
  <2>2. n = 1 \/ n = 2
    BY <2>1, BuiltFacts
  <2>3. n \in 1 .. n
    BY <2>2
  <2> QED
    BY <1>0, <1>3, <2>1, <2>3 DEF CallOK, CutOK
<1> QED
  BY <1>1, <1>2, <1>3

\* Nor for one with a transfer in the list.
LEMMA ListedUnhandled ==
  ASSUME BaseInv, NEW n \in 1 .. Len(list)
  PROVE  /\ list[n] \in Xfers /\ state[list[n]] = "SUBMITTED"
         /\ ~Handled(list[n][1], list[n][2])
<1>1. list[n] \in Xfers
  BY ElementOfSeq DEF BaseInv, TypeOK
<1>2. PICK c, s, k : c = list[n][1] /\ s = list[n][2] /\ k = list[n][3]
  OBVIOUS
<1>3. c \in Calls /\ s \in 1 .. MaxSegs /\ k \in 1 .. 2 /\ list[n] = <<c, s, k>>
  BY <1>1, <1>2, XferParts
<1>4. state[<<c, s, k>>] = "SUBMITTED" /\ k <= Len(tfer[c][s])
  <2>1. state[list[n]] = "SUBMITTED" /\ list[n][3] <= Len(tfer[list[n][1]][list[n][2]])
    BY DEF BaseInv, ListOK
  <2>2. k <= Len(tfer[c][s])
    BY <1>2, <2>1
  <2>3. state[<<c, s, k>>] = "SUBMITTED"
    BY <1>3, <2>1
  <2> QED
    BY <2>2, <2>3
<1>5. PICK m : m = Len(tfer[c][s])
  OBVIOUS
<1>6. m = 0 \/ m = 1 \/ m = 2
  BY <1>3, <1>5, TferFacts
<1>7. k = m \/ (k = 1 /\ m = 2)
  <2>1. k <= m /\ k \in 1 .. 2
    BY <1>3, <1>4, <1>5
  <2> QED
    BY <1>6, <2>1
<1>8. ~Settled(<<c, s, m>>)
  <2>1. ~Settled(<<c, s, k>>)
    BY <1>4 DEF Settled
  <2>2. Settled(<<c, s, 2>>) => Settled(<<c, s, 1>>)
    BY <1>3 DEF BaseInv, StateOK
  <2> QED
    BY <1>7, <2>1, <2>2
<1>9. state[list[n]] = "SUBMITTED"
  BY DEF BaseInv, ListOK
<1> QED
  BY <1>1, <1>2, <1>5, <1>8, <1>9 DEF Handled

\* A call that begins has none handled.
LEMMA CallSame ==
  ASSUME BaseInv, NEW c \in Calls, AioCall(c)
  PROVE  /\ \A d \in Calls, s \in 1 .. MaxSegs : Same(d, s)
         /\ \A s \in 1 .. MaxSegs : ~Handled(c, s)
<1>0. TypeOK /\ CallOK(c)
  BY DEF BaseInv
<1>1. /\ pc[c] = "idle" /\ tfer' = tfer /\ state' = state
      /\ \E sh \in Shapes : shape' = [shape EXCEPT ![c] = sh]
  BY Brought DEF AioCall, ring, contract
<1>2. \A s \in 1 .. MaxSegs : tfer[c][s] = <<>>
  BY <1>0, <1>1 DEF CallOK, Placed, TypeOK, MaxSegs
<1>3. ASSUME NEW d \in Calls, NEW s \in 1 .. MaxSegs PROVE Same(d, s)
  <2>1. tfer[d][s] # <<>> => shape'[d] = shape[d]
    BY <1>0, <1>1, <1>2 DEF TypeOK
  <2> QED
    BY <1>1, <2>1, SameFrame
<1> QED
  BY <1>2, <1>3 DEF Handled, Final

\* transfer_init() and transfer_queue() run no handler.
LEMMA TakesSame ==
  ASSUME BaseInv, BaseInv', NEW c \in Calls, NEW t, Takes(c, t)
  PROVE  \A d \in Calls, s \in 1 .. MaxSegs : Same(d, s)
<1> TAKE d \in Calls, s \in 1 .. MaxSegs
<1>1. /\ pc[c] = "init" /\ pc'[c] = "queue" /\ seg' = seg /\ state' = state
      /\ shape' = shape /\ tfer' = [tfer EXCEPT ![c][seg[c]] = Append(@, t)]
  BY DEF Takes, BaseInv, TypeOK
<1>2. CASE d = c /\ s = seg[c]
  <2>1. ~Handled(c, seg[c])
    BY <1>1, Unhandled
  <2>2. state'[<<c, seg[c], Len(tfer'[c][seg[c]])>>] = "NEW"
    BY <1>1 DEF BaseInv, CallOK, CutOK, Built
  <2>3. ~Handled(c, seg[c])'
    BY <1>1, <2>2 DEF Handled, Settled
  <2>4. ~Handled(d, s) /\ ~Handled(d, s)'
    BY <1>1, <1>2, <2>1, <2>3
  <2> QED
    BY <2>4, SameNot
<1>3. CASE ~(d = c /\ s = seg[c])
  <2>1. tfer'[d][s] = tfer[d][s]
    BY <1>1, <1>3 DEF BaseInv, TypeOK
  <2> QED
    BY <1>1, <2>1, SameFrame
<1> QED
  BY <1>2, <1>3

\* See above.
LEMMA QueuesSame ==
  ASSUME BaseInv, NEW c \in Calls, Queues(c, Built(c))
  PROVE  \A d \in Calls, s \in 1 .. MaxSegs : Same(d, s)
<1> TAKE d \in Calls, s \in 1 .. MaxSegs
<1>1. /\ pc[c] = "queue" /\ tfer' = tfer /\ shape' = shape /\ Built(c) \in Xfers
      /\ state' = [state EXCEPT ![Built(c)] = "SUBMITTED"]
      /\ Built(c) = <<c, seg[c], Len(tfer[c][seg[c]])>>
  BY DEF Queues, Built
<1>2. CASE d = c /\ s = seg[c]
  <2>1. ~Handled(d, s)
    BY <1>1, <1>2, Unhandled
  <2>2. state'[<<d, s, Len(tfer[d][s])>>] = "SUBMITTED"
    BY <1>1, <1>2 DEF BaseInv, TypeOK
  <2>3. ~Handled(d, s)'
    BY <1>1, <2>2 DEF Handled, Settled
  <2> QED
    BY <2>1, <2>3, SameNot
<1>3. CASE ~(d = c /\ s = seg[c])
  <2>1. ASSUME NEW k \in 1 .. 2 PROVE state'[<<d, s, k>>] = state[<<d, s, k>>]
    <3>1. <<d, s, k>> \in Xfers
      BY DEF Xfers
    <3>2. <<d, s, k>> # Built(c)
      BY <1>1, <1>3
    <3> QED
      BY <1>1, <3>1, <3>2 DEF BaseInv, TypeOK
  <2> QED
    BY <1>1, <2>1, SameFrame
<1> QED
  BY <1>2, <1>3

\* What the handler finds done is what counts as moved.
LEMMA DoneIsMoved ==
  ASSUME BaseInv, NEW c \in Calls, NEW s \in 1 .. MaxSegs,
         tfer[c][s] # <<>>, Taken(tfer[c][s]) = Len(Descs(c, s)),
         UNCHANGED <<tfer, shape>>
  PROVE  /\ DoneBytes(c, s, [k \in DOMAIN tfer[c][s] |-> state'[<<c, s, k>>]]) = Moved(c, s)'
         /\ Moved(c, s)' \in Nat
<1> PICK ts, ds : ts = tfer[c][s] /\ ds = Descs(c, s)
  OBVIOUS
<1> DEFINE st == St(c, s)'
           w  == [k \in DOMAIN ts |-> state'[<<c, s, k>>]]
<1>1. ts \in Seq(Tfers) /\ (Len(ts) = 1 \/ Len(ts) = 2) /\ DOMAIN ts = 1 .. Len(ts)
  BY TferFacts, LenProperties
<1>2. ds \in Seq(Nat) /\ Len(ds) \in Nat
  <2>1. shape[c] \in Shapes /\ s \in 1 .. Len(shape[c])
    BY SegIn
  <2>2. shape[c][s] \in Seq(Nat)
    BY <2>1, ShapeFacts
  <2> QED
    BY <2>2, SoftDescsFacts, LenProperties DEF Descs
<1>3. Moved(c, s)' = Paid(ts, ds, st)
  BY MovedNext
<1>4. Taken(ts) <= Len(ds)
  BY <1>2
<1>5. /\ Paid(ts, ds, st) \in Nat
      /\ SumSeq(SubSeq(ds, 1, Through(ts, st))) = Paid(ts, ds, st)
  <2> HIDE DEF st
  <2>1. Paid(ts, ds, st) \in Nat
    BY <1>1, <1>2, <1>4, PaidFacts
  <2>2. SumSeq(SubSeq(ds, 1, Through(ts, st))) = Paid(ts, ds, st)
    BY <1>1, <1>2, <1>4, PaidFacts
  <2> QED
    BY <2>1, <2>2
<1>6. ASSUME NEW k \in DOMAIN ts
      PROVE  (\A j \in 1 .. k : w[j] = "COMPLETED") <=> (\A j \in 1 .. k : st[j] = "COMPLETED")
  <2>1. PICK n : n = Len(ts)
    OBVIOUS
  <2>2. DOMAIN ts = 1 .. n /\ (n = 1 \/ n = 2)
    BY <1>1, <2>1
  <2>3. \A j \in 1 .. k : j \in 1 .. n /\ j \in 1 .. 2
    BY <2>2
  <2> QED
    BY <2>2, <2>3 DEF St
<1>7. DoneBytes(c, s, w) =
        SumSeq(SubSeq(ds, 1, SumSeq([k \in DOMAIN ts |->
                               IF \A j \in 1 .. k : w[j] = "COMPLETED"
                               THEN ts[k].num ELSE 0])))
  BY DEF DoneBytes, Descs
<1>8. DoneBytes(c, s, w) = SumSeq(SubSeq(ds, 1, Through(ts, st)))
  <2> HIDE DEF w, st
  <2> QED
    BY <1>6, <1>7, Zenon DEF Through
<1> QED
  BY <1>3, <1>5, <1>8

\* What the handler does to the call, when segment s has moved b bytes.
Handles(c, s, b) ==
  LET cmpl == caio[c].cmpl + 1
      over == cmpl = Len(shape[c])
  IN  /\ caio[c].live
      /\ caio' = [caio EXCEPT ![c] = [live |-> ~over, cmpl |-> cmpl,
                                      res |-> caio[c].res + b]]
      /\ held' = [held EXCEPT ![c] = (@ \ FreedBySegment(s))
                                     \ (IF over THEN FreedByLast(s) ELSE {})]
      /\ result' = IF over THEN [result EXCEPT ![c] = Append(@, caio[c].res + b)]
                   ELSE result
      /\ misfreed' = IF over /\ s # 1 THEN misfreed \cup {c} ELSE misfreed
      /\ UNCHANGED <<astray, dropped>>

\* The bottom half settles a transfer of segment s of call c, and runs the
\* handler if it is the last.
Completes(c, s) ==
  /\ ~Handled(c, s)
  /\ UNCHANGED <<pc, shape, seg, tfer>>
  /\ \A d \in Calls, r \in 1 .. MaxSegs : ~(d = c /\ r = s) => Same(d, r)
  /\ tfer[c][s] # <<>> /\ InFlight(c, s)
  /\ \/ ~Handled(c, s)' /\ UNCHANGED <<caio, held, result, misuse>>
     \/ /\ Handled(c, s)' /\ ~caio[c].live
        /\ astray' = astray \cup {c}
        /\ UNCHANGED <<caio, held, result, misfreed, dropped>>
     \/ /\ Handled(c, s)' /\ Moved(c, s)' \in Nat
        /\ Handles(c, s, Moved(c, s)')

\* It does so.
LEMMA EngineCompletesOne ==
  ASSUME BaseInv, EngineCompletes
  PROVE  \E c \in Calls, s \in 1 .. MaxSegs : Completes(c, s)
<1>1. PICK v : Settles(list[1], v)
  BY CompletesSettles
<1>2. list # <<>> /\ Head(list) = list[1]
  BY <1>1 DEF Settles
<1>3. 1 \in 1 .. Len(list)
  <2>1. PICK n \in Nat : n + 1 = Len(list)
    BY <1>2, Shorter
  <2>2. 1 \in 1 .. n + 1
    OBVIOUS
  <2> QED
    BY <2>1, <2>2
<1>4. PICK c, s, k : c = list[1][1] /\ s = list[1][2] /\ k = list[1][3]
  OBVIOUS
<1>5. /\ list[1] \in Xfers /\ list[1] = <<c, s, k>>
      /\ c \in Calls /\ s \in 1 .. MaxSegs /\ k \in 1 .. 2
      /\ state[<<c, s, k>>] = "SUBMITTED" /\ ~Handled(c, s)
  BY <1>3, <1>4, ListedUnhandled, XferParts
<1>6. /\ UNCHANGED <<pc, shape, seg, tfer>> /\ v \in {"COMPLETED", "FAILED"}
      /\ state' = [state EXCEPT ![<<c, s, k>>] = v]
  BY <1>1, <1>5 DEF Settles
<1>6a. InFlight(c, s)
  BY <1>5 DEF InFlight
<1>7. PICK m : m = Len(tfer[c][s])
  OBVIOUS
<1>8. tfer[c][s] # <<>> /\ (m = 1 \/ m = 2) /\ (k = m \/ (k = 1 /\ m = 2))
  <2>1. k <= m
    BY <1>3, <1>4, <1>7 DEF BaseInv, ListOK
  <2>2. \/ tfer[c][s] = <<>> /\ m = 0
        \/ tfer[c][s] # <<>> /\ m = 1
        \/ tfer[c][s] # <<>> /\ m = 2
    BY <1>5, <1>7, TferFacts
  <2> QED
    BY <1>5, <2>1, <2>2
<1>9. ASSUME NEW d \in Calls, NEW r \in 1 .. MaxSegs, ~(d = c /\ r = s)
      PROVE  Same(d, r)
  <2>1. ASSUME NEW j \in 1 .. 2 PROVE state'[<<d, r, j>>] = state[<<d, r, j>>]
    <3>1. <<d, r, j>> \in Xfers
      BY DEF Xfers
    <3>2. <<d, r, j>> # <<c, s, k>>
      BY <1>9
    <3> QED
      BY <1>6, <3>1, <3>2 DEF BaseInv, TypeOK
  <2> QED
    BY <1>6, <2>1, SameFrame
<1>10. /\ state'[<<c, s, k>>] = v
       /\ \A j \in 1 .. 2 : j # k => state'[<<c, s, j>>] = state[<<c, s, j>>]
  <2>1. \A j \in 1 .. 2 : <<c, s, j>> \in Xfers /\ (j # k => <<c, s, j>> # <<c, s, k>>)
    BY <1>5 DEF Xfers
  <2> QED
    BY <1>5, <1>6, <2>1 DEF BaseInv, TypeOK
<1>11. CASE ~tfer[c][s][k].last
  <2>1. UNCHANGED <<caio, held, result, misuse>>
    BY <1>2, <1>4, <1>11 DEF EngineCompletes
  <2>2. ~Handled(c, s)'
    <3>1. CASE k = m
      BY <1>6, <1>7, <1>11, <3>1 DEF Handled, Final
    <3>2. CASE k = 1 /\ m = 2
      <4>1. ~Settled(<<c, s, 1>>)
        BY <1>5, <3>2 DEF Settled
      <4>2. ~Settled(<<c, s, 2>>)
        BY <1>5, <4>1 DEF BaseInv, StateOK
      <4>3. state'[<<c, s, 2>>] = state[<<c, s, 2>>]
        <5>1. 2 \in 1 .. 2 /\ 2 # 1
          OBVIOUS
        <5> QED
          BY <1>10, <3>2, <5>1
      <4>4. state'[<<c, s, m>>] \notin {"COMPLETED", "FAILED"}
        BY <3>2, <4>2, <4>3 DEF Settled
      <4> QED
        BY <1>6, <1>7, <4>4 DEF Handled, Settled
    <3> QED
      BY <1>8, <3>1, <3>2
  <2> QED
    BY <1>5, <1>6, <1>6a, <1>8, <1>9, <2>1, <2>2, SMTT(30) DEF Completes
<1>12. CASE tfer[c][s][k].last
  <2>1. k = m /\ Taken(tfer[c][s]) = Len(Descs(c, s))
    <3>1. k \in 1 .. m
      BY <1>8
    <3>2. SegOK(c, s)
      BY <1>5 DEF BaseInv, CallOK
    <3> QED
      BY <1>7, <1>12, <3>1, <3>2 DEF SegOK
  <2>2. Handled(c, s)'
    BY <1>6, <1>7, <1>8, <1>10, <1>12, <2>1 DEF Handled, Final, Settled
  <2>3. CASE ~caio[c].live
    <3>1. /\ astray' = astray \cup {c}
          /\ UNCHANGED <<caio, held, result, misfreed, dropped>>
      BY <1>2, <1>4, <1>12, <2>3 DEF EngineCompletes
    <3> QED
      BY <1>5, <1>6, <1>6a, <1>8, <1>9, <2>2, <2>3, <3>1 DEF Completes
  <2>4. CASE caio[c].live
    <3> DEFINE w == [j \in DOMAIN tfer[c][s] |-> state'[<<c, s, j>>]]
    <3>1. AsyncIoHandler(c, s, w)
      BY <1>2, <1>4, <1>12, <2>4 DEF EngineCompletes
    <3>2. DoneBytes(c, s, w) = Moved(c, s)' /\ Moved(c, s)' \in Nat
      BY <1>5, <1>6, <1>8, <2>1, DoneIsMoved
    <3>3. Handles(c, s, Moved(c, s)')
      <4> HIDE DEF w
      <4> QED
        BY <2>4, <3>1, <3>2, Zenon DEF AsyncIoHandler, Handles
    <3> QED
      BY <1>5, <1>6, <1>6a, <1>8, <1>9, <2>2, <3>2, <3>3, SMTT(30) DEF Completes
  <2> QED
    BY <2>3, <2>4
<1> QED
  BY <1>5, <1>11, <1>12

\* What is moved is a number.
LEMMA MovedNat ==
  ASSUME BaseInv, NEW c \in Calls, NEW s \in 1 .. MaxSegs, Handled(c, s)
  PROVE  /\ Moved(c, s) \in Nat
         /\ (\A k \in 1 .. Len(tfer[c][s]) : state[<<c, s, k>>] = "COMPLETED") =>
              Moved(c, s) = SumSeq(shape[c][s])
<1> PICK ts, ds : ts = tfer[c][s] /\ ds = Descs(c, s)
  OBVIOUS
<1>1. ts # <<>> /\ ts[Len(ts)].last
  BY DEF Handled, Final
<1>2. PICK m : m = Len(ts)
  OBVIOUS
<1>3. ts \in Seq(Tfers) /\ (m = 1 \/ m = 2)
  BY <1>1, <1>2, TferFacts
<1>4. /\ ds \in Seq(Nat) /\ Len(ds) \in Nat /\ SumSeq(ds) = SumSeq(shape[c][s])
  <2>1. shape[c] \in Shapes /\ s \in 1 .. Len(shape[c])
    BY <1>1, SegIn
  <2>2. shape[c][s] \in Seq(Nat)
    BY <2>1, ShapeFacts
  <2> QED
    BY <2>2, SoftDescsFacts, LenProperties DEF Descs
<1>5. Taken(ts) = Len(ds) /\ Taken(ts) <= Len(ds)
  <2>1. m \in 1 .. m
    BY <1>3
  <2>2. SegOK(c, s)
    BY DEF BaseInv, CallOK
  <2>3. Taken(ts) = Len(ds)
    BY <1>1, <1>2, <2>1, <2>2 DEF SegOK
  <2> QED
    BY <1>4, <2>3
<1>6. Moved(c, s) = Paid(ts, ds, St(c, s))
  BY MovedIs
<1> PICK st : st = St(c, s)
  OBVIOUS
<1>7. Len(ts) = 1 \/ Len(ts) = 2
  BY <1>2, <1>3
<1>8. Paid(ts, ds, st) \in Nat
  BY <1>3, <1>4, <1>5, <1>7, PaidFacts
<1>9. (\A k \in 1 .. Len(ts) : st[k] = "COMPLETED") => Paid(ts, ds, st) = SumSeq(ds)
  BY <1>3, <1>4, <1>5, <1>7, PaidFacts
<1>10. \A k \in 1 .. Len(ts) : st[k] = state[<<c, s, k>>]
  <2>1. \A k \in 1 .. m : k \in 1 .. 2
    BY <1>3
  <2> QED
    BY <1>2, <2>1 DEF St
<1> QED
  BY <1>4, <1>6, <1>8, <1>9, <1>10

-----------------------------------------------------------------------------
(***************************************************************************)
(* What a call is answered.                                                *)
(***************************************************************************)

\* Until the call is answered, its caio counts the segments that were handled
\* and adds up what they moved.
AnsOK(c) ==
  /\ caio[c].live \/ result[c] # <<>> =>
       /\ pc[c] # "idle"
       /\ caio[c].cmpl = Count(c)
       /\ caio[c].res = Credit(c, 1) + Credit(c, 2)
  /\ result[c] # <<>> =>
       /\ ~caio[c].live
       /\ result[c] = <<caio[c].res>>
       /\ Count(c) = Len(shape[c])

AnsType == /\ caio \in [Calls -> [live : BOOLEAN, cmpl : Nat, res : Nat]]
           /\ result \in [Calls -> Seq(Nat)]
           /\ held = [c \in Calls |-> held[c]]

AnsInv == AnsType /\ \A c \in Calls : AnsOK(c)

\* A step that does not answer the call, nor handles a segment of it.
LEMMA AnsFrame ==
  ASSUME BaseInv, NEW c \in Calls, AnsOK(c), \A s \in 1 .. MaxSegs : Same(c, s),
         pc[c] # "idle" => pc'[c] # "idle" /\ shape'[c] = shape[c],
         caio'[c].live => caio[c].live,
         caio'[c].cmpl = caio[c].cmpl, caio'[c].res = caio[c].res,
         result'[c] = result[c]
  PROVE  AnsOK(c)'
<1>1. Same(c, 1) /\ Same(c, 2)
  BY DEF MaxSegs
<1>2. Count(c)' = Count(c)
  BY <1>1, SameCount
<1>3. Credit(c, 1)' = Credit(c, 1) /\ Credit(c, 2)' = Credit(c, 2)
  BY <1>1 DEF Same
<1> QED
  BY <1>2, <1>3 DEF AnsOK

\* No call is answered.
LEMMA AnsInit == Init => AnsInv
  BY EmptySeq DEF Init, AnsInv, AnsType, AnsOK, NoCaio

\* A call begins.
LEMMA AnsCall ==
  ASSUME BaseInv, AnsInv, NEW c \in Calls, AioCall(c)
  PROVE  AnsInv'
<1>1. /\ pc[c] = "idle" /\ pc' = [pc EXCEPT ![c] = "segment"]
      /\ \E sh \in Shapes : shape' = [shape EXCEPT ![c] = sh]
      /\ caio' = [caio EXCEPT ![c] = [live |-> TRUE, cmpl |-> 0, res |-> 0]]
      /\ held' = [held EXCEPT ![c] = {<<"caio", 0>>, <<"cb", 0>>}]
      /\ result' = result
  BY Brought DEF AioCall, NewCaio
<1>2. AnsType'
  BY <1>1 DEF AnsInv, AnsType
<1>3. /\ \A d \in Calls, s \in 1 .. MaxSegs : Same(d, s)
      /\ \A s \in 1 .. MaxSegs : ~Handled(c, s)
  BY CallSame
<1>4. AnsOK(c)'
  <2>1. ~Handled(c, 1)' /\ ~Handled(c, 2)'
    BY <1>3 DEF MaxSegs, Same
  <2>2. Count(c)' = 0 /\ Credit(c, 1)' = 0 /\ Credit(c, 2)' = 0
    BY <2>1 DEF Count, One, Credit
  <2>3. result'[c] = <<>>
    BY <1>1 DEF AnsInv, AnsOK
  <2>4. pc'[c] = "segment" /\ caio'[c] = [live |-> TRUE, cmpl |-> 0, res |-> 0]
    BY <1>1 DEF AnsInv, AnsType, BaseInv, TypeOK
  <2> QED
    BY <2>2, <2>3, <2>4 DEF AnsOK
<1>5. ASSUME NEW d \in Calls, d # c PROVE AnsOK(d)'
  <2>1. pc'[d] = pc[d] /\ shape'[d] = shape[d] /\ caio'[d] = caio[d] /\ result'[d] = result[d]
    BY <1>1, <1>5 DEF AnsInv, AnsType, BaseInv, TypeOK
  <2> QED
    BY <1>3, <2>1, AnsFrame DEF AnsInv
<1> QED
  BY <1>2, <1>4, <1>5 DEF AnsInv

\* Any other step of a call.
LEMMA AnsCalm ==
  ASSUME BaseInv, AnsInv, NEW c \in Calls, \A d \in Calls, s \in 1 .. MaxSegs : Same(d, s),
         UNCHANGED <<shape, result>>,
         \E p : p # "idle" /\ pc' = [pc EXCEPT ![c] = p],
         caio' = caio \/ caio' = [caio EXCEPT ![c].live = FALSE],
         held' = held \/ \E h : held' = [held EXCEPT ![c] = h]
  PROVE  AnsInv'
<1>0. PICK q \in [live : BOOLEAN, cmpl : Nat, res : Nat] :
        /\ caio' = [caio EXCEPT ![c] = q]
        /\ q.live => caio[c].live
        /\ q.cmpl = caio[c].cmpl /\ q.res = caio[c].res
  <2> PICK r : r = caio[c]
    OBVIOUS
  <2>1. r \in [live : BOOLEAN, cmpl : Nat, res : Nat]
    BY DEF AnsInv, AnsType
  <2> DEFINE o == [r EXCEPT !.live = FALSE]
  <2>2. /\ o \in [live : BOOLEAN, cmpl : Nat, res : Nat]
        /\ ~o.live /\ o.cmpl = r.cmpl /\ o.res = r.res
    BY <2>1
  <2>3. CASE caio' = caio
    <3>1. caio' = [caio EXCEPT ![c] = r]
      BY <2>3 DEF AnsInv, AnsType
    <3> QED
      BY <2>1, <3>1
  <2>4. CASE caio' = [caio EXCEPT ![c].live = FALSE]
    <3>1. caio' = [caio EXCEPT ![c] = o]
      BY <2>4
    <3> HIDE DEF o
    <3> QED
      BY <2>2, <3>1
  <2> QED
    BY <2>3, <2>4
<1>1. AnsType'
  BY <1>0 DEF AnsInv, AnsType
<1>2. ASSUME NEW d \in Calls PROVE AnsOK(d)'
  <2>1. /\ pc[d] # "idle" => pc'[d] # "idle"
        /\ shape'[d] = shape[d] /\ result'[d] = result[d]
    BY DEF BaseInv, TypeOK
  <2>2. /\ caio'[d].live => caio[d].live
        /\ caio'[d].cmpl = caio[d].cmpl /\ caio'[d].res = caio[d].res
    BY <1>0 DEF AnsInv, AnsType
  <2> QED
    BY <2>1, <2>2, AnsFrame DEF AnsInv
<1> QED
  BY <1>1, <1>2 DEF AnsInv

\* The bottom half.
LEMMA AnsCompletes ==
  ASSUME BaseInv, AnsInv, NEW c \in Calls, NEW s \in 1 .. MaxSegs, Completes(c, s)
  PROVE  AnsInv'
<1>1. /\ ~Handled(c, s) /\ UNCHANGED <<pc, shape, seg, tfer>> /\ tfer[c][s] # <<>>
      /\ \A d \in Calls, r \in 1 .. MaxSegs : ~(d = c /\ r = s) => Same(d, r)
  BY DEF Completes
<1>2. pc[c] # "idle"
  BY <1>1, SegIn
<1>3. PICK n : n = Len(shape[c])
  OBVIOUS
<1>4. n = 1 \/ n = 2
  <2>1. shape[c] \in Shapes
    BY <1>2, CountFacts
  <2> QED
    BY <1>3, <2>1, ShapeFacts
<1>5. s \in 1 .. n
  BY <1>1, <1>3, SegIn
<1>6. Count(c) # n
  BY <1>1, <1>2, <1>3, <1>5, CountFacts
<1>7. result[c] = <<>>
  BY <1>3, <1>6 DEF AnsInv, AnsOK
<1>8. CASE ~Handled(c, s)' /\ UNCHANGED <<caio, held, result>>
  <2>1. AnsType'
    BY <1>8 DEF AnsInv, AnsType
  <2>2. ASSUME NEW d \in Calls PROVE AnsOK(d)'
    <3>1. ASSUME NEW r \in 1 .. MaxSegs PROVE Same(d, r)
      BY <1>1, <1>8, SameNot
    <3> QED
      BY <1>1, <1>8, <3>1, AnsFrame DEF AnsInv
  <2> QED
    BY <2>1, <2>2 DEF AnsInv
<1>9. CASE ~caio[c].live /\ UNCHANGED <<caio, held, result>>
  <2>1. AnsType'
    BY <1>9 DEF AnsInv, AnsType
  <2>2. ASSUME NEW d \in Calls, d # c PROVE AnsOK(d)'
    <3>1. ASSUME NEW r \in 1 .. MaxSegs PROVE Same(d, r)
      BY <1>1, <2>2
    <3> QED
      BY <1>1, <1>9, <3>1, AnsFrame DEF AnsInv
  <2>3. AnsOK(c)'
    BY <1>7, <1>9 DEF AnsOK
  <2> QED
    BY <2>1, <2>2, <2>3 DEF AnsInv
<1>10. CASE Handled(c, s)' /\ Moved(c, s)' \in Nat /\ Handles(c, s, Moved(c, s)')
  <2>1. PICK b : b = Moved(c, s)'
    OBVIOUS
  <2>2. PICK e, l : e = caio[c].cmpl /\ l = caio[c].res
    OBVIOUS
  <2>3. e \in Nat /\ l \in Nat /\ b \in Nat /\ caio[c].live
    BY <1>10, <2>1, <2>2 DEF AnsInv, AnsType, Handles
  <2>4. e = Count(c) /\ l = Credit(c, 1) + Credit(c, 2)
    BY <2>2, <2>3 DEF AnsInv, AnsOK
  <2>5. /\ caio' = [caio EXCEPT ![c] = [live |-> e + 1 # n, cmpl |-> e + 1, res |-> l + b]]
        /\ result' = IF e + 1 = n THEN [result EXCEPT ![c] = Append(@, l + b)] ELSE result
        /\ \E h : held' = [held EXCEPT ![c] = h]
    BY <1>3, <1>10, <2>1, <2>2 DEF Handles
  <2>6. Append(<<>>, l + b) = <<l + b>> /\ l + b \in Nat /\ <<l + b>> \in Seq(Nat)
    BY <2>3
  <2>7. /\ caio'[c] = [live |-> e + 1 # n, cmpl |-> e + 1, res |-> l + b]
        /\ result'[c] = IF e + 1 = n THEN <<l + b>> ELSE <<>>
        /\ \A d \in Calls : d # c => caio'[d] = caio[d] /\ result'[d] = result[d]
    BY <1>7, <2>5, <2>6 DEF AnsInv, AnsType
  <2>8. AnsType'
    <3>1. e + 1 \in Nat /\ (e + 1 # n) \in BOOLEAN
      BY <2>3
    <3>2. caio' \in [Calls -> [live : BOOLEAN, cmpl : Nat, res : Nat]]
      BY <2>5, <2>6, <3>1 DEF AnsInv, AnsType
    <3>3. result' \in [Calls -> Seq(Nat)]
      BY <1>7, <2>5, <2>6 DEF AnsInv, AnsType
    <3>4. held' = [d \in Calls |-> held'[d]]
      BY <2>5 DEF AnsInv, AnsType
    <3> QED
      BY <3>2, <3>3, <3>4 DEF AnsType
  <2>9. ASSUME NEW d \in Calls, d # c PROVE AnsOK(d)'
    <3>1. ASSUME NEW r \in 1 .. MaxSegs PROVE Same(d, r)
      BY <1>1, <2>9
    <3> QED
      BY <1>1, <2>7, <2>9, <3>1, AnsFrame DEF AnsInv
  <2>10. Count(c)' = Count(c) + 1 /\ Credit(c, 1)' + Credit(c, 2)' = l + b
    <3>1. Credit(c, s) = 0 /\ Credit(c, s)' = b
      BY <1>1, <1>10, <2>1 DEF Credit
    <3>2. CASE s = 1
      <4>1. Same(c, 2)
        BY <1>1, <3>2 DEF MaxSegs
      <4>2. One(Handled(c, 1)) = 0 /\ One(Handled(c, 1))' = 1 /\ One(Handled(c, 2))' = One(Handled(c, 2))
        BY <1>1, <1>10, <3>2, <4>1 DEF One, Same
      <4>3. Count(c)' = Count(c) + 1
        BY <4>2 DEF Count, One
      <4>4. Credit(c, 2)' = Credit(c, 2) /\ l = 0 + Credit(c, 2)
        BY <2>4, <3>1, <3>2, <4>1 DEF Same
      <4>5. PICK z : z = Credit(c, 2)
        OBVIOUS
      <4>6. z \in Nat
        <5>1. CASE Handled(c, 2)
          <6>1. z = Moved(c, 2)
            BY <4>5, <5>1 DEF Credit
          <6> QED
            BY <5>1, <6>1, MovedNat DEF MaxSegs
        <5>2. CASE ~Handled(c, 2)
          BY <4>5, <5>2 DEF Credit
        <5> QED
          BY <5>1, <5>2
      <4> QED
        BY <2>3, <3>1, <3>2, <4>3, <4>4, <4>5, <4>6
    <3>3. CASE s = 2
      <4>1. Same(c, 1)
        BY <1>1, <3>3 DEF MaxSegs
      <4>2. One(Handled(c, 2)) = 0 /\ One(Handled(c, 2))' = 1 /\ One(Handled(c, 1))' = One(Handled(c, 1))
        BY <1>1, <1>10, <3>3, <4>1 DEF One, Same
      <4>3. Count(c)' = Count(c) + 1
        BY <4>2 DEF Count, One
      <4>4. Credit(c, 1)' = Credit(c, 1) /\ l = Credit(c, 1) + 0
        BY <2>4, <3>1, <3>3, <4>1 DEF Same
      <4>5. PICK z : z = Credit(c, 1)
        OBVIOUS
      <4>6. z \in Nat
        <5>1. CASE Handled(c, 1)
          <6>1. z = Moved(c, 1)
            BY <4>5, <5>1 DEF Credit
          <6> QED
            BY <5>1, <6>1, MovedNat DEF MaxSegs
        <5>2. CASE ~Handled(c, 1)
          BY <4>5, <5>2 DEF Credit
        <5> QED
          BY <5>1, <5>2
      <4> QED
        BY <2>3, <3>1, <3>3, <4>3, <4>4, <4>5, <4>6
    <3> QED
      BY <3>2, <3>3 DEF MaxSegs
  <2>11. AnsOK(c)'
    <3>1. caio'[c].cmpl = Count(c)' /\ caio'[c].res = Credit(c, 1)' + Credit(c, 2)'
      BY <2>4, <2>7, <2>10
    <3>2. result'[c] # <<>> => e + 1 = n /\ result'[c] = <<l + b>>
      BY <2>7
    <3>3. e + 1 = n => ~caio'[c].live
      <4> SUFFICES ASSUME e + 1 = n PROVE ~caio'[c].live
        OBVIOUS
      <4>1. (e + 1 # n) = FALSE
        BY Zenon
      <4>2. caio'[c] = [live |-> FALSE, cmpl |-> e + 1, res |-> l + b]
        BY <2>7, <4>1, Zenon
      <4> QED
        BY <4>2
    <3>4. caio'[c].res = l + b /\ Count(c)' = e + 1 /\ pc'[c] # "idle" /\ n = Len(shape'[c])
      BY <1>1, <1>2, <1>3, <2>4, <2>7, <2>10
    <3> QED
      BY <3>1, <3>2, <3>3, <3>4 DEF AnsOK
  <2> QED
    BY <2>8, <2>9, <2>11 DEF AnsInv
<1> QED
  BY <1>8, <1>9, <1>10 DEF Completes

\* Every step keeps what is known of the answers.
LEMMA AnsStep == BaseInv /\ AnsInv /\ [Next]_vars => AnsInv'
<1> SUFFICES ASSUME BaseInv, AnsInv, [Next]_vars PROVE AnsInv'
  OBVIOUS
<1>0. BaseInv'
  BY BaseStep
<1>1. CASE UNCHANGED <<pc, shape, tfer, state, caio, held, result>>
  <2>1. ASSUME NEW d \in Calls, NEW s \in 1 .. MaxSegs PROVE Same(d, s)
    BY <1>1, SameFrame
  <2>2. ASSUME NEW d \in Calls PROVE AnsOK(d)'
    BY <1>1, <2>1, AnsFrame DEF AnsInv
  <2> QED
    BY <1>1, <2>2 DEF AnsInv, AnsType
<1>2. ASSUME NEW c \in Calls, AioCall(c) PROVE AnsInv'
  BY <1>2, AnsCall
<1>3. ASSUME NEW c \in Calls, Quiet(c) PROVE AnsInv'
  <2>1. /\ \E p : p # "idle" /\ pc' = [pc EXCEPT ![c] = p]
        /\ UNCHANGED <<shape, result, tfer, state>>
    BY <1>3, QuietMoves DEF Moves
  <2>2. /\ caio' = caio \/ caio' = [caio EXCEPT ![c].live = FALSE]
        /\ held' = held \/ \E h : held' = [held EXCEPT ![c] = h]
    BY <1>3 DEF Quiet, AlignFails, PinFails, PinPages, SubmitFails, InitRequest,
       TferOverrun, QueueFails
  <2>3. ASSUME NEW d \in Calls, NEW s \in 1 .. MaxSegs PROVE Same(d, s)
    BY <2>1, SameFrame
  <2> QED
    BY <2>1, <2>2, <2>3, AnsCalm
<1>4. ASSUME NEW c \in Calls, TransferInit(c), NEW t, Takes(c, t) PROVE AnsInv'
  <2>1. /\ pc' = [pc EXCEPT ![c] = "queue"] /\ UNCHANGED <<shape, result, caio, held>>
    BY <1>4 DEF TransferInit
  <2> QED
    BY <1>0, <1>4, <2>1, TakesSame, AnsCalm
<1>5. ASSUME NEW c \in Calls, TransferQueue(c), Queues(c, Built(c)) PROVE AnsInv'
  <2>1. /\ \E p : p # "idle" /\ pc' = [pc EXCEPT ![c] = p]
        /\ UNCHANGED <<shape, result, caio, held>>
    BY <1>5 DEF TransferQueue, Queues
  <2> QED
    BY <1>5, <2>1, QueuesSame, AnsCalm
<1>6. CASE EngineCompletes
  BY <1>6, EngineCompletesOne, AnsCompletes
<1>7. CASE HardwareMoves \/ EngineStalls
  BY <1>1, <1>7 DEF HardwareMoves, EngineStalls, Engine!Finish, calls, ring
<1>8. CASE UNCHANGED vars
  BY <1>1, <1>8 DEF vars
<1> QED
  BY <1>2, <1>3, <1>4, <1>5, <1>6, <1>7, <1>8, Steps

\* A call whose segments were all handled has nothing left to wait for.
LEMMA AllHandled ==
  ASSUME BaseInv, NEW c \in Calls, pc[c] # "idle", Count(c) = Len(shape[c])
  PROVE  /\ pc[c] # "error"
         /\ \A i \in 1 .. Len(list) : list[i][1] # c
         /\ \A s \in 1 .. Len(shape[c]) : Handled(c, s) /\ s \in 1 .. MaxSegs
<1>1. shape[c] \in Shapes /\ \A s \in 1 .. Len(shape[c]) : Handled(c, s)
  BY CountFacts
<1>2. PICK n : n = Len(shape[c])
  OBVIOUS
<1>3. n = 1 \/ n = 2
  BY <1>1, <1>2, ShapeFacts
<1>4. \A s \in 1 .. n : s \in 1 .. MaxSegs
  BY <1>3 DEF MaxSegs
<1>5. pc[c] # "error"
  <2> SUFFICES ASSUME pc[c] = "error" PROVE FALSE
    OBVIOUS
  <2>1. seg[c] <= n /\ seg[c] \in 1 .. MaxSegs
    BY <1>2 DEF BaseInv, CallOK, Placed, TypeOK
  <2>2. seg[c] \in 1 .. n
    BY <1>3, <2>1 DEF MaxSegs
  <2> QED
    BY <1>1, <1>2, <2>2, Unhandled
<1>6. ASSUME NEW i \in 1 .. Len(list), list[i][1] = c PROVE FALSE
  <2>1. list[i] \in Xfers /\ ~Handled(list[i][1], list[i][2])
    BY ListedUnhandled
  <2>2. PICK s, k : s = list[i][2] /\ k = list[i][3]
    OBVIOUS
  <2>3. s \in 1 .. MaxSegs /\ k \in 1 .. 2
    BY <2>1, <2>2, XferParts
  <2>4. k <= Len(tfer[c][s])
    BY <1>6, <2>2 DEF BaseInv, ListOK
  <2>5. tfer[c][s] # <<>>
    <3> SUFFICES ASSUME tfer[c][s] = <<>> PROVE FALSE
      OBVIOUS
    <3>1. k <= 0
      <4>1. Len(tfer[c][s]) = 0
        BY TferFacts, <2>3
      <4> QED
        BY <2>4, <4>1
    <3> QED
      BY <2>3, <3>1
  <2>6. s \in 1 .. n
    BY <1>2, <2>3, <2>5, SegIn
  <2> QED
    BY <1>1, <1>2, <1>6, <2>1, <2>2, <2>6
<1> QED
  BY <1>1, <1>2, <1>4, <1>5, <1>6

\* What the handlers credited is what the segments moved.
LEMMA AnswerIs ==
  ASSUME BaseInv, AnsInv, NEW c \in Calls, result[c] # <<>>
  PROVE  /\ Len(result[c]) = 1
         /\ result[c][1] = SumSeq([s \in DOMAIN shape[c] |-> Moved(c, s)])
         /\ (\A s \in DOMAIN shape[c] : \A k \in DOMAIN tfer[c][s] :
                state[<<c, s, k>>] = "COMPLETED") =>
              result[c][1] = SumSeq([s \in DOMAIN shape[c] |-> SumSeq(shape[c][s])])
<1>1. /\ pc[c] # "idle" /\ Count(c) = Len(shape[c])
      /\ result[c] = <<caio[c].res>>
      /\ caio[c].res = Credit(c, 1) + Credit(c, 2)
  BY DEF AnsInv, AnsOK
<1>2. /\ shape[c] \in Shapes
      /\ \A s \in 1 .. Len(shape[c]) : Handled(c, s) /\ s \in 1 .. MaxSegs
      /\ Len(shape[c]) = 1 => ~Handled(c, 2)
  BY <1>1, CountFacts, AllHandled
<1>3. PICK n : n = Len(shape[c])
  OBVIOUS
<1>4. (n = 1 \/ n = 2) /\ DOMAIN shape[c] = 1 .. n
  BY <1>2, <1>3, ShapeFacts, LenProperties
<1>5. \A s \in 1 .. n : Moved(c, s) \in Nat /\ Credit(c, s) = Moved(c, s)
  BY <1>2, <1>3, MovedNat DEF Credit
<1> DEFINE f == [s \in DOMAIN shape[c] |-> Moved(c, s)]
           g == [s \in DOMAIN shape[c] |-> SumSeq(shape[c][s])]
<1>6. f \in Seq(Nat) /\ Len(f) = n /\ \A s \in 1 .. n : f[s] = Moved(c, s)
  <2>1. f = [s \in 1 .. n |-> Moved(c, s)]
    BY <1>4
  <2> HIDE DEF f
  <2>2. n \in Nat
    BY <1>4
  <2>3. f \in [1 .. n -> Nat]
    BY <1>5, <2>1
  <2> QED
    BY <2>1, <2>2, <2>3, SeqDef, LenProperties
<1>7. SumSeq(f) = Credit(c, 1) + Credit(c, 2)
  <2> HIDE DEF f
  <2>1. CASE n = 1
    <3>1. SumSeq(f) = f[1]
      BY <1>6, <2>1, SumSeqShort
    <3>2. f[1] = Credit(c, 1) /\ f[1] \in Nat
      BY <1>5, <1>6, <2>1
    <3>3. Credit(c, 2) = 0
      BY <1>2, <1>3, <2>1 DEF Credit
    <3> QED
      BY <3>1, <3>2, <3>3
  <2>2. CASE n = 2
    <3>1. SumSeq(f) = f[1] + f[2]
      BY <1>6, <2>2, SumSeqShort
    <3> QED
      BY <1>5, <1>6, <2>2, <3>1
  <2> QED
    BY <1>4, <2>1, <2>2
<1>8. ASSUME \A s \in DOMAIN shape[c] : \A k \in DOMAIN tfer[c][s] :
               state[<<c, s, k>>] = "COMPLETED"
      PROVE  f = g
  <2>1. ASSUME NEW s \in 1 .. n PROVE Moved(c, s) = SumSeq(shape[c][s])
    <3>1. s \in 1 .. MaxSegs /\ Handled(c, s)
      BY <1>2, <1>3
    <3>2. DOMAIN tfer[c][s] = 1 .. Len(tfer[c][s])
      BY <3>1, TferFacts, LenProperties
    <3> QED
      BY <1>4, <1>8, <3>1, <3>2, MovedNat
  <2> QED
    BY <1>4, <2>1
<1>9. Len(result[c]) = 1 /\ result[c][1] = SumSeq(f)
  BY <1>1, <1>7
<1> QED
  BY <1>8, <1>9

\* A call is answered at most once, never after it has returned an error, only
\* when nothing of it is queued any more, and with exactly the bytes it moved
\* (async_io_handler, xdma_xfer_completion): for every set of calls, every
\* shape, every ring, and whatever fails.
THEOREM AnsweredRight == Spec => []AnsweredExactly
<1>1. Init => BaseInv /\ AnsInv
  BY BaseInit, AnsInit
<1>2. (BaseInv /\ AnsInv) /\ [Next]_vars => (BaseInv /\ AnsInv)'
  BY BaseStep, AnsStep
<1>3. BaseInv /\ AnsInv => AnsweredExactly
  <2> SUFFICES ASSUME BaseInv, AnsInv, NEW c \in Calls, result[c] # <<>>
               PROVE  /\ Len(result[c]) = 1
                      /\ pc[c] # "error"
                      /\ \A i \in DOMAIN list : list[i][1] # c
                      /\ result[c][1] = SumSeq([s \in DOMAIN shape[c] |-> Moved(c, s)])
                      /\ (\A s \in DOMAIN shape[c] : \A k \in DOMAIN tfer[c][s] :
                             state[<<c, s, k>>] = "COMPLETED") =>
                           result[c][1] = SumSeq([s \in DOMAIN shape[c] |-> SumSeq(shape[c][s])])
    BY DEF AnsweredExactly
  <2>1. pc[c] # "idle" /\ Count(c) = Len(shape[c])
    BY DEF AnsInv, AnsOK
  <2>2. DOMAIN list = 1 .. Len(list)
    BY LenProperties DEF BaseInv, TypeOK
  <2>3. pc[c] # "error" /\ \A i \in DOMAIN list : list[i][1] # c
    BY <2>1, <2>2, AllHandled
  <2> QED
    BY <2>3, AnswerIs
<1> QED
  BY <1>1, <1>2, <1>3, PTL DEF Spec

-----------------------------------------------------------------------------
(***************************************************************************)
(* Memory, whatever fails.                                                 *)
(***************************************************************************)

\* While segments are missing the caio lives, or the call has given up and
\* the caio was dropped, or is not needed any more.
LiveOK(c) ==
  pc[c] # "idle" /\ Count(c) # Len(shape[c]) =>
    \/ caio[c].live
    \/ /\ pc[c] = "error"
       /\ <<"caio", 0>> \in dropped[c] \/ \A s \in 1 .. MaxSegs : ~InFlight(c, s)

\* The request is there while it is cut and, unless it was dropped, while a
\* transfer of it is queued.
ReqOK(c) ==
  /\ pc[c] = "submit" => <<"pages", seg[c]>> \in held[c]
  /\ pc[c] \in {"init", "queue"} => \A h \in Needs(seg[c]) : h \in held[c]
  /\ \A s \in 1 .. MaxSegs : InFlight(c, s) =>
       \A h \in Needs(s) : h \in held[c] \/ h \in dropped[c]

\* What was dropped, and why.
DropOK(c) ==
  /\ \A h \in dropped[c] :
       \/ h = <<"caio", 0>> /\ pc[c] = "error" /\ seg[c] > 1
       \/ \E s \in 1 .. Len(shape[c]) : h \in Mapped(s) /\ Len(tfer[c][s]) = 2
  /\ c \in astray => <<"caio", 0>> \in dropped[c]

\* What is held for a segment is so until the segment is handled.
Open(c, s, h) == h \in FreedBySegment(s) /\ ~Handled(c, s)

HeldOK(c) ==
  /\ \A h \in held[c] : \/ h = <<"caio", 0>> \/ h = <<"cb", 0>> \/ c \in astray
                        \/ \E s \in 1 .. Len(shape[c]) : Open(c, s, h)
  /\ result[c] # <<>> => /\ <<"caio", 0>> \notin held[c]
                         /\ c \notin misfreed => <<"cb", 0>> \notin held[c]
  /\ c \in misfreed => result[c] # <<>> /\ Len(shape[c]) > 1

MemOK(c) == LiveOK(c) /\ ReqOK(c) /\ DropOK(c) /\ HeldOK(c)

MemInv == /\ dropped = [c \in Calls |-> dropped[c]]
          /\ \A c \in Calls : MemOK(c)

\* What a segment holds is neither the caio nor the control blocks, and not
\* another segment's.
LEMMA Kinds ==
  /\ \A s : <<"caio", 0>> \notin FreedBySegment(s) /\ <<"cb", 0>> \notin FreedBySegment(s)
  /\ \A s : <<"caio", 0>> \notin Needs(s) /\ <<"caio", 0>> \notin Mapped(s)
  /\ \A s, h : h \in Needs(s) <=> h \in FreedBySegment(s)
  /\ \A s, h : h \in Mapped(s) => h \in FreedBySegment(s)
  /\ \A s : <<"pages", s>> \in FreedBySegment(s)
  /\ \A s, h : h \in Needs(s) => h = <<"pages", s>> \/ h \in Mapped(s)
  /\ \A s, r, h : h \in FreedBySegment(s) /\ h \in FreedBySegment(r) => s = r
  /\ \A s, r, h : h \in FreedBySegment(s) => h \notin FreedByLast(r)
  BY DEF FreedBySegment, FreedByLast, Needs, Mapped

\* More is held only for a segment that was not handled.
LEMMA HeldKeeps ==
  ASSUME NEW c, HeldOK(c), \A s \in 1 .. Len(shape[c]) : Same(c, s),
         shape'[c] = shape[c], result'[c] = result[c],
         c \in misfreed' <=> c \in misfreed, c \in astray => c \in astray',
         \A h \in held'[c] : \/ h \in held[c]
                             \/ \E s \in 1 .. Len(shape[c]) : Open(c, s, h)
  PROVE  HeldOK(c)'
<1>1. \A s \in 1 .. Len(shape[c]) : \A h : Open(c, s, h) => Open(c, s, h)'
  BY DEF Open, Same, FreedBySegment
<1>2. \A s, h : Open(c, s, h) => h # <<"caio", 0>> /\ h # <<"cb", 0>>
  BY Kinds DEF Open
<1>3. ASSUME NEW h \in held'[c]
      PROVE  \/ h = <<"caio", 0>> \/ h = <<"cb", 0>> \/ c \in astray'
             \/ \E s \in 1 .. Len(shape[c]) : Open(c, s, h)'
  BY <1>1 DEF HeldOK
<1>4. ASSUME result[c] # <<>>
      PROVE  /\ <<"caio", 0>> \notin held'[c]
             /\ c \notin misfreed => <<"cb", 0>> \notin held'[c]
  BY <1>2, <1>4 DEF HeldOK
<1>5. c \in misfreed => result[c] # <<>> /\ Len(shape[c]) > 1
  BY DEF HeldOK
<1> QED
  BY <1>3, <1>4, <1>5 DEF HeldOK

\* The segments of a call.
LEMMA SegsIn ==
  ASSUME BaseInv, NEW c \in Calls
  PROVE  /\ \A s \in 1 .. Len(shape[c]) : s \in 1 .. MaxSegs
         /\ pc[c] # "idle" => seg[c] \in 1 .. Len(shape[c])
<1>1. PICK n : n = Len(shape[c])
  OBVIOUS
<1>2. n = 0 \/ n = 1 \/ n = 2
  <2>1. CASE shape[c] \in Shapes
    BY <1>1, <2>1, ShapeFacts
  <2>2. CASE shape[c] = <<>>
    BY <1>1, <2>2
  <2> QED
    BY <2>1, <2>2 DEF BaseInv, TypeOK
<1>3. \A s \in 1 .. n : s \in 1 .. MaxSegs
  BY <1>2 DEF MaxSegs
<1>4. seg[c] \in 1 .. MaxSegs /\ (pc[c] # "idle" => seg[c] <= n)
  BY <1>1 DEF BaseInv, TypeOK, CallOK, Placed
<1>5. pc[c] # "idle" => seg[c] \in 1 .. n
  BY <1>2, <1>4 DEF MaxSegs
<1> QED
  BY <1>1, <1>3, <1>5

\* A segment with a transfer in flight has one built.
LEMMA FlightBuilt ==
  ASSUME BaseInv, NEW c \in Calls, NEW s \in 1 .. MaxSegs, NEW k \in 1 .. 2,
         state[<<c, s, k>>] = "SUBMITTED"
  PROVE  /\ tfer[c][s] # <<>> /\ Len(tfer[c][s]) \in 1 .. 2 /\ k <= Len(tfer[c][s])
<1>1. <<c, s, k>> \in Xfers
  BY DEF Xfers
<1>2. PICK m : m = Len(tfer[c][s])
  OBVIOUS
<1>3. \/ tfer[c][s] = <<>> /\ m = 0
      \/ tfer[c][s] # <<>> /\ m = 1
      \/ tfer[c][s] # <<>> /\ m = 2
  BY <1>2, TferFacts
<1>4. ~(k > m)
  BY <1>1, <1>2 DEF BaseInv, StateOK
<1>5. k <= m /\ m # 0
  BY <1>3, <1>4
<1> QED
  BY <1>2, <1>3, <1>5

\* No more transfers are in flight, and no request that was split is not.
Calm(c) ==
  /\ \A s \in 1 .. MaxSegs : InFlight(c, s)' => InFlight(c, s)
  /\ \A s \in 1 .. MaxSegs : Len(tfer[c][s]) = 2 => Len(tfer'[c][s]) = 2

\* So is a step that leaves the transfers alone.
LEMMA CalmFrame ==
  ASSUME BaseInv, NEW c \in Calls, tfer' = tfer,
         \A s \in 1 .. MaxSegs, k \in 1 .. 2 :
           state'[<<c, s, k>>] = "SUBMITTED" => state[<<c, s, k>>] = "SUBMITTED"
  PROVE  Calm(c)
  BY DEF Calm, InFlight

\* A step that leaves the call alone, but may settle a transfer of it.
LEMMA MemFrame ==
  ASSUME BaseInv, NEW c \in Calls, MemOK(c), \A s \in 1 .. MaxSegs : Same(c, s),
         pc'[c] = pc[c], seg'[c] = seg[c], shape'[c] = shape[c],
         caio'[c] = caio[c], held'[c] = held[c], result'[c] = result[c],
         dropped'[c] = dropped[c], Calm(c),
         c \in misfreed' <=> c \in misfreed, c \in astray' <=> c \in astray
  PROVE  MemOK(c)'
<1>1. Same(c, 1) /\ Same(c, 2)
  BY DEF MaxSegs
<1>2. Count(c)' = Count(c)
  BY <1>1, SameCount
<1>3. LiveOK(c)'
  BY <1>2 DEF MemOK, LiveOK, Calm
<1>4. ReqOK(c)'
  BY DEF MemOK, ReqOK, Calm, Needs, Mapped
<1>5. DropOK(c)'
  <2>1. \A s : Mapped(s)' = Mapped(s)
    BY DEF Mapped
  <2> QED
    BY <2>1, SegsIn DEF MemOK, DropOK, Calm
<1>6. HeldOK(c)'
  BY SegsIn, HeldKeeps DEF MemOK
<1> QED
  BY <1>3, <1>4, <1>5, <1>6 DEF MemOK

\* Nothing is held and nothing is dropped.
LEMMA MemInit == Init => MemInv
<1> SUFFICES ASSUME Init PROVE MemInv
  OBVIOUS
<1>0. dropped = [c \in Calls |-> dropped[c]]
  BY DEF Init
<1>1. ASSUME NEW c \in Calls PROVE MemOK(c)
  <2>1. LiveOK(c)
    BY DEF Init, LiveOK
  <2>2. ReqOK(c)
    <3>1. \A s \in 1 .. MaxSegs, k \in 1 .. 2 : <<c, s, k>> \in Xfers
      BY DEF Xfers
    <3> QED
      BY <3>1 DEF Init, ReqOK, InFlight, Engine!ContractInit
  <2>3. DropOK(c) /\ HeldOK(c)
    BY DEF Init, DropOK, HeldOK
  <2> QED
    BY <2>1, <2>2, <2>3 DEF MemOK
<1> QED
  BY <1>0, <1>1 DEF MemInv

\* A call begins.
LEMMA MemCall ==
  ASSUME BaseInv, AnsInv, MemInv, NEW c \in Calls, AioCall(c)
  PROVE  MemInv'
<1>1. /\ pc[c] = "idle" /\ pc' = [pc EXCEPT ![c] = "segment"]
      /\ caio' = [caio EXCEPT ![c] = [live |-> TRUE, cmpl |-> 0, res |-> 0]]
      /\ held' = [held EXCEPT ![c] = {<<"caio", 0>>, <<"cb", 0>>}]
      /\ UNCHANGED <<seg, result, astray, misfreed, dropped, tfer, state>>
  BY DEF AioCall, NewCaio, misuse, ring, contract
<1>1a. \E sh \in Shapes : shape' = [shape EXCEPT ![c] = sh]
  BY Brought
<1>2. \A d \in Calls, s \in 1 .. MaxSegs : Same(d, s)
  BY CallSame
<1>3. MemOK(c)'
  <2>1. /\ pc'[c] = "segment" /\ caio'[c] = [live |-> TRUE, cmpl |-> 0, res |-> 0]
        /\ held'[c] = {<<"caio", 0>>, <<"cb", 0>>}
    BY <1>1 DEF AnsInv, AnsType, BaseInv, TypeOK
  <2>2. LiveOK(c)'
    BY <2>1 DEF LiveOK
  <2>3. ASSUME NEW s \in 1 .. MaxSegs PROVE tfer[c][s] = <<>> /\ Len(tfer[c][s]) = 0
    BY <1>1 DEF BaseInv, CallOK, Placed, TypeOK, MaxSegs
  <2>4. ASSUME NEW s \in 1 .. MaxSegs, InFlight(c, s)' PROVE FALSE
    <3>1. PICK k \in 1 .. 2 : state[<<c, s, k>>] = "SUBMITTED"
      BY <1>1, <2>4 DEF InFlight
    <3> QED
      BY <2>3, <3>1, FlightBuilt
  <2>5. ReqOK(c)'
    BY <2>1, <2>4 DEF ReqOK
  <2>6. dropped'[c] = {} /\ c \notin astray'
    <3>1. ASSUME NEW s \in 1 .. Len(shape[c]), Len(tfer[c][s]) = 2 PROVE FALSE
      BY <2>3, <3>1, SegsIn
    <3> QED
      BY <1>1, <3>1 DEF MemInv, MemOK, DropOK
  <2>7. DropOK(c)'
    BY <2>6 DEF DropOK
  <2>8. result'[c] = <<>>
    BY <1>1 DEF AnsInv, AnsOK
  <2>9. c \notin misfreed'
    BY <1>1, <2>8 DEF MemInv, MemOK, HeldOK
  <2>10. HeldOK(c)'
    BY <2>1, <2>8, <2>9 DEF HeldOK
  <2> QED
    BY <2>2, <2>5, <2>7, <2>10 DEF MemOK
<1>4. ASSUME NEW d \in Calls, d # c PROVE MemOK(d)'
  <2>1. pc'[d] = pc[d] /\ shape'[d] = shape[d] /\ caio'[d] = caio[d] /\ held'[d] = held[d]
    BY <1>1, <1>1a, <1>4 DEF AnsInv, AnsType, BaseInv, TypeOK
  <2>2. Calm(d)
    BY <1>1, CalmFrame
  <2> QED
    BY <1>1, <1>2, <2>1, <2>2, MemFrame DEF MemInv
<1> QED
  BY <1>1, <1>3, <1>4 DEF MemInv

\* A step of the call itself that settles and queues nothing: it goes to p at
\* segment g, holds h from then on and drops D.
Shifts(c, p, g, h, D) ==
  /\ pc' = [pc EXCEPT ![c] = p] /\ seg' = [seg EXCEPT ![c] = g]
  /\ held' = [held EXCEPT ![c] = h]
  /\ dropped' = [dropped EXCEPT ![c] = dropped[c] \cup D]
  /\ \/ caio' = caio
     \/ /\ caio' = [caio EXCEPT ![c] = [@ EXCEPT !.live = FALSE]]
        /\ p = "error"
        /\ <<"caio", 0>> \in D \/ \A s \in 1 .. MaxSegs : ~InFlight(c, s)
  /\ p = "submit" => <<"pages", g>> \in h
  /\ p \in {"init", "queue"} => \A e \in Needs(g) : e \in h
  /\ \A s \in 1 .. MaxSegs : InFlight(c, s) =>
       \A e \in Needs(s) : e \in held[c] => e \in h \/ e \in D
  /\ \A e \in h : \/ e \in held[c]
                  \/ \E s \in 1 .. Len(shape[c]) : Open(c, s, e)
  /\ \A e \in D :
       \/ e = <<"caio", 0>> /\ p = "error" /\ g > 1
       \/ \E s \in 1 .. Len(shape[c]) : e \in Mapped(s) /\ Len(tfer[c][s]) = 2

\* Such a step keeps the memory in order.
LEMMA MemMoves ==
  ASSUME BaseInv, AnsInv, MemInv, NEW c \in Calls,
         \A d \in Calls, s \in 1 .. MaxSegs : Same(d, s),
         UNCHANGED <<shape, result, astray, misfreed>>,
         \A d \in Calls : Calm(d),
         pc[c] # "idle", pc[c] # "error",
         NEW p, NEW g, NEW h, NEW D, Shifts(c, p, g, h, D)
  PROVE  MemInv'
<1> USE DEF Shifts
<1>1. /\ pc'[c] = p /\ seg'[c] = g /\ held'[c] = h
      /\ \A d \in Calls : d # c => /\ pc'[d] = pc[d] /\ seg'[d] = seg[d]
                                   /\ held'[d] = held[d] /\ caio'[d] = caio[d]
  BY DEF BaseInv, TypeOK, AnsInv, AnsType
<1>2. /\ dropped'[c] = dropped[c] \cup D
      /\ \A d \in Calls : d # c => dropped'[d] = dropped[d]
      /\ dropped' = [d \in Calls |-> dropped'[d]]
  BY DEF MemInv
<1>3. ASSUME NEW d \in Calls, d # c PROVE MemOK(d)'
  BY <1>1, <1>2, <1>3, MemFrame DEF MemInv
<1>4. MemOK(c)'
  <2>0. MemOK(c) /\ Calm(c)
    BY DEF MemInv
  <2>1. LiveOK(c)'
    <3>1. Same(c, 1) /\ Same(c, 2)
      BY DEF MaxSegs
    <3>2. Count(c)' = Count(c)
      BY <3>1, SameCount
    <3> QED
      BY <1>1, <1>2, <2>0, <3>2 DEF MemOK, LiveOK, Calm
  <2>2. ReqOK(c)'
    <3>1. \A s : Needs(s)' = Needs(s)
      BY DEF Needs, Mapped
    <3> QED
      BY <1>1, <1>2, <2>0, <3>1 DEF MemOK, ReqOK, Calm
  <2>3. DropOK(c)'
    <3>1. \A s : Mapped(s)' = Mapped(s)
      BY DEF Mapped
    <3>2. \A s \in 1 .. Len(shape[c]) : Len(tfer[c][s]) = 2 => Len(tfer'[c][s]) = 2
      BY <2>0, SegsIn DEF Calm
    <3>3. <<"caio", 0>> \notin dropped[c]
      BY <2>0, Kinds DEF MemOK, DropOK
    <3>4. ASSUME NEW e \in dropped'[c]
          PROVE  \/ e = <<"caio", 0>> /\ pc'[c] = "error" /\ seg'[c] > 1
                 \/ \E s \in 1 .. Len(shape'[c]) : e \in Mapped(s)' /\ Len(tfer'[c][s]) = 2
      <4>1. CASE e \in dropped[c]
        <5>1. \E s \in 1 .. Len(shape[c]) : e \in Mapped(s) /\ Len(tfer[c][s]) = 2
          BY <2>0, <3>3, <4>1 DEF MemOK, DropOK
        <5> QED
          BY <3>1, <3>2, <5>1
      <4>2. CASE e \in D
        BY <1>1, <3>1, <3>2, <4>2
      <4> QED
        BY <1>2, <3>4, <4>1, <4>2
    <3>5. c \in astray' => <<"caio", 0>> \in dropped'[c]
      BY <1>2, <2>0 DEF MemOK, DropOK
    <3> QED
      BY <3>4, <3>5 DEF DropOK
  <2>4. HeldOK(c)'
    BY <1>1, <2>0, SegsIn, HeldKeeps DEF MemOK
  <2> QED
    BY <2>1, <2>2, <2>3, <2>4 DEF MemOK
<1> QED
  BY <1>2, <1>3, <1>4 DEF MemInv

\* The steps that take and queue nothing: only AlignFails and QueueFails drop
\* something.
LEMMA MemQuiet ==
  ASSUME BaseInv, AnsInv, MemInv, NEW c \in Calls, Quiet(c)
  PROVE  MemInv'
<1>1. UNCHANGED <<shape, result, astray, misfreed, tfer, state>> /\ pc[c] # "idle"
  BY QuietMoves DEF Moves
<1>2. ASSUME NEW d \in Calls, NEW s \in 1 .. MaxSegs PROVE Same(d, s)
  BY <1>1, SameFrame
<1>3. /\ seg = [seg EXCEPT ![c] = seg[c]] /\ held = [held EXCEPT ![c] = held[c]]
      /\ seg[c] \in 1 .. Len(shape[c]) /\ seg[c] \in 1 .. MaxSegs
  BY <1>1, SegsIn DEF BaseInv, TypeOK, AnsInv, AnsType
<1>3a. ASSUME NEW d \in Calls PROVE Calm(d)
  BY <1>1, CalmFrame
<1>3b. dropped = [dropped EXCEPT ![c] = dropped[c] \cup {}]
  <2>1. dropped[c] \cup {} = dropped[c]
    OBVIOUS
  <2> QED
    BY <2>1 DEF MemInv
<1>3c. pc[c] # "error"
  BY DEF Quiet, AlignFails, PinFails, PinPages, SubmitFails, InitRequest,
     TferOverrun, QueueFails
<1>4. ASSUME NextSegment(c)
      PROVE  /\ \E p \in {"segment", "queued"} : pc' = [pc EXCEPT ![c] = p]
             /\ \E g : seg' = [seg EXCEPT ![c] = g]
  BY <1>3, <1>4 DEF NextSegment
<1>5. CASE AlignFails(c)
  <2> DEFINE h == held[c] \ {<<"caio", 0>>}
             D == IF \E s \in 1 .. MaxSegs : InFlight(c, s)
                  THEN {<<"caio", 0>>} ELSE {}
  <2>1. /\ caio' = [caio EXCEPT ![c] = [@ EXCEPT !.live = FALSE]]
        /\ held' = [held EXCEPT ![c] = h]
        /\ dropped' = [dropped EXCEPT ![c] = dropped[c] \cup D]
        /\ pc' = [pc EXCEPT ![c] = "error"] /\ seg' = [seg EXCEPT ![c] = seg[c]]
        /\ pc[c] = "segment"
    BY <1>3, <1>5 DEF AlignFails
  <2>2. ASSUME NEW s \in 1 .. MaxSegs, InFlight(c, s) PROVE seg[c] > 1
    <3>1. tfer[c][s] # <<>>
      BY <2>2, FlightBuilt DEF InFlight
    <3>2. s <= seg[c] /\ tfer[c][seg[c]] = <<>>
      BY <2>1, <3>1, SegIn DEF BaseInv, CallOK, Placed
    <3>3. s # seg[c]
      BY <3>1, <3>2
    <3> QED
      BY <1>3, <3>2, <3>3 DEF MaxSegs
  <2>3. \A e \in D : e = <<"caio", 0>> /\ seg[c] > 1
    BY <2>2
  <2>4. <<"caio", 0>> \in D \/ \A s \in 1 .. MaxSegs : ~InFlight(c, s)
    OBVIOUS
  <2>5. \A s \in 1 .. MaxSegs : \A e \in Needs(s) : e \in held[c] => e \in h
    BY Kinds
  <2>6. \A e \in h : e \in held[c]
    OBVIOUS
  <2> HIDE DEF h, D
  <2>7. "error" \notin {"init", "queue", "submit"}
    OBVIOUS
  <2> QED
    <3>1. Shifts(c, "error", seg[c], h, D)
      BY <2>1, <2>3, <2>4, <2>5, <2>6, <2>7 DEF Shifts
    <3> QED
      BY <1>1, <1>2, <1>3a, <1>3c, <3>1, MemMoves
<1>6. CASE PinFails(c) \/ TferOverrun(c)
  <2>1. PICK p \in {"error", "overrun"} : pc' = [pc EXCEPT ![c] = p]
    BY <1>6 DEF PinFails, TferOverrun
  <2>2. /\ caio' = caio /\ held' = [held EXCEPT ![c] = held[c]]
        /\ seg' = [seg EXCEPT ![c] = seg[c]]
        /\ dropped' = [dropped EXCEPT ![c] = dropped[c] \cup {}]
    BY <1>3, <1>3b, <1>6 DEF PinFails, TferOverrun, misuse
  <2> QED
    <3>1. Shifts(c, p, seg[c], held[c], {})
      BY <2>1, <2>2 DEF Shifts
    <3> QED
      BY <1>1, <1>2, <1>3a, <1>3c, <3>1, MemMoves
<1>7. CASE PinPages(c)
  <2> DEFINE h == held[c] \cup {<<"pages", seg[c]>>}
  <2>1. /\ caio' = caio /\ held' = [held EXCEPT ![c] = h]
        /\ pc' = [pc EXCEPT ![c] = "submit"] /\ seg' = [seg EXCEPT ![c] = seg[c]]
        /\ dropped' = [dropped EXCEPT ![c] = dropped[c] \cup {}]
        /\ pc[c] = "segment"
    BY <1>3, <1>3b, <1>7 DEF PinPages, misuse
  <2>2. Open(c, seg[c], <<"pages", seg[c]>>)
    BY <2>1, Unhandled DEF Open, FreedBySegment
  <2>3. \A e \in h : e \in held[c] \/ \E s \in 1 .. Len(shape[c]) : Open(c, s, e)
    BY <1>3, <2>2
  <2>4. <<"pages", seg[c]>> \in h /\ \A e \in held[c] : e \in h
    OBVIOUS
  <2> HIDE DEF h
  <2> QED
    <3>1. Shifts(c, "submit", seg[c], h, {})
      BY <2>1, <2>3, <2>4 DEF Shifts
    <3> QED
      BY <1>1, <1>2, <1>3a, <1>3c, <3>1, MemMoves
<1>8. CASE SubmitFails(c)
  <2>1. PICK p \in {"segment", "queued"} : pc' = [pc EXCEPT ![c] = p]
    BY <1>4, <1>8 DEF SubmitFails
  <2>1a. PICK g : seg' = [seg EXCEPT ![c] = g]
    BY <1>4, <1>8 DEF SubmitFails
  <2>2. /\ caio' = caio /\ held' = [held EXCEPT ![c] = held[c]]
        /\ dropped' = [dropped EXCEPT ![c] = dropped[c] \cup {}]
    BY <1>3, <1>3b, <1>8 DEF SubmitFails, misuse
  <2> QED
    <3>1. Shifts(c, p, g, held[c], {})
      BY <2>1, <2>1a, <2>2 DEF Shifts
    <3> QED
      BY <1>1, <1>2, <1>3a, <1>3c, <3>1, MemMoves
<1>9. CASE InitRequest(c)
  <2> DEFINE h == held[c] \cup Mapped(seg[c])
  <2>1. /\ caio' = caio /\ held' = [held EXCEPT ![c] = h] /\ pc[c] = "submit"
        /\ dropped' = [dropped EXCEPT ![c] = dropped[c] \cup {}]
    BY <1>3b, <1>9 DEF InitRequest, misuse
  <2>2. \A e \in Mapped(seg[c]) : Open(c, seg[c], e)
    BY <2>1, Unhandled, Kinds DEF Open
  <2>3. \A e \in h : e \in held[c] \/ \E s \in 1 .. Len(shape[c]) : Open(c, s, e)
    BY <1>3, <2>2
  <2>3a. <<"pages", seg[c]>> \in held[c]
    BY <2>1 DEF MemInv, MemOK, ReqOK
  <2>4. /\ \A e \in held[c] : e \in h
        /\ \A e \in Needs(seg[c]) : e \in h
    BY <2>3a, Kinds
  <2>5. \/ NextSegment(c)
        \/ pc' = [pc EXCEPT ![c] = "init"] /\ seg' = [seg EXCEPT ![c] = seg[c]]
    BY <1>3, <1>9 DEF InitRequest
  <2> HIDE DEF h
  <2>6. CASE NextSegment(c)
    <3>1. PICK p \in {"segment", "queued"} : pc' = [pc EXCEPT ![c] = p]
      BY <1>4, <2>6
    <3>1a. PICK g : seg' = [seg EXCEPT ![c] = g]
      BY <1>4, <2>6
    <3> QED
      <4>1z. Shifts(c, p, g, h, {})
        BY <2>1, <2>3, <2>4, <3>1, <3>1a DEF Shifts
      <4> QED
        BY <1>1, <1>2, <1>3a, <1>3c, <4>1z, MemMoves
  <2>7. CASE pc' = [pc EXCEPT ![c] = "init"] /\ seg' = [seg EXCEPT ![c] = seg[c]]
    <3>1. Shifts(c, "init", seg[c], h, {})
      BY <2>1, <2>3, <2>4, <2>7 DEF Shifts
    <3> QED
      BY <1>1, <1>2, <1>3a, <1>3c, <3>1, MemMoves
  <2> QED
    BY <2>5, <2>6, <2>7
<1>10. CASE QueueFails(c)
  <2> DEFINE h == held[c] \ Mapped(seg[c])
             D == IF InFlight(c, seg[c]) THEN Mapped(seg[c]) ELSE {}
  <2>1. /\ caio' = caio /\ held' = [held EXCEPT ![c] = h] /\ pc[c] = "queue"
        /\ dropped' = [dropped EXCEPT ![c] = dropped[c] \cup D]
    BY <1>10 DEF QueueFails
  <2>2. PICK p \in {"segment", "queued"} : pc' = [pc EXCEPT ![c] = p]
    BY <1>4, <1>10 DEF QueueFails
  <2>2a. PICK g : seg' = [seg EXCEPT ![c] = g]
    BY <1>4, <1>10 DEF QueueFails
  <2>3. ASSUME InFlight(c, seg[c]) PROVE Len(tfer[c][seg[c]]) = 2
    <3>1. PICK k \in 1 .. 2 : state[<<c, seg[c], k>>] = "SUBMITTED"
      BY <2>3 DEF InFlight
    <3>2. PICK m : m = Len(tfer[c][seg[c]])
      OBVIOUS
    <3>3. m \in 1 .. 2 /\ k <= m
      BY <1>3, <3>1, <3>2, FlightBuilt
    <3>4. state[<<c, seg[c], m>>] = "NEW"
      BY <2>1, <3>2 DEF BaseInv, CallOK, CutOK, Built
    <3>5. k # m
      BY <3>1, <3>4
    <3>6. m = 2
      BY <3>3, <3>5
    <3> QED
      BY <3>2, <3>6
  <2>4. \A e \in D : \E s \in 1 .. Len(shape[c]) : e \in Mapped(s) /\ Len(tfer[c][s]) = 2
    BY <1>3, <2>3
  <2>5. ASSUME NEW s \in 1 .. MaxSegs, InFlight(c, s), NEW e \in Needs(s), e \in held[c]
        PROVE  e \in h \/ e \in D
    <3>1. CASE s = seg[c]
      BY <2>5, <3>1
    <3>2. CASE s # seg[c]
      BY <2>5, <3>2, Kinds
    <3> QED
      BY <3>1, <3>2
  <2>6. \A e \in h : e \in held[c]
    OBVIOUS
  <2> HIDE DEF h, D
  <2> QED
    <3>1. Shifts(c, p, g, h, D)
      BY <2>1, <2>2, <2>2a, <2>4, <2>5, <2>6 DEF Shifts
    <3> QED
      BY <1>1, <1>2, <1>3a, <1>3c, <3>1, MemMoves
<1> QED
  BY <1>5, <1>6, <1>7, <1>8, <1>9, <1>10 DEF Quiet

\* transfer_init() and transfer_queue().
LEMMA MemTakes ==
  ASSUME BaseInv, BaseInv', AnsInv, MemInv, NEW c \in Calls, NEW t, Takes(c, t),
         UNCHANGED <<caio, held, result, astray, misfreed, dropped>>
  PROVE  MemInv'
<1>1. /\ pc[c] = "init" /\ pc' = [pc EXCEPT ![c] = "queue"] /\ UNCHANGED <<shape, seg, state>>
      /\ tfer' = [tfer EXCEPT ![c][seg[c]] = Append(@, t)]
      /\ Len(tfer[c][seg[c]]) = 0 \/ Len(tfer[c][seg[c]]) = 1
  BY DEF Takes
<1>2. seg' = [seg EXCEPT ![c] = seg[c]] /\ held' = [held EXCEPT ![c] = held[c]]
  BY <1>1 DEF BaseInv, TypeOK, AnsInv, AnsType
<1>3. \A e \in Needs(seg[c]) : e \in held[c]
  BY <1>1 DEF MemInv, MemOK, ReqOK
<1>4. dropped' = [dropped EXCEPT ![c] = dropped[c] \cup {}]
  <2>1. dropped[c] \cup {} = dropped[c]
    OBVIOUS
  <2> QED
    BY <2>1 DEF MemInv
<1>5. ASSUME NEW d \in Calls PROVE Calm(d)
  <2>1. \A s \in 1 .. MaxSegs : InFlight(d, s)' => InFlight(d, s)
    BY <1>1 DEF InFlight
  <2>2. ASSUME NEW s \in 1 .. MaxSegs, Len(tfer[d][s]) = 2 PROVE Len(tfer'[d][s]) = 2
    <3>1. CASE d = c /\ s = seg[c]
      <4>1. Len(tfer[c][seg[c]]) = 2
        BY <2>2, <3>1
      <4> QED
        BY <1>1, <4>1
    <3>2. CASE ~(d = c /\ s = seg[c])
      <4>1. tfer' = [tfer EXCEPT ![c][seg[c]] = Append(@, t)]
        BY <1>1
      <4>2. tfer'[d][s] = tfer[d][s]
        BY <3>2, <4>1 DEF BaseInv, TypeOK
      <4> QED
        BY <2>2, <4>2
    <3> QED
      BY <3>1, <3>2
  <2> QED
    BY <2>1, <2>2 DEF Calm
<1>6. \A d \in Calls, s \in 1 .. MaxSegs : Same(d, s)
  BY TakesSame
<1> QED
  <2>1. Shifts(c, "queue", seg[c], held[c], {})
    BY <1>1, <1>2, <1>3, <1>4 DEF Shifts
  <2> QED
    BY <1>1, <1>5, <1>6, <2>1, MemMoves

\* See above.
LEMMA MemQueues ==
  ASSUME BaseInv, AnsInv, MemInv, NEW c \in Calls, Queues(c, Built(c)),
         UNCHANGED <<caio, held, result, astray, misfreed, dropped>>
  PROVE  MemInv'
<1>1. /\ pc[c] = "queue" /\ UNCHANGED <<shape, tfer>>
      /\ state' = [state EXCEPT ![Built(c)] = "SUBMITTED"] /\ Built(c)[2] = seg[c]
      /\ Built(c)[1] = c
      /\ \E p, g : /\ pc' = [pc EXCEPT ![c] = p] /\ seg' = [seg EXCEPT ![c] = g]
                   /\ p \in {"init", "queued", "segment"}
                   /\ p = "init" => g = seg[c]
  <2>1. seg = [seg EXCEPT ![c] = seg[c]]
    BY DEF BaseInv, TypeOK
  <2>2. \/ pc' = [pc EXCEPT ![c] = "init"] /\ seg' = seg
        \/ pc' = [pc EXCEPT ![c] = "queued"] /\ seg' = seg
        \/ pc' = [pc EXCEPT ![c] = "segment"] /\ seg' = [seg EXCEPT ![c] = seg[c] + 1]
    BY DEF Queues
  <2>3. \E p, g : /\ pc' = [pc EXCEPT ![c] = p] /\ seg' = [seg EXCEPT ![c] = g]
                  /\ p \in {"init", "queued", "segment"}
                  /\ p = "init" => g = seg[c]
    <3>1. "init" # "segment"
      OBVIOUS
    <3> QED
      BY <2>1, <2>2, <3>1, Zenon
  <2>4. /\ pc[c] = "queue" /\ UNCHANGED <<shape, tfer>>
        /\ state' = [state EXCEPT ![Built(c)] = "SUBMITTED"]
    BY DEF Queues
  <2>5. Built(c)[2] = seg[c] /\ Built(c)[1] = c
    BY DEF Built
  <2> QED
    BY <2>3, <2>4, <2>5
<1>2. PICK p, g : /\ pc' = [pc EXCEPT ![c] = p] /\ seg' = [seg EXCEPT ![c] = g]
                  /\ p \in {"init", "queued", "segment"}
                  /\ p = "init" => g = seg[c]
  BY <1>1
<1>3. /\ pc'[c] = p /\ seg'[c] = g
      /\ \A d \in Calls : d # c => pc'[d] = pc[d] /\ seg'[d] = seg[d]
  BY <1>2 DEF BaseInv, TypeOK
<1>4. \A d \in Calls, s \in 1 .. MaxSegs : Same(d, s)
  BY QueuesSame
<1>5. ASSUME NEW d \in Calls, NEW s \in 1 .. MaxSegs, NEW k \in 1 .. 2,
             state'[<<d, s, k>>] = "SUBMITTED"
      PROVE  state[<<d, s, k>>] = "SUBMITTED" \/ (d = c /\ s = seg[c])
  <2>1. <<d, s, k>> \in Xfers
    BY DEF Xfers
  <2>2. CASE <<d, s, k>> = Built(c)
    BY <1>1, <2>2
  <2>3. CASE <<d, s, k>> # Built(c)
    BY <1>1, <1>5, <2>1, <2>3 DEF BaseInv, TypeOK
  <2> QED
    BY <2>2, <2>3
<1>6. ASSUME NEW d \in Calls, d # c PROVE MemOK(d)'
  <2>1. Calm(d)
    BY <1>1, <1>5, <1>6, CalmFrame
  <2> QED
    BY <1>1, <1>3, <1>4, <1>6, <2>1, MemFrame DEF MemInv
<1>7. MemOK(c)'
  <2>0. MemOK(c)
    BY DEF MemInv
  <2>1. LiveOK(c)'
    <3>1. Same(c, 1) /\ Same(c, 2)
      BY <1>4 DEF MaxSegs
    <3>2. Count(c)' = Count(c)
      BY <3>1, SameCount
    <3> QED
      BY <1>1, <2>0, <3>2 DEF MemOK, LiveOK
  <2>2. \A h \in Needs(seg[c]) : h \in held[c]
    BY <1>1, <2>0 DEF MemOK, ReqOK
  <2>3. ReqOK(c)'
    <3>1. \A s : Needs(s)' = Needs(s)
      BY DEF Needs, Mapped
    <3>2. \A s \in 1 .. MaxSegs : InFlight(c, s)' => InFlight(c, s) \/ s = seg[c]
      BY <1>5 DEF InFlight
    <3> QED
      BY <1>2, <1>3, <2>0, <2>2, <3>1, <3>2 DEF MemOK, ReqOK
  <2>4. DropOK(c)'
    <3>1. \A s : Mapped(s)' = Mapped(s)
      BY DEF Mapped
    <3>2. pc[c] # "error"
      BY <1>1
    <3> QED
      BY <1>1, <2>0, <3>1, <3>2 DEF MemOK, DropOK
  <2>5. HeldOK(c)'
    BY <1>1, <1>4, <2>0, SegsIn, HeldKeeps DEF MemOK
  <2> QED
    BY <2>1, <2>3, <2>4, <2>5 DEF MemOK
<1> QED
  BY <1>6, <1>7 DEF MemInv

\* The bottom half: the handler finds the caio alive, or dropped, and frees
\* what the segment held, and nothing else that is in use.
LEMMA MemCompletes ==
  ASSUME BaseInv, BaseInv', AnsInv, AnsInv', MemInv,
         NEW c \in Calls, NEW s \in 1 .. MaxSegs, Completes(c, s),
         \A x \in Xfers : state'[x] = "SUBMITTED" => state[x] = "SUBMITTED"
  PROVE  MemInv'
<1>1. /\ ~Handled(c, s) /\ UNCHANGED <<pc, shape, seg, tfer>> /\ tfer[c][s] # <<>>
      /\ \A d \in Calls, r \in 1 .. MaxSegs : ~(d = c /\ r = s) => Same(d, r)
      /\ InFlight(c, s)
  BY DEF Completes
<1>2. \A d \in Calls, r \in 1 .. MaxSegs, k \in 1 .. 2 :
        state'[<<d, r, k>>] = "SUBMITTED" => state[<<d, r, k>>] = "SUBMITTED"
  BY DEF Xfers
<1>2a. ASSUME NEW d \in Calls PROVE Calm(d)
  BY <1>1, <1>2, CalmFrame
<1>3. /\ pc[c] # "idle" /\ s \in 1 .. Len(shape[c]) /\ s <= seg[c]
      /\ Count(c) # Len(shape[c])
  BY <1>1, SegIn, CountFacts
<1>4. /\ \A r : Needs(r)' = Needs(r)
      /\ \A r : Mapped(r)' = Mapped(r)
  BY DEF Needs, Mapped
<1>5. dropped = [d \in Calls |-> dropped[d]]
  BY DEF MemInv
<1>6. MemOK(c)
  BY DEF MemInv
<1>7. CASE ~Handled(c, s)' /\ UNCHANGED <<caio, held, result, misuse>>
  <2>1. ASSUME NEW d \in Calls PROVE MemOK(d)'
    <3>1. ASSUME NEW r \in 1 .. MaxSegs PROVE Same(d, r)
      BY <1>1, <1>7, SameNot
    <3>2. UNCHANGED <<astray, misfreed, dropped>>
      BY <1>7 DEF misuse
    <3> QED
      BY <1>1, <1>2a, <1>7, <3>1, <3>2, MemFrame DEF MemInv
  <2> QED
    BY <1>5, <1>7, <2>1 DEF MemInv, misuse
<1>9. CASE /\ ~caio[c].live /\ astray' = astray \cup {c}
           /\ UNCHANGED <<caio, held, result, misfreed, dropped>>
  <2>1. pc[c] = "error" /\ <<"caio", 0>> \in dropped[c]
    BY <1>1, <1>3, <1>6, <1>9 DEF MemOK, LiveOK
  <2>2. ASSUME NEW d \in Calls, d # c PROVE MemOK(d)'
    <3>1. ASSUME NEW r \in 1 .. MaxSegs PROVE Same(d, r)
      BY <1>1, <2>2
    <3> QED
      BY <1>1, <1>2a, <1>9, <2>2, <3>1, MemFrame DEF MemInv
  <2>3. LiveOK(c)'
    BY <1>1, <1>9, <2>1 DEF LiveOK
  <2>4. ReqOK(c)'
    BY <1>1, <1>2a, <1>4, <1>6, <1>9 DEF MemOK, ReqOK, Calm
  <2>5. DropOK(c)'
    BY <1>1, <1>4, <1>6, <1>9, <2>1 DEF MemOK, DropOK
  <2>6. HeldOK(c)'
    BY <1>1, <1>6, <1>9 DEF MemOK, HeldOK
  <2>7. MemOK(c)'
    BY <2>3, <2>4, <2>5, <2>6 DEF MemOK
  <2> QED
    BY <1>5, <1>9, <2>2, <2>7 DEF MemInv
<1>8. CASE Handled(c, s)' /\ Handles(c, s, Moved(c, s)')
  <2>1. PICK n, e, b : n = Len(shape[c]) /\ e = caio[c].cmpl /\ b = Moved(c, s)'
    OBVIOUS
  <2> DEFINE over == e + 1 = n
  <2>2. /\ caio' = [caio EXCEPT ![c] = [live |-> ~over, cmpl |-> e + 1,
                                        res |-> caio[c].res + b]]
        /\ held' = [held EXCEPT ![c] = (held[c] \ FreedBySegment(s))
                                       \ (IF over THEN FreedByLast(s) ELSE {})]
        /\ result' = IF over THEN [result EXCEPT ![c] = Append(@, caio[c].res + b)]
                     ELSE result
        /\ misfreed' = IF over /\ s # 1 THEN misfreed \cup {c} ELSE misfreed
        /\ UNCHANGED <<astray, dropped>>
    BY <1>8, <2>1 DEF Handles
  <2>3. /\ held'[c] = (held[c] \ FreedBySegment(s)) \ (IF over THEN FreedByLast(s) ELSE {})
        /\ ~over => result'[c] = result[c]
        /\ \A d \in Calls : d # c => /\ held'[d] = held[d] /\ caio'[d] = caio[d]
                                     /\ result'[d] = result[d]
    <3> HIDE DEF over
    <3> QED
      BY <2>2 DEF AnsInv, AnsType
  <2>3a. /\ \A d \in Calls : d # c => (d \in misfreed' <=> d \in misfreed)
         /\ ~over => (c \in misfreed' <=> c \in misfreed)
         /\ over /\ s # 1 => c \in misfreed'
         /\ over /\ s = 1 => (c \in misfreed' <=> c \in misfreed)
    <3> HIDE DEF over
    <3> QED
      BY <2>2
  <2>4. ASSUME NEW d \in Calls, d # c PROVE MemOK(d)'
    <3>1. ASSUME NEW r \in 1 .. MaxSegs PROVE Same(d, r)
      BY <1>1, <2>4
    <3> QED
      BY <1>1, <1>2a, <2>2, <2>3, <2>3a, <2>4, <3>1, MemFrame DEF MemInv
  <2>4a. ASSUME over PROVE result'[c] # <<>>
    <3>1. result'[c] = Append(result[c], caio[c].res + b)
      BY <2>2, <2>4a DEF AnsInv, AnsType
    <3>2. result[c] \in Seq(Nat) /\ caio[c].res + b \in Nat
      <4>1. caio'[c].res = caio[c].res + b
        <5> HIDE DEF over
        <5> QED
          BY <2>2 DEF AnsInv, AnsType
      <4>2. caio'[c].res \in Nat
        BY DEF AnsInv, AnsType
      <4> QED
        BY <4>1, <4>2 DEF AnsInv, AnsType
    <3>3. PICK q, v : q = result[c] /\ v = caio[c].res + b
      OBVIOUS
    <3>4. Append(q, v) # <<>>
      BY <3>2, <3>3, AppendProperties
    <3> QED
      BY <3>1, <3>3, <3>4
  <2>5. LiveOK(c)'
    <3>1. CASE over
      <4>1. Count(c)' = Len(shape'[c])
        BY <2>4a, <3>1 DEF AnsInv, AnsOK
      <4> QED
        BY <4>1 DEF LiveOK
    <3>2. CASE ~over
      <4>1. caio'[c] = [live |-> ~over, cmpl |-> e + 1, res |-> caio[c].res + b]
        <5> HIDE DEF over
        <5> QED
          BY <2>2 DEF AnsInv, AnsType
      <4>2. (~over) = TRUE
        BY <3>2, Zenon
      <4>3. caio'[c] = [live |-> TRUE, cmpl |-> e + 1, res |-> caio[c].res + b]
        BY <4>1, <4>2, Zenon
      <4>4. caio'[c].live
        BY <4>3
      <4> QED
        BY <4>4 DEF LiveOK
    <3> QED
      BY <3>1, <3>2
  <2>6. \A r, h : r # s /\ h \in FreedBySegment(r) /\ h \in held[c] => h \in held'[c]
    <3> HIDE DEF over
    <3> QED
      BY <2>3, Kinds
  <2>7. ReqOK(c)'
    <3>0. PICK m : m = Len(tfer[c][s])
      OBVIOUS
    <3>1. /\ m = 1 \/ m = 2
          /\ tfer[c][s][m].last /\ state'[<<c, s, m>>] \in {"COMPLETED", "FAILED"}
      BY <1>1, <1>8, <3>0, TferFacts DEF Handled, Final, Settled
    <3>2. ASSUME pc[c] \in {"init", "queue"}, seg[c] = s PROVE FALSE
      <4>1. m \in 1 .. m
        BY <3>1
      <4>2. CASE pc[c] = "init"
        BY <3>0, <3>1, <3>2, <4>1, <4>2 DEF BaseInv, CallOK, CutOK
      <4>3. CASE pc[c] = "queue"
        <5>1. state'[<<c, s, m>>] = "NEW"
          BY <1>1, <3>0, <3>2, <4>3 DEF BaseInv, CallOK, CutOK, Built
        <5> QED
          BY <3>1, <5>1
      <4> QED
        BY <3>2, <4>2, <4>3
    <3>2a. ASSUME pc[c] = "submit", seg[c] = s PROVE FALSE
      BY <1>1, <3>2a DEF BaseInv, CallOK, Placed
    <3>3. ASSUME NEW k \in 1 .. 2, state'[<<c, s, k>>] = "SUBMITTED" PROVE FALSE
      <4>1. <<c, s, k>> \in Xfers
        BY DEF Xfers
      <4>2. CASE m = 1
        <5>1. k # 1
          BY <3>1, <3>3, <4>2
        <5>2. k > Len(tfer'[c][s])
          BY <1>1, <3>0, <4>2, <5>1
        <5> QED
          BY <3>3, <4>1, <5>2 DEF BaseInv, StateOK
      <4>3. CASE m = 2
        <5>1. state'[<<c, s, 1>>] \in {"COMPLETED", "FAILED"}
          BY <3>1, <4>3 DEF BaseInv, StateOK, Settled
        <5>2. k = 1 \/ k = 2
          OBVIOUS
        <5> QED
          BY <3>1, <3>3, <4>3, <5>1, <5>2
      <4> QED
        BY <3>1, <4>2, <4>3
    <3>4. ~InFlight(c, s)'
      BY <3>3 DEF InFlight
    <3>5. \A r \in 1 .. MaxSegs : InFlight(c, r)' => InFlight(c, r) /\ r # s
      BY <1>2a, <3>4 DEF Calm
    <3>6. \A r, h : h \in Needs(r) /\ r # s /\ h \in held[c] => h \in held'[c]
      BY <2>6, Kinds
    <3>7. pc[c] = "submit" => <<"pages", seg[c]>> \in held'[c]
      BY <1>6, <2>6, <3>2a, Kinds DEF MemOK, ReqOK
    <3>8. pc[c] \in {"init", "queue"} => \A h \in Needs(seg[c]) : h \in held'[c]
      BY <1>6, <3>2, <3>6 DEF MemOK, ReqOK
    <3>9. ASSUME NEW r \in 1 .. MaxSegs, InFlight(c, r)', NEW h \in Needs(r)
          PROVE  h \in held'[c] \/ h \in dropped'[c]
      BY <1>6, <2>2, <3>5, <3>6, <3>9 DEF MemOK, ReqOK
    <3> QED
      BY <1>1, <1>4, <3>7, <3>8, <3>9 DEF ReqOK
  <2>7a. DropOK(c)'
    BY <1>1, <1>4, <1>6, <2>2 DEF MemOK, DropOK
  <2>8. HeldOK(c)'
    <3>1. ASSUME NEW h \in held'[c]
          PROVE  \/ h = <<"caio", 0>> \/ h = <<"cb", 0>> \/ c \in astray'
                 \/ \E r \in 1 .. Len(shape[c]) : Open(c, r, h)'
      <4>1. h \in held[c] /\ h \notin FreedBySegment(s)
        BY <2>3, <3>1
      <4>2. ASSUME NEW r \in 1 .. Len(shape[c]), Open(c, r, h) PROVE Open(c, r, h)'
        <5>1. r # s
          BY <4>1, <4>2 DEF Open
        <5>2. Same(c, r)
          BY <1>1, <5>1, SegsIn
        <5> QED
          BY <4>2, <5>2 DEF Open, Same, FreedBySegment
      <4> QED
        BY <1>6, <2>2, <4>1, <4>2 DEF MemOK, HeldOK
    <3>2. CASE over
      <4>1. <<"caio", 0>> \notin held'[c]
        BY <2>3, <3>2 DEF FreedByLast
      <4>2. ASSUME c \notin misfreed' PROVE <<"cb", 0>> \notin held'[c]
        <5>1. s = 1
          BY <2>3a, <3>2, <4>2
        <5> QED
          BY <2>3, <3>2, <5>1 DEF FreedByLast
      <4>3. c \in misfreed' => n > 1
        <5>1. c \notin misfreed
          <6>1. result[c] = <<>>
            BY <1>3 DEF AnsInv, AnsOK
          <6> QED
            BY <1>6, <6>1 DEF MemOK, HeldOK
        <5>2. c \in misfreed' => s # 1
          BY <2>3a, <3>2, <5>1
        <5>3. s \in 1 .. n /\ n \in {1, 2}
          <6>1. n = 1 \/ n = 2
            BY <1>3, <2>1, CountFacts, ShapeFacts
          <6> QED
            BY <1>3, <2>1, <6>1
        <5> QED
          BY <5>2, <5>3
      <4> QED
        BY <1>1, <2>1, <2>4a, <3>1, <3>2, <4>1, <4>2, <4>3 DEF HeldOK
    <3>3. CASE ~over
      <4>1. \A h \in held'[c] : h \in held[c]
        BY <2>3
      <4>2. result'[c] = result[c] /\ (c \in misfreed' <=> c \in misfreed)
        BY <2>3, <2>3a, <3>3
      <4> QED
        BY <1>1, <1>6, <3>1, <4>1, <4>2 DEF MemOK, HeldOK
    <3> QED
      BY <3>2, <3>3
  <2>9. MemOK(c)'
    BY <2>5, <2>7, <2>7a, <2>8 DEF MemOK
  <2>10. dropped' = [d \in Calls |-> dropped'[d]]
    BY <1>5, <2>2
  <2> QED
    BY <2>4, <2>9, <2>10 DEF MemInv
<1> QED
  BY <1>7, <1>8, <1>9 DEF Completes

\* Every step keeps the memory in order.
LEMMA MemStep ==
  ASSUME BaseInv, AnsInv, MemInv, [Next]_vars
  PROVE  MemInv'
<1>0. BaseInv' /\ AnsInv'
  BY BaseStep, AnsStep
<1>1. CASE UNCHANGED <<pc, shape, seg, tfer, state, caio, held, result, misuse>>
  <2>0. UNCHANGED <<astray, misfreed, dropped>>
    BY <1>1 DEF misuse
  <2>1. ASSUME NEW d \in Calls, NEW s \in 1 .. MaxSegs PROVE Same(d, s)
    BY <1>1, SameFrame
  <2>2. ASSUME NEW d \in Calls PROVE MemOK(d)'
    <3>1. Calm(d)
      BY <1>1, CalmFrame
    <3> QED
      BY <1>1, <2>0, <2>1, <3>1, MemFrame DEF MemInv
  <2> QED
    BY <2>0, <2>2 DEF MemInv
<1>2. ASSUME NEW c \in Calls, AioCall(c) PROVE MemInv'
  BY <1>2, MemCall
<1>3. ASSUME NEW c \in Calls, Quiet(c) PROVE MemInv'
  BY <1>3, MemQuiet
<1>4. ASSUME NEW c \in Calls, TransferInit(c), NEW t, Takes(c, t) PROVE MemInv'
  <2>1. UNCHANGED <<caio, held, result, astray, misfreed, dropped>>
    BY <1>4 DEF TransferInit, misuse
  <2> QED
    BY <1>0, <1>4, <2>1, MemTakes
<1>5. ASSUME NEW c \in Calls, TransferQueue(c), Queues(c, Built(c)) PROVE MemInv'
  <2>1. UNCHANGED <<caio, held, result, astray, misfreed, dropped>>
    BY <1>5 DEF TransferQueue, misuse
  <2> QED
    BY <1>5, <2>1, MemQueues
<1>6. CASE EngineCompletes
  <2>1. PICK c \in Calls, s \in 1 .. MaxSegs : Completes(c, s)
    BY <1>6, EngineCompletesOne
  <2>2. PICK v : Settles(list[1], v)
    BY <1>6, CompletesSettles
  <2>3. list[1] \in Xfers /\ v \in {"COMPLETED", "FAILED"}
    BY <2>2, Shorter DEF Settles
  <2>4. \A x \in Xfers : state'[x] = "SUBMITTED" => state[x] = "SUBMITTED"
    BY <2>2, <2>3 DEF Settles, BaseInv, TypeOK
  <2> QED
    BY <1>0, <2>1, <2>4, MemCompletes
<1>7. CASE HardwareMoves \/ EngineStalls
  BY <1>1, <1>7 DEF HardwareMoves, EngineStalls, Engine!Finish, calls, ring
<1>8. CASE UNCHANGED vars
  BY <1>1, <1>8 DEF vars
<1> QED
  BY <1>2, <1>3, <1>4, <1>5, <1>6, <1>7, <1>8, Steps

\* The async path keeps its memory in order but for the places MemoryKept names
\* (cdev_aio_write, xdma_xfer_submit_nowait, async_io_handler): for every set
\* of calls, every shape, every ring and every failure.
THEOREM MemoryStaysKept == Spec => []MemoryKept
<1> DEFINE I == BaseInv /\ CutInv /\ AnsInv /\ MemInv
<1>1. Init => I
  BY BaseInit, CutInit, AnsInit, MemInit
<1>2. I /\ [Next]_vars => I'
  <2> SUFFICES ASSUME I, [Next]_vars PROVE I'
    OBVIOUS
  <2>1. BaseInv' /\ CutInv' /\ AnsInv'
    BY BaseStep, CutStep, AnsStep
  <2>2. MemInv'
    BY MemStep
  <2> QED
    BY <2>1, <2>2
<1>3. I => MemoryKept
  <2> SUFFICES ASSUME BaseInv, CutInv, AnsInv, MemInv PROVE MemoryKept
    OBVIOUS
  <2>1. ASSUME NEW i \in DOMAIN list
        PROVE  Needs(list[i][2]) \subseteq held[list[i][1]] \cup dropped[list[i][1]]
    <3>1. i \in 1 .. Len(list)
      BY LenProperties DEF BaseInv, TypeOK
    <3>2. list[i] \in Xfers /\ state[list[i]] = "SUBMITTED"
      BY <3>1, ListedUnhandled
    <3>3. PICK c, s, k : c = list[i][1] /\ s = list[i][2] /\ k = list[i][3]
      OBVIOUS
    <3>4. /\ c \in Calls /\ s \in 1 .. MaxSegs /\ k \in 1 .. 2
          /\ state[<<c, s, k>>] = "SUBMITTED"
      BY <3>2, <3>3, XferParts
    <3>5. InFlight(c, s)
      BY <3>4 DEF InFlight
    <3>6. \A h \in Needs(s) : h \in held[c] \/ h \in dropped[c]
      BY <3>4, <3>5 DEF MemInv, MemOK, ReqOK
    <3> QED
      BY <3>3, <3>6
  <2>2. ASSUME NEW c \in Calls, pc[c] = "overrun" PROVE crossed
    BY <2>2, OverrunCrossed
  <2>2a. ASSUME NEW c \in Calls
         PROVE  DOMAIN shape[c] = 1 .. Len(shape[c])
    <3>1. CASE shape[c] \in Shapes
      BY <3>1, ShapeFacts, LenProperties
    <3>2. CASE shape[c] = <<>>
      BY <3>2
    <3> QED
      BY <3>1, <3>2 DEF BaseInv, TypeOK
  <2>3. ASSUME NEW c \in Calls, NEW s \in DOMAIN shape[c]
        PROVE  Len(Descs(c, s)) <= Allocated(shape[c][s])
    <3>1. shape[c] \in Shapes
      BY <2>3 DEF BaseInv, TypeOK
    <3>2. s \in 1 .. Len(shape[c])
      BY <3>1, ShapeFacts, LenProperties
    <3>3. shape[c][s] \in Seq(Nat)
      BY <3>1, <3>2, ShapeFacts
    <3> QED
      BY <3>3, SoftDescsFacts DEF Descs
  <2>4. ASSUME NEW c \in Calls, result[c] # <<>>
        PROVE  held[c] \subseteq (IF c \in misfreed THEN {<<"cb", 0>>} ELSE {})
    <3>1. pc[c] # "idle" /\ Count(c) = Len(shape[c])
      BY <2>4 DEF AnsInv, AnsOK
    <3>2. \A s \in 1 .. Len(shape[c]) : Handled(c, s)
      BY <3>1, CountFacts
    <3>3. HeldOK(c) /\ DropOK(c)
      BY DEF MemInv, MemOK
    <3>4. pc[c] # "error"
      BY <3>1, <3>2, SegsIn, Unhandled
    <3>5. c \notin astray
      BY <3>3, <3>4, Kinds DEF DropOK
    <3>6. ASSUME NEW h \in held[c] PROVE h = <<"cb", 0>> /\ c \in misfreed
      BY <2>4, <3>2, <3>3, <3>5 DEF HeldOK, Open
    <3> QED
      BY <3>6
  <2>5. ASSUME NEW c \in Calls
        PROVE  /\ \A h \in dropped[c] :
                    \/ h = <<"caio", 0>> /\ pc[c] = "error" /\ seg[c] > 1
                    \/ \E s \in DOMAIN shape[c] : h \in Mapped(s) /\ Len(tfer[c][s]) = 2
               /\ c \in astray => <<"caio", 0>> \in dropped[c]
               /\ c \in misfreed => result[c] # <<>> /\ Len(shape[c]) > 1
    BY <2>2a DEF MemInv, MemOK, DropOK, HeldOK
  <2> QED
    BY <2>1, <2>2, <2>3, <2>4, <2>5 DEF MemoryKept
<1> HIDE DEF I
<1> QED
  BY <1>1, <1>2, <1>3, PTL DEF Spec
=============================================================================
