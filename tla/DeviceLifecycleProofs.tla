------------------------ MODULE DeviceLifecycleProofs ------------------------
(***************************************************************************)
(* Proofs about the life of a device, for every number of channels and of  *)
(* user interrupts and every choice of the calls that may fail.            *)
(***************************************************************************)
EXTENDS DeviceLifecycle, SequenceTheorems, TLAPS

USE LimitsAssumption, FaultsAssumption

-----------------------------------------------------------------------------
(***************************************************************************)
(* The nodes of a device: what xpdev_create_interfaces may create, group   *)
(* after group.                                                            *)
(***************************************************************************)
Node ==
  ({"CTRL", "USER", "XVC", "BYPASS"} \X {0})
    \cup ({"EVENTS"} \X (0 .. MAX_USER_IRQ - 1))
    \cup ({"H2C", "C2H", "BYPASS_H2C", "BYPASS_C2H"} \X (0 .. XDMA_CHANNEL_NUM_MAX - 1))

\* The place of a node's group in the order of creation.
Rank(node) ==
  CASE node[1] = "CTRL" -> 1
    [] node[1] = "EVENTS" -> 2
    [] node[1] \in {"H2C", "C2H"} -> 3
    [] node[1] \in {"BYPASS_H2C", "BYPASS_C2H", "BYPASS"} -> 4
    [] node[1] = "USER" -> 5
    [] node[1] = "XVC" -> 6

\* Nodes of the groups from lo to hi, in the order of their groups.
Ordered(s, lo, hi) ==
  /\ s \in Seq(Node)
  /\ \A k \in 1 .. Len(s) : lo <= Rank(s[k]) /\ Rank(s[k]) <= hi
  /\ \A j, k \in 1 .. Len(s) : j <= k => Rank(s[j]) <= Rank(s[k])

\* A rank is a number, and a group has one.
LEMMA RankGroup ==
  ASSUME NEW m \in Node, NEW n \in Node
  PROVE  Rank(m) \in 1 .. 6 /\ (Group(m) = Group(n) <=> Rank(m) = Rank(n))
<1>1. /\ m[1] \in {"CTRL", "USER", "XVC", "BYPASS", "EVENTS", "H2C", "C2H",
                   "BYPASS_H2C", "BYPASS_C2H"}
      /\ n[1] \in {"CTRL", "USER", "XVC", "BYPASS", "EVENTS", "H2C", "C2H",
                   "BYPASS_H2C", "BYPASS_C2H"}
  BY DEF Node
<1> QED
  BY <1>1 DEF Rank, Group

\* Groups that follow one another.
LEMMA OrderedConcat ==
  ASSUME NEW s, NEW t, NEW a \in Nat, NEW b \in Nat, NEW c \in Nat, NEW d \in Nat,
         Ordered(s, a, b), Ordered(t, c, d), b <= c, a <= c, b <= d
  PROVE  Ordered(s \o t, a, d)
<1> DEFINE u == s \o t
<1>1. s \in Seq(Node) /\ t \in Seq(Node)
  BY DEF Ordered
<1>2. /\ u \in Seq(Node) /\ Len(s) \in Nat /\ Len(t) \in Nat /\ Len(u) = Len(s) + Len(t)
      /\ \A k \in 1 .. Len(s) : u[k] = s[k]
      /\ \A k \in Len(s) + 1 .. Len(u) : k - Len(s) \in 1 .. Len(t) /\ u[k] = t[k - Len(s)]
  BY <1>1, ConcatProperties, LenProperties
<1>3. /\ \A k \in 1 .. Len(s) : Rank(s[k]) \in Nat
      /\ \A k \in 1 .. Len(t) : Rank(t[k]) \in Nat
  <2>1. /\ \A k \in 1 .. Len(s) : s[k] \in Node
        /\ \A k \in 1 .. Len(t) : t[k] \in Node
    BY <1>1
  <2>2. \A n \in Node : Rank(n) \in Nat
    <3>1. \A n \in Node : Rank(n) \in 1 .. 6
      BY RankGroup
    <3> QED
      BY <3>1
  <2> QED
    BY <2>1, <2>2
<1> HIDE DEF u
<1>4. \A k \in 1 .. Len(u) :
        \/ k \in 1 .. Len(s) /\ u[k] = s[k]
        \/ k - Len(s) \in 1 .. Len(t) /\ u[k] = t[k - Len(s)] /\ k > Len(s)
  BY <1>2
<1>5. \A k \in 1 .. Len(u) : a <= Rank(u[k]) /\ Rank(u[k]) <= d
  BY <1>3, <1>4 DEF Ordered
<1>6. ASSUME NEW j \in 1 .. Len(u), NEW k \in 1 .. Len(u), j <= k
      PROVE  Rank(u[j]) <= Rank(u[k])
  <2>1. CASE k <= Len(s)
    BY <1>2, <1>4, <1>6, <2>1 DEF Ordered
  <2>2. CASE j > Len(s)
    <3>1. /\ j - Len(s) \in 1 .. Len(t) /\ u[j] = t[j - Len(s)]
          /\ k - Len(s) \in 1 .. Len(t) /\ u[k] = t[k - Len(s)]
          /\ j - Len(s) <= k - Len(s)
      <4>1. j \in Len(s) + 1 .. Len(u) /\ k \in Len(s) + 1 .. Len(u)
        BY <1>2, <1>6, <2>2
      <4> QED
        BY <1>2, <1>6, <4>1
    <3> QED
      BY <3>1 DEF Ordered
  <2>3. CASE j <= Len(s) /\ k > Len(s)
    <3>1. /\ j \in 1 .. Len(s) /\ u[j] = s[j]
          /\ k - Len(s) \in 1 .. Len(t) /\ u[k] = t[k - Len(s)]
      BY <1>2, <2>3
    <3>2. Rank(u[j]) <= b /\ c <= Rank(u[k])
      BY <3>1 DEF Ordered
    <3>3. Rank(u[j]) \in Nat /\ Rank(u[k]) \in Nat
      BY <1>3, <3>1
    <3> QED
      BY <3>2, <3>3
  <2> QED
    BY <1>2, <2>1, <2>2, <2>3
<1> QED
  BY <1>2, <1>5, <1>6 DEF u, Ordered


\* One node for each number below count.
LEMMA OrderedEach ==
  ASSUME NEW type, NEW count \in Nat, NEW r \in Nat,
         \A n \in 0 .. count - 1 : <<type, n>> \in Node /\ Rank(<<type, n>>) = r
  PROVE  Ordered(Each(type, count), r, r)
<1> DEFINE s == Each(type, count)
<1>1. s = [k \in 1 .. count |-> <<type, k - 1>>]
  BY DEF Each
<1>2. \A k \in 1 .. count : <<type, k - 1>> \in Node /\ Rank(<<type, k - 1>>) = r
  <2>1. \A k \in 1 .. count : k - 1 \in 0 .. count - 1
    OBVIOUS
  <2> QED
    BY <2>1
<1>3. s \in Seq(Node) /\ Len(s) = count
  BY <1>1, <1>2
<1>4. \A k \in 1 .. Len(s) : Rank(s[k]) = r
  BY <1>1, <1>2, <1>3
<1> HIDE DEF s
<1>5. Ordered(s, r, r)
  BY <1>3, <1>4 DEF Ordered
<1> QED
  BY <1>5 DEF s

\* One node.
LEMMA OrderedOne ==
  ASSUME NEW type, NEW r \in Nat, <<type, 0>> \in Node, Rank(<<type, 0>>) = r
  PROVE  Ordered(One(type), r, r)
<1>1. One(type) \in Seq(Node) /\ Len(One(type)) = 1 /\ One(type)[1] = <<type, 0>>
  BY DEF One
<1> QED
  BY <1>1 DEF Ordered

\* No node.
LEMMA OrderedNone == ASSUME NEW a, NEW b PROVE Ordered(<<>>, a, b)
  BY EmptySeq DEF Ordered

\* The plan of xpdev_create_interfaces goes through the groups in their order.
LEMMA PlanOrdered == dev \in Devices => Ordered(Plan, 1, 6)
<1> SUFFICES ASSUME dev \in Devices PROVE Ordered(Plan, 1, 6)
  OBVIOUS
<1>0. /\ dev.h2c \in Nat /\ dev.h2c <= XDMA_CHANNEL_NUM_MAX
      /\ dev.c2h \in Nat /\ dev.c2h <= XDMA_CHANNEL_NUM_MAX
  BY DEF Devices, Channels
<1>1. Ordered(One("CTRL"), 1, 1)
  BY OrderedOne DEF Node, Rank
<1>2. Ordered(Each("EVENTS", MAX_USER_IRQ), 2, 2)
  <2>1. \A n \in 0 .. MAX_USER_IRQ - 1 :
          <<"EVENTS", n>> \in Node /\ Rank(<<"EVENTS", n>>) = 2
    BY DEF Node, Rank
  <2> QED
    BY <2>1, OrderedEach
<1>3. ASSUME NEW type \in {"H2C", "C2H", "BYPASS_H2C", "BYPASS_C2H"},
             NEW count \in Nat, count <= XDMA_CHANNEL_NUM_MAX
      PROVE  Ordered(Each(type, count), IF type \in {"H2C", "C2H"} THEN 3 ELSE 4,
                                        IF type \in {"H2C", "C2H"} THEN 3 ELSE 4)
  <2>1. \A n \in 0 .. count - 1 :
          /\ <<type, n>> \in Node
          /\ Rank(<<type, n>>) = IF type \in {"H2C", "C2H"} THEN 3 ELSE 4
    <3>1. \A n \in 0 .. count - 1 : n \in 0 .. XDMA_CHANNEL_NUM_MAX - 1
      BY <1>3
    <3> QED
      BY <3>1 DEF Node, Rank
  <2> QED
    BY <2>1, OrderedEach
<1>4. Ordered(Each("H2C", dev.h2c), 3, 3) /\ Ordered(Each("C2H", dev.c2h), 3, 3)
  BY <1>0, <1>3
<1>5. Ordered(If(dev.bypass, Each("BYPASS_H2C", dev.h2c) \o Each("BYPASS_C2H", dev.c2h)
                             \o One("BYPASS")), 4, 4)
  <2>1. /\ Ordered(Each("BYPASS_H2C", dev.h2c), 4, 4)
        /\ Ordered(Each("BYPASS_C2H", dev.c2h), 4, 4)
    BY <1>0, <1>3
  <2>2. Ordered(One("BYPASS"), 4, 4)
    BY OrderedOne DEF Node, Rank
  <2>3. Ordered(Each("BYPASS_H2C", dev.h2c) \o Each("BYPASS_C2H", dev.c2h), 4, 4)
    BY <2>1, OrderedConcat
  <2>4. Ordered(Each("BYPASS_H2C", dev.h2c) \o Each("BYPASS_C2H", dev.c2h)
                \o One("BYPASS"), 4, 4)
    BY <2>2, <2>3, OrderedConcat
  <2> QED
    BY <2>4, OrderedNone DEF If
<1>6. Ordered(If(dev.user, One("USER") \o One("XVC")), 5, 6)
  <2>1. Ordered(One("USER"), 5, 5) /\ Ordered(One("XVC"), 6, 6)
    BY OrderedOne DEF Node, Rank
  <2>2. Ordered(One("USER") \o One("XVC"), 5, 6)
    BY <2>1, OrderedConcat
  <2> QED
    BY <2>2, OrderedNone DEF If
<1>7. Ordered(One("CTRL") \o Each("EVENTS", MAX_USER_IRQ), 1, 2)
  BY <1>1, <1>2, OrderedConcat
<1>8. Ordered(One("CTRL") \o Each("EVENTS", MAX_USER_IRQ) \o Each("H2C", dev.h2c), 1, 3)
  BY <1>4, <1>7, OrderedConcat
<1>9. Ordered(One("CTRL") \o Each("EVENTS", MAX_USER_IRQ) \o Each("H2C", dev.h2c)
              \o Each("C2H", dev.c2h), 1, 3)
  BY <1>4, <1>8, OrderedConcat
<1>10. Ordered(One("CTRL") \o Each("EVENTS", MAX_USER_IRQ) \o Each("H2C", dev.h2c)
               \o Each("C2H", dev.c2h)
               \o If(dev.bypass, Each("BYPASS_H2C", dev.h2c)
                                 \o Each("BYPASS_C2H", dev.c2h) \o One("BYPASS")), 1, 4)
  BY <1>5, <1>9, OrderedConcat
<1> QED
  BY <1>6, <1>10, OrderedConcat DEF Plan

\* A group is created in one go: between two nodes of it there is no other.
LEMMA GroupsTogether ==
  ASSUME dev \in Devices, NEW j \in 1 .. Len(Plan), NEW k \in 1 .. Len(Plan),
         NEW l \in 1 .. Len(Plan), j <= k, k <= l, Group(Plan[j]) = Group(Plan[l])
  PROVE  Group(Plan[k]) = Group(Plan[j])
<1>1. Ordered(Plan, 1, 6)
  BY PlanOrdered
<1>2. Plan[j] \in Node /\ Plan[k] \in Node /\ Plan[l] \in Node
  BY <1>1 DEF Ordered
<1>3. Rank(Plan[j]) = Rank(Plan[l])
  BY <1>2, RankGroup
<1>4. Rank(Plan[j]) <= Rank(Plan[k]) /\ Rank(Plan[k]) <= Rank(Plan[l])
  BY <1>1 DEF Ordered
<1>5. Rank(Plan[j]) \in Int /\ Rank(Plan[k]) \in Int
  BY <1>2, RankGroup
<1>6. Rank(Plan[k]) = Rank(Plan[j])
  BY <1>3, <1>4, <1>5
<1> QED
  BY <1>2, <1>6, RankGroup

-----------------------------------------------------------------------------
(***************************************************************************)
(* The invariant: where the driver is with a device, and what it has then. *)
(***************************************************************************)

\* The nodes before the n-th, and the groups that are complete with them.
Created(n) == {Plan[k] : k \in 1 .. n - 1}
Complete(n) ==
  {Group(Plan[k]) : k \in {l \in 1 .. n - 1 :
                             \A j \in n .. Len(Plan) : Group(Plan[j]) # Group(Plan[l])}}

Quiet == failed \cap Leaky = {}
Orderly == failed \cap Repeating = {}

\* Nothing exists that users or interrupts could reach.
Bare == irqs = {} /\ live = {} /\ flags = {} /\ ~major /\ ~region /\ hook = "none"

LifeTypeOK ==
  /\ dev \in Devices
  /\ pc \in {"absent", "open", "create", "up", "unwind", "free", "close", "gone"}
  /\ step \in Nat \ {0}
  /\ irqs \subseteq Vectors
  /\ major \in BOOLEAN /\ region \in BOOLEAN /\ again \in BOOLEAN
  /\ hook \in {"none", "reset", "slot", "dead"}
  /\ failed \subseteq Places

OpenInv ==
  /\ pc = "absent" => Bare /\ held = {}
  /\ pc = "open" => /\ Bare /\ step \in 1 .. Len(Stages) + 1
                    /\ held = {Stages[k] : k \in 1 .. step - 1}

CreateInv ==
  /\ pc = "create" => /\ irqs = Vectors /\ "enabled" \in held /\ hook = "none"
                      /\ step \in 1 .. Len(Plan) + 1
                      /\ major <=> step > 1
  /\ pc = "up" => step = Len(Plan) + 1
  /\ pc \in {"create", "up"} => live = Created(step) /\ flags = Complete(step)
  /\ region => major

ServiceInv ==
  pc = "up" =>
    /\ hook = "none" => /\ "enabled" \in held
                        /\ irqs = Vectors \/ failed \cap {"online irq", "ioctl"} # {}
    /\ hook = "reset" => "enabled" \in held
    /\ hook = "dead" => "slot reset" \in failed

ReleaseInv ==
  /\ pc = "unwind" => failed \cap {"group head", "inside group"} # {} \/ flags = {}
  /\ pc \in {"unwind", "free"} => /\ Quiet => live \subseteq Destroyed
                                  /\ Orderly => Destroyed \subseteq live
  /\ pc \in {"unwind", "free", "close"} /\ Orderly =>
       irqs = Vectors /\ "enabled" \in held
  /\ pc = "close" => ~region /\ (Quiet => live = {})

LifeInv == LifeTypeOK /\ OpenInv /\ CreateInv /\ ServiceInv /\ ReleaseInv
           /\ CleanUnlessLeaky /\ ReleasedOnce

\* The plan is a finite sequence of nodes.
LEMMA PlanSeq ==
  ASSUME dev \in Devices
  PROVE  /\ Plan \in Seq(Node) /\ Len(Plan) \in Nat /\ DOMAIN Plan = 1 .. Len(Plan)
         /\ \A k \in 1 .. Len(Plan) : Plan[k] \in Node
<1>1. Plan \in Seq(Node)
  BY PlanOrdered DEF Ordered
<1> QED
  BY <1>1, LenProperties

\* The hardware stays as it was found.
LEMMA DevSame == dev' = dev => Plan' = Plan /\ Vectors' = Vectors
  BY DEF Plan, Vectors, ChannelVectors

\* Before the first node nothing is there; after the last everything is.
LEMMA CreatedEnds ==
  ASSUME dev \in Devices
  PROVE  /\ Created(1) = {} /\ Complete(1) = {}
         /\ Created(Len(Plan) + 1) = Range(Plan)
         /\ Complete(Len(Plan) + 1) = {Group(node) : node \in Range(Plan)}
<1>1. Len(Plan) \in Nat /\ DOMAIN Plan = 1 .. Len(Plan)
  BY PlanSeq
<1>2. Created(1) = {} /\ Complete(1) = {}
  BY DEF Created, Complete
<1>3. 1 .. (Len(Plan) + 1) - 1 = 1 .. Len(Plan) /\ Len(Plan) + 1 .. Len(Plan) = {}
  BY <1>1
<1>4. Created(Len(Plan) + 1) = Range(Plan)
  BY <1>1, <1>3 DEF Created, Range
<1>5. Complete(Len(Plan) + 1) = {Group(node) : node \in Range(Plan)}
  BY <1>1, <1>3 DEF Complete, Range
<1> QED
  BY <1>2, <1>4, <1>5

\* One more node, and its group with it if it was the last of that group.
LEMMA CreatedNext ==
  ASSUME dev \in Devices, NEW n \in 1 .. Len(Plan)
  PROVE  /\ Created(n + 1) = Created(n) \cup {Plan[n]}
         /\ Complete(n + 1) =
              IF \E k \in n + 1 .. Len(Plan) : Group(Plan[k]) = Group(Plan[n])
              THEN Complete(n) ELSE Complete(n) \cup {Group(Plan[n])}
<1>0. Len(Plan) \in Nat
  BY PlanSeq
<1>1. (n + 1) - 1 = n /\ 1 .. n = (1 .. n - 1) \cup {n}
      /\ n .. Len(Plan) = {n} \cup (n + 1 .. Len(Plan))
  BY <1>0
<1>2. Created(n + 1) = Created(n) \cup {Plan[n]}
  BY <1>1 DEF Created
<1> DEFINE g(k) == Group(Plan[k])
           Last(m, k) == \A j \in m .. Len(Plan) : g(j) # g(k)
<1>3. ASSUME NEW x PROVE x \in Complete(n) <=> \E k \in 1 .. n - 1 : Last(n, k) /\ x = g(k)
  BY DEF Complete
<1>4. ASSUME NEW x PROVE x \in Complete(n + 1) <=> \E k \in 1 .. n : Last(n + 1, k) /\ x = g(k)
  BY <1>1 DEF Complete
<1>5. ASSUME NEW k PROVE Last(n, k) <=> Last(n + 1, k) /\ g(n) # g(k)
  BY <1>1
<1> HIDE DEF g, Last
<1>6. CASE Last(n + 1, n)
  <2>1. ASSUME NEW x PROVE x \in Complete(n + 1) <=> x \in Complete(n) \cup {g(n)}
    <3>1. ASSUME x \in Complete(n + 1) PROVE x \in Complete(n) \cup {g(n)}
      <4>1. PICK k \in 1 .. n : Last(n + 1, k) /\ x = g(k)
        BY <1>4, <3>1
      <4>2. CASE g(k) = g(n)
        BY <4>1, <4>2
      <4>3. CASE g(k) # g(n)
        <5>1. k \in 1 .. n - 1
          BY <1>1, <4>3
        <5> QED
          BY <1>3, <1>5, <4>1, <4>3, <5>1
      <4> QED
        BY <4>2, <4>3
    <3>2. ASSUME x \in Complete(n) \cup {g(n)} PROVE x \in Complete(n + 1)
      BY <1>1, <1>3, <1>4, <1>5, <1>6, <3>2
    <3> QED
      BY <3>1, <3>2
  <2>2. Complete(n + 1) = Complete(n) \cup {g(n)}
    BY <2>1
  <2>3. ~ \E k \in n + 1 .. Len(Plan) : Group(Plan[k]) = Group(Plan[n])
    BY <1>6 DEF Last, g
  <2> QED
    BY <1>2, <2>2, <2>3 DEF g
<1>7. CASE ~Last(n + 1, n)
  <2>1. ASSUME NEW x PROVE x \in Complete(n + 1) <=> x \in Complete(n)
    <3>1. ASSUME x \in Complete(n + 1) PROVE x \in Complete(n)
      <4>1. PICK k \in 1 .. n : Last(n + 1, k) /\ x = g(k)
        BY <1>4, <3>1
      <4>2. g(k) # g(n)
        <5>1. g(k) = g(n) => Last(n + 1, n)
          BY <4>1 DEF Last
        <5> QED
          BY <1>7, <5>1
      <4>3. k \in 1 .. n - 1
        BY <1>1, <4>2
      <4> QED
        BY <1>3, <1>5, <4>1, <4>2, <4>3
    <3>2. ASSUME x \in Complete(n) PROVE x \in Complete(n + 1)
      BY <1>1, <1>3, <1>4, <1>5, <3>2
    <3> QED
      BY <3>1, <3>2
  <2>2. Complete(n + 1) = Complete(n)
    BY <2>1
  <2>3. \E k \in n + 1 .. Len(Plan) : Group(Plan[k]) = Group(Plan[n])
    BY <1>7 DEF Last, g
  <2> QED
    BY <1>2, <2>2, <2>3
<1> QED
  BY <1>6, <1>7

\* The vectors of a device, and what irq_setup may leave of them.
LEMMA VectorsFacts ==
  ASSUME dev \in Devices, irqs \subseteq Vectors
  PROVE  Vectors # {} /\ \A s \in irq_setup : s \subseteq Vectors
<1>0. dev.h2c \in Nat /\ dev.c2h \in Nat /\ dev.msix \in BOOLEAN
  BY DEF Devices, Channels
<1>1. 1 \in Vectors
  BY <1>0 DEF Vectors, ChannelVectors
<1>2. ASSUME NEW k \in 1 .. (IF dev.msix THEN ChannelVectors ELSE 0)
      PROVE  1 .. k \subseteq Vectors
  BY <1>0, <1>2 DEF Vectors, ChannelVectors
<1>3. ASSUME NEW s \in irq_setup PROVE s \subseteq Vectors
  BY <1>2, <1>3 DEF irq_setup
<1> QED
  BY <1>1, <1>3

\* The stages of xdma_device_open.
LEMMA StagesFacts ==
  /\ Len(Stages) = 8
  /\ "enabled" \in {Stages[k] : k \in 1 .. 8}
<1>1. Len(Stages) = 8 /\ Stages[3] = "enabled"
  BY DEF Stages
<1> QED
  BY <1>1

\* Opening the device: what fails is undone from the stage it failed in.
LEMMA OpenKept ==
  ASSUME LifeInv, Probe \/ OpenStage \/ OpenFail \/ OpenIrqs PROVE LifeInv'
<1> USE DEF Bare, NodesSame
<1>0. /\ LifeTypeOK /\ OpenInv /\ CreateInv /\ ServiceInv /\ ReleaseInv
      /\ CleanUnlessLeaky /\ ReleasedOnce
  BY DEF LifeInv
<1>1. dev' = dev /\ Plan' = Plan /\ Vectors' = Vectors
  BY DevSame DEF Probe, OpenStage, OpenFail, OpenIrqs
<1>2. CASE Probe
  <2>1. /\ pc = "absent" /\ pc' = "open" /\ step' = 1
        /\ UNCHANGED <<held, irqs, hook, again, failed, flags, major, region, live>>
    BY <1>2 DEF Probe
  <2>2. LifeTypeOK'
    BY <1>0, <1>1, <2>1 DEF LifeTypeOK
  <2>3. OpenInv'
    <3>1. {Stages[k] : k \in 1 .. 1 - 1} = {}
      OBVIOUS
    <3> QED
      BY <1>0, <2>1, <3>1, StagesFacts DEF OpenInv
  <2>4. CreateInv' /\ ServiceInv' /\ ReleaseInv' /\ CleanUnlessLeaky'
    BY <1>0, <2>1 DEF OpenInv, CreateInv, ServiceInv, ReleaseInv, CleanUnlessLeaky
  <2>5. ReleasedOnce'
    BY <1>0, <2>1 DEF ReleasedOnce
  <2> QED
    BY <2>2, <2>3, <2>4, <2>5 DEF LifeInv
<1>3. CASE OpenStage
  <2>1. /\ pc = "open" /\ pc' = "open" /\ step <= Len(Stages) /\ step' = step + 1
        /\ held' = held \cup {Stages[step]}
        /\ UNCHANGED <<irqs, hook, again, failed, flags, major, region, live>>
    BY <1>3 DEF OpenStage
  <2>2. LifeTypeOK'
    BY <1>0, <1>1, <2>1 DEF LifeTypeOK
  <2>3. OpenInv'
    <3>0. step \in 1 .. Len(Stages) + 1
      BY <1>0, <2>1 DEF OpenInv
    <3>1. (step + 1) - 1 = step /\ 1 .. step = (1 .. step - 1) \cup {step}
      BY <3>0, StagesFacts
    <3>2. {Stages[k] : k \in 1 .. step} = {Stages[k] : k \in 1 .. step - 1} \cup {Stages[step]}
      BY <3>1
    <3>3. step' \in 1 .. Len(Stages) + 1
      BY <2>1, <3>0, StagesFacts
    <3> QED
      BY <1>0, <2>1, <3>1, <3>2, <3>3 DEF OpenInv
  <2>4. CreateInv' /\ ServiceInv' /\ ReleaseInv' /\ CleanUnlessLeaky'
    BY <1>0, <2>1 DEF OpenInv, CreateInv, ServiceInv, ReleaseInv, CleanUnlessLeaky
  <2>5. ReleasedOnce'
    BY <1>0, <2>1 DEF ReleasedOnce
  <2> QED
    BY <2>2, <2>3, <2>4, <2>5 DEF LifeInv
<1>4. CASE OpenFail
  <2>1. /\ pc = "open" /\ pc' = "gone" /\ Stages[step] \in Faults
        /\ failed' = failed \cup {Stages[step]}
        /\ held' = (held \ Unwound) \cup Kept
        /\ UNCHANGED <<step, irqs, hook, again, flags, major, region, live>>
    BY <1>4 DEF OpenFail, Occurs
  <2>2. LifeTypeOK'
    BY <1>0, <1>1, <2>1 DEF LifeTypeOK
  <2>3. OpenInv' /\ ServiceInv'
    BY <2>1 DEF OpenInv, ServiceInv
  <2>4. CreateInv' /\ ReleaseInv'
    BY <1>0, <2>1 DEF OpenInv, CreateInv, ReleaseInv
  <2>5. CleanUnlessLeaky'
    <3>1. held = Unwound
      BY <1>0, <2>1 DEF OpenInv, Unwound
    <3>2. held' = Kept /\ Kept' = Kept
      BY <2>1, <3>1 DEF Kept
    <3> QED
      BY <1>0, <2>1, <3>2 DEF CleanUnlessLeaky, Clean, OpenInv
  <2>6. ReleasedOnce'
    BY <1>0, <2>1 DEF ReleasedOnce
  <2> QED
    BY <2>2, <2>3, <2>4, <2>5, <2>6 DEF LifeInv
<1>5. CASE OpenIrqs
  <2>1. /\ pc = "open" /\ step = 9 /\ irqs' \in irq_setup
        /\ UNCHANGED <<hook, again, flags, major, region, live>>
    <3>1. Len(Stages) + 1 = 9
      BY StagesFacts
    <3> QED
      BY <1>5, <3>1 DEF OpenIrqs
  <2>2. held = {Stages[k] : k \in 1 .. 8} /\ irqs' \subseteq Vectors
    <3>1. irqs' \subseteq Vectors
      BY <1>0, <2>1, VectorsFacts DEF LifeTypeOK
    <3>2. 9 - 1 = 8
      OBVIOUS
    <3> QED
      BY <1>0, <2>1, <3>1, <3>2 DEF OpenInv
  <2>3. CASE pc' = "create"
    <3>1. /\ irqs' = Vectors /\ step' = 1 /\ UNCHANGED <<held, failed>>
      BY <1>5, <2>3 DEF OpenIrqs
    <3>2. LifeTypeOK'
      BY <1>0, <1>1, <2>1, <2>2, <2>3, <3>1 DEF LifeTypeOK
    <3>3. OpenInv' /\ ServiceInv' /\ ReleaseInv' /\ CleanUnlessLeaky'
      BY <2>3 DEF OpenInv, ServiceInv, ReleaseInv, CleanUnlessLeaky
    <3>4. CreateInv'
      <4>1. "enabled" \in held /\ Bare
        BY <1>0, <2>1, <2>2, StagesFacts DEF OpenInv
      <4>2. Len(Plan) \in Nat /\ Created(1) = {} /\ Complete(1) = {}
        BY <1>0, PlanSeq, CreatedEnds DEF LifeTypeOK
      <4>3. Created(step)' = {} /\ Complete(step)' = {}
        BY <1>1, <3>1, <4>2 DEF Created, Complete
      <4>4. 1 \in 1 .. Len(Plan) + 1 /\ ~(1 > 1)
        BY <4>2
      <4> QED
        BY <1>1, <2>1, <2>3, <3>1, <4>1, <4>3, <4>4 DEF CreateInv
    <3>5. ReleasedOnce'
      BY <1>0, <2>1, <3>1 DEF ReleasedOnce
    <3> QED
      BY <3>2, <3>3, <3>4, <3>5 DEF LifeInv
  <2>4. CASE pc' # "create"
    <3>1. /\ pc' = "gone" /\ step' = step /\ held' = held \ Unwound
          /\ failed' = failed \cup {IF irqs' = {} THEN "first irq" ELSE "later irq"}
      BY <1>5, <2>4 DEF OpenIrqs, Occurs
    <3>2. LifeTypeOK'
      BY <1>0, <1>1, <2>1, <2>2, <3>1 DEF LifeTypeOK, Places
    <3>3. OpenInv' /\ ServiceInv'
      BY <3>1 DEF OpenInv, ServiceInv
    <3>4. CreateInv' /\ ReleaseInv'
      BY <1>0, <2>1, <3>1 DEF OpenInv, CreateInv, ReleaseInv
    <3>5. CleanUnlessLeaky'
      <4>1. held = Unwound
        BY <1>0, <2>1 DEF OpenInv, Unwound
      <4>2. held' = {}
        BY <3>1, <4>1
      <4>3. failed' \cap Leaky = {} => irqs' = {}
        BY <3>1 DEF Leaky
      <4> QED
        BY <1>0, <2>1, <4>2, <4>3 DEF CleanUnlessLeaky, Clean, OpenInv
    <3>6. ReleasedOnce'
      BY <1>0, <2>1, <3>1 DEF ReleasedOnce
    <3> QED
      BY <3>2, <3>3, <3>4, <3>5, <3>6 DEF LifeInv
  <2> QED
    BY <2>3, <2>4
<1> QED
  BY <1>2, <1>3, <1>4, <1>5

\* Creating the nodes: a group that is not complete is not flagged.
LEMMA CreateKept ==
  ASSUME LifeInv, CreateNode \/ CreateNoRegion \/ CreateFail \/ CreateDone
  PROVE  LifeInv'
<1> USE DEF NodesSame
<1>0. /\ LifeTypeOK /\ OpenInv /\ CreateInv /\ ServiceInv /\ ReleaseInv
      /\ CleanUnlessLeaky /\ ReleasedOnce
  BY DEF LifeInv
<1>1. dev' = dev /\ Plan' = Plan /\ Vectors' = Vectors
  BY DevSame DEF CreateNode, CreateNoRegion, CreateFail, CreateDone
<1>2. /\ pc = "create"
      /\ UNCHANGED <<held, irqs, hook, again>>
  BY DEF CreateNode, CreateNoRegion, CreateFail, CreateDone
<1>3. /\ irqs = Vectors /\ "enabled" \in held /\ hook = "none"
      /\ step \in 1 .. Len(Plan) + 1 /\ (major <=> step > 1)
      /\ live = Created(step) /\ flags = Complete(step)
      /\ region => major
  BY <1>0, <1>2 DEF CreateInv
<1>4. dev \in Devices /\ Len(Plan) \in Nat
  BY <1>0, PlanSeq DEF LifeTypeOK
<1>5. CASE CreateNode
  <2>1. /\ pc' = "create" /\ step \in 1 .. Len(Plan) /\ step' = step + 1
        /\ live' = live \cup {Plan[step]}
        /\ flags' = IF \E k \in step + 1 .. Len(Plan) : Group(Plan[k]) = Group(Plan[step])
                    THEN flags ELSE flags \cup {Group(Plan[step])}
        /\ major' = TRUE /\ failed' = failed /\ region' \in BOOLEAN
    BY <1>0, <1>2, <1>3, <1>4, <1>5 DEF CreateNode, LifeTypeOK
  <2>2. live' = Created(step + 1) /\ flags' = Complete(step + 1)
    BY <1>3, <1>4, <2>1, CreatedNext
  <2>3. Created(step)' = Created(step + 1) /\ Complete(step)' = Complete(step + 1)
    BY <1>1, <2>1 DEF Created, Complete
  <2>4. LifeTypeOK'
    BY <1>0, <1>1, <1>2, <2>1 DEF LifeTypeOK
  <2>5. CreateInv'
    <3>1. step' \in 1 .. Len(Plan) + 1 /\ step' > 1
      BY <1>4, <2>1
    <3> QED
      BY <1>1, <1>2, <1>3, <2>1, <2>2, <2>3, <3>1 DEF CreateInv
  <2>6. OpenInv' /\ ServiceInv' /\ ReleaseInv' /\ CleanUnlessLeaky'
    BY <2>1 DEF OpenInv, ServiceInv, ReleaseInv, CleanUnlessLeaky
  <2>7. ReleasedOnce'
    BY <1>0, <1>2, <2>1 DEF ReleasedOnce
  <2> QED
    BY <2>4, <2>5, <2>6, <2>7 DEF LifeInv
<1>6. CASE CreateNoRegion
  <2>1. /\ pc' = "unwind" /\ ~major /\ failed' = failed \cup {"chrdev"}
        /\ UNCHANGED <<step, flags, major, region, live>>
    BY <1>6 DEF CreateNoRegion, Occurs
  <2>2. step = 1
    BY <1>3, <1>4, <2>1
  <2>3. live = {} /\ flags = {}
    BY <1>3, <1>4, <2>2, CreatedEnds
  <2>4. Destroyed' = {}
    BY <2>1, <2>3 DEF Destroyed
  <2>5. LifeTypeOK'
    BY <1>0, <1>1, <1>2, <2>1 DEF LifeTypeOK, Places
  <2>6. OpenInv' /\ CreateInv' /\ ServiceInv' /\ CleanUnlessLeaky'
    BY <1>3, <2>1 DEF OpenInv, CreateInv, ServiceInv, CleanUnlessLeaky
  <2>7. ReleaseInv'
    BY <1>1, <1>2, <1>3, <2>1, <2>3, <2>4 DEF ReleaseInv
  <2>8. ReleasedOnce'
    BY <1>0, <1>2, <2>1 DEF ReleasedOnce
  <2> QED
    BY <2>5, <2>6, <2>7, <2>8 DEF LifeInv
<1>7. CASE CreateFail
  <2>1. /\ pc' = "unwind" /\ step \in 1 .. Len(Plan)
        /\ failed' = failed \cup {NodeFault(Plan[step])}
        /\ major' = TRUE /\ region' \in BOOLEAN
        /\ UNCHANGED <<step, flags, live>>
    <3>1. step \in 1 .. Len(Plan)
      BY <1>3, <1>4, <1>7 DEF CreateFail
    <3>2. region' \in BOOLEAN
      BY <1>0, <1>7 DEF CreateFail, LifeTypeOK
    <3> QED
      BY <1>7, <3>1, <3>2 DEF CreateFail, Occurs
  <2>2. NodeFault(Plan[step]) \in {"group head", "inside group"}
    BY DEF NodeFault
  <2>3. LifeTypeOK'
    BY <1>0, <1>1, <1>2, <2>1, <2>2 DEF LifeTypeOK, Places
  <2>4. OpenInv' /\ CreateInv' /\ ServiceInv' /\ CleanUnlessLeaky'
    BY <1>3, <2>1 DEF OpenInv, CreateInv, ServiceInv, CleanUnlessLeaky
  <2>5. ~Orderly' /\ failed' \cap {"group head", "inside group"} # {}
    BY <2>1, <2>2 DEF Orderly, Repeating
  <2>6. Quiet' => live \subseteq Destroyed
    <3> SUFFICES ASSUME Quiet', NEW k \in 1 .. step - 1 PROVE Plan[k] \in Destroyed
      BY <1>3 DEF Created
    <3>1. \A j \in 1 .. step - 1 : Group(Plan[j]) # Group(Plan[step])
      BY <2>1 DEF Quiet, Leaky, NodeFault
    <3>2. k \in 1 .. Len(Plan) /\ k <= step
      BY <1>4, <2>1
    <3>3. ASSUME NEW j \in step .. Len(Plan) PROVE Group(Plan[j]) # Group(Plan[k])
      <4>1. j \in 1 .. Len(Plan) /\ step <= j
        BY <1>4, <2>1
      <4> QED
        BY <1>4, <2>1, <3>1, <3>2, <4>1, GroupsTogether
    <3>4. Group(Plan[k]) \in flags
      BY <1>3, <3>3 DEF Complete
    <3>5. Plan[k] \in Range(Plan)
      BY <1>4, <3>2, PlanSeq DEF Range
    <3> QED
      BY <3>4, <3>5 DEF Destroyed
  <2>7. Destroyed' = Destroyed
    BY <1>1, <2>1 DEF Destroyed
  <2>8. ReleaseInv'
    BY <2>1, <2>5, <2>6, <2>7 DEF ReleaseInv
  <2>9. ReleasedOnce'
    BY <1>0, <1>2, <2>1 DEF ReleasedOnce
  <2> QED
    BY <2>3, <2>4, <2>8, <2>9 DEF LifeInv
<1>8. CASE CreateDone
  <2>1. /\ pc' = "up" /\ step = Len(Plan) + 1
        /\ UNCHANGED <<step, failed, flags, major, region, live>>
    BY <1>8 DEF CreateDone
  <2>2. Created(step)' = Created(step) /\ Complete(step)' = Complete(step)
    BY <1>1, <2>1 DEF Created, Complete
  <2>3. LifeTypeOK'
    BY <1>0, <1>1, <1>2, <2>1 DEF LifeTypeOK
  <2>4. OpenInv' /\ ReleaseInv' /\ CleanUnlessLeaky'
    BY <2>1 DEF OpenInv, ReleaseInv, CleanUnlessLeaky
  <2>5. CreateInv' /\ ServiceInv'
    BY <1>1, <1>2, <1>3, <2>1, <2>2 DEF CreateInv, ServiceInv
  <2>6. ReleasedOnce'
    BY <1>0, <1>2, <2>1 DEF ReleasedOnce
  <2> QED
    BY <2>3, <2>4, <2>5, <2>6 DEF LifeInv
<1> QED
  BY <1>5, <1>6, <1>7, <1>8

\* Taking the device away: what is not there is only released again after one
\* of the repeating faults.
LEMMA ReleaseKept ==
  ASSUME LifeInv, DestroyInterfaces \/ RemoveOne \/ Close PROVE LifeInv'
<1> USE DEF NodesSame
<1>0. /\ LifeTypeOK /\ OpenInv /\ CreateInv /\ ServiceInv /\ ReleaseInv
      /\ CleanUnlessLeaky /\ ReleasedOnce
  BY DEF LifeInv
<1>1. /\ dev' = dev /\ Plan' = Plan /\ Vectors' = Vectors
      /\ UNCHANGED <<step, hook, failed>>
  BY DevSame DEF DestroyInterfaces, RemoveOne, Close
<1>2. (Quiet' <=> Quiet) /\ (Orderly' <=> Orderly)
  BY <1>1 DEF Quiet, Orderly
<1>3. CASE DestroyInterfaces
  <2>1. /\ pc \in {"unwind", "free"}
        /\ pc' = IF pc = "unwind" THEN "free" ELSE "close"
        /\ live' = live \ Destroyed
        /\ again' = (again \/ ~(Destroyed \subseteq live))
        /\ region' = (region /\ ~major)
        /\ UNCHANGED <<held, irqs, flags, major>>
    BY <1>3 DEF DestroyInterfaces
  <2>2. Destroyed' = Destroyed
    BY <1>1, <2>1 DEF Destroyed
  <2>3. LifeTypeOK'
    BY <1>0, <1>1, <2>1 DEF LifeTypeOK
  <2>4. OpenInv' /\ ServiceInv' /\ CleanUnlessLeaky'
    BY <2>1 DEF OpenInv, ServiceInv, CleanUnlessLeaky
  <2>5. CreateInv' /\ ~region'
    BY <1>0, <2>1 DEF CreateInv
  <2>6. /\ Quiet => live \subseteq Destroyed
        /\ Orderly => /\ Destroyed \subseteq live
                      /\ irqs = Vectors /\ "enabled" \in held
    BY <1>0, <2>1 DEF ReleaseInv
  <2>7. pc = "unwind" /\ Orderly => Destroyed = {}
    <3>1. Orderly => failed \cap {"group head", "inside group"} = {}
      BY DEF Orderly, Repeating
    <3>2. flags = {} => Destroyed = {}
      BY DEF Destroyed
    <3> QED
      BY <1>0, <3>1, <3>2 DEF ReleaseInv
  <2>8. ReleaseInv'
    BY <1>1, <1>2, <2>1, <2>2, <2>5, <2>6, <2>7 DEF ReleaseInv
  <2>9. ReleasedOnce'
    BY <1>0, <1>1, <2>1, <2>6 DEF ReleasedOnce, Orderly
  <2> QED
    BY <2>3, <2>4, <2>5, <2>8, <2>9 DEF LifeInv
<1>4. CASE RemoveOne
  <2>1. /\ pc = "up" /\ hook \in {"none", "dead"} /\ pc' = "free"
        /\ UNCHANGED <<held, irqs, again, flags, major, region, live>>
    BY <1>4 DEF RemoveOne
  <2>2. LifeTypeOK'
    BY <1>0, <1>1, <2>1 DEF LifeTypeOK
  <2>3. OpenInv' /\ CreateInv' /\ ServiceInv' /\ CleanUnlessLeaky'
    BY <1>0, <2>1 DEF OpenInv, CreateInv, ServiceInv, CleanUnlessLeaky
  <2>4. live = Range(Plan) /\ flags = {Group(node) : node \in Range(Plan)}
    <3>1. dev \in Devices /\ step = Len(Plan) + 1
          /\ live = Created(step) /\ flags = Complete(step)
      BY <1>0, <2>1 DEF LifeTypeOK, CreateInv
    <3> QED
      BY <3>1, CreatedEnds
  <2>5. Destroyed' = live'
    BY <1>1, <2>1, <2>4 DEF Destroyed
  <2>6. Orderly => irqs = Vectors /\ "enabled" \in held
    BY <1>0, <2>1 DEF ServiceInv, Orderly, Repeating
  <2>7. ReleaseInv'
    BY <1>1, <1>2, <2>1, <2>5, <2>6 DEF ReleaseInv
  <2>8. ReleasedOnce'
    BY <1>0, <1>1, <2>1 DEF ReleasedOnce
  <2> QED
    BY <2>2, <2>3, <2>7, <2>8 DEF LifeInv
<1>5. CASE Close
  <2>1. /\ pc = "close" /\ pc' = "gone" /\ irqs' = irqs \ Vectors /\ held' = {}
        /\ again' = (again \/ ~(Vectors \subseteq irqs) \/ "enabled" \notin held)
        /\ UNCHANGED <<flags, major, region, live>>
    BY <1>5 DEF Close
  <2>2. irqs' = {}
    BY <1>0, <2>1 DEF LifeTypeOK
  <2>3. LifeTypeOK'
    BY <1>0, <1>1, <2>1, <2>2 DEF LifeTypeOK
  <2>4. OpenInv' /\ CreateInv' /\ ServiceInv' /\ ReleaseInv'
    BY <1>0, <2>1 DEF OpenInv, CreateInv, ServiceInv, ReleaseInv
  <2>5. CleanUnlessLeaky'
    BY <1>0, <1>1, <2>1, <2>2 DEF CleanUnlessLeaky, Clean, ReleaseInv, Quiet
  <2>6. ReleasedOnce'
    BY <1>0, <1>1, <2>1 DEF ReleasedOnce, ReleaseInv, Orderly
  <2> QED
    BY <2>3, <2>4, <2>5, <2>6 DEF LifeInv
<1> QED
  BY <1>3, <1>4, <1>5

\* A device in service: the hooks and the two ioctls.
LEMMA ServiceKept ==
  ASSUME LifeInv,
         ResetPrepare \/ ResetDone \/ ErrorFrozen \/ SlotReset \/ SlotResetFail
         \/ IoctlOffline \/ IoctlOnline
  PROVE  LifeInv'
<1> USE DEF NodesSame, ServiceSame
<1>0. /\ LifeTypeOK /\ OpenInv /\ CreateInv /\ ServiceInv /\ ReleaseInv
      /\ CleanUnlessLeaky /\ ReleasedOnce
  BY DEF LifeInv
<1>1. /\ dev' = dev /\ Plan' = Plan /\ Vectors' = Vectors
      /\ pc = "up" /\ UNCHANGED <<pc, step, flags, major, region, live>>
  BY DevSame DEF ResetPrepare, ResetDone, ErrorFrozen, SlotReset, SlotResetFail,
     IoctlOffline, IoctlOnline
<1>2. OpenInv' /\ ReleaseInv' /\ CleanUnlessLeaky'
  BY <1>1 DEF OpenInv, ReleaseInv, CleanUnlessLeaky
<1>3. CreateInv'
  <2>1. Created(step)' = Created(step) /\ Complete(step)' = Complete(step)
    BY <1>1 DEF Created, Complete
  <2> QED
    BY <1>0, <1>1, <2>1 DEF CreateInv
<1>4. /\ hook = "none" => /\ "enabled" \in held
                          /\ irqs = Vectors \/ failed \cap {"online irq", "ioctl"} # {}
      /\ hook = "reset" => "enabled" \in held
      /\ hook = "dead" => "slot reset" \in failed
      /\ irqs \subseteq Vectors
  BY <1>0, <1>1 DEF ServiceInv, LifeTypeOK
<1>5. \A s \in irq_setup : s \subseteq Vectors
  BY <1>0, VectorsFacts DEF LifeTypeOK
<1>6. hook = "none" /\ irq_teardown => (again' => again \/ failed \cap Repeating # {})
  BY <1>4 DEF irq_teardown, Repeating
<1> SUFFICES LifeTypeOK' /\ ServiceInv' /\ ReleasedOnce'
  BY <1>2, <1>3 DEF LifeInv
<1>7. CASE ResetPrepare
  <2>1. /\ hook = "none" /\ hook' = "reset" /\ irq_teardown /\ UNCHANGED <<held, failed>>
    BY <1>7 DEF ResetPrepare
  <2>2. irqs' \subseteq Vectors /\ again' \in BOOLEAN
    BY <1>4, <2>1 DEF irq_teardown
  <2>3. LifeTypeOK'
    BY <1>0, <1>1, <2>1, <2>2 DEF LifeTypeOK
  <2>4. ServiceInv'
    BY <1>4, <2>1 DEF ServiceInv
  <2>5. ReleasedOnce'
    BY <1>0, <1>6, <2>1 DEF ReleasedOnce
  <2> QED
    BY <2>3, <2>4, <2>5
<1>8. CASE ErrorFrozen
  <2>1. /\ hook = "none" /\ hook' = "slot" /\ irq_teardown /\ UNCHANGED failed
    BY <1>8 DEF ErrorFrozen
  <2>2. irqs' \subseteq Vectors /\ again' \in BOOLEAN
    BY <1>4, <2>1 DEF irq_teardown
  <2>3. LifeTypeOK'
    BY <1>0, <1>1, <2>1, <2>2 DEF LifeTypeOK
  <2>4. ServiceInv'
    BY <2>1 DEF ServiceInv
  <2>5. ReleasedOnce'
    BY <1>0, <1>6, <2>1 DEF ReleasedOnce
  <2> QED
    BY <2>3, <2>4, <2>5
<1>9. CASE ResetDone \/ SlotReset
  <2>1. /\ hook' = "none" /\ irqs' \in irq_setup /\ again' = again
        /\ "enabled" \in held'
        /\ \/ irqs' = Vectors /\ failed' = failed
           \/ failed' = failed \cup {"online irq"}
    BY <1>4, <1>9 DEF ResetDone, SlotReset, xdma_device_online, Occurs
  <2>2. irqs' \subseteq Vectors
    BY <1>5, <2>1
  <2>3. LifeTypeOK'
    BY <1>0, <1>1, <2>1, <2>2 DEF LifeTypeOK, Places
  <2>4. ServiceInv'
    BY <1>1, <2>1 DEF ServiceInv
  <2>5. ReleasedOnce'
    BY <1>0, <2>1 DEF ReleasedOnce
  <2> QED
    BY <2>3, <2>4, <2>5
<1>10. CASE SlotResetFail
  <2>1. /\ hook' = "dead" /\ failed' = failed \cup {"slot reset"}
        /\ UNCHANGED <<held, irqs, again>>
    BY <1>10 DEF SlotResetFail, Occurs
  <2>2. LifeTypeOK'
    BY <1>0, <1>1, <2>1 DEF LifeTypeOK, Places
  <2>3. ServiceInv'
    BY <2>1 DEF ServiceInv
  <2>4. ReleasedOnce'
    BY <1>0, <2>1 DEF ReleasedOnce
  <2> QED
    BY <2>2, <2>3, <2>4
<1>11. CASE IoctlOffline \/ IoctlOnline
  <2>1. /\ failed' = failed \cup {"ioctl"} /\ UNCHANGED <<held, hook>>
        /\ irqs' \subseteq Vectors /\ again' \in BOOLEAN
    BY <1>0, <1>4, <1>5, <1>11 DEF IoctlOffline, IoctlOnline, Occurs, irq_teardown,
       LifeTypeOK
  <2>2. LifeTypeOK'
    BY <1>0, <1>1, <2>1 DEF LifeTypeOK, Places
  <2>3. ServiceInv'
    BY <1>4, <2>1 DEF ServiceInv
  <2>4. ReleasedOnce'
    BY <2>1 DEF ReleasedOnce, Repeating
  <2> QED
    BY <2>2, <2>3, <2>4
<1> QED
  BY <1>7, <1>8, <1>9, <1>10, <1>11

-----------------------------------------------------------------------------
\* The invariant of a device's life.
THEOREM LifeInvariant == Spec => []LifeInv
<1>1. Init => LifeInv
  <2> SUFFICES ASSUME Init PROVE LifeInv
    OBVIOUS
  <2>1. LifeTypeOK
    <3>1. dev \in Devices /\ pc = "absent" /\ step = 1 /\ irqs = {} /\ hook = "none"
          /\ failed = {}
      BY DEF Init
    <3>2. major \in BOOLEAN /\ region \in BOOLEAN /\ again \in BOOLEAN
      BY DEF Init
    <3> QED
      BY <3>1, <3>2 DEF LifeTypeOK
  <2>2. OpenInv /\ CreateInv /\ ServiceInv /\ ReleaseInv /\ CleanUnlessLeaky
        /\ ReleasedOnce
    BY DEF Init, OpenInv, Bare, CreateInv, ServiceInv, ReleaseInv, CleanUnlessLeaky,
       ReleasedOnce
  <2> QED
    BY <2>1, <2>2 DEF LifeInv
<1>2. ASSUME LifeInv, UNCHANGED vars PROVE LifeInv'
  <2>1. /\ UNCHANGED <<dev, pc, step, held, irqs, flags, major, region, live, hook,
                       again, failed>>
        /\ Plan' = Plan /\ Vectors' = Vectors
    BY <1>2, DevSame DEF vars
  <2>2. /\ LifeTypeOK /\ OpenInv /\ CreateInv /\ ServiceInv /\ ReleaseInv
        /\ CleanUnlessLeaky /\ ReleasedOnce
    BY <1>2 DEF LifeInv
  <2>3. LifeTypeOK' /\ OpenInv' /\ ServiceInv'
    BY <2>1, <2>2 DEF LifeTypeOK, OpenInv, Bare, ServiceInv
  <2>4. CreateInv'
    <3>1. Created(step)' = Created(step) /\ Complete(step)' = Complete(step)
      BY <2>1 DEF Created, Complete
    <3> QED
      BY <2>1, <2>2, <3>1 DEF CreateInv
  <2>5. ReleaseInv'
    <3>1. Destroyed' = Destroyed /\ Quiet' = Quiet /\ Orderly' = Orderly
      BY <2>1 DEF Destroyed, Quiet, Orderly
    <3> QED
      BY <2>1, <2>2, <3>1 DEF ReleaseInv
  <2>6. CleanUnlessLeaky' /\ ReleasedOnce'
    BY <2>1, <2>2 DEF CleanUnlessLeaky, Clean, Kept, ReleasedOnce
  <2> QED
    BY <2>3, <2>4, <2>5, <2>6 DEF LifeInv
<1>3. LifeInv /\ [Next]_vars => LifeInv'
  BY <1>2, OpenKept, CreateKept, ReleaseKept, ServiceKept DEF Next
<1> QED
  BY <1>1, <1>3, PTL DEF Spec

\* After remove_one or a failed probe_one no node, handler, device number or
\* resource of the device is left, unless a leaky fault occurred.
THEOREM LeavesClean == Spec => []CleanUnlessLeaky
<1>1. LifeInv => CleanUnlessLeaky
  BY DEF LifeInv
<1> QED
  BY <1>1, LifeInvariant, PTL

\* destroy_xcdev, free_irq and pci_disable_device are called for what exists,
\* except after a fault that repeats a release.
THEOREM ReleasesOnce == Spec => []ReleasedOnce
<1>1. LifeInv => ReleasedOnce
  BY DEF LifeInv
<1> QED
  BY <1>1, LifeInvariant, PTL

\* The minor numbers of create_xcdev do not clash as long as there are at most
\* 22 user interrupts and 4 channels each way; the driver has 16 and 4.
LEMMA MinorsApart ==
  ASSUME MAX_USER_IRQ <= 22, XDMA_CHANNEL_NUM_MAX <= 4, NEW m \in Node, NEW n \in Node
  PROVE  /\ Minor(m) < XDMA_MINOR_BASE + XDMA_MINOR_COUNT
         /\ Minor(m) = Minor(n) => m = n
<1>1. ASSUME NEW x \in Node
      PROVE  /\ x = <<x[1], x[2]>> /\ x[2] \in Nat
             /\ x[1] \in {"CTRL", "USER", "XVC", "BYPASS", "EVENTS", "H2C", "C2H",
                          "BYPASS_H2C", "BYPASS_C2H"}
             /\ x[1] \in {"CTRL", "USER", "XVC", "BYPASS"} => x[2] = 0
             /\ x[1] = "EVENTS" => x[2] < 22
             /\ x[1] \in {"H2C", "C2H", "BYPASS_H2C", "BYPASS_C2H"} => x[2] < 4
  BY <1>1 DEF Node
<1>2. m = <<m[1], m[2]>> /\ n = <<n[1], n[2]>>
  BY <1>1
<1>3. Minor(m) = Minor(n) => m[1] = n[1] /\ m[2] = n[2]
  BY <1>1 DEF Minor
<1>4. Minor(m) < XDMA_MINOR_BASE + XDMA_MINOR_COUNT
  BY <1>1 DEF Minor, XDMA_MINOR_BASE, XDMA_MINOR_COUNT
<1> QED
  BY <1>2, <1>3, <1>4

\* In service a device has its nodes, numbers, handlers and resources, for all
\* limits under which the minor numbers fit.
THEOREM ServiceWhole ==
  ASSUME MAX_USER_IRQ <= 22, XDMA_CHANNEL_NUM_MAX <= 4
  PROVE  Spec => []InService
<1>1. ASSUME LifeInv PROVE InService
  <2> SUFFICES ASSUME pc = "up", hook = "none"
               PROVE  /\ live = Range(Plan) /\ "enabled" \in held
                      /\ IsInjective([node \in live |-> Minor(node)])
                      /\ \A node \in live : Minor(node) < XDMA_MINOR_BASE + XDMA_MINOR_COUNT
                      /\ irqs = Vectors \/ failed \cap {"online irq", "ioctl"} # {}
    BY DEF InService
  <2>1. dev \in Devices /\ step = Len(Plan) + 1 /\ live = Created(step)
    BY <1>1 DEF LifeInv, LifeTypeOK, CreateInv
  <2>2. live = Range(Plan)
    BY <2>1, CreatedEnds
  <2>3. live \subseteq Node
    BY <2>1, <2>2, PlanSeq DEF Range
  <2>4. \A m, n \in live : Minor(m) = Minor(n) => m = n
    BY <2>3, MinorsApart
  <2>5. \A m \in live : Minor(m) < XDMA_MINOR_BASE + XDMA_MINOR_COUNT
    BY <2>3, MinorsApart
  <2>6. IsInjective([node \in live |-> Minor(node)])
    BY <2>4 DEF IsInjective
  <2> QED
    BY <1>1, <2>2, <2>5, <2>6 DEF LifeInv, ServiceInv
<1> QED
  BY <1>1, LifeInvariant, PTL
=============================================================================
