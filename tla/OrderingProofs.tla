---------------------------- MODULE OrderingProofs ----------------------------
(***************************************************************************)
(* What the consensus provider's order guarantees, for any number of       *)
(* validators and records.                                                 *)
(***************************************************************************)
EXTENDS Ordering, FiniteSetTheorems, WellFoundedInduction, TLAPS

-----------------------------------------------------------------------------
(* The order of a sequence of blocks *)

\* A set of numbers that is not empty has a least member.
LEMMA LeastOfSet ==
    ASSUME NEW S \in SUBSET Nat, S # {}
    PROVE  \E x \in S : \A y \in S : x <= y
<1> DEFINE R == OpToRel(<, Nat)
<1>1. IsWellFoundedOn(R, Nat)
    BY NatLessThanWellFounded
<1> HIDE DEF R
<1>2. \E x \in S : \A y \in S : ~(<<y, x>> \in R)
    BY <1>1, WFMin
<1>3. \A x, y \in Nat : y < x => <<y, x>> \in R
    BY DEF R, OpToRel
<1>4. PICK x \in S : \A y \in S : ~(<<y, x>> \in R)
    BY <1>2
<1>5. ASSUME NEW y \in S PROVE x <= y
  <2>1. x \in Nat /\ y \in Nat /\ ~(y < x)
    BY <1>3, <1>4
  <2> QED BY <2>1
<1> QED BY <1>5

\* The transactions of the first e blocks.
Ordered(e) == {k \in Records : \E d \in 1..e : \E i \in DOMAIN blocks[d] : blocks[d][i] = k}

\* The place of transaction i of block d.
At(d, i) == [key |-> blocks[d][i], epoch |-> d, position |-> i - 1]

\* What it is to be in the order.
LEMMA OrderMembers ==
    ASSUME NEW e, NEW f
    PROVE  f \in Order(e) <=>
             \E d \in 1..e : \E i \in DOMAIN blocks[d] : ComesFirst(d, i) /\ f = At(d, i)
    BY DEF Order, At

\* Every transaction has a first copy.
LEMMA FirstCopy ==
    ASSUME TypeOK, NEW e \in 0..Len(blocks), NEW k \in Ordered(e)
    PROVE  \E d \in 1..e : \E i \in DOMAIN blocks[d] : ComesFirst(d, i) /\ blocks[d][i] = k
<1> DEFINE D == {d \in 1..e : \E i \in DOMAIN blocks[d] : blocks[d][i] = k}
<1>1. \E d \in D : \A c \in D : d <= c
  <2>1. D \in SUBSET Nat /\ D # {}
    BY DEF Ordered
  <2> QED BY <2>1, LeastOfSet
<1>2. PICK d \in D : \A c \in D : d <= c
    BY <1>1
<1> DEFINE I == {i \in DOMAIN blocks[d] : blocks[d][i] = k}
<1>3. d \in 1..e /\ d \in 1..Len(blocks) /\ blocks[d] \in Seq(Records)
    BY DEF TypeOK
<1>4. PICK i \in I : \A j \in I : i <= j
  <2>1. I \in SUBSET Nat /\ I # {}
    BY <1>3
  <2> QED BY <2>1, LeastOfSet
<1>5. ComesFirst(d, i)
  <2> SUFFICES ASSUME NEW c \in 1..d, NEW j \in DOMAIN blocks[c], blocks[c][j] = blocks[d][i]
               PROVE  c = d /\ i <= j
    BY DEF ComesFirst
  <2>1. c \in D
    BY <1>3, <1>4
  <2>2. c = d
    BY <2>1, <1>2, <1>3
  <2> QED BY <2>2, <1>4
<1> QED BY <1>3, <1>4, <1>5

\* The order holds every transaction.
LEMMA OrderKeys ==
    ASSUME TypeOK, NEW e \in 0..Len(blocks)
    PROVE  Keys(Order(e)) = Ordered(e)
<1>1. ASSUME NEW k \in Ordered(e)
      PROVE  k \in Keys(Order(e))
  <2>1. PICK d \in 1..e : \E i \in DOMAIN blocks[d] : ComesFirst(d, i) /\ blocks[d][i] = k
    BY FirstCopy
  <2>2. PICK i \in DOMAIN blocks[d] : ComesFirst(d, i) /\ blocks[d][i] = k
    BY <2>1
  <2>3. At(d, i) \in Order(e) /\ At(d, i).key = k
    BY <2>2, OrderMembers DEF At
  <2> QED BY <2>3 DEF Keys
<1>2. ASSUME NEW f \in Order(e)
      PROVE  f.key \in Ordered(e)
  <2>0. PICK d \in 1..e : \E i \in DOMAIN blocks[d] : f = At(d, i)
    BY OrderMembers
  <2>1. PICK i \in DOMAIN blocks[d] : f = At(d, i)
    BY <2>0
  <2>2. f.key = blocks[d][i]
    BY <2>1 DEF At
  <2>3. blocks[d][i] \in Records
    BY DEF TypeOK
  <2> QED BY <2>2, <2>3 DEF Ordered
<1> QED BY <1>1, <1>2 DEF Keys

\* Types of the order.
LEMMA OrderPlaces ==
    ASSUME TypeOK, NEW e \in 0..Len(blocks)
    PROVE  Order(e) \subseteq Place
<1> SUFFICES ASSUME NEW f \in Order(e) PROVE f \in Place
    OBVIOUS
<1>0. PICK d \in 1..e : \E i \in DOMAIN blocks[d] : f = At(d, i)
    BY OrderMembers
<1>1. PICK i \in DOMAIN blocks[d] : f = At(d, i)
    BY <1>0
<1>2. blocks[d][i] \in Records /\ d \in Nat /\ i - 1 \in Nat
    BY DEF TypeOK
<1> QED BY <1>1, <1>2 DEF At, Place

\* What the next block adds: the transactions no earlier block holds.
LEMMA OrderGrows ==
    ASSUME TypeOK, NEW n \in Nodes, NEW e \in 1..Len(blocks), finalized[n] = Order(e - 1)
    PROVE  Order(e - 1) \cup NewPlaces(n, e) = Order(e)
<1>0. e - 1 \in 0..Len(blocks) /\ Keys(finalized[n]) = Ordered(e - 1)
    BY OrderKeys
<1>1. blocks[e] \in Seq(Records)
    BY DEF TypeOK
<1>2. ASSUME NEW i \in DOMAIN blocks[e]
      PROVE  ComesFirst(e, i) <=>
               /\ blocks[e][i] \notin Keys(finalized[n])
               /\ \A j \in 1..(i - 1) : blocks[e][j] # blocks[e][i]
  <2>1. i \in 1..Len(blocks[e]) /\ blocks[e][i] \in Records
    BY <1>1
  <2>2. ASSUME ComesFirst(e, i)
        PROVE  blocks[e][i] \notin Ordered(e - 1)
    BY <2>2 DEF ComesFirst, Ordered
  <2>3. ASSUME ComesFirst(e, i), NEW j \in 1..(i - 1)
        PROVE  blocks[e][j] # blocks[e][i]
    BY <2>1, <2>3, <1>1 DEF ComesFirst
  <2>4. ASSUME blocks[e][i] \notin Ordered(e - 1),
               \A j \in 1..(i - 1) : blocks[e][j] # blocks[e][i]
        PROVE  ComesFirst(e, i)
    <3> SUFFICES ASSUME NEW d \in 1..e, NEW j \in DOMAIN blocks[d],
                        blocks[d][j] = blocks[e][i]
                 PROVE  d = e /\ i <= j
      BY DEF ComesFirst
    <3>1. d = e
      BY <2>1, <2>4 DEF Ordered
    <3> QED BY <3>1, <2>1, <2>4, <1>1
  <2> QED BY <2>2, <2>3, <2>4, <1>0
<1>3. ASSUME NEW f
      PROVE  f \in NewPlaces(n, e) <=>
               \E i \in DOMAIN blocks[e] : ComesFirst(e, i) /\ f = At(e, i)
    BY <1>2 DEF NewPlaces, At
<1>4. \A d : d \in 1..e <=> d \in 1..(e - 1) \/ d = e
    OBVIOUS
<1>5. ASSUME NEW f
      PROVE  f \in Order(e) <=> f \in Order(e - 1) \/ f \in NewPlaces(n, e)
    BY <1>3, <1>4, OrderMembers
<1> QED BY <1>5

\* A new block leaves the order of the earlier ones.
LEMMA OrderStable ==
    ASSUME TypeOK, NEW b \in Seq(Records), blocks' = Append(blocks, b),
           NEW e \in 0..Len(blocks)
    PROVE  Order(e)' = Order(e)
<1>1. \A d \in 1..e : blocks'[d] = blocks[d]
    BY DEF TypeOK
<1>2. ASSUME NEW d \in 1..e, NEW i
      PROVE  ComesFirst(d, i)' = ComesFirst(d, i)
    BY <1>1, <1>2 DEF ComesFirst
<1> QED BY <1>1, <1>2 DEF Order

\* The last epoch of the order, and what it tells: no later block added to it.
LEMMA EpochOfOrder ==
    ASSUME TypeOK, NEW e \in 0..Len(blocks)
    PROVE  Epoch(Order(e)) \in 0..e /\ Order(Epoch(Order(e))) = Order(e)
<1> DEFINE E == {f.epoch : f \in Order(e)}
<1>1. \A f \in Order(e) : f.epoch \in 1..e
    BY OrderMembers DEF At
<1>2. CASE Order(e) = {}
  <2>1. \A f : f \notin Order(0)
    BY OrderMembers
  <2> QED BY <1>2, <2>1 DEF Epoch
<1>3. CASE Order(e) # {}
  <2>1. E # {} /\ E \subseteq 1..e
    BY <1>1, <1>3
  <2>2. \E x \in E : \A y \in E : y <= x
    <3> DEFINE S == {e - y : y \in E}
    <3> HIDE DEF E
    <3>0. \A y \in E : e - y \in Nat
      BY <2>1
    <3>1. S \in SUBSET Nat /\ S # {}
      BY <2>1, <3>0
    <3>2. PICK s \in S : \A t \in S : s <= t
      BY <3>1, LeastOfSet
    <3>3. PICK x \in E : s = e - x
      BY <3>2
    <3>4. ASSUME NEW y \in E PROVE y <= x
      <4>1. e - x <= e - y
        BY <3>2, <3>3
      <4>2. e \in Int /\ x \in Int /\ y \in Int
        BY <2>1 DEF TypeOK
      <4> QED BY <4>1, <4>2
    <3> QED BY <3>4
  <2> DEFINE m == Epoch(Order(e))
  <2>3. m \in E /\ \A f \in Order(e) : f.epoch <= m
    <3>1. \E x \in E : \A f \in Order(e) : f.epoch <= x
      BY <2>2
    <3> QED BY <3>1, <1>3 DEF Epoch
  <2>4. m \in 1..e
    BY <2>1, <2>3
  <2> HIDE DEF m
  <2>5. ASSUME NEW f PROVE f \in Order(m) <=> f \in Order(e)
    <3>1. ASSUME f \in Order(m) PROVE f \in Order(e)
      BY <3>1, <2>4, OrderMembers
    <3>2. ASSUME f \in Order(e) PROVE f \in Order(m)
      <4>1. PICK d \in 1..e : \E i \in DOMAIN blocks[d] : ComesFirst(d, i) /\ f = At(d, i)
        BY <3>2, OrderMembers
      <4>2. f.epoch = d
        BY <4>1 DEF At
      <4>3. d \in 1..m
        BY <4>2, <3>2, <2>3, <2>4
      <4> QED BY <4>1, <4>3, OrderMembers
    <3> QED BY <3>1, <3>2
  <2> QED BY <2>4, <2>5 DEF m
<1> QED BY <1>2, <1>3

-----------------------------------------------------------------------------
(* Records on their way *)

\* A sequence of sequences that grows.
LEMMA HoldsAppend ==
    ASSUME NEW s \in Seq(Seq(Records)), NEW t \in Seq(Records), NEW k,
           Holds(s, k) \/ In(t, k)
    PROVE  Holds(Append(s, t), k)
<1>1. CASE Holds(s, k)
  <2>1. PICK i \in DOMAIN s : In(s[i], k)
    BY <1>1 DEF Holds
  <2>2. i \in DOMAIN Append(s, t) /\ Append(s, t)[i] = s[i]
    OBVIOUS
  <2> QED BY <2>1, <2>2 DEF Holds
<1>2. CASE In(t, k)
  <2>1. Len(s) + 1 \in DOMAIN Append(s, t) /\ Append(s, t)[Len(s) + 1] = t
    OBVIOUS
  <2> QED BY <1>2, <2>1 DEF Holds
<1> QED BY <1>1, <1>2

\* A sequence of sequences that loses its first.
LEMMA HoldsTail ==
    ASSUME NEW s \in Seq(Seq(Records)), s # <<>>, NEW k, Holds(s, k), ~In(Head(s), k)
    PROVE  Holds(Tail(s), k)
<1>1. PICK i \in DOMAIN s : In(s[i], k)
    BY DEF Holds
<1>2. i # 1
    BY <1>1
<1>3. i - 1 \in DOMAIN Tail(s) /\ Tail(s)[i - 1] = s[i]
    BY <1>2
<1> QED BY <1>1, <1>3 DEF Holds

\* A concatenation holds what its parts hold.
LEMMA InConcatenation ==
    ASSUME NEW s \in Seq(Records), NEW t \in Seq(Records), NEW k, In(s, k) \/ In(t, k)
    PROVE  In(s \o t, k)
<1>1. CASE In(s, k)
  <2>1. PICK i \in DOMAIN s : s[i] = k
    BY <1>1 DEF In
  <2>2. i \in DOMAIN (s \o t) /\ (s \o t)[i] = k
    BY <2>1
  <2> QED BY <2>2 DEF In
<1>2. CASE In(t, k)
  <2>1. PICK i \in DOMAIN t : t[i] = k
    BY <1>2 DEF In
  <2>2. Len(s) + i \in DOMAIN (s \o t) /\ (s \o t)[Len(s) + i] = k
    BY <2>1
  <2> QED BY <2>2 DEF In
<1> QED BY <1>1, <1>2

-----------------------------------------------------------------------------
(* The inductive invariant *)

\* A validator counts finitely many pending records.
PendingFinite == \A n \in Nodes : IsFiniteSet(pending[n])

\* What the check has read so far: once nothing was pending, every record
\* accepted by then is finalized; an epoch that was switched at is decided.
CheckSound ==
    /\ check.phase = "pending" /\ check.pending = 0
          => check.accepted \subseteq Keys(finalized[check.node])
    /\ check.phase = "switch" => check.epoch \in 0..Len(blocks)

\* The invariant: neither the order nor the check can be shown sound without
\* the other parts.
IInv ==
    /\ TypeOK
    /\ FinalizedIsTheOrder
    /\ PendingIsInFlight
    /\ PendingFinite
    /\ CheckSound
    /\ SwitchInheritsTheOrder

\* Nothing is ordered at first.
LEMMA InitSound == Init => IInv
<1> SUFFICES ASSUME Init PROVE IInv
    OBVIOUS
<1>1. TypeOK
    BY BoundsAssumption DEF Init, TypeOK, CheckOK
<1>2. \A f : f \notin Order(0)
    BY OrderMembers
<1>3. FinalizedIsTheOrder
    BY <1>2 DEF Init, FinalizedIsTheOrder
<1>4. PendingIsInFlight /\ CheckSound /\ SwitchInheritsTheOrder
    BY DEF Init, PendingIsInFlight, CheckSound, SwitchInheritsTheOrder, NoCheck
<1>5. PendingFinite
    BY FS_EmptySet DEF Init, PendingFinite
<1> QED BY <1>1, <1>3, <1>4, <1>5 DEF IInv

\* A step that leaves the blocks, what is finalized and how far leaves the order.
LEMMA OrderUnchanged ==
    ASSUME FinalizedIsTheOrder, UNCHANGED <<blocks, finalized, committed>>
    PROVE  FinalizedIsTheOrder' /\ \A e : Order(e)' = Order(e)
    BY DEF FinalizedIsTheOrder, Order, ComesFirst

\* Such a step that leaves the check too leaves it sound.
LEMMA CheckUnchanged ==
    ASSUME IInv, UNCHANGED <<blocks, finalized, committed, check>>
    PROVE  CheckSound' /\ SwitchInheritsTheOrder'
<1>1. \A e : Order(e)' = Order(e)
    BY OrderUnchanged DEF IInv
<1> QED BY <1>1 DEF IInv, CheckSound, SwitchInheritsTheOrder, Keys

\* submit
LEMMA SubmitSound ==
    ASSUME IInv, NEW n \in Nodes, NEW k \in Records, Submit(n, k)
    PROVE  IInv'
<1> USE DEF Submit
<1>1. TypeOK'
    BY DEF IInv, TypeOK, CheckOK
<1>2. PendingIsInFlight'
  <2> SUFFICES ASSUME NEW m \in Nodes, NEW r \in pending'[m]
               PROVE  r \notin Keys(finalized[m]) /\ OnItsWay(m, r)'
    BY DEF PendingIsInFlight, Keys
  <2>1. CASE m = n /\ r = k
    <3>1. pool'[n] = Append(pool[n], k) /\ pool[n] \in Seq(Records)
      BY DEF IInv, TypeOK
    <3>2. In(pool'[n], k)
      BY <3>1 DEF In
    <3> QED BY <2>1, <3>2 DEF OnItsWay
  <2>2. CASE ~(m = n /\ r = k)
    <3>1. r \in pending[m]
      BY <2>2 DEF IInv, TypeOK
    <3>2. r \notin Keys(finalized[m]) /\ OnItsWay(m, r)
      BY <3>1 DEF IInv, PendingIsInFlight
    <3>3. pool[m] \in Seq(Records) /\ (pool'[m] = pool[m] \/ pool'[m] = Append(pool[m], k))
      BY DEF IInv, TypeOK
    <3>4. In(pool[m], r) => In(pool'[m], r)
      BY <3>3 DEF In
    <3> QED BY <3>2, <3>4 DEF OnItsWay
  <2> QED BY <2>1, <2>2
<1>3. PendingFinite'
  <2>1. IsFiniteSet(pending[n]) /\ IsFiniteSet(pending[n] \cup {k})
    BY FS_AddElement DEF IInv, PendingFinite
  <2> QED BY <2>1 DEF IInv, PendingFinite, TypeOK
<1>4. FinalizedIsTheOrder' /\ CheckSound' /\ SwitchInheritsTheOrder'
    BY OrderUnchanged, CheckUnchanged DEF IInv
<1> QED BY <1>1, <1>2, <1>3, <1>4 DEF IInv

\* add_self_event
LEMMA AddSelfEventSound ==
    ASSUME IInv, NEW n \in Nodes, AddSelfEvent(n)
    PROVE  IInv'
<1> USE DEF AddSelfEvent
<1>1. TypeOK'
    BY DEF IInv, TypeOK, CheckOK
<1>2. PendingIsInFlight'
  <2> SUFFICES ASSUME NEW m \in Nodes, NEW r \in pending[m]
               PROVE  r \notin Keys(finalized[m]) /\ OnItsWay(m, r)'
    BY DEF PendingIsInFlight, Keys
  <2>1. r \notin Keys(finalized[m]) /\ OnItsWay(m, r)
    BY DEF IInv, PendingIsInFlight
  <2>2. CASE m = n
    <3>1. events'[n] = Append(events[n], pool[n]) /\ events[n] \in Seq(Seq(Records))
            /\ pool[n] \in Seq(Records)
      BY DEF IInv, TypeOK
    <3>2. Holds(events[n], r) \/ In(pool[n], r) => Holds(events'[n], r)
      BY <3>1, HoldsAppend
    <3> QED BY <2>1, <2>2, <3>2 DEF OnItsWay
  <2>3. CASE m # n
    <3>1. pool'[m] = pool[m] /\ events'[m] = events[m]
      BY <2>3 DEF IInv, TypeOK
    <3> QED BY <2>1, <3>1 DEF OnItsWay
  <2> QED BY <2>2, <2>3
<1>3. PendingFinite'
    BY DEF IInv, PendingFinite
<1>4. FinalizedIsTheOrder' /\ CheckSound' /\ SwitchInheritsTheOrder'
    BY OrderUnchanged, CheckUnchanged DEF IInv
<1> QED BY <1>1, <1>2, <1>3, <1>4 DEF IInv

\* process_decided_rounds
LEMMA DecideRoundSound ==
    ASSUME IInv, DecideRound
    PROVE  IInv'
<1>1. PICK b \in Seq(Records) :
        /\ blocks' = Append(blocks, b)
        /\ events' \in [Nodes -> Seq(Seq(Records))]
        /\ \A m \in Nodes, r \in Records :
              Holds(events[m], r) => Holds(events'[m], r) \/ In(b, r)
  <2>1. PICK n \in Nodes :
          /\ events[n] # <<>>
          /\ \/ /\ blocks' = Append(blocks, Head(events[n]))
                /\ events' = [events EXCEPT ![n] = Tail(@)]
             \/ \E m \in Nodes \ {n} :
                  /\ events[m] # <<>>
                  /\ blocks' = Append(blocks, Head(events[n]) \o Head(events[m]))
                  /\ events' = [events EXCEPT ![n] = Tail(@), ![m] = Tail(@)]
    BY DEF DecideRound
  <2>2. events \in [Nodes -> Seq(Seq(Records))]
    BY DEF IInv, TypeOK
  <2>3. \A m \in Nodes : events[m] # <<>> =>
           Head(events[m]) \in Seq(Records) /\ Tail(events[m]) \in Seq(Seq(Records))
    BY <2>2
  <2>4. \A m \in Nodes, r \in Records : events[m] # <<>> /\ Holds(events[m], r) =>
           In(Head(events[m]), r) \/ Holds(Tail(events[m]), r)
    BY <2>2, HoldsTail
  <2>5. CASE /\ blocks' = Append(blocks, Head(events[n]))
             /\ events' = [events EXCEPT ![n] = Tail(@)]
    <3>1. \A m \in Nodes : events'[m] = IF m = n THEN Tail(events[m]) ELSE events[m]
      BY <2>2, <2>5
    <3>2. events' \in [Nodes -> Seq(Seq(Records))]
      BY <2>1, <2>2, <2>3, <2>5
    <3>3. \A m \in Nodes, r \in Records :
            Holds(events[m], r) => Holds(events'[m], r) \/ In(Head(events[n]), r)
      BY <2>1, <2>4, <3>1
    <3> QED BY <2>1, <2>3, <2>5, <3>2, <3>3
  <2>6. ASSUME NEW p \in Nodes \ {n}, events[p] # <<>>,
               blocks' = Append(blocks, Head(events[n]) \o Head(events[p])),
               events' = [events EXCEPT ![n] = Tail(@), ![p] = Tail(@)]
        PROVE  \E b \in Seq(Records) :
                 /\ blocks' = Append(blocks, b)
                 /\ events' \in [Nodes -> Seq(Seq(Records))]
                 /\ \A m \in Nodes, r \in Records :
                      Holds(events[m], r) => Holds(events'[m], r) \/ In(b, r)
    <3> DEFINE b == Head(events[n]) \o Head(events[p])
    <3>1. \A m \in Nodes : events'[m] = IF m = n \/ m = p THEN Tail(events[m]) ELSE events[m]
      BY <2>2, <2>6
    <3>2. events' \in [Nodes -> Seq(Seq(Records))]
      BY <2>1, <2>2, <2>3, <2>6
    <3>3. b \in Seq(Records)
      <4>1. Head(events[n]) \in Seq(Records) /\ Head(events[p]) \in Seq(Records)
        BY <2>1, <2>3, <2>6
      <4> QED
        BY ONLY <4>1
    <3>4. \A r \in Records : In(Head(events[n]), r) \/ In(Head(events[p]), r) => In(b, r)
      BY <2>1, <2>3, <2>6, InConcatenation
    <3>5. \A m \in Nodes, r \in Records :
            Holds(events[m], r) => Holds(events'[m], r) \/ In(b, r)
      <4> HIDE DEF b
      <4> QED BY <2>1, <2>4, <2>6, <3>1, <3>4
    <3> QED BY <2>6, <3>2, <3>3, <3>5
  <2> QED BY <2>1, <2>5, <2>6
<1>2. UNCHANGED <<pending, finalized, pool, committed, fresh, check, restarts, checks>>
    BY DEF DecideRound
<1>3. blocks \in Seq(Seq(Records)) /\ committed \in [Nodes -> 0..Len(blocks)]
    BY DEF IInv, TypeOK
<1>4. Len(blocks') = Len(blocks) + 1 /\ blocks'[Len(blocks) + 1] = b
        /\ \A e \in 1..Len(blocks) : blocks'[e] = blocks[e]
    BY <1>1, <1>3
<1>5. TypeOK'
  <2>1. blocks' \in Seq(Seq(Records)) /\ committed' \in [Nodes -> 0..Len(blocks')]
    BY <1>1, <1>2, <1>3, <1>4
  <2> QED BY <1>1, <1>2, <2>1 DEF IInv, TypeOK, CheckOK
<1>6. \A e \in 0..Len(blocks) : Order(e)' = Order(e)
    BY <1>1, OrderStable DEF IInv
<1>7. FinalizedIsTheOrder'
    BY <1>2, <1>3, <1>6 DEF IInv, FinalizedIsTheOrder
<1>8. PendingIsInFlight'
  <2> SUFFICES ASSUME NEW m \in Nodes, NEW r \in pending[m]
               PROVE  r \notin Keys(finalized[m]) /\ OnItsWay(m, r)'
    BY <1>2 DEF PendingIsInFlight, Keys
  <2>1. r \notin Keys(finalized[m]) /\ OnItsWay(m, r) /\ r \in Records
    BY DEF IInv, PendingIsInFlight, TypeOK
  <2>2. committed[m] \in Nat /\ committed[m] <= Len(blocks) /\ Len(blocks) \in Nat
    BY <1>3
  <2>3. In(b, r) => \E e \in (committed'[m] + 1)..Len(blocks') : In(blocks'[e], r)
    BY <1>2, <1>4, <2>2
  <2>4. (\E e \in (committed[m] + 1)..Len(blocks) : In(blocks[e], r))
          => \E e \in (committed'[m] + 1)..Len(blocks') : In(blocks'[e], r)
    <3> SUFFICES ASSUME NEW e \in (committed[m] + 1)..Len(blocks), In(blocks[e], r)
                 PROVE  e \in (committed'[m] + 1)..Len(blocks') /\ In(blocks'[e], r)
      OBVIOUS
    <3> QED BY <1>2, <1>4, <2>2
  <2>5. Holds(events[m], r) => Holds(events'[m], r) \/ In(b, r)
    BY <1>1, <2>1
  <2> QED BY <1>2, <2>1, <2>3, <2>4, <2>5 DEF OnItsWay
<1>9. PendingFinite'
    BY <1>2 DEF IInv, PendingFinite
<1>10. CheckSound' /\ SwitchInheritsTheOrder'
    BY <1>2, <1>3, <1>4, <1>6 DEF IInv, CheckSound, SwitchInheritsTheOrder, Keys
<1> QED BY <1>5, <1>7, <1>8, <1>9, <1>10 DEF IInv

\* commit_handler
LEMMA CommitSound ==
    ASSUME IInv, NEW n \in Nodes, Commit(n)
    PROVE  IInv'
<1> DEFINE e == committed[n] + 1
<1>1. /\ e <= Len(blocks)
      /\ finalized' = [finalized EXCEPT ![n] = @ \cup NewPlaces(n, e)]
      /\ pending' = [pending EXCEPT ![n] = @ \ Transactions(e)]
      /\ committed' = [committed EXCEPT ![n] = e]
      /\ UNCHANGED <<pool, events, blocks, fresh, check, restarts, checks>>
    BY DEF Commit
<1>2. blocks \in Seq(Seq(Records)) /\ committed \in [Nodes -> 0..Len(blocks)]
        /\ finalized \in [Nodes -> SUBSET Place] /\ pending \in [Nodes -> SUBSET Records]
    BY DEF IInv, TypeOK
<1>3. e \in 1..Len(blocks) /\ committed[n] = e - 1
    BY <1>1, <1>2
<1> HIDE DEF e
<1>4. \A d : Order(d)' = Order(d)
    BY <1>1 DEF Order, ComesFirst
<1>5. finalized'[n] = Order(e)
  <2>1. finalized[n] = Order(e - 1)
    BY <1>3 DEF IInv, FinalizedIsTheOrder
  <2>2. Order(e - 1) \cup NewPlaces(n, e) = Order(e)
    BY <1>3, <2>1, OrderGrows DEF IInv
  <2> QED BY <1>1, <1>2, <2>1, <2>2
<1>6. \A m \in Nodes : m # n => finalized'[m] = finalized[m] /\ committed'[m] = committed[m]
                                   /\ pending'[m] = pending[m]
    BY <1>1, <1>2
<1>7. committed'[n] = e /\ pending'[n] = pending[n] \ Transactions(e)
    BY <1>1, <1>2
<1>8. TypeOK'
  <2>1. Order(e) \subseteq Place
    BY <1>3, OrderPlaces DEF IInv
  <2>2. finalized' \in [Nodes -> SUBSET Place]
    BY <1>1, <1>2, <1>5, <1>6, <2>1
  <2>3. pending' \in [Nodes -> SUBSET Records] /\ committed' \in [Nodes -> 0..Len(blocks)]
    BY <1>1, <1>2, <1>3
  <2> QED BY <1>1, <2>2, <2>3 DEF IInv, TypeOK, CheckOK
<1>9. FinalizedIsTheOrder'
    BY <1>4, <1>5, <1>6, <1>7 DEF IInv, FinalizedIsTheOrder
<1>10. PendingIsInFlight'
  <2> SUFFICES ASSUME NEW m \in Nodes, NEW r \in pending'[m]
               PROVE  r \notin Keys(finalized'[m]) /\ OnItsWay(m, r)'
    BY DEF PendingIsInFlight, Keys
  <2>1. r \in pending[m] /\ r \notin Keys(finalized[m]) /\ OnItsWay(m, r)
    BY <1>6, <1>7 DEF IInv, PendingIsInFlight
  <2>2. CASE m # n
    BY <1>1, <1>6, <2>1, <2>2 DEF OnItsWay
  <2>3. CASE m = n
    <3>1. ~In(blocks[e], r)
      <4>1. r \notin Transactions(e) /\ blocks[e] \in Seq(Records)
        BY <1>2, <1>3, <1>7, <2>3
      <4> QED BY <4>1 DEF Transactions, In
    <3>2. \A f \in NewPlaces(n, e) : f.key # r
      BY <3>1 DEF NewPlaces, In
    <3>3. r \notin Keys(finalized'[n])
      <4>1. finalized'[n] = finalized[n] \cup NewPlaces(n, e)
        BY <1>1, <1>2
      <4> QED BY <2>1, <2>3, <3>2, <4>1 DEF Keys
    <3>4. (\E d \in (committed[n] + 1)..Len(blocks) : In(blocks[d], r))
            => \E d \in (committed'[n] + 1)..Len(blocks') : In(blocks'[d], r)
      <4> SUFFICES ASSUME NEW d \in (committed[n] + 1)..Len(blocks), In(blocks[d], r)
                   PROVE  d \in (committed'[n] + 1)..Len(blocks') /\ In(blocks'[d], r)
        OBVIOUS
      <4>1. d # e
        BY <3>1
      <4> QED BY <1>1, <1>2, <1>3, <1>7, <4>1
    <3> QED BY <1>1, <2>1, <2>3, <3>3, <3>4 DEF OnItsWay
  <2> QED BY <2>2, <2>3
<1>11. PendingFinite'
  <2>1. \A m \in Nodes : pending'[m] \subseteq pending[m]
    BY <1>6, <1>7
  <2> QED BY <2>1, FS_Subset DEF IInv, PendingFinite
<1>12. CheckSound' /\ SwitchInheritsTheOrder'
  <2>1. SwitchInheritsTheOrder'
    BY <1>1, <1>4 DEF IInv, SwitchInheritsTheOrder, Keys
  <2>2. \A m \in Nodes : Keys(finalized[m]) \subseteq Keys(finalized'[m])
    BY <1>1, <1>2 DEF Keys
  <2>3. check.phase = "pending" => check.node \in Nodes
    BY DEF IInv, TypeOK, CheckOK, NoCheck
  <2>4. CheckSound'
    BY <1>1, <2>2, <2>3 DEF IInv, CheckSound, Keys
  <2> QED BY <2>1, <2>4
<1> QED BY <1>8, <1>9, <1>10, <1>11, <1>12 DEF IInv

\* A restart forgets, and replays from genesis.
LEMMA RestartSound ==
    ASSUME IInv, NEW n \in Nodes, Restart(n)
    PROVE  IInv'
<1> USE DEF Restart
<1>1. PICK kept \in 0..Len(events[n]) : events' = [events EXCEPT ![n] = SubSeq(@, 1, kept)]
    OBVIOUS
<1>2. \A m \in Nodes : m # n => /\ pending'[m] = pending[m]
                                /\ finalized'[m] = finalized[m]
                                /\ pool'[m] = pool[m]
                                /\ events'[m] = events[m]
                                /\ committed'[m] = committed[m]
    BY <1>1 DEF IInv, TypeOK
<1>3. pending'[n] = {} /\ finalized'[n] = {} /\ committed'[n] = 0
    BY DEF IInv, TypeOK
<1>4. \A d : Order(d)' = Order(d)
    BY DEF Order, ComesFirst
<1>5. TypeOK'
  <2>1. events' \in [Nodes -> Seq(Seq(Records))]
    <3>1. events[n] \in Seq(Seq(Records)) /\ SubSeq(events[n], 1, kept) \in Seq(Seq(Records))
      BY DEF IInv, TypeOK
    <3> QED BY <1>1, <3>1 DEF IInv, TypeOK
  <2>2. CheckOK'
    BY DEF IInv, TypeOK, CheckOK
  <2>3. restarts' \in 0..MaxRestarts
    BY BoundsAssumption DEF IInv, TypeOK
  <2>4. committed' \in [Nodes -> 0..Len(blocks')]
    BY DEF IInv, TypeOK
  <2> QED BY <2>1, <2>2, <2>3, <2>4 DEF IInv, TypeOK
<1>6. FinalizedIsTheOrder'
  <2>1. Order(0) = {}
    BY OrderMembers
  <2> QED BY <1>2, <1>3, <1>4, <2>1 DEF IInv, FinalizedIsTheOrder
<1>7. PendingIsInFlight'
    BY <1>2, <1>3 DEF IInv, PendingIsInFlight, OnItsWay, Keys
<1>8. PendingFinite'
    BY <1>2, <1>3, FS_EmptySet DEF IInv, PendingFinite
<1>9. CheckSound' /\ SwitchInheritsTheOrder'
  <2>1. check' = NoCheck \/ (check' = check /\ (check.node # n \/ check.phase = "switch"))
    OBVIOUS
  <2>2. CASE check' = NoCheck
    BY <2>2 DEF CheckSound, SwitchInheritsTheOrder, NoCheck
  <2>3. CASE check' = check /\ (check.node # n \/ check.phase = "switch")
    <3>1. check.phase = "pending" => check.node \in Nodes
      BY DEF IInv, TypeOK, CheckOK, NoCheck
    <3> QED BY <1>2, <1>4, <2>3, <3>1 DEF IInv, CheckSound, SwitchInheritsTheOrder, Keys
  <2> QED BY <2>1, <2>2, <2>3
<1> QED BY <1>5, <1>6, <1>7, <1>8, <1>9 DEF IInv

\* A step of the check or of a sync leaves the records where they are.
LEMMA RecordsUnchanged ==
    ASSUME IInv, UNCHANGED <<pending, finalized, pool, events, blocks, committed>>
    PROVE  FinalizedIsTheOrder' /\ PendingIsInFlight' /\ PendingFinite'
<1>1. FinalizedIsTheOrder'
    BY OrderUnchanged DEF IInv
<1> QED BY <1>1 DEF IInv, PendingIsInFlight, PendingFinite, OnItsWay, Keys

\* sync
LEMMA SyncSound ==
    ASSUME IInv, NEW n \in Nodes, Sync(n)
    PROVE  IInv'
<1>1. TypeOK'
    BY DEF IInv, TypeOK, CheckOK, Sync
<1> QED BY <1>1, RecordsUnchanged, CheckUnchanged DEF IInv, Sync

\* finalized_epoch
LEMMA ReadEpochSound ==
    ASSUME IInv, NEW n \in Nodes, ReadEpoch(n)
    PROVE  IInv'
<1> USE DEF ReadEpoch
<1>1. Epoch(finalized[n]) \in Nat
  <2>1. finalized[n] = Order(committed[n]) /\ committed[n] \in 0..Len(blocks)
    BY DEF IInv, FinalizedIsTheOrder, TypeOK
  <2>2. Epoch(finalized[n]) \in 0..committed[n]
    BY <2>1, EpochOfOrder DEF IInv
  <2> QED BY <2>1, <2>2
<1>2. check' = [phase |-> "epoch", node |-> n, epoch |-> Epoch(finalized[n]), pending |-> 0,
                accepted |-> {}, checkpoint |-> {}]
    BY DEF NoCheck
<1>3. TypeOK'
  <2>1. CheckOK'
    BY <1>1, <1>2 DEF CheckOK
  <2>2. checks' \in 0..MaxChecks
    BY BoundsAssumption DEF IInv, TypeOK
  <2> QED BY <2>1, <2>2 DEF IInv, TypeOK
<1>4. CheckSound' /\ SwitchInheritsTheOrder'
    BY <1>2 DEF CheckSound, SwitchInheritsTheOrder
<1> QED BY <1>3, <1>4, RecordsUnchanged DEF IInv

\* pending
LEMMA ReadPendingSound ==
    ASSUME IInv, ReadPending
    PROVE  IInv'
<1> USE DEF ReadPending
<1> DEFINE n == check.node
<1>1. n \in Nodes /\ check \in [phase : {"epoch", "pending", "switch"}, node : Nodes,
                   epoch : Nat, pending : Nat, accepted : SUBSET Records,
                   checkpoint : SUBSET Place]
    BY DEF IInv, TypeOK, CheckOK, NoCheck
<1>2. IsFiniteSet(pending[n]) /\ Cardinality(pending[n]) \in Nat
        /\ (Cardinality(pending[n]) = 0 => pending[n] = {})
    BY <1>1, FS_CardinalityType, FS_EmptySet DEF IInv, PendingFinite
<1>3. pending[n] \cup Keys(finalized[n]) \in SUBSET Records
    BY <1>1 DEF IInv, TypeOK, Keys, Place
<1>4. TypeOK'
  <2>1. CheckOK'
    BY <1>1, <1>2, <1>3 DEF CheckOK
  <2> QED BY <2>1 DEF IInv, TypeOK
<1>5. check'.phase = "pending" /\ check'.node = n /\ check'.pending = Cardinality(pending[n])
        /\ check'.accepted = pending[n] \cup Keys(finalized[n])
    BY <1>1
<1>6. CheckSound' /\ SwitchInheritsTheOrder'
    BY <1>2, <1>5 DEF CheckSound, SwitchInheritsTheOrder, Keys
<1> QED BY <1>4, <1>6, RecordsUnchanged DEF IInv

\* checkpoint and may_switch
LEMMA TakeCheckpointSound ==
    ASSUME IInv, TakeCheckpoint
    PROVE  IInv'
<1> USE DEF TakeCheckpoint
<1> DEFINE places == finalized[check.node]
<1>1. check.node \in Nodes /\ check \in [phase : {"epoch", "pending", "switch"}, node : Nodes,
                   epoch : Nat, pending : Nat, accepted : SUBSET Records,
                   checkpoint : SUBSET Place]
    BY DEF IInv, TypeOK, CheckOK, NoCheck
<1>2. places \in SUBSET Place
    BY <1>1 DEF IInv, TypeOK
<1>3. \A e : Order(e)' = Order(e)
    BY OrderUnchanged DEF IInv
<1>4. CASE MaySwitch(places)
  <2>1. check' = [check EXCEPT !.phase = "switch", !.checkpoint = places]
    BY <1>4
  <2>2. check'.phase = "switch" /\ check'.epoch = check.epoch /\ check'.accepted = check.accepted
          /\ check'.checkpoint = places
    BY <1>1, <2>1
  <2>3. CheckOK'
    BY <1>1, <1>2, <2>1 DEF CheckOK
  <2>4. check.epoch \in 0..Len(blocks) /\ places = Order(check.epoch)
    <3>1. places = Order(committed[check.node]) /\ committed[check.node] \in 0..Len(blocks)
      BY <1>1 DEF IInv, FinalizedIsTheOrder, TypeOK
    <3>2. check.epoch \in 0..committed[check.node] /\ Order(check.epoch) = places
      BY <1>4, <3>1, EpochOfOrder DEF IInv, MaySwitch
    <3> QED BY <3>1, <3>2 DEF IInv, TypeOK
  <2>5. check.accepted \subseteq Keys(places)
    BY <1>4 DEF IInv, CheckSound, MaySwitch
  <2>6. CheckSound' /\ SwitchInheritsTheOrder'
    BY <1>3, <2>2, <2>4, <2>5 DEF CheckSound, SwitchInheritsTheOrder, Keys
  <2>7. TypeOK'
    BY <2>3 DEF IInv, TypeOK
  <2> QED BY <2>6, <2>7, RecordsUnchanged DEF IInv
<1>5. CASE ~MaySwitch(places)
  <2>1. check' = NoCheck
    BY <1>5
  <2>2. TypeOK'
    BY <2>1 DEF IInv, TypeOK, CheckOK, NoCheck
  <2>3. check'.phase = "idle"
    <3>1. NoCheck.phase = "idle"
      BY DEF NoCheck
    <3> QED BY <2>1, <3>1, Zenon
  <2>4. CheckSound' /\ SwitchInheritsTheOrder'
    BY <2>3 DEF CheckSound, SwitchInheritsTheOrder
  <2> QED BY <2>2, <2>4, RecordsUnchanged DEF IInv
<1> QED BY <1>4, <1>5

-----------------------------------------------------------------------------
(* The theorems *)

\* Every step keeps the invariant.
LEMMA NextSound == IInv /\ [Next]_vars => IInv'
<1> SUFFICES ASSUME IInv, [Next]_vars PROVE IInv'
    OBVIOUS
<1>1. ASSUME NEW n \in Nodes, NEW k \in Records, Submit(n, k) PROVE IInv'
    BY <1>1, SubmitSound
<1>2. ASSUME NEW n \in Nodes, AddSelfEvent(n) PROVE IInv'
    BY <1>2, AddSelfEventSound
<1>3. ASSUME NEW n \in Nodes, Commit(n) PROVE IInv'
    BY <1>3, CommitSound
<1>4. ASSUME NEW n \in Nodes, Restart(n) PROVE IInv'
    BY <1>4, RestartSound
<1>5. ASSUME NEW n \in Nodes, Sync(n) PROVE IInv'
    BY <1>5, SyncSound
<1>6. ASSUME NEW n \in Asked, ReadEpoch(n) PROVE IInv'
    BY <1>6, ReadEpochSound, MeshAssumption
<1>7. CASE DecideRound
    BY <1>7, DecideRoundSound
<1>8. CASE ReadPending
    BY <1>8, ReadPendingSound
<1>9. CASE TakeCheckpoint
    BY <1>9, TakeCheckpointSound
<1>10. CASE UNCHANGED vars
  <2>1. TypeOK'
    BY <1>10 DEF IInv, TypeOK, CheckOK, vars
  <2> QED BY <1>10, <2>1, RecordsUnchanged, CheckUnchanged DEF IInv, vars
<1> QED BY <1>1, <1>2, <1>3, <1>4, <1>5, <1>6, <1>7, <1>8, <1>9, <1>10 DEF Next, Repeat

\* The invariant holds of every reachable state.
LEMMA Invariance == Spec => []IInv
    BY InitSound, NextSound, PTL DEF Spec

\* The provider's state keeps its types, and a check what it read.
THEOREM OrderingTypeCorrect == Spec => []TypeOK
<1>1. IInv => TypeOK
    BY DEF IInv
<1> QED BY <1>1, Invariance, PTL

\* Validators agree: what each has finalized is the one order of the blocks it
\* committed (commit_handler), whatever came twice and whoever restarted.
THEOREM ValidatorsAgree == Spec => []FinalizedIsTheOrder
<1>1. IInv => FinalizedIsTheOrder
    BY DEF IInv
<1> QED BY <1>1, Invariance, PTL

\* No record is counted as pending that has been finalized or dropped.
THEOREM PendingStaysInFlight == Spec => []PendingIsInFlight
<1>1. IInv => PendingIsInFlight
    BY DEF IInv
<1> QED BY <1>1, Invariance, PTL

\* A switch that may_switch allowed inherits the order up to its epoch.
THEOREM SwitchIsSound == Spec => []SwitchInheritsTheOrder
<1>1. IInv => SwitchInheritsTheOrder
    BY DEF IInv
<1> QED BY <1>1, Invariance, PTL
=============================================================================
