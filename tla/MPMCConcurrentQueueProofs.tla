--------------------- MODULE MPMCConcurrentQueueProofs ---------------------
(***************************************************************************)
(* The ring of MPMCConcurrentQueue implements BoundedFifo, for every       *)
(* capacity and every finite number of producers and consumers.            *)
(*                                                                         *)
(* The invariant has three parts.  The ring: the turn of the slot of a     *)
(* position says how far the position has come, and a position that is     *)
(* claimed and not passed on has exactly one thread working on it.  The    *)
(* tokens: every position that is claimed holds a token of m_spaces or of  *)
(* m_items, counted with the threads between the semaphore and the claim.  *)
(* The stop: a token that stop() adds is only taken by threads that then   *)
(* find the queue stopped.                                                 *)
(***************************************************************************)
EXTENDS MPMCConcurrentQueue, FiniteSetTheorems, TLAPS

ProducerPc == {"push", "waitSpace", "testStopped", "wakeProducer", "claimTail", "write",
               "publish", "postItem"}

ConsumerPc == {"waitItem", "testStopped", "wakeConsumer", "claimHead", "read", "release",
               "postSpace", "doWork", "ended"}

StopperPc == {"run", "wakeItems", "wakeSpaces", "done"}

Maybe == Item \cup {NoItem}

QueueTypeOK ==
  /\ slots \in [0..(Capacity - 1) -> [turn : Nat, item : Maybe]]
  /\ head \in Nat /\ tail \in Nat /\ items \in Nat /\ spaces \in Nat
  /\ stopped \in BOOLEAN
  /\ at \in [Producer \cup Consumer \cup {Stopper} -> ProducerPc \cup ConsumerPc \cup StopperPc]
  /\ \A p \in Producer : at[p] \in ProducerPc
  /\ \A c \in Consumer : at[c] \in ConsumerPc
  /\ at[Stopper] \in StopperPc
  /\ pos \in [Producer \cup Consumer -> Nat]
  /\ local \in [Producer \cup Consumer -> Maybe]
  /\ pushed \in [Producer -> Nat]

Turn(n) == slots[Slot(n)].turn

Writing(p) == at[p] \in {"write", "publish"}

Reading(c) == at[c] \in {"read", "release"}

\* The producers' side of the ring: a producer that has claimed a position and not
\* published it is the only one there, and no such position is without a producer.
WriterHasItem == \A p \in Producer : at[p] # "push" => local[p] \in Item

WriterTurn ==
  \A p \in Producer : Writing(p) => pos[p] < tail /\ Turn(pos[p]) <= ProducerTurn(pos[p])

Written ==
  \A p \in Producer : at[p] = "publish" =>
    Turn(pos[p]) = ProducerTurn(pos[p]) /\ slots[Slot(pos[p])].item = local[p]

OneWriter == \A p, q \in Producer : Writing(p) /\ Writing(q) /\ pos[p] = pos[q] => p = q

HasWriter ==
  \A n \in Nat : n < tail /\ Turn(n) <= ProducerTurn(n) =>
    \E p \in Producer : Writing(p) /\ pos[p] = n

AheadOfTail == \A n \in Nat : n >= tail => Turn(n) <= ProducerTurn(n)

WriterInv == WriterHasItem /\ WriterTurn /\ Written /\ OneWriter /\ HasWriter /\ AheadOfTail

\* The consumers' side: a consumer is alone at its position too, and the slot of a
\* published position holds an item until its consumer has moved it out.
ReaderHasItem ==
  \A c \in Consumer : at[c] \in {"release", "postSpace", "doWork"} => local[c] \in Item

ReaderTurn ==
  \A c \in Consumer : Reading(c) => pos[c] < head /\ Turn(pos[c]) <= ConsumerTurn(pos[c])

Emptied == \A c \in Consumer : at[c] = "release" => Turn(pos[c]) = ConsumerTurn(pos[c])

OneReader == \A c, d \in Consumer : Reading(c) /\ Reading(d) /\ pos[c] = pos[d] => c = d

AheadOfHead == \A n \in Nat : n >= head => Turn(n) <= ConsumerTurn(n)

HoldsItem ==
  \A n \in Nat : Turn(n) = ConsumerTurn(n) /\ (\A c \in Consumer : at[c] = "release" => pos[c] # n)
    => slots[Slot(n)].item \in Item

ReaderInv == ReaderHasItem /\ ReaderTurn /\ Emptied /\ OneReader /\ AheadOfHead /\ HoldsItem

\* How many threads of T are at one of the labels L.
CountAt(f, T, L) == Cardinality({t \in T : f[t] \in L})

\* The threads that have a token and no position yet, and those that have a position
\* and have not posted the token for the other side.
TestingSpace(f) == CountAt(f, Producer, {"testStopped"})
Claiming(f) == CountAt(f, Producer, {"claimTail"})
Filling(f) == CountAt(f, Producer, {"write", "publish", "postItem"})
TestingItem(f) == CountAt(f, Consumer, {"testStopped"})
ClaimingHead(f) == CountAt(f, Consumer, {"claimHead"})
Emptying(f) == CountAt(f, Consumer, {"read", "release", "postSpace"})

TokenInv ==
  /\ head <= tail
  /\ Claiming(at) + (tail - head) + Emptying(at) <= Capacity
  /\ ClaimingHead(at) + Filling(at) <= tail - head
  /\ ~stopped =>
       /\ spaces + TestingSpace(at) + Claiming(at) + (tail - head) + Emptying(at) <= Capacity
       /\ items + TestingItem(at) + ClaimingHead(at) + Filling(at) <= tail - head

StopInv ==
  /\ at[Stopper] # "run" => stopped
  /\ \A p \in Producer : at[p] = "wakeProducer" => stopped
  /\ \A c \in Consumer : at[c] = "wakeConsumer" => stopped

RingInv == QueueTypeOK /\ WriterInv /\ ReaderInv /\ TokenInv /\ StopInv

-----------------------------------------------------------------------------
\* A position has a slot, and of two positions with the same slot the later one is at
\* least a lap, that is two turns, ahead (the indices of push_impl() and consume_slot()).
LEMMA Laps ==
  /\ \A n \in Nat : Slot(n) \in 0..(Capacity - 1) /\ ProducerTurn(n) \in Nat
  /\ \A m, n \in Nat : ProducerTurn(m) # ProducerTurn(n) + 1
  /\ \A m, n \in Nat : m < n /\ Slot(m) = Slot(n) => ProducerTurn(m) + 2 <= ProducerTurn(n)
<1>1. Capacity \in Nat \ {0}
  BY QueueAssumption
<1>2. \A n \in Nat : /\ n % Capacity \in 0..(Capacity - 1)
                     /\ n \div Capacity \in Nat
                     /\ n = Capacity * (n \div Capacity) + (n % Capacity)
  BY <1>1, Z3
<1>3. ASSUME NEW m \in Nat, NEW n \in Nat, m < n, Slot(m) = Slot(n)
      PROVE  ProducerTurn(m) + 2 <= ProducerTurn(n)
  <2> DEFINE a == m \div Capacity
  <2> DEFINE b == n \div Capacity
  <2>1. /\ a \in Nat /\ b \in Nat
        /\ Capacity * a < Capacity * b
    BY <1>1, <1>2, <1>3, Z3 DEF Slot
  <2> HIDE DEF a, b
  <2>2. a < b
    BY <1>1, <2>1, Z3
  <2> QED BY <2>1, <2>2 DEF ProducerTurn, a, b
<1>4. ASSUME NEW m \in Nat, NEW n \in Nat
      PROVE  ProducerTurn(m) # ProducerTurn(n) + 1
  <2> DEFINE a == m \div Capacity
  <2> DEFINE b == n \div Capacity
  <2>1. a \in Nat /\ b \in Nat
    BY <1>2
  <2> HIDE DEF a, b
  <2>2. 2 * a # 2 * b + 1
    BY <2>1, Z3
  <2> QED BY <2>2 DEF ProducerTurn, a, b
<1> QED BY <1>2, <1>3, <1>4 DEF Slot, ProducerTurn

-----------------------------------------------------------------------------
(* Counting threads *)

One(l, L) == IF l \in L THEN 1 ELSE 0

\* The number of threads at some labels is a natural number.
LEMMA CountType ==
  \A f : /\ TestingSpace(f) \in Nat /\ Claiming(f) \in Nat /\ Filling(f) \in Nat
        /\ TestingItem(f) \in Nat /\ ClaimingHead(f) \in Nat /\ Emptying(f) \in Nat
<1>1. ASSUME NEW f, NEW T, IsFiniteSet(T), NEW L
      PROVE  CountAt(f, T, L) \in Nat
  BY <1>1, FS_Subset, FS_CardinalityType DEF CountAt
<1> QED
  BY <1>1, QueueAssumption
  DEF TestingSpace, Claiming, Filling, TestingItem, ClaimingHead, Emptying

\* Moving one thread of T from a label to another changes the number of threads of T at
\* some labels by one, or not at all (every step of push_impl(), pop() and stop()).
LEMMA CountMoves ==
  ASSUME QueueTypeOK, NEW T, T \subseteq Producer \cup Consumer \cup {Stopper}, IsFiniteSet(T),
         NEW t \in T, NEW from, NEW to, Step(t, from, to), NEW L
  PROVE  CountAt(at', T, L) = CountAt(at, T, L) - One(from, L) + One(to, L)
<1> DEFINE A == {x \in T : at[x] \in L}
<1> DEFINE B == {x \in T : at'[x] \in L}
<1>0. at[t] = from /\ at'[t] = to /\ \A x \in T \ {t} : at'[x] = at[x]
  BY DEF QueueTypeOK, Step
<1>1. IsFiniteSet(A) /\ IsFiniteSet(B)
  BY FS_Subset
<1>2. Cardinality(A) \in Nat
  BY <1>1, FS_CardinalityType
<1>3. CASE from \notin L /\ to \in L
  <2>1. B = A \cup {t} /\ t \notin A
    BY <1>0, <1>3
  <2>2. Cardinality(B) = Cardinality(A) + 1
    BY <1>1, <2>1, FS_AddElement
  <2> QED BY <1>2, <1>3, <2>2 DEF CountAt, One
<1>4. CASE from \in L /\ to \notin L
  <2>1. B = A \ {t} /\ t \in A
    BY <1>0, <1>4
  <2>2. Cardinality(B) = Cardinality(A) - 1
    BY <1>1, <2>1, FS_RemoveElement, Zenon
  <2> QED BY <1>2, <1>4, <2>2 DEF CountAt, One
<1>5. CASE (from \in L /\ to \in L) \/ (from \notin L /\ to \notin L)
  <2>1. B = A
    BY <1>0, <1>5
  <2>2. Cardinality(B) = Cardinality(A)
    BY <2>1
  <2>3. One(from, L) = One(to, L) /\ One(from, L) \in Nat
    BY <1>5 DEF One
  <2> QED BY <1>2, <2>2, <2>3 DEF CountAt
<1> QED BY <1>3, <1>4, <1>5

\* The threads of another side stay where they are.
LEMMA CountStays ==
  ASSUME QueueTypeOK, NEW T, T \subseteq Producer \cup Consumer \cup {Stopper},
         NEW t \in (Producer \cup Consumer \cup {Stopper}) \ T, NEW from, NEW to,
         Step(t, from, to), NEW L
  PROVE  CountAt(at', T, L) = CountAt(at, T, L)
<1>1. \A x \in T : at'[x] = at[x]
  BY DEF QueueTypeOK, Step
<1>2. {x \in T : at'[x] \in L} = {x \in T : at[x] \in L}
  BY <1>1
<1> QED BY <1>2 DEF CountAt

\* A step of push_impl() moves one producer and no consumer.
LEMMA ProducerCounts ==
  ASSUME QueueTypeOK, NEW p \in Producer, NEW from, NEW to, Step(p, from, to)
  PROVE  /\ TestingSpace(at') = TestingSpace(at) - One(from, {"testStopped"}) + One(to, {"testStopped"})
         /\ Claiming(at') = Claiming(at) - One(from, {"claimTail"}) + One(to, {"claimTail"})
         /\ Filling(at') = Filling(at) - One(from, {"write", "publish", "postItem"}) + One(to, {"write", "publish", "postItem"})
         /\ TestingItem(at') = TestingItem(at)
         /\ ClaimingHead(at') = ClaimingHead(at)
         /\ Emptying(at') = Emptying(at)
<1>1. \A L : CountAt(at', Producer, L) = CountAt(at, Producer, L) - One(from, L) + One(to, L)
  BY CountMoves, QueueAssumption
<1>2. \A L : CountAt(at', Consumer, L) = CountAt(at, Consumer, L)
  BY CountStays, QueueAssumption
<1> QED BY <1>1, <1>2 DEF TestingSpace, Claiming, Filling, TestingItem, ClaimingHead, Emptying

\* A step of pop() moves one consumer and no producer.
LEMMA ConsumerCounts ==
  ASSUME QueueTypeOK, NEW c \in Consumer, NEW from, NEW to, Step(c, from, to)
  PROVE  /\ TestingItem(at') = TestingItem(at) - One(from, {"testStopped"}) + One(to, {"testStopped"})
         /\ ClaimingHead(at') = ClaimingHead(at) - One(from, {"claimHead"}) + One(to, {"claimHead"})
         /\ Emptying(at') = Emptying(at) - One(from, {"read", "release", "postSpace"}) + One(to, {"read", "release", "postSpace"})
         /\ TestingSpace(at') = TestingSpace(at)
         /\ Claiming(at') = Claiming(at)
         /\ Filling(at') = Filling(at)
<1>1. \A L : CountAt(at', Consumer, L) = CountAt(at, Consumer, L) - One(from, L) + One(to, L)
  BY CountMoves, QueueAssumption
<1>2. \A L : CountAt(at', Producer, L) = CountAt(at, Producer, L)
  BY CountStays, QueueAssumption
<1> QED BY <1>1, <1>2 DEF TestingItem, ClaimingHead, Emptying, TestingSpace, Claiming, Filling

\* A step of stop() moves neither.
LEMMA StopperCounts ==
  ASSUME QueueTypeOK, NEW from, NEW to, Step(Stopper, from, to)
  PROVE  /\ TestingSpace(at') = TestingSpace(at)
         /\ Claiming(at') = Claiming(at)
         /\ Filling(at') = Filling(at)
         /\ TestingItem(at') = TestingItem(at)
         /\ ClaimingHead(at') = ClaimingHead(at)
         /\ Emptying(at') = Emptying(at)
<1>1. \A T \in {Producer, Consumer} : \A L : CountAt(at', T, L) = CountAt(at, T, L)
  BY CountStays, QueueAssumption
<1> QED BY <1>1 DEF TestingSpace, Claiming, Filling, TestingItem, ClaimingHead, Emptying

-----------------------------------------------------------------------------
(* The invariant is inductive *)

\* What a producer pushes is one of its items.
LEMMA NewItem ==
  ASSUME RingInv, NEW p \in Producer, CallPush(p)
  PROVE  <<p, pushed[p] + 1>> \in Item
<1>1. pushed[p] \in Nat /\ Pushes[p] \in Nat
  BY QueueAssumption DEF RingInv, QueueTypeOK
<1>2. pushed[p] < Pushes[p]
  BY DEF CallPush
<1>3. pushed[p] + 1 \in 1..Pushes[p]
  BY <1>1, <1>2
<1>4. ASSUME NEW k \in 1..Pushes[p]
      PROVE  <<p, k>> \in Item
  <2>1. <<p, k>> \in {p} \X (1..Pushes[p])
    OBVIOUS
  <2> QED BY <2>1, Zenon DEF Item
<1> QED BY <1>3, <1>4

\* Every step keeps the types.
LEMMA QueueTypeStep ==
  ASSUME RingInv, [QueueNext]_queueVars
  PROVE  QueueTypeOK'
<1>1. ASSUME NEW p \in Producer, CallPush(p)
      PROVE  QueueTypeOK'
  <2>1. <<p, pushed[p] + 1>> \in Maybe
    BY <1>1, NewItem DEF Maybe
  <2> QED BY <1>1, <2>1, QueueAssumption, SMTT(30)
    DEF RingInv, QueueTypeOK, ProducerPc, ConsumerPc, StopperPc, CallPush, Step
<1>2. ASSUME NEW p \in Producer, WaitSpace(p)
      PROVE  QueueTypeOK'
  BY <1>2, QueueAssumption DEF RingInv, QueueTypeOK, ProducerPc, ConsumerPc, StopperPc,
    WaitSpace, Step, Maybe
<1>3. ASSUME NEW p \in Producer, PushTimeout(p)
      PROVE  QueueTypeOK'
  BY <1>3, QueueAssumption DEF RingInv, QueueTypeOK, ProducerPc, ConsumerPc, StopperPc,
    PushTimeout, Step, Maybe
<1>4. ASSUME NEW p \in Producer, TestStoppedPush(p)
      PROVE  QueueTypeOK'
  BY <1>4, QueueAssumption DEF RingInv, QueueTypeOK, ProducerPc, ConsumerPc, StopperPc,
    TestStoppedPush, Step, Maybe
<1>5. ASSUME NEW p \in Producer, WakeProducer(p)
      PROVE  QueueTypeOK'
  BY <1>5, QueueAssumption DEF RingInv, QueueTypeOK, ProducerPc, ConsumerPc, StopperPc,
    WakeProducer, Step, Maybe
<1>6. ASSUME NEW p \in Producer, ClaimTail(p)
      PROVE  QueueTypeOK'
  BY <1>6, QueueAssumption DEF RingInv, QueueTypeOK, ProducerPc, ConsumerPc, StopperPc,
    ClaimTail, Step, Maybe
<1>7. ASSUME NEW p \in Producer, WriteSlot(p)
      PROVE  QueueTypeOK'
  <2>1. Slot(pos[p]) \in 0..(Capacity - 1) /\ ProducerTurn(pos[p]) \in Nat
    BY Laps DEF RingInv, QueueTypeOK
  <2>2. slots[Slot(pos[p])] \in [turn : Nat, item : Maybe]
    BY <2>1 DEF RingInv, QueueTypeOK
  <2>3. [slots[Slot(pos[p])] EXCEPT !.item = local[p]] \in [turn : Nat, item : Maybe]
    BY <2>1, <2>2 DEF RingInv, QueueTypeOK, Maybe
  <2>4. slots' \in [0..(Capacity - 1) -> [turn : Nat, item : Maybe]]
    BY <1>7, <2>1, <2>3 DEF RingInv, QueueTypeOK, WriteSlot
  <2> QED BY <1>7, <2>2, <2>4, QueueAssumption, SMTT(30)
    DEF RingInv, QueueTypeOK, ProducerPc, ConsumerPc, StopperPc, WriteSlot, Step
<1>8. ASSUME NEW p \in Producer, PublishSlot(p)
      PROVE  QueueTypeOK'
  <2>1. Slot(pos[p]) \in 0..(Capacity - 1) /\ ProducerTurn(pos[p]) \in Nat
    BY Laps DEF RingInv, QueueTypeOK
  <2>2. slots[Slot(pos[p])] \in [turn : Nat, item : Maybe]
    BY <2>1 DEF RingInv, QueueTypeOK
  <2>3. [slots[Slot(pos[p])] EXCEPT !.turn = ProducerTurn(pos[p]) + 1] \in [turn : Nat, item : Maybe]
    BY <2>1, <2>2, SMTT(30) DEF RingInv, QueueTypeOK, Maybe
  <2>4. slots' \in [0..(Capacity - 1) -> [turn : Nat, item : Maybe]]
    BY <1>8, <2>1, <2>3 DEF RingInv, QueueTypeOK, PublishSlot
  <2> QED BY <1>8, <2>2, <2>4, QueueAssumption
    DEF RingInv, QueueTypeOK, ProducerPc, ConsumerPc, StopperPc, PublishSlot, Step
<1>9. ASSUME NEW p \in Producer, PostItem(p)
      PROVE  QueueTypeOK'
  BY <1>9, QueueAssumption DEF RingInv, QueueTypeOK, ProducerPc, ConsumerPc, StopperPc, PostItem,
    Step, Maybe
<1>10. ASSUME NEW c \in Consumer, WaitItem(c)
      PROVE  QueueTypeOK'
  BY <1>10, QueueAssumption DEF RingInv, QueueTypeOK, ProducerPc, ConsumerPc, StopperPc,
    WaitItem, Step, Maybe
<1>11. ASSUME NEW c \in Consumer, TestStoppedPop(c)
      PROVE  QueueTypeOK'
  BY <1>11, QueueAssumption DEF RingInv, QueueTypeOK, ProducerPc, ConsumerPc, StopperPc,
    TestStoppedPop, Step, Maybe
<1>12. ASSUME NEW c \in Consumer, WakeConsumer(c)
      PROVE  QueueTypeOK'
  BY <1>12, QueueAssumption DEF RingInv, QueueTypeOK, ProducerPc, ConsumerPc, StopperPc,
    WakeConsumer, Step, Maybe
<1>13. ASSUME NEW c \in Consumer, ClaimHead(c)
      PROVE  QueueTypeOK'
  BY <1>13, QueueAssumption DEF RingInv, QueueTypeOK, ProducerPc, ConsumerPc, StopperPc,
    ClaimHead, Step, Maybe
<1>14. ASSUME NEW c \in Consumer, ReadSlot(c)
      PROVE  QueueTypeOK'
  <2>1. Slot(pos[c]) \in 0..(Capacity - 1) /\ ProducerTurn(pos[c]) \in Nat
    BY Laps DEF RingInv, QueueTypeOK
  <2>2. slots[Slot(pos[c])] \in [turn : Nat, item : Maybe]
    BY <2>1 DEF RingInv, QueueTypeOK
  <2>3. [slots[Slot(pos[c])] EXCEPT !.item = NoItem] \in [turn : Nat, item : Maybe]
    BY <2>1, <2>2, SMTT(30) DEF RingInv, QueueTypeOK, Maybe
  <2>4. slots' \in [0..(Capacity - 1) -> [turn : Nat, item : Maybe]]
    BY <1>14, <2>1, <2>3 DEF RingInv, QueueTypeOK, ReadSlot
  <2> QED BY <1>14, <2>2, <2>4, QueueAssumption, SMTT(30)
    DEF RingInv, QueueTypeOK, ProducerPc, ConsumerPc, StopperPc, ReadSlot, Step
<1>15. ASSUME NEW c \in Consumer, ReleaseSlot(c)
      PROVE  QueueTypeOK'
  <2>1. Slot(pos[c]) \in 0..(Capacity - 1) /\ ProducerTurn(pos[c]) \in Nat
    BY Laps DEF RingInv, QueueTypeOK
  <2>2. slots[Slot(pos[c])] \in [turn : Nat, item : Maybe]
    BY <2>1 DEF RingInv, QueueTypeOK
  <2>5. ConsumerTurn(pos[c]) + 1 \in Nat
    BY <2>1 DEF ConsumerTurn
  <2>3. [slots[Slot(pos[c])] EXCEPT !.turn = ConsumerTurn(pos[c]) + 1] \in [turn : Nat, item : Maybe]
    BY <2>1, <2>2, <2>5, Zenon DEF RingInv, QueueTypeOK, Maybe
  <2>4. slots' \in [0..(Capacity - 1) -> [turn : Nat, item : Maybe]]
    BY <1>15, <2>1, <2>3 DEF RingInv, QueueTypeOK, ReleaseSlot
  <2> QED BY <1>15, <2>2, <2>4, QueueAssumption, SMTT(30)
    DEF RingInv, QueueTypeOK, ProducerPc, ConsumerPc, StopperPc, ReleaseSlot, Step
<1>16. ASSUME NEW c \in Consumer, PostSpace(c)
      PROVE  QueueTypeOK'
  BY <1>16, QueueAssumption DEF RingInv, QueueTypeOK, ProducerPc, ConsumerPc, StopperPc,
    PostSpace, Step, Maybe
<1>17. ASSUME NEW c \in Consumer, DoWork(c)
      PROVE  QueueTypeOK'
  BY <1>17, QueueAssumption DEF RingInv, QueueTypeOK, ProducerPc, ConsumerPc, StopperPc, DoWork,
    Step, Maybe
<1>18. CASE Stop
  <2>0. items \in Nat /\ spaces \in Nat /\ stopped \in BOOLEAN
    BY DEF RingInv, QueueTypeOK
  <2>1. UNCHANGED <<slots, head, tail, pos, local, pushed>>
    BY <1>18 DEF Stop
  <2>3. items' \in Nat /\ spaces' \in Nat
    BY <1>18, <2>0 DEF Stop
  <2>4. stopped' \in BOOLEAN
    BY <1>18, <2>0, Zenon DEF Stop
  <2>2. \E l \in StopperPc : at' = [at EXCEPT ![Stopper] = l]
    BY <1>18 DEF Stop, Step, StopperPc
  <2> QED BY <2>1, <2>2, <2>3, <2>4, QueueAssumption DEF RingInv, QueueTypeOK
<1>19. CASE UNCHANGED queueVars
  BY <1>19, SMTT(30) DEF RingInv, QueueTypeOK, ProducerPc, ConsumerPc, StopperPc, queueVars
<1> QED
  BY <1>1, <1>2, <1>3, <1>4, <1>5, <1>6, <1>7, <1>8, <1>9, <1>10, <1>11, <1>12, <1>13, <1>14,
    <1>15, <1>16, <1>17, <1>18, <1>19, SMTT(30) DEF QueueNext, Push, RunWorker

\* Only a stopped queue turns threads away.
LEMMA StopStep ==
  ASSUME RingInv, [QueueNext]_queueVars
  PROVE  StopInv'
<1>1. ASSUME NEW p \in Producer, CallPush(p)
      PROVE  StopInv'
  BY <1>1, QueueAssumption DEF RingInv, StopInv, QueueTypeOK, CallPush, Step
<1>2. ASSUME NEW p \in Producer, WaitSpace(p)
      PROVE  StopInv'
  BY <1>2, QueueAssumption DEF RingInv, StopInv, QueueTypeOK, WaitSpace, Step
<1>3. ASSUME NEW p \in Producer, PushTimeout(p)
      PROVE  StopInv'
  BY <1>3, QueueAssumption DEF RingInv, StopInv, QueueTypeOK, PushTimeout, Step
<1>4. ASSUME NEW p \in Producer, TestStoppedPush(p)
      PROVE  StopInv'
  BY <1>4, QueueAssumption DEF RingInv, StopInv, QueueTypeOK, TestStoppedPush, Step
<1>5. ASSUME NEW p \in Producer, WakeProducer(p)
      PROVE  StopInv'
  BY <1>5, QueueAssumption DEF RingInv, StopInv, QueueTypeOK, WakeProducer, Step
<1>6. ASSUME NEW p \in Producer, ClaimTail(p)
      PROVE  StopInv'
  BY <1>6, QueueAssumption DEF RingInv, StopInv, QueueTypeOK, ClaimTail, Step
<1>7. ASSUME NEW p \in Producer, WriteSlot(p)
      PROVE  StopInv'
  BY <1>7, QueueAssumption DEF RingInv, StopInv, QueueTypeOK, WriteSlot, Step
<1>8. ASSUME NEW p \in Producer, PublishSlot(p)
      PROVE  StopInv'
  BY <1>8, QueueAssumption DEF RingInv, StopInv, QueueTypeOK, PublishSlot, Step
<1>9. ASSUME NEW p \in Producer, PostItem(p)
      PROVE  StopInv'
  BY <1>9, QueueAssumption DEF RingInv, StopInv, QueueTypeOK, PostItem, Step
<1>10. ASSUME NEW c \in Consumer, WaitItem(c)
      PROVE  StopInv'
  BY <1>10, QueueAssumption DEF RingInv, StopInv, QueueTypeOK, WaitItem, Step
<1>11. ASSUME NEW c \in Consumer, TestStoppedPop(c)
      PROVE  StopInv'
  BY <1>11, QueueAssumption DEF RingInv, StopInv, QueueTypeOK, TestStoppedPop, Step
<1>12. ASSUME NEW c \in Consumer, WakeConsumer(c)
      PROVE  StopInv'
  BY <1>12, QueueAssumption DEF RingInv, StopInv, QueueTypeOK, WakeConsumer, Step
<1>13. ASSUME NEW c \in Consumer, ClaimHead(c)
      PROVE  StopInv'
  BY <1>13, QueueAssumption DEF RingInv, StopInv, QueueTypeOK, ClaimHead, Step
<1>14. ASSUME NEW c \in Consumer, ReadSlot(c)
      PROVE  StopInv'
  BY <1>14, QueueAssumption DEF RingInv, StopInv, QueueTypeOK, ReadSlot, Step
<1>15. ASSUME NEW c \in Consumer, ReleaseSlot(c)
      PROVE  StopInv'
  BY <1>15, QueueAssumption DEF RingInv, StopInv, QueueTypeOK, ReleaseSlot, Step
<1>16. ASSUME NEW c \in Consumer, PostSpace(c)
      PROVE  StopInv'
  BY <1>16, QueueAssumption DEF RingInv, StopInv, QueueTypeOK, PostSpace, Step
<1>17. ASSUME NEW c \in Consumer, DoWork(c)
      PROVE  StopInv'
  BY <1>17, QueueAssumption DEF RingInv, StopInv, QueueTypeOK, DoWork, Step
<1>18. CASE Stop
  BY <1>18, QueueAssumption DEF RingInv, StopInv, QueueTypeOK, Stop, Step
<1>19. CASE UNCHANGED queueVars
  BY <1>19, SMTT(30) DEF RingInv, StopInv, queueVars
<1> QED
  BY <1>1, <1>2, <1>3, <1>4, <1>5, <1>6, <1>7, <1>8, <1>9, <1>10, <1>11, <1>12, <1>13, <1>14,
    <1>15, <1>16, <1>17, <1>18, <1>19 DEF QueueNext, Push, RunWorker

\* No step of push_impl(), pop() or stop() makes a token for a position that is taken.
LEMMA TokenStep ==
  ASSUME RingInv, [QueueNext]_queueVars
  PROVE  TokenInv'
<1>0. /\ QueueTypeOK /\ TokenInv /\ StopInv
      /\ head \in Nat /\ tail \in Nat /\ items \in Nat /\ spaces \in Nat /\ stopped \in BOOLEAN
      /\ Capacity \in Nat
  BY QueueAssumption DEF RingInv, QueueTypeOK
<1>1. ASSUME NEW p \in Producer, CallPush(p)
      PROVE  TokenInv'
  BY <1>1, <1>0, ProducerCounts, CountType DEF CallPush, One, TokenInv
<1>2. ASSUME NEW p \in Producer, WaitSpace(p)
      PROVE  TokenInv'
  BY <1>2, <1>0, ProducerCounts, CountType DEF WaitSpace, One, TokenInv
<1>3. ASSUME NEW p \in Producer, PushTimeout(p)
      PROVE  TokenInv'
  BY <1>3, <1>0, ProducerCounts, CountType DEF PushTimeout, One, TokenInv
<1>4. ASSUME NEW p \in Producer, TestStoppedPush(p)
      PROVE  TokenInv'
  <2>1. CASE stopped
    BY <1>4, <2>1, <1>0, ProducerCounts, CountType DEF TestStoppedPush, One, TokenInv
  <2>2. CASE ~stopped
    BY <1>4, <2>2, <1>0, ProducerCounts, CountType DEF TestStoppedPush, One, TokenInv
  <2> QED BY <2>1, <2>2
<1>5. ASSUME NEW p \in Producer, WakeProducer(p)
      PROVE  TokenInv'
  <2>1. stopped
    BY <1>5, <1>0 DEF WakeProducer, Step, StopInv
  <2> QED BY <1>5, <2>1, <1>0, ProducerCounts, CountType DEF WakeProducer, One, TokenInv
<1>6. ASSUME NEW p \in Producer, ClaimTail(p)
      PROVE  TokenInv'
  BY <1>6, <1>0, ProducerCounts, CountType DEF ClaimTail, One, TokenInv
<1>7. ASSUME NEW p \in Producer, WriteSlot(p)
      PROVE  TokenInv'
  BY <1>7, <1>0, ProducerCounts, CountType DEF WriteSlot, One, TokenInv
<1>8. ASSUME NEW p \in Producer, PublishSlot(p)
      PROVE  TokenInv'
  BY <1>8, <1>0, ProducerCounts, CountType DEF PublishSlot, One, TokenInv
<1>9. ASSUME NEW p \in Producer, PostItem(p)
      PROVE  TokenInv'
  BY <1>9, <1>0, ProducerCounts, CountType DEF PostItem, One, TokenInv
<1>10. ASSUME NEW c \in Consumer, WaitItem(c)
      PROVE  TokenInv'
  BY <1>10, <1>0, ConsumerCounts, CountType DEF WaitItem, One, TokenInv
<1>11. ASSUME NEW c \in Consumer, TestStoppedPop(c)
      PROVE  TokenInv'
  <2>1. CASE stopped
    BY <1>11, <2>1, <1>0, ConsumerCounts, CountType DEF TestStoppedPop, One, TokenInv
  <2>2. CASE ~stopped
    BY <1>11, <2>2, <1>0, ConsumerCounts, CountType DEF TestStoppedPop, One, TokenInv
  <2> QED BY <2>1, <2>2
<1>12. ASSUME NEW c \in Consumer, WakeConsumer(c)
      PROVE  TokenInv'
  <2>1. stopped
    BY <1>12, <1>0 DEF WakeConsumer, Step, StopInv
  <2> QED BY <1>12, <2>1, <1>0, ConsumerCounts, CountType DEF WakeConsumer, One, TokenInv
<1>13. ASSUME NEW c \in Consumer, ClaimHead(c)
      PROVE  TokenInv'
  BY <1>13, <1>0, ConsumerCounts, CountType DEF ClaimHead, One, TokenInv
<1>14. ASSUME NEW c \in Consumer, ReadSlot(c)
      PROVE  TokenInv'
  BY <1>14, <1>0, ConsumerCounts, CountType DEF ReadSlot, One, TokenInv
<1>15. ASSUME NEW c \in Consumer, ReleaseSlot(c)
      PROVE  TokenInv'
  BY <1>15, <1>0, ConsumerCounts, CountType, SMTT(30) DEF ReleaseSlot, One, TokenInv
<1>16. ASSUME NEW c \in Consumer, PostSpace(c)
      PROVE  TokenInv'
  BY <1>16, <1>0, ConsumerCounts, CountType DEF PostSpace, One, TokenInv
<1>17. ASSUME NEW c \in Consumer, DoWork(c)
      PROVE  TokenInv'
  BY <1>17, <1>0, ConsumerCounts, CountType, SMTT(30) DEF DoWork, One, TokenInv
<1>18. CASE Stop
  BY <1>18, <1>0, StopperCounts, CountType DEF Stop, TokenInv, StopInv, RingInv, Step
<1>19. CASE UNCHANGED queueVars
  BY <1>19 DEF RingInv, TokenInv, queueVars
<1> QED
  BY <1>1, <1>2, <1>3, <1>4, <1>5, <1>6, <1>7, <1>8, <1>9, <1>10, <1>11, <1>12, <1>13, <1>14,
    <1>15, <1>16, <1>17, <1>18, <1>19 DEF QueueNext, Push, RunWorker

\* Two positions with the same slot have the same turn, and different laps.
Beside(n, m) ==
  /\ ProducerTurn(n) \in Nat /\ ProducerTurn(m) \in Nat
  /\ ProducerTurn(n) # ProducerTurn(m) + 1 /\ ProducerTurn(m) # ProducerTurn(n) + 1
  /\ Slot(n) = Slot(m) =>
       /\ Turn(n) = Turn(m)
       /\ \/ n = m
          \/ n < m /\ ProducerTurn(n) + 2 <= ProducerTurn(m)
          \/ m < n /\ ProducerTurn(m) + 2 <= ProducerTurn(n)

\* What Laps says of two positions, in one place.
LEMMA BesideEachOther == \A n, m \in Nat : Beside(n, m)
<1> SUFFICES ASSUME NEW n \in Nat, NEW m \in Nat
             PROVE  Beside(n, m)
  OBVIOUS
<1>1. /\ ProducerTurn(n) \in Nat /\ ProducerTurn(m) \in Nat
      /\ ProducerTurn(n) # ProducerTurn(m) + 1 /\ ProducerTurn(m) # ProducerTurn(n) + 1
  BY Laps
<1>2. ASSUME Slot(n) = Slot(m)
      PROVE  Turn(n) = Turn(m)
  BY <1>2 DEF Turn
<1>3. ASSUME Slot(n) = Slot(m), n < m
      PROVE  ProducerTurn(n) + 2 <= ProducerTurn(m)
  BY <1>3, Laps
<1>4. ASSUME Slot(n) = Slot(m), m < n
      PROVE  ProducerTurn(m) + 2 <= ProducerTurn(n)
  BY <1>4, Laps
<1>5. n = m \/ n < m \/ m < n
  OBVIOUS
<1> QED BY <1>1, <1>2, <1>3, <1>4, <1>5 DEF Beside

\* The turn and the item of every position after a step that writes one slot.
LEMMA SlotStep ==
  ASSUME RingInv
  PROVE  /\ \A p \in Producer : WriteSlot(p) => \A n \in Nat :
               /\ Turn(n)' = Turn(n)
               /\ slots[Slot(n)].item' =
                    IF Slot(n) = Slot(pos[p]) THEN local[p] ELSE slots[Slot(n)].item
         /\ \A p \in Producer : PublishSlot(p) => \A n \in Nat :
               /\ Turn(n)' = IF Slot(n) = Slot(pos[p]) THEN ProducerTurn(pos[p]) + 1 ELSE Turn(n)
               /\ slots[Slot(n)].item' = slots[Slot(n)].item
         /\ \A c \in Consumer : ReadSlot(c) => \A n \in Nat :
               /\ Turn(n)' = Turn(n)
               /\ slots[Slot(n)].item' =
                    IF Slot(n) = Slot(pos[c]) THEN NoItem ELSE slots[Slot(n)].item
         /\ \A c \in Consumer : ReleaseSlot(c) => \A n \in Nat :
               /\ Turn(n)' = IF Slot(n) = Slot(pos[c]) THEN ProducerTurn(pos[c]) + 2 ELSE Turn(n)
               /\ slots[Slot(n)].item' = slots[Slot(n)].item
<1>1. \A n \in Nat : Slot(n) \in 0..(Capacity - 1)
  BY Laps
<1>2. slots \in [0..(Capacity - 1) -> [turn : Nat, item : Maybe]]
  BY DEF RingInv, QueueTypeOK
<1>3. pos \in [Producer \cup Consumer -> Nat]
  BY DEF RingInv, QueueTypeOK
<1>4. \A t \in Producer \cup Consumer : ProducerTurn(pos[t]) \in Nat
  BY <1>3, Laps
<1>5. ASSUME NEW p \in Producer, WriteSlot(p), NEW n \in Nat
      PROVE  /\ Turn(n)' = Turn(n)
             /\ slots[Slot(n)].item' =
                  IF Slot(n) = Slot(pos[p]) THEN local[p] ELSE slots[Slot(n)].item
  BY <1>1, <1>2, <1>3, <1>5 DEF WriteSlot, Turn
<1>6. ASSUME NEW p \in Producer, PublishSlot(p), NEW n \in Nat
      PROVE  /\ Turn(n)' = IF Slot(n) = Slot(pos[p]) THEN ProducerTurn(pos[p]) + 1 ELSE Turn(n)
             /\ slots[Slot(n)].item' = slots[Slot(n)].item
  BY <1>1, <1>2, <1>3, <1>6 DEF PublishSlot, Turn
<1>7. ASSUME NEW c \in Consumer, ReadSlot(c), NEW n \in Nat
      PROVE  /\ Turn(n)' = Turn(n)
             /\ slots[Slot(n)].item' =
                  IF Slot(n) = Slot(pos[c]) THEN NoItem ELSE slots[Slot(n)].item
  BY <1>1, <1>2, <1>3, <1>7 DEF ReadSlot, Turn
<1>8. ASSUME NEW c \in Consumer, ReleaseSlot(c), NEW n \in Nat
      PROVE  /\ Turn(n)' = IF Slot(n) = Slot(pos[c]) THEN ProducerTurn(pos[c]) + 2 ELSE Turn(n)
             /\ slots[Slot(n)].item' = slots[Slot(n)].item
  <2>1. ConsumerTurn(pos[c]) + 1 = ProducerTurn(pos[c]) + 2
    BY <1>4 DEF ConsumerTurn
  <2> QED BY <1>1, <1>2, <1>3, <1>8, <2>1 DEF ReleaseSlot, Turn
<1> QED BY <1>5, <1>6, <1>7, <1>8

\* WriteSlot leaves the turns alone, and the items of all positions whose turn has come.
LEMMA WriteEffect ==
  ASSUME RingInv, NEW p \in Producer, WriteSlot(p), NEW n \in Nat
  PROVE  /\ ProducerTurn(n) \in Nat /\ ConsumerTurn(n) = ProducerTurn(n) + 1
         /\ Turn(pos[p]) = ProducerTurn(pos[p])
         /\ Turn(n)' = Turn(n)
         /\ n = pos[p] => slots[Slot(n)].item' = local[p]
         /\ n # pos[p] /\ Turn(n) \in {ProducerTurn(n), ConsumerTurn(n)} =>
              slots[Slot(n)].item' = slots[Slot(n)].item
         /\ Turn(n) = ConsumerTurn(n) => n # pos[p]
<1>1. pos[p] \in Nat /\ Turn(n) \in Nat /\ Turn(pos[p]) \in Nat
  BY Laps, Zenon DEF RingInv, QueueTypeOK, Turn
<1>2. Beside(n, pos[p])
  BY <1>1, BesideEachOther
<1>3. Turn(pos[p]) = ProducerTurn(pos[p])
  BY DEF WriteSlot, Turn
<1>4. /\ Turn(n)' = Turn(n)
      /\ slots[Slot(n)].item' = IF Slot(n) = Slot(pos[p]) THEN local[p] ELSE slots[Slot(n)].item
  BY SlotStep
<1> QED BY <1>1, <1>2, <1>3, <1>4, Z3 DEF Beside, ConsumerTurn

\* PublishSlot passes its position on to the consumer and moves no other position.
LEMMA PublishEffect ==
  ASSUME RingInv, NEW p \in Producer, PublishSlot(p), NEW n \in Nat
  PROVE  /\ ProducerTurn(n) \in Nat /\ ConsumerTurn(n) = ProducerTurn(n) + 1
         /\ Turn(pos[p]) = ProducerTurn(pos[p])
         /\ n = pos[p] => Turn(n)' = ConsumerTurn(n)
         /\ n # pos[p] => /\ Turn(n)' <= ProducerTurn(n) <=> Turn(n) <= ProducerTurn(n)
                          /\ Turn(n)' = ProducerTurn(n) <=> Turn(n) = ProducerTurn(n)
                          /\ Turn(n)' = ConsumerTurn(n) <=> Turn(n) = ConsumerTurn(n)
                          /\ Turn(n)' <= ConsumerTurn(n) <=> Turn(n) <= ConsumerTurn(n)
         /\ slots[Slot(n)].item' = slots[Slot(n)].item
<1>1. pos[p] \in Nat /\ Turn(n) \in Nat /\ Turn(pos[p]) \in Nat
  BY Laps, Zenon DEF RingInv, QueueTypeOK, Turn
<1>2. Beside(n, pos[p])
  BY <1>1, BesideEachOther
<1>3. Turn(pos[p]) = ProducerTurn(pos[p])
  BY DEF RingInv, WriterInv, Written, PublishSlot, Step
<1>4. /\ Turn(n)' = IF Slot(n) = Slot(pos[p]) THEN ProducerTurn(pos[p]) + 1 ELSE Turn(n)
      /\ slots[Slot(n)].item' = slots[Slot(n)].item
  BY SlotStep
<1> QED BY <1>1, <1>2, <1>3, <1>4, Z3 DEF Beside, ConsumerTurn

\* ReadSlot takes the item of its own position only.
LEMMA ReadEffect ==
  ASSUME RingInv, NEW c \in Consumer, ReadSlot(c), NEW n \in Nat
  PROVE  /\ ProducerTurn(n) \in Nat /\ ConsumerTurn(n) = ProducerTurn(n) + 1
         /\ Turn(pos[c]) = ConsumerTurn(pos[c])
         /\ Turn(n)' = Turn(n)
         /\ n # pos[c] /\ Turn(n) \in {ProducerTurn(n), ConsumerTurn(n)} =>
              slots[Slot(n)].item' = slots[Slot(n)].item
         /\ Turn(n) = ProducerTurn(n) => n # pos[c]
<1>1. pos[c] \in Nat /\ Turn(n) \in Nat /\ Turn(pos[c]) \in Nat
  BY Laps, Zenon DEF RingInv, QueueTypeOK, Turn
<1>2. Beside(n, pos[c])
  BY <1>1, BesideEachOther
<1>3. Turn(pos[c]) = ConsumerTurn(pos[c])
  BY DEF ReadSlot, Turn
<1>4. /\ Turn(n)' = Turn(n)
      /\ slots[Slot(n)].item' = IF Slot(n) = Slot(pos[c]) THEN NoItem ELSE slots[Slot(n)].item
  BY SlotStep, SMTT(30)
<1> QED BY <1>1, <1>2, <1>3, <1>4, Z3 DEF Beside, ConsumerTurn

\* ReleaseSlot passes its slot on to the next lap and moves no other position.
LEMMA ReleaseEffect ==
  ASSUME RingInv, NEW c \in Consumer, ReleaseSlot(c), NEW n \in Nat
  PROVE  /\ ProducerTurn(n) \in Nat /\ ConsumerTurn(n) = ProducerTurn(n) + 1
         /\ Turn(pos[c]) = ConsumerTurn(pos[c])
         /\ n = pos[c] => Turn(n)' = ProducerTurn(n) + 2
         /\ n # pos[c] => /\ Turn(n)' <= ProducerTurn(n) <=> Turn(n) <= ProducerTurn(n)
                          /\ Turn(n) = ProducerTurn(n) => Turn(n)' = ProducerTurn(n)
                          /\ Turn(n)' = ConsumerTurn(n) <=> Turn(n) = ConsumerTurn(n)
                          /\ Turn(n)' <= ConsumerTurn(n) <=> Turn(n) <= ConsumerTurn(n)
         /\ slots[Slot(n)].item' = slots[Slot(n)].item
<1>1. pos[c] \in Nat /\ Turn(n) \in Nat /\ Turn(pos[c]) \in Nat
  BY Laps, Zenon DEF RingInv, QueueTypeOK, Turn
<1>2. Beside(n, pos[c])
  BY <1>1, BesideEachOther
<1>3. Turn(pos[c]) = ConsumerTurn(pos[c])
  BY DEF RingInv, ReaderInv, Emptied, ReleaseSlot, Step
<1>4. /\ Turn(n)' = IF Slot(n) = Slot(pos[c]) THEN ProducerTurn(pos[c]) + 2 ELSE Turn(n)
      /\ slots[Slot(n)].item' = slots[Slot(n)].item
  BY SlotStep, SMTT(30)
<1> QED BY <1>1, <1>2, <1>3, <1>4, Z3 DEF Beside, ConsumerTurn

\* No step of push_impl() or pop() disturbs another producer's position.
LEMMA WriterStep ==
  ASSUME RingInv, [QueueNext]_queueVars
  PROVE  WriterInv'
<1>0. /\ WriterInv /\ ReaderInv
      /\ head \in Nat /\ tail \in Nat /\ head <= tail
      /\ at \in [Producer \cup Consumer \cup {Stopper} -> ProducerPc \cup ConsumerPc \cup StopperPc]
      /\ pos \in [Producer \cup Consumer -> Nat]
      /\ local \in [Producer \cup Consumer -> Maybe]
      /\ \A n \in Nat : Turn(n) \in Nat
      /\ Producer \cap Consumer = {} /\ Stopper \notin Producer \cup Consumer
  <2>1. \A n \in Nat : Turn(n) \in Nat
    BY Laps, Zenon DEF RingInv, QueueTypeOK, Turn
  <2> QED BY <2>1, QueueAssumption, Zenon DEF RingInv, QueueTypeOK, TokenInv
<1>1. ASSUME NEW p \in Producer, CallPush(p)
      PROVE  WriterInv'
  <2>1. local'[p] \in Item
    BY <1>1, <1>0, NewItem, Zenon DEF CallPush
  <2>2. WriterHasItem'
    BY <1>1, <1>0, <2>1, SMTT(30) DEF CallPush, Step, WriterInv, WriterHasItem
  <2> QED BY <1>1, <1>0, <2>2 DEF CallPush, Step, WriterInv, WriterHasItem, WriterTurn, Written,
      OneWriter, HasWriter, AheadOfTail, Writing, Turn
<1>2. ASSUME NEW p \in Producer, WaitSpace(p)
      PROVE  WriterInv'
  BY <1>2, <1>0, SMTT(30) DEF WaitSpace, Step, WriterInv, WriterHasItem, WriterTurn, Written,
    OneWriter, HasWriter, AheadOfTail, Writing, Reading, Turn
<1>3. ASSUME NEW p \in Producer, PushTimeout(p)
      PROVE  WriterInv'
  BY <1>3, <1>0, SMTT(30) DEF PushTimeout, Step, WriterInv, WriterHasItem, WriterTurn, Written,
    OneWriter, HasWriter, AheadOfTail, Writing, Reading, Turn
<1>4. ASSUME NEW p \in Producer, TestStoppedPush(p)
      PROVE  WriterInv'
  BY <1>4, <1>0, SMTT(30) DEF TestStoppedPush, Step, WriterInv, WriterHasItem, WriterTurn,
    Written, OneWriter, HasWriter, AheadOfTail, Writing, Reading, Turn
<1>5. ASSUME NEW p \in Producer, WakeProducer(p)
      PROVE  WriterInv'
  BY <1>5, <1>0, SMTT(30) DEF WakeProducer, Step, WriterInv, WriterHasItem, WriterTurn, Written,
    OneWriter, HasWriter, AheadOfTail, Writing, Reading, Turn
<1>6. ASSUME NEW p \in Producer, ClaimTail(p)
      PROVE  WriterInv'
  BY <1>6, <1>0 DEF ClaimTail, Step, WriterInv, WriterHasItem, WriterTurn, Written, OneWriter,
    HasWriter, AheadOfTail, Writing, Reading, Turn
<1>7. ASSUME NEW p \in Producer, WriteSlot(p)
      PROVE  WriterInv'
  <2>1. /\ at[p] = "write" /\ at'[p] = "publish"
        /\ \A t \in (Producer \cup Consumer) \ {p} : at'[t] = at[t]
        /\ UNCHANGED <<head, tail, pos, local>>
    BY <1>7, <1>0, SMTT(30) DEF WriteSlot, Step
  <2>2. WriterHasItem'
    BY <1>7, <1>0, <2>1, WriteEffect, SMTT(30) DEF WriterInv, WriterHasItem
  <2>3. WriterTurn'
    BY <1>7, <1>0, <2>1, WriteEffect, SMTT(30) DEF WriterInv, WriterTurn, OneWriter, Writing
  <2>4. Written'
    BY <1>7, <1>0, <2>1, WriteEffect, SMTT(30) DEF WriterInv, Written, OneWriter, Writing
  <2>5. OneWriter'
    BY <1>7, <1>0, <2>1, WriteEffect, SMTT(30) DEF WriterInv, OneWriter, Writing
  <2>6. HasWriter'
    BY <1>7, <1>0, <2>1, WriteEffect, SMTT(30) DEF WriterInv, HasWriter, Writing, WriterTurn
  <2>7. AheadOfTail'
    BY <1>7, <1>0, <2>1, WriteEffect, SMTT(30) DEF WriterInv, AheadOfTail, WriterTurn, Writing
  <2> QED BY <2>2, <2>3, <2>4, <2>5, <2>6, <2>7 DEF WriterInv
<1>8. ASSUME NEW p \in Producer, PublishSlot(p)
      PROVE  WriterInv'
  <2>1. /\ at[p] = "publish" /\ at'[p] = "postItem"
        /\ \A t \in (Producer \cup Consumer) \ {p} : at'[t] = at[t]
        /\ UNCHANGED <<head, tail, pos, local>>
    BY <1>8, <1>0 DEF PublishSlot, Step
  <2>2. WriterHasItem'
    BY <1>8, <1>0, <2>1, PublishEffect, SMTT(30) DEF WriterInv, WriterHasItem
  <2>3. WriterTurn'
    BY <1>8, <1>0, <2>1, PublishEffect, SMTT(30) DEF WriterInv, WriterTurn, OneWriter, Writing
  <2>4. Written'
    <3> SUFFICES ASSUME NEW q \in Producer, at'[q] = "publish"
                 PROVE  /\ (Turn(pos[q]) = ProducerTurn(pos[q]))'
                        /\ (slots[Slot(pos[q])].item = local[q])'
      BY DEF Written
    <3>1. q # p /\ at[q] = "publish"
      BY <2>1
    <3>2. pos[q] \in Nat /\ pos[q] # pos[p]
      BY <1>0, <2>1, <3>1 DEF WriterInv, OneWriter, Writing
    <3>3. Turn(pos[q]) = ProducerTurn(pos[q]) /\ slots[Slot(pos[q])].item = local[q]
      BY <1>0, <3>1, SMTT(30) DEF WriterInv, Written
    <3> QED BY <1>8, <2>1, <3>2, <3>3, PublishEffect
  <2>5. OneWriter'
    BY <1>8, <1>0, <2>1, PublishEffect, SMTT(30) DEF WriterInv, OneWriter, Writing
  <2>6. HasWriter'
    <3> SUFFICES ASSUME NEW n \in Nat, n < tail', Turn(n)' <= ProducerTurn(n)
                 PROVE  \E q \in Producer : (Writing(q) /\ pos[q] = n)'
      BY DEF HasWriter
    <3>1. n # pos[p] /\ Turn(n) <= ProducerTurn(n)
      BY <1>8, PublishEffect
    <3>2. PICK q \in Producer : Writing(q) /\ pos[q] = n
      BY <1>0, <2>1, <3>1 DEF WriterInv, HasWriter
    <3>3. (Writing(q) /\ pos[q] = n)'
      BY <1>0, <2>1, <3>1, <3>2, SMTT(30) DEF Writing
    <3> QED BY <3>3
  <2>7. AheadOfTail'
    BY <1>8, <1>0, <2>1, PublishEffect, SMTT(30) DEF WriterInv, AheadOfTail, WriterTurn, Writing
  <2> QED BY <2>2, <2>3, <2>4, <2>5, <2>6, <2>7 DEF WriterInv
<1>9. ASSUME NEW p \in Producer, PostItem(p)
      PROVE  WriterInv'
  BY <1>9, <1>0, SMTT(30) DEF PostItem, Step, WriterInv, WriterHasItem, WriterTurn, Written,
    OneWriter, HasWriter, AheadOfTail, Writing, Reading, Turn
<1>10. ASSUME NEW c \in Consumer, WaitItem(c)
      PROVE  WriterInv'
  BY <1>10, <1>0, SMTT(30) DEF WaitItem, Step, WriterInv, WriterHasItem, WriterTurn, Written,
    OneWriter, HasWriter, AheadOfTail, Writing, Reading, Turn
<1>11. ASSUME NEW c \in Consumer, TestStoppedPop(c)
      PROVE  WriterInv'
  BY <1>11, <1>0, SMTT(30) DEF TestStoppedPop, Step, WriterInv, WriterHasItem, WriterTurn,
    Written, OneWriter, HasWriter, AheadOfTail, Writing, Reading, Turn
<1>12. ASSUME NEW c \in Consumer, WakeConsumer(c)
      PROVE  WriterInv'
  BY <1>12, <1>0, SMTT(30) DEF WakeConsumer, Step, WriterInv, WriterHasItem, WriterTurn, Written,
    OneWriter, HasWriter, AheadOfTail, Writing, Reading, Turn
<1>13. ASSUME NEW c \in Consumer, ClaimHead(c)
      PROVE  WriterInv'
  BY <1>13, <1>0, SMTT(30) DEF ClaimHead, Step, WriterInv, WriterHasItem, WriterTurn, Written,
    OneWriter, HasWriter, AheadOfTail, Writing, Reading, Turn
<1>14. ASSUME NEW c \in Consumer, ReadSlot(c)
      PROVE  WriterInv'
  <2>1. /\ at[c] = "read" /\ at'[c] = "release"
        /\ \A t \in (Producer \cup Consumer) \ {c} : at'[t] = at[t]
        /\ UNCHANGED <<head, tail, pos>>
        /\ local' = [local EXCEPT ![c] = slots[Slot(pos[c])].item]
    BY <1>14, <1>0, SMTT(30) DEF ReadSlot, Step
  <2>2. WriterHasItem'
    BY <1>14, <1>0, <2>1, ReadEffect, SMTT(30) DEF WriterInv, WriterHasItem
  <2>3. WriterTurn'
    BY <1>14, <1>0, <2>1, ReadEffect, SMTT(30) DEF WriterInv, WriterTurn, OneWriter, Writing
  <2>4. Written'
    BY <1>14, <1>0, <2>1, ReadEffect, SMTT(30) DEF WriterInv, Written, OneWriter, Writing
  <2>5. OneWriter'
    BY <1>14, <1>0, <2>1, ReadEffect, SMTT(30) DEF WriterInv, OneWriter, Writing
  <2>6. HasWriter'
    BY <1>14, <1>0, <2>1, ReadEffect, SMTT(30) DEF WriterInv, HasWriter, Writing, WriterTurn
  <2>7. AheadOfTail'
    BY <1>14, <1>0, <2>1, ReadEffect, SMTT(30) DEF WriterInv, AheadOfTail, WriterTurn, Writing
  <2> QED BY <2>2, <2>3, <2>4, <2>5, <2>6, <2>7 DEF WriterInv
<1>15. ASSUME NEW c \in Consumer, ReleaseSlot(c)
      PROVE  WriterInv'
  <2>1. /\ at[c] = "release" /\ at'[c] = "postSpace"
        /\ \A t \in (Producer \cup Consumer) \ {c} : at'[t] = at[t]
        /\ UNCHANGED <<head, tail, pos, local>>
    BY <1>15, <1>0, SMTT(30) DEF ReleaseSlot, Step
  <2>2. WriterHasItem'
    BY <1>15, <1>0, <2>1, ReleaseEffect, SMTT(30) DEF WriterInv, WriterHasItem
  <2>3. WriterTurn'
    BY <1>15, <1>0, <2>1, ReleaseEffect, SMTT(30) DEF WriterInv, WriterTurn, Writing
  <2>4. Written'
    <3> SUFFICES ASSUME NEW q \in Producer, at'[q] = "publish"
                 PROVE  /\ (Turn(pos[q]) = ProducerTurn(pos[q]))'
                        /\ (slots[Slot(pos[q])].item = local[q])'
      BY DEF Written
    <3>1. at[q] = "publish" /\ pos[q] \in Nat
      BY <1>0, <2>1
    <3>2. Turn(pos[q]) = ProducerTurn(pos[q]) /\ slots[Slot(pos[q])].item = local[q]
      BY <1>0, <3>1 DEF WriterInv, Written
    <3>3. pos[q] # pos[c]
      BY <1>15, <3>1, <3>2, ReleaseEffect
    <3> QED BY <1>15, <2>1, <3>1, <3>2, <3>3, ReleaseEffect, SMTT(30)
  <2>5. OneWriter'
    BY <1>15, <1>0, <2>1, ReleaseEffect, Zenon DEF WriterInv, OneWriter, Writing
  <2>6. HasWriter'
    <3> SUFFICES ASSUME NEW n \in Nat, n < tail', Turn(n)' <= ProducerTurn(n)
                 PROVE  \E q \in Producer : (Writing(q) /\ pos[q] = n)'
      BY DEF HasWriter
    <3>1. n # pos[c] /\ Turn(n) <= ProducerTurn(n)
      BY <1>15, ReleaseEffect
    <3>2. PICK q \in Producer : Writing(q) /\ pos[q] = n
      BY <1>0, <2>1, <3>1 DEF WriterInv, HasWriter
    <3>3. (Writing(q) /\ pos[q] = n)'
      BY <1>0, <2>1, <3>1, <3>2, SMTT(30) DEF Writing
    <3> QED BY <3>3
  <2>7. AheadOfTail'
    BY <1>15, <1>0, <2>1, ReleaseEffect, SMTT(30)
    DEF WriterInv, AheadOfTail, ReaderInv, ReaderTurn, Reading
  <2> QED BY <2>2, <2>3, <2>4, <2>5, <2>6, <2>7 DEF WriterInv
<1>16. ASSUME NEW c \in Consumer, PostSpace(c)
      PROVE  WriterInv'
  BY <1>16, <1>0, SMTT(30) DEF PostSpace, Step, WriterInv, WriterHasItem, WriterTurn, Written,
    OneWriter, HasWriter, AheadOfTail, Writing, Reading, Turn
<1>17. ASSUME NEW c \in Consumer, DoWork(c)
      PROVE  WriterInv'
  BY <1>17, <1>0, SMTT(30) DEF DoWork, Step, WriterInv, WriterHasItem, WriterTurn, Written,
    OneWriter, HasWriter, AheadOfTail, Writing, Reading, Turn
<1>18. CASE Stop
  BY <1>18, <1>0, SMTT(30) DEF Stop, Step, WriterInv, WriterHasItem, WriterTurn, Written,
    OneWriter, HasWriter, AheadOfTail, Writing, Reading, Turn
<1>19. CASE UNCHANGED queueVars
  BY <1>19, <1>0, SMTT(30) DEF queueVars, WriterInv, WriterHasItem, WriterTurn, Written,
    OneWriter, HasWriter, AheadOfTail, Writing, Reading, Turn
<1> QED
  BY <1>1, <1>2, <1>3, <1>4, <1>5, <1>6, <1>7, <1>8, <1>9, <1>10, <1>11, <1>12, <1>13, <1>14,
    <1>15, <1>16, <1>17, <1>18, <1>19 DEF QueueNext, Push, RunWorker

\* No step of push_impl() or pop() disturbs another consumer's position.
LEMMA ReaderStep ==
  ASSUME RingInv, [QueueNext]_queueVars
  PROVE  ReaderInv'
<1>0. /\ WriterInv /\ ReaderInv
      /\ head \in Nat /\ tail \in Nat /\ head <= tail
      /\ at \in [Producer \cup Consumer \cup {Stopper} -> ProducerPc \cup ConsumerPc \cup StopperPc]
      /\ pos \in [Producer \cup Consumer -> Nat]
      /\ local \in [Producer \cup Consumer -> Maybe]
      /\ \A n \in Nat : Turn(n) \in Nat
      /\ Producer \cap Consumer = {} /\ Stopper \notin Producer \cup Consumer
  <2>1. \A n \in Nat : Turn(n) \in Nat
    BY Laps, Zenon DEF RingInv, QueueTypeOK, Turn
  <2> QED BY <2>1, QueueAssumption, Zenon DEF RingInv, QueueTypeOK, TokenInv
<1>1. ASSUME NEW p \in Producer, CallPush(p)
      PROVE  ReaderInv'
  BY <1>1, <1>0, SMTT(30) DEF CallPush, Step, ReaderInv, ReaderHasItem, ReaderTurn, Emptied,
    OneReader, AheadOfHead, HoldsItem, Writing, Reading, Turn
<1>2. ASSUME NEW p \in Producer, WaitSpace(p)
      PROVE  ReaderInv'
  BY <1>2, <1>0, SMTT(30) DEF WaitSpace, Step, ReaderInv, ReaderHasItem, ReaderTurn, Emptied,
    OneReader, AheadOfHead, HoldsItem, Writing, Reading, Turn
<1>3. ASSUME NEW p \in Producer, PushTimeout(p)
      PROVE  ReaderInv'
  BY <1>3, <1>0, SMTT(30) DEF PushTimeout, Step, ReaderInv, ReaderHasItem, ReaderTurn, Emptied,
    OneReader, AheadOfHead, HoldsItem, Writing, Reading, Turn
<1>4. ASSUME NEW p \in Producer, TestStoppedPush(p)
      PROVE  ReaderInv'
  BY <1>4, <1>0, SMTT(30) DEF TestStoppedPush, Step, ReaderInv, ReaderHasItem, ReaderTurn,
    Emptied, OneReader, AheadOfHead, HoldsItem, Writing, Reading, Turn
<1>5. ASSUME NEW p \in Producer, WakeProducer(p)
      PROVE  ReaderInv'
  BY <1>5, <1>0, SMTT(30) DEF WakeProducer, Step, ReaderInv, ReaderHasItem, ReaderTurn, Emptied,
    OneReader, AheadOfHead, HoldsItem, Writing, Reading, Turn
<1>6. ASSUME NEW p \in Producer, ClaimTail(p)
      PROVE  ReaderInv'
  BY <1>6, <1>0, SMTT(30) DEF ClaimTail, Step, ReaderInv, ReaderHasItem, ReaderTurn, Emptied,
    OneReader, AheadOfHead, HoldsItem, Writing, Reading, Turn
<1>7. ASSUME NEW p \in Producer, WriteSlot(p)
      PROVE  ReaderInv'
  <2>1. /\ at[p] = "write" /\ at'[p] = "publish"
        /\ \A t \in (Producer \cup Consumer) \ {p} : at'[t] = at[t]
        /\ UNCHANGED <<head, tail, pos, local>>
    BY <1>7, <1>0 DEF WriteSlot, Step
  <2>2. ReaderHasItem'
    BY <1>7, <1>0, <2>1, WriteEffect, SMTT(30)
    DEF ReaderInv, ReaderHasItem, HoldsItem, OneReader, Reading
  <2>3. ReaderTurn'
    BY <1>7, <1>0, <2>1, WriteEffect, SMTT(30) DEF ReaderInv, ReaderTurn, OneReader, Reading
  <2>4. Emptied'
    BY <1>7, <1>0, <2>1, WriteEffect, SMTT(30) DEF ReaderInv, Emptied, OneReader, Reading
  <2>5. OneReader'
    BY <1>7, <1>0, <2>1, WriteEffect, SMTT(30) DEF ReaderInv, OneReader, Reading
  <2>6. AheadOfHead'
    BY <1>7, <1>0, <2>1, WriteEffect, SMTT(30) DEF ReaderInv, AheadOfHead, ReaderTurn, Reading
  <2>7. HoldsItem'
    BY <1>7, <1>0, <2>1, WriteEffect, SMTT(30) DEF ReaderInv, HoldsItem
  <2> QED BY <2>2, <2>3, <2>4, <2>5, <2>6, <2>7 DEF ReaderInv
<1>8. ASSUME NEW p \in Producer, PublishSlot(p)
      PROVE  ReaderInv'
  <2>1. /\ at[p] = "publish" /\ at'[p] = "postItem"
        /\ \A t \in (Producer \cup Consumer) \ {p} : at'[t] = at[t]
        /\ UNCHANGED <<head, tail, pos, local>>
    BY <1>8, <1>0 DEF PublishSlot, Step
  <2>2. ReaderHasItem'
    BY <1>8, <1>0, <2>1, PublishEffect, SMTT(30)
    DEF ReaderInv, ReaderHasItem, HoldsItem, OneReader, Reading
  <2>3. ReaderTurn'
    <3> SUFFICES ASSUME NEW c \in Consumer, Reading(c)'
                 PROVE  (pos[c] < head)' /\ (Turn(pos[c]) <= ConsumerTurn(pos[c]))'
      BY DEF ReaderTurn
    <3>1. Reading(c) /\ pos[c] \in Nat
      BY <1>0, <2>1 DEF Reading
    <3>2. pos[c] < head /\ Turn(pos[c]) <= ConsumerTurn(pos[c])
      BY <1>0, <3>1, SMTT(30) DEF ReaderInv, ReaderTurn
    <3> QED BY <1>8, <2>1, <3>1, <3>2, PublishEffect
  <2>4. Emptied'
    BY <1>8, <1>0, <2>1, PublishEffect, SMTT(30) DEF ReaderInv, Emptied, OneReader, Reading
  <2>5. OneReader'
    BY <1>8, <1>0, <2>1, PublishEffect, SMTT(30) DEF ReaderInv, OneReader, Reading
  <2>6. AheadOfHead'
    BY <1>8, <1>0, <2>1, PublishEffect DEF ReaderInv, AheadOfHead, ReaderTurn, Reading
  <2>7. HoldsItem'
    <3> SUFFICES ASSUME NEW n \in Nat, Turn(n)' = ConsumerTurn(n),
                        \A c \in Consumer : at'[c] = "release" => pos'[c] # n
                 PROVE  (slots[Slot(n)].item)' \in Item
      BY SMTT(30) DEF HoldsItem
    <3>1. CASE n = pos[p]
      BY <1>8, <1>0, <2>1, <3>1, PublishEffect, SMTT(30) DEF WriterInv, WriterHasItem, Written
    <3>2. CASE n # pos[p]
      <4>1. Turn(n) = ConsumerTurn(n) /\ \A c \in Consumer : at[c] = "release" => pos[c] # n
        BY <1>8, <1>0, <2>1, <3>2, PublishEffect, SMTT(30)
      <4> QED BY <1>8, <1>0, <4>1, PublishEffect, Zenon DEF ReaderInv, HoldsItem
    <3> QED BY <3>1, <3>2
  <2> QED BY <2>2, <2>3, <2>4, <2>5, <2>6, <2>7 DEF ReaderInv
<1>9. ASSUME NEW p \in Producer, PostItem(p)
      PROVE  ReaderInv'
  BY <1>9, <1>0, SMTT(30) DEF PostItem, Step, ReaderInv, ReaderHasItem, ReaderTurn, Emptied,
    OneReader, AheadOfHead, HoldsItem, Writing, Reading, Turn
<1>10. ASSUME NEW c \in Consumer, WaitItem(c)
      PROVE  ReaderInv'
  BY <1>10, <1>0, SMTT(30) DEF WaitItem, Step, ReaderInv, ReaderHasItem, ReaderTurn, Emptied,
    OneReader, AheadOfHead, HoldsItem, Writing, Reading, Turn
<1>11. ASSUME NEW c \in Consumer, TestStoppedPop(c)
      PROVE  ReaderInv'
  BY <1>11, <1>0, SMTT(30) DEF TestStoppedPop, Step, ReaderInv, ReaderHasItem, ReaderTurn,
    Emptied, OneReader, AheadOfHead, HoldsItem, Writing, Reading, Turn
<1>12. ASSUME NEW c \in Consumer, WakeConsumer(c)
      PROVE  ReaderInv'
  BY <1>12, <1>0, SMTT(30) DEF WakeConsumer, Step, ReaderInv, ReaderHasItem, ReaderTurn, Emptied,
    OneReader, AheadOfHead, HoldsItem, Writing, Reading, Turn
<1>13. ASSUME NEW c \in Consumer, ClaimHead(c)
      PROVE  ReaderInv'
  BY <1>13, <1>0, SMTT(30) DEF ClaimHead, Step, ReaderInv, ReaderHasItem, ReaderTurn, Emptied,
    OneReader, AheadOfHead, HoldsItem, Writing, Reading, Turn
<1>14. ASSUME NEW c \in Consumer, ReadSlot(c)
      PROVE  ReaderInv'
  <2>1. /\ at[c] = "read" /\ at'[c] = "release"
        /\ \A t \in (Producer \cup Consumer) \ {c} : at'[t] = at[t]
        /\ UNCHANGED <<head, tail, pos>>
        /\ local' = [local EXCEPT ![c] = slots[Slot(pos[c])].item]
    BY <1>14, <1>0 DEF ReadSlot, Step
  <2>2. ReaderHasItem'
    BY <1>14, <1>0, <2>1, ReadEffect, SMTT(30)
    DEF ReaderInv, ReaderHasItem, HoldsItem, OneReader, Reading, Turn
  <2>3. ReaderTurn'
    BY <1>14, <1>0, <2>1, ReadEffect, SMTT(30) DEF ReaderInv, ReaderTurn, OneReader, Reading
  <2>4. Emptied'
    BY <1>14, <1>0, <2>1, ReadEffect, SMTT(30) DEF ReaderInv, Emptied, OneReader, Reading
  <2>5. OneReader'
    BY <1>14, <1>0, <2>1, ReadEffect, SMTT(30) DEF ReaderInv, OneReader, Reading
  <2>6. AheadOfHead'
    BY <1>14, <1>0, <2>1, ReadEffect, SMTT(30) DEF ReaderInv, AheadOfHead, ReaderTurn, Reading
  <2>7. HoldsItem'
    BY <1>14, <1>0, <2>1, ReadEffect, SMTT(30) DEF ReaderInv, HoldsItem, OneReader, Reading
  <2> QED BY <2>2, <2>3, <2>4, <2>5, <2>6, <2>7 DEF ReaderInv
<1>15. ASSUME NEW c \in Consumer, ReleaseSlot(c)
      PROVE  ReaderInv'
  <2>1. /\ at[c] = "release" /\ at'[c] = "postSpace"
        /\ \A t \in (Producer \cup Consumer) \ {c} : at'[t] = at[t]
        /\ UNCHANGED <<head, tail, pos, local>>
    BY <1>15, <1>0 DEF ReleaseSlot, Step
  <2>2. ReaderHasItem'
    BY <1>15, <1>0, <2>1, ReleaseEffect, Zenon
    DEF ReaderInv, ReaderHasItem, HoldsItem, OneReader, Reading
  <2>3. ReaderTurn'
    BY <1>15, <1>0, <2>1, ReleaseEffect, Zenon DEF ReaderInv, ReaderTurn, OneReader, Reading
  <2>4. Emptied'
    BY <1>15, <1>0, <2>1, ReleaseEffect, SMTT(30) DEF ReaderInv, Emptied, OneReader, Reading
  <2>5. OneReader'
    BY <1>15, <1>0, <2>1, ReleaseEffect, Zenon DEF ReaderInv, OneReader, Reading
  <2>6. AheadOfHead'
    BY <1>15, <1>0, <2>1, ReleaseEffect DEF ReaderInv, AheadOfHead, ReaderTurn, Reading
  <2>7. HoldsItem'
    <3> SUFFICES ASSUME NEW n \in Nat, Turn(n)' = ConsumerTurn(n),
                        \A d \in Consumer : at'[d] = "release" => pos'[d] # n
                 PROVE  (slots[Slot(n)].item)' \in Item
      BY DEF HoldsItem
    <3>1. n # pos[c] /\ Turn(n) = ConsumerTurn(n)
      BY <1>15, ReleaseEffect
    <3>2. \A d \in Consumer : at[d] = "release" => pos[d] # n
      BY <1>0, <2>1, <3>1, SMTT(30)
    <3> QED BY <1>15, <1>0, <3>1, <3>2, ReleaseEffect, Zenon DEF ReaderInv, HoldsItem
  <2> QED BY <2>2, <2>3, <2>4, <2>5, <2>6, <2>7 DEF ReaderInv
<1>16. ASSUME NEW c \in Consumer, PostSpace(c)
      PROVE  ReaderInv'
  BY <1>16, <1>0, SMTT(30) DEF PostSpace, Step, ReaderInv, ReaderHasItem, ReaderTurn, Emptied,
    OneReader, AheadOfHead, HoldsItem, Writing, Reading, Turn
<1>17. ASSUME NEW c \in Consumer, DoWork(c)
      PROVE  ReaderInv'
  BY <1>17, <1>0, SMTT(30) DEF DoWork, Step, ReaderInv, ReaderHasItem, ReaderTurn, Emptied,
    OneReader, AheadOfHead, HoldsItem, Writing, Reading, Turn
<1>18. CASE Stop
  BY <1>18, <1>0, SMTT(30) DEF Stop, Step, ReaderInv, ReaderHasItem, ReaderTurn, Emptied,
    OneReader, AheadOfHead, HoldsItem, Writing, Reading, Turn
<1>19. CASE UNCHANGED queueVars
  BY <1>19, <1>0 DEF queueVars, ReaderInv, ReaderHasItem, ReaderTurn, Emptied, OneReader,
    AheadOfHead, HoldsItem, Writing, Reading, Turn
<1> QED
  BY <1>1, <1>2, <1>3, <1>4, <1>5, <1>6, <1>7, <1>8, <1>9, <1>10, <1>11, <1>12, <1>13, <1>14,
    <1>15, <1>16, <1>17, <1>18, <1>19 DEF QueueNext, Push, RunWorker

\* The queue is constructed empty, with all its spaces free.
LEMMA RingInit == QueueInit => RingInv
<1> SUFFICES ASSUME QueueInit
             PROVE  RingInv
  OBVIOUS
<1>1. QueueTypeOK
  BY QueueAssumption, Zenon DEF QueueInit, QueueTypeOK, ProducerPc, ConsumerPc, StopperPc, Maybe
<1>2. /\ \A p \in Producer : at[p] = "push"
      /\ \A c \in Consumer : at[c] = "waitItem"
      /\ at[Stopper] = "run"
  BY QueueAssumption DEF QueueInit
<1>3. \A n \in Nat : Turn(n) = 0 /\ ProducerTurn(n) \in Nat
  BY Laps, Zenon DEF QueueInit, Turn
<1>4. WriterInv
  BY <1>2, <1>3, SMTT(30) DEF QueueInit, WriterInv, WriterHasItem, WriterTurn, Written,
    OneWriter, HasWriter,
     AheadOfTail, Writing
<1>5. ReaderInv
  BY <1>2, <1>3, SMTT(30) DEF QueueInit, ReaderInv, ReaderHasItem, ReaderTurn, Emptied, OneReader,
     AheadOfHead, HoldsItem, Reading, ConsumerTurn
<1>6. \A L \in {{"testStopped"}, {"claimTail"}, {"write", "publish", "postItem"}} :
         CountAt(at, Producer, L) = 0
  <2>1. \A L \in {{"testStopped"}, {"claimTail"}, {"write", "publish", "postItem"}} :
          {t \in Producer : at[t] \in L} = {}
    BY <1>2
  <2> QED BY <2>1, FS_EmptySet DEF CountAt
<1>7. \A L \in {{"testStopped"}, {"claimHead"}, {"read", "release", "postSpace"}} :
         CountAt(at, Consumer, L) = 0
  <2>1. \A L \in {{"testStopped"}, {"claimHead"}, {"read", "release", "postSpace"}} :
          {t \in Consumer : at[t] \in L} = {}
    BY <1>2, SMTT(30)
  <2> QED BY <2>1, FS_EmptySet DEF CountAt
<1>8. TokenInv
  BY <1>6, <1>7, QueueAssumption
  DEF QueueInit, TokenInv, TestingSpace, Claiming, Filling, TestingItem, ClaimingHead, Emptying
<1>9. StopInv
  BY <1>2 DEF StopInv
<1> QED BY <1>1, <1>4, <1>5, <1>8, <1>9 DEF RingInv

\* Every step of the queue and its users keeps the invariant.
LEMMA RingStep == RingInv /\ [QueueNext]_queueVars => RingInv'
  BY QueueTypeStep, WriterStep, ReaderStep, TokenStep, StopStep DEF RingInv

\* In every state of the queue no two threads work on the same position, no slot is
\* written before it has been read, and no position is claimed without a token.
THEOREM RingSafe == QueueSpec => []RingInv
  BY RingInit, RingStep, PTL, SMTT(30) DEF QueueSpec

-----------------------------------------------------------------------------
(* The ring implements the queue *)

\* A position whose item has not been moved out.
Live(n) ==
  /\ n \in Nat /\ n < tail
  /\ Turn(n) <= ConsumerTurn(n)
  /\ \A c \in Consumer : at[c] = "release" => pos[c] # n

\* The item of a position that its producer has not published is still with that producer.
LEMMA ItemOfWriter ==
  ASSUME RingInv, NEW p \in Producer, Writing(p)
  PROVE  ItemAt(pos[p]) = local[p] /\ local[p] \in Item
<1>1. pos[p] \in Nat /\ ProducerTurn(pos[p]) \in Nat /\ Turn(pos[p]) \in Nat
  BY Laps DEF RingInv, QueueTypeOK, Turn
<1>2. (slots[Slot(pos[p])].turn) # ConsumerTurn(pos[p])
  BY <1>1 DEF RingInv, WriterInv, WriterTurn, ConsumerTurn, Turn
<1> DEFINE writers == {q \in Producer : at[q] \in {"write", "publish"} /\ pos[q] = pos[p]}
<1>3. writers = {p}
  BY DEF RingInv, WriterInv, OneWriter, Writing
<1>4. (CHOOSE q \in writers : TRUE) = p /\ writers # {}
  BY <1>3
<1>5. local[p] \in Item
  BY DEF RingInv, WriterInv, WriterHasItem, Writing
<1> QED BY <1>2, <1>4, <1>5, Zenon DEF ItemAt

\* The same after a step.
LEMMA ItemOfWriterNext ==
  ASSUME RingInv', NEW p \in Producer, Writing(p)'
  PROVE  ItemAt(pos[p])' = local[p]' /\ local[p]' \in Item
<1>1. pos[p]' \in Nat /\ ProducerTurn(pos[p])' \in Nat /\ Turn(pos[p])' \in Nat
  BY Laps, Zenon DEF RingInv, QueueTypeOK, Turn
<1>2. (slots[Slot(pos[p])].turn)' # ConsumerTurn(pos[p])'
  BY <1>1 DEF RingInv, WriterInv, WriterTurn, ConsumerTurn, Turn
<1> DEFINE writers == {q \in Producer : at'[q] \in {"write", "publish"} /\ pos'[q] = pos'[p]}
<1>3. writers = {p}
  BY DEF RingInv, WriterInv, OneWriter, Writing
<1>4. (CHOOSE q \in writers : TRUE) = p /\ writers # {}
  BY <1>3
<1>5. local[p]' \in Item
  BY DEF RingInv, WriterInv, WriterHasItem, Writing
<1> QED BY <1>2, <1>4, <1>5, Zenon DEF ItemAt

\* The positions from head to tail are live, and so is that of a consumer that spins.
LEMMA Lives ==
  ASSUME RingInv
  PROVE  /\ \A n \in Nat : head <= n /\ n < tail => Live(n)
         /\ \A c \in Consumer : at[c] = "read" => Live(pos[c])
<1>1. /\ head \in Nat /\ tail \in Nat /\ head <= tail
      /\ \A c \in Consumer : pos[c] \in Nat
      /\ \A c \in Consumer : at[c] = "release" => pos[c] < head
  BY DEF RingInv, QueueTypeOK, TokenInv, ReaderInv, ReaderTurn, Reading
<1>2. ASSUME NEW n \in Nat, head <= n, n < tail
      PROVE  Live(n)
  <2>1. Turn(n) <= ConsumerTurn(n)
    BY <1>2 DEF RingInv, ReaderInv, AheadOfHead
  <2> QED BY <1>1, <1>2, <2>1 DEF Live
<1>3. ASSUME NEW c \in Consumer, at[c] = "read"
      PROVE  Live(pos[c])
  <2>1. pos[c] < head /\ Turn(pos[c]) <= ConsumerTurn(pos[c])
    BY <1>3 DEF RingInv, ReaderInv, ReaderTurn, Reading
  <2>2. \A d \in Consumer : at[d] = "release" => pos[d] # pos[c]
    BY <1>3, SMTT(30) DEF RingInv, ReaderInv, OneReader, Reading
  <2> QED BY <1>1, <2>1, <2>2 DEF Live
<1> QED BY <1>2, <1>3

\* The item of a live position is in its slot or with the producer that writes it.
LEMMA ItemOfLive ==
  ASSUME RingInv, NEW n, Live(n)
  PROVE  /\ ItemAt(n) \in Item
         /\ \/ Turn(n) = ConsumerTurn(n) /\ ItemAt(n) = slots[Slot(n)].item
            \/ \E p \in Producer : Writing(p) /\ pos[p] = n /\ ItemAt(n) = local[p]
<1>1. n \in Nat /\ ProducerTurn(n) \in Nat /\ Turn(n) \in Nat
  BY Laps, Zenon DEF RingInv, QueueTypeOK, Turn, Live
<1>2. CASE Turn(n) = ConsumerTurn(n)
  <2>1. slots[Slot(n)].item \in Item
    BY <1>1, <1>2 DEF RingInv, ReaderInv, HoldsItem, Live
  <2>2. ItemAt(n) = slots[Slot(n)].item
    BY <1>2 DEF ItemAt, Turn
  <2> QED BY <1>2, <2>1, <2>2
<1>3. CASE Turn(n) # ConsumerTurn(n)
  <2>1. n < tail /\ Turn(n) <= ProducerTurn(n)
    BY <1>1, <1>3 DEF Live, ConsumerTurn
  <2>2. PICK p \in Producer : Writing(p) /\ pos[p] = n
    BY <1>1, <2>1 DEF RingInv, WriterInv, HasWriter
  <2>3. ItemAt(n) = local[p] /\ local[p] \in Item
    BY <2>2, ItemOfWriter, SMTT(30)
  <2> QED BY <2>2, <2>3
<1> QED BY <1>2, <1>3

KeptOrPublished(q) ==
  \/ Writing(q)' /\ pos'[q] = pos[q] /\ local'[q] = local[q]
  \/ /\ pos'[q] = pos[q]
     /\ Turn(pos[q])' = ConsumerTurn(pos[q]) /\ (slots[Slot(pos[q])].item)' = local[q]

\* A producer keeps its position and its item until it publishes them.
LEMMA WriterStays ==
  ASSUME RingInv, [QueueNext]_queueVars, NEW q \in Producer, Writing(q)
  PROVE  KeptOrPublished(q)
<1> USE DEF KeptOrPublished
<1>0. /\ at \in [Producer \cup Consumer \cup {Stopper} -> ProducerPc \cup ConsumerPc \cup StopperPc]
      /\ pos \in [Producer \cup Consumer -> Nat]
      /\ local \in [Producer \cup Consumer -> Maybe]
      /\ Producer \cap Consumer = {} /\ Stopper \notin Producer \cup Consumer
      /\ at[q] \in {"write", "publish"}
  BY QueueAssumption DEF RingInv, QueueTypeOK, Writing
<1>1. ASSUME NEW p \in Producer, CallPush(p)
      PROVE  KeptOrPublished(q)
  BY <1>1, <1>0 DEF CallPush, Step, Writing
<1>2. ASSUME NEW p \in Producer, WaitSpace(p)
      PROVE  KeptOrPublished(q)
  BY <1>2, <1>0 DEF WaitSpace, Step, Writing
<1>3. ASSUME NEW p \in Producer, PushTimeout(p)
      PROVE  KeptOrPublished(q)
  BY <1>3, <1>0 DEF PushTimeout, Step, Writing
<1>4. ASSUME NEW p \in Producer, TestStoppedPush(p)
      PROVE  KeptOrPublished(q)
  BY <1>4, <1>0 DEF TestStoppedPush, Step, Writing
<1>5. ASSUME NEW p \in Producer, WakeProducer(p)
      PROVE  KeptOrPublished(q)
  BY <1>5, <1>0 DEF WakeProducer, Step, Writing
<1>6. ASSUME NEW p \in Producer, ClaimTail(p)
      PROVE  KeptOrPublished(q)
  BY <1>6, <1>0 DEF ClaimTail, Step, Writing
<1>7. ASSUME NEW p \in Producer, WriteSlot(p)
      PROVE  KeptOrPublished(q)
  BY <1>7, <1>0, SMTT(30) DEF WriteSlot, Step, Writing
<1>8. ASSUME NEW p \in Producer, PublishSlot(p)
      PROVE  KeptOrPublished(q)
  <2>1. CASE p = q
    <3>1. slots[Slot(pos[q])].item = local[q]
      BY <1>8, <2>1 DEF RingInv, WriterInv, Written, PublishSlot, Step
    <3>2. pos' = pos
      BY <1>8 DEF PublishSlot
    <3> QED BY <1>8, <1>0, <2>1, <3>1, <3>2, PublishEffect, SMTT(30)
  <2>2. CASE p # q
    BY <1>8, <2>2, <1>0 DEF PublishSlot, Step, Writing
  <2> QED BY <2>1, <2>2, SMTT(30)
<1>9. ASSUME NEW p \in Producer, PostItem(p)
      PROVE  KeptOrPublished(q)
  BY <1>9, <1>0 DEF PostItem, Step, Writing
<1>10. ASSUME NEW c \in Consumer, WaitItem(c)
      PROVE  KeptOrPublished(q)
  BY <1>10, <1>0 DEF WaitItem, Step, Writing
<1>11. ASSUME NEW c \in Consumer, TestStoppedPop(c)
      PROVE  KeptOrPublished(q)
  BY <1>11, <1>0 DEF TestStoppedPop, Step, Writing
<1>12. ASSUME NEW c \in Consumer, WakeConsumer(c)
      PROVE  KeptOrPublished(q)
  BY <1>12, <1>0 DEF WakeConsumer, Step, Writing
<1>13. ASSUME NEW c \in Consumer, ClaimHead(c)
      PROVE  KeptOrPublished(q)
  BY <1>13, <1>0 DEF ClaimHead, Step, Writing
<1>14. ASSUME NEW c \in Consumer, ReadSlot(c)
      PROVE  KeptOrPublished(q)
  BY <1>14, <1>0 DEF ReadSlot, Step, Writing
<1>15. ASSUME NEW c \in Consumer, ReleaseSlot(c)
      PROVE  KeptOrPublished(q)
  BY <1>15, <1>0 DEF ReleaseSlot, Step, Writing
<1>16. ASSUME NEW c \in Consumer, PostSpace(c)
      PROVE  KeptOrPublished(q)
  BY <1>16, <1>0 DEF PostSpace, Step, Writing
<1>17. ASSUME NEW c \in Consumer, DoWork(c)
      PROVE  KeptOrPublished(q)
  BY <1>17, <1>0, SMTT(30) DEF DoWork, Step, Writing
<1>18. CASE Stop
  BY <1>18, <1>0, SMTT(30) DEF Stop, Step, Writing
<1>19. CASE UNCHANGED queueVars
  BY <1>19, SMTT(30) DEF queueVars, Writing
<1> QED
  BY <1>1, <1>2, <1>3, <1>4, <1>5, <1>6, <1>7, <1>8, <1>9, <1>10, <1>11, <1>12, <1>13, <1>14,
    <1>15, <1>16, <1>17, <1>18, <1>19, Zenon DEF QueueNext, Push, RunWorker

SameSlot(n) == Turn(n)' = Turn(n) /\ (slots[Slot(n)].item)' = slots[Slot(n)].item

\* A published item stays in its slot until its consumer moves it out.
LEMMA SlotStays ==
  ASSUME RingInv, [QueueNext]_queueVars, NEW n, Live(n), Turn(n) = ConsumerTurn(n),
         \A c \in Consumer : ReadSlot(c) => pos[c] # n
  PROVE  SameSlot(n)
<1> USE DEF SameSlot
<1>0. n \in Nat /\ Turn(n) = ConsumerTurn(n)
  BY SMTT(30) DEF Live
<1>1. ASSUME NEW p \in Producer, CallPush(p)
      PROVE  SameSlot(n)
  BY <1>1 DEF CallPush, Turn
<1>2. ASSUME NEW p \in Producer, WaitSpace(p)
      PROVE  SameSlot(n)
  BY <1>2 DEF WaitSpace, Turn
<1>3. ASSUME NEW p \in Producer, PushTimeout(p)
      PROVE  SameSlot(n)
  BY <1>3 DEF PushTimeout, Turn
<1>4. ASSUME NEW p \in Producer, TestStoppedPush(p)
      PROVE  SameSlot(n)
  BY <1>4 DEF TestStoppedPush, Turn
<1>5. ASSUME NEW p \in Producer, WakeProducer(p)
      PROVE  SameSlot(n)
  BY <1>5 DEF WakeProducer, Turn
<1>6. ASSUME NEW p \in Producer, ClaimTail(p)
      PROVE  SameSlot(n)
  BY <1>6, SMTT(30) DEF ClaimTail, Turn
<1>7. ASSUME NEW p \in Producer, WriteSlot(p)
      PROVE  SameSlot(n)
  BY <1>7, <1>0, WriteEffect, SMTT(30)
<1>8. ASSUME NEW p \in Producer, PublishSlot(p)
      PROVE  SameSlot(n)
  <2>1. n # pos[p]
    BY <1>8, <1>0, PublishEffect, SMTT(30)
  <2> QED BY <1>8, <1>0, <2>1, PublishEffect, SMTT(30)
<1>9. ASSUME NEW p \in Producer, PostItem(p)
      PROVE  SameSlot(n)
  BY <1>9 DEF PostItem, Turn
<1>10. ASSUME NEW c \in Consumer, WaitItem(c)
      PROVE  SameSlot(n)
  BY <1>10 DEF WaitItem, Turn
<1>11. ASSUME NEW c \in Consumer, TestStoppedPop(c)
      PROVE  SameSlot(n)
  BY <1>11 DEF TestStoppedPop, Turn
<1>12. ASSUME NEW c \in Consumer, WakeConsumer(c)
      PROVE  SameSlot(n)
  BY <1>12 DEF WakeConsumer, Turn
<1>13. ASSUME NEW c \in Consumer, ClaimHead(c)
      PROVE  SameSlot(n)
  BY <1>13 DEF ClaimHead, Turn
<1>14. ASSUME NEW c \in Consumer, ReadSlot(c)
      PROVE  SameSlot(n)
  BY <1>14, <1>0, ReadEffect, SMTT(30)
<1>15. ASSUME NEW c \in Consumer, ReleaseSlot(c)
      PROVE  SameSlot(n)
  <2>1. n # pos[c]
    BY <1>15 DEF Live, ReleaseSlot, Step
  <2> QED BY <1>15, <1>0, <2>1, ReleaseEffect
<1>16. ASSUME NEW c \in Consumer, PostSpace(c)
      PROVE  SameSlot(n)
  BY <1>16 DEF PostSpace, Turn
<1>17. ASSUME NEW c \in Consumer, DoWork(c)
      PROVE  SameSlot(n)
  BY <1>17 DEF DoWork, Turn
<1>18. CASE Stop
  BY <1>18 DEF Stop, Turn
<1>19. CASE UNCHANGED queueVars
  BY <1>19, SMTT(30) DEF queueVars, Turn
<1> QED
  BY <1>1, <1>2, <1>3, <1>4, <1>5, <1>6, <1>7, <1>8, <1>9, <1>10, <1>11, <1>12, <1>13, <1>14,
    <1>15, <1>16, <1>17, <1>18, <1>19, Zenon DEF QueueNext, Push, RunWorker

\* The item of a live position is the same after a step, unless the step moves it out.
LEMMA ItemStays ==
  ASSUME RingInv, RingInv', [QueueNext]_queueVars, NEW n, Live(n),
         \A c \in Consumer : ReadSlot(c) => pos[c] # n
  PROVE  ItemAt(n)' = ItemAt(n)
<1>1. CASE Turn(n) = ConsumerTurn(n) /\ ItemAt(n) = slots[Slot(n)].item
  <2>1. Turn(n)' = ConsumerTurn(n) /\ (slots[Slot(n)].item)' = slots[Slot(n)].item
    BY <1>1, SlotStays, SMTT(30) DEF SameSlot
  <2> QED BY <1>1, <2>1, SMTT(30) DEF ItemAt, Turn
<1>2. ASSUME NEW p \in Producer, Writing(p), pos[p] = n, ItemAt(n) = local[p]
      PROVE  ItemAt(n)' = ItemAt(n)
  <2>1. CASE Writing(p)' /\ pos'[p] = pos[p] /\ local'[p] = local[p]
    <3>1. ItemAt(pos[p])' = local'[p]
      BY <2>1, ItemOfWriterNext, SMTT(30)
    <3> QED BY <1>2, <2>1, <3>1, SMTT(30) DEF ItemAt
  <2>2. CASE /\ pos'[p] = pos[p]
             /\ Turn(pos[p])' = ConsumerTurn(pos[p]) /\ (slots[Slot(pos[p])].item)' = local[p]
    BY <1>2, <2>2, SMTT(30) DEF ItemAt, Turn
  <2> QED BY <1>2, <2>1, <2>2, WriterStays, SMTT(30) DEF KeptOrPublished
<1> QED BY <1>1, <1>2, ItemOfLive, SMTT(30)

\* The queue and what the consumers hold, as Fifo sees them.
Ring == [i \in 1..(tail - head) |-> ItemAt(head + i - 1)]
Held == [c \in Consumer |-> Given(c)]

\* A consumer that a step does not move holds the same item after it.
LEMMA GivenStays ==
  ASSUME RingInv, RingInv', [QueueNext]_queueVars, NEW d \in Consumer,
         at'[d] = at[d], pos'[d] = pos[d], local'[d] = local[d]
  PROVE  Given(d)' = Given(d)
<1>1. CASE at[d] = "read"
  <2>1. Live(pos[d])
    BY <1>1, Lives
  <2>2. \A c \in Consumer : ReadSlot(c) => pos[c] # pos[d]
    <3> SUFFICES ASSUME NEW c \in Consumer, ReadSlot(c), pos[c] = pos[d]
                 PROVE  FALSE
      OBVIOUS
    <3>1. at[c] = "read" /\ at'[c] = "release"
      BY SMTT(30) DEF ReadSlot, Step, RingInv, QueueTypeOK
    <3>2. c = d
      BY <1>1, <3>1, SMTT(30) DEF RingInv, ReaderInv, OneReader, Reading
    <3> QED BY <1>1, <3>1, <3>2
  <2>3. ASSUME NEW n, n = pos[d]
        PROVE  ItemAt(n)' = ItemAt(n)
    BY <2>1, <2>2, <2>3, ItemStays, SMTT(30)
  <2>4. ItemAt(pos[d])' = ItemAt(pos[d])
    BY <2>3 DEF ItemAt
  <2> QED BY <1>1, <2>4 DEF Given
<1>2. CASE at[d] # "read"
  BY <1>2 DEF Given
<1> QED BY <1>1, <1>2

\* The items of the positions from head to tail stay where they are.
LEMMA QueuedStay ==
  ASSUME RingInv, RingInv', [QueueNext]_queueVars, NEW n \in Nat, head <= n, n < tail
  PROVE  ItemAt(n)' = ItemAt(n) /\ ItemAt(n) \in Item
<1>1. Live(n)
  BY Lives
<1>2. \A c \in Consumer : ReadSlot(c) => pos[c] # n
  BY DEF ReadSlot, Step, RingInv, QueueTypeOK, ReaderInv, ReaderTurn, Reading
<1> QED BY <1>1, <1>2, ItemStays, ItemOfLive

\* The queue of items: its length, and each of its items.
LEMMA RingType ==
  ASSUME RingInv
  PROVE  Ring \in Seq(Item) /\ Len(Ring) = tail - head /\ tail - head \in Nat
<1>1. head \in Nat /\ tail \in Nat /\ head <= tail
  BY SMTT(30) DEF RingInv, QueueTypeOK, TokenInv
<1>2. \A i \in 1..(tail - head) : ItemAt(head + i - 1) \in Item
  <2> SUFFICES ASSUME NEW i \in 1..(tail - head)
               PROVE  ItemAt(head + i - 1) \in Item
    OBVIOUS
  <2>1. head + i - 1 \in Nat /\ head <= head + i - 1 /\ head + i - 1 < tail
    BY <1>1
  <2> QED BY <2>1, Lives, ItemOfLive
<1> QED BY <1>1, <1>2, SMTT(30) DEF Ring

\* While neither index moves, the queue of items does not change.
LEMMA RingStays ==
  ASSUME RingInv, RingInv', [QueueNext]_queueVars, head' = head, tail' = tail
  PROVE  Ring' = Ring
<1>1. head \in Nat /\ tail \in Nat /\ head <= tail
  BY SMTT(30) DEF RingInv, QueueTypeOK, TokenInv
<1>2. ASSUME NEW i \in 1..(tail - head)
      PROVE  ItemAt(head + i - 1)' = ItemAt(head + i - 1)
  <2>1. head + i - 1 \in Nat /\ head <= head + i - 1 /\ head + i - 1 < tail
    BY <1>1
  <2>2. ASSUME NEW n, n = head + i - 1
        PROVE  ItemAt(n)' = ItemAt(n)
    BY <2>1, <2>2, QueuedStay, SMTT(30)
  <2> QED BY <2>2 DEF ItemAt
<1> QED BY <1>1, <1>2, SMTT(30) DEF Ring

\* The moment of a push is ClaimTail: there is room, and the item is the last one.
LEMMA ClaimTailPuts ==
  ASSUME RingInv, RingInv', NEW p \in Producer, ClaimTail(p)
  PROVE  /\ tail - head < Capacity
         /\ local[p] \in Item
         /\ Ring' = Append(Ring, local[p])
         /\ Held' = Held
<1>0. [QueueNext]_queueVars
  BY SMTT(30) DEF QueueNext, Push
<1>1. /\ head \in Nat /\ tail \in Nat /\ head <= tail /\ Capacity \in Nat
      /\ head' = head /\ tail' = tail + 1 /\ QueueTypeOK
  BY QueueAssumption DEF RingInv, QueueTypeOK, TokenInv, ClaimTail
<1>2. tail - head < Capacity
  <2>1. Step(p, "claimTail", "write")
    BY SMTT(30) DEF ClaimTail
  <2>2. Claiming(at') = Claiming(at) - 1
    BY <1>1, <2>1, ProducerCounts, CountType, SMTT(30) DEF One
  <2>3. Claiming(at) \in Nat /\ Claiming(at') \in Nat /\ Emptying(at) \in Nat
    BY CountType, SMTT(30)
  <2>4. Claiming(at) + (tail - head) + Emptying(at) <= Capacity
    BY SMTT(30) DEF RingInv, TokenInv
  <2> QED BY <1>1, <2>2, <2>3, <2>4, SMTT(30)
<1>3. Writing(p)' /\ pos'[p] = tail /\ local' = local
  BY SMTT(30) DEF ClaimTail, Step, Writing, RingInv, QueueTypeOK
<1>4. ItemAt(pos[p])' = local[p] /\ local[p] \in Item
  BY <1>3, ItemOfWriterNext, SMTT(30)
<1>5. ASSUME NEW i \in 1..(tail - head)
      PROVE  Ring'[i] = Ring[i]
  <2>1. head + i - 1 \in Nat /\ head <= head + i - 1 /\ head + i - 1 < tail
    BY <1>1, SMTT(30)
  <2>2. ASSUME NEW n, n = head + i - 1
        PROVE  Ring'[i] = Ring[i]
    <3>1. ItemAt(n)' = ItemAt(n)
      BY <1>0, <2>1, <2>2, QueuedStay, SMTT(30)
    <3>2. i \in 1..(tail' - head') /\ n = head' + i - 1
      BY <1>1, <2>2
    <3>3. Ring'[i] = ItemAt(n)'
      BY <3>2 DEF Ring
    <3>4. Ring[i] = ItemAt(n)
      BY <2>2 DEF Ring
    <3> QED BY <3>1, <3>3, <3>4, SMTT(30)
  <2> QED BY <2>2
<1>6. Ring'[tail - head + 1] = local[p]
  <2>1. ASSUME NEW n, n = tail
        PROVE  Ring'[tail - head + 1] = local[p]
    <3>1. tail - head + 1 \in 1..(tail' - head') /\ n = head' + (tail - head + 1) - 1
      BY <1>1, <2>1
    <3>2. Ring'[tail - head + 1] = ItemAt(n)'
      BY <3>1 DEF Ring
    <3>3. n = pos'[p]
      BY <1>3, <2>1, SMTT(30)
    <3> QED BY <1>4, <3>2, <3>3, SMTT(30)
  <2> QED BY <2>1
<1>7. Ring' = [i \in 1..(tail - head + 1) |-> Ring'[i]]
  BY <1>1, SMTT(30) DEF Ring
<1>8. Held' = Held
  <2>1. \A d \in Consumer : at'[d] = at[d] /\ pos'[d] = pos[d] /\ local'[d] = local[d]
    BY QueueAssumption DEF ClaimTail, Step, RingInv, QueueTypeOK
  <2> QED BY <1>0, <2>1, GivenStays, SMTT(30) DEF Held
<1> QED BY <1>1, <1>2, <1>4, <1>5, <1>6, <1>7, <1>8, RingType, SMTT(30)

\* The moment of a pop is ClaimHead: there is an item, and the consumer gets the first.
LEMMA ClaimHeadTakes ==
  ASSUME RingInv, RingInv', NEW c \in Consumer, ClaimHead(c)
  PROVE  /\ Ring # <<>>
         /\ Held[c] = NoItem
         /\ Held' = [Held EXCEPT ![c] = Head(Ring)]
         /\ Ring' = Tail(Ring)
<1>0. [QueueNext]_queueVars
  BY SMTT(30) DEF QueueNext, RunWorker
<1>1. /\ head \in Nat /\ tail \in Nat /\ head <= tail
      /\ head' = head + 1 /\ tail' = tail /\ QueueTypeOK
  BY DEF RingInv, QueueTypeOK, TokenInv, ClaimHead
<1>2. head < tail
  <2>1. Step(c, "claimHead", "read")
    BY DEF ClaimHead
  <2>2. ClaimingHead(at') = ClaimingHead(at) - 1
    BY <1>1, <2>1, ConsumerCounts, CountType DEF One
  <2>3. ClaimingHead(at) \in Nat /\ ClaimingHead(at') \in Nat /\ Filling(at) \in Nat
    BY CountType, SMTT(30)
  <2>4. ClaimingHead(at) + Filling(at) <= tail - head
    BY DEF RingInv, TokenInv
  <2> QED BY <1>1, <2>2, <2>3, <2>4
<1>3. Ring \in Seq(Item) /\ Len(Ring) = tail - head /\ Ring # <<>>
  BY <1>1, <1>2, RingType, SMTT(30)
<1>4. ASSUME NEW i \in 1..(tail - head - 1)
      PROVE  Ring'[i] = Ring[i + 1]
  <2>1. ASSUME NEW n, n = head + i
        PROVE  Ring'[i] = Ring[i + 1]
    <3>1. n \in Nat /\ head <= n /\ n < tail
      BY <1>1, <2>1
    <3>2. ItemAt(n)' = ItemAt(n)
      BY <1>0, <3>1, QueuedStay, SMTT(30)
    <3>3. i \in 1..(tail' - head') /\ n = head' + i - 1
      BY <1>1, <2>1
    <3>4. Ring'[i] = ItemAt(n)'
      BY <3>3 DEF Ring
    <3>5. i + 1 \in 1..(tail - head) /\ n = head + (i + 1) - 1
      BY <1>1, <2>1
    <3>6. Ring[i + 1] = ItemAt(n)
      BY <3>5 DEF Ring
    <3> QED BY <3>2, <3>4, <3>6, SMTT(30)
  <2> QED BY <2>1, SMTT(30)
<1>5. Ring' = [i \in 1..(tail - head - 1) |-> Ring'[i]]
  BY <1>1 DEF Ring
<1>6. Ring' = Tail(Ring)
  BY <1>1, <1>2, <1>3, <1>4, <1>5, SMTT(30)
<1>7. /\ at[c] = "claimHead" /\ at'[c] = "read" /\ pos'[c] = head
      /\ \A d \in Consumer \ {c} : at'[d] = at[d] /\ pos'[d] = pos[d] /\ local'[d] = local[d]
  BY DEF ClaimHead, Step, RingInv, QueueTypeOK
<1>8. Given(c) = NoItem
  BY <1>7 DEF Given
<1>9. Given(c)' = Head(Ring)
  <2>1. ASSUME NEW n, n = head
        PROVE  Given(c)' = Head(Ring)
    <3>1. ItemAt(n)' = ItemAt(n)
      BY <1>0, <1>1, <1>2, <2>1, QueuedStay, SMTT(30)
    <3>2. n = head + 1 - 1 /\ 1 \in 1..(tail - head)
      BY <1>1, <1>2, <2>1
    <3>3. Ring[1] = ItemAt(n)
      BY <3>2, SMTT(30) DEF Ring
    <3>4. n = pos'[c]
      BY <1>7, <2>1
    <3>5. Given(c)' = ItemAt(n)'
      BY <1>7, <3>4, SMTT(30) DEF Given
    <3> QED BY <1>3, <3>1, <3>3, <3>5, SMTT(30)
  <2> QED BY <2>1
<1>10. \A d \in Consumer \ {c} : Given(d)' = Given(d)
  BY <1>0, <1>7, GivenStays
<1>11. Held' = [Held EXCEPT ![c] = Head(Ring)]
  BY <1>9, <1>10, Zenon DEF Held
<1> QED BY <1>3, <1>6, <1>8, <1>11 DEF Held

\* pop() returns with the item: the consumer held one and holds none any more.
LEMMA DoWorkReturns ==
  ASSUME RingInv, RingInv', NEW c \in Consumer, DoWork(c)
  PROVE  /\ Held[c] # NoItem
         /\ Held' = [Held EXCEPT ![c] = NoItem]
         /\ Ring' = Ring
<1>0. [QueueNext]_queueVars
  BY SMTT(30) DEF QueueNext, RunWorker
<1>1. /\ at[c] = "doWork" /\ at'[c] = "waitItem"
      /\ \A d \in Consumer \ {c} : at'[d] = at[d] /\ pos'[d] = pos[d] /\ local'[d] = local[d]
      /\ head' = head /\ tail' = tail
  BY DEF DoWork, Step, RingInv, QueueTypeOK
<1>2. Given(c) = local[c] /\ local[c] \in Item
  BY <1>1 DEF Given, RingInv, ReaderInv, ReaderHasItem
<1>3. Given(c)' = NoItem
  BY <1>1, SMTT(30) DEF Given
<1>4. \A d \in Consumer \ {c} : Given(d)' = Given(d)
  BY <1>0, <1>1, GivenStays, SMTT(30)
<1>5. Ring' = Ring
  BY <1>0, <1>1, RingStays, SMTT(30)
<1>6. Held[c] # NoItem
  BY <1>2, QueueAssumption DEF Held
<1>7. Held' = [Held EXCEPT ![c] = NoItem]
  BY <1>3, <1>4, Zenon DEF Held
<1> QED BY <1>5, <1>6, <1>7

\* Every other step of push_impl(), pop() and stop() changes neither the queue nor what
\* the consumers hold.
LEMMA SilentStep ==
  ASSUME RingInv, RingInv', [QueueNext]_queueVars,
         \A p \in Producer : ~ClaimTail(p),
         \A c \in Consumer : ~ClaimHead(c) /\ ~DoWork(c)
  PROVE  Ring' = Ring /\ Held' = Held
<1>0. /\ at \in [Producer \cup Consumer \cup {Stopper} -> ProducerPc \cup ConsumerPc \cup StopperPc]
      /\ pos \in [Producer \cup Consumer -> Nat]
      /\ local \in [Producer \cup Consumer -> Maybe]
      /\ Producer \cap Consumer = {} /\ Stopper \notin Producer \cup Consumer
  BY QueueAssumption, SMTT(30) DEF RingInv, QueueTypeOK
<1> DEFINE Moved(d) == ~(at'[d] = at[d] /\ pos'[d] = pos[d] /\ local'[d] = local[d])
<1>1. ASSUME head' = head, tail' = tail, NEW c \in Consumer, Given(c)' = Given(c),
             \A d \in Consumer \ {c} : ~Moved(d)
      PROVE  Ring' = Ring /\ Held' = Held
  <2>1. \A d \in Consumer \ {c} : Given(d)' = Given(d)
    BY <1>1, GivenStays, Zenon
  <2> QED BY <1>1, <2>1, RingStays, Zenon DEF Held
<1>2. ASSUME head' = head, tail' = tail, \A d \in Consumer : ~Moved(d)
      PROVE  Ring' = Ring /\ Held' = Held
  <2>1. \A d \in Consumer : Given(d)' = Given(d)
    BY <1>2, GivenStays, SMTT(30)
  <2> QED BY <1>2, <2>1, RingStays, SMTT(30) DEF Held
<1>3. ASSUME NEW p \in Producer, CallPush(p) \/ Push(p)
      PROVE  Ring' = Ring /\ Held' = Held
  <2>1. head' = head /\ tail' = tail
    BY <1>3, SMTT(30) DEF Push, CallPush, WaitSpace, PushTimeout, TestStoppedPush, WakeProducer,
      WriteSlot, PublishSlot, PostItem
  <2>2. \A d \in Consumer : ~Moved(d)
    BY <1>0, <1>3, SMTT(30) DEF Push, Step, CallPush, WaitSpace, PushTimeout, TestStoppedPush,
      WakeProducer, WriteSlot, PublishSlot, PostItem
  <2> QED BY <1>2, <2>1, <2>2, Zenon
<1>4. ASSUME NEW c \in Consumer, WaitItem(c) \/ TestStoppedPop(c) \/ WakeConsumer(c)
      PROVE  Ring' = Ring /\ Held' = Held
  <2>1. head' = head /\ tail' = tail /\ \A d \in Consumer \ {c} : ~Moved(d)
    BY <1>0, <1>4, SMTT(30) DEF WaitItem, TestStoppedPop, WakeConsumer, Step
  <2>2. /\ at[c] \in {"waitItem", "testStopped", "wakeConsumer"}
        /\ at'[c] \in {"testStopped", "wakeConsumer", "claimHead", "ended"}
    BY <1>0, <1>4 DEF WaitItem, TestStoppedPop, WakeConsumer, Step
  <2>3. Given(c)' = Given(c)
    BY <2>2, SMTT(30) DEF Given
  <2> QED BY <1>1, <2>1, <2>3, Zenon
<1>5. ASSUME NEW c \in Consumer, ReadSlot(c)
      PROVE  Ring' = Ring /\ Held' = Held
  <2>1. head' = head /\ tail' = tail /\ \A d \in Consumer \ {c} : ~Moved(d)
    BY <1>0, <1>5 DEF ReadSlot, Step
  <2>2. at[c] = "read" /\ at'[c] = "release" /\ local'[c] = slots[Slot(pos[c])].item
    BY <1>0, <1>5 DEF ReadSlot, Step
  <2>3. ItemAt(pos[c]) = slots[Slot(pos[c])].item
    BY <1>5 DEF ReadSlot, ItemAt
  <2>4. Given(c)' = Given(c)
    BY <2>2, <2>3, SMTT(30) DEF Given
  <2> QED BY <1>1, <2>1, <2>4
<1>6. ASSUME NEW c \in Consumer, ReleaseSlot(c) \/ PostSpace(c)
      PROVE  Ring' = Ring /\ Held' = Held
  <2>1. head' = head /\ tail' = tail /\ \A d \in Consumer \ {c} : ~Moved(d)
    BY <1>0, <1>6 DEF ReleaseSlot, PostSpace, Step
  <2>2. /\ at[c] \in {"release", "postSpace"} /\ at'[c] \in {"postSpace", "doWork"}
        /\ local'[c] = local[c]
    BY <1>0, <1>6 DEF ReleaseSlot, PostSpace, Step
  <2>3. Given(c)' = Given(c)
    BY <2>2, SMTT(30) DEF Given
  <2> QED BY <1>1, <2>1, <2>3
<1>7. CASE Stop
  <2>1. head' = head /\ tail' = tail /\ \A d \in Consumer : ~Moved(d)
    BY <1>0, <1>7, SMTT(30) DEF Stop, Step
  <2> QED BY <1>2, <2>1, SMTT(30)
<1>8. CASE UNCHANGED queueVars
  <2>1. head' = head /\ tail' = tail /\ \A d \in Consumer : ~Moved(d)
    BY <1>8 DEF queueVars
  <2> QED BY <1>2, <2>1
<1> QED BY <1>3, <1>4, <1>5, <1>6, <1>7, <1>8, SMTT(30) DEF QueueNext, RunWorker

\* Whatever the capacity and however many threads push, pop and stop, the ring of
\* MPMCConcurrentQueue is a first-in first-out queue of at most Capacity items: no item
\* is lost, duplicated, overtaken, overwritten or read before it is written.
THEOREM RingImplementsFifo == QueueSpec => RingIsFifo
<1>1. QueueInit => Fifo!FifoInit
  <2> SUFFICES ASSUME QueueInit
               PROVE  Ring = <<>> /\ Held = [c \in Consumer |-> NoItem]
    BY SMTT(30) DEF Fifo!FifoInit, Ring, Held
  <2>1. head = 0 /\ tail = 0 /\ \A c \in Consumer : at[c] = "waitItem"
    BY QueueAssumption DEF QueueInit
  <2> QED BY <2>1 DEF Ring, Held, Given
<1>2. RingInv /\ RingInv' /\ [QueueNext]_queueVars => [Fifo!FifoNext]_(Fifo!fifoVars)
  <2> SUFFICES ASSUME RingInv, RingInv', [QueueNext]_queueVars
               PROVE  [Fifo!FifoNext]_(Fifo!fifoVars)
    OBVIOUS
  <2>1. ASSUME NEW p \in Producer, ClaimTail(p)
        PROVE  Fifo!FifoNext
    <3>1. Fifo!Put(local[p]) /\ local[p] \in Item
      BY <2>1, ClaimTailPuts, RingType, Zenon DEF Fifo!Put, Ring, Held
    <3> QED BY <3>1 DEF Fifo!FifoNext
  <2>2. ASSUME NEW c \in Consumer, ClaimHead(c)
        PROVE  Fifo!FifoNext
    <3>1. Fifo!Take(c)
      BY <2>2, ClaimHeadTakes, Zenon DEF Fifo!Take, Ring, Held
    <3> QED BY <3>1 DEF Fifo!FifoNext
  <2>3. ASSUME NEW c \in Consumer, DoWork(c)
        PROVE  Fifo!FifoNext
    <3>1. Fifo!Return(c)
      BY <2>3, DoWorkReturns, SMTT(30) DEF Fifo!Return, Ring, Held
    <3> QED BY <3>1, SMTT(30) DEF Fifo!FifoNext
  <2>4. ASSUME \A p \in Producer : ~ClaimTail(p),
               \A c \in Consumer : ~ClaimHead(c) /\ ~DoWork(c)
        PROVE  UNCHANGED Fifo!fifoVars
    BY <2>4, SilentStep DEF Fifo!fifoVars, Ring, Held
  <2> QED BY <2>1, <2>2, <2>3, <2>4, SMTT(30)
<1> QED BY <1>1, <1>2, RingSafe, PTL DEF QueueSpec, RingIsFifo, Fifo!FifoSpec
=============================================================================
