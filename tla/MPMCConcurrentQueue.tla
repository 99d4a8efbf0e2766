------------------------ MODULE MPMCConcurrentQueue ------------------------
(***************************************************************************)
(* The queue of the thread pool (class MPMCConcurrentQueue) with its users:*)
(* producers that push a number of items each, the worker threads of       *)
(* ThreadPool, which pop until the queue is stopped, and stop().           *)
(*                                                                         *)
(* A position is claimed by fetch_add on m_tail or m_head; the turn of its *)
(* slot says whose it is: 2 * lap for the producer of the lap, one more    *)
(* for its consumer.  at[t] is what a thread executes next, and every      *)
(* access to an atomic, to a semaphore or to the item of a slot is a step  *)
(* of its own.  A spin is a step that waits for its turn.                  *)
(***************************************************************************)
EXTENDS Integers, Sequences, FiniteSets

CONSTANTS
  Producer, Consumer,
  Capacity,   \* of the ring (a power of two in the code, which no property needs)
  Pushes,     \* how often a producer calls push()
  NoItem

Stopper == "stopper"

\* The items a producer pushes are told apart by their number.
Item == UNION {{p} \X (1..Pushes[p]) : p \in Producer}

ASSUME QueueAssumption ==
  /\ Capacity \in Nat \ {0}
  /\ Pushes \in [Producer -> Nat]
  /\ IsFiniteSet(Producer) /\ IsFiniteSet(Consumer)
  /\ Producer \cap Consumer = {}
  /\ Stopper \notin Producer \cup Consumer
  /\ NoItem \notin Item

VARIABLES
  slots,      \* m_slots
  head,       \* m_head
  tail,       \* m_tail
  items,      \* m_items
  spaces,     \* m_spaces
  stopped,    \* m_stopped
  at,         \* what a thread executes next
  pos,        \* the position a thread has claimed and not yet given up
  local,      \* the item a thread pushes or has popped
  pushed      \* how often push() was called by a producer

queueVars == <<slots, head, tail, items, spaces, stopped, at, pos, local, pushed>>

QueueInit ==
  /\ slots = [i \in 0..(Capacity - 1) |-> [turn |-> 0, item |-> NoItem]]
  /\ head = 0 /\ tail = 0
  /\ items = 0 /\ spaces = Capacity
  /\ stopped = FALSE
  /\ at = [t \in Producer \cup Consumer \cup {Stopper} |->
             IF t \in Consumer THEN "waitItem" ELSE IF t \in Producer THEN "push" ELSE "run"]
  /\ pos = [t \in Producer \cup Consumer |-> 0]
  /\ local = [t \in Producer \cup Consumer |-> NoItem]
  /\ pushed = [p \in Producer |-> 0]

Slot(n) == n % Capacity
ProducerTurn(n) == 2 * (n \div Capacity)
ConsumerTurn(n) == ProducerTurn(n) + 1

Step(t, from, to) ==
  /\ at[t] = from
  /\ at' = [at EXCEPT ![t] = to]

-----------------------------------------------------------------------------
(* push_impl().                                                             *)

CallPush(p) ==
  /\ pushed[p] < Pushes[p]
  /\ Step(p, "push", "waitSpace")
  /\ pushed' = [pushed EXCEPT ![p] = @ + 1]
  /\ local' = [local EXCEPT ![p] = <<p, pushed[p] + 1>>]
  /\ UNCHANGED <<slots, head, tail, items, spaces, stopped, pos>>

\* m_spaces.wait() succeeds.
WaitSpace(p) ==
  /\ spaces > 0
  /\ Step(p, "waitSpace", "testStopped")
  /\ spaces' = spaces - 1
  /\ UNCHANGED <<slots, head, tail, items, stopped, pos, local, pushed>>

\* m_spaces.timedWait() returns kTimeout: the item is not pushed.
PushTimeout(p) ==
  /\ spaces = 0
  /\ Step(p, "waitSpace", "push")
  /\ local' = [local EXCEPT ![p] = NoItem]
  /\ UNCHANGED <<slots, head, tail, items, spaces, stopped, pos, pushed>>

TestStoppedPush(p) ==
  /\ Step(p, "testStopped", IF stopped THEN "wakeProducer" ELSE "claimTail")
  /\ UNCHANGED <<slots, head, tail, items, spaces, stopped, pos, local, pushed>>

\* The next blocked producer is woken and the item is discarded.
WakeProducer(p) ==
  /\ Step(p, "wakeProducer", "push")
  /\ spaces' = spaces + 1
  /\ local' = [local EXCEPT ![p] = NoItem]
  /\ UNCHANGED <<slots, head, tail, items, stopped, pos, pushed>>

ClaimTail(p) ==
  /\ Step(p, "claimTail", "write")
  /\ pos' = [pos EXCEPT ![p] = tail]
  /\ tail' = tail + 1
  /\ UNCHANGED <<slots, head, items, spaces, stopped, local, pushed>>

\* Mutant: the slot is written without waiting for the consumer of the last lap.
WriteAtOnce(p) ==
  /\ Step(p, "write", "publish")
  /\ slots' = [slots EXCEPT ![Slot(pos[p])].item = local[p]]
  /\ UNCHANGED <<head, tail, items, spaces, stopped, pos, local, pushed>>

\* Spin until the slot is the producer's, then write the item.
WriteSlot(p) ==
  /\ slots[Slot(pos[p])].turn = ProducerTurn(pos[p])
  /\ Step(p, "write", "publish")
  /\ slots' = [slots EXCEPT ![Slot(pos[p])].item = local[p]]
  /\ UNCHANGED <<head, tail, items, spaces, stopped, pos, local, pushed>>

PublishSlot(p) ==
  /\ Step(p, "publish", "postItem")
  /\ slots' = [slots EXCEPT ![Slot(pos[p])].turn = ProducerTurn(pos[p]) + 1]
  /\ UNCHANGED <<head, tail, items, spaces, stopped, pos, local, pushed>>

PostItem(p) ==
  /\ Step(p, "postItem", "push")
  /\ items' = items + 1
  /\ local' = [local EXCEPT ![p] = NoItem]
  /\ pos' = [pos EXCEPT ![p] = 0]
  /\ UNCHANGED <<slots, head, tail, spaces, stopped, pushed>>

-----------------------------------------------------------------------------
(* pop() and consume_slot(), called by ThreadPool::run().                   *)

WaitItem(c) ==
  /\ items > 0
  /\ Step(c, "waitItem", "testStopped")
  /\ items' = items - 1
  /\ UNCHANGED <<slots, head, tail, spaces, stopped, pos, local, pushed>>

TestStoppedPop(c) ==
  /\ Step(c, "testStopped", IF stopped THEN "wakeConsumer" ELSE "claimHead")
  /\ UNCHANGED <<slots, head, tail, items, spaces, stopped, pos, local, pushed>>

\* Mutant: a worker that finds the queue stopped wakes no other.
KeepToken(c) ==
  /\ Step(c, "wakeConsumer", "ended")
  /\ UNCHANGED <<slots, head, tail, items, spaces, stopped, pos, local, pushed>>

\* The next blocked consumer is woken; pop() returns kStopped and the worker ends.
WakeConsumer(c) ==
  /\ Step(c, "wakeConsumer", "ended")
  /\ items' = items + 1
  /\ UNCHANGED <<slots, head, tail, spaces, stopped, pos, local, pushed>>

ClaimHead(c) ==
  /\ Step(c, "claimHead", "read")
  /\ pos' = [pos EXCEPT ![c] = head]
  /\ head' = head + 1
  /\ UNCHANGED <<slots, tail, items, spaces, stopped, local, pushed>>

\* Spin until the slot is the consumer's, then move the item out.
ReadSlot(c) ==
  /\ slots[Slot(pos[c])].turn = ConsumerTurn(pos[c])
  /\ Step(c, "read", "release")
  /\ local' = [local EXCEPT ![c] = slots[Slot(pos[c])].item]
  /\ slots' = [slots EXCEPT ![Slot(pos[c])].item = NoItem]
  /\ UNCHANGED <<head, tail, items, spaces, stopped, pos, pushed>>

ReleaseSlot(c) ==
  /\ Step(c, "release", "postSpace")
  /\ slots' = [slots EXCEPT ![Slot(pos[c])].turn = ConsumerTurn(pos[c]) + 1]
  /\ UNCHANGED <<head, tail, items, spaces, stopped, pos, local, pushed>>

PostSpace(c) ==
  /\ Step(c, "postSpace", "doWork")
  /\ spaces' = spaces + 1
  /\ pos' = [pos EXCEPT ![c] = 0]
  /\ UNCHANGED <<slots, head, tail, items, stopped, local, pushed>>

\* The worker executes the job and pops the next.
DoWork(c) ==
  /\ Step(c, "doWork", "waitItem")
  /\ local' = [local EXCEPT ![c] = NoItem]
  /\ UNCHANGED <<slots, head, tail, items, spaces, stopped, pos, pushed>>

-----------------------------------------------------------------------------
(* stop().                                                                  *)

\* Mutant: the waiting threads are woken before the queue is stopped.
WakeBeforeStop ==
  \/ /\ Step(Stopper, "run", "wakeItems")
     /\ items' = items + 1
     /\ UNCHANGED <<slots, head, tail, spaces, stopped, pos, local, pushed>>
  \/ /\ Step(Stopper, "wakeItems", "wakeSpaces")
     /\ stopped' = TRUE
     /\ UNCHANGED <<slots, head, tail, items, spaces, pos, local, pushed>>
  \/ /\ Step(Stopper, "wakeSpaces", "done")
     /\ spaces' = spaces + 1
     /\ UNCHANGED <<slots, head, tail, items, stopped, pos, local, pushed>>

Stop ==
  \/ /\ Step(Stopper, "run", "wakeItems")
     /\ stopped' = TRUE
     /\ UNCHANGED <<slots, head, tail, items, spaces, pos, local, pushed>>
  \/ /\ Step(Stopper, "wakeItems", "wakeSpaces")
     /\ items' = items + 1
     /\ UNCHANGED <<slots, head, tail, spaces, stopped, pos, local, pushed>>
  \/ /\ Step(Stopper, "wakeSpaces", "done")
     /\ spaces' = spaces + 1
     /\ UNCHANGED <<slots, head, tail, items, stopped, pos, local, pushed>>

Push(p) == WaitSpace(p) \/ PushTimeout(p) \/ TestStoppedPush(p) \/ WakeProducer(p)
           \/ ClaimTail(p) \/ WriteSlot(p) \/ PublishSlot(p) \/ PostItem(p)

RunWorker(c) == WaitItem(c) \/ TestStoppedPop(c) \/ WakeConsumer(c) \/ ClaimHead(c)
                \/ ReadSlot(c) \/ ReleaseSlot(c) \/ PostSpace(c) \/ DoWork(c)

QueueNext ==
  \/ \E p \in Producer : CallPush(p) \/ Push(p)
  \/ \E c \in Consumer : RunWorker(c)
  \/ Stop

\* Threads are scheduled.  Nobody has to push or to stop the queue, but stop()
\* does not end half way.
QueueFairness ==
  /\ \A p \in Producer : WF_queueVars(Push(p))
  /\ \A c \in Consumer : WF_queueVars(RunWorker(c))
  /\ WF_queueVars(stopped /\ Stop)

QueueSpec == QueueInit /\ [][QueueNext]_queueVars /\ QueueFairness

-----------------------------------------------------------------------------
(* The queue of items that the ring stands for: those of the positions from *)
(* head to tail.  The item of a position is in its slot once it has been    *)
(* published, and with its producer until then.                             *)

ItemAt(n) ==
  IF slots[Slot(n)].turn = ConsumerTurn(n) THEN slots[Slot(n)].item
  ELSE LET writers == {p \in Producer : at[p] \in {"write", "publish"} /\ pos[p] = n}
       IN  IF writers = {} THEN NoItem ELSE local[CHOOSE p \in writers : TRUE]

Given(c) ==
  CASE at[c] = "read" -> ItemAt(pos[c])
    [] at[c] \in {"release", "postSpace", "doWork"} -> local[c]
    [] OTHER -> NoItem

Fifo == INSTANCE BoundedFifo WITH
          queue <- [i \in 1..(tail - head) |-> ItemAt(head + i - 1)],
          got <- [c \in Consumer |-> Given(c)]

\* Whatever the interleaving of producers, consumers and stop(), the ring is a
\* first-in first-out queue of at most Capacity items: no item is lost,
\* duplicated, overtaken or read before it is written, and a slot is not
\* overwritten while a slow consumer still reads it.
RingIsFifo == Fifo!FifoSpec

\* stop() ends every worker of the pool, however many of them are blocked: the one
\* token that it posts is passed on by each worker that wakes up.
StopEndsWorkers == stopped ~> \A c \in Consumer : at[c] = "ended"

\* Unless the queue is stopped, its workers catch up with the producers again and
\* again: every item is taken out, and no thread spins for ever for its turn.
PoolDrains ==
  []<>(stopped \/ (head = tail /\ \A t \in Producer \cup Consumer : at[t] \notin {"write", "read"}))
=============================================================================
