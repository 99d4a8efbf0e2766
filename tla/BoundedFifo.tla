---------------------------- MODULE BoundedFifo ----------------------------
(***************************************************************************)
(* What MPMCConcurrentQueue promises its users: a first-in first-out queue *)
(* of at most Capacity items, in which a push and a pop each take effect   *)
(* at one moment.  got[c] is the item a consumer has been given and has    *)
(* not yet returned from pop() with.                                       *)
(***************************************************************************)
EXTENDS Naturals, Sequences

CONSTANTS Item, NoItem, Consumer, Capacity

VARIABLES queue, got

fifoVars == <<queue, got>>

FifoInit ==
  /\ queue = <<>>
  /\ got = [c \in Consumer |-> NoItem]

Put(x) ==
  /\ Len(queue) < Capacity
  /\ queue' = Append(queue, x)
  /\ UNCHANGED got

Take(c) ==
  /\ queue # <<>> /\ got[c] = NoItem
  /\ got' = [got EXCEPT ![c] = Head(queue)]
  /\ queue' = Tail(queue)

Return(c) ==
  /\ got[c] # NoItem
  /\ got' = [got EXCEPT ![c] = NoItem]
  /\ UNCHANGED queue

FifoNext == (\E x \in Item : Put(x)) \/ \E c \in Consumer : Take(c) \/ Return(c)

FifoSpec == FifoInit /\ [][FifoNext]_fifoVars
=============================================================================
