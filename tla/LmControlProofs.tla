---------------------------- MODULE LmControlProofs ----------------------------
(* What TLC checks of LmControl for two dispatch threads and three results holds for *)
(* any number of them and any size of a batch.                                       *)
EXTENDS LmControl, TLAPS

Pc == {"idle", "registered", "waiting", "confirming", "calling", "called", "locking",
       "reading", "forwarding", "gone"}

ThreadState ==
  [pc : Pc, back : {"idle", "forwarding"}, batch : Seq(Nat), size : Nat,
   copied : BOOLEAN]

Message == [kind : {"handler", "call"}, by : Thread \cup {NoThread}]

ControlTypeOK ==
  /\ mutex \in {NoThread, Discovery}
  /\ sampling \in Thread \cup {NoThread}
  /\ proxy \in BOOLEAN
  /\ callback \in BOOLEAN
  /\ thread \in [Thread -> ThreadState]
  /\ link \in Seq(Message)
  /\ lm \in [sent : Nat, notifies : BOOLEAN]
  /\ store \in Seq(Nat)
  /\ dispatch \in Nat
  /\ seen \in [given : Seq(Nat), dropped : SUBSET Nat]
  /\ history \in [confirmed : BOOLEAN, drained : BOOLEAN, registered : Nat \cup {-1},
                  failed : BOOLEAN]

\* Thread t is inside onActivationResult(), or in the callback it has called there.
Inside(t) == thread[t].back = "forwarding"

\* A thread inside holds sample_processing_mutex_; only the application registers a
\* callback, waits and ends.
ThreadInv ==
  \A t \in Thread :
    /\ Inside(t) => sampling = t
    /\ Inside(t) => thread[t].pc \in {"reading", "forwarding", "calling", "called",
                                      "locking"}
    /\ thread[t].pc \in {"reading", "forwarding"} => Inside(t)
    /\ thread[t].batch # <<>> => Inside(t)
    /\ thread[t].pc \in {"registered", "waiting", "confirming", "gone"} => t = App

\* Every call on its way belongs to a thread that waits for it, and to no other call.
LinkInv ==
  /\ \A k \in 1..Len(link) :
       link[k].kind = "call" =>
         /\ link[k].by \in Thread
         /\ thread[link[k].by].pc \in {"confirming", "called"}
  /\ \A j, k \in 1..Len(link) :
       link[j].kind = "call" /\ link[k].kind = "call" /\ link[j].by = link[k].by => j = k

\* The proxy is set up: nothing but the destructor resets it.
Up == proxy /\ mutex = NoThread

\* Whatever needs the proxy comes after its setup, and the registration of the receive
\* handler is the first message.
UpInv ==
  /\ lm.notifies \/ dispatch > 0 \/ link # <<>> => Up
  /\ \A t \in Thread : thread[t].pc \in {"locking", "confirming", "called"} \/ Inside(t) => Up
  /\ Up => lm.notifies \/ (link # <<>> /\ link[1].kind = "handler")
  /\ thread[App].pc = "gone" => ~proxy /\ mutex = NoThread
  /\ mutex = Discovery => proxy

Increasing(s) == \A j, k \in 1..Len(s) : j < k => s[j] < s[k]

AllBelow(s, r) == \A j \in 1..Len(s), k \in 1..Len(r) : s[j] < r[k]

\* The results are given, in a batch or in the store, in the order they were sent.
OrderInv ==
  /\ Increasing(seen.given) /\ Increasing(store) /\ AllBelow(seen.given, store)
  /\ \A k \in 1..Len(store) : store[k] <= lm.sent
  /\ \A k \in 1..Len(seen.given) : seen.given[k] <= lm.sent
  /\ \A r \in seen.dropped : r <= lm.sent
  /\ \A t \in Thread :
       /\ Increasing(thread[t].batch)
       /\ AllBelow(seen.given, thread[t].batch) /\ AllBelow(thread[t].batch, store)
       /\ \A k \in 1..Len(thread[t].batch) : thread[t].batch[k] <= lm.sent

\* Once the registration of a callback has returned, nobody is left inside who copied
\* callback_ before it.
CallbackInv ==
  /\ thread[App].pc \in {"registered", "locking"} \/ Inside(App) => callback
  /\ history.registered # -1 =>
       /\ callback
       /\ \A t \in Thread : Inside(t) => thread[t].copied
       /\ \A r \in seen.dropped : r <= history.registered

\* Thread t reads the store before it leaves.
WillRead(t) ==
  \/ thread[t].pc \in {"locking", "reading"}
  \/ Inside(t) /\ thread[t].size = SampleCount

\* The application reads, or has read, after its connection was confirmed.
Covered == history.drained \/ (history.confirmed /\ Inside(App))

UnreadInv ==
  /\ history.drained => history.confirmed
  /\ history.confirmed => lm.notifies \/ thread[App].pc = "gone"
  /\ Covered /\ ~history.failed /\ store # <<>> =>
       dispatch > 0 \/ \E t \in Thread : WillRead(t)

ControlInv ==
  /\ ControlTypeOK /\ ThreadInv /\ LinkInv /\ UpInv /\ OrderInv /\ CallbackInv
  /\ UnreadInv

-----------------------------------------------------------------------------
(* What the operators on sequences and on the threads do *)

\* push_back: one element more, the others where they were (Send(), the calls).
LEMMA Appended ==
  ASSUME NEW S, NEW s \in Seq(S), NEW e \in S
  PROVE  /\ Append(s, e) \in Seq(S)
         /\ Len(Append(s, e)) = Len(s) + 1
         /\ Append(s, e) # <<>>
         /\ \A k \in 1..Len(s) : Append(s, e)[k] = s[k]
         /\ Append(s, e)[Len(s) + 1] = e
  OBVIOUS

\* Taking the first element: the others move up (messages, forwardSample()).
LEMMA Taken ==
  ASSUME NEW S, NEW s \in Seq(S), s # <<>>
  PROVE  /\ Tail(s) \in Seq(S)
         /\ Len(s) \in Nat \ {0} /\ Len(Tail(s)) = Len(s) - 1
         /\ \A k \in 1..Len(Tail(s)) : k + 1 \in 1..Len(s) /\ Tail(s)[k] = s[k + 1]
         /\ Head(s) = s[1] /\ s[1] \in S
  OBVIOUS

\* GetNewSamples(): the first `size` elements and the rest.
LEMMA Split ==
  ASSUME NEW s \in Seq(Nat), NEW size \in 0..Len(s)
  PROVE  /\ SubSeq(s, 1, size) \in Seq(Nat) /\ SubSeq(s, size + 1, Len(s)) \in Seq(Nat)
         /\ Len(SubSeq(s, 1, size)) = size
         /\ Len(SubSeq(s, size + 1, Len(s))) = Len(s) - size
         /\ \A k \in 1..size : k \in 1..Len(s) /\ SubSeq(s, 1, size)[k] = s[k]
         /\ \A k \in 1..(Len(s) - size) :
              k + size \in 1..Len(s) /\ SubSeq(s, size + 1, Len(s))[k] = s[k + size]
<1>1. Len(s) \in Nat
  OBVIOUS
<1>2. SubSeq(s, 1, size) \in Seq(Nat) /\ Len(SubSeq(s, 1, size)) = size
  BY <1>1
<1>3. SubSeq(s, size + 1, Len(s)) \in Seq(Nat)
  BY <1>1
<1>4. Len(SubSeq(s, size + 1, Len(s))) = Len(s) - size
  BY <1>1
<1>5. \A k \in 1..size : k \in 1..Len(s) /\ SubSeq(s, 1, size)[k] = s[k]
  BY <1>1
<1>6. ASSUME NEW k \in 1..(Len(s) - size)
      PROVE  k + size \in 1..Len(s) /\ SubSeq(s, size + 1, Len(s))[k] = s[k + size]
  BY <1>1
<1>. QED
  BY <1>2, <1>3, <1>4, <1>5, <1>6

\* A later result goes to the end: the order is kept (Send(), the callback).
LEMMA AppendOrdered ==
  ASSUME NEW s \in Seq(Nat), NEW r \in Seq(Nat), NEW n \in Nat
  PROVE  /\ Increasing(s) /\ (\A k \in 1..Len(s) : s[k] < n) => Increasing(Append(s, n))
         /\ AllBelow(r, s) /\ (\A k \in 1..Len(r) : r[k] < n) => AllBelow(r, Append(s, n))
<1> DEFINE a == Append(s, n)
<1>1. /\ Len(s) \in Nat /\ Len(a) = Len(s) + 1 /\ a[Len(s) + 1] = n
      /\ \A k \in 1..Len(s) : a[k] = s[k]
  BY Appended
<1>2. \A k \in 1..Len(a) : \/ k \in 1..Len(s) /\ a[k] = s[k]
                           \/ k = Len(s) + 1 /\ a[k] = n
  BY <1>1
<1> HIDE DEF a
<1>3. ASSUME Increasing(s), \A k \in 1..Len(s) : s[k] < n
      PROVE  Increasing(a)
  <2>1. ASSUME NEW j \in 1..Len(a), NEW k \in 1..Len(a), j < k
        PROVE  a[j] < a[k]
    <3>1. j \in 1..Len(s) /\ a[j] = s[j]
      BY <1>1, <2>1
    <3>. QED
      BY <1>2, <1>3, <2>1, <3>1, ZenonT(30) DEF Increasing
  <2>. QED
    BY <2>1 DEF Increasing
<1>4. AllBelow(r, s) /\ (\A k \in 1..Len(r) : r[k] < n) => AllBelow(r, a)
  BY <1>2, SMTT(30) DEF AllBelow
<1>. QED
  BY <1>3, <1>4 DEF a

\* A result that is before all others stays so behind what was given (the callback).
LEMMA AppendBelow ==
  ASSUME NEW s \in Seq(Nat), NEW r \in Seq(Nat), NEW n \in Nat,
         AllBelow(s, r), \A k \in 1..Len(r) : n < r[k]
  PROVE  AllBelow(Append(s, n), r)
<1> DEFINE a == Append(s, n)
<1>1. \A k \in 1..Len(a) : \/ k \in 1..Len(s) /\ a[k] = s[k]
                           \/ a[k] = n
  BY Appended
<1> HIDE DEF a
<1>2. AllBelow(a, r)
  BY <1>1, ZenonT(30) DEF AllBelow
<1>. QED
  BY <1>2 DEF a

\* The first result of a batch is before the others, and these are in order.
LEMMA TailOrdered ==
  ASSUME NEW s \in Seq(Nat), s # <<>>, NEW r \in Seq(Nat)
  PROVE  /\ Increasing(s) => Increasing(Tail(s)) /\ \A k \in 1..Len(Tail(s)) : s[1] < Tail(s)[k]
         /\ AllBelow(r, s) => AllBelow(r, Tail(s)) /\ \A k \in 1..Len(r) : r[k] < s[1]
         /\ AllBelow(s, r) => AllBelow(Tail(s), r) /\ \A k \in 1..Len(r) : s[1] < r[k]
<1> DEFINE a == Tail(s)
<1>1. /\ Len(s) \in Nat \ {0} /\ Len(a) = Len(s) - 1
      /\ \A k \in 1..Len(a) : k + 1 \in 1..Len(s) /\ a[k] = s[k + 1]
      /\ 1 \in 1..Len(s)
  BY Taken
<1> HIDE DEF a
<1>2. ASSUME Increasing(s)
      PROVE  Increasing(a) /\ \A k \in 1..Len(a) : s[1] < a[k]
  <2>1. ASSUME NEW j \in 1..Len(a), NEW k \in 1..Len(a), j < k
        PROVE  a[j] < a[k]
    <3>1. j + 1 \in 1..Len(s) /\ k + 1 \in 1..Len(s) /\ j + 1 < k + 1
      BY <1>1, <2>1
    <3>. QED
      BY <1>1, <1>2, <3>1, ZenonT(30) DEF Increasing
  <2>2. ASSUME NEW k \in 1..Len(a)
        PROVE  s[1] < a[k]
    <3>1. k + 1 \in 1..Len(s) /\ 1 < k + 1 /\ a[k] = s[k + 1]
      BY <1>1
    <3>. QED
      BY <1>1, <1>2, <3>1 DEF Increasing
  <2>. QED
    BY <2>1, <2>2 DEF Increasing
<1>3. AllBelow(r, s) => AllBelow(r, a) /\ \A k \in 1..Len(r) : r[k] < s[1]
  BY <1>1, ZenonT(30) DEF AllBelow
<1>4. AllBelow(s, r) => AllBelow(a, r) /\ \A k \in 1..Len(r) : s[1] < r[k]
  BY <1>1, ZenonT(30) DEF AllBelow
<1>. QED
  BY <1>2, <1>3, <1>4 DEF a

\* A batch is in order and before what is left in the store.
LEMMA SplitOrdered ==
  ASSUME NEW s \in Seq(Nat), NEW size \in 0..Len(s), NEW r \in Seq(Nat), Increasing(s)
  PROVE  /\ Increasing(SubSeq(s, 1, size)) /\ Increasing(SubSeq(s, size + 1, Len(s)))
         /\ AllBelow(SubSeq(s, 1, size), SubSeq(s, size + 1, Len(s)))
         /\ AllBelow(r, s) => /\ AllBelow(r, SubSeq(s, 1, size))
                              /\ AllBelow(r, SubSeq(s, size + 1, Len(s)))
<1> DEFINE a == SubSeq(s, 1, size)
           b == SubSeq(s, size + 1, Len(s))
<1>0. size \in Nat /\ Len(s) \in Nat /\ size <= Len(s)
  OBVIOUS
<1>1. /\ Len(a) = size /\ Len(b) = Len(s) - size
      /\ \A k \in 1..size : k \in 1..Len(s) /\ a[k] = s[k]
      /\ \A k \in 1..(Len(s) - size) : k + size \in 1..Len(s) /\ b[k] = s[k + size]
  BY Split, ZenonT(30)
<1> HIDE DEF a, b
<1>2. Increasing(a)
  BY <1>0, <1>1 DEF Increasing
<1>3. Increasing(b)
  <2>1. ASSUME NEW j \in 1..Len(b), NEW k \in 1..Len(b), j < k
        PROVE  b[j] < b[k]
    <3>1. /\ j + size \in 1..Len(s) /\ k + size \in 1..Len(s) /\ j + size < k + size
          /\ b[j] = s[j + size] /\ b[k] = s[k + size]
      BY <1>0, <1>1, <2>1
    <3>. QED
      BY <3>1 DEF Increasing
  <2>. QED
    BY <2>1 DEF Increasing
<1>4. AllBelow(a, b)
  <2>1. ASSUME NEW j \in 1..Len(a), NEW k \in 1..Len(b)
        PROVE  a[j] < b[k]
    <3>1. j \in 1..Len(s) /\ a[j] = s[j]
      BY <1>1
    <3>2. k + size \in 1..Len(s) /\ b[k] = s[k + size]
      BY <1>1
    <3>3. j < k + size
      BY <1>0, <1>1
    <3>. QED
      BY <3>1, <3>2, <3>3 DEF Increasing
  <2>. QED
    BY <2>1 DEF AllBelow
<1>5. AllBelow(r, s) => AllBelow(r, a) /\ AllBelow(r, b)
  BY <1>0, <1>1, ZenonT(30) DEF AllBelow
<1>. QED
  BY <1>2, <1>3, <1>4, <1>5 DEF a, b

\* What is stored, forwarded and given are results: numbers.
LEMMA Numbers ==
  ASSUME ControlInv
  PROVE  /\ seen.given \in Seq(Nat) /\ seen.dropped \subseteq Nat /\ lm.sent \in Nat
         /\ Len(seen.given) \in Nat /\ Len(store) \in Nat
         /\ \A k \in 1..Len(seen.given) : seen.given[k] \in Nat
         /\ \A k \in 1..Len(store) : store[k] \in Nat
         /\ \A t \in Thread :
              /\ thread[t].batch \in Seq(Nat) /\ Len(thread[t].batch) \in Nat
              /\ \A k \in 1..Len(thread[t].batch) : thread[t].batch[k] \in Nat
<1>1. /\ seen \in [given : Seq(Nat), dropped : SUBSET Nat]
      /\ store \in Seq(Nat) /\ lm \in [sent : Nat, notifies : BOOLEAN]
      /\ thread \in [Thread -> ThreadState]
  BY DEF ControlInv, ControlTypeOK
<1>2. \A s \in Seq(Nat) : Len(s) \in Nat /\ \A k \in 1..Len(s) : s[k] \in Nat
  OBVIOUS
<1>3. \A t \in Thread : thread[t].batch \in Seq(Nat)
  BY <1>1 DEF ThreadState
<1>4. seen.given \in Seq(Nat) /\ seen.dropped \subseteq Nat /\ lm.sent \in Nat
  BY <1>1
<1>. QED
  BY <1>1, <1>2, <1>3, <1>4

\* Thread u becomes e and no other thread changes.
LEMMA ThreadBecomes ==
  ASSUME thread \in [Thread -> ThreadState], NEW u \in Thread, NEW e \in ThreadState,
         thread' = [thread EXCEPT ![u] = e]
  PROVE  /\ thread' \in [Thread -> ThreadState]
         /\ thread'[u] = e
         /\ \A t \in Thread : t # u => thread'[t] = thread[t]
  OBVIOUS

\* Thread u moves to pc; it keeps its batch and what it has to go back to.
Moved(u, pc) ==
  /\ thread' \in [Thread -> ThreadState]
  /\ \A t \in Thread : t # u => thread'[t] = thread[t]
  /\ thread'[u].pc = pc
  /\ thread'[u].back = thread[u].back
  /\ thread'[u].batch = thread[u].batch
  /\ thread'[u].size = thread[u].size
  /\ thread'[u].copied = thread[u].copied

\* What a step of a thread that changes nothing but its place does.
LEMMA Moves ==
  ASSUME ControlInv, NEW u \in Thread, NEW pc \in Pc, MoveTo(u, pc)
  PROVE  Moved(u, pc)
<1>0. thread \in [Thread -> ThreadState]
  BY DEF ControlInv, ControlTypeOK
<1> DEFINE e == [thread[u] EXCEPT !.pc = pc]
<1>1. /\ e \in ThreadState
      /\ e.pc = pc /\ e.back = thread[u].back /\ e.batch = thread[u].batch
      /\ e.size = thread[u].size /\ e.copied = thread[u].copied
  BY <1>0, ZenonT(30) DEF ThreadState
<1>2. thread' = [thread EXCEPT ![u] = e]
  BY <1>0 DEF MoveTo
<1> HIDE DEF e
<1>. QED
  BY <1>0, <1>1, <1>2, ThreadBecomes DEF Moved

\* sample_processing_mutex_ is locked and the callback copied.
LEMMA Locks ==
  ASSUME ControlInv, NEW u \in Thread, StartReading(u)
  PROVE  /\ thread' \in [Thread -> ThreadState]
         /\ \A t \in Thread : t # u => thread'[t] = thread[t]
         /\ thread'[u].pc = "reading" /\ thread'[u].back = "forwarding"
         /\ thread'[u].batch = <<>> /\ thread'[u].copied = callback
<1> DEFINE e == [At("reading") EXCEPT !.back = "forwarding", !.copied = callback]
<1>1. callback \in BOOLEAN /\ <<>> \in Seq(Nat)
  BY DEF ControlInv, ControlTypeOK
<1>2. /\ e.pc = "reading" /\ e.back = "forwarding"
      /\ e.batch = <<>> /\ e.copied = callback
  BY DEF At
<1>3. e \in ThreadState
  BY <1>1, ZenonT(30) DEF At, ThreadState, Pc
<1>4. thread' = [thread EXCEPT ![u] = e]
  BY DEF StartReading
<1> HIDE DEF e
<1>. QED
  BY <1>2, <1>3, <1>4, ThreadBecomes DEF ControlInv, ControlTypeOK

\* sample_processing_mutex_ is unlocked.
LEMMA Leaves ==
  ASSUME ControlInv, NEW u \in Thread, thread' = [thread EXCEPT ![u] = At("idle")]
  PROVE  /\ thread' \in [Thread -> ThreadState]
         /\ \A t \in Thread : t # u => thread'[t] = thread[t]
         /\ thread'[u].pc = "idle" /\ thread'[u].back = "idle"
         /\ thread'[u].batch = <<>>
<1> DEFINE e == At("idle")
<1>1. e \in ThreadState /\ e.pc = "idle" /\ e.back = "idle" /\ e.batch = <<>>
  BY DEF At, ThreadState, Pc
<1>2. thread' = [thread EXCEPT ![u] = e] /\ thread \in [Thread -> ThreadState]
  BY DEF ControlInv, ControlTypeOK
<1> HIDE DEF e
<1>. QED
  BY <1>1, <1>2, ThreadBecomes

\* One call of GetNewSamples(): the batch is the beginning of the store, and when it is
\* not full the store is empty.
LEMMA Reads ==
  ASSUME ControlInv, NEW u \in Thread, ReadBatch(u)
  PROVE  /\ thread' \in [Thread -> ThreadState] /\ store' \in Seq(Nat)
         /\ \A t \in Thread : t # u => thread'[t] = thread[t]
         /\ thread[u].pc = "reading" /\ thread'[u].pc = "forwarding"
         /\ thread'[u].back = thread[u].back /\ thread'[u].copied = thread[u].copied
         /\ store' # <<>> => thread'[u].size = SampleCount
         /\ \E size \in 0..Len(store) :
              /\ thread'[u].batch = SubSeq(store, 1, size)
              /\ store' = SubSeq(store, size + 1, Len(store))
         /\ UNCHANGED <<mutex, sampling, proxy, callback, link, lm, dispatch, seen, history>>
<1> DEFINE size == IF Len(store) < SampleCount THEN Len(store) ELSE SampleCount
           e == [thread[u] EXCEPT !.pc = "forwarding", !.size = size,
                                  !.batch = SubSeq(store, 1, size)]
<1>1. store \in Seq(Nat) /\ thread \in [Thread -> ThreadState] /\ Len(store) \in Nat
  BY DEF ControlInv, ControlTypeOK
<1>2. size \in 0..Len(store) /\ size \in Nat
  BY <1>1, LmControlAssumption
<1>3. Len(store) - size > 0 => size = SampleCount
  BY <1>1
<1>4. /\ thread[u].pc = "reading"
      /\ thread' = [thread EXCEPT ![u] = e]
      /\ store' = SubSeq(store, size + 1, Len(store))
  BY DEF ReadBatch
<1> HIDE DEF size
<1>5. SubSeq(store, 1, size) \in Seq(Nat)
  BY <1>1, <1>2, Split
<1>6. /\ e \in ThreadState
      /\ e.pc = "forwarding" /\ e.back = thread[u].back
      /\ e.copied = thread[u].copied /\ e.size = size
      /\ e.batch = SubSeq(store, 1, size)
  BY <1>1, <1>2, <1>5, ZenonT(30) DEF ThreadState, Pc
<1> HIDE DEF e
<1>7. /\ thread' \in [Thread -> ThreadState] /\ thread'[u] = e
      /\ \A t \in Thread : t # u => thread'[t] = thread[t]
  BY <1>1, <1>4, <1>6, ThreadBecomes
<1>8. store' \in Seq(Nat) /\ Len(store') = Len(store) - size
  BY <1>1, <1>2, <1>4, Split
<1>9. store' # <<>> => size = SampleCount
  <2>1. store' # <<>> => Len(store') > 0
    BY <1>8
  <2>. QED
    BY <2>1, <1>3, <1>8
<1>10. UNCHANGED <<mutex, sampling, proxy, callback, link, lm, dispatch, seen, history>>
  BY DEF ReadBatch
<1>. QED
  BY <1>2, <1>4, <1>6, <1>7, <1>8, <1>9, <1>10

\* forwardSample(): the first result of the batch is given to the callback or dropped.
LEMMA Forwards ==
  ASSUME ControlInv, NEW u \in Thread, Forward(u)
  PROVE  /\ thread' \in [Thread -> ThreadState]
         /\ \A t \in Thread : t # u => thread'[t] = thread[t]
         /\ thread[u].pc = "forwarding"
         /\ thread'[u].pc \in {"forwarding", "calling", "locking"}
         /\ thread'[u].back = thread[u].back /\ thread'[u].copied = thread[u].copied
         /\ thread'[u].size = thread[u].size
         /\ thread[u].batch # <<>> /\ thread'[u].batch = Tail(thread[u].batch)
         /\ \/ /\ ~thread[u].copied /\ seen'.given = seen.given
               /\ seen'.dropped = seen.dropped \cup {Head(thread[u].batch)}
            \/ /\ thread[u].copied /\ seen'.dropped = seen.dropped
               /\ seen'.given = Append(seen.given, Head(thread[u].batch))
         /\ seen' \in [given : Seq(Nat), dropped : SUBSET Nat]
         /\ UNCHANGED <<mutex, sampling, proxy, callback, link, lm, store, dispatch,
                        history>>
<1>1. /\ thread \in [Thread -> ThreadState] /\ thread[u] \in ThreadState
      /\ seen \in [given : Seq(Nat), dropped : SUBSET Nat]
  BY DEF ControlInv, ControlTypeOK
<1>2. thread[u].pc = "forwarding" /\ thread[u].batch # <<>>
  BY DEF Forward
<1>3. thread[u].batch \in Seq(Nat)
  BY <1>1 DEF ThreadState
<1>4. Tail(thread[u].batch) \in Seq(Nat) /\ Head(thread[u].batch) \in Nat
  BY <1>2, <1>3, Taken
<1>5. PICK pc \in {"forwarding", "calling", "locking"} :
        thread' = [thread EXCEPT ![u] =
                     [thread[u] EXCEPT !.pc = pc, !.batch = Tail(thread[u].batch)]]
  <2>1. CASE thread' = [thread EXCEPT ![u].batch = Tail(thread[u].batch)]
    <3>1. [thread[u] EXCEPT !.batch = Tail(thread[u].batch)] =
            [thread[u] EXCEPT !.pc = "forwarding", !.batch = Tail(thread[u].batch)]
      BY <1>1, <1>2, ZenonT(30) DEF ThreadState
    <3>2. thread' = [thread EXCEPT ![u] = [thread[u] EXCEPT !.batch = Tail(thread[u].batch)]]
      BY <2>1
    <3>. QED
      BY <3>1, <3>2, ZenonT(30)
  <2>2. CASE \E pc \in {"forwarding", "calling", "locking"} :
               thread' = [thread EXCEPT ![u] =
                            [@ EXCEPT !.pc = pc, !.batch = Tail(thread[u].batch)]]
    BY <2>2, ZenonT(30)
  <2>. QED
    BY <2>1, <2>2 DEF Forward
<1> DEFINE e == [thread[u] EXCEPT !.pc = pc, !.batch = Tail(thread[u].batch)]
<1>6. /\ e \in ThreadState
      /\ e.pc = pc /\ e.back = thread[u].back /\ e.copied = thread[u].copied
      /\ e.size = thread[u].size /\ e.batch = Tail(thread[u].batch)
  BY <1>1, <1>4, ZenonT(30) DEF ThreadState, Pc
<1>7. thread' = [thread EXCEPT ![u] = e]
  BY <1>5
<1> HIDE DEF e
<1>8. /\ thread' \in [Thread -> ThreadState] /\ thread'[u] = e
      /\ \A t \in Thread : t # u => thread'[t] = thread[t]
  BY <1>1, <1>6, <1>7, ThreadBecomes
<1>9. /\ \/ /\ ~thread[u].copied /\ seen'.given = seen.given
            /\ seen'.dropped = seen.dropped \cup {Head(thread[u].batch)}
         \/ /\ thread[u].copied /\ seen'.dropped = seen.dropped
            /\ seen'.given = Append(seen.given, Head(thread[u].batch))
      /\ seen' \in [given : Seq(Nat), dropped : SUBSET Nat]
  <2>1. CASE /\ ~thread[u].copied
             /\ seen' = [seen EXCEPT !.dropped = @ \cup {Head(thread[u].batch)}]
    BY <2>1, <1>1, <1>4, ZenonT(30)
  <2>2. CASE /\ thread[u].copied
             /\ seen' = [seen EXCEPT !.given = Append(@, Head(thread[u].batch))]
    <3>1. Append(seen.given, Head(thread[u].batch)) \in Seq(Nat)
      BY <1>1, <1>4, Appended
    <3>. QED
      BY <2>2, <3>1, <1>1, ZenonT(30)
  <2>. QED
    BY <2>1, <2>2 DEF Forward
<1>10. UNCHANGED <<mutex, sampling, proxy, callback, link, lm, store, dispatch, history>>
  BY DEF Forward
<1>. QED
  BY <1>2, <1>6, <1>8, <1>9, <1>10

\* The Launch Manager answers a call: its thread goes on where it was.
LEMMA Answers ==
  ASSUME ControlInv, HandleMessage, Head(link).kind = "call"
  PROVE  \E u \in Thread :
           /\ link[1].by = u
           /\ thread[u].pc \in {"confirming", "called"}
           /\ MoveTo(u, IF thread[u].pc = "confirming" THEN "idle" ELSE thread[u].back)
           /\ lm' = lm
           /\ history' = [history EXCEPT !.confirmed = @ \/ thread[u].pc = "confirming"]
<1>1. link \in Seq(Message) /\ link # <<>>
  BY DEF HandleMessage, ControlInv, ControlTypeOK
<1>2. Head(link) = link[1] /\ 1 \in 1..Len(link)
  BY <1>1, Taken
<1> DEFINE u == link[1].by
<1>3. u \in Thread /\ thread[u].pc \in {"confirming", "called"}
  BY <1>2 DEF ControlInv, LinkInv
<1>4. /\ lm' = lm
      /\ history' = [history EXCEPT !.confirmed = @ \/ thread[u].pc = "confirming"]
      /\ thread' = [thread EXCEPT ![u].pc = IF @ = "confirming" THEN "idle"
                                            ELSE thread[u].back]
  BY <1>2 DEF HandleMessage
<1>5. MoveTo(u, IF thread[u].pc = "confirming" THEN "idle" ELSE thread[u].back)
  BY <1>3, <1>4 DEF MoveTo, ControlInv, ControlTypeOK
<1>. QED
  BY <1>3, <1>4, <1>5, ZenonT(30)

\* What the end of onActivationResult() means for the history of the application.
LEMMA Finishes ==
  ASSUME ControlInv, NEW u \in Thread
  PROVE  /\ Finished(u) \in [confirmed : BOOLEAN, drained : BOOLEAN,
                             registered : Nat \cup {-1}, failed : BOOLEAN]
         /\ Finished(u).confirmed = history.confirmed
         /\ Finished(u).failed = history.failed
         /\ Finished(u).registered = IF u = App /\ history.registered = -1 THEN lm.sent
                                     ELSE history.registered
         /\ Finished(u).drained <=> \/ history.drained
                                    \/ u = App /\ history.confirmed /\ ~history.failed
<1>1. CASE u = App
  BY <1>1, ZenonT(30) DEF ControlInv, ControlTypeOK, Finished, Registered
<1>2. CASE u # App
  BY <1>2 DEF ControlInv, ControlTypeOK, Finished
<1>. QED
  BY <1>1, <1>2

-----------------------------------------------------------------------------
(* Every step keeps the invariant. *)

\* onServiceFound() creates the proxy.
LEMMA ServiceFoundKeeps ==
  ASSUME ControlInv, ServiceFound
  PROVE  ControlInv'
<1>1. /\ mutex = NoThread /\ ~proxy /\ App \in Thread /\ thread[App].pc # "gone"
      /\ mutex' = Discovery /\ proxy' = TRUE /\ Discovery # NoThread
      /\ UNCHANGED <<sampling, callback, thread, link, lm, store, dispatch, seen,
                     history>>
  BY LmControlAssumption DEF ServiceFound, Thread
<1>2. ControlTypeOK'
  BY <1>1 DEF ControlInv, ControlTypeOK
<1>3. ThreadInv'
  BY <1>1 DEF ControlInv, ThreadInv, Inside
<1>4. LinkInv'
  BY <1>1 DEF ControlInv, LinkInv
<1>5. UpInv'
  BY <1>1 DEF ControlInv, UpInv, Up, Inside
<1>6. OrderInv'
  BY <1>1 DEF ControlInv, OrderInv
<1>7. CallbackInv'
  BY <1>1 DEF ControlInv, CallbackInv, Inside
<1>8. UnreadInv'
  BY <1>1 DEF ControlInv, UnreadInv, Covered, WillRead, Inside
<1>. QED
  BY <1>2, <1>3, <1>4, <1>5, <1>6, <1>7, <1>8 DEF ControlInv

\* The registration of the receive handler is the first message.
LEMMA SetReceiveHandlerKeeps ==
  ASSUME ControlInv, SetReceiveHandler
  PROVE  ControlInv'
<1>1. /\ mutex = Discovery /\ Discovery # NoThread
      /\ link' = Append(link, HandlerMessage) /\ mutex' = NoThread
      /\ UNCHANGED <<sampling, proxy, callback, thread, lm, store, dispatch,
                     seen, history>>
  BY LmControlAssumption DEF SetReceiveHandler
<1>2. /\ link = <<>> /\ link \in Seq(Message) /\ HandlerMessage \in Message
      /\ HandlerMessage.kind = "handler"
  BY <1>1 DEF ControlInv, ControlTypeOK, UpInv, Up, HandlerMessage, Message
<1>3. /\ link' \in Seq(Message) /\ link' # <<>>
      /\ Len(link') = 1 /\ link'[1].kind = "handler"
  BY <1>1, <1>2
<1>4. ControlTypeOK'
  BY <1>1, <1>2, <1>3 DEF ControlInv, ControlTypeOK
<1>5. ThreadInv'
  BY <1>1, <1>2, <1>3 DEF ControlInv, ThreadInv, Inside
<1>6. LinkInv'
  BY <1>1, <1>2, <1>3 DEF ControlInv, LinkInv
<1>7. UpInv'
  BY <1>1, <1>2, <1>3 DEF ControlInv, UpInv, Up, Inside
<1>8. OrderInv'
  BY <1>1, <1>2, <1>3 DEF ControlInv, OrderInv
<1>9. CallbackInv'
  BY <1>1, <1>2, <1>3 DEF ControlInv, CallbackInv, Inside
<1>10. UnreadInv'
  BY <1>1, <1>2, <1>3 DEF ControlInv, UnreadInv, Covered, WillRead, Inside
<1>. QED
  BY <1>4, <1>5, <1>6, <1>7, <1>8, <1>9, <1>10 DEF ControlInv

\* The proxy is given up before anything has used it.
LEMMA SetReceiveHandlerFailsKeeps ==
  ASSUME ControlInv, SetReceiveHandlerFails
  PROVE  ControlInv'
<1>1. /\ mutex = Discovery /\ Discovery # NoThread
      /\ proxy' = FALSE /\ store' = <<>> /\ mutex' = NoThread
      /\ App \in Thread
      /\ UNCHANGED <<sampling, callback, thread, link, lm, dispatch, seen, history>>
  BY LmControlAssumption DEF SetReceiveHandlerFails, Thread
<1>2. <<>> \in Seq(Nat)
  OBVIOUS
<1>3. ControlTypeOK'
  BY <1>1, <1>2, ZenonT(30) DEF ControlInv, ControlTypeOK
<1>4. ThreadInv'
  BY <1>1, <1>2 DEF ControlInv, ThreadInv, Inside
<1>5. LinkInv'
  BY <1>1, <1>2 DEF ControlInv, LinkInv
<1>6. UpInv'
  BY <1>1, <1>2 DEF ControlInv, UpInv, Up, Inside
<1>7. OrderInv'
  BY <1>1, <1>2 DEF ControlInv, OrderInv, Increasing, AllBelow
<1>8. CallbackInv'
  BY <1>1, <1>2 DEF ControlInv, CallbackInv, Inside
<1>9. UnreadInv'
  BY <1>1, <1>2 DEF ControlInv, UnreadInv, Covered, WillRead, Inside
<1>. QED
  BY <1>3, <1>4, <1>5, <1>6, <1>7, <1>8, <1>9 DEF ControlInv

\* A result is sent.
LEMMA SendResultKeeps ==
  ASSUME ControlInv, SendResult
  PROVE  ControlInv'
<1>1. /\ lm.sent \in Nat /\ store \in Seq(Nat) /\ dispatch \in Nat
      /\ lm \in [sent : Nat, notifies : BOOLEAN]
  BY DEF ControlInv, ControlTypeOK
<1>2. /\ lm' = [lm EXCEPT !.sent = @ + 1]
      /\ store' = IF proxy THEN Append(store, lm.sent + 1) ELSE store
      /\ dispatch' = IF lm.notifies THEN dispatch + 1 ELSE dispatch
      /\ UNCHANGED <<mutex, sampling, proxy, callback, thread, link, seen, history>>
  BY DEF SendResult
<1>3. /\ lm' \in [sent : Nat, notifies : BOOLEAN]
      /\ lm'.sent = lm.sent + 1 /\ lm'.notifies = lm.notifies
  BY <1>1, <1>2
<1>4. /\ store' \in Seq(Nat) /\ dispatch' \in Nat /\ (lm.notifies => dispatch' > 0)
      /\ dispatch' >= dispatch /\ (~proxy => store' = store)
      /\ \A k \in 1..Len(store') :
           \/ k \in 1..Len(store) /\ store'[k] = store[k]
           \/ k = Len(store) + 1 /\ store'[k] = lm.sent + 1
  BY <1>1, <1>2
<1>5. ControlTypeOK'
  BY <1>1, <1>2, <1>3, <1>4 DEF ControlInv, ControlTypeOK
<1>6. ThreadInv'
  BY <1>1, <1>2, <1>3, <1>4 DEF ControlInv, ThreadInv, Inside
<1>7. LinkInv'
  BY <1>1, <1>2, <1>3, <1>4 DEF ControlInv, LinkInv
<1>8. UpInv'
  BY <1>1, <1>2, <1>3, <1>4 DEF ControlInv, UpInv, Up, Inside
<1>9. OrderInv'
  <2>1. lm.sent + 1 \in Nat /\ \A n \in Nat : n <= lm.sent => n < lm.sent + 1 /\ n <= lm'.sent
    BY <1>1, <1>2, <1>3, <1>4
  <2>2. Increasing(store') /\ AllBelow(seen.given, store')
    BY <1>1, <1>2, <1>3, <1>4, <2>1, Numbers, AppendOrdered, ZenonT(30) DEF ControlInv, OrderInv
  <2>3. \A k \in 1..Len(store') : store'[k] <= lm'.sent
    BY <1>1, <1>2, <1>3, <1>4, Numbers DEF ControlInv, OrderInv
  <2>4. ASSUME NEW t \in Thread
        PROVE  AllBelow(thread[t].batch, store')
    BY <1>1, <1>2, <1>3, <1>4, <2>1, Numbers, AppendOrdered, ZenonT(30) DEF ControlInv, OrderInv
  <2>. QED
    BY <1>1, <1>2, <1>3, <1>4, <2>1, <2>2, <2>3, <2>4, Numbers, ZenonT(30) DEF ControlInv, OrderInv
<1>10. CallbackInv'
  BY <1>1, <1>2, <1>3, <1>4 DEF ControlInv, CallbackInv, Inside
<1>11. UnreadInv'
  BY <1>1, <1>2, <1>3, <1>4 DEF ControlInv, UnreadInv, UpInv, Covered, WillRead, Inside
<1>. QED
  BY <1>5, <1>6, <1>7, <1>8, <1>9, <1>10, <1>11 DEF ControlInv

\* The callback is stored.
LEMMA RegisterCallbackKeeps ==
  ASSUME ControlInv, RegisterCallback
  PROVE  ControlInv'
<1>1. /\ App \in Thread /\ thread[App].pc = "idle"
      /\ callback' = TRUE
      /\ UNCHANGED <<mutex, sampling, proxy, link, lm, store, dispatch, seen,
                     history>>
  BY DEF RegisterCallback, Thread
<1>2. Moved(App, "registered")
  BY <1>1, Moves DEF RegisterCallback, Pc
<1>3. ControlTypeOK'
  BY <1>1, <1>2 DEF ControlInv, ControlTypeOK, Moved
<1>4. ThreadInv'
  BY <1>1, <1>2 DEF ControlInv, ThreadInv, Moved, Inside
<1>5. LinkInv'
  BY <1>1, <1>2 DEF ControlInv, LinkInv, Moved
<1>6. UpInv'
  BY <1>1, <1>2 DEF ControlInv, UpInv, Moved, Up, Inside
<1>7. OrderInv'
  BY <1>1, <1>2 DEF ControlInv, OrderInv, Moved
<1>8. CallbackInv'
  BY <1>1, <1>2 DEF ControlInv, CallbackInv, Moved, Inside
<1>9. UnreadInv'
  BY <1>1, <1>2 DEF ControlInv, UnreadInv, Moved, Covered, WillRead, Inside
<1>. QED
  BY <1>3, <1>4, <1>5, <1>6, <1>7, <1>8, <1>9 DEF ControlInv

\* The application begins to wait.
LEMMA WaitForConnectionKeeps ==
  ASSUME ControlInv, WaitForConnection
  PROVE  ControlInv'
<1>1. /\ App \in Thread /\ thread[App].pc = "idle"
      /\ UNCHANGED <<mutex, sampling, proxy, callback, link, lm, store, dispatch,
                     seen, history>>
  BY DEF WaitForConnection, Thread
<1>2. Moved(App, "waiting")
  BY <1>1, Moves DEF WaitForConnection, Pc
<1>3. ControlTypeOK'
  BY <1>1, <1>2 DEF ControlInv, ControlTypeOK, Moved
<1>4. ThreadInv'
  BY <1>1, <1>2 DEF ControlInv, ThreadInv, Moved, Inside
<1>5. LinkInv'
  BY <1>1, <1>2 DEF ControlInv, LinkInv, Moved
<1>6. UpInv'
  BY <1>1, <1>2 DEF ControlInv, UpInv, Moved, Up, Inside
<1>7. OrderInv'
  BY <1>1, <1>2 DEF ControlInv, OrderInv, Moved
<1>8. CallbackInv'
  BY <1>1, <1>2 DEF ControlInv, CallbackInv, Moved, Inside
<1>9. UnreadInv'
  BY <1>1, <1>2 DEF ControlInv, UnreadInv, Moved, Covered, WillRead, Inside
<1>. QED
  BY <1>3, <1>4, <1>5, <1>6, <1>7, <1>8, <1>9 DEF ControlInv

\* The wait ends without a connection.
LEMMA WaitTimesOutKeeps ==
  ASSUME ControlInv, WaitTimesOut
  PROVE  ControlInv'
<1>1. /\ App \in Thread /\ thread[App].pc = "waiting"
      /\ UNCHANGED <<mutex, sampling, proxy, callback, link, lm, store, dispatch,
                     seen, history>>
  BY DEF WaitTimesOut, Thread
<1>2. Moved(App, "idle")
  BY <1>1, Moves DEF WaitTimesOut, Pc
<1>3. ControlTypeOK'
  BY <1>1, <1>2 DEF ControlInv, ControlTypeOK, Moved
<1>4. ThreadInv'
  BY <1>1, <1>2 DEF ControlInv, ThreadInv, Moved, Inside
<1>5. LinkInv'
  BY <1>1, <1>2 DEF ControlInv, LinkInv, Moved
<1>6. UpInv'
  BY <1>1, <1>2 DEF ControlInv, UpInv, Moved, Up, Inside
<1>7. OrderInv'
  BY <1>1, <1>2 DEF ControlInv, OrderInv, Moved
<1>8. CallbackInv'
  BY <1>1, <1>2 DEF ControlInv, CallbackInv, Moved, Inside
<1>9. UnreadInv'
  BY <1>1, <1>2 DEF ControlInv, UnreadInv, Moved, Covered, WillRead, Inside
<1>. QED
  BY <1>3, <1>4, <1>5, <1>6, <1>7, <1>8, <1>9 DEF ControlInv

\* The wait ends without a confirmation.
LEMMA ConfirmationFailsKeeps ==
  ASSUME ControlInv, ConfirmationFails
  PROVE  ControlInv'
<1>1. /\ App \in Thread /\ thread[App].pc = "waiting"
      /\ UNCHANGED <<mutex, sampling, proxy, callback, link, lm, store, dispatch,
                     seen, history>>
  BY DEF ConfirmationFails, Thread
<1>2. Moved(App, "idle")
  BY <1>1, Moves DEF ConfirmationFails, Pc
<1>3. ControlTypeOK'
  BY <1>1, <1>2 DEF ControlInv, ControlTypeOK, Moved
<1>4. ThreadInv'
  BY <1>1, <1>2 DEF ControlInv, ThreadInv, Moved, Inside
<1>5. LinkInv'
  BY <1>1, <1>2 DEF ControlInv, LinkInv, Moved
<1>6. UpInv'
  BY <1>1, <1>2 DEF ControlInv, UpInv, Moved, Up, Inside
<1>7. OrderInv'
  BY <1>1, <1>2 DEF ControlInv, OrderInv, Moved
<1>8. CallbackInv'
  BY <1>1, <1>2 DEF ControlInv, CallbackInv, Moved, Inside
<1>9. UnreadInv'
  BY <1>1, <1>2 DEF ControlInv, UnreadInv, Moved, Covered, WillRead, Inside
<1>. QED
  BY <1>3, <1>4, <1>5, <1>6, <1>7, <1>8, <1>9 DEF ControlInv

\* The application calls the Launch Manager.
LEMMA CallKeeps ==
  ASSUME ControlInv, Call
  PROVE  ControlInv'
<1>1. /\ App \in Thread /\ thread[App].pc = "idle"
      /\ UNCHANGED <<mutex, sampling, proxy, callback, link, lm, store, dispatch,
                     seen, history>>
  BY DEF Call, Thread
<1>2. Moved(App, "calling")
  BY <1>1, Moves DEF Call, Pc
<1>3. ControlTypeOK'
  BY <1>1, <1>2 DEF ControlInv, ControlTypeOK, Moved
<1>4. ThreadInv'
  BY <1>1, <1>2 DEF ControlInv, ThreadInv, Moved, Inside
<1>5. LinkInv'
  BY <1>1, <1>2 DEF ControlInv, LinkInv, Moved
<1>6. UpInv'
  BY <1>1, <1>2 DEF ControlInv, UpInv, Moved, Up, Inside
<1>7. OrderInv'
  BY <1>1, <1>2 DEF ControlInv, OrderInv, Moved
<1>8. CallbackInv'
  BY <1>1, <1>2 DEF ControlInv, CallbackInv, Moved, Inside
<1>9. UnreadInv'
  BY <1>1, <1>2 DEF ControlInv, UnreadInv, Moved, Covered, WillRead, Inside
<1>. QED
  BY <1>3, <1>4, <1>5, <1>6, <1>7, <1>8, <1>9 DEF ControlInv

\* The Launch Manager handles the registration of the receive handler.
LEMMA HandleRegistrationKeeps ==
  ASSUME ControlInv, HandleMessage, Head(link).kind = "handler"
  PROVE  ControlInv'
<1>1. /\ link' = Tail(link) /\ link \in Seq(Message) /\ link # <<>>
      /\ lm \in [sent : Nat, notifies : BOOLEAN]
      /\ lm' = [lm EXCEPT !.notifies = TRUE]
      /\ UNCHANGED <<mutex, sampling, proxy, callback, thread, store, dispatch,
                     seen, history>>
  BY DEF HandleMessage, ControlInv, ControlTypeOK
<1>2. /\ link' \in Seq(Message) /\ Len(link) \in Nat \ {0} /\ Len(link') = Len(link) - 1
      /\ \A k \in 1..Len(link') : k + 1 \in 1..Len(link) /\ link'[k] = link[k + 1]
      /\ Head(link) = link[1] /\ 1 \in 1..Len(link)
  BY <1>1, Taken
<1>3. /\ lm' \in [sent : Nat, notifies : BOOLEAN]
      /\ lm'.sent = lm.sent /\ lm'.notifies
  BY <1>1, ZenonT(30)
<1>4. ControlTypeOK'
  BY <1>1, <1>2, <1>3 DEF ControlInv, ControlTypeOK
<1>5. ThreadInv'
  BY <1>1, <1>2, <1>3 DEF ControlInv, ThreadInv, Inside
<1>6. LinkInv'
  <2>1. \A k \in 1..Len(link') :
          link'[k].kind = "call" =>
            link'[k].by \in Thread /\ thread'[link'[k].by].pc \in {"confirming", "called"}
    BY <1>1, <1>2, <1>3 DEF ControlInv, LinkInv
  <2>2. ASSUME NEW j \in 1..Len(link'), NEW k \in 1..Len(link'),
               link'[j].kind = "call", link'[k].kind = "call", link'[j].by = link'[k].by
        PROVE  j = k
    <3>1. j + 1 \in 1..Len(link) /\ k + 1 \in 1..Len(link)
      BY <1>1, <1>2, <1>3
    <3>2. j + 1 = k + 1
      BY <1>1, <1>2, <1>3, <2>2, <3>1 DEF ControlInv, LinkInv
    <3>. QED
      BY <3>2
  <2>. QED
    BY <2>1, <2>2 DEF LinkInv
<1>7. UpInv'
  BY <1>1, <1>2, <1>3 DEF ControlInv, UpInv, Up, Inside
<1>8. OrderInv'
  BY <1>1, <1>2, <1>3 DEF ControlInv, OrderInv
<1>9. CallbackInv'
  BY <1>1, <1>2, <1>3 DEF ControlInv, CallbackInv, Inside
<1>10. UnreadInv'
  BY <1>1, <1>2, <1>3 DEF ControlInv, UnreadInv, Covered, WillRead, Inside
<1>. QED
  BY <1>4, <1>5, <1>6, <1>7, <1>8, <1>9, <1>10 DEF ControlInv

\* The Launch Manager answers a call.
LEMMA HandleCallKeeps ==
  ASSUME ControlInv, HandleMessage, Head(link).kind = "call"
  PROVE  ControlInv'
<1>1. /\ link' = Tail(link) /\ link \in Seq(Message) /\ link # <<>>
      /\ UNCHANGED <<mutex, sampling, proxy, callback, lm, store, dispatch, seen>>
  BY DEF HandleMessage, ControlInv, ControlTypeOK
<1>2. /\ link' \in Seq(Message) /\ Len(link) \in Nat \ {0} /\ Len(link') = Len(link) - 1
      /\ \A k \in 1..Len(link') : k + 1 \in 1..Len(link) /\ link'[k] = link[k + 1]
      /\ Head(link) = link[1] /\ 1 \in 1..Len(link)
  BY <1>1, Taken
<1>3. PICK u \in Thread :
        /\ link[1].by = u
        /\ thread[u].pc \in {"confirming", "called"}
        /\ MoveTo(u, IF thread[u].pc = "confirming" THEN "idle" ELSE thread[u].back)
        /\ lm' = lm
        /\ history' = [history EXCEPT !.confirmed = @ \/ thread[u].pc = "confirming"]
  BY Answers
<1>4. thread[u].back \in {"idle", "forwarding"}
  BY DEF ControlInv, ControlTypeOK, ThreadState
<1>5. Moved(u, IF thread[u].pc = "confirming" THEN "idle" ELSE thread[u].back)
  BY <1>3, <1>4, Moves DEF Pc
<1>6. /\ history' \in [confirmed : BOOLEAN, drained : BOOLEAN, registered : Nat \cup {-1},
                     failed : BOOLEAN]
      /\ history'.confirmed = (history.confirmed \/ thread[u].pc = "confirming")
      /\ history'.drained = history.drained /\ history'.failed = history.failed
      /\ history'.registered = history.registered
  BY <1>3, ZenonT(30) DEF ControlInv, ControlTypeOK
<1>7. lm.notifies /\ link[1].kind = "call" /\ Up /\ App \in Thread
  BY <1>1, <1>2 DEF ControlInv, UpInv, Thread
<1>8. /\ thread' \in [Thread -> ThreadState]
      /\ \A t \in Thread : t # u => thread'[t] = thread[t]
      /\ thread'[u].pc \in {"idle", "forwarding"}
      /\ (thread'[u].pc = "idle" <=> thread'[u].back = "idle")
      /\ thread'[u].back = thread[u].back /\ thread'[u].batch = thread[u].batch
      /\ thread'[u].size = thread[u].size /\ thread'[u].copied = thread[u].copied
      /\ (thread[u].pc = "confirming" => u = App /\ ~Inside(u))
  BY <1>3, <1>4, <1>5 DEF Moved, ControlInv, ThreadInv, Inside
<1>9. ControlTypeOK'
  BY <1>1, <1>2, <1>3, <1>4, <1>5, <1>6, <1>7, <1>8 DEF ControlInv, ControlTypeOK, Moved
<1>10. ThreadInv'
  BY <1>1, <1>2, <1>3, <1>4, <1>5, <1>6, <1>7, <1>8 DEF ControlInv, ThreadInv, Moved,
     Inside
<1>11. LinkInv'
  <2>1. ASSUME NEW k \in 1..Len(link'), link'[k].kind = "call"
        PROVE  link'[k].by \in Thread /\ thread'[link'[k].by].pc \in {"confirming", "called"}
    <3>1. k + 1 \in 1..Len(link) /\ k + 1 # 1 /\ link'[k] = link[k + 1]
      BY <1>2
    <3>2. link[k + 1].by # u
      BY <1>2, <1>3, <1>7, <2>1, <3>1 DEF ControlInv, LinkInv
    <3>. QED
      BY <1>5, <2>1, <3>1, <3>2 DEF ControlInv, LinkInv, Moved
  <2>2. ASSUME NEW j \in 1..Len(link'), NEW k \in 1..Len(link'),
               link'[j].kind = "call", link'[k].kind = "call", link'[j].by = link'[k].by
        PROVE  j = k
    <3>1. j + 1 \in 1..Len(link) /\ k + 1 \in 1..Len(link)
      BY <1>2
    <3>2. j + 1 = k + 1
      BY <1>2, <2>2, <3>1, SMTT(30) DEF ControlInv, LinkInv
    <3>. QED
      BY <3>2
  <2>. QED
    BY <2>1, <2>2 DEF LinkInv
<1>12. UpInv'
  BY <1>1, <1>2, <1>3, <1>7, <1>8 DEF ControlInv, UpInv, Up, Inside
<1>13. OrderInv'
  BY <1>1, <1>2, <1>3, <1>4, <1>5, <1>6, <1>7, <1>8 DEF ControlInv, OrderInv, Moved
<1>14. CallbackInv'
  BY <1>1, <1>3, <1>6, <1>7, <1>8, SMTT(30) DEF ControlInv, CallbackInv, Inside
<1>15. UnreadInv'
  <2>1. Covered' => Covered
    BY <1>1, <1>3, <1>6, <1>7, <1>8 DEF Covered, Inside
  <2>2. \A t \in Thread : WillRead(t) => WillRead(t)'
    BY <1>3, <1>8 DEF WillRead, Inside
  <2>. QED
    BY <1>1, <1>3, <1>6, <1>7, <2>1, <2>2 DEF ControlInv, UnreadInv
<1>. QED
  BY <1>9, <1>10, <1>11, <1>12, <1>13, <1>14, <1>15 DEF ControlInv

\* The Launch Manager handles a message.
LEMMA HandleMessageKeeps ==
  ASSUME ControlInv, HandleMessage
  PROVE  ControlInv'
<1>1. Head(link).kind = "handler" \/ Head(link).kind = "call"
  BY DEF HandleMessage
<1>. QED
  BY <1>1, HandleRegistrationKeeps, HandleCallKeeps

\* A callback is registered and there is a connection: the results are read.
LEMMA DrainKeeps ==
  ASSUME ControlInv, DrainIfConnected, proxy
  PROVE  ControlInv'
<1>1. /\ App \in Thread /\ thread[App].pc = "registered" /\ mutex = NoThread
      /\ UNCHANGED <<mutex, sampling, proxy, callback, link, lm, store, dispatch,
                     seen, history>>
  BY DEF DrainIfConnected, Thread
<1>2. Moved(App, "locking")
  BY <1>1, Moves DEF DrainIfConnected, Pc
<1>3. ControlTypeOK'
  BY <1>1, <1>2 DEF ControlInv, ControlTypeOK, Moved
<1>4. ThreadInv'
  BY <1>1, <1>2 DEF ControlInv, ThreadInv, Moved, Inside
<1>5. LinkInv'
  BY <1>1, <1>2 DEF ControlInv, LinkInv, Moved
<1>6. UpInv'
  BY <1>1, <1>2 DEF ControlInv, UpInv, Moved, Up, Inside
<1>7. OrderInv'
  BY <1>1, <1>2 DEF ControlInv, OrderInv, Moved
<1>8. CallbackInv'
  BY <1>1, <1>2 DEF ControlInv, CallbackInv, Moved, Inside
<1>9. UnreadInv'
  BY <1>1, <1>2 DEF ControlInv, UnreadInv, Moved, Covered, WillRead, Inside
<1>. QED
  BY <1>3, <1>4, <1>5, <1>6, <1>7, <1>8, <1>9 DEF ControlInv

\* A callback is registered and there is no connection.
LEMMA RegisterUnconnectedKeeps ==
  ASSUME ControlInv, DrainIfConnected, ~proxy
  PROVE  ControlInv'
<1>1. /\ App \in Thread /\ thread[App].pc = "registered"
      /\ history' = Registered
      /\ UNCHANGED <<mutex, sampling, proxy, callback, link, lm, store, dispatch,
                     seen>>
  BY DEF DrainIfConnected, Thread
<1>2. Moved(App, "idle")
  BY <1>1, Moves DEF DrainIfConnected, Pc
<1>3. /\ history' \in [confirmed : BOOLEAN, drained : BOOLEAN, registered : Nat \cup {-1},
                    failed : BOOLEAN]
      /\ history'.confirmed = history.confirmed /\ history'.drained = history.drained
      /\ history'.failed = history.failed
      /\ history'.registered = IF history.registered = -1 THEN lm.sent ELSE history.registered
  BY <1>1 DEF Registered, ControlInv, ControlTypeOK
<1>4. \A t \in Thread : ~Inside(t)
  BY DEF ControlInv, UpInv, Up
<1>5. ControlTypeOK'
  BY <1>1, <1>2, <1>3, <1>4 DEF ControlInv, ControlTypeOK, Moved
<1>6. ThreadInv'
  BY <1>1, <1>2, <1>3, <1>4 DEF ControlInv, ThreadInv, Moved, Inside
<1>7. LinkInv'
  BY <1>1, <1>2, <1>3, <1>4, SMTT(30) DEF ControlInv, LinkInv, Moved
<1>8. UpInv'
  BY <1>1, <1>2, <1>3, <1>4, SMTT(30) DEF ControlInv, UpInv, Moved, Up, Inside
<1>9. OrderInv'
  BY <1>1, <1>2, <1>3, <1>4, SMTT(30) DEF ControlInv, OrderInv, Moved
<1>10. CallbackInv'
  BY <1>1, <1>2, <1>3, <1>4 DEF ControlInv, CallbackInv, OrderInv, Moved, Inside
<1>11. UnreadInv'
  BY <1>1, <1>2, <1>3, <1>4 DEF ControlInv, UnreadInv, ThreadInv, Moved, Covered, WillRead,
     Inside
<1>. QED
  BY <1>5, <1>6, <1>7, <1>8, <1>9, <1>10, <1>11 DEF ControlInv

\* The registration of a callback looks for a connection.
LEMMA DrainIfConnectedKeeps ==
  ASSUME ControlInv, DrainIfConnected
  PROVE  ControlInv'
  BY DrainKeeps, RegisterUnconnectedKeeps

\* Thread u sends a call to the Launch Manager.
LEMMA SendCallKeeps ==
  ASSUME ControlInv, NEW u \in Thread, NEW pc \in {"confirming", "called"},
         thread[u].pc = IF pc = "confirming" THEN "waiting" ELSE "calling",
         MoveTo(u, pc), link' = Append(link, CallMessage(u)), Up,
         UNCHANGED <<mutex, sampling, proxy, callback, lm, store, dispatch, seen, history>>
  PROVE  ControlInv'
<1>1. Moved(u, pc)
  BY Moves DEF Pc
<1>2. /\ link \in Seq(Message) /\ CallMessage(u) \in Message
      /\ CallMessage(u).kind = "call" /\ CallMessage(u).by = u
  BY DEF ControlInv, ControlTypeOK, CallMessage, Message
<1>3. /\ link' \in Seq(Message) /\ Len(link) \in Nat /\ Len(link') = Len(link) + 1 /\ link' # <<>>
      /\ \A k \in 1..Len(link) : link'[k] = link[k]
      /\ link'[Len(link) + 1] = CallMessage(u)
  BY <1>2, Appended
<1>4. \A k \in 1..Len(link') :
        \/ k \in 1..Len(link) /\ link'[k] = link[k]
        \/ k = Len(link) + 1 /\ link'[k] = CallMessage(u)
  BY <1>3
<1>5. link # <<>> => link'[1] = link[1]
  BY <1>2, <1>3
<1>6. \A k \in 1..Len(link) : link[k].kind = "call" => link[k].by # u
  BY DEF ControlInv, LinkInv
<1>7. /\ App \in Thread
      /\ pc = "confirming" => u = App /\ ~Inside(u)
  BY DEF ControlInv, ThreadInv, Thread
<1>8. ControlTypeOK'
  BY <1>1, <1>2, <1>3, <1>4, <1>5, <1>6, <1>7, SMTT(30) DEF ControlInv, ControlTypeOK, Moved
<1>9. ThreadInv'
  BY <1>1, <1>2, <1>3, <1>4, <1>5, <1>6, <1>7, SMTT(30) DEF ControlInv, ThreadInv, Moved, Inside
<1>10. LinkInv'
  <2>1. ASSUME NEW k \in 1..Len(link'), link'[k].kind = "call"
        PROVE  link'[k].by \in Thread /\ thread'[link'[k].by].pc \in {"confirming", "called"}
    BY <1>1, <1>2, <1>3, <1>4, <1>5, <1>6, <1>7, <2>1, ZenonT(30) DEF ControlInv, LinkInv, Moved
  <2>2. ASSUME NEW j \in 1..Len(link'), NEW k \in 1..Len(link'),
               link'[j].kind = "call", link'[k].kind = "call", link'[j].by = link'[k].by
        PROVE  j = k
    BY <1>2, <1>4, <1>6, <2>2, ZenonT(30) DEF ControlInv, LinkInv
  <2>. QED
    BY <2>1, <2>2 DEF LinkInv
<1>11. UpInv'
  BY <1>1, <1>2, <1>3, <1>4, <1>5, <1>6, <1>7 DEF ControlInv, UpInv, Moved, Up, Inside
<1>12. OrderInv'
  BY <1>1, <1>2, <1>3, <1>4, <1>5, <1>6, <1>7, SMTT(30) DEF ControlInv, OrderInv, Moved
<1>13. CallbackInv'
  BY <1>1, <1>2, <1>3, <1>4, <1>5, <1>6, <1>7, SMTT(30) DEF ControlInv, CallbackInv, Moved, Inside
<1>14. UnreadInv'
  BY <1>1, <1>2, <1>3, <1>4, <1>5, <1>6, <1>7 DEF ControlInv, UnreadInv, Moved, Covered,
     WillRead, Inside
<1>. QED
  BY <1>8, <1>9, <1>10, <1>11, <1>12, <1>13, <1>14 DEF ControlInv

\* wait_for_connection() asks for a confirmation.
LEMMA ConnectedKeeps ==
  ASSUME ControlInv, Connected
  PROVE  ControlInv'
<1>1. App \in Thread /\ Up
  BY DEF Connected, Thread, Up
<1>. QED
  BY <1>1, SendCallKeeps DEF Connected

\* A call fails, or there is no proxy: its thread goes on.
LEMMA RefusedKeeps ==
  ASSUME ControlInv, NEW u \in Thread, thread[u].pc = "calling",
         MoveTo(u, thread[u].back),
         UNCHANGED <<mutex, sampling, proxy, callback, link, lm, store, dispatch, seen,
                     history>>
  PROVE  ControlInv'
<1>1. /\ App \in Thread
      /\ thread[u].back \in {"idle", "forwarding"}
  BY SMTT(30) DEF ControlInv, ControlTypeOK, ThreadState, Thread
<1>2. Moved(u, thread[u].back)
  BY <1>1, Moves DEF Pc
<1>3. ControlTypeOK'
  BY <1>1, <1>2, SMTT(30) DEF ControlInv, ControlTypeOK, Moved
<1>4. ThreadInv'
  BY <1>1, <1>2 DEF ControlInv, ThreadInv, Moved, Inside
<1>5. LinkInv'
  BY <1>1, <1>2 DEF ControlInv, LinkInv, Moved
<1>6. UpInv'
  BY <1>1, <1>2, SMTT(30) DEF ControlInv, UpInv, Moved, Up, Inside
<1>7. OrderInv'
  BY <1>1, <1>2 DEF ControlInv, OrderInv, Moved
<1>8. CallbackInv'
  BY <1>1, <1>2 DEF ControlInv, CallbackInv, Moved, Inside
<1>9. UnreadInv'
  BY <1>1, <1>2 DEF ControlInv, UnreadInv, Moved, Covered, WillRead, Inside
<1>. QED
  BY <1>3, <1>4, <1>5, <1>6, <1>7, <1>8, <1>9 DEF ControlInv

\* A call of the application or of a callback reaches the proxy.
LEMMA CallProxyKeeps ==
  ASSUME ControlInv, NEW u \in Thread, CallProxy(u)
  PROVE  ControlInv'
<1>1. CASE proxy /\ MoveTo(u, "called") /\ link' = Append(link, CallMessage(u))
  <2>1. Up
    BY <1>1 DEF CallProxy, Up
  <2>. QED
    BY <1>1, <2>1, SendCallKeeps DEF CallProxy
<1>2. CASE MoveTo(u, thread[u].back) /\ UNCHANGED link
  BY <1>2, RefusedKeeps DEF CallProxy
<1>. QED
  BY <1>1, <1>2 DEF CallProxy

\* The control client is destroyed; no thread is inside its handler.
LEMMA DestroyKeeps ==
  ASSUME ControlInv, Destroy
  PROVE  ControlInv'
<1>1. /\ App \in Thread /\ thread[App].pc = "idle"
      /\ mutex = NoThread /\ Discovery # NoThread
      /\ proxy' = FALSE /\ store' = <<>> /\ dispatch' = 0 /\ link' = <<>>
      /\ lm' = [lm EXCEPT !.notifies = FALSE] /\ lm \in [sent : Nat, notifies : BOOLEAN]
      /\ UNCHANGED <<mutex, sampling, callback, seen, history>>
  BY LmControlAssumption DEF Destroy, Thread, ControlInv, ControlTypeOK
<1>2. Moved(App, "gone")
  BY <1>1, Moves DEF Destroy, Pc
<1>3. /\ lm' \in [sent : Nat, notifies : BOOLEAN]
      /\ lm'.sent = lm.sent /\ ~lm'.notifies
  BY <1>1, ZenonT(30)
<1>4. \A t \in Thread : thread[t].pc = "idle" /\ ~Inside(t)
  BY <1>1 DEF Destroy, Thread, ControlInv, ThreadInv
<1>5. /\ <<>> \in Seq(Nat) /\ <<>> \in Seq(Message)
      /\ Len(store') = 0 /\ Len(link') = 0 /\ 1..0 = {}
  BY <1>1
<1>6. ControlTypeOK'
  BY <1>1, <1>2, <1>3, <1>4, <1>5, ZenonT(30) DEF ControlInv, ControlTypeOK, Moved
<1>7. ThreadInv'
  BY <1>1, <1>2, <1>3, <1>4, <1>5 DEF ControlInv, ThreadInv, Moved, Inside
<1>8. LinkInv'
  BY <1>1, <1>2, <1>3, <1>4, <1>5 DEF ControlInv, LinkInv, Moved
<1>9. UpInv'
  BY <1>1, <1>2, <1>3, <1>4, <1>5 DEF ControlInv, UpInv, Moved, Up, Inside
<1>10. OrderInv'
  BY <1>1, <1>2, <1>3, <1>4, <1>5, SMTT(30) DEF ControlInv, OrderInv, Increasing, AllBelow, Moved
<1>11. CallbackInv'
  BY <1>1, <1>2, <1>3, <1>4, <1>5 DEF ControlInv, CallbackInv, Moved, Inside
<1>12. UnreadInv'
  BY <1>1, <1>2, <1>3, <1>4, <1>5 DEF ControlInv, UnreadInv, Moved, Covered, WillRead,
     Inside
<1>. QED
  BY <1>6, <1>7, <1>8, <1>9, <1>10, <1>11, <1>12 DEF ControlInv

\* A dispatch thread takes a notification.
LEMMA TakeNotificationKeeps ==
  ASSUME ControlInv, NEW u \in Thread, TakeNotification(u)
  PROVE  ControlInv'
<1>1. /\ App \in Thread /\ u # App /\ thread[u].pc = "idle"
      /\ dispatch \in Nat /\ dispatch > 0 /\ dispatch' = dispatch - 1 /\ dispatch' \in Nat
      /\ UNCHANGED <<mutex, sampling, proxy, callback, link, lm, store, seen,
                     history>>
  BY LmControlAssumption DEF TakeNotification, Thread, ControlInv, ControlTypeOK
<1>2. Moved(u, "locking")
  BY <1>1, Moves DEF TakeNotification, Pc
<1>3. ControlTypeOK'
  BY <1>1, <1>2 DEF ControlInv, ControlTypeOK, Moved
<1>4. ThreadInv'
  BY <1>1, <1>2 DEF ControlInv, ThreadInv, Moved, Inside
<1>5. LinkInv'
  BY <1>1, <1>2 DEF ControlInv, LinkInv, Moved
<1>6. UpInv'
  BY <1>1, <1>2, SMTT(30) DEF ControlInv, UpInv, Moved, Up, Inside
<1>7. OrderInv'
  BY <1>1, <1>2, SMTT(30) DEF ControlInv, OrderInv, Moved
<1>8. CallbackInv'
  BY <1>1, <1>2, SMTT(30) DEF ControlInv, CallbackInv, Moved, Inside
<1>9. UnreadInv'
  BY <1>1, <1>2, SMTT(30) DEF ControlInv, UnreadInv, Moved, Covered, WillRead, Inside
<1>. QED
  BY <1>3, <1>4, <1>5, <1>6, <1>7, <1>8, <1>9 DEF ControlInv

\* A thread enters onActivationResult(): nobody is inside.
LEMMA LockKeeps ==
  ASSUME ControlInv, NEW u \in Thread, Lock(u)
  PROVE  ControlInv'
<1>1. /\ thread[u].pc = "locking" /\ sampling = NoThread /\ sampling' = u
      /\ App \in Thread /\ NoThread \notin Thread
      /\ UNCHANGED <<mutex, proxy, callback, link, lm, store, dispatch, seen,
                     history>>
  BY LmControlAssumption DEF Lock, Thread
<1>2. /\ thread' \in [Thread -> ThreadState]
      /\ \A t \in Thread : t # u => thread'[t] = thread[t]
      /\ thread'[u].pc = "reading" /\ thread'[u].back = "forwarding"
      /\ thread'[u].batch = <<>> /\ thread'[u].copied = callback
  BY Locks, SMTT(30) DEF Lock
<1>3. \A t \in Thread : ~Inside(t)
  BY <1>1 DEF ControlInv, ThreadInv
<1>4. Len(<<>>) = 0 /\ 1..0 = {}
  BY SMTT(30)
<1>5. ControlTypeOK'
  BY <1>1, <1>2, <1>3, <1>4, SMTT(30) DEF ControlInv, ControlTypeOK
<1>6. ThreadInv'
  BY <1>1, <1>2, <1>3, <1>4, SMTT(30) DEF ControlInv, ThreadInv, Inside
<1>7. LinkInv'
  BY <1>1, <1>2, <1>3, <1>4, SMTT(30) DEF ControlInv, LinkInv
<1>8. UpInv'
  BY <1>1, <1>2, <1>3, <1>4, SMTT(30) DEF ControlInv, UpInv, Up, Inside
<1>9. OrderInv'
  BY <1>1, <1>2, <1>3, <1>4, SMTT(30) DEF ControlInv, OrderInv, Increasing, AllBelow
<1>10. CallbackInv'
  BY <1>1, <1>2, <1>3, <1>4, SMTT(30) DEF ControlInv, CallbackInv, Inside
<1>11. UnreadInv'
  BY <1>1, <1>2, <1>3, <1>4, SMTT(30) DEF ControlInv, UnreadInv, Covered, WillRead, Inside
<1>. QED
  BY <1>5, <1>6, <1>7, <1>8, <1>9, <1>10, <1>11 DEF ControlInv

\* After a full batch the store is read again.
LEMMA ReadOnKeeps ==
  ASSUME ControlInv, NEW u \in Thread, ReadOn(u)
  PROVE  ControlInv'
<1>1. /\ App \in Thread /\ thread[u].pc = "forwarding" /\ Inside(u)
      /\ UNCHANGED <<mutex, sampling, proxy, callback, link, lm, store, dispatch,
                     seen, history>>
  BY SMTT(30) DEF ReadOn, Thread, ControlInv, ThreadInv
<1>2. Moved(u, "reading")
  BY <1>1, Moves, SMTT(30) DEF ReadOn, Pc
<1>3. ControlTypeOK'
  BY <1>1, <1>2, SMTT(30) DEF ControlInv, ControlTypeOK, Moved
<1>4. ThreadInv'
  BY <1>1, <1>2, SMTT(30) DEF ControlInv, ThreadInv, Moved, Inside
<1>5. LinkInv'
  BY <1>1, <1>2, SMTT(30) DEF ControlInv, LinkInv, Moved
<1>6. UpInv'
  BY <1>1, <1>2, SMTT(30) DEF ControlInv, UpInv, Moved, Up, Inside
<1>7. OrderInv'
  BY <1>1, <1>2 DEF ControlInv, OrderInv, Moved
<1>8. CallbackInv'
  BY <1>1, <1>2, SMTT(30) DEF ControlInv, CallbackInv, Moved, Inside
<1>9. UnreadInv'
  BY <1>1, <1>2, SMTT(30) DEF ControlInv, UnreadInv, Moved, Covered, WillRead, Inside
<1>. QED
  BY <1>3, <1>4, <1>5, <1>6, <1>7, <1>8, <1>9 DEF ControlInv

\* A batch is taken from the store.
LEMMA ReadBatchKeeps ==
  ASSUME ControlInv, NEW u \in Thread, ReadBatch(u)
  PROVE  ControlInv'
<1>1. /\ thread' \in [Thread -> ThreadState] /\ store' \in Seq(Nat)
      /\ \A t \in Thread : t # u => thread'[t] = thread[t]
      /\ thread[u].pc = "reading" /\ thread'[u].pc = "forwarding"
      /\ thread'[u].back = thread[u].back /\ thread'[u].copied = thread[u].copied
      /\ store' # <<>> => thread'[u].size = SampleCount
  BY Reads
<1>2. /\ UNCHANGED <<mutex, sampling, proxy, callback, link, lm, dispatch, seen,
                     history>>
  BY DEF ReadBatch
<1>3. App \in Thread /\ Inside(u) /\ thread'[u].back = "forwarding"
  BY <1>1, SMTT(30) DEF Thread, ControlInv, ThreadInv, Inside
<1>4. ControlTypeOK'
  BY <1>1, <1>2, <1>3, SMTT(30) DEF ControlInv, ControlTypeOK
<1>5. ThreadInv'
  BY <1>1, <1>2, <1>3, SMTT(30) DEF ControlInv, ThreadInv, Inside
<1>6. LinkInv'
  BY <1>1, <1>2, <1>3, SMTT(30) DEF ControlInv, LinkInv
<1>7. UpInv'
  BY <1>1, <1>2, <1>3, SMTT(30) DEF ControlInv, UpInv, Up, Inside
<1>8. OrderInv'
  <2>1. PICK size \in 0..Len(store) :
          /\ thread'[u].batch = SubSeq(store, 1, size)
          /\ store' = SubSeq(store, size + 1, Len(store))
    BY Reads, SMTT(30)
  <2>2. store \in Seq(Nat) /\ Increasing(store)
    BY DEF ControlInv, ControlTypeOK, OrderInv
  <2>3. /\ Increasing(thread'[u].batch) /\ Increasing(store')
        /\ AllBelow(thread'[u].batch, store')
    BY <2>1, <2>2, SplitOrdered, SMTT(30)
  <2>4. AllBelow(seen.given, thread'[u].batch) /\ AllBelow(seen.given, store')
    BY <2>1, <2>2, Numbers, SplitOrdered, SMTT(30) DEF ControlInv, OrderInv
  <2>5. ASSUME NEW t \in Thread
        PROVE  AllBelow(thread[t].batch, store')
    BY <2>1, <2>2, Numbers, SplitOrdered, SMTT(30) DEF ControlInv, OrderInv
  <2>6. /\ \A k \in 1..Len(store') : store'[k] <= lm.sent
        /\ \A k \in 1..Len(thread'[u].batch) : thread'[u].batch[k] <= lm.sent
    <3>1. /\ Len(thread'[u].batch) = size /\ Len(store') = Len(store) - size
          /\ \A k \in 1..size : k \in 1..Len(store) /\ thread'[u].batch[k] = store[k]
          /\ \A k \in 1..(Len(store) - size) :
               k + size \in 1..Len(store) /\ store'[k] = store[k + size]
      BY <2>1, <2>2, Split, ZenonT(30)
    <3>. QED
      BY <3>1 DEF ControlInv, OrderInv
  <2>. QED
    BY <1>1, <1>2, <1>3, <2>3, <2>4, <2>5, <2>6, SMTT(30) DEF ControlInv, OrderInv
<1>9. CallbackInv'
  BY <1>1, <1>2, <1>3 DEF ControlInv, CallbackInv, Inside
<1>10. UnreadInv'
  BY <1>1, <1>2, <1>3 DEF ControlInv, UnreadInv, Covered, WillRead, Inside
<1>. QED
  BY <1>4, <1>5, <1>6, <1>7, <1>8, <1>9, <1>10 DEF ControlInv

\* A result goes to the callback or is dropped.
LEMMA ForwardKeeps ==
  ASSUME ControlInv, NEW u \in Thread, Forward(u)
  PROVE  ControlInv'
<1>1. /\ thread' \in [Thread -> ThreadState]
      /\ \A t \in Thread : t # u => thread'[t] = thread[t]
      /\ thread[u].pc = "forwarding"
      /\ thread'[u].pc \in {"forwarding", "calling", "locking"}
      /\ thread'[u].back = thread[u].back /\ thread'[u].copied = thread[u].copied
      /\ thread'[u].size = thread[u].size
      /\ seen' \in [given : Seq(Nat), dropped : SUBSET Nat]
  BY Forwards
<1>2. /\ UNCHANGED <<mutex, sampling, proxy, callback, link, lm, store, dispatch,
                     history>>
  BY DEF Forward
<1>3. App \in Thread /\ Inside(u) /\ thread'[u].back = "forwarding"
  BY <1>1, SMTT(30) DEF Thread, ControlInv, ThreadInv, Inside
<1>4. ControlTypeOK'
  BY <1>1, <1>2, <1>3, SMTT(30) DEF ControlInv, ControlTypeOK
<1>5. ThreadInv'
  BY <1>1, <1>2, <1>3, SMTT(30) DEF ControlInv, ThreadInv, Inside
<1>6. LinkInv'
  BY <1>1, <1>2, <1>3, SMTT(30) DEF ControlInv, LinkInv
<1>7. UpInv'
  BY <1>1, <1>2, <1>3, SMTT(30) DEF ControlInv, UpInv, Up, Inside
<1>8. OrderInv'
  <2> DEFINE batch == thread[u].batch
  <2>1. /\ batch # <<>> /\ thread'[u].batch = Tail(batch)
        /\ \/ /\ seen'.given = seen.given
              /\ seen'.dropped = seen.dropped \cup {Head(batch)}
           \/ /\ seen'.dropped = seen.dropped
              /\ seen'.given = Append(seen.given, Head(batch))
    BY Forwards, SMTT(30)
  <2>2. /\ batch \in Seq(Nat) /\ seen.given \in Seq(Nat) /\ store \in Seq(Nat)
        /\ Increasing(batch) /\ AllBelow(seen.given, batch) /\ AllBelow(batch, store)
        /\ \A k \in 1..Len(batch) : batch[k] <= lm.sent
    BY Numbers DEF ControlInv, ControlTypeOK, OrderInv
  <2> HIDE DEF batch
  <2>3. /\ Head(batch) = batch[1] /\ batch[1] \in Nat /\ 1 \in 1..Len(batch)
        /\ Tail(batch) \in Seq(Nat)
        /\ \A k \in 1..Len(Tail(batch)) : k + 1 \in 1..Len(batch) /\ Tail(batch)[k] = batch[k + 1]
    <3>1. /\ Tail(batch) \in Seq(Nat) /\ Len(batch) \in Nat \ {0}
          /\ Head(batch) = batch[1] /\ batch[1] \in Nat
      BY <2>1, <2>2, Taken
    <3>2. 1 \in 1..Len(batch)
      BY <3>1
    <3>3. \A k \in 1..Len(Tail(batch)) : k + 1 \in 1..Len(batch) /\ Tail(batch)[k] = batch[k + 1]
      BY <2>1, <2>2, Taken
    <3>. QED
      BY <3>1, <3>2, <3>3, SMTT(30)
  <2>4. /\ Increasing(Tail(batch)) /\ \A k \in 1..Len(Tail(batch)) : batch[1] < Tail(batch)[k]
    BY <2>1, <2>2, TailOrdered
  <2>5. /\ AllBelow(seen.given, Tail(batch))
        /\ \A k \in 1..Len(seen.given) : seen.given[k] < batch[1]
    BY <2>1, <2>2, TailOrdered, SMTT(30)
  <2>6. /\ AllBelow(Tail(batch), store) /\ \A k \in 1..Len(store) : batch[1] < store[k]
    BY <2>1, <2>2, TailOrdered
  <2>7. batch[1] <= lm.sent /\ \A k \in 1..Len(Tail(batch)) : Tail(batch)[k] <= lm.sent
    BY <2>2, <2>3
  <2>8. /\ Increasing(seen'.given) /\ AllBelow(seen'.given, store)
        /\ AllBelow(seen'.given, Tail(batch))
        /\ \A k \in 1..Len(seen'.given) : seen'.given[k] <= lm.sent
    <3>1. CASE seen'.given = seen.given
      BY <3>1, <2>5 DEF ControlInv, OrderInv
    <3>2. CASE seen'.given = Append(seen.given, batch[1])
      <4>0. Increasing(seen.given) /\ AllBelow(seen.given, store)
        BY DEF ControlInv, OrderInv
      <4>1. Increasing(seen'.given)
        BY <3>2, <4>0, <2>2, <2>3, <2>5, AppendOrdered, Zenon, ZenonT(30)
      <4>2. AllBelow(seen'.given, store)
        BY <3>2, <4>0, <2>2, <2>3, <2>6, AppendBelow, SMTT(30)
      <4>3. AllBelow(seen'.given, Tail(batch))
        BY <3>2, <2>2, <2>3, <2>4, <2>5, AppendBelow, ZenonT(30)
      <4>4. \A k \in 1..Len(seen'.given) : seen'.given[k] <= lm.sent
        BY <3>2, <2>2, <2>3, <2>7 DEF ControlInv, OrderInv
      <4>. QED
        BY <4>1, <4>2, <4>3, <4>4, SMTT(30)
    <3>. QED
      BY <2>1, <2>3, <3>1, <3>2, SMTT(30)
  <2>9. \A r \in seen'.dropped : r <= lm.sent
    BY <2>1, <2>3, <2>7 DEF ControlInv, OrderInv
  <2>10. ASSUME NEW t \in Thread, t # u
         PROVE  Len(thread[t].batch) = 0 /\ AllBelow(seen'.given, thread[t].batch)
    <3>1. thread[t].batch = <<>>
      BY <1>1, <1>2, <1>3, <2>10, SMTT(30) DEF ControlInv, ThreadInv
    <3>. QED
      BY <3>1, SMTT(30) DEF AllBelow
  <2>. QED
    BY <1>1, <1>2, <1>3, <2>1, <2>4, <2>6, <2>7, <2>8, <2>9, <2>10,
       ZenonT(30) DEF ControlInv, OrderInv
<1>9. CallbackInv'
  <2>1. \/ ~thread[u].copied
        \/ seen'.dropped = seen.dropped
    BY Forwards, SMTT(30)
  <2>. QED
    BY <1>1, <1>2, <1>3, <2>1, SMTT(30) DEF ControlInv, CallbackInv, Inside
<1>10. UnreadInv'
  BY <1>1, <1>2, <1>3 DEF ControlInv, UnreadInv, Covered, WillRead, Inside
<1>. QED
  BY <1>4, <1>5, <1>6, <1>7, <1>8, <1>9, <1>10 DEF ControlInv

\* The results cannot be read: the thread leaves.
LEMMA ReadFailsKeeps ==
  ASSUME ControlInv, NEW u \in Thread, ReadFails(u)
  PROVE  ControlInv'
<1>1. /\ App \in Thread /\ thread[u].pc \in {"reading", "forwarding"} /\ NoThread \notin Thread
      /\ sampling' = NoThread
      /\ UNCHANGED <<mutex, proxy, callback, link, lm, store, dispatch, seen>>
  BY LmControlAssumption DEF ReadFails, Unlocked, Thread
<1>2. /\ thread' \in [Thread -> ThreadState]
      /\ \A t \in Thread : t # u => thread'[t] = thread[t]
      /\ thread'[u].pc = "idle" /\ thread'[u].back = "idle" /\ thread'[u].batch = <<>>
  BY Leaves, ZenonT(30) DEF ReadFails, Unlocked
<1>3. /\ Inside(u) /\ \A t \in Thread : t # u => ~Inside(t)
  BY <1>1, ZenonT(30) DEF ControlInv, ThreadInv
<1>4. /\ history' \in [confirmed : BOOLEAN, drained : BOOLEAN, registered : Nat \cup {-1},
                    failed : BOOLEAN]
      /\ history'.confirmed = history.confirmed /\ history'.failed
      /\ history'.registered = IF u = App /\ history.registered = -1 THEN lm.sent
                               ELSE history.registered
      /\ history'.drained <=> \/ history.drained
                              \/ u = App /\ history.confirmed /\ ~history.failed
  BY Finishes, ZenonT(30) DEF ReadFails
<1>5. Len(<<>>) = 0 /\ 1..0 = {}
  OBVIOUS
<1>6. ControlTypeOK'
  BY <1>1, <1>2, <1>3, <1>4, <1>5 DEF ControlInv, ControlTypeOK
<1>7. ThreadInv'
  BY <1>1, <1>2, <1>3, <1>4, <1>5, ZenonT(30) DEF ControlInv, ThreadInv, Inside
<1>8. LinkInv'
  BY <1>1, <1>2, <1>3, <1>4, <1>5 DEF ControlInv, LinkInv
<1>9. UpInv'
  BY <1>1, <1>2, <1>3, <1>4, <1>5 DEF ControlInv, UpInv, Up, Inside
<1>10. OrderInv'
  BY <1>1, <1>2, <1>3, <1>4, <1>5, SMTT(30) DEF ControlInv, OrderInv, Increasing, AllBelow
<1>11. CallbackInv'
  BY <1>1, <1>2, <1>3, <1>4, <1>5, SMTT(30) DEF ControlInv, CallbackInv, OrderInv, Inside
<1>12. UnreadInv'
  BY <1>1, <1>2, <1>3, <1>4, <1>5, ZenonT(30) DEF ControlInv, UnreadInv
<1>. QED
  BY <1>6, <1>7, <1>8, <1>9, <1>10, <1>11, <1>12 DEF ControlInv

\* The last batch was not full: the thread leaves.
LEMMA FinishReadingKeeps ==
  ASSUME ControlInv, NEW u \in Thread, FinishReading(u)
  PROVE  ControlInv'
<1>1. /\ App \in Thread /\ thread[u].pc \in {"reading", "forwarding"} /\ NoThread \notin Thread
      /\ sampling' = NoThread
      /\ UNCHANGED <<mutex, proxy, callback, link, lm, store, dispatch, seen>>
  BY LmControlAssumption DEF FinishReading, Unlocked, Thread
<1>2. /\ thread' \in [Thread -> ThreadState]
      /\ \A t \in Thread : t # u => thread'[t] = thread[t]
      /\ thread'[u].pc = "idle" /\ thread'[u].back = "idle" /\ thread'[u].batch = <<>>
  BY Leaves, ZenonT(30) DEF FinishReading, Unlocked
<1>3. /\ Inside(u) /\ \A t \in Thread : t # u => ~Inside(t)
  BY <1>1 DEF ControlInv, ThreadInv
<1>4. /\ history' \in [confirmed : BOOLEAN, drained : BOOLEAN, registered : Nat \cup {-1},
                    failed : BOOLEAN]
      /\ history'.confirmed = history.confirmed /\ history'.failed = history.failed
      /\ history'.registered = IF u = App /\ history.registered = -1 THEN lm.sent
                               ELSE history.registered
      /\ history'.drained <=> \/ history.drained
                              \/ u = App /\ history.confirmed /\ ~history.failed
  BY Finishes DEF FinishReading
<1>5. Len(<<>>) = 0 /\ 1..0 = {}
  OBVIOUS
<1>6. ControlTypeOK'
  <2>1. ControlTypeOK
    BY DEF ControlInv
  <2>. QED
    BY <1>1, <1>2, <1>4, <2>1, SMTT(30) DEF ControlTypeOK
<1>7. ThreadInv'
  BY <1>1, <1>2, <1>3, <1>4, <1>5, SMTT(30) DEF ControlInv, ThreadInv, Inside
<1>8. LinkInv'
  BY <1>1, <1>2, <1>3, <1>4, <1>5, SMTT(30) DEF ControlInv, LinkInv
<1>9. UpInv'
  BY <1>1, <1>2, <1>3, <1>4, <1>5, SMTT(30) DEF ControlInv, UpInv, Up, Inside
<1>10. OrderInv'
  BY <1>1, <1>2, <1>3, <1>4, <1>5, ZenonT(30) DEF ControlInv, OrderInv, Increasing, AllBelow
<1>11. CallbackInv'
  BY <1>1, <1>2, <1>3, <1>4, <1>5 DEF ControlInv, CallbackInv, OrderInv, Inside
<1>12. UnreadInv'
  <2>1. Covered' /\ ~history'.failed => Covered
    BY <1>1, <1>2, <1>3, <1>4, <1>5 DEF Covered, Inside
  <2>2. ~WillRead(u)
    BY LmControlAssumption DEF FinishReading, WillRead
  <2>3. \A t \in Thread : WillRead(t) => WillRead(t)'
    BY <1>1, <1>2, <1>3, <1>4, <1>5, <2>2 DEF WillRead, Inside
  <2>. QED
    BY <1>1, <1>2, <1>3, <1>4, <1>5, <2>1, <2>3, ZenonT(30) DEF ControlInv, UnreadInv
<1>. QED
  BY <1>6, <1>7, <1>8, <1>9, <1>10, <1>11, <1>12 DEF ControlInv

-----------------------------------------------------------------------------
(* The invariant and what follows from it *)

\* Before anything is discovered nothing is stored and no thread is inside.
LEMMA ControlInvInit == LmControlInit => ControlInv
<1> SUFFICES ASSUME LmControlInit
             PROVE  ControlInv
  OBVIOUS
<1>1. At("idle") \in ThreadState
  BY DEF At, ThreadState, Pc
<1>2. /\ thread \in [Thread -> ThreadState] /\ App \in Thread
      /\ \A t \in Thread : /\ thread[t].pc = "idle" /\ thread[t].back = "idle"
                           /\ thread[t].batch = <<>>
  BY <1>1 DEF LmControlInit, At, Thread
<1>3. /\ <<>> \in Seq(Nat) /\ <<>> \in Seq(Message) /\ Len(<<>>) = 0 /\ 1..0 = {}
      /\ Discovery # NoThread
  BY LmControlAssumption, SMTT(30)
<1>4. ControlTypeOK
  BY <1>2, <1>3, ZenonT(30) DEF LmControlInit, ControlTypeOK
<1>5. ThreadInv /\ LinkInv /\ UpInv
  BY <1>2, <1>3 DEF LmControlInit, ThreadInv, LinkInv, UpInv, Up, Inside
<1>6. OrderInv
  BY <1>2, <1>3, ZenonT(30) DEF LmControlInit, OrderInv, Increasing, AllBelow
<1>7. CallbackInv /\ UnreadInv
  BY <1>2 DEF LmControlInit, CallbackInv, UnreadInv, Covered, Inside
<1>. QED
  BY <1>4, <1>5, <1>6, <1>7 DEF ControlInv

\* No step of the client, of mw::com or of the Launch Manager breaks the invariant.
LEMMA ControlInvStep == ControlInv /\ [LmControlNext]_lmControlVars => ControlInv'
<1> SUFFICES ASSUME ControlInv, [LmControlNext]_lmControlVars
             PROVE  ControlInv'
  OBVIOUS
<1>1. CASE DiscoveryThread
  BY <1>1, ServiceFoundKeeps, SetReceiveHandlerKeeps, SetReceiveHandlerFailsKeeps
     DEF DiscoveryThread
<1>2. CASE LaunchManager
  BY <1>2, SendResultKeeps, HandleMessageKeeps DEF LaunchManager
<1>3. CASE Calls
  BY <1>3, RegisterCallbackKeeps, DrainIfConnectedKeeps, WaitForConnectionKeeps,
     WaitTimesOutKeeps, ConnectedKeeps, ConfirmationFailsKeeps, CallKeeps, DestroyKeeps
     DEF Calls
<1>4. CASE \E t \in Thread : Handler(t)
  BY <1>4, CallProxyKeeps, TakeNotificationKeeps, LockKeeps, ReadBatchKeeps,
     ReadFailsKeeps, ForwardKeeps, ReadOnKeeps, FinishReadingKeeps DEF Handler
<1>5. CASE UNCHANGED lmControlVars
  <2>1. /\ UNCHANGED <<mutex, sampling, proxy, callback, thread, link>>
        /\ UNCHANGED <<lm, store, dispatch, seen, history>>
    BY <1>5, SMTT(30) DEF lmControlVars
  <2>2. ControlTypeOK'
    BY <2>1, ZenonT(30) DEF ControlInv, ControlTypeOK
  <2>3. ThreadInv' /\ LinkInv'
    BY <2>1, ZenonT(30) DEF ControlInv, ThreadInv, LinkInv, Inside
  <2>4. UpInv'
    BY <2>1, ZenonT(30) DEF ControlInv, UpInv, Up, Inside
  <2>5. OrderInv' /\ CallbackInv' /\ UnreadInv'
    BY <2>1, ZenonT(30) DEF ControlInv, OrderInv, CallbackInv, UnreadInv, Covered, WillRead, Inside
  <2>. QED
    BY <2>2, <2>3, <2>4, <2>5 DEF ControlInv
<1>. QED
  BY <1>1, <1>2, <1>3, <1>4, <1>5 DEF LmControlNext

\* In every state of a control client, with any number of dispatch threads and results:
\* one thread at a time is inside the receive handler, every call on its way has a thread
\* that waits for it, the registration of the handler is the first message, results keep
\* their order, and whoever may have left a result behind is still to read.
THEOREM ControlSafe == LmControlSpec => []ControlInv
  BY ControlInvInit, ControlInvStep, PTL DEF LmControlSpec

\* No result stays unread after a registration that followed a confirmed connection: a
\* result the handler was not told of would need somebody who is still to read it, and
\* nobody is (awaitNotificationRegistration(), readActivationEvents()).
THEOREM NothingStranded == LmControlSpec => []NoResultIsStranded
<1>1. ControlInv => NoResultIsStranded
  <2> SUFFICES ASSUME ControlInv, history.drained, ~history.failed, NobodyReads
               PROVE  store = <<>>
    BY DEF NoResultIsStranded
  <2>1. ASSUME NEW t \in Thread
        PROVE  ~WillRead(t)
    BY DEF NobodyReads, WillRead, ControlInv, ThreadInv
  <2>. QED
    BY <2>1 DEF NobodyReads, Covered, ControlInv, UnreadInv
<1>. QED
  BY <1>1, ControlSafe, PTL

\* The callback sees the results in the order they were sent and none that follows its
\* registration is dropped, whatever threads run onActivationResult().
THEOREM OrderKept == LmControlSpec => []ResultsInOrder
<1>1. ControlInv => ResultsInOrder
  <2> SUFFICES ASSUME ControlInv
               PROVE  ResultsInOrder
    OBVIOUS
  <2>1. ASSUME NEW k \in 1..(Len(seen.given) - 1)
        PROVE  seen.given[k] < seen.given[k + 1]
    <3>1. Len(seen.given) \in Nat /\ Increasing(seen.given)
      BY Numbers DEF ControlInv, OrderInv
    <3>2. k \in 1..Len(seen.given) /\ k + 1 \in 1..Len(seen.given) /\ k < k + 1
      BY <3>1
    <3>. QED
      BY <3>1, <3>2, SMTT(30) DEF Increasing
  <2>. QED
    BY <2>1 DEF ResultsInOrder, ControlInv, CallbackInv
<1>. QED
  BY <1>1, ControlSafe, PTL

\* A callback may call the Launch Manager: the receive handler never holds mutex_.
THEOREM CallbacksMayCall == LmControlSpec => []CallbackMayCall
<1>1. ControlInv => CallbackMayCall
  BY LmControlAssumption DEF ControlInv, ControlTypeOK, CallbackMayCall, Thread
<1>. QED
  BY <1>1, ControlSafe, PTL

================================================================================
