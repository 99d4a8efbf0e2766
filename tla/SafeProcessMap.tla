--------------------------- MODULE SafeProcessMap ---------------------------
(***************************************************************************)
(* The map that brings a terminated process and its component together:    *)
(* class SafeProcessMap with the threads that call it.  The worker of a    *)
(* component starts a process and calls insertIfNotTerminated(); the       *)
(* OsHandler waits for a process and calls findTerminated().               *)
(*                                                                         *)
(* The entries are nodes of a tree: a node at depth d agrees with the keys *)
(* below it in their d lowest bits, an odd next bit leads to the left.     *)
(* Free nodes are a list linked by their right children.  search() works   *)
(* on the tree between exchanging its root for LOCKED_INDEX and storing    *)
(* the new root; other threads can only spin meanwhile, so this is one     *)
(* step (Search).                                                          *)
(*                                                                         *)
(* The kernel may hand out a process id again as soon as its process has   *)
(* been waited for, before the OsHandler has called findTerminated().      *)
(* EarlyReuse says whether it may do so even before the worker that        *)
(* started that process has called insertIfNotTerminated().                *)
(***************************************************************************)
EXTENDS Integers, FiniteSets

CONSTANTS
  Component,
  ProcessId,   \* process ids, as numbers
  MapCapacity, \* one node per process component
  EarlyReuse,
  Os           \* the OsHandler thread

ASSUME MapAssumption ==
  /\ ProcessId \subseteq Nat
  /\ MapCapacity \in Nat \ {0}
  /\ Os \notin Component

\* The worker that starts a component is identified with it.
MapThread == Component \cup {Os}

NullIndex == -1

NoDatum == [is |-> "none", of |-> Os]
Datum == [is : {"component", "status"}, of : Component]
IsComponent(d) == d.is = "component"
NoCall == [key |-> 0, data |-> NoDatum]
NoAnswer == [value |-> 0, mine |-> NoDatum, found |-> NoDatum]
FreeNode(next) == [pid |-> 0, data |-> NoDatum, left |-> NullIndex, right |-> next]

VARIABLES
  tree,      \* items_, free_list_head_ and tree_root_
  call,      \* the arguments of search() in a thread
  answer,    \* what search() returns, and the data it has matched
  kernel,    \* the processes of the operating system and whose they are
  started    \* which components have a process, as far as they know

mapVars == <<tree, call, answer, kernel, started>>

MapInit ==
  /\ tree = [items |-> [n \in 0..(MapCapacity - 1) |->
                          FreeNode(IF n = MapCapacity - 1 THEN NullIndex ELSE n + 1)],
             free |-> 0, root |-> NullIndex]
  /\ call = [t \in MapThread |-> NoCall]
  /\ answer = [t \in MapThread |-> NoAnswer]
  /\ kernel = [p \in ProcessId |-> [state |-> "gone", of |-> Os]]
  /\ started = [c \in Component |-> FALSE]

-----------------------------------------------------------------------------
(* The tree.                                                                *)

Bit(key, d) == (key \div 2^d) % 2 = 1

Child(node, key, d) == IF Bit(key, d) THEN node.left ELSE node.right

RECURSIVE FindNode(_, _, _, _, _)

\* From the node current at depth d down to the node of the key, or to where it
\* would be.
FindNode(items, current, parent, d, key) ==
  IF current = NullIndex \/ items[current].pid = key
  THEN [current |-> current, parent |-> parent, depth |-> d]
  ELSE FindNode(items, Child(items[current], key, d), current, d + 1, key)

NewNode(key, data) == [pid |-> key, data |-> data, left |-> NullIndex, right |-> NullIndex]

\* Mutant: the branch is chosen by the bit of the new node's own depth.
InsertNodeUnshifted(t, parent, d, key, data) ==
  LET n == t.free IN
  [t EXCEPT !.items = [@ EXCEPT ![n] = NewNode(key, data),
                                ![parent].left = IF Bit(key, d) THEN n ELSE @,
                                ![parent].right = IF Bit(key, d) THEN @ ELSE n],
            !.free = t.items[n].right]

InsertNode(t, parent, d, key, data) ==
  LET n == t.free IN
  [t EXCEPT !.items = [@ EXCEPT ![n] = NewNode(key, data),
                                ![parent].left = IF Bit(key, d - 1) THEN n ELSE @,
                                ![parent].right = IF Bit(key, d - 1) THEN @ ELSE n],
            !.free = t.items[n].right]

RECURSIVE FindLeaf(_, _, _)

FindLeaf(items, leaf, parent) ==
  IF items[leaf].left # NullIndex THEN FindLeaf(items, items[leaf].left, leaf)
  ELSE IF items[leaf].right # NullIndex THEN FindLeaf(items, items[leaf].right, leaf)
  ELSE [leaf |-> leaf, parent |-> parent]

\* The items without the link from a parent to a child.
Unlinked(items, parent, child) ==
  IF items[parent].left = child THEN [items EXCEPT ![parent].left = NullIndex]
                                ELSE [items EXCEPT ![parent].right = NullIndex]

\* Mutant: the node stays in the tree.
DeleteNothing(t, current, parent) == t

\* A leaf below the node takes its place, and becomes a free node itself.
DeleteNode(t, current, parent) ==
  LET l == FindLeaf(t.items, current, current)
      moved == [t.items EXCEPT ![current].pid = t.items[l.leaf].pid,
                               ![current].data = t.items[l.leaf].data]
      kept == IF l.leaf = t.root THEN t.items
              ELSE IF l.leaf = current THEN Unlinked(t.items, parent, current)
              ELSE Unlinked(moved, l.parent, l.leaf)
  IN  [items |-> [kept EXCEPT ![l.leaf] = FreeNode(t.free)],
       free |-> l.leaf,
       root |-> IF l.leaf = t.root THEN NullIndex ELSE t.root]

\* The first node of an empty tree.
FirstNode(t, key, data) ==
  [items |-> [t.items EXCEPT ![t.free] = NewNode(key, data)],
   free |-> t.items[t.free].right,
   root |-> t.free]

\* Mutant: entries of the same kind are matched.
SearchedUnchecked(t, key, data) ==
  LET f == FindNode(t.items, t.root, NullIndex, 0, key)
      entered == IF IsComponent(data) THEN 0 ELSE 1
      kept == [value |-> -1, found |-> NoDatum, tree |-> t]
  IN  IF t.root = NullIndex
      THEN [kept EXCEPT !.value = entered, !.tree = FirstNode(t, key, data)]
      ELSE IF f.current = NullIndex
      THEN IF t.free = NullIndex THEN kept
           ELSE [kept EXCEPT !.value = entered,
                             !.tree = InsertNode(t, f.parent, f.depth, key, data)]
      ELSE [kept EXCEPT !.value = 1 - entered, !.found = t.items[f.current].data,
                        !.tree = DeleteNode(t, f.current, f.parent)]

\* What search() does while it holds the lock: ret_value, the data it has found and
\* the new tree.
Searched(t, key, data) ==
  LET f == FindNode(t.items, t.root, NullIndex, 0, key)
      stored == t.items[f.current].data
      entered == IF IsComponent(data) THEN 0 ELSE 1
      kept == [value |-> -1, found |-> NoDatum, tree |-> t]
  IN  IF t.root = NullIndex
      THEN [kept EXCEPT !.value = entered, !.tree = FirstNode(t, key, data)]
      ELSE IF f.current = NullIndex
      THEN IF t.free = NullIndex THEN kept
           ELSE [kept EXCEPT !.value = entered,
                             !.tree = InsertNode(t, f.parent, f.depth, key, data)]
      ELSE IF IsComponent(data) = IsComponent(stored) THEN [kept EXCEPT !.value = -2]
      ELSE [kept EXCEPT !.value = 1 - entered, !.found = stored,
                        !.tree = DeleteNode(t, f.current, f.parent)]

-----------------------------------------------------------------------------
(* The threads.                                                             *)

NotCalling(t) == call[t] = NoCall /\ answer[t] = NoAnswer

\* A process id that the kernel may give to a new process.
Unused(p) ==
  /\ kernel[p].state = "gone"
  /\ EarlyReuse \/ \A c \in Component : call[c].key = p => ~IsComponent(call[c].data)

\* The worker starts a process and calls insertIfNotTerminated().
LaunchProcess(c, p) ==
  /\ NotCalling(c) /\ ~started[c] /\ Unused(p)
  /\ kernel' = [kernel EXCEPT ![p] = [state |-> "alive", of |-> c]]
  /\ started' = [started EXCEPT ![c] = TRUE]
  /\ call' = [call EXCEPT ![c] = [key |-> p, data |-> [is |-> "component", of |-> c]]]
  /\ UNCHANGED <<tree, answer>>

ProcessExits(p) ==
  /\ kernel[p].state = "alive"
  /\ kernel' = [kernel EXCEPT ![p].state = "exited"]
  /\ UNCHANGED <<tree, call, answer, started>>

\* OsHandler::run(): wait() returns a terminated process; findTerminated() is called.
WaitReturns(p) ==
  /\ NotCalling(Os) /\ kernel[p].state = "exited"
  /\ call' = [call EXCEPT ![Os] = [key |-> p, data |-> [is |-> "status", of |-> kernel[p].of]]]
  /\ kernel' = [kernel EXCEPT ![p] = [state |-> "gone", of |-> Os]]
  /\ UNCHANGED <<tree, answer, started>>

\* search(): the tree is locked, worked on and released.  A clash leaves it as it is,
\* and the thread yields and tries again.
Search(t) ==
  /\ call[t] # NoCall
  /\ LET s == Searched(tree, call[t].key, call[t].data) IN
     /\ s.value # -2
     /\ tree' = s.tree
     /\ answer' = [answer EXCEPT ![t] = [value |-> s.value, mine |-> call[t].data,
                                         found |-> s.found]]
  /\ call' = [call EXCEPT ![t] = NoCall]
  /\ UNCHANGED <<kernel, started>>

Clash(t) ==
  call[t] # NoCall /\ Searched(tree, call[t].key, call[t].data).value = -2

\* The component among the data that search() has matched.
Target(a) == IF IsComponent(a.mine) THEN a.mine.of ELSE a.found.of

\* termination_handler_.terminated(), and the return of search().
Return(t) ==
  /\ answer[t] # NoAnswer
  /\ answer' = [answer EXCEPT ![t] = NoAnswer]
  /\ started' = [c \in Component |->
                   started[c] /\ ~(answer[t].found # NoDatum /\ c = Target(answer[t]))]
  /\ UNCHANGED <<tree, call, kernel>>

MapNext ==
  \/ \E c \in Component, p \in ProcessId : LaunchProcess(c, p)
  \/ \E p \in ProcessId : ProcessExits(p) \/ WaitReturns(p)
  \/ \E t \in MapThread : Search(t) \/ Return(t)

MapSpec == MapInit /\ [][MapNext]_mapVars

-----------------------------------------------------------------------------
(* The map that the tree stands for.                                        *)

RECURSIVE Below(_)

\* The nodes of the tree below a node.
Below(n) ==
  IF n = NullIndex THEN {}
  ELSE {n} \cup Below(tree.items[n].left) \cup Below(tree.items[n].right)

Stored(p) ==
  LET nodes == {n \in Below(tree.root) : tree.items[n].pid = p}
  IN  IF nodes = {} THEN NoDatum ELSE tree.items[CHOOSE n \in nodes : TRUE].data

Pids == INSTANCE PidMap WITH
          Pid <- ProcessId, Thread <- MapThread, Capacity <- MapCapacity,
          entries <- [p \in ProcessId |-> Stored(p)], calls <- call, answers <- answer

\* The tree with its lock, its leaves moved up on removal and its list of free nodes
\* is a map from process ids to entries: what was entered is found again by every
\* later search, no node is lost or used twice, and insertion fails only when
\* MapCapacity ids are in the map.
TreeIsPidMap == Pids!PidMapSpec

\* When a terminated process and a component have been matched, it was a process of
\* that component, and there was room for every process that was started: neither the
\* reuse of an id between wait() and findTerminated() nor the order in which the worker
\* and the OsHandler reach the map confuses two components.
TerminationIsOwn ==
  \A t \in MapThread :
    /\ answer[t].found # NoDatum => answer[t].found.of = answer[t].mine.of
    /\ answer[t].value # -1

\* A thread that finds an entry of its own kind under its key, left there by the
\* previous process of that id, does not yield for ever: another thread is already on
\* its way to take that very entry away, and does not have to yield itself.
ClashIsResolved ==
  \A t \in MapThread : Clash(t) =>
    \E u \in MapThread \ {t} :
      /\ call[u].key = call[t].key /\ ~Clash(u)
      /\ call[u].data.of = Stored(call[t].key).of
=============================================================================
