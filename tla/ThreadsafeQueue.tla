--------------------------- MODULE ThreadsafeQueue ---------------------------
(***************************************************************************)
(* threadsafe_queue (utility.hpp:376-507): a linked list with one mutex    *)
(* for its head and one for its tail.  The last node is a dummy that push  *)
(* fills before it links the next dummy.  A step is one access to shared   *)
(* memory, one lock or one wait.                                           *)
(*                                                                         *)
(* Nodes are numbered in the order in which push links them, so the node   *)
(* that push allocates becomes node tail + 1; next says whether the link   *)
(* to it is there already.                                                 *)
(***************************************************************************)
EXTENDS Integers, Sequences, FiniteSets

CONSTANTS
  Threads, Values,
  NoValue, Empty, Some,   \* see module Fifo
  NoThread,
  MaxPushes               \* bound on the calls of push

ASSUME QueueAssumption ==
  /\ MaxPushes \in Nat
  /\ IsFiniteSet(Threads)
  /\ NoThread \notin Threads
  /\ NoValue \notin Values \cup {Empty, Some}

VARIABLES
  head, tail, data, next,
  head_mutex, tail_mutex,   \* the thread that holds it, or NoThread
  sleeping,                 \* the threads blocked in data_cond.wait
  pc,
  op,                       \* the pop or empty() a thread is in
  new_value,                \* the argument of a thread's push
  got,                      \* what its last pop or empty() returned
  pushes                    \* how often push has been called

queueVars == <<head, tail, data, next, head_mutex, tail_mutex, sleeping, pc, op, new_value,
               got, pushes>>

Node == 1..(MaxPushes + 1)
Null == 0
Ops == {"try_pop", "wait_and_pop", "empty"}

Goto(t, label) == pc' = [pc EXCEPT ![t] = label]

-----------------------------------------------------------------------------
(* push                                                                    *)

Push(t, v) ==
  /\ pc[t] = "idle"
  /\ pushes < MaxPushes
  /\ pushes' = pushes + 1
  /\ new_value' = [new_value EXCEPT ![t] = v]
  /\ Goto(t, "lockTail")
  /\ UNCHANGED <<head, tail, data, next, head_mutex, tail_mutex, sleeping, op, got>>

\* Mutation of TailIsFree: push does not take the mutex.
TailIsAlwaysFree == TRUE

TailIsFree == tail_mutex = NoThread

LockTail(t) ==
  /\ pc[t] = "lockTail"
  /\ TailIsFree
  /\ tail_mutex' = t
  /\ Goto(t, "setData")
  /\ UNCHANGED <<head, tail, data, next, head_mutex, sleeping, op, new_value, got, pushes>>

SetData(t) ==
  /\ pc[t] = "setData"
  /\ data' = [data EXCEPT ![tail] = new_value[t]]
  /\ Goto(t, "setNext")
  /\ UNCHANGED <<head, tail, next, head_mutex, tail_mutex, sleeping, op, new_value, got, pushes>>

SetNext(t) ==
  /\ pc[t] = "setNext"
  /\ next' = [next EXCEPT ![tail] = tail + 1]
  /\ Goto(t, "setTail")
  /\ UNCHANGED <<head, tail, data, head_mutex, tail_mutex, sleeping, op, new_value, got, pushes>>

SetTail(t) ==
  /\ pc[t] = "setTail"
  /\ tail' = tail + 1
  /\ tail_mutex' = NoThread
  /\ new_value' = [new_value EXCEPT ![t] = NoValue]
  /\ Goto(t, "notify")
  /\ UNCHANGED <<head, data, next, head_mutex, sleeping, op, got, pushes>>

\* data_cond.notify_one(), with no mutex held.
Notify(t) ==
  /\ pc[t] = "notify"
  /\ IF sleeping = {}
     THEN Goto(t, "idle") /\ UNCHANGED sleeping
     ELSE \E s \in sleeping :
            /\ sleeping' = sleeping \ {s}
            /\ pc' = [pc EXCEPT ![t] = "idle", ![s] = "lockHead"]
  /\ UNCHANGED <<head, tail, data, next, head_mutex, tail_mutex, op, new_value, got, pushes>>

-----------------------------------------------------------------------------
(* try_pop, wait_and_pop, empty                                            *)

Pop(t, o) ==
  /\ pc[t] = "idle"
  /\ op' = [op EXCEPT ![t] = o]
  /\ got' = [got EXCEPT ![t] = NoValue]
  /\ Goto(t, "lockHead")
  /\ UNCHANGED <<head, tail, data, next, head_mutex, tail_mutex, sleeping, new_value, pushes>>

\* Mutation of HeadIsFree: the pops do not exclude each other.
HeadIsAlwaysFree == TRUE

HeadIsFree == head_mutex = NoThread

LockHead(t) ==
  /\ pc[t] = "lockHead"
  /\ HeadIsFree
  /\ head_mutex' = t
  /\ Goto(t, "test")
  /\ UNCHANGED <<head, tail, data, next, tail_mutex, sleeping, op, new_value, got, pushes>>

\* Mutation of IsEmpty: the dummy is taken for a value.
IsEmptyNever == FALSE

IsEmpty == head = tail

\* What the function returns without popping, on its way out of the mutex.
Answer(t, answer) ==
  /\ got' = [got EXCEPT ![t] = answer]
  /\ head_mutex' = NoThread
  /\ Goto(t, "idle")

\* head.get() == get_tail(); get_tail takes tail_mutex for the one read.
Test(t) ==
  /\ pc[t] = "test"
  /\ tail_mutex = NoThread
  /\ \/ op[t] = "empty" /\ Answer(t, IF IsEmpty THEN Empty ELSE Some)
     \/ op[t] = "try_pop" /\ IsEmpty /\ Answer(t, Empty)
     \/ op[t] = "wait_and_pop" /\ IsEmpty /\ Goto(t, "block") /\ UNCHANGED <<got, head_mutex>>
     \/ op[t] # "empty" /\ ~IsEmpty /\ Goto(t, "pop") /\ UNCHANGED <<got, head_mutex>>
  /\ UNCHANGED <<head, tail, data, next, tail_mutex, sleeping, op, new_value, pushes>>

\* data_cond.wait: unlock and sleep in one step, but after the test.
Block(t) ==
  /\ pc[t] = "block"
  /\ sleeping' = sleeping \cup {t}
  /\ head_mutex' = NoThread
  /\ Goto(t, "asleep")
  /\ UNCHANGED <<head, tail, data, next, tail_mutex, op, new_value, got, pushes>>

SpuriousWakeup(t) ==
  /\ pc[t] = "asleep"
  /\ sleeping' = sleeping \ {t}
  /\ Goto(t, "lockHead")
  /\ UNCHANGED <<head, tail, data, next, head_mutex, tail_mutex, op, new_value, got, pushes>>

PopHead(t) ==
  /\ pc[t] = "pop"
  /\ got' = [got EXCEPT ![t] = data[head]]
  /\ head' = next[head]
  /\ head_mutex' = NoThread
  /\ Goto(t, "idle")
  /\ UNCHANGED <<tail, data, next, tail_mutex, sleeping, op, new_value, pushes>>

-----------------------------------------------------------------------------

QueueInit ==
  /\ head = 1
  /\ tail = 1
  /\ data = [n \in Node |-> NoValue]
  /\ next = [n \in Node |-> Null]
  /\ head_mutex = NoThread
  /\ tail_mutex = NoThread
  /\ sleeping = {}
  /\ pc = [t \in Threads |-> "idle"]
  /\ op = [t \in Threads |-> "empty"]
  /\ new_value = [t \in Threads |-> NoValue]
  /\ got = [t \in Threads |-> NoValue]
  /\ pushes = 0

PushStep(t) ==
  \/ \E v \in Values : Push(t, v)
  \/ LockTail(t) \/ SetData(t) \/ SetNext(t) \/ SetTail(t) \/ Notify(t)

PopStep(t) ==
  \/ \E o \in Ops : Pop(t, o)
  \/ LockHead(t) \/ Test(t) \/ Block(t) \/ SpuriousWakeup(t) \/ PopHead(t)

QueueNext == \E t \in Threads : PushStep(t) \/ PopStep(t)

QueueSpec == QueueInit /\ [][QueueNext]_queueVars

-----------------------------------------------------------------------------
(* What must hold.                                                         *)

\* The types; the numbers of the nodes in the list run from head to tail.
QueueTypeOK ==
  /\ head \in Node /\ tail \in Node /\ head <= tail
  /\ data \in [Node -> Values \cup {NoValue}]
  /\ next \in [Node -> Node \cup {Null}]
  /\ head_mutex \in Threads \cup {NoThread} /\ tail_mutex \in Threads \cup {NoThread}
  /\ sleeping \subseteq Threads
  /\ pc \in [Threads -> {"idle", "lockTail", "setData", "setNext", "setTail", "notify",
                         "lockHead", "test", "block", "asleep", "pop"}]
  /\ op \in [Threads -> Ops]
  /\ new_value \in [Threads -> Values \cup {NoValue}]
  /\ got \in [Threads -> Values \cup {NoValue, Empty, Some}]
  /\ pushes \in 0..MaxPushes

\* "使头尾两个节点的访问分开，以便不需要同时锁住两个互斥元" (utility.hpp:380-381): the node
\* a pop reads and destroys is never the one a push is writing, though the two
\* hold different mutexes.
HeadAndTailApart ==
  \A t, u \in Threads :
    pc[t] = "pop" /\ pc[u] \in {"setData", "setNext"} => head # tail

\* The list from head up to the dummy, as the abstract sequence.
Items == [i \in 1..(tail - head) |-> data[head + i - 1]]

F == INSTANCE Fifo WITH items <- Items, pushing <- new_value

\* The two mutexes together give what one would: a FIFO queue.
ImplementsFifo == F!FifoSpec
=============================================================================
