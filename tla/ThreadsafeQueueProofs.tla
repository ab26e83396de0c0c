------------------------ MODULE ThreadsafeQueueProofs ------------------------
(***************************************************************************)
(* Proofs about threadsafe_queue for any number of threads, values and     *)
(* calls: the types, that a pop and a push never touch the same node, and  *)
(* that the queue implements module Fifo.                                  *)
(***************************************************************************)
EXTENDS ThreadsafeQueue, FiniteSetTheorems, SequenceTheorems, TLAPS

\* The threads whose push has not taken effect yet.
Pushing == {"lockTail", "setData", "setNext", "setTail"}
Pushers == {t \in Threads : pc[t] \in Pushing}

\* Which thread holds which mutex is told by where the threads are.
MutexesHeld ==
  \A t \in Threads :
    /\ pc[t] \in {"setData", "setNext", "setTail"} <=> tail_mutex = t
    /\ pc[t] \in {"test", "block", "pop"} <=> head_mutex = t

\* All nodes before the dummy are filled and linked; the dummy as far as the
\* thread that holds tail_mutex has come.
ListLinked ==
  /\ \A n \in Node : n < tail => data[n] \in Values /\ next[n] = n + 1
  /\ \A t \in Threads :
       /\ pc[t] \in {"setNext", "setTail"} => data[tail] = new_value[t]
       /\ pc[t] = "setTail" => next[tail] = tail + 1

\* What a thread carries: the value it pushes, no answer before there is one,
\* and the knowledge that the queue is not empty.
CallsConsistent ==
  \A t \in Threads :
    /\ IF pc[t] \in Pushing THEN new_value[t] \in Values ELSE new_value[t] = NoValue
    /\ pc[t] \in {"lockHead", "test", "block", "asleep", "pop"} => got[t] = NoValue
    /\ pc[t] = "pop" => head < tail
    /\ t \in sleeping <=> pc[t] = "asleep"

\* Every call of push has linked its node or is still to link it.
PushesCounted == pushes = tail - 1 + Cardinality(Pushers)

Inv ==
  QueueTypeOK /\ MutexesHeld /\ ListLinked /\ CallsConsistent /\ PushesCounted

-----------------------------------------------------------------------------

\* There is a number left for the dummy of every push under way.
LEMMA NodeLeft ==
  ASSUME QueueTypeOK, PushesCounted, NEW t \in Pushers
  PROVE  tail + 1 \in Node
<1>1. IsFiniteSet(Pushers)
  BY FS_Subset, QueueAssumption DEF Pushers
<1>2. Cardinality(Pushers) \in Nat /\ Cardinality(Pushers) # 0
  BY <1>1, FS_CardinalityType, FS_EmptySet
<1>3. QED
  BY <1>2, QueueAssumption DEF QueueTypeOK, PushesCounted, Node

LEMMA InitHolds == QueueInit => Inv
<1> SUFFICES ASSUME QueueInit PROVE Inv
  OBVIOUS
<1> USE QueueAssumption DEF QueueInit
<1>1. QueueTypeOK
  BY DEF QueueTypeOK, Node, Null, Ops
<1>2. MutexesHeld /\ CallsConsistent
  BY DEF MutexesHeld, CallsConsistent, Pushing
<1>3. ListLinked
  BY DEF ListLinked, Node
<1>4. Pushers = {}
  BY DEF Pushers, Pushing
<1>5. PushesCounted
  BY <1>4, FS_EmptySet DEF PushesCounted
<1>6. QED
  BY <1>1, <1>2, <1>3, <1>5 DEF Inv

-----------------------------------------------------------------------------

LEMMA TypeStep == Inv /\ [QueueNext]_queueVars => QueueTypeOK'
<1> SUFFICES ASSUME Inv, [QueueNext]_queueVars PROVE QueueTypeOK'
  OBVIOUS
<1> USE QueueAssumption DEF Inv, QueueTypeOK, Node, Null, Ops, Goto, Answer
<1>1. ASSUME NEW t \in Threads, NEW v \in Values, Push(t, v)
      PROVE  QueueTypeOK'
  BY <1>1 DEF Push
<1>2. ASSUME NEW t \in Threads, LockTail(t) \/ SetData(t) \/ Notify(t)
      PROVE  QueueTypeOK'
  BY <1>2 DEF LockTail, SetData, Notify
<1>3. ASSUME NEW t \in Threads, SetNext(t) \/ SetTail(t)
      PROVE  QueueTypeOK'
  <2>1. t \in Pushers
    BY <1>3 DEF Pushers, Pushing, SetNext, SetTail
  <2>2. tail + 1 \in Node
    BY <2>1, NodeLeft
  <2>3. CASE SetNext(t)
    BY <2>2, <2>3 DEF SetNext
  <2>4. CASE SetTail(t)
    <3>1. head <= tail + 1
      OBVIOUS
    <3>2. QED
      BY <2>2, <2>4, <3>1 DEF SetTail
  <2>5. QED
    BY <1>3, <2>3, <2>4
<1>4. ASSUME NEW t \in Threads, NEW o \in Ops, Pop(t, o)
      PROVE  QueueTypeOK'
  BY <1>4 DEF Pop
<1>5. ASSUME NEW t \in Threads, LockHead(t) \/ Test(t) \/ Block(t) \/ SpuriousWakeup(t)
      PROVE  QueueTypeOK'
  BY <1>5 DEF LockHead, Test, Block, SpuriousWakeup
<1>6. ASSUME NEW t \in Threads, PopHead(t)
      PROVE  QueueTypeOK'
  <2>1. head < tail /\ data[head] \in Values /\ next[head] = head + 1
    BY <1>6 DEF PopHead, ListLinked, CallsConsistent
  <2>2. QED
    BY <1>6, <2>1 DEF PopHead
<1>7. CASE UNCHANGED queueVars
  BY <1>7 DEF queueVars
<1>8. QED
  BY <1>1, <1>2, <1>3, <1>4, <1>5, <1>6, <1>7 DEF QueueNext, PushStep, PopStep

LEMMA MutexStep == Inv /\ [QueueNext]_queueVars => MutexesHeld'
<1> SUFFICES ASSUME Inv, [QueueNext]_queueVars PROVE MutexesHeld'
  OBVIOUS
<1> USE QueueAssumption DEF Inv, QueueTypeOK, MutexesHeld, Goto, Answer
<1>1. ASSUME NEW t \in Threads, NEW v \in Values, Push(t, v)
      PROVE  MutexesHeld'
  BY <1>1 DEF Push
<1>2. ASSUME NEW t \in Threads, LockTail(t) \/ SetData(t) \/ SetNext(t) \/ SetTail(t)
      PROVE  MutexesHeld'
  BY <1>2 DEF LockTail, SetData, SetNext, SetTail, TailIsFree
<1>3. ASSUME NEW t \in Threads, Notify(t)
      PROVE  MutexesHeld'
  BY <1>3 DEF Notify, CallsConsistent
<1>4. ASSUME NEW t \in Threads, NEW o \in Ops, Pop(t, o)
      PROVE  MutexesHeld'
  BY <1>4 DEF Pop
<1>5. ASSUME NEW t \in Threads,
             LockHead(t) \/ Test(t) \/ Block(t) \/ SpuriousWakeup(t) \/ PopHead(t)
      PROVE  MutexesHeld'
  BY <1>5 DEF LockHead, HeadIsFree, Test, Block, SpuriousWakeup, PopHead
<1>6. CASE UNCHANGED queueVars
  BY <1>6 DEF queueVars
<1>7. QED
  BY <1>1, <1>2, <1>3, <1>4, <1>5, <1>6 DEF QueueNext, PushStep, PopStep

LEMMA ListStep == Inv /\ [QueueNext]_queueVars => ListLinked'
<1> SUFFICES ASSUME Inv, [QueueNext]_queueVars PROVE ListLinked'
  OBVIOUS
<1> USE QueueAssumption DEF Inv, QueueTypeOK, ListLinked, MutexesHeld, Goto, Answer
<1>1. ASSUME NEW t \in Threads, NEW v \in Values, Push(t, v)
      PROVE  ListLinked'
  BY <1>1 DEF Push
<1>2. ASSUME NEW t \in Threads, LockTail(t) \/ SetData(t) \/ SetNext(t)
      PROVE  ListLinked'
  BY <1>2 DEF LockTail, SetData, SetNext, TailIsFree, Node
<1>3. ASSUME NEW t \in Threads, SetTail(t)
      PROVE  ListLinked'
  <2>1. data[tail] \in Values /\ next[tail] = tail + 1
    BY <1>3 DEF SetTail, CallsConsistent, Pushing
  <2>2. \A u \in Threads : pc'[u] \notin {"setNext", "setTail"}
    BY <1>3 DEF SetTail
  <2>3. QED
    BY <1>3, <2>1, <2>2 DEF SetTail, Node
<1>4. ASSUME NEW t \in Threads, Notify(t)
      PROVE  ListLinked'
  BY <1>4 DEF Notify, CallsConsistent
<1>5. ASSUME NEW t \in Threads, NEW o \in Ops, Pop(t, o)
      PROVE  ListLinked'
  BY <1>5 DEF Pop
<1>6. ASSUME NEW t \in Threads,
             LockHead(t) \/ Test(t) \/ Block(t) \/ SpuriousWakeup(t) \/ PopHead(t)
      PROVE  ListLinked'
  BY <1>6 DEF LockHead, Test, Block, SpuriousWakeup, PopHead
<1>7. CASE UNCHANGED queueVars
  BY <1>7 DEF queueVars
<1>8. QED
  BY <1>1, <1>2, <1>3, <1>4, <1>5, <1>6, <1>7 DEF QueueNext, PushStep, PopStep

LEMMA CallsStep == Inv /\ [QueueNext]_queueVars => CallsConsistent'
<1> SUFFICES ASSUME Inv, [QueueNext]_queueVars PROVE CallsConsistent'
  OBVIOUS
<1> USE QueueAssumption DEF Inv, QueueTypeOK, CallsConsistent, Pushing, Goto, Answer
<1>1. ASSUME NEW t \in Threads, NEW v \in Values, Push(t, v)
      PROVE  CallsConsistent'
  BY <1>1 DEF Push
<1>2. ASSUME NEW t \in Threads, LockTail(t) \/ SetData(t) \/ SetNext(t)
      PROVE  CallsConsistent'
  BY <1>2 DEF LockTail, SetData, SetNext
<1>3. ASSUME NEW t \in Threads, SetTail(t)
      PROVE  CallsConsistent'
  BY <1>3 DEF SetTail, Node
<1>4. ASSUME NEW t \in Threads, Notify(t)
      PROVE  CallsConsistent'
  BY <1>4 DEF Notify
<1>5. ASSUME NEW t \in Threads, NEW o \in Ops, Pop(t, o)
      PROVE  CallsConsistent'
  BY <1>5 DEF Pop
<1>6. ASSUME NEW t \in Threads, LockHead(t) \/ Test(t)
      PROVE  CallsConsistent'
  BY <1>6 DEF LockHead, Test, IsEmpty, Node
<1>7. ASSUME NEW t \in Threads, Block(t) \/ SpuriousWakeup(t)
      PROVE  CallsConsistent'
  BY <1>7 DEF Block, SpuriousWakeup
<1>8. ASSUME NEW t \in Threads, PopHead(t)
      PROVE  CallsConsistent'
  BY <1>8 DEF PopHead, MutexesHeld
<1>9. CASE UNCHANGED queueVars
  BY <1>9 DEF queueVars
<1>10. QED
  BY <1>1, <1>2, <1>3, <1>4, <1>5, <1>6, <1>7, <1>8, <1>9 DEF QueueNext, PushStep, PopStep

LEMMA CountStep == Inv /\ [QueueNext]_queueVars => PushesCounted'
<1> SUFFICES ASSUME Inv, [QueueNext]_queueVars PROVE PushesCounted'
  OBVIOUS
<1>1. IsFiniteSet(Pushers) /\ Cardinality(Pushers) \in Nat
  BY FS_Subset, FS_CardinalityType, QueueAssumption DEF Pushers
<1>2. pushes \in Nat /\ tail \in Nat /\ pc = [t \in Threads |-> pc[t]]
  BY DEF Inv, QueueTypeOK, Node
<1>3. ASSUME NEW t \in Threads, NEW v \in Values, Push(t, v)
      PROVE  PushesCounted'
  <2>1. Pushers' = Pushers \cup {t} /\ t \notin Pushers
    BY <1>2, <1>3 DEF Push, Goto, Pushers, Pushing
  <2>2. Cardinality(Pushers') = Cardinality(Pushers) + 1
    BY <1>1, <2>1, FS_AddElement
  <2>3. QED
    BY <1>1, <1>2, <1>3, <2>2 DEF Push, PushesCounted, Inv
<1>4. ASSUME NEW t \in Threads, SetTail(t)
      PROVE  PushesCounted'
  <2>1. Pushers' = Pushers \ {t} /\ t \in Pushers
    BY <1>2, <1>4 DEF SetTail, Goto, Pushers, Pushing
  <2>2. Cardinality(Pushers') = Cardinality(Pushers) - 1
    BY <1>1, <2>1, FS_RemoveElement
  <2>3. QED
    BY <1>1, <1>2, <1>4, <2>2 DEF SetTail, PushesCounted, Inv
<1>5. ASSUME Pushers' = Pushers, UNCHANGED <<tail, pushes>>
      PROVE  PushesCounted'
  BY <1>5 DEF PushesCounted, Inv
<1>6. ASSUME NEW t \in Threads, LockTail(t) \/ SetData(t) \/ SetNext(t)
      PROVE  PushesCounted'
  BY <1>2, <1>5, <1>6 DEF LockTail, SetData, SetNext, Goto, Pushers, Pushing
<1>7. ASSUME NEW t \in Threads, Notify(t)
      PROVE  PushesCounted'
  BY <1>2, <1>5, <1>7 DEF Notify, Goto, Pushers, Pushing, Inv, CallsConsistent
<1>8. ASSUME NEW t \in Threads, NEW o \in Ops, Pop(t, o)
      PROVE  PushesCounted'
  BY <1>2, <1>5, <1>8 DEF Pop, Goto, Pushers, Pushing
<1>9. ASSUME NEW t \in Threads,
             LockHead(t) \/ Test(t) \/ Block(t) \/ SpuriousWakeup(t) \/ PopHead(t)
      PROVE  PushesCounted'
  BY <1>2, <1>5, <1>9
     DEF LockHead, Test, Block, SpuriousWakeup, PopHead, Goto, Answer, Pushers, Pushing
<1>10. CASE UNCHANGED queueVars
  BY <1>5, <1>10 DEF queueVars, Pushers
<1>11. QED
  BY <1>3, <1>4, <1>6, <1>7, <1>8, <1>9, <1>10 DEF QueueNext, PushStep, PopStep

-----------------------------------------------------------------------------

\* The invariant holds at every interleaving of pushes and pops.
THEOREM QueueInvariant == QueueSpec => []Inv
<1>1. Inv /\ [QueueNext]_queueVars => Inv'
  BY TypeStep, MutexStep, ListStep, CallsStep, CountStep DEF Inv
<1>2. QED
  BY InitHolds, <1>1, PTL DEF QueueSpec

\* The types, for any number of threads.
THEOREM QueueTypeCorrect == QueueSpec => []QueueTypeOK
<1>1. Inv => QueueTypeOK
  BY DEF Inv
<1>2. QED
  BY <1>1, QueueInvariant, PTL

\* A pop never destroys the node a push is writing, although one holds
\* head_mutex and the other tail_mutex.
THEOREM HeadAndTailAlwaysApart == QueueSpec => []HeadAndTailApart
<1>1. Inv => HeadAndTailApart
  BY DEF Inv, QueueTypeOK, Node, CallsConsistent, HeadAndTailApart
<1>2. QED
  BY <1>1, QueueInvariant, PTL

-----------------------------------------------------------------------------
(* The queue implements module Fifo: the push takes effect when tail moves, *)
(* the pop when head moves, the other answers when the two are compared.    *)

LEMMA ItemsAreValues ==
  ASSUME Inv
  PROVE  Items \in Seq(Values) /\ Len(Items) = tail - head
<1>1. tail - head \in Nat
  BY DEF Inv, QueueTypeOK, Node
<1>2. \A i \in 1..(tail - head) : head + i - 1 \in Node /\ head + i - 1 < tail
  BY QueueAssumption DEF Inv, QueueTypeOK, Node
<1>3. \A i \in 1..(tail - head) : data[head + i - 1] \in Values
  BY <1>2 DEF Inv, ListLinked
<1>4. Items \in [1..(tail - head) -> Values]
  BY <1>3 DEF Items
<1>5. QED
  BY <1>1, <1>4

\* A step that moves neither end and writes only the dummy.
LEMMA ItemsStay ==
  ASSUME Inv, UNCHANGED <<head, tail>>, \A n \in Node : n < tail => data'[n] = data[n]
  PROVE  Items' = Items
<1>1. \A i \in 1..(tail - head) : head + i - 1 \in Node /\ head + i - 1 < tail
  BY QueueAssumption DEF Inv, QueueTypeOK, Node
<1>2. QED
  BY <1>1 DEF Items

LEMMA PushAppends ==
  ASSUME Inv, NEW t \in Threads, SetTail(t)
  PROVE  Items' = Append(Items, new_value[t]) /\ new_value[t] # NoValue
<1>1. Items \in Seq(Values) /\ Len(Items) = tail - head
  BY ItemsAreValues
<1>2. tail' = tail + 1 /\ head' = head /\ data' = data /\ pc[t] = "setTail"
  BY DEF SetTail
<1>3. head \in Nat /\ tail \in Nat /\ head <= tail
  BY DEF Inv, QueueTypeOK, Node
<1>4. data[tail] = new_value[t] /\ new_value[t] \in Values
  BY <1>2 DEF Inv, ListLinked, CallsConsistent, Pushing
<1>5. Append(Items, new_value[t]) = [i \in 1..(tail - head) + 1 |->
                                       IF i = (tail - head) + 1 THEN new_value[t] ELSE Items[i]]
  BY <1>1
<1>6. Items' = [i \in 1..(tail - head) + 1 |-> data[head + i - 1]]
  BY <1>2, <1>3 DEF Items
<1>7. \A i \in 1..(tail - head) : Items[i] = data[head + i - 1]
  BY DEF Items
<1>8. \A i \in 1..(tail - head) + 1 :
        data[head + i - 1] = IF i = (tail - head) + 1 THEN new_value[t] ELSE Items[i]
  BY <1>3, <1>4, <1>7
<1>9. QED
  BY <1>4, <1>5, <1>6, <1>8, QueueAssumption

LEMMA PopTakesOldest ==
  ASSUME Inv, NEW t \in Threads, PopHead(t)
  PROVE  Items # <<>> /\ data[head] = Head(Items) /\ Items' = Tail(Items)
<1>1. Items \in Seq(Values) /\ Len(Items) = tail - head
  BY ItemsAreValues
<1>2. head \in Nat /\ tail \in Nat /\ head < tail
  BY DEF Inv, QueueTypeOK, Node, CallsConsistent, PopHead
<1>3. head' = head + 1 /\ tail' = tail /\ data' = data
  BY <1>2 DEF PopHead, Inv, ListLinked, QueueTypeOK
<1>4. Len(Items) > 0 /\ Items # <<>>
  BY <1>1, <1>2
<1>5. Items[1] = data[head]
  BY <1>2 DEF Items
<1>6. /\ Tail(Items) \in Seq(Values) /\ Len(Tail(Items)) = (tail - head) - 1
      /\ \A i \in 1..(tail - head) - 1 : Tail(Items)[i] = Items[i + 1]
  BY <1>1, <1>4, HeadTailProperties
<1>7. Items' = [i \in 1..(tail - head) - 1 |-> data[head + i]]
  BY <1>2, <1>3 DEF Items
<1>8. \A i \in 1..(tail - head) - 1 : Items[i + 1] = data[head + i]
  BY <1>2 DEF Items
<1>9. Items' \in Seq(Values) /\ Len(Items') = (tail - head) - 1
  <2>1. \A i \in 1..(tail - head) - 1 : data[head + i] \in Values
    BY <1>2, QueueAssumption DEF Inv, QueueTypeOK, ListLinked, Node
  <2>2. (tail - head) - 1 \in Nat
    BY <1>2
  <2>3. QED
    BY <1>7, <2>1, <2>2
<1>10. Items' = Tail(Items)
  BY <1>6, <1>7, <1>8, <1>9, SeqEqual
<1>11. QED
  BY <1>1, <1>4, <1>5, <1>10

LEMMA StepImplements == Inv /\ Inv' /\ [QueueNext]_queueVars => [F!FifoNext]_F!fifoVars
<1> SUFFICES ASSUME Inv, Inv', [QueueNext]_queueVars
             PROVE  F!FifoNext \/ UNCHANGED <<Items, new_value, got>>
  BY DEF F!fifoVars
<1> USE DEF F!FifoNext
<1>1. ASSUME NEW t \in Threads, NEW v \in Values, Push(t, v)
      PROVE  F!CallPush(t)
  <2>1. new_value[t] = NoValue
    BY <1>1 DEF Push, Inv, CallsConsistent, Pushing
  <2>2. Items' = Items
    BY <1>1, ItemsStay DEF Push
  <2>3. QED
    BY <1>1, <2>1, <2>2 DEF Push, F!CallPush
<1>2. ASSUME NEW t \in Threads, SetTail(t)
      PROVE  F!Enqueue(t)
  BY <1>2, PushAppends DEF SetTail, F!Enqueue
<1>3. ASSUME NEW t \in Threads, NEW o \in Ops, Pop(t, o)
      PROVE  F!CallPop(t)
  <2>1. Items' = Items
    BY <1>3, ItemsStay DEF Pop
  <2>2. QED
    BY <1>3, <2>1 DEF Pop, F!CallPop
<1>4. ASSUME NEW t \in Threads, Test(t)
      PROVE  F!Look(t) \/ UNCHANGED <<Items, new_value, got>>
  <2>1. Items' = Items
    BY <1>4, ItemsStay DEF Test
  <2>2. IsEmpty <=> Items = <<>>
    BY ItemsAreValues DEF IsEmpty, Inv, QueueTypeOK, Node
  <2>3. got[t] = NoValue
    BY <1>4 DEF Test, Inv, CallsConsistent
  <2>4. QED
    BY <1>4, <2>1, <2>2, <2>3 DEF Test, Answer, F!Look
<1>5. ASSUME NEW t \in Threads, PopHead(t)
      PROVE  F!Dequeue(t)
  <2>1. got[t] = NoValue
    BY <1>5 DEF PopHead, Inv, CallsConsistent
  <2>2. QED
    BY <1>5, <2>1, PopTakesOldest DEF PopHead, F!Dequeue
<1>6. ASSUME NEW t \in Threads, SetData(t)
      PROVE  UNCHANGED <<Items, new_value, got>>
  <2>1. \A n \in Node : n < tail => data'[n] = data[n]
    BY <1>6 DEF SetData, Inv, QueueTypeOK, Node
  <2>2. QED
    BY <1>6, <2>1, ItemsStay DEF SetData
<1>7. ASSUME NEW t \in Threads, LockTail(t) \/ SetNext(t) \/ Notify(t)
      PROVE  UNCHANGED <<Items, new_value, got>>
  BY <1>7, ItemsStay DEF LockTail, SetNext, Notify
<1>8. ASSUME NEW t \in Threads, LockHead(t) \/ Block(t) \/ SpuriousWakeup(t)
      PROVE  UNCHANGED <<Items, new_value, got>>
  BY <1>8, ItemsStay DEF LockHead, Block, SpuriousWakeup
<1>9. CASE UNCHANGED queueVars
  BY <1>9, ItemsStay DEF queueVars
<1>10. QED
  BY <1>1, <1>2, <1>3, <1>4, <1>5, <1>6, <1>7, <1>8, <1>9 DEF QueueNext, PushStep, PopStep

\* Two mutexes give what one would: every push is appended once, every pop takes
\* the oldest value, and the answer "empty" is true when it is given.
THEOREM QueueImplementsFifo == QueueSpec => ImplementsFifo
<1>1. QueueInit => F!FifoInit
  <2> SUFFICES ASSUME QueueInit PROVE F!FifoInit
    OBVIOUS
  <2>1. Items = <<>>
    BY DEF QueueInit, Items
  <2>2. QED
    BY <2>1 DEF QueueInit, F!FifoInit
<1>2. Inv /\ Inv' /\ [QueueNext]_queueVars => [F!FifoNext]_F!fifoVars
  BY StepImplements
<1>3. QED
  BY <1>1, <1>2, QueueInvariant, PTL DEF QueueSpec, ImplementsFifo, F!FifoSpec
=============================================================================
