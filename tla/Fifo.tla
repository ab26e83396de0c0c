-------------------------------- MODULE Fifo ---------------------------------
(***************************************************************************)
(* What threadsafe_queue (utility.hpp:376-507) promises its callers: a     *)
(* sequence of values.  push appends the value of its call once, a pop     *)
(* that succeeds takes the oldest, one that fails and empty() tell the     *)
(* truth, each at one instant between call and return.                     *)
(***************************************************************************)
EXTENDS Sequences

CONSTANTS Threads, Values,
          NoValue,  \* nothing to push, nothing returned yet
          Empty,    \* the queue was empty
          Some      \* the queue was not empty

VARIABLES
  items,    \* the values in the queue, oldest first
  pushing,  \* the value of a thread's push that has not taken effect yet
  got       \* what a thread's last pop or empty() returned

fifoVars == <<items, pushing, got>>

FifoInit ==
  /\ items = <<>>
  /\ pushing = [t \in Threads |-> NoValue]
  /\ got = [t \in Threads |-> NoValue]

CallPush(t) ==
  /\ pushing[t] = NoValue
  /\ \E v \in Values : pushing' = [pushing EXCEPT ![t] = v]
  /\ UNCHANGED <<items, got>>

Enqueue(t) ==
  /\ pushing[t] # NoValue
  /\ items' = Append(items, pushing[t])
  /\ pushing' = [pushing EXCEPT ![t] = NoValue]
  /\ UNCHANGED got

CallPop(t) ==
  /\ got' = [got EXCEPT ![t] = NoValue]
  /\ UNCHANGED <<items, pushing>>

Dequeue(t) ==
  /\ items # <<>>
  /\ got[t] = NoValue
  /\ got' = [got EXCEPT ![t] = Head(items)]
  /\ items' = Tail(items)
  /\ UNCHANGED pushing

Look(t) ==
  /\ got[t] = NoValue
  /\ got' = [got EXCEPT ![t] = IF items = <<>> THEN Empty ELSE Some]
  /\ UNCHANGED <<items, pushing>>

FifoNext ==
  \E t \in Threads : CallPush(t) \/ Enqueue(t) \/ CallPop(t) \/ Dequeue(t) \/ Look(t)

FifoSpec == FifoInit /\ [][FifoNext]_fifoVars
=============================================================================
