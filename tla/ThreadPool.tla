----------------------------- MODULE ThreadPool ------------------------------
(***************************************************************************)
(* thread_pool and the two algorithms that use it (utility.hpp:552-735):   *)
(* parallel_quick_sort, whose do_sort waits for tasks of the pool it runs  *)
(* in and executes pending tasks meanwhile, and                            *)
(* parallel_accumulate_using_thread_pool, which only waits; and the two    *)
(* that start a thread for each block but the last and join them           *)
(* (utility.hpp:211-347): parallel_accumulate and parallel_for_each, which *)
(* is the same with a function applied in place of the sum.                *)
(*                                                                         *)
(* The queue of the pool is threadsafe_queue, used through push and        *)
(* try_pop: by module ThreadsafeQueue each is one step on a sequence.  A   *)
(* chunk is a set of elements; the order std::partition leaves it in is    *)
(* open, so any element may be the next pivot.                             *)
(***************************************************************************)
EXTENDS Integers, Sequences, FiniteSets, FiniteSetsExt

CONSTANTS
  Main,        \* the thread that called the algorithm
  Workers,     \* the threads the pool may start
  Key,         \* the list: element i has value Key[i]
  BlockSize    \* elements of a task of the sum: 25; min_per_thread: 100000

ASSUME PoolAssumption ==
  /\ Main \notin Workers /\ IsFiniteSet(Workers)
  /\ Key \in Seq(Nat) \ {<<>>}   \* neither algorithm starts a pool for an empty range
  /\ BlockSize \in Nat \ {0}

VARIABLES
  mode,        \* the algorithm called
  blocks,      \* how many blocks the sum has
  started,     \* the threads started: those of the pool are as many as
               \* hardware_concurrency() says, maybe none
  work_queue,  \* tasks not taken yet
  futures,     \* the futures handed out: NotReady, or the result
  stack,       \* per thread, its calls of do_sort, the innermost last
  got,         \* how many futures the sum has taken
  result,      \* what the algorithm returns
  done,        \* set by ~thread_pool
  ended        \* threads that have returned

poolVars == <<mode, blocks, started, work_queue, futures, stack, got, result, done, ended>>

Threads == Workers \cup {Main}
NotReady == [ready |-> FALSE, value |-> <<>>]
Ready(v) == [ready |-> TRUE, value |-> v]
NoTask == 0
Elements == DOMAIN Key

\* A call of do_sort: the task it is, or NoTask for the call do_sort makes of
\* itself; what it sorts; the pivot; the task for the lower part.
Frame(task, chunk) ==
  [task |-> task, chunk |-> chunk, pc |-> "begin", pivot |-> 0, lower |-> NoTask, higher |-> <<>>]

Top(t) == stack[t][Len(stack[t])]
Below(t) == SubSeq(stack[t], 1, Len(stack[t]) - 1)
SetTop(t, frame) == Below(t) \o <<frame>>

-----------------------------------------------------------------------------
(* The pool.                                                               *)

Task(id, chunk) == [id |-> id, chunk |-> chunk]

\* submit_wait_result
Submit(chunk) ==
  /\ work_queue' = Append(work_queue, Task(Len(futures) + 1, chunk))
  /\ futures' = Append(futures, NotReady)

SumOf(chunk) == MapThenSumSet(LAMBDA i : Key[i], chunk)

\* Mutation of TakeFrom: the task is left in the queue.
TakeAndLeave(queue) == queue

TakeFrom(queue) == Tail(queue)

\* try_pop succeeds and the task is called.
RunTask(t) ==
  LET task == Head(work_queue)
  IN  /\ work_queue # <<>>
      /\ work_queue' = TakeFrom(work_queue)
      /\ IF mode = "sort"
         THEN /\ stack' = [stack EXCEPT ![t] = Append(@, Frame(task.id, task.chunk))]
              /\ UNCHANGED futures
         ELSE /\ futures' = [futures EXCEPT ![task.id] = Ready(SumOf(task.chunk))]
              /\ UNCHANGED stack

\* worker_thread, between two tasks
WorkerRuns(t) ==
  /\ t \in started \ ended
  /\ stack[t] = <<>>
  /\ ~done
  /\ RunTask(t)
  /\ UNCHANGED <<mode, blocks, started, got, result, done, ended>>

WorkerEnds(t) ==
  /\ t \in started \ ended
  /\ stack[t] = <<>>
  /\ done
  /\ ended' = ended \cup {t}
  /\ UNCHANGED <<mode, blocks, started, work_queue, futures, stack, got, result, done>>

-----------------------------------------------------------------------------
(* sorter::do_sort                                                         *)

\* The innermost call of t returns sorted: to the future of its task, to the
\* call that made it, or to the caller of the algorithm.
Returns(t, sorted) ==
  LET caller == stack[t][Len(stack[t]) - 1]
  IN  IF Top(t).task # NoTask
      THEN /\ futures' = [futures EXCEPT ![Top(t).task] = Ready(sorted)]
           /\ stack' = [stack EXCEPT ![t] = Below(t)]
           /\ UNCHANGED result
      ELSE IF Len(stack[t]) = 1
      THEN /\ result' = sorted
           /\ stack' = [stack EXCEPT ![t] = <<>>]
           /\ UNCHANGED futures
      ELSE /\ stack' = [stack EXCEPT ![t] =
                          SubSeq(@, 1, Len(@) - 2)
                            \o <<[caller EXCEPT !.pc = "wait", !.higher = sorted]>>]
           /\ UNCHANGED <<futures, result>>

InSort(t, pc) == stack[t] # <<>> /\ Top(t).pc = pc

ReturnEmpty(t) ==
  /\ InSort(t, "begin")
  /\ Top(t).chunk = {}
  /\ Returns(t, <<>>)
  /\ UNCHANGED <<mode, blocks, started, work_queue, got, done, ended>>

\* Mutation of Higher: equal elements are dropped from both parts.
HigherOnly(chunk, p) == {x \in chunk : Key[x] > Key[p]}

\* The elements that std::partition leaves behind the divide point.
Higher(chunk, p) == {x \in chunk \ {p} : ~(Key[x] < Key[p])}

\* Partition, submit the lower part, and call do_sort for the rest.
Split(t) ==
  /\ InSort(t, "begin")
  /\ \E p \in Top(t).chunk :
       LET f == Top(t)
           higher == Higher(f.chunk, p)
           lower == {x \in f.chunk : Key[x] < Key[p]}
       IN  /\ Submit(lower)
           /\ stack' = [stack EXCEPT ![t] =
                          SetTop(t, [f EXCEPT !.pc = "higher", !.pivot = p,
                                              !.lower = Len(futures) + 1])
                            \o <<Frame(NoTask, higher)>>]
  /\ UNCHANGED <<mode, blocks, started, got, result, done, ended>>

LowerReady(t) == futures[Top(t).lower].ready

Merged(lower, p, higher) == lower \o <<p>> \o higher

Merge(t) ==
  /\ InSort(t, "wait")
  /\ LowerReady(t)
  /\ Returns(t, Merged(futures[Top(t).lower].value, Top(t).pivot, Top(t).higher))
  /\ UNCHANGED <<mode, blocks, started, work_queue, got, done, ended>>

\* Mutation of MayHelp: the call only waits.
NeverHelps(t) == FALSE

MayHelp(t) == InSort(t, "wait") /\ ~LowerReady(t)

\* run_pending_task; with nothing pending it yields.
Help(t) ==
  /\ MayHelp(t)
  /\ RunTask(t)
  /\ UNCHANGED <<mode, blocks, started, got, result, done, ended>>

-----------------------------------------------------------------------------
(* The sums: parallel_accumulate_using_thread_pool and parallel_accumulate. *)

BlocksOfMinSize == (Len(Key) + BlockSize - 1) \div BlockSize

\* block_size = length / num_threads; the pool's blocks have a fixed size.
SizeOfBlock == IF mode = "spawn" THEN Len(Key) \div blocks ELSE BlockSize

\* Block i, counted from 1.
Block(i) == ((i - 1) * SizeOfBlock + 1) .. (i * SizeOfBlock)

LastBlock == ((blocks - 1) * SizeOfBlock + 1) .. Len(Key)

\* How many threads parallel_accumulate uses, its caller included.
NumThreads ==
  {Min({IF hardware # 0 THEN hardware ELSE 2, BlocksOfMinSize}) :
     hardware \in 0..Cardinality(Workers) + 1}

SubmitBlock ==
  /\ mode = "sum" /\ Main \notin ended
  /\ Len(futures) < blocks - 1
  /\ Submit(Block(Len(futures) + 1) \cap Elements)
  /\ UNCHANGED <<mode, blocks, started, stack, got, result, done, ended>>

\* A thread of its own for block i: the task is in it at once.
SpawnBlock ==
  /\ mode = "spawn"
  /\ Len(futures) < blocks - 1
  /\ \E w \in Workers \ started :
       /\ started' = started \cup {w}
       /\ stack' = [stack EXCEPT ![w] =
                      <<[Frame(Len(futures) + 1, Block(Len(futures) + 1)) EXCEPT !.pc = "block"]>>]
  /\ futures' = Append(futures, NotReady)
  /\ UNCHANGED <<mode, blocks, work_queue, got, result, done, ended>>

\* The thread sums its block up and returns.
RunBlock(t) ==
  /\ InSort(t, "block")
  /\ futures' = [futures EXCEPT ![Top(t).task] = Ready(SumOf(Top(t).chunk))]
  /\ stack' = [stack EXCEPT ![t] = <<>>]
  /\ ended' = ended \cup {t}
  /\ UNCHANGED <<mode, blocks, started, work_queue, got, result, done>>

\* futures[i].get(), in order; the last block is the caller's own.
GetBlock ==
  /\ mode # "sort" /\ ~done
  /\ Len(futures) = blocks - 1
  /\ got < blocks - 1 /\ futures[got + 1].ready
  /\ got' = got + 1
  /\ result' = result + futures[got + 1].value
  /\ UNCHANGED <<mode, blocks, started, work_queue, futures, stack, done, ended>>

AddLast ==
  /\ mode # "sort"
  /\ Len(futures) = blocks - 1 /\ got = blocks - 1
  /\ got' = blocks
  /\ result' = result + SumOf(LastBlock)
  /\ UNCHANGED <<mode, blocks, started, work_queue, futures, stack, done, ended>>

-----------------------------------------------------------------------------
(* The caller: ~thread_pool sets done, the joiner waits for the threads.   *)

\* Mutation of Finished: the pool goes as soon as everything is submitted.
FinishedOnSubmit ==
  IF mode = "sort" THEN stack[Main] = <<>> ELSE Len(futures) = blocks - 1

Finished == IF mode = "sort" THEN stack[Main] = <<>> ELSE got = blocks

Shutdown ==
  /\ ~done
  /\ Finished
  /\ done' = TRUE
  /\ UNCHANGED <<mode, blocks, started, work_queue, futures, stack, got, result, ended>>

Join ==
  /\ done
  /\ started \subseteq ended
  /\ Main \notin ended
  /\ ended' = ended \cup {Main}
  /\ UNCHANGED <<mode, blocks, started, work_queue, futures, stack, got, result, done>>

\* parallel_quick_sort: a sorter, and its do_sort for the whole list.
SortCall == <<Frame(NoTask, Elements)>>

PoolInit ==
  /\ mode \in {"sort", "sum", "spawn"}
  /\ blocks \in IF mode = "spawn" THEN NumThreads ELSE {BlocksOfMinSize}
  /\ started \in IF mode = "spawn" THEN {{}} ELSE SUBSET Workers
  /\ work_queue = <<>>
  /\ futures = <<>>
  /\ stack = [t \in Threads |->
                IF mode = "sort" /\ t = Main THEN SortCall ELSE <<>>]
  /\ got = 0
  /\ result = IF mode = "sort" THEN <<>> ELSE 0
  /\ done = FALSE
  /\ ended = {}

DoSort(t) == ReturnEmpty(t) \/ Split(t) \/ Merge(t) \/ Help(t)

WorkerThread(t) == WorkerRuns(t) \/ WorkerEnds(t) \/ DoSort(t) \/ RunBlock(t)

MainThread == DoSort(Main) \/ SubmitBlock \/ SpawnBlock \/ GetBlock \/ AddLast \/ Shutdown \/ Join

PoolNext == MainThread \/ \E t \in Workers : WorkerThread(t)

\* Every thread the program has started goes on running.
PoolSpec ==
  /\ PoolInit /\ [][PoolNext]_poolVars
  /\ WF_poolVars(MainThread)
  /\ \A t \in Workers : WF_poolVars(WorkerThread(t))

-----------------------------------------------------------------------------
(* What must hold.                                                         *)

Running(id) == {t \in Threads : \E i \in DOMAIN stack[t] : stack[t][i].task = id}
Queued(id) == {i \in DOMAIN work_queue : work_queue[i].id = id}

\* Every task is in exactly one place: in the queue, in one call of one thread
\* or finished.  A promise is never set twice, and none is forgotten.
EachTaskOnce ==
  \A id \in DOMAIN futures :
    Cardinality(Queued(id)) + Cardinality(Running(id)) + (IF futures[id].ready THEN 1 ELSE 0) = 1

\* The value is right: a sorted arrangement of all elements, equal ones
\* included, or the sum of all of them.
ResultRight ==
  done => IF mode # "sort"
          THEN result = SumOf(Elements)
          ELSE /\ Len(result) = Len(Key) /\ {result[i] : i \in DOMAIN result} = Elements
               /\ \A i, j \in DOMAIN result : i < j => Key[result[i]] <= Key[result[j]]

\* ~thread_pool drops what is still in the queue and the workers stop between
\* two tasks: when it runs, nothing is left that somebody waits for.
NothingLeftAtShutdown ==
  done => work_queue = <<>> /\ \A id \in DOMAIN futures : futures[id].ready

\* "等待任务的线程池" (utility.hpp:509): calls that wait for tasks of their own
\* pool do not wait for each other; the sort returns with any number of
\* workers, none included, the pool's sum with at least one, and the sum with
\* threads of its own whatever hardware_concurrency() says.
AlgorithmReturns == mode # "sum" \/ started # {} ~> Main \in ended
=============================================================================
