------------------------------ MODULE SnowFlake ------------------------------
(***************************************************************************)
(* CSnowFlake (utility.cpp:57-121, utility.hpp:161-187), the source of     *)
(* request ids and room ids: get_sid() called by several threads.  A key   *)
(* keeps its timestamp and its serial number; the machine number between   *)
(* them is the same in every key of one generator.                         *)
(*                                                                         *)
(* When the serial numbers of a timestamp run out, get_sid sleeps, unlocks *)
(* m_mtx by calling the destructor of its guard, and calls itself; the     *)
(* guard is destroyed once more on return.  Unlocking a mutex another      *)
(* thread holds frees it (what a plain pthread mutex does).                *)
(***************************************************************************)
EXTENDS Integers, FiniteSets, Sequences

CONSTANTS
  Threads,
  MaxSerial,   \* m_nMaxSerialNum: 4095
  SecondLen,   \* milliseconds in a second: 1000
  MaxTime,     \* bound on the clock
  MaxIds       \* bound on the calls

ASSUME SnowFlakeAssumption ==
  /\ MaxSerial \in Nat \ {0} /\ SecondLen \in Nat \ {0}
  /\ MaxTime \in Nat /\ MaxIds \in Nat

VARIABLES
  now,       \* milliseconds since the generator was made
  m_nKey, m_nLast_ms_ts,
  m_mtx,     \* TRUE while the mutex is locked
  pc, cur, serial, since,   \* locals of get_sid, per thread
  pending,   \* guards of outer calls a thread has yet to destroy again
  issued,    \* the ids returned, oldest first
  slept,     \* whether a call has found the serial numbers exhausted
  callers    \* the threads that have called

sfVars == <<now, m_nKey, m_nLast_ms_ts, m_mtx, pc, cur, serial, since, pending, issued, slept, callers>>

Key == [ts : Nat, serial : 0..MaxSerial]
Before(k, l) == k.ts < l.ts \/ (k.ts = l.ts /\ k.serial < l.serial)

\* get_ms_ts: seconds plus the milliseconds of the current second.
GetMsTs(ms) == (ms \div SecondLen) + (ms % SecondLen)

InSection(t) == pc[t] \in {"clock", "compare", "fresh", "bump", "sleep", "unlock"}

-----------------------------------------------------------------------------

Call(t) ==
  /\ pc[t] = "idle"
  /\ Len(issued) < MaxIds
  /\ pc' = [pc EXCEPT ![t] = "lock"]
  /\ callers' = callers \cup {t}
  /\ UNCHANGED <<now, m_nKey, m_nLast_ms_ts, m_mtx, cur, serial, since, pending, issued, slept>>

\* Mutation of CanLock: the guard is missing.
CanLockAlways == TRUE

CanLock == ~m_mtx

Lock(t) ==
  /\ pc[t] = "lock"
  /\ CanLock
  /\ m_mtx' = TRUE
  /\ pc' = [pc EXCEPT ![t] = "clock"]
  /\ UNCHANGED <<now, m_nKey, m_nLast_ms_ts, cur, serial, since, pending, issued,
                 slept, callers>>

ReadClock(t) ==
  /\ pc[t] = "clock"
  /\ cur' = [cur EXCEPT ![t] = GetMsTs(now)]
  /\ pc' = [pc EXCEPT ![t] = "compare"]
  /\ UNCHANGED <<now, m_nKey, m_nLast_ms_ts, m_mtx, serial, since, pending, issued,
                 slept, callers>>

\* Mutation of Newer: any other timestamp is taken, an earlier one too.
NewerIfDifferent(t) == cur[t] # m_nLast_ms_ts

Newer(t) == cur[t] > m_nLast_ms_ts

\* Mutation of Exhausted: the serial number may pass its field.
ExhaustedLate(k) == k.serial > MaxSerial

Exhausted(k) == k.serial + 1 > MaxSerial

Compare(t) ==
  /\ pc[t] = "compare"
  /\ pc' = [pc EXCEPT ![t] = IF Newer(t) THEN "fresh"
                             ELSE IF Exhausted(m_nKey) THEN "sleep" ELSE "bump"]
  /\ serial' = [serial EXCEPT ![t] = m_nKey.serial]
  /\ since' = [since EXCEPT ![t] = now]
  /\ slept' = (slept \/ (~Newer(t) /\ Exhausted(m_nKey)))
  /\ UNCHANGED <<now, m_nKey, m_nLast_ms_ts, m_mtx, cur, pending, issued, callers>>

Return(t, key) ==
  /\ m_nKey' = key
  /\ issued' = Append(issued, key)
  /\ pc' = [pc EXCEPT ![t] = "unlock"]
  /\ UNCHANGED <<now, m_mtx, cur, serial, since, pending, slept, callers>>

Fresh(t) ==
  /\ pc[t] = "fresh"
  /\ m_nLast_ms_ts' = cur[t]
  /\ Return(t, [ts |-> cur[t], serial |-> 0])

Bump(t) ==
  /\ pc[t] = "bump"
  /\ Return(t, [ts |-> m_nKey.ts, serial |-> serial[t] + 1])
  /\ UNCHANGED m_nLast_ms_ts

\* sleep_for(1ms), then lck.~lock_guard() and the recursive call.
WakeAndRetry(t) ==
  /\ pc[t] = "sleep"
  /\ now > since[t]
  /\ m_mtx' = FALSE
  /\ pending' = [pending EXCEPT ![t] = @ + 1]
  /\ pc' = [pc EXCEPT ![t] = "lock"]
  /\ UNCHANGED <<now, m_nKey, m_nLast_ms_ts, cur, serial, since, issued, slept,
                 callers>>

\* A guard goes out of scope: this call's, then those of the calls around it.
Unlock(t) ==
  /\ pc[t] = "unlock"
  /\ m_mtx' = FALSE
  /\ pc' = [pc EXCEPT ![t] = IF pending[t] = 0 THEN "idle" ELSE "unlock"]
  /\ pending' = [pending EXCEPT ![t] = IF @ = 0 THEN 0 ELSE @ - 1]
  /\ UNCHANGED <<now, m_nKey, m_nLast_ms_ts, cur, serial, since, issued, slept,
                 callers>>

Tick ==
  /\ now < MaxTime
  /\ now' = now + 1
  /\ UNCHANGED <<m_nKey, m_nLast_ms_ts, m_mtx, pc, cur, serial, since, pending, issued, slept,
                 callers>>

-----------------------------------------------------------------------------

SnowFlakeInit ==
  /\ now = 0
  /\ m_nKey = [ts |-> GetMsTs(0), serial |-> 0]
  /\ m_nLast_ms_ts = GetMsTs(0)
  /\ m_mtx = FALSE
  /\ pc = [t \in Threads |-> "idle"]
  /\ cur = [t \in Threads |-> 0]
  /\ serial = [t \in Threads |-> 0]
  /\ since = [t \in Threads |-> 0]
  /\ pending = [t \in Threads |-> 0]
  /\ issued = <<>>
  /\ slept = FALSE
  /\ callers = {}

GetSid(t) ==
  Call(t) \/ Lock(t) \/ ReadClock(t) \/ Compare(t) \/ Fresh(t) \/ Bump(t)
    \/ WakeAndRetry(t) \/ Unlock(t)

SnowFlakeNext == Tick \/ \E t \in Threads : GetSid(t)

SnowFlakeSpec == SnowFlakeInit /\ [][SnowFlakeNext]_sfVars

-----------------------------------------------------------------------------
(* What must hold.                                                         *)

\* The types: a serial number stays within its 12 bits, at any interleaving.
SnowFlakeTypeOK ==
  /\ now \in Nat
  /\ m_nKey \in Key /\ m_nLast_ms_ts \in Nat
  /\ m_mtx \in BOOLEAN /\ slept \in BOOLEAN
  /\ pc \in [Threads -> {"idle", "lock", "clock", "compare", "fresh", "bump", "sleep", "unlock"}]
  /\ cur \in [Threads -> Nat] /\ since \in [Threads -> Nat] /\ pending \in [Threads -> Nat]
  /\ serial \in [Threads -> 0..MaxSerial]
  /\ \A t \in Threads : pc[t] = "bump" => serial[t] < MaxSerial
  /\ issued \in Seq(Key)
  /\ callers \subseteq Threads

Increasing == \A i, j \in DOMAIN issued : i < j => Before(issued[i], issued[j])

\* As long as no call has found the serial numbers exhausted, the ids of all
\* threads together increase, although the timestamp falls back by almost a
\* second's worth whenever a second ends.
IncreasingUntilExhausted == ~slept => Increasing

\* For a single caller, which is all each program has (the user interface
\* thread of the client, the task thread of the server), unlocking twice is
\* harmless: the ids increase through any number of exhaustions.
IncreasingForOneCaller == Cardinality(callers) <= 1 => Increasing

\* "任务id，唯一表示本次任务" (utility.hpp:135): no id is issued twice.
IdsUnique == \A i, j \in DOMAIN issued : issued[i] = issued[j] => i = j
=============================================================================
