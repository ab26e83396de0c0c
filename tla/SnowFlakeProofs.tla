--------------------------- MODULE SnowFlakeProofs ---------------------------
(***************************************************************************)
(* Proofs about get_sid() for any number of threads, serial numbers and    *)
(* milliseconds: the types, and the order of the ids while no call has     *)
(* found the serial numbers exhausted, or while one thread alone calls.    *)
(***************************************************************************)
EXTENDS SnowFlake, FiniteSetTheorems, TLAPS

\* Why the ids increase before the first exhaustion: the section is exclusive
\* and the mutex marks it, the key holds the last timestamp and the last id,
\* and what a thread in the section has read is still so.
Exclusive ==
  /\ \A t \in Threads : pending[t] = 0 /\ pc[t] # "sleep"
  /\ \A t \in Threads : InSection(t) => m_mtx
  /\ \A t, u \in Threads : InSection(t) /\ InSection(u) => t = u

KeyIsLast ==
  /\ m_nKey.ts = m_nLast_ms_ts
  /\ \A i \in DOMAIN issued : issued[i] = m_nKey \/ Before(issued[i], m_nKey)

ReadIsCurrent ==
  \A t \in Threads : /\ pc[t] = "fresh" => cur[t] > m_nLast_ms_ts
                     /\ pc[t] = "bump" => serial[t] = m_nKey.serial

Inv ==
  /\ SnowFlakeTypeOK
  /\ ~slept => Exclusive /\ KeyIsLast /\ ReadIsCurrent /\ Increasing

-----------------------------------------------------------------------------

\* The clock reading is a natural number.
LEMMA GetMsTsNat == \A ms \in Nat : GetMsTs(ms) \in Nat
<1> SUFFICES ASSUME NEW ms \in Nat PROVE GetMsTs(ms) \in Nat
  OBVIOUS
<1> SecondLen \in Nat /\ SecondLen > 0
  BY SnowFlakeAssumption
<1>1. ms \div SecondLen \in Nat
  BY SMT
<1>2. ms % SecondLen \in Nat
  BY SMT
<1> QED BY <1>1, <1>2 DEF GetMsTs

\* Appending an id above the last one keeps the ids in order.
LEMMA AppendAbove ==
  ASSUME SnowFlakeTypeOK, Increasing,
         NEW k \in Key,
         \A i \in DOMAIN issued : Before(issued[i], k),
         issued' = Append(issued, k)
  PROVE  /\ Increasing'
         /\ \A i \in DOMAIN issued' : issued'[i] = k \/ Before(issued'[i], k)
<1>1. issued \in Seq(Key) /\ DOMAIN issued = 1..Len(issued) /\ Len(issued) \in Nat
  BY DEF SnowFlakeTypeOK
<1>2. DOMAIN issued' = 1..Len(issued) + 1
  BY <1>1
<1>3. \A i \in 1..Len(issued) : issued'[i] = issued[i]
  BY <1>1
<1>4. issued'[Len(issued) + 1] = k
  BY <1>1
<1>5. Increasing'
  <2> SUFFICES ASSUME NEW i \in DOMAIN issued', NEW j \in DOMAIN issued', i < j
               PROVE  Before(issued'[i], issued'[j])
    BY DEF Increasing, Before
  <2>1. i \in 1..Len(issued)
    BY <1>1, <1>2
  <2>2. CASE j = Len(issued) + 1
    BY <2>1, <2>2, <1>1, <1>3, <1>4
  <2>3. CASE j \in 1..Len(issued)
    BY <2>1, <2>3, <1>1, <1>3 DEF Increasing
  <2> QED BY <2>2, <2>3, <1>1, <1>2
<1>6. \A i \in DOMAIN issued' : issued'[i] = k \/ Before(issued'[i], k)
  BY <1>1, <1>2, <1>3, <1>4
<1> QED BY <1>5, <1>6

\* The first id of a later timestamp is above every id returned.
LEMMA FreshIsLast ==
  ASSUME SnowFlakeTypeOK, KeyIsLast, ReadIsCurrent, Increasing,
         NEW t \in Threads, Fresh(t)
  PROVE  Increasing' /\ KeyIsLast'
<1> DEFINE k == [ts |-> cur[t], serial |-> 0]
<1>1. k \in Key /\ cur[t] > m_nLast_ms_ts /\ pc[t] = "fresh"
  BY SnowFlakeAssumption DEF Fresh, SnowFlakeTypeOK, Key, ReadIsCurrent
<1>2. m_nKey' = k /\ issued' = Append(issued, k) /\ m_nLast_ms_ts' = k.ts
  BY DEF Fresh, Return
<1>3. \A i \in DOMAIN issued : Before(issued[i], k)
  <2> SUFFICES ASSUME NEW i \in DOMAIN issued PROVE Before(issued[i], k)
    OBVIOUS
  <2>1. issued[i] \in Key /\ m_nKey \in Key
    BY DEF SnowFlakeTypeOK
  <2>2. issued[i].ts \in Nat /\ m_nKey.ts \in Nat /\ issued[i].ts <= m_nKey.ts
    BY <2>1 DEF KeyIsLast, Before, Key
  <2>3. cur[t] \in Nat /\ issued[i].ts < cur[t]
    BY <1>1, <2>2 DEF KeyIsLast, SnowFlakeTypeOK
  <2> QED BY <2>3 DEF Before
<1> QED BY <1>1, <1>2, <1>3, AppendAbove DEF KeyIsLast

\* The next serial number of the last timestamp is above every id returned.
LEMMA BumpIsLast ==
  ASSUME SnowFlakeTypeOK, KeyIsLast, ReadIsCurrent, Increasing,
         NEW t \in Threads, Bump(t)
  PROVE  Increasing' /\ KeyIsLast'
<1> DEFINE k == [ts |-> m_nKey.ts, serial |-> serial[t] + 1]
<1>1. k \in Key /\ k.ts = m_nKey.ts /\ k.serial = m_nKey.serial + 1
  <2>1. serial[t] \in 0..MaxSerial /\ serial[t] < MaxSerial /\ serial[t] = m_nKey.serial
    BY DEF Bump, SnowFlakeTypeOK, ReadIsCurrent
  <2>2. m_nKey.ts \in Nat
    BY DEF SnowFlakeTypeOK, Key
  <2> QED BY <2>1, <2>2, SnowFlakeAssumption DEF Key
<1>2. m_nKey' = k /\ issued' = Append(issued, k) /\ m_nLast_ms_ts' = k.ts
  BY <1>1 DEF Bump, Return, KeyIsLast
<1> HIDE DEF k
<1>3. \A i \in DOMAIN issued : Before(issued[i], k)
  <2> SUFFICES ASSUME NEW i \in DOMAIN issued PROVE Before(issued[i], k)
    OBVIOUS
  <2>1. issued[i] \in Key /\ m_nKey \in Key
    BY DEF SnowFlakeTypeOK
  <2>2. /\ issued[i].ts \in Nat /\ issued[i].serial \in Int
        /\ m_nKey.ts \in Nat /\ m_nKey.serial \in Int
    BY <2>1, SnowFlakeAssumption DEF Key
  <2>3. \/ issued[i].ts < m_nKey.ts
        \/ issued[i].ts = m_nKey.ts /\ issued[i].serial <= m_nKey.serial
    BY <2>2 DEF KeyIsLast, Before
  <2> QED BY <1>1, <2>2, <2>3 DEF Before
<1> QED BY <1>1, <1>2, <1>3, AppendAbove DEF KeyIsLast

-----------------------------------------------------------------------------

LEMMA InitInv == SnowFlakeInit => Inv
<1> SUFFICES ASSUME SnowFlakeInit PROVE Inv
  OBVIOUS
<1>1. GetMsTs(0) \in Nat
  BY GetMsTsNat
<1>2. m_nKey \in Key
  BY <1>1, SnowFlakeAssumption DEF SnowFlakeInit, Key
<1>3. issued \in Seq(Key)
  BY DEF SnowFlakeInit
<1>4. serial \in [Threads -> 0..MaxSerial]
  BY SnowFlakeAssumption DEF SnowFlakeInit
<1>5. pc \in [Threads -> {"idle", "lock", "clock", "compare", "fresh", "bump", "sleep",
                          "unlock"}]
  BY DEF SnowFlakeInit
<1>6. /\ m_nLast_ms_ts \in Nat /\ now \in Nat
      /\ cur \in [Threads -> Nat] /\ since \in [Threads -> Nat]
      /\ pending \in [Threads -> Nat]
  BY <1>1 DEF SnowFlakeInit
<1>7. m_mtx \in BOOLEAN /\ slept \in BOOLEAN /\ callers \subseteq Threads
  BY DEF SnowFlakeInit
<1>8. \A t \in Threads : pc[t] # "bump"
  BY DEF SnowFlakeInit
<1>9. SnowFlakeTypeOK
  BY <1>2, <1>3, <1>4, <1>5, <1>6, <1>7, <1>8 DEF SnowFlakeTypeOK
<1>10. Exclusive /\ KeyIsLast /\ ReadIsCurrent /\ Increasing
  BY DEF SnowFlakeInit, Exclusive, KeyIsLast, ReadIsCurrent, Increasing, InSection
<1> QED BY <1>9, <1>10 DEF Inv

\* Every step keeps the types.
LEMMA TypeStep == Inv /\ [SnowFlakeNext]_sfVars => SnowFlakeTypeOK'
<1> SUFFICES ASSUME Inv, [SnowFlakeNext]_sfVars PROVE SnowFlakeTypeOK'
  OBVIOUS
<1> SnowFlakeTypeOK
  BY DEF Inv
<1> USE SnowFlakeAssumption
<1>1. CASE Tick
  BY <1>1 DEF SnowFlakeTypeOK, Tick
<1>2. ASSUME NEW t \in Threads, GetSid(t)
      PROVE  SnowFlakeTypeOK'
  <2>1. CASE Call(t)
    BY <2>1 DEF SnowFlakeTypeOK, Call
  <2>2. CASE Lock(t)
    BY <2>2 DEF SnowFlakeTypeOK, Lock
  <2>3. CASE ReadClock(t)
    BY <2>3, GetMsTsNat DEF SnowFlakeTypeOK, ReadClock
  <2>4. CASE Compare(t)
    <3>1. m_nKey.serial \in 0..MaxSerial
      BY DEF SnowFlakeTypeOK, Key
    <3>2. pc'[t] = "bump" => serial'[t] < MaxSerial
      BY <2>4, <3>1 DEF SnowFlakeTypeOK, Compare, Exhausted
    <3>3. slept' \in BOOLEAN
      BY <2>4 DEF Compare, SnowFlakeTypeOK
    <3> QED BY <2>4, <3>1, <3>2, <3>3 DEF SnowFlakeTypeOK, Compare
  <2>5. CASE Fresh(t)
    <3>1. [ts |-> cur[t], serial |-> 0] \in Key
      BY DEF SnowFlakeTypeOK, Key
    <3> QED BY <2>5, <3>1 DEF SnowFlakeTypeOK, Fresh, Return
  <2>6. CASE Bump(t)
    <3>1. [ts |-> m_nKey.ts, serial |-> serial[t] + 1] \in Key
      <4>1. serial[t] \in 0..MaxSerial /\ serial[t] < MaxSerial
        BY <2>6 DEF Bump, SnowFlakeTypeOK
      <4>2. m_nKey.ts \in Nat
        BY DEF SnowFlakeTypeOK, Key
      <4> QED BY <4>1, <4>2 DEF Key
    <3>2. m_nKey' \in Key /\ issued' \in Seq(Key)
      BY <2>6, <3>1 DEF SnowFlakeTypeOK, Bump, Return
    <3>3. /\ UNCHANGED <<now, m_nLast_ms_ts, m_mtx, cur, serial, since, pending, slept, callers>>
          /\ pc' = [pc EXCEPT ![t] = "unlock"]
      BY <2>6 DEF Bump, Return
    <3> QED BY <3>2, <3>3 DEF SnowFlakeTypeOK
  <2>7. CASE WakeAndRetry(t)
    <3>1. pending' \in [Threads -> Nat]
      BY <2>7 DEF SnowFlakeTypeOK, WakeAndRetry
    <3> QED BY <2>7, <3>1 DEF SnowFlakeTypeOK, WakeAndRetry
  <2>8. CASE Unlock(t)
    <3>1. pending' \in [Threads -> Nat]
      BY <2>8 DEF SnowFlakeTypeOK, Unlock
    <3> QED BY <2>8, <3>1 DEF SnowFlakeTypeOK, Unlock
  <2> QED BY <1>2, <2>1, <2>2, <2>3, <2>4, <2>5, <2>6, <2>7, <2>8 DEF GetSid
<1>3. CASE UNCHANGED sfVars
  BY <1>3 DEF SnowFlakeTypeOK, sfVars
<1> QED BY <1>1, <1>2, <1>3 DEF SnowFlakeNext

\* Every step before the first exhaustion keeps the section exclusive, the key
\* the last id, and the ids in order.
LEMMA OrderStep ==
  ASSUME Inv, [SnowFlakeNext]_sfVars, ~slept'
  PROVE  Exclusive' /\ KeyIsLast' /\ ReadIsCurrent' /\ Increasing'
<1> SnowFlakeTypeOK
  BY DEF Inv
<1> SnowFlakeTypeOK'
  BY TypeStep
<1>a. ~slept
  BY DEF SnowFlakeNext, GetSid, sfVars, Tick, Call, Lock, ReadClock, Compare, Fresh, Bump,
         Return, WakeAndRetry, Unlock, SnowFlakeTypeOK
<1> Exclusive /\ KeyIsLast /\ ReadIsCurrent /\ Increasing
  BY <1>a DEF Inv
<1>1. CASE Tick
  BY <1>1 DEF Tick, Exclusive, KeyIsLast, ReadIsCurrent, Increasing, InSection
<1>2. ASSUME NEW t \in Threads, GetSid(t)
      PROVE  Exclusive' /\ KeyIsLast' /\ ReadIsCurrent' /\ Increasing'
  <2>1. CASE Call(t)
    BY <2>1 DEF Call, Exclusive, KeyIsLast, ReadIsCurrent, Increasing, InSection,
                SnowFlakeTypeOK
  <2>2. CASE Lock(t)
    BY <2>2 DEF Lock, CanLock, Exclusive, KeyIsLast, ReadIsCurrent, Increasing, InSection,
                SnowFlakeTypeOK
  <2>3. CASE ReadClock(t)
    BY <2>3 DEF ReadClock, Exclusive, KeyIsLast, ReadIsCurrent, Increasing, InSection,
                SnowFlakeTypeOK
  <2>4. CASE Compare(t)
    <3>1. pc'[t] # "sleep"
      BY <2>4 DEF Compare, SnowFlakeTypeOK
    <3>2. Exclusive'
      BY <2>4, <3>1 DEF Compare, Exclusive, InSection, SnowFlakeTypeOK
    <3>3. ReadIsCurrent'
      BY <2>4 DEF Compare, Newer, ReadIsCurrent, SnowFlakeTypeOK
    <3> QED BY <2>4, <3>2, <3>3 DEF Compare, KeyIsLast, Increasing
  <2>5. CASE Fresh(t)
    <3>1. Exclusive'
      BY <2>5 DEF Fresh, Return, Exclusive, InSection, SnowFlakeTypeOK
    <3>2. ReadIsCurrent'
      BY <2>5 DEF Fresh, Return, Exclusive, ReadIsCurrent, InSection, SnowFlakeTypeOK
    <3> QED BY <2>5, <3>1, <3>2, FreshIsLast
  <2>6. CASE Bump(t)
    <3>1. Exclusive'
      BY <2>6 DEF Bump, Return, Exclusive, InSection, SnowFlakeTypeOK
    <3>2. ReadIsCurrent'
      BY <2>6 DEF Bump, Return, Exclusive, ReadIsCurrent, InSection, SnowFlakeTypeOK
    <3> QED BY <2>6, <3>1, <3>2, BumpIsLast
  <2>7. CASE WakeAndRetry(t)
    BY <2>7 DEF WakeAndRetry, Exclusive
  <2>8. CASE Unlock(t)
    BY <2>8 DEF Unlock, Exclusive, KeyIsLast, ReadIsCurrent, Increasing, InSection,
                SnowFlakeTypeOK
  <2> QED BY <1>2, <2>1, <2>2, <2>3, <2>4, <2>5, <2>6, <2>7, <2>8 DEF GetSid
<1>3. CASE UNCHANGED sfVars
  BY <1>3 DEF sfVars, Exclusive, KeyIsLast, ReadIsCurrent, Increasing, InSection
<1> QED BY <1>1, <1>2, <1>3 DEF SnowFlakeNext

\* The inductive invariant holds of every behaviour.
THEOREM SnowFlakeInvariant == SnowFlakeSpec => []Inv
<1>1. Inv /\ [SnowFlakeNext]_sfVars => Inv'
  BY TypeStep, OrderStep DEF Inv
<1> QED BY <1>1, InitInv, PTL DEF SnowFlakeSpec

\* A serial number never leaves its field, exhausted or not.
THEOREM SnowFlakeTypeCorrect == SnowFlakeSpec => []SnowFlakeTypeOK
<1>1. Inv => SnowFlakeTypeOK
  BY DEF Inv
<1> QED BY <1>1, SnowFlakeInvariant, PTL

\* However many threads call get_sid, and however the clock falls back at the
\* end of a second, the ids increase until a call has found the serial numbers
\* exhausted.
THEOREM SidsIncreaseUntilExhausted == SnowFlakeSpec => []IncreasingUntilExhausted
<1>1. Inv => IncreasingUntilExhausted
  BY DEF Inv, IncreasingUntilExhausted
<1> QED BY <1>1, SnowFlakeInvariant, PTL
-----------------------------------------------------------------------------
(* One caller, through any number of exhaustions.                          *)

\* Unlocking twice frees a mutex another thread holds, so Exclusive is lost;
\* but where only one thread has called, nobody else is inside get_sid.
OneCaller == \A t, u \in callers : t = u

CallerInv ==
  /\ \A t \in Threads : pc[t] # "idle" => t \in callers
  /\ IsFiniteSet(callers)
  /\ OneCaller => KeyIsLast /\ ReadIsCurrent /\ Increasing

LEMMA InitCallerInv == SnowFlakeInit => CallerInv
<1> SUFFICES ASSUME SnowFlakeInit PROVE CallerInv
  OBVIOUS
<1>1. IsFiniteSet(callers)
  BY FS_EmptySet DEF SnowFlakeInit
<1>2. KeyIsLast /\ ReadIsCurrent /\ Increasing
  BY DEF SnowFlakeInit, KeyIsLast, ReadIsCurrent, Increasing
<1> QED BY <1>1, <1>2 DEF CallerInv, SnowFlakeInit

\* Whoever is inside get_sid has called it, and the callers stay finitely many.
LEMMA CallersStep ==
  ASSUME SnowFlakeTypeOK, CallerInv, [SnowFlakeNext]_sfVars
  PROVE  /\ \A t \in Threads : pc'[t] # "idle" => t \in callers'
         /\ IsFiniteSet(callers') /\ callers \subseteq callers'
<1>1. CASE Tick \/ UNCHANGED sfVars
  BY <1>1 DEF Tick, sfVars, CallerInv
<1>2. ASSUME NEW t \in Threads, GetSid(t)
      PROVE  /\ \A u \in Threads : pc'[u] # "idle" => u \in callers'
             /\ IsFiniteSet(callers') /\ callers \subseteq callers'
  <2>1. CASE Call(t)
    <3>1. IsFiniteSet(callers \cup {t})
      BY FS_AddElement DEF CallerInv
    <3> QED BY <2>1, <3>1 DEF Call, CallerInv, SnowFlakeTypeOK
  <2>2. CASE ~Call(t)
    BY <1>2, <2>2 DEF GetSid, Lock, ReadClock, Compare, Fresh, Bump, Return, WakeAndRetry,
                      Unlock, CallerInv, SnowFlakeTypeOK
  <2> QED BY <2>1, <2>2
<1> QED BY <1>1, <1>2 DEF SnowFlakeNext

\* A step of the only caller keeps the key the last id, what the caller has read
\* still so, and the ids in order: an exhausted call reads everything again.
LEMMA OneCallerStep ==
  ASSUME SnowFlakeTypeOK, SnowFlakeTypeOK', CallerInv, [SnowFlakeNext]_sfVars, OneCaller'
  PROVE  KeyIsLast' /\ ReadIsCurrent' /\ Increasing'
<1>a. OneCaller
  BY CallersStep DEF OneCaller
<1> KeyIsLast /\ ReadIsCurrent /\ Increasing
  BY <1>a DEF CallerInv
<1>1. CASE Tick
  BY <1>1 DEF Tick, KeyIsLast, ReadIsCurrent, Increasing
<1>2. ASSUME NEW t \in Threads, GetSid(t)
      PROVE  KeyIsLast' /\ ReadIsCurrent' /\ Increasing'
  <2>a. ASSUME NEW u \in Threads, u # t, pc[t] # "idle"
        PROVE  pc[u] = "idle"
    BY <2>a, <1>a DEF CallerInv, OneCaller
  <2>1. CASE Call(t)
    BY <2>1 DEF Call, KeyIsLast, ReadIsCurrent, Increasing, SnowFlakeTypeOK
  <2>2. CASE Lock(t)
    BY <2>2 DEF Lock, KeyIsLast, ReadIsCurrent, Increasing, SnowFlakeTypeOK
  <2>3. CASE ReadClock(t)
    BY <2>3 DEF ReadClock, KeyIsLast, ReadIsCurrent, Increasing, SnowFlakeTypeOK
  <2>4. CASE Compare(t)
    <3>1. ReadIsCurrent'
      BY <2>4 DEF Compare, Newer, ReadIsCurrent, SnowFlakeTypeOK
    <3> QED BY <2>4, <3>1 DEF Compare, KeyIsLast, Increasing
  <2>5. CASE Fresh(t)
    <3>1. ReadIsCurrent'
      BY <2>5, <2>a DEF Fresh, Return, ReadIsCurrent, SnowFlakeTypeOK
    <3> QED BY <2>5, <3>1, FreshIsLast
  <2>6. CASE Bump(t)
    <3>1. ReadIsCurrent'
      BY <2>6, <2>a DEF Bump, Return, ReadIsCurrent, SnowFlakeTypeOK
    <3> QED BY <2>6, <3>1, BumpIsLast
  <2>7. CASE WakeAndRetry(t)
    BY <2>7 DEF WakeAndRetry, KeyIsLast, ReadIsCurrent, Increasing, SnowFlakeTypeOK
  <2>8. CASE Unlock(t)
    BY <2>8 DEF Unlock, KeyIsLast, ReadIsCurrent, Increasing, SnowFlakeTypeOK
  <2> QED BY <1>2, <2>1, <2>2, <2>3, <2>4, <2>5, <2>6, <2>7, <2>8 DEF GetSid
<1>3. CASE UNCHANGED sfVars
  BY <1>3 DEF sfVars, KeyIsLast, ReadIsCurrent, Increasing
<1> QED BY <1>1, <1>2, <1>3 DEF SnowFlakeNext

\* A set of at most one member, counted.
LEMMA AtMostOneCaller ==
  ASSUME IsFiniteSet(callers), Cardinality(callers) <= 1
  PROVE  OneCaller
<1> SUFFICES ASSUME NEW t \in callers, NEW u \in callers PROVE t = u
  BY DEF OneCaller
<1>1. Cardinality(callers) \in Nat
  BY FS_CardinalityType
<1>2. callers # {}
  OBVIOUS
<1>3. Cardinality(callers) # 0
  BY <1>2, FS_EmptySet
<1>4. Cardinality(callers) = 1
  BY <1>1, <1>3
<1>5. PICK x : callers = {x}
  BY <1>4, FS_Singleton
<1> QED BY <1>5

\* For a single caller, which is all each program has, the ids increase through any
\* number of exhaustions: the mutex unlocked twice (utility.cpp:100-104) has nobody to
\* let in.
THEOREM OneCallersSidsIncrease == SnowFlakeSpec => []IncreasingForOneCaller
<1>1. CallerInv /\ SnowFlakeTypeOK /\ SnowFlakeTypeOK' /\ [SnowFlakeNext]_sfVars => CallerInv'
  <2> SUFFICES ASSUME CallerInv, SnowFlakeTypeOK, SnowFlakeTypeOK', [SnowFlakeNext]_sfVars
               PROVE  CallerInv'
    OBVIOUS
  <2>1. OneCaller' => KeyIsLast' /\ ReadIsCurrent' /\ Increasing'
    BY OneCallerStep
  <2> QED BY <2>1, CallersStep DEF CallerInv
<1>2. CallerInv => IncreasingForOneCaller
  BY AtMostOneCaller DEF CallerInv, IncreasingForOneCaller
<1> QED BY <1>1, <1>2, InitCallerInv, SnowFlakeTypeCorrect, PTL DEF SnowFlakeSpec
=============================================================================
