---------------------------- MODULE ClientProofs ----------------------------
(***************************************************************************)
(* Proofs about Client, for every bound on the requests and on the games.  *)
(* The inductive invariant has four parts: the types, the promises, the    *)
(* announcement of a game, and the withdrawal of a ready player.           *)
(***************************************************************************)
EXTENDS Client, TLAPS

Requests == {"QUERY_ROOM_PLAYERS", "QUIT_ROOM", "GAME_READY", "REQ_GAME_START", "QUIT_GAME_READY"}
InRequest == {"asked", "waiting", "timedOut"}
UserStates == {"loop", "menu", "quitReady", "ready", "waitToStart", "toWait", "wait", "game", "out"}
Whats == {"none", "owner", "guest", "ok", "failed", "GAME_START"}
Answer == [id : Int, what : Whats]
RequestMsg == [id : Int, type : Requests \cup {"GAME_START"}]

ClientTypeOK ==
  /\ ui \in UserStates \cup InRequest
  /\ ui \in InRequest => op \in Requests
  /\ id \in Nat /\ starts \in Nat
  /\ {bIsRoomOwner, listed, m_bGameStart, raced, granted} \subseteq BOOLEAN
  /\ m_mapEventResult \in [DOMAIN m_mapEventResult -> Answer]
  /\ m_queTaskData \in Seq(Answer)
  /\ taskThread \in [pc : {"idle", "notice", "noticed", "setStart", "announce"}, msg : Answer]
  /\ toServer \in Seq(RequestMsg)
  /\ room \in [member : BOOLEAN, online : BOOLEAN, owner : BOOLEAN, ready : BOOLEAN]

\* The user's thread is where a player who may be ready is: a withdrawal is
\* still to be asked for.
MayBeReady ==
  \/ ui \in {"ready", "waitToStart", "quitReady"}
  \/ ui \in {"toWait", "wait", "game"} /\ ~bIsRoomOwner
  \/ ui \in InRequest /\ op = "GAME_READY"

Withdrawal == {"QUIT_GAME_READY", "QUIT_ROOM"}

\* A withdrawal is on its way that comes after request i.
WithdrawnAfter(i) == \E j \in DOMAIN toServer : j > i /\ toServer[j].type \in Withdrawal

\* When the server has handled what is on its way, only an owner is ready.
WillBeWithdrawn ==
  /\ room.ready => room.owner \/ WithdrawnAfter(0)
  /\ \A i \in DOMAIN toServer : toServer[i].type = "GAME_READY" => WithdrawnAfter(i)

\* Who asks to be ready or waits for another's start was no owner in the list;
\* who asks for the start was.
MenuOffers ==
  /\ ui \in {"ready", "waitToStart"} => ~bIsRoomOwner
  /\ ui \in InRequest /\ op = "GAME_READY" => ~bIsRoomOwner
  /\ ui \in InRequest /\ op = "REQ_GAME_START" => bIsRoomOwner

ReadyIsWithdrawn == MenuOffers /\ (~MayBeReady => WillBeWithdrawn)

ClientInv ==
  /\ ClientTypeOK
  /\ NothingLeftBehind
  /\ FlagMeansNotification
  /\ ReadyIsWithdrawn

-----------------------------------------------------------------------------
(* Facts about the steps.                                                  *)

\* A step that leaves the maps, the flag, the queues and the answers alone: it
\* moves the user's thread between its states outside a request.
Moves == Refresh \/ SeesStart \/ UserTypesZero \/ WaitForNotify \/ SpuriousWakeup \/ EndGame

\* A request is sent from a state of the menus, with the next number.
Asks == QueryRoomPlayers \/ QuitRoom \/ GameReady \/ RequestStartGame \/ QuitGameReady

\* The request ends, with an answer or without.
Ends(what) == Erase /\ Proceed(what) /\ op' = op /\ id' = id

\* The steps, by what they do.
LEMMA StepKinds ==
  ClientNext =>
    \/ Moves \/ Asks
    \/ InsertPromise \/ TakeAnswer \/ TimeOut \/ GiveUp \/ WaitToStart
    \/ TakeTask \/ Notice \/ Unlock \/ SetStart \/ EndAnnouncement
    \/ Serve \/ OwnerMayStart \/ OwnerStarts \/ OwnerLeaves
BY DEF ClientNext, User, UserThread, TaskThread, Moves, Asks

\* The message that a step takes from a queue has the type of the queue, and
\* so have those that stay.
LEMMA TakeFirst ==
  ASSUME NEW T, NEW s \in Seq(T), s # <<>>
  PROVE  /\ Head(s) \in T /\ Tail(s) \in Seq(T)
         /\ DOMAIN s = 1..Len(s) /\ Len(s) \in Nat \ {0}
         /\ DOMAIN Tail(s) = 1..(Len(s) - 1)
         /\ \A i \in DOMAIN Tail(s) : Tail(s)[i] = s[i + 1]
         /\ Head(s) = s[1]
OBVIOUS

\* Where a request ends: outside the states of a request.
LEMMA ProceedEnds ==
  ASSUME ClientTypeOK, ui \in InRequest, NEW what, Proceed(what)
  PROVE  /\ ui' \in {"loop", "menu", "quitReady", "ready", "toWait", "out"}
         /\ bIsRoomOwner' \in BOOLEAN /\ listed' \in BOOLEAN
         /\ toServer' \in Seq(RequestMsg)
<1>1. op \in Requests
  BY DEF ClientTypeOK
<1>2. ui' \in {"loop", "menu", "quitReady", "ready", "toWait", "out"}
  BY <1>1 DEF Proceed, AfterReady, Requests
<1>3. bIsRoomOwner' \in BOOLEAN /\ listed' \in BOOLEAN
  BY DEF Proceed, ClientTypeOK
<1>4. [id |-> 0, type |-> "GAME_START"] \in RequestMsg
  BY DEF RequestMsg
<1>5. toServer' \in Seq(RequestMsg)
  BY <1>4 DEF Proceed, ClientTypeOK
<1>6. QED
  BY <1>2, <1>3, <1>5

-----------------------------------------------------------------------------
(* The types.                                                              *)

LEMMA ClientTypeStep == ClientTypeOK /\ [ClientNext]_clientVars => ClientTypeOK'
<1> SUFFICES ASSUME ClientTypeOK, ClientNext PROVE ClientTypeOK'
  <2>1. ClientTypeOK /\ UNCHANGED clientVars => ClientTypeOK'
    BY DEF ClientTypeOK, clientVars
  <2>2. QED
    BY <2>1
<1> USE DEF uiVars, serverVars
<1>1. CASE Moves
  BY <1>1 DEF Moves, Refresh, SeesStart, UserTypesZero, WaitForNotify, SpuriousWakeup, EndGame,
     ClientTypeOK, UserStates, InRequest
<1>2. CASE Asks
  <2>1. PICK type \in Requests : Ask(type)
    BY <1>2 DEF Asks, QueryRoomPlayers, QuitRoom, GameReady, RequestStartGame, QuitGameReady,
       Requests
  <2>2. [id |-> id + 1, type |-> type] \in RequestMsg
    BY DEF RequestMsg, ClientTypeOK
  <2>3. QED
    BY <2>1, <2>2 DEF Ask, ClientTypeOK, InRequest
<1>3. CASE InsertPromise
  <2>1. NoAnswer \in Answer
    BY DEF NoAnswer, Answer, Whats
  <2>2. QED
    BY <1>3, <2>1 DEF InsertPromise, ClientTypeOK, UserStates, InRequest
<1>4. ASSUME TakeAnswer \/ GiveUp
      PROVE  ClientTypeOK'
  <2>1. PICK what : Ends(what)
    BY <1>4 DEF TakeAnswer, GiveUp, Ends
  <2>2. ui \in InRequest
    BY <1>4 DEF TakeAnswer, GiveUp, InRequest
  <2>3. m_mapEventResult' \in [DOMAIN m_mapEventResult' -> Answer]
    BY <2>1 DEF Ends, Erase, Forget, ClientTypeOK
  <2>4. raced' \in BOOLEAN
    BY <2>1 DEF Ends, Erase
  <2>5. ui' \in UserStates /\ ui' \notin InRequest
    BY <2>1, <2>2, ProceedEnds DEF Ends, UserStates, InRequest
  <2>6. QED
    BY <1>4, <2>1, <2>2, <2>3, <2>4, <2>5, ProceedEnds DEF TakeAnswer, GiveUp, ClientTypeOK, Ends
<1>5. CASE TimeOut
  BY <1>5 DEF TimeOut, ClientTypeOK, UserStates, InRequest
<1>6. CASE WaitToStart
  BY <1>6 DEF WaitToStart, FlagAtWait, ClientTypeOK, UserStates, InRequest
<1>7. CASE TakeTask
  BY <1>7, TakeFirst DEF TakeTask, ClientTypeOK
<1>8. CASE Notice
  <2>1. taskThread.msg \in Answer
    BY DEF ClientTypeOK
  <2>2. m_mapEventResult' \in [DOMAIN m_mapEventResult' -> Answer]
    BY <1>8, <2>1 DEF Notice, ClientTypeOK
  <2>3. QED
    BY <1>8, <2>2 DEF Notice, ClientTypeOK
<1>17. CASE Unlock
  <2>1. Idle \in [pc : {"idle", "notice", "noticed", "setStart", "announce"}, msg : Answer]
    BY DEF Idle, NoAnswer, Answer, Whats
  <2>2. QED
    BY <1>17, <2>1 DEF Unlock, ClientTypeOK
<1>9. CASE SetStart
  BY <1>9 DEF SetStart, ClientTypeOK
<1>10. CASE EndAnnouncement
  <2>1. Idle \in [pc : {"idle", "notice", "noticed", "setStart", "announce"}, msg : Answer]
    BY DEF Idle, NoAnswer, Answer, Whats
  <2>2. QED
    BY <1>10, <2>1 DEF EndAnnouncement, ClientTypeOK, UserStates, InRequest
<1>11. ASSUME NEW i \in Int, NEW whats \in SUBSET Whats, Answers(i, whats)
       PROVE  m_queTaskData' \in Seq(Answer)
  <2>1. PICK w \in whats : m_queTaskData' = Append(m_queTaskData, [id |-> i, what |-> w])
    BY <1>11 DEF Answers
  <2>2. [id |-> i, what |-> w] \in Answer
    BY DEF Answer
  <2>3. QED
    BY <2>1, <2>2 DEF ClientTypeOK
<1>12. CASE Serve
  <2> DEFINE r == Head(toServer)
  <2>1. r \in RequestMsg /\ toServer' \in Seq(RequestMsg)
    BY <1>12, TakeFirst DEF Serve, ClientTypeOK
  <2>2. r.id \in Int
    BY <2>1 DEF RequestMsg
  <2> HIDE DEF r
  <2>3. \/ \E i \in {r.id, 0} : \E whats \in SUBSET Whats : Answers(i, whats)
        \/ UNCHANGED m_queTaskData
    <3>1. \A o \in BOOLEAN : (IF o THEN {"owner"} ELSE {"guest"}) \in SUBSET Whats
      BY DEF Whats
    <3>2. {"ok"} \in SUBSET Whats /\ {"ok", "failed"} \in SUBSET Whats
          /\ {"GAME_START"} \in SUBSET Whats
      BY DEF Whats
    <3>3. (IF room.owner THEN {"owner"} ELSE {"guest"}) \in SUBSET Whats
      BY <3>1 DEF ClientTypeOK
    <3>4. \/ Answers(r.id, IF room.owner THEN {"owner"} ELSE {"guest"})
          \/ Answers(r.id, {"ok"}) \/ Answers(r.id, {"ok", "failed"})
          \/ Answers(0, {"GAME_START"}) \/ UNCHANGED m_queTaskData
      BY <1>12, Zenon DEF Serve, NotifyOfStart, r
    <3>5. QED
      BY <3>2, <3>3, <3>4, Zenon
  <2>4. m_queTaskData' \in Seq(Answer)
    <3>1. CASE UNCHANGED m_queTaskData
      BY <3>1 DEF ClientTypeOK
    <3>2. CASE \E i \in {r.id, 0} : \E whats \in SUBSET Whats : Answers(i, whats)
      BY <1>11, <2>2, <3>2
    <3>3. QED
      BY <2>3, <3>1, <3>2
  <2>5. room' \in [member : BOOLEAN, online : BOOLEAN, owner : BOOLEAN, ready : BOOLEAN]
    <3>1. \/ room' = room
          \/ \E b \in BOOLEAN : room' = [room EXCEPT !.ready = b]
          \/ room' = [room EXCEPT !.member = FALSE, !.owner = FALSE, !.ready = FALSE]
      <4>1. room.owner \in BOOLEAN
        BY DEF ClientTypeOK
      <4>2. QED
        BY <1>12, <4>1, Zenon DEF Serve
    <3>2. room \in [member : BOOLEAN, online : BOOLEAN, owner : BOOLEAN, ready : BOOLEAN]
      BY DEF ClientTypeOK
    <3>3. ASSUME NEW b \in BOOLEAN
          PROVE  [room EXCEPT !.ready = b] \in [member : BOOLEAN, online : BOOLEAN, owner : BOOLEAN, ready : BOOLEAN]
      BY <3>2
    <3>4. [room EXCEPT !.member = FALSE, !.owner = FALSE, !.ready = FALSE]
            \in [member : BOOLEAN, online : BOOLEAN, owner : BOOLEAN, ready : BOOLEAN]
      BY <3>2
    <3>5. QED
      BY <3>1, <3>2, <3>3, <3>4, Zenon
  <2>6. QED
    BY <1>12, <2>1, <2>4, <2>5 DEF Serve, ClientTypeOK
<1>13. CASE OwnerMayStart
  BY <1>13 DEF OwnerMayStart, ClientTypeOK
<1>14. CASE OwnerStarts
  <2>1. {"GAME_START"} \in SUBSET Whats /\ 0 \in Int
    BY DEF Whats
  <2>2. m_queTaskData' \in Seq(Answer)
    <3>1. CASE Answers(0, {"GAME_START"})
      BY <1>11, <2>1, <3>1
    <3>2. CASE UNCHANGED m_queTaskData
      BY <3>2 DEF ClientTypeOK
    <3>3. QED
      BY <1>14, <3>1, <3>2 DEF OwnerStarts, NotifyOfStart
  <2>3. QED
    BY <1>14, <2>2 DEF OwnerStarts, ClientTypeOK
<1>15. CASE OwnerLeaves
  BY <1>15 DEF OwnerLeaves, ClientTypeOK
<1>16. QED
  BY <1>1, <1>2, <1>3, <1>4, <1>5, <1>6, <1>7, <1>8, <1>9, <1>10, <1>12, <1>13, <1>14, <1>15,
     <1>17, StepKinds

-----------------------------------------------------------------------------
(* The promises.                                                           *)

LEMMA PromisesStep ==
  ClientTypeOK /\ NothingLeftBehind /\ [ClientNext]_clientVars => NothingLeftBehind'
<1> SUFFICES ASSUME ClientTypeOK, NothingLeftBehind, ClientNext
             PROVE  NothingLeftBehind'
  <2>1. NothingLeftBehind /\ UNCHANGED clientVars => NothingLeftBehind'
    BY DEF NothingLeftBehind, clientVars
  <2>2. QED
    BY <2>1
<1> USE DEF uiVars
<1>1. CASE UNCHANGED <<m_mapEventResult, ui, id>>
  BY <1>1 DEF NothingLeftBehind
<1>2. CASE Moves
  BY <1>2 DEF Moves, Refresh, SeesStart, UserTypesZero, WaitForNotify, SpuriousWakeup, EndGame,
     NothingLeftBehind
<1>3. CASE Asks
  <2>1. PICK type : Ask(type)
    BY <1>3 DEF Asks, QueryRoomPlayers, QuitRoom, GameReady, RequestStartGame, QuitGameReady
  <2>2. ui \notin {"waiting", "timedOut"}
    BY <1>3 DEF Asks, QueryRoomPlayers, QuitRoom, GameReady, RequestStartGame, QuitGameReady
  <2>3. QED
    BY <2>1, <2>2 DEF Ask, NothingLeftBehind
<1>4. CASE InsertPromise
  BY <1>4 DEF InsertPromise, NothingLeftBehind
<1>5. CASE TakeAnswer \/ GiveUp
  <2>1. PICK what : Ends(what)
    BY <1>5 DEF TakeAnswer, GiveUp, Ends
  <2>2. ui \in {"waiting", "timedOut"}
    BY <1>5 DEF TakeAnswer, GiveUp
  <2>3. ui' \notin {"waiting", "timedOut"}
    BY <2>1, <2>2, ProceedEnds DEF Ends, InRequest
  <2>4. DOMAIN m_mapEventResult' = {}
    BY <2>1, <2>2 DEF Ends, Erase, Forget, NothingLeftBehind
  <2>5. QED
    BY <2>3, <2>4 DEF NothingLeftBehind
<1>6. CASE TimeOut
  BY <1>6 DEF TimeOut, NothingLeftBehind
<1>7. CASE WaitToStart
  BY <1>7 DEF WaitToStart, NothingLeftBehind
<1>8. CASE Notice
  BY <1>8 DEF Notice, NothingLeftBehind
<1>9. CASE EndAnnouncement
  BY <1>9 DEF EndAnnouncement, NothingLeftBehind
<1>10. CASE TakeTask \/ Unlock \/ SetStart \/ Serve \/ OwnerMayStart \/ OwnerStarts \/ OwnerLeaves
  BY <1>1, <1>10 DEF TakeTask, Unlock, SetStart, Serve, OwnerMayStart, OwnerStarts, OwnerLeaves
<1>11. QED
  BY <1>2, <1>3, <1>4, <1>5, <1>6, <1>7, <1>8, <1>9, <1>10, StepKinds

-----------------------------------------------------------------------------
(* The announcement.                                                       *)

LEMMA AnnouncementStep ==
  ClientTypeOK /\ FlagMeansNotification /\ [ClientNext]_clientVars => FlagMeansNotification'
<1> SUFFICES ASSUME ClientTypeOK, FlagMeansNotification, ClientNext
             PROVE  FlagMeansNotification'
  BY DEF FlagMeansNotification, clientVars
<1>1. CASE ui' # "waitToStart"
  BY <1>1 DEF FlagMeansNotification
<1>2. CASE UNCHANGED <<ui, m_bGameStart, taskThread>>
  BY <1>2 DEF FlagMeansNotification
<1>3. CASE Moves \/ Asks \/ InsertPromise \/ TimeOut
  BY <1>1, <1>3 DEF Moves, Refresh, SeesStart, UserTypesZero, WaitForNotify, SpuriousWakeup,
     EndGame, Asks, QueryRoomPlayers, QuitRoom, GameReady, RequestStartGame, QuitGameReady,
     Ask, InsertPromise, TimeOut
<1>4. CASE TakeAnswer \/ GiveUp
  <2>1. ui \in InRequest /\ \E what : Proceed(what)
    BY <1>4 DEF TakeAnswer, GiveUp, InRequest
  <2>2. QED
    BY <1>1, <2>1, ProceedEnds
<1>5. CASE WaitToStart
  BY <1>5 DEF WaitToStart, FlagAtWait, FlagMeansNotification
<1>6. CASE TakeTask \/ Notice \/ Unlock
  <2>1. taskThread.pc # "announce"
    BY <1>6 DEF TakeTask, Notice, Unlock, Idle
  <2>2. UNCHANGED <<ui, m_bGameStart>>
    BY <1>6 DEF TakeTask, Notice, Unlock
  <2>3. QED
    BY <2>1, <2>2, Zenon DEF FlagMeansNotification
<1>7. CASE SetStart
  BY <1>7 DEF SetStart, FlagMeansNotification, ClientTypeOK
<1>8. CASE EndAnnouncement
  <2>1. m_bGameStart' = m_bGameStart /\ (ui' = "waitToStart" => ui = "waitToStart")
    BY <1>8 DEF EndAnnouncement
  <2>2. ~(ui = "waitToStart" /\ m_bGameStart)
    BY <1>8, Zenon DEF EndAnnouncement, SecondsPassed
  <2>3. QED
    BY <2>1, <2>2, Zenon DEF FlagMeansNotification
<1>9. CASE Serve \/ OwnerMayStart \/ OwnerStarts \/ OwnerLeaves
  BY <1>2, <1>9 DEF Serve, OwnerMayStart, OwnerStarts, OwnerLeaves
<1>10. QED
  BY <1>3, <1>4, <1>5, <1>6, <1>7, <1>8, <1>9, StepKinds

-----------------------------------------------------------------------------
(* The withdrawal.                                                         *)

\* What is on its way, after one more request.
LEMMA AppendWithdrawn ==
  ASSUME ClientTypeOK, NEW m \in RequestMsg, toServer' = Append(toServer, m),
         WillBeWithdrawn \/ m.type \in Withdrawal,
         m.type # "GAME_READY", UNCHANGED room
  PROVE  WillBeWithdrawn'
<1> DEFINE n == Len(toServer)
<1>1. /\ n \in Nat /\ DOMAIN toServer = 1..n /\ DOMAIN toServer' = 1..(n + 1)
      /\ toServer'[n + 1] = m /\ \A i \in 1..n : toServer'[i] = toServer[i]
  BY DEF ClientTypeOK
<1> HIDE DEF n
<1>2. CASE m.type \in Withdrawal
  <2>1. \A i \in 0..n : WithdrawnAfter(i)'
    BY <1>1, <1>2 DEF WithdrawnAfter
  <2>2. QED
    BY <1>1, <1>2, <2>1 DEF WillBeWithdrawn, Withdrawal
<1>3. CASE WillBeWithdrawn
  <2>1. \A i \in 0..n : WithdrawnAfter(i) => WithdrawnAfter(i)'
    BY <1>1 DEF WithdrawnAfter
  <2>2. QED
    BY <1>1, <1>3, <2>1 DEF WillBeWithdrawn
<1>4. QED
  BY <1>2, <1>3

\* What is on its way, after the server has handled a request.
LEMMA ServeWithdrawn ==
  ASSUME ClientTypeOK, WillBeWithdrawn, Serve
  PROVE  WillBeWithdrawn'
<1> DEFINE n == Len(toServer)
<1>1. /\ n \in Nat \ {0} /\ DOMAIN toServer = 1..n /\ DOMAIN toServer' = 1..(n - 1)
      /\ \A i \in 1..(n - 1) : toServer'[i] = toServer[i + 1]
      /\ Head(toServer) = toServer[1]
  BY TakeFirst DEF Serve, ClientTypeOK
<1> HIDE DEF n
<1>2. \A i \in 1..n : WithdrawnAfter(i) => WithdrawnAfter(i - 1)'
  <2>1. ASSUME NEW i \in 1..n, WithdrawnAfter(i) PROVE WithdrawnAfter(i - 1)'
    <3>1. PICK j \in 1..n : j > i /\ toServer[j].type \in Withdrawal
      BY <1>1, <2>1 DEF WithdrawnAfter
    <3>2. j - 1 \in 1..(n - 1) /\ j - 1 > i - 1 /\ toServer'[j - 1].type \in Withdrawal
      BY <1>1, <3>1
    <3>3. QED
      BY <1>1, <3>2 DEF WithdrawnAfter
  <2>2. QED
    BY <2>1
<1>3. \A i \in DOMAIN toServer' : toServer'[i].type = "GAME_READY" => WithdrawnAfter(i)'
  <2>1. ASSUME NEW i \in 1..(n - 1), toServer'[i].type = "GAME_READY"
        PROVE  WithdrawnAfter(i)'
    <3>1. i + 1 \in 1..n /\ toServer[i + 1].type = "GAME_READY" /\ (i + 1) - 1 = i
      BY <1>1, <2>1
    <3>2. WithdrawnAfter(i + 1)
      BY <1>1, <3>1 DEF WillBeWithdrawn
    <3>3. QED
      BY <1>2, <3>1, <3>2
  <2>2. QED
    BY <1>1, <2>1
<1>4. room'.ready => room'.owner \/ WithdrawnAfter(0)'
  <2> DEFINE r == Head(toServer)
  <2>1. CASE r.type = "GAME_READY"
    <3>1. WithdrawnAfter(1)
      BY <1>1, <2>1 DEF WillBeWithdrawn
    <3>2. QED
      BY <1>1, <1>2, <3>1
  <2>2. CASE room' = room /\ r.type \notin Withdrawal
    <3>1. WithdrawnAfter(0) => WithdrawnAfter(1)
      BY <1>1, <2>2 DEF WithdrawnAfter
    <3>2. WithdrawnAfter(1) => WithdrawnAfter(0)'
      BY <1>1, <1>2
    <3>3. QED
      BY <2>2, <3>1, <3>2 DEF WillBeWithdrawn
  <2>3. CASE room' = [room EXCEPT !.ready = room.owner]
    BY <2>3 DEF ClientTypeOK
  <2>4. CASE room' = [room EXCEPT !.member = FALSE, !.owner = FALSE, !.ready = FALSE]
    BY <2>4 DEF ClientTypeOK
  <2>5. \/ r.type = "GAME_READY"
        \/ room' = room /\ r.type \notin Withdrawal
        \/ room' = [room EXCEPT !.ready = room.owner]
        \/ room' = [room EXCEPT !.member = FALSE, !.owner = FALSE, !.ready = FALSE]
    BY DEF Serve, Withdrawal
  <2>6. QED
    BY <2>1, <2>2, <2>3, <2>4, <2>5
<1>5. QED
  BY <1>3, <1>4 DEF WillBeWithdrawn

LEMMA ReadyStep ==
  ClientTypeOK /\ ReadyIsWithdrawn /\ [ClientNext]_clientVars => ReadyIsWithdrawn'
<1> SUFFICES ASSUME ClientTypeOK, ReadyIsWithdrawn, ClientNext
             PROVE  ReadyIsWithdrawn'
  <2>1. ReadyIsWithdrawn /\ UNCHANGED clientVars => ReadyIsWithdrawn'
    BY DEF ReadyIsWithdrawn, MenuOffers, MayBeReady, WillBeWithdrawn, WithdrawnAfter, clientVars
  <2>2. QED
    BY <2>1
<1> USE DEF uiVars, serverVars
<1>1. ASSUME UNCHANGED <<toServer, room>>, WillBeWithdrawn
      PROVE  WillBeWithdrawn'
  BY <1>1 DEF WillBeWithdrawn, WithdrawnAfter
<1>2. CASE UNCHANGED <<ui, op, bIsRoomOwner, toServer, room>>
  BY <1>2 DEF ReadyIsWithdrawn, MenuOffers, MayBeReady, WillBeWithdrawn, WithdrawnAfter
<1>3. CASE Moves
  <2>1. UNCHANGED <<toServer, room, op, bIsRoomOwner>>
    BY <1>3 DEF Moves, Refresh, SeesStart, UserTypesZero, WaitForNotify, SpuriousWakeup, EndGame
  <2>2. MenuOffers' /\ (MayBeReady => MayBeReady' \/ WillBeWithdrawn)
        /\ (~MayBeReady' => ~MayBeReady)
    BY <1>3 DEF Moves, Refresh, SeesStart, UserTypesZero, WaitForNotify, SpuriousWakeup, EndGame,
       ReadyIsWithdrawn, MenuOffers, MayBeReady, InRequest
  <2>3. QED
    BY <1>1, <2>1, <2>2 DEF ReadyIsWithdrawn
<1>4. CASE Asks
  <2>1. PICK type \in Requests :
          /\ Ask(type)
          /\ type = "GAME_READY" => ~bIsRoomOwner
          /\ type = "REQ_GAME_START" => bIsRoomOwner
          /\ type # "QUIT_GAME_READY" => ui \in {"loop", "menu"}
    BY <1>4 DEF Asks, QueryRoomPlayers, QuitRoom, GameReady, RequestStartGame, QuitGameReady,
       Requests
  <2>2. MenuOffers' /\ (MayBeReady' <=> type = "GAME_READY")
    BY <2>1 DEF Ask, MenuOffers, MayBeReady, InRequest
  <2>3. ASSUME type # "GAME_READY" PROVE WillBeWithdrawn'
    <3>1. WillBeWithdrawn \/ type \in Withdrawal
      BY <2>1 DEF ReadyIsWithdrawn, MayBeReady, Withdrawal, InRequest
    <3> DEFINE m == [id |-> id + 1, type |-> type]
    <3>2. m \in RequestMsg /\ m.type = type
      BY DEF RequestMsg, ClientTypeOK
    <3>3. toServer' = Append(toServer, m) /\ UNCHANGED room
      BY <2>1 DEF Ask
    <3> HIDE DEF m
    <3>4. QED
      BY <2>3, <3>1, <3>2, <3>3, AppendWithdrawn
  <2>4. QED
    BY <2>2, <2>3 DEF ReadyIsWithdrawn
<1>5. CASE TakeAnswer \/ GiveUp
  <2>1. PICK what : Proceed(what)
    BY <1>5 DEF TakeAnswer, GiveUp
  <2>2. ui \in InRequest /\ op' = op /\ UNCHANGED room /\ op \in Requests
    BY <1>5 DEF TakeAnswer, GiveUp, InRequest, ClientTypeOK
  <2>3. MenuOffers' /\ (~MayBeReady' => ~MayBeReady)
    BY <2>1, <2>2 DEF Proceed, AfterReady, ReadyIsWithdrawn, MenuOffers, MayBeReady, InRequest,
       Requests
  <2>4. ASSUME WillBeWithdrawn PROVE WillBeWithdrawn'
    <3> DEFINE m == [id |-> 0, type |-> "GAME_START"]
    <3>1. m \in RequestMsg /\ m.type = "GAME_START"
      BY DEF RequestMsg
    <3>2. toServer' = toServer \/ toServer' = Append(toServer, m)
      BY <2>1 DEF Proceed
    <3> HIDE DEF m
    <3>3. QED
      BY <1>1, <2>2, <2>4, <3>1, <3>2, AppendWithdrawn
  <2>5. QED
    BY <2>3, <2>4 DEF ReadyIsWithdrawn
<1>6. CASE InsertPromise \/ TimeOut \/ WaitToStart \/ EndAnnouncement
  <2>1. UNCHANGED <<toServer, room, op, bIsRoomOwner>>
    BY <1>6 DEF InsertPromise, TimeOut, WaitToStart, EndAnnouncement
  <2>2. MenuOffers' /\ (MayBeReady' <=> MayBeReady)
    BY <1>6, <2>1 DEF InsertPromise, TimeOut, WaitToStart, EndAnnouncement,
       ReadyIsWithdrawn, MenuOffers, MayBeReady, InRequest
  <2>3. QED
    BY <1>1, <2>1, <2>2 DEF ReadyIsWithdrawn
<1>7. CASE TakeTask \/ Notice \/ Unlock \/ SetStart \/ OwnerMayStart \/ OwnerStarts
  BY <1>2, <1>7 DEF TakeTask, Notice, Unlock, SetStart, OwnerMayStart, OwnerStarts
<1>8. CASE Serve
  <2>1. UNCHANGED <<ui, op, bIsRoomOwner>>
    BY <1>8 DEF Serve
  <2>2. QED
    BY <1>8, <2>1, ServeWithdrawn DEF ReadyIsWithdrawn, MenuOffers, MayBeReady
<1>9. CASE OwnerLeaves
  <2>1. UNCHANGED <<ui, op, bIsRoomOwner, toServer>> /\ room'.owner
    BY <1>9 DEF OwnerLeaves, ClientTypeOK
  <2>2. QED
    BY <2>1 DEF ReadyIsWithdrawn, MenuOffers, MayBeReady, WillBeWithdrawn, WithdrawnAfter
<1>10. QED
  BY <1>3, <1>4, <1>5, <1>6, <1>7, <1>8, <1>9, StepKinds

-----------------------------------------------------------------------------

LEMMA ClientInvInit == ClientInit => ClientInv
<1> SUFFICES ASSUME ClientInit PROVE ClientInv
  OBVIOUS
<1>1. ClientTypeOK
  <2>1. <<>> \in Seq(Answer) /\ <<>> \in Seq(RequestMsg)
        /\ m_mapEventResult \in [DOMAIN m_mapEventResult -> Answer]
    BY DEF ClientInit
  <2>2. taskThread \in [pc : {"idle", "notice", "noticed", "setStart", "announce"}, msg : Answer]
    BY DEF ClientInit, Idle, NoAnswer, Answer, Whats
  <2>3. room \in [member : BOOLEAN, online : BOOLEAN, owner : BOOLEAN, ready : BOOLEAN]
    BY DEF ClientInit
  <2>4. QED
    BY <2>1, <2>2, <2>3 DEF ClientInit, ClientTypeOK, UserStates, InRequest
<1>2. NothingLeftBehind
  BY DEF ClientInit, NothingLeftBehind
<1>3. FlagMeansNotification
  BY DEF ClientInit, FlagMeansNotification
<1>4. ReadyIsWithdrawn
  BY DEF ClientInit, ReadyIsWithdrawn, MenuOffers, MayBeReady, WillBeWithdrawn, InRequest
<1>5. QED
  BY <1>1, <1>2, <1>3, <1>4 DEF ClientInv

LEMMA ClientInvStep == ClientInv /\ [ClientNext]_clientVars => ClientInv'
BY ClientTypeStep, PromisesStep, AnnouncementStep, ReadyStep DEF ClientInv

\* The inductive invariant holds in every state.
THEOREM ClientInvariant == ClientSpec => []ClientInv
BY ClientInvInit, ClientInvStep, PTL DEF ClientSpec

\* Only the request the user waits for has a promise (WaitNoticeFor).
THEOREM PromisesAreForgotten == ClientSpec => []NothingLeftBehind
<1>1. ClientInv => NothingLeftBehind
  BY DEF ClientInv
<1>2. QED
  BY <1>1, ClientInvariant, PTL

\* Whoever sees the flag has the notification still to come (wait_to_start,
\* set_start, game_start).
THEOREM NotificationStillToCome == ClientSpec => []FlagMeansNotification
<1>1. ClientInv => FlagMeansNotification
  BY DEF ClientInv
<1>2. QED
  BY <1>1, ClientInvariant, PTL

\* A player back at the menu with nothing under way is not ready
\* (player_list_menu calls quit_game_ready whatever game_ready returned).
THEOREM BackAtTheMenuNotReady == ClientSpec => []MenuMeansNotReady
<1>1. ClientInv => MenuMeansNotReady
  <2> SUFFICES ASSUME ClientInv, ui \in {"loop", "menu"}, toServer = <<>>, ~room.owner
               PROVE  ~room.ready
    BY DEF MenuMeansNotReady
  <2>1. ~MayBeReady
    BY DEF MayBeReady, InRequest
  <2>2. ~WithdrawnAfter(0)
    BY DEF WithdrawnAfter
  <2>3. QED
    BY <2>1, <2>2 DEF ClientInv, ReadyIsWithdrawn, WillBeWithdrawn
<1>2. QED
  BY <1>1, ClientInvariant, PTL
=============================================================================
