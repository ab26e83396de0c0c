------------------------------- MODULE Client --------------------------------
(***************************************************************************)
(* One client in a room: player_list_menu and the functions it calls       *)
(* (client.cpp), which run in the thread of the user, the thread that      *)
(* processes what the server sends, and the CEventNotice through which the *)
(* second hands answers to the first (utility.hpp:67-127).                 *)
(*                                                                         *)
(* The server is an environment: it answers the requests one by one in     *)
(* their order and sends GAME_START to a player when the owner of the room *)
(* starts the game.  Queues and sockets on the way are one FIFO for each   *)
(* direction.                                                              *)
(***************************************************************************)
EXTENDS Integers, Sequences

CONSTANTS
  MaxRequests,   \* bound on the requests of the client
  MaxStarts      \* bound on the games others start

ASSUME ClientAssumption == MaxRequests \in Nat /\ MaxStarts \in Nat

VARIABLES
  ui,                 \* where the user's thread is
  op, id,             \* the type and the number of its last request
  bIsRoomOwner,       \* what the last list of players said
  listed,             \* there was such a list
  m_mapEventResult,   \* the promises, by request
  m_queTaskData,      \* messages of the server not processed yet
  taskThread,         \* where the task thread is, and its message
  m_bGameStart,
  raced,              \* the two threads were in m_mapEventResult at once
  toServer,           \* requests the server has not handled yet
  room,               \* what the server knows of the player; online: the
                      \* online table has a descriptor for its cid
  granted,            \* another owner was told that it may start the game
  starts              \* games started by others

uiVars == <<op, id, bIsRoomOwner, listed>>
serverVars == <<room, granted, starts>>
clientVars == <<ui, op, id, bIsRoomOwner, listed, m_mapEventResult, m_queTaskData, taskThread,
                m_bGameStart, raced, toServer, room, granted, starts>>

NoAnswer == [id |-> -1, what |-> "none"]
Idle == [pc |-> "idle", msg |-> NoAnswer]
TimedOut == "timeout"

-----------------------------------------------------------------------------
(* The user's thread: requests.                                            *)

\* Queue a request; WaitNoticeFor comes after.
Ask(type) ==
  /\ id < MaxRequests
  /\ id' = id + 1
  /\ op' = type
  /\ toServer' = Append(toServer, [id |-> id + 1, type |-> type])
  /\ ui' = "asked"
  /\ UNCHANGED <<bIsRoomOwner, listed, m_mapEventResult, m_queTaskData, taskThread, m_bGameStart,
                 raced, serverVars>>

QueryRoomPlayers == ui = "loop" /\ Ask("QUERY_ROOM_PLAYERS")
QuitRoom == ui = "menu" /\ Ask("QUIT_ROOM")
GameReady == ui = "menu" /\ ~bIsRoomOwner /\ Ask("GAME_READY")
RequestStartGame == ui = "menu" /\ bIsRoomOwner /\ Ask("REQ_GAME_START")
QuitGameReady == ui = "quitReady" /\ Ask("QUIT_GAME_READY")

Refresh ==
  /\ ui = "menu"
  /\ ui' = "loop"
  /\ UNCHANGED <<uiVars, m_mapEventResult, m_queTaskData, taskThread, m_bGameStart, raced,
                 toServer, serverVars>>

\* Mutation of AfterReady: a player that does not become ready is not withdrawn.
AfterReadyOnSuccess(what) == IF what = TimedOut THEN "loop" ELSE "ready"

\* Where game_ready goes with its answer; player_list_menu calls
\* quit_game_ready whatever game_ready returned.
AfterReady(what) == IF what = TimedOut THEN "quitReady" ELSE "ready"

\* What the caller of WaitNoticeFor does with the answer, or without one.
Proceed(what) ==
  /\ ui' = CASE op = "QUERY_ROOM_PLAYERS" -> IF what = TimedOut /\ ~listed THEN "out" ELSE "menu"
             [] op = "GAME_READY" -> AfterReady(what)
             [] op = "REQ_GAME_START" -> IF what = "ok" THEN "toWait" ELSE "loop"
             [] op = "QUIT_GAME_READY" -> "loop"
             [] op = "QUIT_ROOM" -> "out"
  /\ IF op = "QUERY_ROOM_PLAYERS" /\ what # TimedOut
     THEN bIsRoomOwner' = (what = "owner") /\ listed' = TRUE
     ELSE UNCHANGED <<bIsRoomOwner, listed>>
  /\ toServer' = IF op = "REQ_GAME_START" /\ what = "ok"
                 THEN Append(toServer, [id |-> 0, type |-> "GAME_START"]) ELSE toServer

-----------------------------------------------------------------------------
(* CEventNotice: WaitNoticeFor in the user's thread, Notice in the other.  *)

NoticeLocked == taskThread.pc \in {"notice", "noticed"}

\* Mutation of Forget: the promise stays.
ForgetNothing(promises, i) == promises

Forget(promises, i) == [j \in DOMAIN promises \ {i} |-> promises[j]]

\* The erasures are outside the lock: beside a Notice, which may be in the map
\* or still in set_value, they have any outcome.
Erase ==
  /\ m_mapEventResult' = Forget(m_mapEventResult, id)
  /\ raced' \in IF NoticeLocked THEN BOOLEAN ELSE {FALSE}

InsertPromise ==
  /\ ui = "asked"
  /\ ~NoticeLocked
  /\ m_mapEventResult' = [i \in DOMAIN m_mapEventResult \cup {id} |->
                            IF i = id THEN NoAnswer ELSE m_mapEventResult[i]]
  /\ ui' = "waiting"
  /\ UNCHANGED <<uiVars, m_queTaskData, taskThread, m_bGameStart, raced, toServer, serverVars>>

TakeAnswer ==
  /\ ui = "waiting"
  /\ m_mapEventResult[id] # NoAnswer
  /\ Erase
  /\ Proceed(m_mapEventResult[id].what)
  /\ UNCHANGED <<op, id, m_queTaskData, taskThread, m_bGameStart, serverVars>>

\* Mutation of MayTimeOut: wait() instead of wait_for().
MayTimeOutNever == FALSE

MayTimeOut == m_mapEventResult[id] = NoAnswer

TimeOut ==
  /\ ui = "waiting"
  /\ MayTimeOut
  /\ ui' = "timedOut"
  /\ UNCHANGED <<uiVars, m_mapEventResult, m_queTaskData, taskThread, m_bGameStart, raced,
                 toServer, serverVars>>

GiveUp ==
  /\ ui = "timedOut"
  /\ Erase
  /\ Proceed(TimedOut)
  /\ UNCHANGED <<op, id, m_queTaskData, taskThread, m_bGameStart, serverVars>>

\* The answer goes to the promise of its request, if there is one.
Notice ==
  /\ taskThread.pc = "notice"
  /\ m_mapEventResult' = [i \in DOMAIN m_mapEventResult |->
                            IF i = taskThread.msg.id THEN taskThread.msg
                            ELSE m_mapEventResult[i]]
  /\ taskThread' = [taskThread EXCEPT !.pc = "noticed"]
  /\ UNCHANGED <<ui, uiVars, m_queTaskData, m_bGameStart, raced, toServer, serverVars>>

\* Notice returns and with that unlocks.
Unlock ==
  /\ taskThread.pc = "noticed"
  /\ taskThread' = Idle
  /\ UNCHANGED <<ui, uiVars, m_mapEventResult, m_queTaskData, m_bGameStart, raced, toServer,
                 serverVars>>

\* task_proc_thread_func takes a message; Notice locks first.
TakeTask ==
  /\ taskThread = Idle
  /\ m_queTaskData # <<>>
  /\ m_queTaskData' = Tail(m_queTaskData)
  /\ LET m == Head(m_queTaskData)
     IN  taskThread' = [pc |-> IF m.what = "GAME_START" THEN "setStart" ELSE "notice", msg |-> m]
  /\ UNCHANGED <<ui, uiVars, m_mapEventResult, m_bGameStart, raced, toServer, serverVars>>

-----------------------------------------------------------------------------
(* The start of a game.                                                    *)

\* Mutation of FlagAtWait: the flag of the last game is not cleared.
FlagAtWaitKept == m_bGameStart

FlagAtWait == FALSE

WaitToStart ==
  /\ ui = "ready"
  /\ m_bGameStart' = FlagAtWait
  /\ ui' = "waitToStart"
  /\ UNCHANGED <<uiVars, m_mapEventResult, m_queTaskData, taskThread, raced, toServer, serverVars>>

SeesStart ==
  /\ ui = "waitToStart"
  /\ m_bGameStart
  /\ ui' = "toWait"
  /\ UNCHANGED <<uiVars, m_mapEventResult, m_queTaskData, taskThread, m_bGameStart, raced,
                 toServer, serverVars>>

UserTypesZero ==
  /\ ui = "waitToStart"
  /\ ui' = "quitReady"
  /\ UNCHANGED <<uiVars, m_mapEventResult, m_queTaskData, taskThread, m_bGameStart, raced,
                 toServer, serverVars>>

\* game_start: m_cv.wait without a condition; it has m_mtx afterwards, for as
\* long as the game lasts.
WaitForNotify ==
  /\ ui = "toWait"
  /\ ui' = "wait"
  /\ UNCHANGED <<uiVars, m_mapEventResult, m_queTaskData, taskThread, m_bGameStart, raced,
                 toServer, serverVars>>

SpuriousWakeup ==
  /\ ui = "wait"
  /\ ui' = "game"
  /\ UNCHANGED <<uiVars, m_mapEventResult, m_queTaskData, taskThread, m_bGameStart, raced,
                 toServer, serverVars>>

EndGame ==
  /\ ui = "game"
  /\ ui' = IF bIsRoomOwner THEN "loop" ELSE "quitReady"
  /\ UNCHANGED <<uiVars, m_mapEventResult, m_queTaskData, taskThread, m_bGameStart, raced,
                 toServer, serverVars>>

\* set_start, with m_mtx held.
SetStart ==
  /\ taskThread.pc = "setStart"
  /\ ui # "game"
  /\ m_bGameStart' = TRUE
  /\ taskThread' = [taskThread EXCEPT !.pc = "announce"]
  /\ UNCHANGED <<ui, uiVars, m_mapEventResult, m_queTaskData, raced, toServer, serverVars>>

\* Mutation of SecondsPassed: the game is not announced, set_start goes on.
SecondsPassedAtOnce == TRUE

\* The five seconds are longer than the 0.2 s in which a waiting user's thread
\* looks at the flag and goes to wait.
SecondsPassed == ui # "toWait" /\ ~(ui = "waitToStart" /\ m_bGameStart)

EndAnnouncement ==
  /\ taskThread.pc = "announce"
  /\ SecondsPassed
  /\ taskThread' = Idle
  /\ ui' = IF ui = "wait" THEN "game" ELSE ui
  /\ UNCHANGED <<uiVars, m_mapEventResult, m_queTaskData, m_bGameStart, raced, toServer,
                 serverVars>>

-----------------------------------------------------------------------------
(* The server, as far as this client sees it (server.cpp).                 *)

Answers(i, whats) == \E w \in whats : m_queTaskData' = Append(m_queTaskData, [id |-> i, what |-> w])

\* do_game_start sends a player of the room GAME_START if get_sockfd finds a
\* descriptor for it; a player without one is passed over.
NotifyOfStart ==
  IF room.member /\ room.online THEN Answers(0, {"GAME_START"}) ELSE UNCHANGED m_queTaskData

Serve ==
  LET r == Head(toServer)
  IN  /\ toServer # <<>>
      /\ toServer' = Tail(toServer)
      /\ \/ /\ r.type = "QUERY_ROOM_PLAYERS"
            /\ Answers(r.id, IF room.owner THEN {"owner"} ELSE {"guest"})
            /\ UNCHANGED room
         \/ /\ r.type = "GAME_READY"
            /\ Answers(r.id, {"ok"})
            /\ room' = [room EXCEPT !.ready = TRUE]
         \/ /\ r.type = "QUIT_GAME_READY"
            /\ Answers(r.id, {"ok"})
            /\ room' = [room EXCEPT !.ready = room.owner]
         \/ /\ r.type = "REQ_GAME_START"
            /\ Answers(r.id, {"ok", "failed"})
            /\ UNCHANGED room
         \/ /\ r.type = "QUIT_ROOM"
            /\ Answers(r.id, {"ok"})
            /\ room' = [room EXCEPT !.member = FALSE, !.owner = FALSE, !.ready = FALSE]
         \/ /\ r.type = "GAME_START"
            /\ NotifyOfStart
            /\ UNCHANGED room
      /\ UNCHANGED <<ui, uiVars, m_mapEventResult, taskThread, m_bGameStart, raced, granted, starts>>

\* do_request_game_start for the owner of the room, if that is another player
OwnerMayStart ==
  /\ room.member /\ ~room.owner /\ room.ready
  /\ ~granted /\ starts < MaxStarts
  /\ granted' = TRUE
  /\ starts' = starts + 1
  /\ UNCHANGED <<ui, uiVars, m_mapEventResult, m_queTaskData, taskThread, m_bGameStart, raced,
                 toServer, room>>

\* do_game_start for that owner, whatever the player did since.
OwnerStarts ==
  /\ granted
  /\ granted' = FALSE
  /\ NotifyOfStart
  /\ UNCHANGED <<ui, uiVars, m_mapEventResult, taskThread, m_bGameStart, raced, toServer, room,
                 starts>>

\* set_room_owner makes the next owner ready.
OwnerLeaves ==
  /\ room.member /\ ~room.owner
  /\ room' = [room EXCEPT !.owner = TRUE, !.ready = TRUE]
  /\ UNCHANGED <<ui, uiVars, m_mapEventResult, m_queTaskData, taskThread, m_bGameStart, raced,
                 toServer, granted, starts>>

-----------------------------------------------------------------------------

ClientInit ==
  /\ ui = "loop" /\ op = "none" /\ id = 0
  /\ bIsRoomOwner = FALSE /\ listed = FALSE
  /\ m_mapEventResult = <<>>
  /\ m_queTaskData = <<>> /\ toServer = <<>>
  /\ taskThread = Idle
  /\ m_bGameStart \in BOOLEAN   \* no constructor sets it
  /\ raced = FALSE
  \* after a second LOGIN on its connection a client is not in the online table
  /\ \E o, on \in BOOLEAN : room = [member |-> TRUE, online |-> on, owner |-> o, ready |-> o]
  /\ granted = FALSE /\ starts = 0

\* What the user decides.
User ==
  \/ QuitRoom \/ GameReady \/ RequestStartGame \/ Refresh
  \/ UserTypesZero \/ EndGame

\* What the user's thread does by itself.
UserThread ==
  \/ QueryRoomPlayers \/ QuitGameReady
  \/ InsertPromise \/ TakeAnswer \/ TimeOut \/ GiveUp
  \/ WaitToStart \/ SeesStart \/ WaitForNotify

TaskThread == TakeTask \/ Notice \/ Unlock \/ SetStart \/ EndAnnouncement

ClientNext ==
  /\ ~raced
  /\ \/ User \/ UserThread \/ SpuriousWakeup
     \/ TaskThread
     \/ Serve \/ OwnerMayStart \/ OwnerStarts \/ OwnerLeaves

\* Threads and server go on; users need not.
ClientSpec ==
  /\ ClientInit /\ [][ClientNext]_clientVars
  /\ WF_clientVars(~raced /\ UserThread)
  /\ WF_clientVars(~raced /\ TaskThread)
  /\ WF_clientVars(~raced /\ Serve)

-----------------------------------------------------------------------------
(* What must hold.                                                         *)

\* Only the request the user waits for has a promise: answered, given up or
\* answered while it is given up, nothing stays behind.
NothingLeftBehind ==
  DOMAIN m_mapEventResult = (IF ui \in {"waiting", "timedOut"} THEN {id} ELSE {})

\* game_start waits without a condition; that works because whoever goes to
\* wait after seeing the flag has the end of the announcement still to come.
FlagMeansNotification ==
  ui = "waitToStart" /\ m_bGameStart => taskThread.pc = "announce"

\* Withdrawn whatever happened: a player who is back at the menu, with nothing
\* under way, is not ready at the server, though every answer may have come too
\* late; only the owner is.
MenuMeansNotReady ==
  ui \in {"loop", "menu"} /\ toServer = <<>> /\ ~room.owner => ~room.ready

\* WaitNoticeFor returns: AddTask comes before the promise is in the map, so
\* an answer may find no promise and be dropped.
RequestEnds == ui \in {"asked", "waiting", "timedOut"} ~> ui \notin {"asked", "waiting", "timedOut"} \/ raced

\* Who waits in game_start, owner or not, gets into the game, if the online table
\* knows it.
WaitingPlayerPlays == ui = "wait" /\ room.online ~> ui = "game" \/ raced

\* "游戏即将开始: %ds" (client.cpp:1384): a ready player who waits for the start when
\* set_start announces it gets into the game, unless the user types 0.
AnnouncedGameStarts ==
  ui = "waitToStart" /\ taskThread.pc = "announce" ~> ui \in {"game", "quitReady"} \/ raced
=============================================================================
