------------------------------- MODULE Rooms --------------------------------
(***************************************************************************)
(* The registry of game rooms kept by the server: CGameServer (a map from  *)
(* gid to CGame, every operation under CGameServer::m_mtx) and the CGame   *)
(* records it holds (game.cpp:264-698).  The lock makes every operation of *)
(* CGameServer one step; what runs outside that lock, the detached         *)
(* send_frame threads, takes steps of its own.                             *)
(*                                                                         *)
(* status = "undefined" stands for a step whose outcome the C++ standard   *)
(* leaves open (erase(end()), a freed CGame, an unlocked map iteration):   *)
(* nothing is claimed of what follows, so no action is enabled there.      *)
(***************************************************************************)
EXTENDS Integers, FiniteSets, FiniteSetsExt

CONSTANTS
  Cids,       \* client ids
  Names,      \* room names
  Gids,       \* room ids CSnowFlake may hand out: the bound on CreateGame
  MaxFrames   \* bound on the send_frame threads of one room

ASSUME CidsAssumption == Cids \subseteq Nat
ASSUME GidsAssumption == Gids \subseteq Nat

VARIABLES
  m_mapGame,    \* CGameServer::m_mapGame, gid -> room
  nextSid,      \* the next value of m_cSnowFlake.get_sid()
  status,       \* "running", or "undefined" after undefined behaviour
  orphanFrames  \* send_frame threads whose CGame has been destroyed

roomsVars == <<m_mapGame, nextSid, status, orphanFrames>>

NoOwner == -1
RoomCapacity == 2
ReadyMaps == UNION {[D -> {0, 1}] : D \in SUBSET Cids}
Room == [m_strRoomName : Names, m_mapGameOpt : SUBSET Cids,
         m_mapGameReady : ReadyMaps, m_roomOwner : Cids \cup {NoOwner},
         m_bExitSendFrame : BOOLEAN, sendFrames : Nat]

-----------------------------------------------------------------------------
(* CGame: operators from a room record to a room record.                   *)

EmptyRoom(name) ==
  [m_strRoomName |-> name, m_mapGameOpt |-> {}, m_mapGameReady |-> [c \in {} |-> 0],
   m_roomOwner |-> NoOwner, m_bExitSendFrame |-> FALSE, sendFrames |-> 0]

\* std::map::insert on the ready map: an entry already there is kept.
InsertReady(ready, c, v) ==
  [x \in DOMAIN ready \cup {c} |-> IF x \in DOMAIN ready THEN ready[x] ELSE v]

\* operator[] = v on the ready map.
AssignReady(ready, c, v) ==
  [x \in DOMAIN ready \cup {c} |-> IF x = c THEN v ELSE ready[x]]

IsFull(r) == Cardinality(r.m_mapGameOpt) = RoomCapacity

\* Mutation of AddClient: the room-full test is dropped.
AddClientUnchecked(r, c) ==
  [r EXCEPT !.m_mapGameOpt = @ \cup {c}, !.m_mapGameReady = InsertReady(@, c, 0)]

\* Mutation of AddClient: the newcomer becomes the owner.
AddClientAsOwner(r, c) ==
  [r EXCEPT !.m_mapGameOpt = IF IsFull(r) THEN @ ELSE @ \cup {c},
            !.m_mapGameReady = IF IsFull(r) THEN @ ELSE AssignReady(@, c, 1),
            !.m_roomOwner = IF IsFull(r) THEN @ ELSE c]

AddClient(r, c) ==
  IF IsFull(r)
  THEN r
  ELSE [r EXCEPT !.m_mapGameOpt = @ \cup {c}, !.m_mapGameReady = InsertReady(@, c, 0)]

RemoveClient(r, c) ==
  [r EXCEPT !.m_mapGameOpt = @ \ {c},
            !.m_mapGameReady = [x \in DOMAIN @ \ {c} |-> @[x]]]

\* Both maps are asked to erase find(c): defined only if both have the key.
CanRemove(r, c) == c \in r.m_mapGameOpt /\ c \in DOMAIN r.m_mapGameReady

\* Mutation of ReadyUp: the flag counts the calls of ready().
ReadyUpCounted(r, c) ==
  IF c \in DOMAIN r.m_mapGameReady
  THEN [r EXCEPT !.m_mapGameReady[c] = @ + 1]
  ELSE r

ReadyUp(r, c) ==
  IF c \in DOMAIN r.m_mapGameReady
  THEN [r EXCEPT !.m_mapGameReady[c] = 1]
  ELSE r

QuitReady(r, c) ==
  IF c \in DOMAIN r.m_mapGameReady /\ c # r.m_roomOwner
  THEN [r EXCEPT !.m_mapGameReady[c] = 0]
  ELSE r

IsAllReady(r) == \A c \in DOMAIN r.m_mapGameReady : r.m_mapGameReady[c] # 0

\* set_room_owner(): the first key of m_mapGameOpt, that is the smallest cid.
SetRoomOwner(r) ==
  IF r.m_mapGameOpt = {}
  THEN r
  ELSE LET first == Min(r.m_mapGameOpt)
       IN  [r EXCEPT !.m_roomOwner = first,
                     !.m_mapGameReady = AssignReady(@, first, 1)]

\* CGame::start: the flag is cleared and one more thread is detached.
StartFrames(r) == [r EXCEPT !.m_bExitSendFrame = FALSE, !.sendFrames = @ + 1]

NewRoom(name, c) == ReadyUp(SetRoomOwner(AddClient(EmptyRoom(name), c)), c)

\* Mutation of AfterLeaving: the room keeps an owner who has left.
AfterLeavingKeepsOwner(r, c) == r

\* A room that still has a player after c left it.
AfterLeaving(r, c) == IF r.m_roomOwner = c THEN SetRoomOwner(r) ELSE r

-----------------------------------------------------------------------------
(* CGameServer: queries.                                                   *)

\* Mutation of IsGameNameExisted: no name is ever taken.
AnyNameIsFree(name) == FALSE

IsGameNameExisted(name) ==
  \E g \in DOMAIN m_mapGame : m_mapGame[g].m_strRoomName = name

Members(g) == IF g \in DOMAIN m_mapGame THEN m_mapGame[g].m_mapGameOpt ELSE {}

GetGameidList == DOMAIN m_mapGame

GetRoomOwner(g) == IF g \in DOMAIN m_mapGame THEN m_mapGame[g].m_roomOwner ELSE -1

GetPlayerNums(g) ==
  IF g \in DOMAIN m_mapGame THEN Cardinality(m_mapGame[g].m_mapGameOpt) ELSE -1

GetGameReadyStatus(g) == g \in DOMAIN m_mapGame /\ IsAllReady(m_mapGame[g])

\* What create_game, add_game_player, game_ready and quit_game_ready return.
CreateGameResult(name) == IF IsGameNameExisted(name) THEN -1 ELSE 0
AddGamePlayerResult(g) ==
  IF g \notin DOMAIN m_mapGame THEN -2 ELSE IF IsFull(m_mapGame[g]) THEN -1 ELSE 0
ReadyResult(g) == IF g \in DOMAIN m_mapGame THEN 0 ELSE -1

-----------------------------------------------------------------------------
(* CGameServer: operations.                                                *)

\* A send_frame thread walks m_mapGameOpt without CGame::m_mtx, so a step that
\* inserts into or erases from that map races with it.
RaceOutcome(g) == IF m_mapGame[g].sendFrames > 0 THEN {"running", "undefined"} ELSE {"running"}

\* get_sid() comes before the lock; the task thread is its only caller.
NewGid == nextSid

CreateGame(c, name) ==
  /\ status = "running"
  /\ NewGid \in Gids
  /\ nextSid' = nextSid + 1
  /\ m_mapGame' =
       IF IsGameNameExisted(name) \/ NewGid \in DOMAIN m_mapGame
       THEN m_mapGame
       ELSE [g \in DOMAIN m_mapGame \cup {NewGid} |->
               IF g = NewGid THEN NewRoom(name, c) ELSE m_mapGame[g]]
  /\ UNCHANGED <<status, orphanFrames>>

AddGamePlayer(g, c) ==
  /\ status = "running"
  /\ IF g \in DOMAIN m_mapGame
     THEN /\ m_mapGame' = [m_mapGame EXCEPT ![g] = AddClient(@, c)]
          /\ status' \in IF IsFull(m_mapGame[g]) \/ c \in Members(g)
                         THEN {"running"} ELSE RaceOutcome(g)
     ELSE UNCHANGED <<m_mapGame, status>>
  /\ UNCHANGED <<nextSid, orphanFrames>>

GameReady(g, c) ==
  /\ status = "running"
  /\ m_mapGame' = IF g \in DOMAIN m_mapGame
                  THEN [m_mapGame EXCEPT ![g] = ReadyUp(@, c)] ELSE m_mapGame
  /\ UNCHANGED <<nextSid, status, orphanFrames>>

QuitGameReady(g, c) ==
  /\ status = "running"
  /\ m_mapGame' = IF g \in DOMAIN m_mapGame
                  THEN [m_mapGame EXCEPT ![g] = QuitReady(@, c)] ELSE m_mapGame
  /\ UNCHANGED <<nextSid, status, orphanFrames>>

\* Erasing a room destroys its CGame; its send_frame threads, if any, go on.
EraseRoom(g) ==
  /\ m_mapGame' = [h \in DOMAIN m_mapGame \ {g} |-> m_mapGame[h]]
  /\ orphanFrames' = orphanFrames + m_mapGame[g].sendFrames

\* The body both remove_player overloads run on the room they have found.
RemoveFromRoom(g, c) ==
  LET rest == RemoveClient(m_mapGame[g], c)
  IN  IF ~CanRemove(m_mapGame[g], c)
      THEN status' = "undefined" /\ UNCHANGED <<m_mapGame, orphanFrames>>
      ELSE /\ status' \in RaceOutcome(g)
           /\ IF rest.m_mapGameOpt = {}
              THEN EraseRoom(g)
              ELSE /\ m_mapGame' = [m_mapGame EXCEPT ![g] = AfterLeaving(rest, c)]
                   /\ UNCHANGED orphanFrames

\* remove_player(gid, cid), the QUIT_ROOM request.
RemovePlayerOf(g, c) ==
  /\ status = "running"
  /\ IF g \in DOMAIN m_mapGame
     THEN RemoveFromRoom(g, c)
     ELSE UNCHANGED <<m_mapGame, status, orphanFrames>>
  /\ UNCHANGED nextSid

\* remove_player(cid), the disconnect path.  remove_client always returns true,
\* so the loop over the rooms ends with the first one, whoever is in it.
RemovePlayer(c) ==
  /\ status = "running"
  /\ IF DOMAIN m_mapGame # {}
     THEN RemoveFromRoom(Min(DOMAIN m_mapGame), c)
     ELSE UNCHANGED <<m_mapGame, status, orphanFrames>>
  /\ UNCHANGED nextSid

\* game_start(gid) starts another thread, whether or not one is running.  The
\* thread reads start()'s parameter port by reference: if start() has returned
\* by then, the read is of a dead object.
GameStart(g) ==
  /\ status = "running"
  /\ IF g \in DOMAIN m_mapGame
     THEN /\ m_mapGame[g].sendFrames < MaxFrames
          /\ m_mapGame' = [m_mapGame EXCEPT ![g] = StartFrames(@)]
          /\ status' \in {"running", "undefined"}
     ELSE UNCHANGED <<m_mapGame, status>>
  /\ UNCHANGED <<nextSid, orphanFrames>>

GameOver(g) ==
  /\ status = "running"
  /\ g \in DOMAIN m_mapGame
  /\ m_mapGame' = [m_mapGame EXCEPT ![g].m_bExitSendFrame = TRUE]
  /\ UNCHANGED <<nextSid, status, orphanFrames>>

\* remove_game(gid) erases find(gid) unchecked.
RemoveGame(g) ==
  /\ status = "running"
  /\ IF g \in DOMAIN m_mapGame
     THEN EraseRoom(g) /\ UNCHANGED status
     ELSE status' = "undefined" /\ UNCHANGED <<m_mapGame, orphanFrames>>
  /\ UNCHANGED nextSid

FrameMayExit(r) == r.m_bExitSendFrame /\ r.sendFrames > 0

\* send_frame_thread_func tests the exit flag of a living room and returns.
FrameThreadExit(g) ==
  /\ status = "running"
  /\ g \in DOMAIN m_mapGame
  /\ FrameMayExit(m_mapGame[g])
  /\ m_mapGame' = [m_mapGame EXCEPT ![g].sendFrames = @ - 1]
  /\ UNCHANGED <<nextSid, status, orphanFrames>>

\* The same test once the CGame is gone reads freed memory.
OrphanFrameStep ==
  /\ status = "running"
  /\ orphanFrames > 0
  /\ status' = "undefined"
  /\ UNCHANGED <<m_mapGame, nextSid, orphanFrames>>

-----------------------------------------------------------------------------

RoomsInit ==
  /\ m_mapGame = [g \in {} |-> EmptyRoom(CHOOSE n \in Names : TRUE)]
  /\ nextSid = 1
  /\ status = "running"
  /\ orphanFrames = 0

RoomsNext ==
  \/ \E c \in Cids, name \in Names : CreateGame(c, name)
  \/ \E g \in Gids, c \in Cids :
       \/ AddGamePlayer(g, c)
       \/ GameReady(g, c)
       \/ QuitGameReady(g, c)
       \/ RemovePlayerOf(g, c)
  \/ \E c \in Cids \cup {-1} : RemovePlayer(c)
  \/ \E g \in Gids : GameStart(g) \/ GameOver(g) \/ RemoveGame(g) \/ FrameThreadExit(g)
  \/ OrphanFrameStep

RoomsSpec == RoomsInit /\ [][RoomsNext]_roomsVars

-----------------------------------------------------------------------------
(* What must hold.                                                         *)

\* The type of the registry: gids are ids handed out so far.
RoomsTypeOK ==
  /\ nextSid \in Nat
  /\ status \in {"running", "undefined"}
  /\ orphanFrames \in Nat
  /\ DOMAIN m_mapGame \subseteq Gids
  /\ m_mapGame = [g \in DOMAIN m_mapGame |-> m_mapGame[g]]
  /\ \A g \in DOMAIN m_mapGame : m_mapGame[g] \in Room /\ g < nextSid

\* A room in the map has one or two players (the last one to leave erases it,
\* join_room refuses a third), and m_mapGameOpt and m_mapGameReady, two maps
\* updated one after the other, name the same players.
MapsAgree ==
  \A g \in DOMAIN m_mapGame :
    LET r == m_mapGame[g]
    IN  /\ r.m_mapGameOpt # {}
        /\ IsFiniteSet(r.m_mapGameOpt) /\ Cardinality(r.m_mapGameOpt) <= RoomCapacity
        /\ DOMAIN r.m_mapGameReady = r.m_mapGameOpt

\* "房主默认始终处于准备状态" (game.cpp:326): the owner is a player of the room
\* and is ready, whoever joined, left, withdrew or was disconnected before.
OwnerIsReadyPlayer ==
  \A g \in DOMAIN m_mapGame :
    LET r == m_mapGame[g]
    IN  /\ r.m_roomOwner \in r.m_mapGameOpt
        /\ r.m_roomOwner \in DOMAIN r.m_mapGameReady
        /\ r.m_mapGameReady[r.m_roomOwner] = 1

\* create_game refuses a name in use, so a name denotes at most one room.
NamesUnique ==
  \A g, h \in DOMAIN m_mapGame :
    m_mapGame[g].m_strRoomName = m_mapGame[h].m_strRoomName => g = h

\* "如果删除的玩家是房主，那么重新设置房主" (game.cpp:521): the room changes hands
\* only when its owner leaves it.
OwnerStaysWhilePresent ==
  [][\A g \in DOMAIN m_mapGame \cap DOMAIN m_mapGame' :
       m_mapGame'[g].m_roomOwner # m_mapGame[g].m_roomOwner
         => m_mapGame[g].m_roomOwner \notin m_mapGame'[g].m_mapGameOpt]_roomsVars
=============================================================================
