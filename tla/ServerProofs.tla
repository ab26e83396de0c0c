---------------------------- MODULE ServerProofs ----------------------------
(***************************************************************************)
(* Proofs about Server, for every set of clients, descriptors, accounts,   *)
(* names and room ids, every bound and every set of faults.  ServerInv is  *)
(* inductive: what each table, queue and thread holds, and, so that the    *)
(* handlers call the registry as module Rooms allows, what the messages on *)
(* their way may say.                                                      *)
(***************************************************************************)
EXTENDS Server, RoomsProofs, SequenceTheorems

Phases == {"out", "login", "menu", "picked", "room", "seat", "ready", "unready", "start", "game",
           "exited"}
PastLogin == Phases \ {"out", "login", "exited"}
PlayerTypes == {"LOGOUT", "CREATE_ROOM", "JOIN_ROOM", "QUIT_ROOM", "GAME_READY", "QUIT_GAME_READY"}
AccountTypes == {"REGIST", "LOGIN"}
RequestTypes == PlayerTypes \cup AccountTypes \cup {"REQ_GAME_START"}

\* Who is past the login menu names its client, accounts and rooms have names.
GoodMessage ==
  {m \in Message : /\ m.type \in PlayerTypes => m.cid \in Cids
                   /\ m.type \in AccountTypes => m.what \in Accounts
                   /\ m.type = "CREATE_ROOM" => m.what \in Names}

ClientRecord ==
  [phase : Phases, op : RequestTypes \cup {"none"}, id : Nat, nr : Nat, cid : Cids \cup {-1},
   gid : Gids \cup {0, BadGid}, owner : {"unknown", "yes", "no"}]

ClientsOK ==
  /\ nextNr \in Nat \ {0} /\ failures \in Nat
  /\ cli \in [Clients -> ClientRecord]
  /\ \A p \in Clients :
       /\ cli[p].phase \in PastLogin => cli[p].cid \in Cids
       /\ cli[p].phase = "login" => cli[p].op \in AccountTypes \cup {"none"}
       /\ cli[p].phase \in {"out", "exited"} => cli[p].op = "none"

TablesOK ==
  /\ DOMAIN m_mapClientInfo \subseteq Cids
  /\ \A c \in DOMAIN m_mapClientInfo : m_mapClientInfo[c] \in Accounts
  /\ DOMAIN m_mapOlinePlayers \subseteq Fds
  /\ \A fd \in DOMAIN m_mapOlinePlayers : m_mapOlinePlayers[fd] \in DOMAIN m_mapClientInfo
  /\ OnlineUnique

\* A descriptor that is queued for the receive thread or watched by it is open.
NetOK ==
  /\ conn \in [Fds -> Clients \cup {NoClient}]
  /\ watched \subseteq Fds
  /\ \A fd \in watched : conn[fd] # NoClient
  /\ m_queSockFD \in Seq(Fds)
  /\ \A i \in DOMAIN m_queSockFD :
       conn[m_queSockFD[i]] # NoClient /\ m_queSockFD[i] \notin watched
  /\ \A i, j \in DOMAIN m_queSockFD : m_queSockFD[i] = m_queSockFD[j] => i = j
  /\ recv \in [pc : {"wait", "remove", "close"}, fd : Fds, cid : Cids \cup {-1}]
  /\ recv.pc # "wait" => recv.fd \in watched

MessagesOK ==
  /\ inbox \in [Fds -> Seq(GoodMessage)]
  /\ m_queTaskData \in Seq(GoodMessage)
  /\ m_queSendMsg \in Seq(ReplyMsg)

\* Between the two lock sections of do_login nobody else enters the client.
TaskOK ==
  /\ task \in [pc : {"wait", "login", "counted", "start", "notify"}, req : GoodMessage,
               cid : Cids \cup {-1}, nums : Int, rest : SUBSET Cids]
  /\ task.pc = "login" => /\ task.req.type = "LOGIN"
                          /\ task.cid \in DOMAIN m_mapClientInfo
                          /\ ~IsPlayerOnline(task.cid)
  /\ task.pc = "counted" => task.req.type = "REQ_GAME_START"
  /\ task.pc = "notify" => task.rest # {}

ServerInv == RoomsInv /\ ClientsOK /\ TablesOK /\ NetOK /\ MessagesOK /\ TaskOK

-----------------------------------------------------------------------------
(* Who leaves what alone.                                                  *)

LEMMA ClientStepFrame ==
  ASSUME NEW p, ClientStep(p)
  PROVE  UNCHANGED <<roomsVars, playerVars, conn, m_queSockFD, watched, m_queTaskData,
                     m_queSendMsg, recv, task, up>>
BY DEF ClientStep, Request, regist, login, logout, create_room, join_room, quit_room, game_ready,
       request_start_game, quit_game_ready, Send, GiveUp, PickRoom, ShowPlayers,
       ShowPlayersTimesOut, QueryAnswered, Exit, netVars

LEMMA RecvThreadFrame ==
  RecvThread => UNCHANGED <<m_mapClientInfo, m_queSendMsg, task, up, cli, nextNr>>
BY DEF RecvThread, RegisterFd, RecvMessage, RecvFails, RecvEof, RecvRemovePlayer, RecvClose,
       netVars, playerVars

LEMMA TaskThreadFrame ==
  TaskThread => UNCHANGED <<netVars, recv, up, cli, nextNr, failures>>
BY DEF TaskThread, TaskFrame, DoRegiser, DoLogin, AddPlayer, DoLogout, DoCreateRoom, DoJoinRoom,
       DoQuitRoom, DoGameReady, DoQuitGameReady, DoRequestGameStart, AnswerGameStart, DoGameStart,
       StartFrameThread, NotifyPlayer

\* The steps, by thread.
LEMMA ServerStepKinds ==
  ServerNext =>
    \/ \E p \in Clients : Accept(p)
    \/ \E p \in Clients : ClientStep(p)
    \/ RecvThread \/ TaskThread \/ SendMessage \/ FrameThread
BY DEF ServerNext

\* The request the task thread takes, and where it leaves the others.
LEMMA TakenRequest ==
  ASSUME MessagesOK, m_queTaskData # <<>>
  PROVE  Req \in GoodMessage /\ Tail(m_queTaskData) \in Seq(GoodMessage)
BY HeadTailProperties DEF MessagesOK, Req

LEMMA LowestDescriptor ==
  ASSUME NEW S, S \subseteq Fds, S # {}
  PROVE  Min(S) \in S
BY MinOfNaturals, FdsAssumption

-----------------------------------------------------------------------------
(* The server uses the registry as module Rooms allows.                    *)

LEMMA RoomsStep ==
  ASSUME ServerInv, [ServerNext]_serverVars
  PROVE  [RoomsNext]_roomsVars
<1>1. CASE UNCHANGED roomsVars
  BY <1>1
<1>2. CASE UNCHANGED serverVars
  BY <1>1, <1>2 DEF serverVars
<1>3. CASE \E p \in Clients : Accept(p) \/ ClientStep(p)
  BY <1>1, <1>3, ClientStepFrame DEF Accept
<1>4. CASE SendMessage
  BY <1>1, <1>4 DEF SendMessage
<1>5. CASE FrameThread
  BY <1>5 DEF FrameThread, RoomsNext
<1>6. CASE RecvThread
  <2>1. CASE RecvRemovePlayer
    <3>1. recv.cid \in Cids \cup {-1}
      BY DEF ServerInv, NetOK
    <3>2. QED
      BY <2>1, <3>1 DEF RecvRemovePlayer, RoomsNext
  <2>2. CASE ~RecvRemovePlayer
    BY <1>1, <1>6, <2>2 DEF RecvThread, RegisterFd, RecvMessage, RecvFails, RecvEof, RecvClose
  <2>3. QED
    BY <2>1, <2>2
<1>7. CASE TaskThread
  <2>1. DOMAIN m_mapGame \subseteq Gids
    BY DEF ServerInv, RoomsInv, RoomsTypeOK
  <2>2. m_queTaskData # <<>> => Req \in GoodMessage
    BY TakenRequest DEF ServerInv
  <2>3. CASE DoCreateRoom
    <3>1. CreateGame(Req.cid, Req.what) /\ Req.type = "CREATE_ROOM" /\ m_queTaskData # <<>>
      BY <2>3 DEF DoCreateRoom, Takes
    <3>2. Req.cid \in Cids /\ Req.what \in Names
      BY <2>2, <3>1 DEF GoodMessage, PlayerTypes
    <3>3. QED
      BY <3>1, <3>2 DEF RoomsNext
  <2>4. CASE DoJoinRoom \/ DoQuitRoom \/ DoGameReady \/ DoQuitGameReady
    <3>1. Req.type \in PlayerTypes /\ m_queTaskData # <<>>
      BY <2>4 DEF DoJoinRoom, DoQuitRoom, DoGameReady, DoQuitGameReady, Takes, PlayerTypes
    <3>2. Req.cid \in Cids
      BY <2>2, <3>1 DEF GoodMessage
    <3>3. \/ AddGamePlayer(Req.gid, Req.cid) \/ RemovePlayerOf(Req.gid, Req.cid)
          \/ GameReady(Req.gid, Req.cid) \/ QuitGameReady(Req.gid, Req.cid)
      BY <2>4 DEF DoJoinRoom, DoQuitRoom, DoGameReady, DoQuitGameReady
    <3>4. CASE Req.gid \in Gids
      BY <3>2, <3>3, <3>4 DEF RoomsNext
    <3>5. CASE Req.gid \notin Gids
      BY <1>1, <2>1, <3>3, <3>5 DEF AddGamePlayer, RemovePlayerOf, GameReady, QuitGameReady,
         roomsVars
    <3>6. QED
      BY <3>4, <3>5
  <2>5. CASE StartFrameThread
    <3>1. GameStart(task.req.gid)
      BY <2>5 DEF StartFrameThread
    <3>2. CASE task.req.gid \in Gids
      BY <3>1, <3>2 DEF RoomsNext
    <3>3. CASE task.req.gid \notin Gids
      BY <1>1, <2>1, <3>1, <3>3 DEF GameStart, roomsVars
    <3>4. QED
      BY <3>2, <3>3
  <2>6. CASE \/ DoRegiser \/ DoLogin \/ AddPlayer \/ DoLogout
             \/ DoRequestGameStart \/ AnswerGameStart \/ DoGameStart \/ NotifyPlayer
    BY <1>1, <2>6 DEF DoRegiser, DoLogin, AddPlayer, DoLogout, DoRequestGameStart, AnswerGameStart,
       DoGameStart, NotifyPlayer
  <2>7. QED
    BY <1>7, <2>3, <2>4, <2>5, <2>6 DEF TaskThread
<1>8. QED
  BY <1>2, <1>3, <1>4, <1>5, <1>6, <1>7, ServerStepKinds

-----------------------------------------------------------------------------
(* The tables of accounts and of players.                                  *)

\* A cid that find_client finds is that of an account.
LEMMA FoundClient ==
  ASSUME TablesOK, NEW a, FindClient(a) # -1
  PROVE  FindClient(a) \in DOMAIN m_mapClientInfo
<1> DEFINE S == {c \in DOMAIN m_mapClientInfo : m_mapClientInfo[c] = a}
<1>1. S # {} /\ FindClient(a) = Min(S)
  BY DEF FindClient
<1>2. S \subseteq Nat
  BY CidsAssumption DEF TablesOK
<1>3. QED
  BY <1>1, <1>2, MinOfNaturals

\* Removing a descriptor from the online table.
LEMMA OfflineOK ==
  ASSUME TablesOK, NEW fd, m_mapOlinePlayers' = Offline(fd), UNCHANGED m_mapClientInfo
  PROVE  /\ TablesOK'
         /\ \A cid : IsPlayerOnline(cid)' => IsPlayerOnline(cid)
<1>1. /\ DOMAIN m_mapOlinePlayers' = DOMAIN m_mapOlinePlayers \ {fd}
      /\ \A ge \in DOMAIN m_mapOlinePlayers' : m_mapOlinePlayers'[ge] = m_mapOlinePlayers[ge]
  BY DEF Offline
<1>2. QED
  BY <1>1 DEF TablesOK, OnlineUnique, IsPlayerOnline

\* Which steps change the online table, and how.
LEMMA OnlineSteps ==
  ASSUME [ServerNext]_serverVars
  PROVE  \/ UNCHANGED m_mapOlinePlayers
         \/ (\E fd : m_mapOlinePlayers' = Offline(fd)) /\ UNCHANGED m_mapClientInfo
         \/ AddPlayer
<1>1. CASE TaskThread
  BY <1>1 DEF TaskThread, DoRegiser, DoLogin, DoLogout, DoCreateRoom, DoJoinRoom,
     DoQuitRoom, DoGameReady, DoQuitGameReady, DoRequestGameStart, AnswerGameStart, DoGameStart,
     StartFrameThread, NotifyPlayer, playerVars
<1>2. CASE RecvThread
  BY <1>2 DEF RecvThread, RegisterFd, RecvMessage, RecvFails, RecvEof, RecvRemovePlayer, RecvClose,
     playerVars
<1>3. CASE SendMessage \/ FrameThread \/ UNCHANGED serverVars
  BY <1>3 DEF SendMessage, FrameThread, serverVars, playerVars
<1>4. CASE \E p \in Clients : Accept(p) \/ ClientStep(p)
  BY <1>4, ClientStepFrame DEF Accept, playerVars
<1>5. QED
  BY <1>1, <1>2, <1>3, <1>4, ServerStepKinds

\* Registration is the only step that changes the accounts, and it adds one.
LEMMA AccountSteps ==
  ASSUME [ServerNext]_serverVars
  PROVE  UNCHANGED m_mapClientInfo \/ DoRegiser
<1>1. CASE TaskThread
  BY <1>1 DEF TaskThread, DoLogin, AddPlayer, DoLogout, DoCreateRoom, DoJoinRoom,
     DoQuitRoom, DoGameReady, DoQuitGameReady, DoRequestGameStart, AnswerGameStart, DoGameStart,
     StartFrameThread, NotifyPlayer, playerVars
<1>2. CASE SendMessage \/ FrameThread \/ UNCHANGED serverVars
  BY <1>2 DEF SendMessage, FrameThread, serverVars, playerVars
<1>3. CASE \E p \in Clients : Accept(p) \/ ClientStep(p)
  BY <1>3, ClientStepFrame DEF Accept, playerVars
<1>4. QED
  BY <1>1, <1>2, <1>3, RecvThreadFrame, ServerStepKinds

LEMMA TablesStep ==
  ASSUME ServerInv, [ServerNext]_serverVars
  PROVE  /\ TablesOK'
         /\ DOMAIN m_mapClientInfo \subseteq DOMAIN m_mapClientInfo'
<1> USE DEF ServerInv
<1>1. CASE UNCHANGED playerVars
  BY <1>1 DEF TablesOK, OnlineUnique, playerVars
<1>2. CASE DoRegiser
  <2>1. UNCHANGED m_mapOlinePlayers
    BY <1>2 DEF DoRegiser
  <2>2. CASE UNCHANGED m_mapClientInfo
    BY <1>1, <2>1, <2>2 DEF playerVars
  <2>3. CASE ~UNCHANGED m_mapClientInfo
    <3> DEFINE new == GetMaxClientId + 1
    <3>1. /\ ~IsClientExisted(Req.what) /\ new \in Cids
          /\ m_mapClientInfo' = [c \in DOMAIN m_mapClientInfo \cup {new} |->
                                   IF c = new THEN Req.what ELSE m_mapClientInfo[c]]
      BY <1>2, <2>3 DEF DoRegiser
    <3>2. Req.what \in Accounts
      <4>1. m_queTaskData # <<>> /\ Req.type = "REGIST"
        BY <1>2 DEF DoRegiser, Takes
      <4>2. QED
        BY <4>1, TakenRequest DEF GoodMessage, AccountTypes
    <3> HIDE DEF new
    <3>3. QED
      BY <2>1, <3>1, <3>2 DEF TablesOK, OnlineUnique, IsClientExisted
  <2>4. QED
    BY <2>2, <2>3
<1>3. CASE (\E fd : m_mapOlinePlayers' = Offline(fd)) /\ UNCHANGED m_mapClientInfo
  BY <1>3, OfflineOK
<1>4. CASE AddPlayer
  <2>1. /\ UNCHANGED m_mapClientInfo
        /\ m_mapOlinePlayers' =
             [fd \in DOMAIN m_mapOlinePlayers \cup {task.req.fd} |->
                IF fd \in DOMAIN m_mapOlinePlayers THEN m_mapOlinePlayers[fd] ELSE task.cid]
    BY <1>4 DEF AddPlayer, Online
  <2>2. task.cid \in DOMAIN m_mapClientInfo /\ ~IsPlayerOnline(task.cid) /\ task.req.fd \in Fds
    BY <1>4 DEF AddPlayer, TaskOK, GoodMessage, Message
  <2>3. QED
    BY <2>1, <2>2 DEF TablesOK, OnlineUnique, IsPlayerOnline
<1>5. QED
  BY <1>1, <1>2, <1>3, <1>4, OnlineSteps, AccountSteps DEF playerVars

-----------------------------------------------------------------------------
(* The descriptors.                                                        *)

\* Closing a watched descriptor: it is not queued for the receive thread.
LEMMA CloseOK ==
  ASSUME NetOK, NEW fd \in watched, Close(fd), recv' = IdleRecv
  PROVE  NetOK'
<1>1. IdleRecv \in [pc : {"wait", "remove", "close"}, fd : Fds, cid : Cids \cup {-1}]
      /\ IdleRecv.pc = "wait"
  BY LowestDescriptor, FdsAssumption DEF IdleRecv
<1>2. /\ conn' = [conn EXCEPT ![fd] = NoClient]
      /\ watched' = watched \ {fd} /\ m_queSockFD' = m_queSockFD
  BY DEF Close
<1>3. \A i \in DOMAIN m_queSockFD : m_queSockFD[i] # fd
  BY DEF NetOK
<1>4. conn' \in [Fds -> Clients \cup {NoClient}] /\ \A ge \in Fds \ {fd} : conn'[ge] = conn[ge]
  BY <1>2 DEF NetOK
<1>5. \A i \in DOMAIN m_queSockFD : m_queSockFD[i] \in Fds
  BY DEF NetOK
<1>6. QED
  BY <1>1, <1>2, <1>3, <1>4, <1>5 DEF NetOK

LEMMA NetStep ==
  ASSUME ServerInv, [ServerNext]_serverVars
  PROVE  NetOK'
<1> USE DEF ServerInv
<1>1. CASE UNCHANGED <<conn, watched, m_queSockFD, recv>>
  BY <1>1 DEF NetOK
<1>2. CASE \E p \in Clients : Accept(p)
  <2>1. PICK p \in Clients : Accept(p)
    BY <1>2
  <2> DEFINE free == {fd \in Fds : conn[fd] = NoClient}
             fd == Min(free)
  <2>2. /\ fd \in Fds /\ conn[fd] = NoClient /\ p # NoClient
        /\ conn' = [conn EXCEPT ![fd] = p] /\ m_queSockFD' = Append(m_queSockFD, fd)
        /\ UNCHANGED <<watched, recv>>
    <3>1. free # {} /\ free \subseteq Fds
      BY <2>1 DEF Accept
    <3>2. fd \in free
      BY <3>1, LowestDescriptor
    <3>3. QED
      BY <2>1, <3>2, FdsAssumption DEF Accept
  <2> HIDE DEF fd, free
  <2>3. conn' \in [Fds -> Clients \cup {NoClient}] /\ conn'[fd] = p
        /\ \A ge \in Fds \ {fd} : conn'[ge] = conn[ge]
    BY <2>2 DEF NetOK
  <2>4. /\ m_queSockFD' \in Seq(Fds) /\ DOMAIN m_queSockFD' = DOMAIN m_queSockFD \cup {Len(m_queSockFD) + 1}
        /\ m_queSockFD'[Len(m_queSockFD) + 1] = fd
        /\ \A i \in DOMAIN m_queSockFD : m_queSockFD'[i] = m_queSockFD[i]
        /\ \A i \in DOMAIN m_queSockFD : m_queSockFD[i] \in Fds /\ m_queSockFD[i] # fd
        /\ Len(m_queSockFD) + 1 \notin DOMAIN m_queSockFD
    BY <2>2 DEF NetOK
  <2>5. fd \notin watched
    BY <2>2 DEF NetOK
  <2>6. QED
    BY <2>2, <2>3, <2>4, <2>5 DEF NetOK
<1>3. CASE RegisterFd
  <2> DEFINE fd == Head(m_queSockFD)
  <2>1. /\ m_queSockFD # <<>> /\ watched' = watched \cup {fd} /\ m_queSockFD' = Tail(m_queSockFD)
        /\ UNCHANGED <<conn, recv>>
    BY <1>3 DEF RegisterFd
  <2>2. /\ fd = m_queSockFD[1] /\ fd \in Fds /\ m_queSockFD' \in Seq(Fds)
        /\ Len(m_queSockFD) \in Nat \ {0} /\ DOMAIN m_queSockFD = 1..Len(m_queSockFD)
        /\ DOMAIN m_queSockFD' = 1..(Len(m_queSockFD) - 1)
        /\ \A i \in DOMAIN m_queSockFD' : m_queSockFD'[i] = m_queSockFD[i + 1]
    BY <2>1 DEF NetOK
  <2> HIDE DEF fd
  <2>3. \A i \in DOMAIN m_queSockFD' : m_queSockFD'[i] # fd
    BY <2>2 DEF NetOK
  <2>4. QED
    BY <2>1, <2>2, <2>3 DEF NetOK
<1>4. ASSUME NEW fd \in Fds, RecvFails(fd)
      PROVE  NetOK'
  <2>1. fd \in watched /\ Close(fd) /\ UNCHANGED recv /\ recv.pc = "wait"
    BY <1>4 DEF RecvFails, RecvReady
  <2>2. /\ conn' = [conn EXCEPT ![fd] = NoClient]
        /\ watched' = watched \ {fd} /\ m_queSockFD' = m_queSockFD
    BY <2>1 DEF Close
  <2>3. \A i \in DOMAIN m_queSockFD : m_queSockFD[i] # fd /\ m_queSockFD[i] \in Fds
    BY <2>1 DEF NetOK
  <2>4. conn' \in [Fds -> Clients \cup {NoClient}] /\ \A ge \in Fds \ {fd} : conn'[ge] = conn[ge]
    BY <2>2 DEF NetOK
  <2>5. QED
    BY <2>1, <2>2, <2>3, <2>4 DEF NetOK
<1>5. ASSUME NEW fd \in Fds, RecvEof(fd)
      PROVE  NetOK'
  <2>1. ClientOf(fd) \in Cids \cup {-1}
    BY DEF ClientOf, TablesOK
  <2>2. /\ recv' = [pc |-> "remove", fd |-> fd, cid |-> ClientOf(fd)]
        /\ fd \in watched /\ UNCHANGED <<conn, watched, m_queSockFD>>
    BY <1>5 DEF RecvEof, netVars
  <2>3. QED
    BY <2>1, <2>2 DEF NetOK
<1>6. CASE RecvRemovePlayer
  BY <1>6 DEF RecvRemovePlayer, netVars, NetOK
<1>7. CASE RecvClose
  <2>1. recv.fd \in watched /\ Close(recv.fd) /\ recv' = IdleRecv
    BY <1>7 DEF RecvClose, NetOK
  <2>2. QED
    BY <2>1, CloseOK
<1>8. CASE RecvThread
  BY <1>1, <1>3, <1>4, <1>5, <1>6, <1>7, <1>8 DEF RecvThread, RecvMessage
<1>9. CASE TaskThread \/ SendMessage \/ FrameThread \/ UNCHANGED serverVars
  BY <1>1, <1>9, TaskThreadFrame DEF SendMessage, FrameThread, netVars, serverVars
<1>10. CASE \E p \in Clients : ClientStep(p)
  BY <1>1, <1>10, ClientStepFrame
<1>11. QED
  BY <1>2, <1>8, <1>9, <1>10, ServerStepKinds

-----------------------------------------------------------------------------
(* The task thread.                                                        *)

\* What a step of the task thread is for the messages: it handles a request
\* at once, keeps one, answers the one it kept, or goes on with it.
Answers(req, m) == m \in ReplyMsg /\ m.nr = req.nr /\ m.fd = req.fd /\ m.type = req.type

HandlesAtOnce ==
  /\ task.pc = "wait" /\ m_queTaskData # <<>> /\ m_queTaskData' = Tail(m_queTaskData)
  /\ task' = task
  /\ \E m : Answers(Req, m) /\ m_queSendMsg' = Append(m_queSendMsg, m)

Keeps ==
  /\ task.pc = "wait" /\ m_queTaskData # <<>> /\ m_queTaskData' = Tail(m_queTaskData)
  /\ task'.pc # "wait" /\ task'.req = Req
  /\ m_queSendMsg' = m_queSendMsg

AnswersKept ==
  /\ task.pc # "wait" /\ m_queTaskData' = m_queTaskData
  /\ task' = IdleTask
  /\ \E m : Answers(task.req, m) /\ m_queSendMsg' = Append(m_queSendMsg, m)

GoesOn ==
  /\ task.pc # "wait" /\ m_queTaskData' = m_queTaskData
  /\ task' = IdleTask \/ (task'.pc # "wait" /\ task'.req = task.req)
  /\ \/ m_queSendMsg' = m_queSendMsg
     \/ \E m \in ReplyMsg : /\ m.nr = 0 /\ m.type = "GAME_START"
                          /\ m_queSendMsg' = Append(m_queSendMsg, m)

LEMMA IdleTaskOK ==
  /\ IdleTask \in [pc : {"wait", "login", "counted", "start", "notify"}, req : GoodMessage,
                   cid : Cids \cup {-1}, nums : Int, rest : SUBSET Cids]
  /\ IdleTask.pc = "wait"
<1>1. Min(Fds) \in Fds
  BY LowestDescriptor, FdsAssumption
<1>2. NoRequest \in GoodMessage
  BY <1>1 DEF NoRequest, GoodMessage, Message, Types, PlayerTypes, AccountTypes
<1>3. QED
  BY <1>2 DEF IdleTask

\* A missing cid decodes to one.
LEMMA NoCidIsCid == NoCid \in Cids
BY AccountsAssumption, LenProperties DEF NoCid

\* A reply is a good one if its result and its fields are of the types.
LEMMA ReplyOK ==
  ASSUME NEW req \in GoodMessage, NEW res \in {0, -1, -2}, NEW cid \in Cids,
         NEW gid \in Gids \cup {0, BadGid}, Reply(req, res, cid, gid)
  PROVE  \E m : Answers(req, m) /\ m_queSendMsg' = Append(m_queSendMsg, m)
<1> DEFINE m == [id |-> req.id, nr |-> req.nr, fd |-> req.fd, type |-> req.type, res |-> res,
                 cid |-> cid, gid |-> gid]
<1>1. m_queSendMsg' = Append(m_queSendMsg, m)
  BY DEF Reply, Queued
<1>2. Answers(req, m)
  BY DEF Answers, ReplyMsg, GoodMessage, Message
<1> HIDE DEF m
<1>3. QED
  BY <1>1, <1>2

LEMMA RefusalOK ==
  ASSUME NEW req \in GoodMessage, Reply(req, -1, NoCid, 0)
  PROVE  \E m : Answers(req, m) /\ m_queSendMsg' = Append(m_queSendMsg, m)
<1>1. -1 \in {0, -1, -2} /\ NoCid \in Cids /\ 0 \in Gids \cup {0, BadGid}
  BY NoCidIsCid
<1>2. QED
  BY <1>1, ReplyOK

\* A GAME_START is worked off: the start of the thread, then a message each.
LEMMA StartGoesOn ==
  ASSUME ServerInv, StartFrameThread \/ NotifyPlayer
  PROVE  GoesOn
<1> USE DEF ServerInv
<1>1. CASE StartFrameThread
  BY <1>1 DEF StartFrameThread, GoesOn, TaskOK
<1>2. CASE NotifyPlayer
  <2> DEFINE cid == Min(task.rest)
             fd == GetSockfd(cid)
             m == [id |-> 0, nr |-> 0, fd |-> fd, type |-> "GAME_START", res |-> 0,
                   cid |-> NoCid, gid |-> 0]
  <2>1. fd \in Fds \cup {-1}
    <3> DEFINE S == {f \in DOMAIN m_mapOlinePlayers : m_mapOlinePlayers[f] = cid}
    <3>1. CASE IsPlayerOnline(cid)
      <4>1. S # {} /\ S \subseteq Fds
        BY <3>1 DEF IsPlayerOnline, TablesOK
      <4>2. fd = Min(S)
        BY <3>1 DEF GetSockfd
      <4>3. QED
        BY <4>1, <4>2, LowestDescriptor
    <3>2. CASE ~IsPlayerOnline(cid)
      BY <3>2 DEF GetSockfd
    <3>3. QED
      BY <3>1, <3>2
  <2>2. CASE fd > 0
    <3>1. fd \in Fds
      BY <2>1, <2>2
    <3>2. m \in ReplyMsg /\ m.nr = 0 /\ m.type = "GAME_START"
      BY <3>1, NoCidIsCid DEF ReplyMsg, Types
    <3>3. m_queSendMsg' = Append(m_queSendMsg, m)
      BY <1>2, <2>2 DEF NotifyPlayer, Queued
    <3> HIDE DEF m, fd
    <3>4. QED
      BY <1>2, <3>2, <3>3 DEF NotifyPlayer, GoesOn, TaskOK
  <2>3. CASE ~(fd > 0)
    <3> HIDE DEF fd
    <3>1. m_queSendMsg' = m_queSendMsg
      BY <1>2, <2>3 DEF NotifyPlayer, fd
    <3>2. QED
      BY <1>2, <3>1 DEF NotifyPlayer, GoesOn, TaskOK
  <2>4. QED
    BY <2>2, <2>3
<1>3. QED
  BY <1>1, <1>2

\* Every step of the task thread is of one of the four kinds.
LEMMA TaskKinds ==
  ASSUME ServerInv, TaskThread
  PROVE  HandlesAtOnce \/ Keeps \/ AnswersKept \/ GoesOn
<1> USE DEF ServerInv
<1>1. task.req \in GoodMessage
  BY DEF TaskOK
<1>2. m_queTaskData # <<>> => Req \in GoodMessage
  BY TakenRequest
<1>3. CASE DoRegiser
  <2>1. CASE Reply(Req, -1, NoCid, 0)
    BY <1>2, <1>3, <2>1, RefusalOK DEF DoRegiser, Takes, HandlesAtOnce
  <2>2. CASE \E new \in Cids : Reply(Req, 0, new, 0)
    BY <1>2, <1>3, <2>2, ReplyOK DEF DoRegiser, Takes, HandlesAtOnce
  <2>3. QED
    BY <1>3, <2>1, <2>2 DEF DoRegiser
<1>4. CASE DoLogin
  <2>1. CASE Reply(Req, -1, NoCid, 0) /\ UNCHANGED task
    BY <1>2, <1>4, <2>1, RefusalOK DEF DoLogin, Takes, HandlesAtOnce
  <2>2. CASE \E cid : task' = [IdleTask EXCEPT !.pc = "login", !.req = Req, !.cid = cid]
                      /\ UNCHANGED m_queSendMsg
    BY <1>4, <2>2 DEF DoLogin, Takes, Keeps, IdleTask
  <2>3. QED
    BY <1>4, <2>1, <2>2 DEF DoLogin
<1>5. CASE AddPlayer
  <2>1. task.cid \in Cids
    BY <1>5 DEF AddPlayer, TaskOK, TablesOK
  <2>2. QED
    BY <1>1, <1>5, <2>1, ReplyOK DEF AddPlayer, AnswersKept
<1>6. CASE DoLogout
  BY <1>2, <1>6, NoCidIsCid, ReplyOK DEF DoLogout, Takes, HandlesAtOnce
<1>7. CASE DoCreateRoom
  <2> DEFINE gid == IF CreateGameResult(Req.what) = -1 THEN BadGid ELSE NewGid
  <2>1. gid \in Gids \cup {0, BadGid}
    BY <1>7 DEF DoCreateRoom, CreateGame
  <2>2. Reply(Req, 0, NoCid, gid)
    BY <1>7 DEF DoCreateRoom
  <2> HIDE DEF gid
  <2>3. QED
    BY <1>2, <1>7, <2>1, <2>2, NoCidIsCid, ReplyOK DEF DoCreateRoom, Takes, HandlesAtOnce
<1>8. CASE DoJoinRoom \/ DoQuitRoom \/ DoGameReady \/ DoQuitGameReady
  <2>1. /\ JoinAnswer(Req.gid) \in {0, -1, -2}
        /\ ReadyResult(Req.gid) \in {0, -1, -2}
    BY DEF JoinAnswer, AddGamePlayerResult, ReadyResult
  <2>2. \E res \in {0, -1, -2} : Reply(Req, res, NoCid, 0)
    BY <1>8, <2>1 DEF DoJoinRoom, DoQuitRoom, DoGameReady, DoQuitGameReady
  <2>3. /\ task.pc = "wait" /\ m_queTaskData # <<>> /\ m_queTaskData' = Tail(m_queTaskData)
        /\ task' = task
    BY <1>8 DEF DoJoinRoom, DoQuitRoom, DoGameReady, DoQuitGameReady, Takes
  <2>4. QED
    BY <1>2, <2>2, <2>3, NoCidIsCid, ReplyOK DEF HandlesAtOnce
<1>9. CASE DoRequestGameStart \/ DoGameStart
  BY <1>9 DEF DoRequestGameStart, DoGameStart, Takes, Keeps, IdleTask
<1>10. CASE AnswerGameStart
  <2>1. StartAnswer(task.nums, task.req.gid) \in {0, -1, -2}
    BY DEF StartAnswer
  <2>2. QED
    BY <1>1, <1>10, <2>1, NoCidIsCid, ReplyOK DEF AnswerGameStart, AnswersKept
<1>11. CASE StartFrameThread \/ NotifyPlayer
  BY <1>11, StartGoesOn
<1>12. QED
  BY <1>3, <1>4, <1>5, <1>6, <1>7, <1>8, <1>9, <1>10, <1>11 DEF TaskThread

\* What the task thread keeps.
LEMMA TaskStep ==
  ASSUME ServerInv, [ServerNext]_serverVars
  PROVE  TaskOK'
<1> USE DEF ServerInv
<1>1. /\ DOMAIN m_mapClientInfo \subseteq DOMAIN m_mapClientInfo'
      /\ AddPlayer \/ \A cid : IsPlayerOnline(cid)' => IsPlayerOnline(cid)
  BY TablesStep, OnlineSteps, OfflineOK DEF IsPlayerOnline
<1>2. m_queTaskData # <<>> => Req \in GoodMessage
  BY TakenRequest
<1>3. CASE task' = IdleTask
  BY <1>3, IdleTaskOK DEF TaskOK
<1>4. CASE AddPlayer
  BY <1>3, <1>4 DEF AddPlayer
<1>5. CASE UNCHANGED task /\ ~AddPlayer
  BY <1>1, <1>5 DEF TaskOK
<1>6. CASE DoLogin
  <2>1. CASE UNCHANGED task
    BY <1>4, <1>5, <2>1
  <2>2. CASE ~UNCHANGED task
    <3>1. PICK cid : cid = FindClient(Req.what)
      OBVIOUS
    <3>2. /\ cid # -1 /\ ~IsPlayerOnline(cid)
          /\ task' = [IdleTask EXCEPT !.pc = "login", !.req = Req, !.cid = cid]
          /\ UNCHANGED playerVars
      BY <1>6, <2>2, <3>1 DEF DoLogin
    <3>3. cid \in DOMAIN m_mapClientInfo /\ cid \in Cids
      BY <3>1, <3>2, FoundClient DEF TablesOK
    <3>4. Req.type = "LOGIN" /\ Req \in GoodMessage
      BY <1>2, <1>6 DEF DoLogin, Takes
    <3>5. task' = [pc |-> "login", req |-> Req, cid |-> cid, nums |-> 0, rest |-> {}]
      BY <3>2 DEF IdleTask
    <3>6. task'.pc = "login" /\ task'.req = Req /\ task'.cid = cid
      BY <3>5
    <3>7. task' \in [pc : {"wait", "login", "counted", "start", "notify"}, req : GoodMessage,
                     cid : Cids \cup {-1}, nums : Int, rest : SUBSET Cids]
      BY <3>3, <3>4, <3>5
    <3>8. cid \in DOMAIN m_mapClientInfo' /\ ~(\E fd \in DOMAIN m_mapOlinePlayers' :
                                                  m_mapOlinePlayers'[fd] = cid)
      BY <3>2, <3>3 DEF playerVars, IsPlayerOnline
    <3>9. QED
      BY <3>4, <3>6, <3>7, <3>8 DEF TaskOK, IsPlayerOnline
  <2>3. QED
    BY <2>1, <2>2
<1>7. CASE DoRequestGameStart
  <2>1. GetPlayerNums(Req.gid) \in Int
    BY FS_CardinalityType DEF GetPlayerNums, RoomsInv, MapsAgree
  <2>2. Req.type = "REQ_GAME_START" /\ Req \in GoodMessage
        /\ task' = [pc |-> "counted", req |-> Req, cid |-> -1, nums |-> GetPlayerNums(Req.gid),
                    rest |-> {}]
    BY <1>2, <1>7 DEF DoRequestGameStart, Takes, IdleTask
  <2>3. QED
    BY <2>1, <2>2 DEF TaskOK
<1>8. CASE DoGameStart
  <2>1. Members(Req.gid) \in SUBSET Cids
    BY DEF Members, RoomsInv, RoomsTypeOK, Room
  <2>2. Req \in GoodMessage
        /\ task' = [pc |-> "start", req |-> Req, cid |-> -1, nums |-> 0, rest |-> Members(Req.gid)]
    BY <1>2, <1>8 DEF DoGameStart, Takes, IdleTask
  <2>3. QED
    BY <2>1, <2>2 DEF TaskOK
<1>9. CASE StartFrameThread
  <2>1. CASE task.rest # {}
    BY <1>9, <2>1 DEF StartFrameThread, TaskOK
  <2>2. CASE task.rest = {}
    BY <1>3, <1>9, <2>2 DEF StartFrameThread
  <2>3. QED
    BY <2>1, <2>2
<1>10. CASE AnswerGameStart
  BY <1>3, <1>10 DEF AnswerGameStart
<1>11. CASE NotifyPlayer
  <2> DEFINE cid == Min(task.rest)
  <2>1. CASE task.rest = {cid}
    BY <1>3, <1>11, <2>1 DEF NotifyPlayer
  <2>2. CASE task.rest # {cid}
    <3>1. task' = [task EXCEPT !.rest = task.rest \ {cid}] /\ task.pc = "notify"
      BY <1>11, <2>2 DEF NotifyPlayer, TaskOK
    <3>2. task.rest \ {cid} # {}
      BY <2>2, <3>1 DEF TaskOK
    <3> HIDE DEF cid
    <3>3. QED
      BY <3>1, <3>2 DEF TaskOK
  <2>3. QED
    BY <2>1, <2>2
<1>12. CASE TaskThread
  <2>1. CASE UNCHANGED task
    BY <1>4, <1>5, <2>1
  <2>2. CASE \/ DoRegiser \/ DoLogout \/ DoCreateRoom \/ DoJoinRoom
             \/ DoQuitRoom \/ DoGameReady \/ DoQuitGameReady
    BY <2>1, <2>2 DEF DoRegiser, DoLogout, DoCreateRoom, DoJoinRoom, DoQuitRoom, DoGameReady,
       DoQuitGameReady
  <2>3. QED
    BY <1>4, <1>6, <1>7, <1>8, <1>9, <1>10, <1>11, <1>12, <2>2 DEF TaskThread
<1>13. CASE ~TaskThread
  <2>1. UNCHANGED task
    BY <1>13, ClientStepFrame, RecvThreadFrame, ServerStepKinds
       DEF Accept, SendMessage, FrameThread, serverVars
  <2>2. QED
    BY <1>5, <1>4, <2>1
<1>14. QED
  BY <1>12, <1>13

-----------------------------------------------------------------------------
(* The messages.                                                           *)

LEMMA PutOK ==
  ASSUME MessagesOK, NEW p, NEW m \in GoodMessage, Put(p, m)
  PROVE  inbox' \in [Fds -> Seq(GoodMessage)]
<1>1. \A fd \in Fds : [m EXCEPT !.fd = fd] \in GoodMessage
  BY DEF GoodMessage, Message
<1>2. \A fd \in Fds : Append(inbox[fd], [m EXCEPT !.fd = fd]) \in Seq(GoodMessage)
  BY <1>1 DEF MessagesOK
<1>3. QED
  BY <1>2 DEF Put, MessagesOK

LEMMA NextIdsNat ==
  ASSUME ServerInv, NEW p \in Clients
  PROVE  NextIds(p) \subseteq Nat
<1>1. cli[p].id \in Nat
  BY DEF ServerInv, ClientsOK, ClientRecord
<1>2. QED
  BY <1>1 DEF NextIds

\* What a client sends is a good message of a type its menu offers.
LEMMA RequestSent ==
  ASSUME ServerInv, NEW p \in Clients, Request(p)
  PROVE  \E type \in RequestTypes, cid \in Cids \cup {-1}, gid \in Gids \cup {0, BadGid},
            what \in Accounts \cup Names \cup {NoArg} :
           /\ Send(p, type, cid, gid, what)
           /\ type \in PlayerTypes => cid \in Cids
           /\ type \in AccountTypes => what \in Accounts
           /\ type = "CREATE_ROOM" => what \in Names
           /\ cli[p].phase \notin {"out", "exited"}
           /\ cli[p].phase = "login" <=> type \in AccountTypes
<1> DEFINE Goal(type, cid, gid, what) ==
             /\ Send(p, type, cid, gid, what)
             /\ type \in PlayerTypes => cid \in Cids
             /\ type \in AccountTypes => what \in Accounts
             /\ type = "CREATE_ROOM" => what \in Names
             /\ cli[p].phase \notin {"out", "exited"}
             /\ cli[p].phase = "login" <=> type \in AccountTypes
<1>1. /\ cli[p].cid \in Cids \cup {-1} /\ cli[p].gid \in Gids \cup {0, BadGid}
      /\ cli[p].phase \in PastLogin => cli[p].cid \in Cids
  BY DEF ServerInv, ClientsOK, ClientRecord
<1>2. CASE cli[p].phase = "login" /\ (regist(p) \/ login(p))
  <2>1. PICK a \in Accounts : Send(p, "REGIST", -1, 0, a) \/ Send(p, "LOGIN", -1, 0, a)
    BY <1>2, AccountsAssumption DEF regist, login
  <2>2. -1 \in Cids \cup {-1} /\ 0 \in Gids \cup {0, BadGid} /\ a \in Accounts \cup Names \cup {NoArg}
    OBVIOUS
  <2>3. Goal("REGIST", -1, 0, a) \/ Goal("LOGIN", -1, 0, a)
    BY <1>2, <2>1 DEF PlayerTypes, AccountTypes
  <2>4. "REGIST" \in RequestTypes /\ "LOGIN" \in RequestTypes
    BY DEF RequestTypes, AccountTypes
  <2> HIDE DEF Goal
  <2>5. \E type \in RequestTypes, cid \in Cids \cup {-1}, gid \in Gids \cup {0, BadGid},
           what \in Accounts \cup Names \cup {NoArg} : Goal(type, cid, gid, what)
    BY <2>2, <2>3, <2>4
  <2>6. QED
    BY <2>5 DEF Goal
<1>3. CASE cli[p].phase = "menu" /\ create_room(p)
  <2>1. PICK n \in Names : Send(p, "CREATE_ROOM", cli[p].cid, 0, n)
    BY <1>3 DEF create_room
  <2>2. Goal("CREATE_ROOM", cli[p].cid, 0, n)
    BY <1>1, <1>3, <2>1 DEF PlayerTypes, AccountTypes, PastLogin, Phases
  <2>3. "CREATE_ROOM" \in RequestTypes /\ 0 \in Gids \cup {0, BadGid}
        /\ n \in Accounts \cup Names \cup {NoArg}
    BY DEF RequestTypes, PlayerTypes
  <2> HIDE DEF Goal
  <2>4. \E type \in RequestTypes, cid \in Cids \cup {-1}, gid \in Gids \cup {0, BadGid},
           what \in Accounts \cup Names \cup {NoArg} : Goal(type, cid, gid, what)
    BY <1>1, <2>2, <2>3
  <2>5. QED
    BY <2>4 DEF Goal
<1>4. CASE \E type \in PlayerTypes, gid \in {0, cli[p].gid} :
             cli[p].phase \in PastLogin /\ type # "CREATE_ROOM" /\ Send(p, type, cli[p].cid, gid, NoArg)
  <2>1. PICK type \in PlayerTypes, gid \in {0, cli[p].gid} :
             cli[p].phase \in PastLogin /\ type # "CREATE_ROOM" /\ Send(p, type, cli[p].cid, gid, NoArg)
    BY <1>4
  <2>2. Goal(type, cli[p].cid, gid, NoArg)
    BY <1>1, <2>1 DEF PlayerTypes, AccountTypes, PastLogin, Phases
  <2>3. type \in RequestTypes /\ gid \in Gids \cup {0, BadGid} /\ NoArg \in Accounts \cup Names \cup {NoArg}
    BY <1>1 DEF RequestTypes
  <2> HIDE DEF Goal
  <2>4. \E t \in RequestTypes, cid \in Cids \cup {-1}, g \in Gids \cup {0, BadGid},
           what \in Accounts \cup Names \cup {NoArg} : Goal(t, cid, g, what)
    BY <1>1, <2>2, <2>3
  <2>5. QED
    BY <2>4 DEF Goal
<1>5. CASE cli[p].phase = "seat" /\ request_start_game(p)
  <2>1. Send(p, "REQ_GAME_START", -1, cli[p].gid, NoArg)
    BY <1>5 DEF request_start_game
  <2>2. Goal("REQ_GAME_START", -1, cli[p].gid, NoArg)
    BY <1>5, <2>1 DEF PlayerTypes, AccountTypes
  <2>3. "REQ_GAME_START" \in RequestTypes /\ -1 \in Cids \cup {-1}
        /\ NoArg \in Accounts \cup Names \cup {NoArg}
    BY DEF RequestTypes
  <2> HIDE DEF Goal
  <2>4. \E t \in RequestTypes, cid \in Cids \cup {-1}, g \in Gids \cup {0, BadGid},
           what \in Accounts \cup Names \cup {NoArg} : Goal(t, cid, g, what)
    BY <1>1, <2>2, <2>3
  <2>5. QED
    BY <2>4 DEF Goal
<1>6. QED
  <2>1. \/ cli[p].phase = "login" /\ (regist(p) \/ login(p))
        \/ cli[p].phase = "menu" /\ create_room(p)
        \/ cli[p].phase = "seat" /\ request_start_game(p)
        \/ cli[p].phase \in PastLogin /\ (\/ logout(p) \/ join_room(p) \/ quit_room(p)
                                          \/ game_ready(p) \/ quit_game_ready(p))
    BY DEF Request, PastLogin, Phases
  <2>2. ASSUME \/ logout(p) \/ join_room(p) \/ quit_room(p) \/ game_ready(p) \/ quit_game_ready(p)
        PROVE  \E type \in PlayerTypes, gid \in {0, cli[p].gid} :
                 type # "CREATE_ROOM" /\ Send(p, type, cli[p].cid, gid, NoArg)
    BY <2>2 DEF logout, join_room, quit_room, game_ready, quit_game_ready, PlayerTypes
  <2>3. QED
    BY <1>2, <1>3, <1>4, <1>5, <2>1, <2>2

\* The first message of the reply queue, and those that stay.
LEMMA SentReply ==
  ASSUME MessagesOK, m_queSendMsg # <<>>
  PROVE  Head(m_queSendMsg) \in ReplyMsg /\ Tail(m_queSendMsg) \in Seq(ReplyMsg)
BY HeadTailProperties DEF MessagesOK

LEMMA MessagesStep ==
  ASSUME ServerInv, [ServerNext]_serverVars
  PROVE  MessagesOK'
<1> USE DEF ServerInv
<1>1. CASE TaskThread
  <2>1. UNCHANGED inbox
    BY <1>1, TaskThreadFrame DEF netVars
  <2>2. m_queTaskData' \in Seq(GoodMessage)
    BY <1>1, TaskKinds, TakenRequest DEF HandlesAtOnce, Keeps, AnswersKept, GoesOn, MessagesOK
  <2>3. m_queSendMsg' \in Seq(ReplyMsg)
    <3>1. m_queSendMsg' = m_queSendMsg \/ \E m \in ReplyMsg : m_queSendMsg' = Append(m_queSendMsg, m)
      BY <1>1, TaskKinds DEF HandlesAtOnce, Keeps, AnswersKept, GoesOn, Answers
    <3>2. m_queSendMsg \in Seq(ReplyMsg)
      BY DEF MessagesOK
    <3>3. QED
      BY <3>1, <3>2, AppendProperties
  <2>4. QED
    BY <2>1, <2>2, <2>3 DEF MessagesOK
<1>2. ASSUME NEW fd \in Fds, Close(fd)
      PROVE  inbox' \in [Fds -> Seq(GoodMessage)]
  BY <1>2 DEF Close, MessagesOK
<1>3. CASE RecvThread
  <2>1. UNCHANGED m_queSendMsg
    BY <1>3, RecvThreadFrame
  <2>2. ASSUME NEW fd \in Fds, RecvMessage(fd)
        PROVE  MessagesOK'
    <3>1. inbox[fd] # <<>> /\ inbox[fd] \in Seq(GoodMessage)
      BY <2>2 DEF RecvMessage, MessagesOK
    <3>2. Head(inbox[fd]) \in GoodMessage /\ Tail(inbox[fd]) \in Seq(GoodMessage)
      BY <3>1, HeadTailProperties
    <3>3. QED
      BY <2>1, <2>2, <3>2 DEF RecvMessage, MessagesOK
  <2>3. ASSUME NEW fd \in Fds, RecvFails(fd)
        PROVE  MessagesOK'
    BY <1>2, <2>1, <2>3 DEF RecvFails, MessagesOK
  <2>4. CASE RecvClose
    <3>1. recv.fd \in Fds
      BY DEF NetOK
    <3>2. QED
      BY <1>2, <2>1, <2>4, <3>1 DEF RecvClose, MessagesOK
  <2>5. CASE RegisterFd \/ RecvRemovePlayer \/ \E fd \in Fds : RecvEof(fd)
    BY <2>1, <2>5 DEF RegisterFd, RecvRemovePlayer, RecvEof, netVars, MessagesOK
  <2>6. QED
    BY <1>3, <2>2, <2>3, <2>4, <2>5 DEF RecvThread
<1>4. CASE SendMessage
  <2>1. /\ m_queSendMsg # <<>> /\ m_queSendMsg' = Tail(m_queSendMsg) /\ UNCHANGED m_queTaskData
        /\ \/ UNCHANGED inbox
           \/ conn[Head(m_queSendMsg).fd] # NoClient
              /\ SentTo(conn[Head(m_queSendMsg).fd], Head(m_queSendMsg))
    BY <1>4 DEF SendMessage
  <2>2. Head(m_queSendMsg) \in ReplyMsg /\ m_queSendMsg' \in Seq(ReplyMsg)
    BY <2>1, SentReply
  <2>3. ASSUME NEW m \in ReplyMsg, NEW p \in Clients, SentTo(p, m)
        PROVE  inbox' \in [Fds -> Seq(GoodMessage)]
    <3> DEFINE g == [id |-> 0, nr |-> 0, fd |-> m.fd, type |-> "GAME_START", cid |-> -1, gid |-> cli[p].gid,
                     what |-> NoArg]
    <3>1. g \in GoodMessage
      BY DEF GoodMessage, Message, ReplyMsg, Types, PlayerTypes, AccountTypes,
         ClientsOK, ClientRecord
    <3>2. UNCHANGED inbox \/ Put(p, g)
      BY <2>3 DEF SentTo, StartCommand
    <3> HIDE DEF g
    <3>3. QED
      BY <3>1, <3>2, PutOK DEF MessagesOK
  <2>4. conn[Head(m_queSendMsg).fd] \in Clients \cup {NoClient}
    BY <2>2 DEF NetOK, ReplyMsg
  <2>5. QED
    BY <2>1, <2>2, <2>3, <2>4 DEF MessagesOK
<1>5. ASSUME NEW p \in Clients, ClientStep(p)
      PROVE  MessagesOK'
  <2>1. UNCHANGED <<m_queTaskData, m_queSendMsg>>
    BY <1>5, ClientStepFrame
  <2>2. CASE Request(p)
    <3>1. PICK type \in RequestTypes, cid \in Cids \cup {-1}, gid \in Gids \cup {0, BadGid},
               what \in Accounts \cup Names \cup {NoArg} :
            /\ Send(p, type, cid, gid, what)
            /\ type \in PlayerTypes => cid \in Cids
            /\ type \in AccountTypes => what \in Accounts
            /\ type = "CREATE_ROOM" => what \in Names
      BY <2>2, RequestSent
    <3>id. PICK i \in Nat :
            Put(p, [id |-> i, nr |-> nextNr, fd |-> Min(Fds), type |-> type, cid |-> cid,
                    gid |-> gid, what |-> what])
      BY <3>1, NextIdsNat DEF Send
    <3> DEFINE m == [id |-> i, nr |-> nextNr, fd |-> Min(Fds), type |-> type, cid |-> cid, gid |-> gid,
                     what |-> what]
    <3>2. m \in GoodMessage
      <4>1. Min(Fds) \in Fds /\ nextNr \in Nat /\ type \in Types
        BY LowestDescriptor, FdsAssumption DEF ClientsOK, Types, RequestTypes, PlayerTypes,
           AccountTypes
      <4>2. QED
        BY <3>1, <4>1 DEF GoodMessage, Message
    <3>3. Put(p, m)
      BY <3>id
    <3> HIDE DEF m
    <3>4. QED
      BY <2>1, <3>2, <3>3, PutOK DEF MessagesOK
  <2>3. CASE ~Request(p)
    BY <1>5, <2>1, <2>3 DEF ClientStep, GiveUp, PickRoom, ShowPlayers, ShowPlayersTimesOut,
       QueryAnswered, Exit, netVars, MessagesOK
  <2>4. QED
    BY <2>2, <2>3
<1>6. CASE FrameThread \/ (\E p \in Clients : Accept(p)) \/ UNCHANGED serverVars
  BY <1>6 DEF FrameThread, Accept, serverVars, netVars, MessagesOK
<1>7. QED
  BY <1>1, <1>3, <1>4, <1>5, <1>6, ServerStepKinds

-----------------------------------------------------------------------------
(* The clients.                                                            *)

\* A failure is counted once.
LEMMA FailuresStep ==
  ASSUME ServerInv, [ServerNext]_serverVars
  PROVE  failures' \in Nat /\ failures' >= failures
<1>1. failures \in Nat
  BY DEF ServerInv, ClientsOK
<1>2. CASE UNCHANGED failures \/ failures' = failures + 1
  BY <1>1, <1>2
<1>3. CASE TaskThread \/ SendMessage \/ FrameThread \/ UNCHANGED serverVars
  BY <1>2, <1>3, TaskThreadFrame DEF SendMessage, FrameThread, serverVars
<1>4. CASE RecvThread
  BY <1>2, <1>4 DEF RecvThread, RegisterFd, RecvMessage, RecvFails, RecvEof, RecvRemovePlayer,
     RecvClose, Fails
<1>5. ASSUME NEW p \in Clients, Request(p)
      PROVE  UNCHANGED failures
  BY <1>5 DEF Request, regist, login, logout, create_room, join_room, quit_room, game_ready,
     request_start_game, quit_game_ready, Send
<1>6. ASSUME NEW p \in Clients, Accept(p) \/ ClientStep(p)
      PROVE  UNCHANGED failures \/ failures' = failures + 1
  BY <1>5, <1>6 DEF Accept, ClientStep, GiveUp, PickRoom, ShowPlayers, ShowPlayersTimesOut,
     QueryAnswered, Exit, Fails
<1>7. QED
  BY <1>2, <1>3, <1>4, <1>6, ServerStepKinds

\* What the menus keep of one client.
ClientGood(c) ==
  /\ c \in ClientRecord
  /\ c.phase \in PastLogin => c.cid \in Cids
  /\ c.phase = "login" => c.op \in AccountTypes \cup {"none"}
  /\ c.phase \in {"out", "exited"} => c.op = "none"

LEMMA ClientUpdate ==
  ASSUME ClientsOK, NEW p \in Clients, NEW c, ClientGood(c), cli' = [cli EXCEPT ![p] = c],
         nextNr' \in Nat \ {0}, failures' \in Nat
  PROVE  ClientsOK'
BY DEF ClientsOK, ClientGood

LEMMA AnsweredGood ==
  ASSUME NEW c, ClientGood(c), c.op # "none",
         NEW res \in {0, -1, -2, TimedOut}, NEW cid \in Cids, NEW gid \in Gids \cup {0, BadGid}
  PROVE  ClientGood(Answered(c, res, cid, gid))
<1>1. c.op \in RequestTypes /\ c.phase \notin {"out", "exited"}
  BY DEF ClientGood, ClientRecord
<1>2. CASE c.op \in PlayerTypes \cup {"REQ_GAME_START"}
  <2>1. c.phase \in PastLogin /\ c.cid \in Cids
    BY <1>1, <1>2 DEF ClientGood, ClientRecord, PastLogin, PlayerTypes, AccountTypes
  <2>2. AfterReply(c.op, res) \in Phases \ {"out", "exited"}
    BY <1>2 DEF AfterReply, PlayerTypes, Phases
  <2> DEFINE d == [c EXCEPT !.phase = AfterReply(c.op, res), !.op = "none",
                            !.gid = IF c.op = "CREATE_ROOM" THEN gid ELSE c.gid,
                            !.owner = IF c.op \in {"CREATE_ROOM", "JOIN_ROOM"} THEN "unknown" ELSE c.owner]
  <2>3. Answered(c, res, cid, gid) = d
    BY <1>2 DEF Answered, PlayerTypes, ClientGood, ClientRecord
  <2>4. d \in ClientRecord /\ d.cid = c.cid /\ d.op = "none" /\ d.phase = AfterReply(c.op, res)
    BY <2>2 DEF ClientGood, ClientRecord, RequestTypes
  <2> HIDE DEF d
  <2>5. QED
    BY <2>1, <2>2, <2>3, <2>4 DEF ClientGood
<1>3. CASE c.op \in AccountTypes
  <2>1. AfterReply(c.op, res) \in {"login", "menu"} /\ (AfterReply(c.op, res) = "menu" => res = 0)
    BY <1>3 DEF AfterReply, AccountTypes
  <2> DEFINE d == [c EXCEPT !.phase = AfterReply(c.op, res), !.op = "none",
                            !.cid = IF res = 0 THEN cid ELSE c.cid]
  <2>2. Answered(c, res, cid, gid) = d
    BY <1>3 DEF Answered, AccountTypes, ClientGood, ClientRecord
  <2>3. d \in ClientRecord /\ d.op = "none" /\ d.phase = AfterReply(c.op, res)
        /\ (res = 0 => d.cid = cid)
    BY <2>1 DEF ClientGood, ClientRecord, RequestTypes, Phases
  <2> HIDE DEF d
  <2>4. QED
    BY <1>3, <2>1, <2>2, <2>3 DEF ClientGood, PastLogin
<1>4. QED
  BY <1>1, <1>2, <1>3 DEF RequestTypes

LEMMA ClientsStep ==
  ASSUME ServerInv, [ServerNext]_serverVars
  PROVE  ClientsOK'
<1> USE DEF ServerInv
<1>0. failures' \in Nat
  BY FailuresStep
<1>1. \A p \in Clients : ClientGood(cli[p])
  BY DEF ClientsOK, ClientGood
<1>2. ASSUME NEW p \in Clients, Request(p)
      PROVE  ClientsOK'
  <2>1. PICK type \in RequestTypes, cid \in Cids \cup {-1}, gid \in Gids \cup {0, BadGid},
             what \in Accounts \cup Names \cup {NoArg} :
          /\ Send(p, type, cid, gid, what)
          /\ cli[p].phase \notin {"out", "exited"}
          /\ cli[p].phase = "login" <=> type \in AccountTypes
    BY <1>2, RequestSent
  <2>id. PICK i \in Nat :
          cli' = [cli EXCEPT ![p] = [cli[p] EXCEPT !.op = type, !.id = i, !.nr = nextNr,
                                                  !.gid = gid]]
    BY <2>1, NextIdsNat DEF Send
  <2> DEFINE c == [cli[p] EXCEPT !.op = type, !.id = i, !.nr = nextNr, !.gid = gid]
  <2>nr. nextNr' = nextNr + 1
    BY <2>1 DEF Send
  <2>2. cli' = [cli EXCEPT ![p] = c] /\ nextNr' \in Nat \ {0}
    BY <2>id, <2>nr DEF ClientsOK
  <2>3. ClientGood(c)
    BY <1>1, <2>1 DEF ClientGood, ClientRecord, ClientsOK
  <2> HIDE DEF c
  <2>4. QED
    BY <1>0, <2>2, <2>3, ClientUpdate
<1>3. ASSUME NEW p \in Clients, Waiting(p), UNCHANGED nextNr,
             NEW res \in {0, -1, -2, TimedOut}, NEW cid \in Cids, NEW gid \in Gids \cup {0, BadGid},
             cli' = [cli EXCEPT ![p] = Answered(cli[p], res, cid, gid)]
      PROVE  ClientsOK'
  <2>1. ClientGood(Answered(cli[p], res, cid, gid))
    BY <1>1, <1>3, AnsweredGood DEF Waiting
  <2>2. QED
    BY <1>0, <1>3, <2>1, ClientUpdate DEF ClientsOK
<1>4. ASSUME NEW p \in Clients, GiveUp(p)
      PROVE  ClientsOK'
  <2>1. /\ Waiting(p) /\ UNCHANGED nextNr
        /\ cli' = [cli EXCEPT ![p] = Answered(cli[p], TimedOut, NoCid, 0)]
    BY <1>4 DEF GiveUp, ClientsOK
  <2>2. TimedOut \in {0, -1, -2, TimedOut} /\ NoCid \in Cids /\ 0 \in Gids \cup {0, BadGid}
    BY NoCidIsCid
  <2>3. QED
    BY <1>3, <2>1, <2>2
<1>5. ASSUME NEW p \in Clients, UNCHANGED nextNr, ~Waiting(p),
             NEW ph \in Phases, NEW g \in Gids \cup {0, BadGid}, NEW o \in {"unknown", "yes", "no"},
             ph \in PastLogin => cli[p].phase \in PastLogin,
             cli' = [cli EXCEPT ![p] = [cli[p] EXCEPT !.phase = ph, !.gid = g, !.owner = o]]
      PROVE  ClientsOK'
  <2> DEFINE c == [cli[p] EXCEPT !.phase = ph, !.gid = g, !.owner = o]
  <2>1. ClientGood(c)
    BY <1>1, <1>5 DEF ClientGood, ClientRecord, Waiting
  <2> HIDE DEF c
  <2>2. QED
    BY <1>0, <1>5, <2>1, ClientUpdate DEF ClientsOK, c
<1>6. ASSUME NEW p \in Clients, PickRoom(p) \/ ShowPlayers(p) \/ ShowPlayersTimesOut(p)
      PROVE  ClientsOK'
  <2>1. UNCHANGED nextNr /\ ~Waiting(p) /\ cli[p].phase \in PastLogin
    BY <1>6 DEF PickRoom, ShowPlayers, ShowPlayersTimesOut, QueryAnswered, PastLogin, Phases
  <2>2. GetGameidList \subseteq Gids
    BY DEF GetGameidList, RoomsInv, RoomsTypeOK
  <2>3. \E ph \in Phases, g \in Gids \cup {0, BadGid}, o \in {"unknown", "yes", "no"} :
          cli' = [cli EXCEPT ![p] = [cli[p] EXCEPT !.phase = ph, !.gid = g, !.owner = o]]
    <3>1. cli[p] \in ClientRecord /\ cli \in [Clients -> ClientRecord]
      BY DEF ClientsOK
    <3>2. CASE PickRoom(p)
      <4>1. PICK g \in GetGameidList :
              cli' = [cli EXCEPT ![p] = [cli[p] EXCEPT !.phase = "picked", !.gid = g]]
        BY <3>2 DEF PickRoom
      <4>2. [cli[p] EXCEPT !.phase = "picked", !.gid = g]
              = [cli[p] EXCEPT !.phase = "picked", !.gid = g, !.owner = cli[p].owner]
        BY <3>1 DEF ClientRecord
      <4>3. "picked" \in Phases /\ g \in Gids \cup {0, BadGid}
            /\ cli[p].owner \in {"unknown", "yes", "no"}
        BY <2>2, <3>1 DEF Phases, ClientRecord
      <4>4. QED
        BY <4>1, <4>2, <4>3
    <3>3. CASE ShowPlayers(p)
      <4>1. PICK ph \in {"menu", "seat"}, o \in {"yes", "no", cli[p].owner} :
              cli' = [cli EXCEPT ![p] = [cli[p] EXCEPT !.phase = ph, !.owner = o]]
        <5>1. CASE Members(cli[p].gid) = {}
          <6>1. cli' = [cli EXCEPT ![p] = [cli[p] EXCEPT !.phase = "menu"]]
            BY <3>3, <5>1 DEF ShowPlayers
          <6>2. [cli[p] EXCEPT !.phase = "menu"]
                  = [cli[p] EXCEPT !.phase = "menu", !.owner = cli[p].owner]
            BY <3>1 DEF ClientRecord
          <6>3. QED
            BY <6>1, <6>2
        <5>2. CASE Members(cli[p].gid) # {}
          BY <3>3, <5>2 DEF ShowPlayers
        <5>3. QED
          BY <5>1, <5>2
      <4>2. [cli[p] EXCEPT !.phase = ph, !.owner = o]
              = [cli[p] EXCEPT !.phase = ph, !.gid = cli[p].gid, !.owner = o]
        BY <3>1 DEF ClientRecord
      <4>3. ph \in Phases /\ cli[p].gid \in Gids \cup {0, BadGid} /\ o \in {"unknown", "yes", "no"}
        BY <3>1 DEF Phases, ClientRecord
      <4>4. QED
        BY <4>1, <4>2, <4>3
    <3>4. CASE ShowPlayersTimesOut(p)
      <4>1. PICK ph \in {"menu", "seat"} : cli' = [cli EXCEPT ![p] = [cli[p] EXCEPT !.phase = ph]]
        BY <3>1, <3>4 DEF ShowPlayersTimesOut
      <4>2. [cli[p] EXCEPT !.phase = ph]
              = [cli[p] EXCEPT !.phase = ph, !.gid = cli[p].gid, !.owner = cli[p].owner]
        BY <3>1 DEF ClientRecord
      <4>3. ph \in Phases /\ cli[p].gid \in Gids \cup {0, BadGid}
            /\ cli[p].owner \in {"unknown", "yes", "no"}
        BY <3>1 DEF Phases, ClientRecord
      <4>4. QED
        BY <4>1, <4>2, <4>3
    <3>5. QED
      BY <1>6, <3>2, <3>3, <3>4
  <2>4. QED
    BY <1>5, <2>1, <2>3
<1>7. ASSUME NEW p \in Clients, Exit(p)
      PROVE  ClientsOK'
  <2> DEFINE c == [NoClientYet EXCEPT !.phase = "exited"]
  <2>1. cli' = [cli EXCEPT ![p] = c] /\ UNCHANGED nextNr
    BY <1>7 DEF Exit
  <2>2. -1 \in Cids \cup {-1} /\ 0 \in Gids \cup {0, BadGid}
    OBVIOUS
  <2>3. ClientGood(c)
    BY <2>2 DEF ClientGood, ClientRecord, NoClientYet, Phases, PastLogin
  <2> HIDE DEF c
  <2>4. QED
    BY <1>0, <2>1, <2>3, ClientUpdate DEF ClientsOK
<1>8. ASSUME NEW p \in Clients, Accept(p)
      PROVE  ClientsOK'
  <2> DEFINE c == [cli[p] EXCEPT !.phase = "login"]
  <2>1. cli' = [cli EXCEPT ![p] = c] /\ UNCHANGED nextNr /\ cli[p].phase = "out"
    BY <1>8 DEF Accept, ClientsOK
  <2>2. ClientGood(c)
    BY <1>1, <2>1 DEF ClientGood, ClientRecord, Phases, PastLogin
  <2> HIDE DEF c
  <2>3. QED
    BY <1>0, <2>1, <2>2, ClientUpdate DEF ClientsOK
<1>9. CASE SendMessage
  <2>1. /\ m_queSendMsg # <<>> /\ UNCHANGED nextNr
        /\ \/ UNCHANGED cli
           \/ /\ conn[Head(m_queSendMsg).fd] # NoClient
              /\ ~Exited(conn[Head(m_queSendMsg).fd])
              /\ SentTo(conn[Head(m_queSendMsg).fd], Head(m_queSendMsg))
    BY <1>9 DEF SendMessage
  <2>2. Head(m_queSendMsg) \in ReplyMsg
    BY <2>1, SentReply
  <2>3. conn[Head(m_queSendMsg).fd] \in Clients \cup {NoClient}
    BY <2>2 DEF NetOK, ReplyMsg
  <2>4. CASE UNCHANGED cli
    BY <1>0, <2>1, <2>4 DEF ClientsOK
  <2>5. ASSUME NEW p \in Clients, NEW m \in ReplyMsg, ~Exited(p), SentTo(p, m)
        PROVE  ClientsOK'
    <3>1. CASE m.type = "GAME_START"
      <4> DEFINE c == [cli[p] EXCEPT !.phase = "game"]
      <4>1. CASE UNCHANGED cli
        BY <1>0, <2>1, <4>1 DEF ClientsOK
      <4>2. CASE ~UNCHANGED cli
        <5>1. cli' = [cli EXCEPT ![p] = c] /\ cli[p].phase \in {"ready", "start"}
          BY <2>5, <3>1, <4>2 DEF SentTo, ClientsOK
        <5>2. ClientGood(c)
          BY <1>1, <5>1 DEF ClientGood, ClientRecord, Phases, PastLogin
        <5> HIDE DEF c
        <5>3. QED
          BY <1>0, <2>1, <5>1, <5>2, ClientUpdate DEF ClientsOK
      <4>3. QED
        BY <4>1, <4>2
    <3>2. CASE m.type # "GAME_START" /\ Waiting(p) /\ cli[p].id = m.id
      <4>1. cli' = [cli EXCEPT ![p] = Answered(cli[p], m.res, m.cid, m.gid)]
        BY <2>5, <3>2 DEF SentTo, ClientsOK
      <4>2. m.res \in {0, -1, -2, TimedOut} /\ m.cid \in Cids /\ m.gid \in Gids \cup {0, BadGid}
        BY DEF ReplyMsg
      <4>3. QED
        BY <1>3, <2>1, <3>2, <4>1, <4>2
    <3>3. CASE m.type # "GAME_START" /\ ~(Waiting(p) /\ cli[p].id = m.id)
      BY <2>4, <2>5, <3>3 DEF SentTo
    <3>4. QED
      BY <3>1, <3>2, <3>3
  <2>6. QED
    BY <2>1, <2>2, <2>3, <2>4, <2>5
<1>10. CASE RecvThread \/ TaskThread \/ FrameThread \/ UNCHANGED serverVars
  BY <1>0, <1>10, RecvThreadFrame, TaskThreadFrame DEF FrameThread, serverVars, ClientsOK
<1>11. QED
  BY <1>2, <1>4, <1>6, <1>7, <1>8, <1>9, <1>10, ServerStepKinds DEF ClientStep

-----------------------------------------------------------------------------
(* The invariant, and what follows from it.                                *)

LEMMA ServerInvInit == ServerInit => ServerInv
<1> SUFFICES ASSUME ServerInit PROVE ServerInv
  OBVIOUS
<1>1. RoomsInv
  BY DEF ServerInit, RoomsInit, RoomsInv, RoomsTypeOK, MapsAgree, OwnerIsReadyPlayer, NamesUnique
<1>2. ClientsOK
  <2>1. -1 \in Cids \cup {-1} /\ 0 \in Gids \cup {0, BadGid}
    OBVIOUS
  <2>2. NoClientYet \in ClientRecord /\ NoClientYet.phase = "out" /\ NoClientYet.op = "none"
    BY <2>1 DEF NoClientYet, ClientRecord, Phases
  <2>3. cli \in [Clients -> ClientRecord] /\ \A p \in Clients : cli[p] = NoClientYet
    BY <2>2 DEF ServerInit
  <2>4. QED
    BY <2>2, <2>3 DEF ServerInit, ClientsOK, PastLogin
<1>3. TablesOK
  <2>1. /\ DOMAIN m_mapClientInfo = 1..Len(TestAccounts)
        /\ \A c \in DOMAIN m_mapClientInfo : m_mapClientInfo[c] = TestAccounts[c]
    BY DEF ServerInit
  <2>2. DOMAIN m_mapOlinePlayers = {}
    BY DEF ServerInit
  <2>3. /\ DOMAIN TestAccounts = 1..Len(TestAccounts)
        /\ \A c \in 1..Len(TestAccounts) : TestAccounts[c] \in Accounts
    BY AccountsAssumption
  <2>4. QED
    BY <2>1, <2>2, <2>3, AccountsAssumption DEF TablesOK, OnlineUnique
<1>4. NetOK
  <2>1. IdleRecv \in [pc : {"wait", "remove", "close"}, fd : Fds, cid : Cids \cup {-1}]
        /\ IdleRecv.pc = "wait"
    BY LowestDescriptor, FdsAssumption DEF IdleRecv
  <2>2. /\ conn \in [Fds -> Clients \cup {NoClient}] /\ watched = {} /\ m_queSockFD = <<>>
        /\ recv = IdleRecv
    BY DEF ServerInit
  <2>3. QED
    BY <2>1, <2>2 DEF NetOK
<1>5. MessagesOK
  BY DEF ServerInit, MessagesOK
<1>6. TaskOK
  <2>1. task = IdleTask
    BY DEF ServerInit
  <2>2. QED
    BY <2>1, IdleTaskOK DEF TaskOK
<1>7. QED
  BY <1>1, <1>2, <1>3, <1>4, <1>5, <1>6 DEF ServerInv

LEMMA ServerInvStep == ServerInv /\ [ServerNext]_serverVars => ServerInv'
<1> SUFFICES ASSUME ServerInv, [ServerNext]_serverVars PROVE ServerInv'
  OBVIOUS
<1>1. RoomsInv'
  BY RoomsStep, RoomsInvStep DEF ServerInv
<1>2. QED
  BY <1>1, TablesStep, NetStep, MessagesStep, TaskStep, ClientsStep DEF ServerInv

THEOREM ServerInvariant == ServerSpec => []ServerInv
BY ServerInvInit, ServerInvStep, PTL DEF ServerSpec

\* The server is well typed; the receive thread works on a descriptor that is
\* open and watched from the end of file it met to its close.
THEOREM ServerTypeCorrect == ServerSpec => []ServerTypeOK
<1>1. ServerInv => ServerTypeOK
  <2> SUFFICES ASSUME ServerInv PROVE ServerTypeOK
    OBVIOUS
  <2> USE DEF ServerInv
  <2>1. GoodMessage \subseteq Message
    BY DEF GoodMessage
  <2>2. /\ \A fd \in Fds : inbox[fd] \in Seq(Message)
        /\ m_queTaskData \in Seq(Message) /\ m_queSendMsg \in Seq(ReplyMsg)
    BY <2>1, SeqMonotonic DEF MessagesOK
  <2>3. task.pc \in {"wait", "login", "counted", "start", "notify"} /\ task.req \in Message
    BY <2>1 DEF TaskOK
  <2>4. QED
    BY <2>2, <2>3 DEF ServerTypeOK, RoomsInv, TablesOK, NetOK
<1>2. QED
  BY <1>1, ServerInvariant, PTL

\* No client is entered in the online table under two descriptors, although
\* do_login tests and inserts under two locks with the disconnect path between.
THEOREM NoClientOnlineTwice == ServerSpec => []OnlineUnique
<1>1. ServerInv => OnlineUnique
  BY DEF ServerInv, TablesOK
<1>2. QED
  BY <1>1, ServerInvariant, PTL

-----------------------------------------------------------------------------
(* The order of the requests of a connection.                              *)

\* The numbered messages of fd in s are older than those in t.
Before(s, t, fd) ==
  \A i \in DOMAIN s, j \in DOMAIN t :
    s[i].fd = fd /\ t[j].fd = fd /\ s[i].nr > 0 /\ t[j].nr > 0 => s[i].nr < t[j].nr

\* The numbers in s are below n.
GivenOut(s, n) == \A i \in DOMAIN s : s[i].nr < n

\* What holds of the messages of fd, from the reply queue back to its socket.
GoodChain(a, b, c, d, fd, n) ==
  /\ InOrder(a, fd) /\ InOrder(c, fd) /\ InOrder(d, fd)
  /\ Before(a, b, fd) /\ Before(a, c, fd) /\ Before(a, d, fd)
  /\ Before(b, c, fd) /\ Before(b, d, fd) /\ Before(c, d, fd)
  /\ GivenOut(a, n) /\ GivenOut(b, n) /\ GivenOut(c, n) /\ GivenOut(d, n)
  /\ \A i \in DOMAIN d : d[i].fd = fd

OrderInv ==
  \A fd \in Fds : GoodChain(m_queSendMsg, Busy, m_queTaskData, inbox[fd], fd, nextNr)

LEMMA TailOrder ==
  ASSUME NEW S, NEW s \in Seq(S), s # <<>>, NEW t, NEW fd, NEW n
  PROVE  /\ InOrder(s, fd) => InOrder(Tail(s), fd) /\ Before(<<Head(s)>>, Tail(s), fd)
         /\ Before(s, t, fd) => Before(Tail(s), t, fd) /\ Before(<<Head(s)>>, t, fd)
         /\ Before(t, s, fd) => Before(t, Tail(s), fd) /\ Before(t, <<Head(s)>>, fd)
         /\ GivenOut(s, n) => GivenOut(Tail(s), n) /\ GivenOut(<<Head(s)>>, n)
<1>1. /\ Len(s) \in Nat \ {0} /\ DOMAIN s = 1..Len(s) /\ Head(s) = s[1]
      /\ DOMAIN Tail(s) = 1..(Len(s) - 1)
      /\ \A i \in DOMAIN Tail(s) : Tail(s)[i] = s[i + 1]
  OBVIOUS
<1>2. DOMAIN <<Head(s)>> = {1} /\ <<Head(s)>>[1] = Head(s)
  OBVIOUS
<1>3. /\ InOrder(s, fd) => InOrder(Tail(s), fd)
      /\ Before(s, t, fd) => Before(Tail(s), t, fd)
      /\ Before(t, s, fd) => Before(t, Tail(s), fd)
      /\ GivenOut(s, n) => GivenOut(Tail(s), n)
  BY <1>1 DEF InOrder, Before, GivenOut
<1>4. /\ InOrder(s, fd) => Before(<<Head(s)>>, Tail(s), fd)
      /\ Before(s, t, fd) => Before(<<Head(s)>>, t, fd)
      /\ Before(t, s, fd) => Before(t, <<Head(s)>>, fd)
      /\ GivenOut(s, n) => GivenOut(<<Head(s)>>, n)
  BY <1>1, <1>2 DEF InOrder, Before, GivenOut
<1>5. QED
  BY <1>3, <1>4

LEMMA AppendOrder ==
  ASSUME NEW S, NEW s \in Seq(S), NEW m \in S, NEW t, NEW fd, NEW n
  PROVE  /\ InOrder(s, fd) /\ Before(s, <<m>>, fd) => InOrder(Append(s, m), fd)
         /\ Before(s, t, fd) /\ Before(<<m>>, t, fd) => Before(Append(s, m), t, fd)
         /\ Before(t, s, fd) /\ Before(t, <<m>>, fd) => Before(t, Append(s, m), fd)
         /\ GivenOut(s, n) /\ GivenOut(<<m>>, n) => GivenOut(Append(s, m), n)
<1>1. /\ Len(s) \in Nat /\ DOMAIN s = 1..Len(s)
      /\ DOMAIN Append(s, m) = 1..(Len(s) + 1) /\ Append(s, m)[Len(s) + 1] = m
      /\ \A i \in DOMAIN s : Append(s, m)[i] = s[i]
  OBVIOUS
<1>2. DOMAIN <<m>> = {1} /\ <<m>>[1] = m
  OBVIOUS
<1>3. \A i \in DOMAIN Append(s, m) : i \in DOMAIN s \/ i = Len(s) + 1
  BY <1>1
<1>4. \A i, j \in DOMAIN Append(s, m) : i < j => i \in DOMAIN s
  BY <1>1
<1>5. QED
  BY <1>1, <1>2, <1>3, <1>4 DEF InOrder, Before, GivenOut

LEMMA ConcatOrder ==
  ASSUME NEW S, NEW s \in Seq(S), NEW u \in Seq(S), NEW t, NEW fd
  PROVE  /\ InOrder(s, fd) /\ InOrder(u, fd) /\ Before(s, u, fd) => InOrder(s \o u, fd)
         /\ Before(s, t, fd) /\ Before(u, t, fd) => Before(s \o u, t, fd)
<1>1. /\ Len(s) \in Nat /\ DOMAIN s = 1..Len(s) /\ Len(u) \in Nat /\ DOMAIN u = 1..Len(u)
      /\ DOMAIN (s \o u) = 1..(Len(s) + Len(u))
      /\ \A i \in DOMAIN (s \o u) :
           (s \o u)[i] = IF i <= Len(s) THEN s[i] ELSE u[i - Len(s)]
  BY ConcatProperties
<1>2. \A i \in DOMAIN (s \o u) : i \in DOMAIN s \/ i - Len(s) \in DOMAIN u
  BY <1>1
<1>3. QED
  BY <1>1, <1>2 DEF InOrder, Before

\* Messages that the order does not concern.
LEMMA Unconcerned ==
  ASSUME NEW m, NEW fd, m.nr = 0 \/ m.fd # fd, NEW t
  PROVE  Before(<<m>>, t, fd) /\ Before(t, <<m>>, fd)
BY DEF Before

\* A reply takes the place of its request.
LEMMA SamePlace ==
  ASSUME NEW r, NEW m, m.nr = r.nr, m.fd = r.fd, NEW t, NEW fd, NEW n
  PROVE  /\ Before(<<r>>, t, fd) => Before(<<m>>, t, fd)
         /\ Before(t, <<r>>, fd) => Before(t, <<m>>, fd)
         /\ GivenOut(<<r>>, n) => GivenOut(<<m>>, n)
BY DEF Before, GivenOut

LEMMA EmptyOrder ==
  ASSUME NEW t, NEW fd, NEW n
  PROVE  Before(<<>>, t, fd) /\ Before(t, <<>>, fd) /\ InOrder(<<>>, fd) /\ GivenOut(<<>>, n)
BY DEF Before, InOrder, GivenOut

\* The newest request comes after all that were given out.
LEMMA NewestLast ==
  ASSUME NEW n, NEW m, m.nr = n, NEW t, GivenOut(t, n), NEW fd
  PROVE  Before(t, <<m>>, fd)
BY DEF Before, GivenOut

\* What the steps do to a chain: the oldest message of one part goes to the end
\* of the part before it, the oldest or the newest are dropped, one is added.
LEMMA ChainMoves ==
  ASSUME NEW a \in Seq(ReplyMsg), NEW c \in Seq(GoodMessage), NEW d \in Seq(GoodMessage),
         NEW b, NEW fd \in Fds, NEW n \in Nat \ {0}, GoodChain(a, b, c, d, fd, n)
  PROVE  /\ d # <<>> => GoodChain(a, b, Append(c, Head(d)), Tail(d), fd, n)
         /\ b = <<>> /\ c # <<>> => GoodChain(a, <<Head(c)>>, Tail(c), d, fd, n)
         /\ GoodChain(a, <<>>, c, d, fd, n)
         /\ GoodChain(a, b, c, <<>>, fd, n)
         /\ a # <<>> => GoodChain(Tail(a), b, c, d, fd, n)
<1> USE DEF GoodChain
<1>1. ASSUME d # <<>>
      PROVE  GoodChain(a, b, Append(c, Head(d)), Tail(d), fd, n)
  <2>1. Head(d) \in GoodMessage /\ \A i \in DOMAIN Tail(d) : Tail(d)[i].fd = fd
    BY <1>1
  <2>2. /\ InOrder(Tail(d), fd) /\ Before(<<Head(d)>>, Tail(d), fd)
        /\ GivenOut(Tail(d), n) /\ GivenOut(<<Head(d)>>, n)
        /\ Before(a, Tail(d), fd) /\ Before(a, <<Head(d)>>, fd)
        /\ Before(b, Tail(d), fd) /\ Before(b, <<Head(d)>>, fd)
        /\ Before(c, Tail(d), fd) /\ Before(c, <<Head(d)>>, fd)
    BY <1>1, TailOrder
  <2>3. /\ InOrder(Append(c, Head(d)), fd) /\ GivenOut(Append(c, Head(d)), n)
        /\ Before(a, Append(c, Head(d)), fd) /\ Before(b, Append(c, Head(d)), fd)
        /\ Before(Append(c, Head(d)), Tail(d), fd)
    BY <2>1, <2>2, AppendOrder
  <2>4. QED
    BY <2>1, <2>2, <2>3
<1>2. ASSUME b = <<>>, c # <<>>
      PROVE  GoodChain(a, <<Head(c)>>, Tail(c), d, fd, n)
  BY <1>2, TailOrder
<1>3. GoodChain(a, <<>>, c, d, fd, n)
  <2>1. /\ GivenOut(<<>>, n) /\ Before(a, <<>>, fd)
        /\ Before(<<>>, c, fd) /\ Before(<<>>, d, fd)
    BY EmptyOrder
  <2>2. QED
    BY <2>1
<1>4. GoodChain(a, b, c, <<>>, fd, n)
  <2>1. /\ GivenOut(<<>>, n) /\ InOrder(<<>>, fd)
        /\ Before(a, <<>>, fd) /\ Before(b, <<>>, fd) /\ Before(c, <<>>, fd)
    BY EmptyOrder
  <2>2. DOMAIN <<>> = {}
    OBVIOUS
  <2>3. QED
    BY <2>1, <2>2
<1>5. ASSUME a # <<>>
      PROVE  GoodChain(Tail(a), b, c, d, fd, n)
  BY <1>5, TailOrder
<1>6. QED
  BY <1>1, <1>2, <1>3, <1>4, <1>5

\* The handlers: a request is answered at once or after it was kept.
LEMMA ChainAnswers ==
  ASSUME NEW a \in Seq(ReplyMsg), NEW c \in Seq(GoodMessage), NEW d \in Seq(GoodMessage),
         NEW b, NEW fd \in Fds, NEW n \in Nat \ {0}, GoodChain(a, b, c, d, fd, n),
         NEW r, NEW m, Answers(r, m)
  PROVE  /\ b = <<>> /\ c # <<>> /\ r = Head(c) => GoodChain(Append(a, m), <<>>, Tail(c), d, fd, n)
         /\ b = <<r>> => GoodChain(Append(a, m), <<>>, c, d, fd, n)
<1>1. ASSUME b = <<r>>
      PROVE  GoodChain(Append(a, m), <<>>, c, d, fd, n)
  <2>1. m \in ReplyMsg /\ m.nr = r.nr /\ m.fd = r.fd
    BY DEF Answers
  <2>2. /\ Before(a, <<m>>, fd) /\ Before(<<m>>, c, fd) /\ Before(<<m>>, d, fd)
        /\ GivenOut(<<m>>, n)
    BY <1>1, <2>1, SamePlace DEF GoodChain
  <2>3. /\ InOrder(Append(a, m), fd) /\ GivenOut(Append(a, m), n)
        /\ Before(Append(a, m), c, fd) /\ Before(Append(a, m), d, fd)
    BY <2>1, <2>2, AppendOrder DEF GoodChain
  <2>4. QED
    BY <2>3, EmptyOrder DEF GoodChain
<1>2. ASSUME b = <<>>, c # <<>>, r = Head(c)
      PROVE  GoodChain(Append(a, m), <<>>, Tail(c), d, fd, n)
  <2>1. m \in ReplyMsg /\ m.nr = r.nr /\ m.fd = r.fd
    BY DEF Answers
  <2>2. GoodChain(a, <<r>>, Tail(c), d, fd, n) /\ Tail(c) \in Seq(GoodMessage)
    BY <1>2, ChainMoves
  <2>3. /\ Before(a, <<m>>, fd) /\ Before(<<m>>, Tail(c), fd) /\ Before(<<m>>, d, fd)
        /\ GivenOut(<<m>>, n)
    BY <2>1, <2>2, SamePlace DEF GoodChain
  <2>4. /\ InOrder(Append(a, m), fd) /\ GivenOut(Append(a, m), n)
        /\ Before(Append(a, m), Tail(c), fd) /\ Before(Append(a, m), d, fd)
    BY <2>1, <2>2, <2>3, AppendOrder DEF GoodChain
  <2>5. QED
    BY <2>2, <2>4, EmptyOrder DEF GoodChain
<1>3. QED
  BY <1>1, <1>2

\* A message of another descriptor, or without a number, is put in the chain.
LEMMA ChainInserts ==
  ASSUME NEW a \in Seq(ReplyMsg), NEW c \in Seq(GoodMessage), NEW d \in Seq(GoodMessage),
         NEW b, NEW fd \in Fds, NEW n \in Nat \ {0}, GoodChain(a, b, c, d, fd, n),
         NEW m, m.nr < n, m.nr = 0 \/ m.fd # fd
  PROVE  /\ m \in ReplyMsg => GoodChain(Append(a, m), b, c, d, fd, n)
         /\ m \in GoodMessage => GoodChain(a, b, Append(c, m), d, fd, n)
         /\ m \in GoodMessage /\ m.fd = fd => GoodChain(a, b, c, Append(d, m), fd, n)
<1> USE DEF GoodChain
<1>1. GivenOut(<<m>>, n)
  BY DEF GivenOut
<1>2. \A t : Before(<<m>>, t, fd) /\ Before(t, <<m>>, fd)
  BY Unconcerned
<1>3. ASSUME m \in ReplyMsg
      PROVE  GoodChain(Append(a, m), b, c, d, fd, n)
  BY <1>1, <1>2, <1>3, AppendOrder
<1>4. ASSUME m \in GoodMessage
      PROVE  GoodChain(a, b, Append(c, m), d, fd, n)
  BY <1>1, <1>2, <1>4, AppendOrder
<1>5. ASSUME m \in GoodMessage, m.fd = fd
      PROVE  GoodChain(a, b, c, Append(d, m), fd, n)
  <2>1. \A i \in DOMAIN Append(d, m) : Append(d, m)[i].fd = fd
    BY <1>5
  <2>2. QED
    BY <1>1, <1>2, <1>5, <2>1, AppendOrder
<1>6. QED
  BY <1>3, <1>4, <1>5

\* A new request is written to the socket, or to none.
LEMMA ChainRequest ==
  ASSUME NEW a \in Seq(ReplyMsg), NEW c \in Seq(GoodMessage), NEW d \in Seq(GoodMessage),
         NEW b, NEW fd \in Fds, NEW n \in Nat \ {0}, GoodChain(a, b, c, d, fd, n),
         \A i \in DOMAIN b : b[i].nr \in Nat
  PROVE  /\ GoodChain(a, b, c, d, fd, n + 1)
         /\ \A m \in GoodMessage :
              m.nr = n /\ m.fd = fd => GoodChain(a, b, c, Append(d, m), fd, n + 1)
<1>1. /\ \A i \in DOMAIN a : a[i].nr \in Nat
      /\ \A i \in DOMAIN c : c[i].nr \in Nat
      /\ \A i \in DOMAIN d : d[i].nr \in Nat
  <2>1. /\ \A m \in ReplyMsg : m.nr \in Nat
        /\ \A m \in GoodMessage : m.nr \in Nat
    BY DEF ReplyMsg, GoodMessage, Message
  <2>2. \A i \in DOMAIN a : a[i] \in ReplyMsg
    OBVIOUS
  <2>3. (\A i \in DOMAIN c : c[i] \in GoodMessage) /\ (\A i \in DOMAIN d : d[i] \in GoodMessage)
    OBVIOUS
  <2>4. QED
    BY <2>1, <2>2, <2>3
<1>2. GivenOut(a, n + 1) /\ GivenOut(b, n + 1) /\ GivenOut(c, n + 1) /\ GivenOut(d, n + 1)
  BY <1>1 DEF GivenOut, GoodChain
<1>3. GoodChain(a, b, c, d, fd, n + 1)
  BY <1>2 DEF GoodChain
<1>4. ASSUME NEW m \in GoodMessage, m.nr = n, m.fd = fd
      PROVE  GoodChain(a, b, c, Append(d, m), fd, n + 1)
  <2>1. \A i \in DOMAIN Append(d, m) : Append(d, m)[i].fd = fd
    BY <1>4 DEF GoodChain
  <2>2. GivenOut(<<m>>, n + 1)
    BY <1>4 DEF GivenOut
  <2>3. Before(a, <<m>>, fd) /\ Before(b, <<m>>, fd) /\ Before(c, <<m>>, fd) /\ Before(d, <<m>>, fd)
    BY <1>4, NewestLast DEF GoodChain
  <2>4. /\ InOrder(Append(d, m), fd) /\ GivenOut(Append(d, m), n + 1)
        /\ Before(a, Append(d, m), fd) /\ Before(b, Append(d, m), fd) /\ Before(c, Append(d, m), fd)
    BY <1>2, <2>2, <2>3, AppendOrder DEF GoodChain
  <2>5. QED
    BY <1>3, <2>1, <2>4 DEF GoodChain
<1>5. QED
  BY <1>3, <1>4

\* The parts of the chain are of the types the lemmas ask for.
LEMMA ChainTyped ==
  ASSUME ServerInv
  PROVE  /\ m_queSendMsg \in Seq(ReplyMsg) /\ m_queTaskData \in Seq(GoodMessage)
         /\ \A fd \in Fds : inbox[fd] \in Seq(GoodMessage)
         /\ \A i \in DOMAIN Busy : Busy[i].nr \in Nat
         /\ nextNr \in Nat \ {0}
<1>1. task.req.nr \in Nat
  BY DEF ServerInv, TaskOK, GoodMessage, Message
<1>2. QED
  BY <1>1 DEF ServerInv, MessagesOK, ClientsOK, Busy

LEMMA OrderTaskStep ==
  ASSUME ServerInv, OrderInv, TaskThread
  PROVE  OrderInv'
<1>1. UNCHANGED <<inbox, nextNr>>
  BY TaskThreadFrame DEF netVars
<1> SUFFICES ASSUME NEW fd \in Fds
             PROVE  GoodChain(m_queSendMsg', Busy', m_queTaskData', inbox[fd], fd, nextNr)
  BY <1>1 DEF OrderInv
<1>2. GoodChain(m_queSendMsg, Busy, m_queTaskData, inbox[fd], fd, nextNr)
  BY DEF OrderInv
<1>3. CASE HandlesAtOnce
  <2>1. Busy = <<>> /\ Busy' = <<>> /\ m_queTaskData # <<>> /\ m_queTaskData' = Tail(m_queTaskData)
    BY <1>3 DEF HandlesAtOnce, Busy
  <2>2. PICK m : Answers(Req, m) /\ m_queSendMsg' = Append(m_queSendMsg, m)
    BY <1>3 DEF HandlesAtOnce
  <2>3. QED
    BY <1>2, <2>1, <2>2, ChainTyped, ChainAnswers DEF Req
<1>4. CASE Keeps
  BY <1>2, <1>4, ChainTyped, ChainMoves DEF Keeps, Busy, Req
<1>5. CASE AnswersKept
  <2>1. Busy = <<task.req>> /\ Busy' = <<>> /\ UNCHANGED m_queTaskData
    BY <1>5, IdleTaskOK DEF AnswersKept, Busy
  <2>2. PICK m : Answers(task.req, m) /\ m_queSendMsg' = Append(m_queSendMsg, m)
    BY <1>5 DEF AnswersKept
  <2>3. QED
    BY <1>2, <2>1, <2>2, ChainTyped, ChainAnswers
<1>6. CASE GoesOn
  <2>1. UNCHANGED m_queTaskData /\ (Busy' = Busy \/ Busy' = <<>>)
    BY <1>6, IdleTaskOK DEF GoesOn, Busy
  <2>2. GoodChain(m_queSendMsg, Busy', m_queTaskData, inbox[fd], fd, nextNr)
    BY <1>2, <2>1, ChainTyped, ChainMoves
  <2>3. CASE \E m \in ReplyMsg : m.nr = 0 /\ m_queSendMsg' = Append(m_queSendMsg, m)
    <3>1. PICK m \in ReplyMsg : m.nr = 0 /\ m_queSendMsg' = Append(m_queSendMsg, m)
      BY <2>3
    <3>2. m.nr < nextNr
      BY <3>1, ChainTyped
    <3>3. QED
      BY <2>1, <2>2, <3>1, <3>2, ChainTyped, ChainInserts
  <2>4. CASE UNCHANGED m_queSendMsg
    BY <2>1, <2>2, <2>4
  <2>5. QED
    BY <1>6, <2>3, <2>4 DEF GoesOn
<1>7. QED
  BY <1>3, <1>4, <1>5, <1>6, TaskKinds

LEMMA OrderRecvStep ==
  ASSUME ServerInv, OrderInv, RecvThread
  PROVE  OrderInv'
<1>1. UNCHANGED <<m_queSendMsg, Busy, nextNr>>
  BY RecvThreadFrame DEF Busy
<1> SUFFICES ASSUME NEW fd \in Fds
             PROVE  GoodChain(m_queSendMsg, Busy, m_queTaskData', inbox'[fd], fd, nextNr)
  BY <1>1 DEF OrderInv
<1>2. GoodChain(m_queSendMsg, Busy, m_queTaskData, inbox[fd], fd, nextNr)
  BY DEF OrderInv
<1>3. CASE UNCHANGED <<m_queTaskData, inbox>>
  BY <1>2, <1>3
<1>4. ASSUME NEW ge \in Fds, RecvMessage(ge)
      PROVE  GoodChain(m_queSendMsg, Busy, m_queTaskData', inbox'[fd], fd, nextNr)
  <2>1. /\ inbox[ge] # <<>> /\ m_queTaskData' = Append(m_queTaskData, Head(inbox[ge]))
        /\ inbox' = [inbox EXCEPT ![ge] = Tail(inbox[ge])]
        /\ inbox \in [Fds -> Seq(GoodMessage)]
    BY <1>4 DEF RecvMessage, ServerInv, MessagesOK
  <2>2. CASE ge = fd
    BY <1>2, <2>1, <2>2, ChainTyped, ChainMoves
  <2>3. CASE ge # fd
    <3>1. inbox[ge] \in Seq(GoodMessage) /\ 1 \in DOMAIN inbox[ge] /\ Head(inbox[ge]) = inbox[ge][1]
      BY <2>1
    <3>2. Head(inbox[ge]).fd = ge /\ Head(inbox[ge]).nr < nextNr /\ Head(inbox[ge]) \in GoodMessage
      BY <3>1 DEF OrderInv, GoodChain, GivenOut
    <3>3. inbox'[fd] = inbox[fd]
      BY <2>1, <2>3
    <3>4. QED
      BY <1>2, <2>1, <2>3, <3>2, <3>3, ChainTyped, ChainInserts
  <2>4. QED
    BY <2>2, <2>3
<1>5. ASSUME NEW ge \in Fds, Close(ge), UNCHANGED m_queTaskData
      PROVE  GoodChain(m_queSendMsg, Busy, m_queTaskData', inbox'[fd], fd, nextNr)
  <2>1. inbox'[fd] = IF fd = ge THEN <<>> ELSE inbox[fd]
    BY <1>5 DEF Close, ServerInv, MessagesOK
  <2>2. QED
    BY <1>2, <1>5, <2>1, ChainTyped, ChainMoves
<1>6. CASE RecvClose
  BY <1>5, <1>6 DEF RecvClose, ServerInv, NetOK
<1>7. QED
  BY <1>3, <1>4, <1>5, <1>6 DEF RecvThread, RegisterFd, RecvFails, RecvEof, RecvRemovePlayer, netVars

LEMMA OrderSendStep ==
  ASSUME ServerInv, OrderInv, SendMessage
  PROVE  OrderInv'
<1> DEFINE m == Head(m_queSendMsg)
           p == conn[m.fd]
<1>1. /\ m_queSendMsg # <<>> /\ m_queSendMsg' = Tail(m_queSendMsg)
      /\ UNCHANGED <<m_queTaskData, task, nextNr>>
      /\ UNCHANGED inbox \/ (p # NoClient /\ StartCommand(p, m))
  BY DEF SendMessage, SentTo
<1>2. UNCHANGED Busy
  BY <1>1 DEF Busy
<1> SUFFICES ASSUME NEW fd \in Fds
             PROVE  GoodChain(Tail(m_queSendMsg), Busy, m_queTaskData, inbox'[fd], fd, nextNr)
  BY <1>1, <1>2 DEF OrderInv
<1>3. GoodChain(m_queSendMsg, Busy, m_queTaskData, inbox[fd], fd, nextNr)
  BY DEF OrderInv
<1>4. GoodChain(Tail(m_queSendMsg), Busy, m_queTaskData, inbox[fd], fd, nextNr)
  BY <1>1, <1>3, ChainTyped, ChainMoves
<1>5. m \in ReplyMsg /\ Tail(m_queSendMsg) \in Seq(ReplyMsg)
  BY <1>1, SentReply DEF ServerInv
<1>6. CASE UNCHANGED inbox
  BY <1>4, <1>6
<1>7. CASE p # NoClient /\ ~UNCHANGED inbox
  <2>1. p \in Clients
    BY <1>5, <1>7 DEF ServerInv, NetOK, ReplyMsg
  <2> DEFINE g == [id |-> 0, nr |-> 0, fd |-> m.fd, type |-> "GAME_START", cid |-> -1, gid |-> cli[p].gid,
                   what |-> NoArg]
             h == [g EXCEPT !.fd = fd]
  <2>2. inbox'[fd] = inbox[fd] \/ inbox'[fd] = Append(inbox[fd], h)
    BY <1>1, <1>7 DEF StartCommand, Put
  <2>3. h \in GoodMessage /\ h.nr = 0 /\ h.fd = fd
    BY <2>1 DEF GoodMessage, Message, Types, PlayerTypes, AccountTypes, ServerInv, ClientsOK,
       ClientRecord
  <2> HIDE DEF h, g, p, m
  <2>4. h.nr < nextNr
    BY <2>3, ChainTyped
  <2>5. QED
    BY <1>4, <1>5, <2>2, <2>3, <2>4, ChainTyped, ChainInserts
<1>8. QED
  BY <1>1, <1>6, <1>7

LEMMA OrderRequestStep ==
  ASSUME ServerInv, OrderInv, NEW p \in Clients, Request(p)
  PROVE  OrderInv'
<1>1. PICK type \in RequestTypes, cid \in Cids \cup {-1}, gid \in Gids \cup {0, BadGid},
           what \in Accounts \cup Names \cup {NoArg} :
        /\ Send(p, type, cid, gid, what)
        /\ type \in PlayerTypes => cid \in Cids
        /\ type \in AccountTypes => what \in Accounts
        /\ type = "CREATE_ROOM" => what \in Names
  BY RequestSent
<1>id. PICK i \in Nat :
         Put(p, [id |-> i, nr |-> nextNr, fd |-> Min(Fds), type |-> type, cid |-> cid, gid |-> gid,
                 what |-> what])
  BY <1>1, NextIdsNat DEF Send
<1> DEFINE g == [id |-> i, nr |-> nextNr, fd |-> Min(Fds), type |-> type, cid |-> cid, gid |-> gid,
                 what |-> what]
<1>2. /\ UNCHANGED <<m_queSendMsg, task, m_queTaskData>> /\ nextNr' = nextNr + 1
      /\ Put(p, g)
  BY <1>1, <1>id DEF Send
<1>3. UNCHANGED Busy
  BY <1>2 DEF Busy
<1> SUFFICES ASSUME NEW fd \in Fds
             PROVE  GoodChain(m_queSendMsg, Busy, m_queTaskData, inbox'[fd], fd, nextNr + 1)
  BY <1>2, <1>3 DEF OrderInv
<1>4. GoodChain(m_queSendMsg, Busy, m_queTaskData, inbox[fd], fd, nextNr)
  BY DEF OrderInv
<1> DEFINE h == [g EXCEPT !.fd = fd]
<1>5. inbox'[fd] = inbox[fd] \/ inbox'[fd] = Append(inbox[fd], h)
  BY <1>2 DEF Put
<1>6. h \in GoodMessage /\ h.nr = nextNr /\ h.fd = fd
  <2>1. nextNr \in Nat /\ type \in Types
    BY ChainTyped DEF Types, RequestTypes, PlayerTypes, AccountTypes
  <2>2. QED
    BY <1>1, <2>1 DEF GoodMessage, Message
<1> HIDE DEF h, g
<1>7. QED
  BY <1>4, <1>5, <1>6, ChainTyped, ChainRequest

LEMMA OrderStep == ServerInv /\ OrderInv /\ [ServerNext]_serverVars => OrderInv'
<1> SUFFICES ASSUME ServerInv, OrderInv, [ServerNext]_serverVars PROVE OrderInv'
  OBVIOUS
<1>1. CASE UNCHANGED <<m_queSendMsg, task, m_queTaskData, inbox, nextNr>>
  BY <1>1 DEF OrderInv, Busy
<1>2. CASE FrameThread \/ (\E p \in Clients : Accept(p)) \/ UNCHANGED serverVars
  BY <1>1, <1>2 DEF FrameThread, Accept, serverVars, netVars
<1>3. ASSUME NEW p \in Clients, ClientStep(p), ~Request(p)
      PROVE  OrderInv'
  BY <1>1, <1>3 DEF ClientStep, GiveUp, PickRoom, ShowPlayers, ShowPlayersTimesOut, QueryAnswered,
     Exit, netVars
<1>4. QED
  BY <1>2, <1>3, ServerStepKinds, OrderTaskStep, OrderRecvStep, OrderSendStep, OrderRequestStep

LEMMA OrderInvariant == ServerSpec => []OrderInv
<1>1. ServerInit => OrderInv
  <2> SUFFICES ASSUME ServerInit, NEW fd \in Fds
               PROVE  GoodChain(m_queSendMsg, Busy, m_queTaskData, inbox[fd], fd, nextNr)
    BY DEF OrderInv
  <2>1. m_queSendMsg = <<>> /\ m_queTaskData = <<>> /\ inbox[fd] = <<>> /\ Busy = <<>>
    BY IdleTaskOK DEF ServerInit, Busy
  <2>2. QED
    BY <2>1, EmptyOrder DEF GoodChain
<1>2. QED
  BY <1>1, OrderStep, ServerInvariant, PTL DEF ServerSpec

\* The requests of a connection and their replies stay in the order they were
\* sent in, from the socket through the task thread to the reply queue.
THEOREM RepliesStayInOrder == ServerSpec => []RepliesInRequestOrder
<1>1. ServerInv /\ OrderInv => RepliesInRequestOrder
  <2> SUFFICES ASSUME ServerInv, OrderInv, NEW fd \in Fds
               PROVE  InOrder(m_queSendMsg \o Busy \o m_queTaskData \o inbox[fd], fd)
    BY DEF RepliesInRequestOrder
  <2> DEFINE S == GoodMessage \cup ReplyMsg
             ab == m_queSendMsg \o Busy
             abc == ab \o m_queTaskData
  <2>1. GoodChain(m_queSendMsg, Busy, m_queTaskData, inbox[fd], fd, nextNr)
    BY DEF OrderInv
  <2>2. GoodMessage \subseteq S /\ ReplyMsg \subseteq S
    OBVIOUS
  <2>3. Busy \in Seq(GoodMessage) /\ InOrder(Busy, fd)
    BY DEF Busy, InOrder, ServerInv, TaskOK
  <2> HIDE DEF S
  <2>4. /\ m_queSendMsg \in Seq(S) /\ Busy \in Seq(S) /\ m_queTaskData \in Seq(S)
        /\ inbox[fd] \in Seq(S)
    BY <2>2, <2>3, ChainTyped, SeqMonotonic
  <2>5. ab \in Seq(S) /\ InOrder(ab, fd) /\ Before(ab, m_queTaskData, fd) /\ Before(ab, inbox[fd], fd)
    BY <2>1, <2>3, <2>4, ConcatOrder, ConcatProperties DEF GoodChain
  <2> HIDE DEF ab
  <2>6. abc \in Seq(S) /\ InOrder(abc, fd) /\ Before(abc, inbox[fd], fd)
    BY <2>1, <2>4, <2>5, ConcatOrder, ConcatProperties DEF GoodChain
  <2> HIDE DEF abc
  <2>7. InOrder(abc \o inbox[fd], fd)
    BY <2>1, <2>4, <2>6, ConcatOrder DEF GoodChain
  <2>8. QED
    BY <2>7 DEF ab, abc
<1>2. QED
  BY <1>1, ServerInvariant, OrderInvariant, PTL

-----------------------------------------------------------------------------
(***************************************************************************)
(* Until the first failure (a wait that ends early, a message that is      *)
(* split, a client that exits while it waits) what a client's menus show   *)
(* is what the server's tables hold, for every number of clients,          *)
(* descriptors, accounts and rooms (LoggedInIsOnline and SeatHeld).        *)
(*                                                                         *)
(* SessionInv says that a client has one request under way at most, that   *)
(* what is under way is what it waits for, and what the online table holds *)
(* for its descriptor at each stage; SeatInv does the same for its room.   *)
(* That the receive thread serves nobody else between the end of file it   *)
(* met and the close is what keeps a client that logs in meanwhile with    *)
(* the account of the one that left from being taken out of its room.      *)
(***************************************************************************)
InRoomPhases == {"room", "seat", "ready", "unready", "start", "game"}
RoomTypes == {"QUIT_ROOM", "GAME_READY", "QUIT_GAME_READY", "REQ_GAME_START"}

\* The requests on their way in, and those the receive thread has delivered.
Arriving == UNION {Range(inbox[fd]) : fd \in Fds}
Delivered == Range(m_queTaskData) \cup Range(Busy)
Asked == Delivered \cup Arriving

\* A request is the one its client waits for, and the online table is what it
\* was when the client sent it.
AskOK(m) ==
  /\ m.nr = 0 => m.type = "GAME_START"
  /\ m.nr > 0 =>
       LET c == cli[conn[m.fd]]
       IN  /\ conn[m.fd] # NoClient
           /\ c.op = m.type /\ c.nr = m.nr /\ c.gid = m.gid
           /\ m.type \in PlayerTypes => m.cid = c.cid
           /\ m.type = "LOGIN" => ClientOf(m.fd) = -1
           /\ m.type = "LOGOUT" => ClientOf(m.fd) = m.cid

\* A reply is to the request its client waits for, and true of the table.
ReplyRight(m) ==
  /\ m.nr = 0 => m.type = "GAME_START"
  /\ m.nr > 0 =>
       LET c == cli[conn[m.fd]]
       IN  /\ conn[m.fd] # NoClient
           /\ c.op = m.type /\ c.nr = m.nr
           /\ m.type = "LOGIN" => ClientOf(m.fd) = IF m.res = 0 THEN m.cid ELSE -1
           /\ m.type = "LOGOUT" => ClientOf(m.fd) = -1

\* The online table has the client at the other end of a descriptor from the
\* reply to its LOGIN to its LOGOUT.
EntryOK(fd) ==
  /\ conn[fd] = NoClient => ClientOf(fd) = -1
  /\ conn[fd] # NoClient =>
       LET c == cli[conn[fd]]
       IN  /\ c.phase # "out"
           /\ c.phase = "login" /\ c.op # "LOGIN" => ClientOf(fd) = -1
           /\ c.phase \in PastLogin /\ c.op # "LOGOUT" => ClientOf(fd) = c.cid

\* The menu a request was sent from.
MenuOK(c) ==
  /\ c.op # "none" => c.nr > 0
  /\ c.op \in AccountTypes => c.phase = "login"
  /\ c.op = "LOGOUT" => c.phase = "menu"
  /\ c.op \in RoomTypes => c.phase \in InRoomPhases

OneDescriptorEach ==
  /\ \A fd, ge \in Fds : conn[fd] = conn[ge] /\ conn[fd] # NoClient => fd = ge
  /\ \A p \in Clients : cli[p].phase \notin {"out", "exited"} => \E fd \in Fds : conn[fd] = p
  /\ recv.pc # "wait" => Exited(conn[recv.fd]) /\ ClientOf(recv.fd) = -1

SessionInv ==
  /\ OneDescriptorEach
  /\ \A p \in Clients : MenuOK(cli[p])
  /\ \A fd \in Fds : EntryOK(fd)
  /\ \A m \in Asked : AskOK(m)
  /\ \A m \in Range(m_queSendMsg) : ReplyRight(m)

\* The requests that bring a client into a room.
Enters(m) == m.nr > 0 /\ m.type \in {"CREATE_ROOM", "JOIN_ROOM"}
SenderCid(m) == cli[conn[m.fd]].cid

\* The reply to a request that entered a room is true of the room.
EntryHeld(m) ==
  Enters(m) /\ m.res = 0 =>
    /\ m.type = "CREATE_ROOM" /\ m.gid # BadGid => SenderCid(m) \in Members(m.gid)
    /\ m.type = "JOIN_ROOM" => SenderCid(m) \in Members(cli[conn[m.fd]].gid)

\* The client whose end of file the receive thread has met is in no room under
\* another descriptor, and nothing that was delivered will bring it into one.
LeaverAway ==
  recv.pc = "remove" =>
    /\ \A p \in Clients : InRoom(p) => cli[p].cid # recv.cid
    /\ \A m \in Delivered \cup Range(m_queSendMsg) : Enters(m) => SenderCid(m) # recv.cid

SeatsOK ==
  status = "running" =>
    \A p \in Clients :
      InRoom(p) /\ cli[p].op # "QUIT_ROOM" /\ cli[p].gid # BadGid
        => cli[p].cid \in Members(cli[p].gid)

SeatInv ==
  /\ SeatsOK
  /\ status = "running" => \A m \in Range(m_queSendMsg) : EntryHeld(m)
  /\ LeaverAway

-----------------------------------------------------------------------------
(* Queues as sets, and who is alone in them.                               *)

LEMMA RangeOfAppend ==
  ASSUME NEW S, NEW s \in Seq(S), NEW m
  PROVE  Range(Append(s, m)) = Range(s) \cup {m}
<1>1. /\ Len(s) \in Nat /\ DOMAIN s = 1..Len(s)
      /\ DOMAIN Append(s, m) = 1..(Len(s) + 1) /\ Append(s, m)[Len(s) + 1] = m
      /\ \A i \in DOMAIN s : Append(s, m)[i] = s[i]
  <2>1. s \in Seq(S \cup {m})
    BY SeqMonotonic
  <2>2. QED
    BY <2>1
<1>2. \A i \in DOMAIN Append(s, m) : i \in DOMAIN s \/ i = Len(s) + 1
  BY <1>1
<1>3. DOMAIN s \subseteq DOMAIN Append(s, m) /\ Len(s) + 1 \in DOMAIN Append(s, m)
  BY <1>1
<1>4. QED
  BY <1>1, <1>2, <1>3 DEF Range

LEMMA RangeOfTail ==
  ASSUME NEW S, NEW s \in Seq(S), s # <<>>
  PROVE  /\ Range(Tail(s)) \subseteq Range(s) /\ Head(s) \in Range(s) /\ Range(s) \subseteq S
         /\ Range(<<Head(s)>>) = {Head(s)}
<1>1. /\ Len(s) \in Nat \ {0} /\ DOMAIN s = 1..Len(s) /\ Head(s) = s[1]
      /\ DOMAIN Tail(s) = 1..(Len(s) - 1)
      /\ \A i \in DOMAIN Tail(s) : Tail(s)[i] = s[i + 1]
      /\ \A i \in DOMAIN s : s[i] \in S
  OBVIOUS
<1>2. \A i \in DOMAIN Tail(s) : i + 1 \in DOMAIN s
  BY <1>1
<1>3. QED
  BY <1>1, <1>2 DEF Range

LEMMA BusyRange == Range(Busy) = IF task.pc = "wait" THEN {} ELSE {task.req}
BY DEF Busy, Range

LEMMA AskedTyped ==
  ASSUME ServerInv
  PROVE  /\ \A m \in Asked : m \in GoodMessage /\ m.nr \in Nat /\ m.fd \in Fds
         /\ \A m \in Range(m_queSendMsg) : m \in ReplyMsg /\ m.nr \in Nat /\ m.fd \in Fds
<1>1. \A s \in Seq(GoodMessage) : \A m \in Range(s) : m \in GoodMessage
  BY DEF Range
<1>2. Range(Busy) \subseteq GoodMessage
  BY BusyRange DEF ServerInv, TaskOK
<1>3. \A m \in Asked : m \in GoodMessage
  BY <1>1, <1>2, ChainTyped DEF Asked, Arriving, Delivered
<1>4. \A m \in Range(m_queSendMsg) : m \in ReplyMsg
  BY ChainTyped DEF Range
<1>5. QED
  BY <1>3, <1>4 DEF GoodMessage, Message, ReplyMsg

LEMMA NumbersApart ==
  ASSUME NEW s, NEW t, NEW fd, Before(s, t, fd), NEW m \in Range(s), NEW n \in Range(t),
         m.fd = fd, n.fd = fd, m.nr > 0, n.nr > 0
  PROVE  m.nr < n.nr
BY DEF Before, Range

\* The number of what is under way on a descriptor is the one its client has.
LEMMA NumberWaitedFor ==
  ASSUME SessionInv
  PROVE  \A m \in Asked \cup Range(m_queSendMsg) : m.nr > 0 => m.nr = cli[conn[m.fd]].nr
BY DEF SessionInv, AskOK, ReplyRight

\* Nothing else is under way on the descriptor of the request the task thread
\* takes, of the one it keeps, and of the reply the send thread takes.
LEMMA TakenAlone ==
  ASSUME ServerInv, OrderInv, SessionInv, task.pc = "wait", m_queTaskData # <<>>, Req.nr > 0,
         NEW m \in Range(Tail(m_queTaskData)) \cup Arriving \cup Range(m_queSendMsg),
         m.nr > 0
  PROVE  m.fd # Req.fd
<1> SUFFICES ASSUME m.fd = Req.fd PROVE FALSE
  OBVIOUS
<1> DEFINE fd == Req.fd
<1>1. /\ Req \in Asked /\ Req \in GoodMessage /\ Req.nr \in Nat /\ fd \in Fds
      /\ Range(Tail(m_queTaskData)) \subseteq Asked
  BY ChainTyped, RangeOfTail, AskedTyped DEF Req, Asked, Delivered
<1>2. m \in Asked \cup Range(m_queSendMsg)
  BY <1>1 DEF Asked
<1>3. m.nr = Req.nr /\ m.nr \in Nat
  BY <1>1, <1>2, NumberWaitedFor, AskedTyped
<1>4. GoodChain(m_queSendMsg, <<>>, m_queTaskData, inbox[fd], fd, nextNr)
  BY <1>1 DEF OrderInv, Busy
<1>5. /\ Before(<<Req>>, Tail(m_queTaskData), fd) /\ Before(<<Req>>, inbox[fd], fd)
      /\ Before(m_queSendMsg, <<Req>>, fd)
  BY <1>4, ChainTyped, TailOrder DEF GoodChain, Req
<1>6. Req \in Range(<<Req>>)
  BY DEF Range
<1>7. CASE m \in Range(Tail(m_queTaskData))
  BY <1>3, <1>5, <1>6, <1>7, NumbersApart
<1>8. CASE m \in Arriving
  <2>1. PICK ge \in Fds : m \in Range(inbox[ge])
    BY <1>8 DEF Arriving
  <2>2. ge = fd
    BY <2>1 DEF OrderInv, GoodChain, Range
  <2>3. QED
    BY <1>3, <1>5, <1>6, <2>1, <2>2, NumbersApart
<1>9. CASE m \in Range(m_queSendMsg)
  BY <1>3, <1>5, <1>6, <1>9, NumbersApart
<1>10. QED
  BY <1>7, <1>8, <1>9

LEMMA KeptAlone ==
  ASSUME ServerInv, OrderInv, SessionInv, task.pc # "wait", task.req.nr > 0,
         NEW m \in Range(m_queTaskData) \cup Arriving \cup Range(m_queSendMsg),
         m.nr > 0
  PROVE  m.fd # task.req.fd
<1> SUFFICES ASSUME m.fd = task.req.fd PROVE FALSE
  OBVIOUS
<1> DEFINE fd == task.req.fd
<1>1. task.req \in Asked /\ task.req.nr \in Nat /\ fd \in Fds
  BY BusyRange, AskedTyped DEF Asked, Delivered
<1>2. m \in Asked \cup Range(m_queSendMsg)
  BY DEF Asked, Delivered
<1>3. m.nr = task.req.nr /\ m.nr \in Nat
  BY <1>1, <1>2, NumberWaitedFor, AskedTyped
<1>4. GoodChain(m_queSendMsg, <<task.req>>, m_queTaskData, inbox[fd], fd, nextNr)
  BY <1>1 DEF OrderInv, Busy
<1>5. task.req \in Range(<<task.req>>)
  BY DEF Range
<1>6. CASE m \in Range(m_queTaskData)
  BY <1>3, <1>4, <1>5, <1>6, NumbersApart DEF GoodChain
<1>7. CASE m \in Arriving
  <2>1. PICK ge \in Fds : m \in Range(inbox[ge])
    BY <1>7 DEF Arriving
  <2>2. ge = fd
    BY <2>1 DEF OrderInv, GoodChain, Range
  <2>3. QED
    BY <1>3, <1>4, <1>5, <2>1, <2>2, NumbersApart DEF GoodChain
<1>8. CASE m \in Range(m_queSendMsg)
  BY <1>3, <1>4, <1>5, <1>8, NumbersApart DEF GoodChain
<1>9. QED
  BY <1>6, <1>7, <1>8

LEMMA SentAlone ==
  ASSUME ServerInv, OrderInv, SessionInv, m_queSendMsg # <<>>, Head(m_queSendMsg).nr > 0,
         NEW m \in Asked \cup Range(Tail(m_queSendMsg)), m.nr > 0
  PROVE  m.fd # Head(m_queSendMsg).fd
<1> SUFFICES ASSUME m.fd = Head(m_queSendMsg).fd PROVE FALSE
  OBVIOUS
<1> DEFINE h == Head(m_queSendMsg)
           fd == h.fd
<1>1. h \in Range(m_queSendMsg) /\ h.nr \in Nat /\ fd \in Fds
      /\ Range(Tail(m_queSendMsg)) \subseteq Range(m_queSendMsg)
  BY ChainTyped, RangeOfTail, AskedTyped
<1>2. m \in Asked \cup Range(m_queSendMsg)
  BY <1>1
<1>3. m.nr = h.nr /\ m.nr \in Nat
  BY <1>1, <1>2, NumberWaitedFor, AskedTyped
<1>4. GoodChain(m_queSendMsg, Busy, m_queTaskData, inbox[fd], fd, nextNr)
  BY <1>1 DEF OrderInv
<1>5. /\ Before(<<h>>, Tail(m_queSendMsg), fd) /\ Before(<<h>>, Busy, fd)
      /\ Before(<<h>>, m_queTaskData, fd) /\ Before(<<h>>, inbox[fd], fd)
  BY <1>4, ChainTyped, TailOrder DEF GoodChain
<1>6. h \in Range(<<h>>)
  BY DEF Range
<1>7. CASE m \in Delivered \cup Range(Tail(m_queSendMsg))
  BY <1>3, <1>5, <1>6, <1>7, NumbersApart DEF Delivered
<1>8. CASE m \in Arriving
  <2>1. PICK ge \in Fds : m \in Range(inbox[ge])
    BY <1>8 DEF Arriving
  <2>2. ge = fd
    BY <2>1 DEF OrderInv, GoodChain, Range
  <2>3. QED
    BY <1>3, <1>5, <1>6, <2>1, <2>2, NumbersApart
<1>9. QED
  BY <1>7, <1>8 DEF Asked

\* A client that waits for nothing has nothing under way.
LEMMA NothingUnderWay ==
  ASSUME ServerInv, SessionInv, NEW fd \in Fds, conn[fd] = NoClient \/ ~Waiting(conn[fd]),
         NEW m \in Asked \cup Range(m_queSendMsg), m.nr > 0
  PROVE  m.fd # fd
<1>1. "none" \notin Types
  BY DEF Types
<1>2. QED
  BY <1>1, AskedTyped DEF SessionInv, AskOK, ReplyRight, Waiting, GoodMessage, Message, ReplyMsg,
     ReplyMsg

-----------------------------------------------------------------------------
(* What a step that does not concern a descriptor leaves as it was.        *)

LEMMA SameView ==
  ASSUME NEW fd, conn'[fd] = conn[fd], conn[fd] # NoClient => cli'[conn[fd]] = cli[conn[fd]],
         ClientOf(fd)' = ClientOf(fd)
  PROVE  /\ EntryOK(fd) => EntryOK(fd)'
         /\ \A m : m.fd = fd /\ AskOK(m) => AskOK(m)'
         /\ \A m : m.fd = fd /\ ReplyRight(m) => ReplyRight(m)'
<1>1. EntryOK(fd) => EntryOK(fd)'
  BY DEF EntryOK
<1>2. ASSUME NEW m, m.fd = fd, AskOK(m)
      PROVE  AskOK(m)'
  BY <1>2 DEF AskOK
<1>3. ASSUME NEW m, m.fd = fd, ReplyRight(m)
      PROVE  ReplyRight(m)'
  BY <1>3 DEF ReplyRight
<1>4. QED
  BY <1>1, <1>2, <1>3

\* A descriptor with a client in the online table has it to itself.
LEMMA EntryAlone ==
  ASSUME ServerInv, NEW fd, NEW ge, ClientOf(fd) = ClientOf(ge), ClientOf(fd) # -1
  PROVE  fd = ge
BY DEF ServerInv, TablesOK, OnlineUnique, ClientOf

LEMMA EntryTyped ==
  ASSUME ServerInv, NEW fd
  PROVE  /\ ClientOf(fd) = -1 <=> fd \notin DOMAIN m_mapOlinePlayers
         /\ ClientOf(fd) # -1 => m_mapOlinePlayers[fd] = ClientOf(fd)
BY CidsAssumption DEF ServerInv, TablesOK, ClientOf

LEMMA OfflineEntry ==
  ASSUME NEW fd, m_mapOlinePlayers' = Offline(fd)
  PROVE  \A ge : ClientOf(ge)' = IF ge = fd THEN -1 ELSE ClientOf(ge)
<1>1. /\ DOMAIN m_mapOlinePlayers' = DOMAIN m_mapOlinePlayers \ {fd}
      /\ \A ge \in DOMAIN m_mapOlinePlayers' : m_mapOlinePlayers'[ge] = m_mapOlinePlayers[ge]
  BY DEF Offline
<1>2. QED
  BY <1>1 DEF ClientOf

\* Steps that bring no request and no numbered reply.
LEMMA QuietStep ==
  ASSUME ServerInv, SessionInv, UNCHANGED <<conn, cli, m_mapOlinePlayers>>,
         recv'.pc # "wait" => recv.pc # "wait" /\ recv'.fd = recv.fd,
         Asked' \subseteq Asked,
         \A m \in Range(m_queSendMsg') :
           m \in Range(m_queSendMsg) \/ (m.nr = 0 /\ m.type = "GAME_START")
  PROVE  SessionInv'
<1>1. \A fd : ClientOf(fd)' = ClientOf(fd)
  BY DEF ClientOf
<1>2. /\ \A fd \in Fds : EntryOK(fd)'
      /\ \A m \in Asked' : AskOK(m)'
      /\ \A m \in Range(m_queSendMsg) : ReplyRight(m)'
  BY <1>1, SameView DEF SessionInv
<1>3. \A m : m.nr = 0 /\ m.type = "GAME_START" => ReplyRight(m)'
  BY DEF ReplyRight
<1>4. OneDescriptorEach'
  BY <1>1 DEF SessionInv, OneDescriptorEach, Exited
<1>5. QED
  BY <1>2, <1>3, <1>4 DEF SessionInv

-----------------------------------------------------------------------------
(* The task thread.                                                        *)

\* What is left to be asked once the request under way is taken or answered.
LEMMA AskedLeft ==
  ASSUME ServerInv, UNCHANGED inbox
  PROVE  /\ task.pc = "wait" /\ m_queTaskData # <<>> /\ m_queTaskData' = Tail(m_queTaskData)
              => /\ Req \in Asked
                 /\ task'.pc = "wait" => Asked' = Range(Tail(m_queTaskData)) \cup Arriving
                 /\ task'.pc # "wait" /\ task'.req = Req => Asked' \subseteq Asked
                 /\ Range(Tail(m_queTaskData)) \cup Arriving \subseteq Asked
         /\ task.pc # "wait" /\ m_queTaskData' = m_queTaskData
              => /\ task.req \in Asked
                 /\ task'.pc = "wait" => Asked' = Range(m_queTaskData) \cup Arriving
                 /\ task'.pc # "wait" /\ task'.req = task.req => Asked' \subseteq Asked
                 /\ Range(m_queTaskData) \cup Arriving \subseteq Asked
<1>1. Arriving' = Arriving
  BY DEF Arriving
<1>2. Range(Busy)' = IF task'.pc = "wait" THEN {} ELSE {task'.req}
  BY DEF Busy, Range
<1>3. m_queTaskData # <<>> => /\ Range(Tail(m_queTaskData)) \subseteq Range(m_queTaskData)
                              /\ Req \in Range(m_queTaskData)
  BY ChainTyped, RangeOfTail DEF Req
<1>4. /\ Asked = Range(m_queTaskData) \cup Range(Busy) \cup Arriving
      /\ Asked' = Range(m_queTaskData') \cup Range(Busy)' \cup Arriving
  BY <1>1 DEF Asked, Delivered
<1>5. QED
  BY <1>2, <1>3, <1>4, BusyRange

\* A request is answered, at once or after it was kept.
LEMMA AnswerStep ==
  ASSUME ServerInv, OrderInv, SessionInv, UNCHANGED <<conn, inbox, recv, cli>>,
         NEW req, req.nr > 0,
         \/ /\ task.pc = "wait" /\ m_queTaskData # <<>> /\ m_queTaskData' = Tail(m_queTaskData)
            /\ req = Req /\ task' = task
         \/ task.pc # "wait" /\ m_queTaskData' = m_queTaskData /\ req = task.req /\ task' = IdleTask,
         NEW n \in ReplyMsg, n.nr = req.nr, n.fd = req.fd, n.type = req.type,
         m_queSendMsg' = Append(m_queSendMsg, n),
         \A ge \in Fds : ge # req.fd => ClientOf(ge)' = ClientOf(ge),
         EntryOK(req.fd)', ReplyRight(n)'
  PROVE  SessionInv'
<1>1. req \in Asked /\ AskOK(req) /\ req.fd \in Fds
  BY AskedLeft, AskedTyped DEF SessionInv
<1>2. \A m \in Asked' \cup Range(m_queSendMsg) : m.nr > 0 => m.fd # req.fd
  BY AskedLeft, TakenAlone, KeptAlone, IdleTaskOK
<1>3. Asked' \subseteq Asked
  BY AskedLeft, IdleTaskOK
<1>4. \A fd \in Fds : EntryOK(fd)'
  BY SameView DEF SessionInv
<1>5. ASSUME NEW m \in Asked'
      PROVE  AskOK(m)'
  <2>1. m \in Asked /\ AskOK(m) /\ m.nr \in Nat /\ m.fd \in Fds
    BY <1>3, AskedTyped DEF SessionInv
  <2>2. CASE m.nr = 0
    BY <2>1, <2>2 DEF AskOK
  <2>3. CASE m.nr > 0
    BY <1>2, <2>1, <2>3, SameView
  <2>4. QED
    BY <2>1, <2>2, <2>3
<1>6. ASSUME NEW m \in Range(m_queSendMsg)
      PROVE  ReplyRight(m)'
  <2>1. ReplyRight(m) /\ m.nr \in Nat /\ m.fd \in Fds
    BY AskedTyped DEF SessionInv
  <2>2. CASE m.nr = 0
    BY <2>1, <2>2 DEF ReplyRight
  <2>3. CASE m.nr > 0
    BY <1>2, <2>1, <2>3, SameView
  <2>4. QED
    BY <2>1, <2>2, <2>3
<1>7. Range(m_queSendMsg)' = Range(m_queSendMsg) \cup {n}
  BY ChainTyped, RangeOfAppend
<1>8. OneDescriptorEach'
  <2>1. ASSUME recv.pc # "wait"
        PROVE  ClientOf(recv.fd)' = -1
    <3>1. recv.fd \in Fds /\ Exited(conn[recv.fd]) /\ ClientOf(recv.fd) = -1
          /\ conn[recv.fd] \in Clients
      BY <2>1 DEF SessionInv, OneDescriptorEach, ServerInv, NetOK, Exited
    <3>2. ~Waiting(conn[recv.fd])
      BY <3>1 DEF ServerInv, ClientsOK, Waiting, Exited
    <3>3. req.fd # recv.fd
      BY <1>1, <3>1, <3>2, NothingUnderWay
    <3>4. QED
      BY <3>1, <3>3
  <2>2. QED
    BY <2>1 DEF SessionInv, OneDescriptorEach, Exited
<1>9. QED
  BY <1>4, <1>5, <1>6, <1>7, <1>8 DEF SessionInv

\* The reply that Reply queues.
ReplyTo(req, res, cid, gid) ==
  [id |-> req.id, nr |-> req.nr, fd |-> req.fd, type |-> req.type, res |-> res, cid |-> cid, gid |-> gid]

LEMMA ReplyRecord ==
  ASSUME NEW req \in GoodMessage, NEW res \in {0, -1, -2}, NEW cid \in Cids,
         NEW gid \in Gids \cup {0, BadGid}
  PROVE  ReplyTo(req, res, cid, gid) \in ReplyMsg
BY DEF ReplyTo, ReplyMsg, GoodMessage, Message

\* A request with a number is what its client waits for.
LEMMA NumberedRequest ==
  ASSUME ServerInv, SessionInv, NEW req \in Asked, req.type # "GAME_START"
  PROVE  /\ req.nr > 0 /\ req \in GoodMessage /\ req.fd \in Fds
         /\ conn[req.fd] \in Clients /\ conn[req.fd] # NoClient
         /\ cli[conn[req.fd]].op = req.type /\ cli[conn[req.fd]].nr = req.nr
<1>1. req.nr \in Nat /\ req.fd \in Fds /\ req \in GoodMessage /\ AskOK(req)
  BY AskedTyped DEF SessionInv
<1>2. req.nr > 0
  BY <1>1 DEF AskOK
<1>3. conn[req.fd] \in Clients \cup {NoClient}
  BY <1>1 DEF ServerInv, NetOK
<1>4. QED
  BY <1>1, <1>2, <1>3 DEF AskOK

\* A reply that leaves the online table alone.
LEMMA PlainAnswer ==
  ASSUME ServerInv, OrderInv, SessionInv, UNCHANGED <<conn, inbox, recv, cli>>,
         UNCHANGED m_mapOlinePlayers,
         NEW req, req.type # "GAME_START",
         \/ /\ task.pc = "wait" /\ m_queTaskData # <<>> /\ m_queTaskData' = Tail(m_queTaskData)
            /\ req = Req /\ task' = task
         \/ task.pc # "wait" /\ m_queTaskData' = m_queTaskData /\ req = task.req /\ task' = IdleTask,
         NEW res \in {0, -1, -2}, NEW cid \in Cids, NEW gid \in Gids \cup {0, BadGid},
         Reply(req, res, cid, gid), req.type # "LOGOUT", req.type = "LOGIN" => res # 0
  PROVE  SessionInv'
<1>1. req \in Asked /\ AskOK(req)
  BY AskedLeft DEF SessionInv
<1>2. req \in GoodMessage /\ req.nr > 0 /\ req.fd \in Fds
  BY <1>1, NumberedRequest
<1> DEFINE n == ReplyTo(req, res, cid, gid)
<1>3. /\ n \in ReplyMsg /\ n.nr = req.nr /\ n.fd = req.fd /\ n.type = req.type /\ n.res = res
      /\ m_queSendMsg' = Append(m_queSendMsg, n)
  <2>1. n \in ReplyMsg
    BY <1>2, ReplyRecord
  <2>2. QED
    BY <2>1 DEF ReplyTo, Reply, Queued
<1> HIDE DEF n
<1>4. \A ge : ClientOf(ge)' = ClientOf(ge)
  BY DEF ClientOf
<1>5. EntryOK(req.fd)'
  BY <1>2, <1>4, SameView DEF SessionInv
<1>6. ReplyRight(n)
  BY <1>1, <1>2, <1>3 DEF ReplyRight, AskOK
<1>7. ReplyRight(n)'
  BY <1>3, <1>4, <1>6, SameView
<1>8. QED
  BY <1>2, <1>3, <1>4, <1>5, <1>7, AnswerStep

LEMMA SessionTaskStep ==
  ASSUME ServerInv, OrderInv, SessionInv, TaskThread
  PROVE  SessionInv'
<1>1. UNCHANGED <<conn, inbox, recv, cli>>
  BY TaskThreadFrame DEF netVars
<1>2. /\ NoCid \in Cids /\ 0 \in Gids \cup {0, BadGid}
      /\ 0 \in {0, -1, -2} /\ -1 \in {0, -1, -2} /\ -1 # 0
  BY NoCidIsCid
<1>3. CASE DoRegiser
  <2>1. /\ task.pc = "wait" /\ m_queTaskData # <<>> /\ m_queTaskData' = Tail(m_queTaskData)
        /\ task' = task /\ UNCHANGED m_mapOlinePlayers /\ Req.type = "REGIST"
        /\ Reply(Req, -1, NoCid, 0) \/ \E new \in Cids : Reply(Req, 0, new, 0)
    BY <1>3 DEF DoRegiser, Takes
  <2>2. CASE Reply(Req, -1, NoCid, 0)
    BY <1>1, <1>2, <2>1, <2>2, PlainAnswer
  <2>3. CASE \E new \in Cids : Reply(Req, 0, new, 0)
    BY <1>1, <1>2, <2>1, <2>3, PlainAnswer
  <2>4. QED
    BY <2>1, <2>2, <2>3
<1>4. CASE DoLogin
  <2>1. /\ task.pc = "wait" /\ m_queTaskData # <<>> /\ m_queTaskData' = Tail(m_queTaskData)
        /\ UNCHANGED m_mapOlinePlayers /\ Req.type = "LOGIN"
    BY <1>4 DEF DoLogin, Takes, playerVars
  <2>2. CASE Reply(Req, -1, NoCid, 0) /\ UNCHANGED task
    BY <1>1, <1>2, <2>1, <2>2, PlainAnswer
  <2>3. CASE task'.pc # "wait" /\ task'.req = Req /\ UNCHANGED m_queSendMsg
    BY <1>1, <2>1, <2>3, AskedLeft, QuietStep
  <2>4. QED
    BY <1>4, <2>2, <2>3 DEF DoLogin, IdleTask
<1>5. CASE AddPlayer
  <2> PICK req, cid : req = task.req /\ cid = task.cid
    OBVIOUS
  <2>1. /\ task.pc = "login" /\ m_queTaskData' = m_queTaskData /\ task' = IdleTask
        /\ m_mapOlinePlayers' =
             [fd \in DOMAIN m_mapOlinePlayers \cup {req.fd} |->
                IF fd \in DOMAIN m_mapOlinePlayers THEN m_mapOlinePlayers[fd] ELSE cid]
        /\ Reply(req, 0, cid, 0)
    BY <1>5 DEF AddPlayer, Online
  <2>2. req.type = "LOGIN" /\ cid \in Cids
    BY <2>1 DEF ServerInv, TaskOK, TablesOK
  <2>3. req \in Asked /\ AskOK(req) /\ req \in GoodMessage /\ req.nr > 0
        /\ req.fd \in Fds /\ conn[req.fd] \in Clients /\ conn[req.fd] # NoClient
        /\ cli[conn[req.fd]].op = "LOGIN" /\ cli[conn[req.fd]].nr = req.nr
    BY <1>1, <2>1, <2>2, AskedLeft, NumberedRequest DEF SessionInv
  <2> DEFINE n == ReplyTo(req, 0, cid, 0)
  <2>4. /\ n \in ReplyMsg /\ n.nr = req.nr /\ n.fd = req.fd /\ n.type = req.type
        /\ n.res = 0 /\ n.cid = cid /\ m_queSendMsg' = Append(m_queSendMsg, n)
    <3>1. n \in ReplyMsg
      BY <1>2, <2>2, <2>3, ReplyRecord
    <3>2. QED
      BY <2>1, <3>1 DEF ReplyTo, Reply, Queued
  <2> HIDE DEF n
  <2>5. req.fd \notin DOMAIN m_mapOlinePlayers
    BY <2>2, <2>3, EntryTyped DEF AskOK
  <2>6. \A ge : ClientOf(ge)' = IF ge = req.fd THEN cid ELSE ClientOf(ge)
    BY <2>1, <2>5 DEF ClientOf
  <2>7. EntryOK(req.fd)'
    <3>1. cli[conn[req.fd]].phase = "login"
      BY <2>3 DEF SessionInv, MenuOK, AccountTypes
    <3>2. QED
      BY <1>1, <2>3, <3>1 DEF EntryOK, PastLogin, SessionInv
  <2>8. ReplyRight(n)'
    BY <1>1, <2>2, <2>3, <2>4, <2>6 DEF ReplyRight, AskOK
  <2>9. QED
    BY <1>1, <2>1, <2>3, <2>4, <2>6, <2>7, <2>8, AnswerStep
<1>6. CASE DoLogout
  <2> PICK req : req = Req
    OBVIOUS
  <2>1. /\ task.pc = "wait" /\ m_queTaskData # <<>> /\ m_queTaskData' = Tail(m_queTaskData)
        /\ task' = task /\ req.type = "LOGOUT" /\ Reply(req, 0, NoCid, 0)
    BY <1>6 DEF DoLogout, Takes
  <2>2. req \in Asked /\ AskOK(req) /\ req \in GoodMessage /\ req.nr > 0
        /\ req.fd \in Fds /\ conn[req.fd] \in Clients /\ conn[req.fd] # NoClient
        /\ cli[conn[req.fd]].op = "LOGOUT" /\ cli[conn[req.fd]].nr = req.nr
    BY <1>1, <2>1, AskedLeft, NumberedRequest DEF SessionInv
  <2> DEFINE n == ReplyTo(req, 0, NoCid, 0)
  <2>3. /\ n \in ReplyMsg /\ n.nr = req.nr /\ n.fd = req.fd /\ n.type = req.type
        /\ m_queSendMsg' = Append(m_queSendMsg, n)
    <3>1. n \in ReplyMsg
      BY <1>2, <2>2, ReplyRecord
    <3>2. QED
      BY <2>1, <3>1 DEF ReplyTo, Reply, Queued
  <2> HIDE DEF n
  <2>4. m_mapOlinePlayers' = Offline(req.fd)
    <3> DEFINE S == {fd \in DOMAIN m_mapOlinePlayers : m_mapOlinePlayers[fd] = req.cid}
    <3>1. req.cid \in Cids /\ ClientOf(req.fd) = req.cid
      BY <2>1, <2>2 DEF AskOK, GoodMessage, PlayerTypes
    <3>2. ClientOf(req.fd) # -1
      BY <3>1, CidsAssumption
    <3>3. req.fd \in S /\ S \subseteq Fds
      BY <3>1, <3>2, EntryTyped DEF ServerInv, TablesOK
    <3>4. Min(S) \in S
      BY <3>3, LowestDescriptor
    <3>5. Min(S) = req.fd
      BY <3>3, <3>4 DEF ServerInv, TablesOK, OnlineUnique
    <3>6. IsPlayerOnline(req.cid)
      BY <3>3 DEF IsPlayerOnline
    <3>7. QED
      BY <1>6, <3>5, <3>6 DEF DoLogout
  <2>5. \A ge : ClientOf(ge)' = IF ge = req.fd THEN -1 ELSE ClientOf(ge)
    BY <2>4, OfflineEntry
  <2>6. EntryOK(req.fd)'
    <3>1. cli[conn[req.fd]].phase = "menu"
      BY <2>2 DEF SessionInv, MenuOK
    <3>2. QED
      BY <1>1, <2>2, <3>1 DEF EntryOK, PastLogin, SessionInv
  <2>7. ReplyRight(n)'
    BY <1>1, <2>1, <2>2, <2>3, <2>5 DEF ReplyRight, AskOK
  <2>8. QED
    BY <1>1, <2>1, <2>2, <2>3, <2>5, <2>6, <2>7, AnswerStep
<1>7. CASE DoCreateRoom
  <2> DEFINE gid == IF CreateGameResult(Req.what) = -1 THEN BadGid ELSE NewGid
  <2>1. /\ task.pc = "wait" /\ m_queTaskData # <<>> /\ m_queTaskData' = Tail(m_queTaskData)
        /\ task' = task /\ UNCHANGED m_mapOlinePlayers /\ Req.type = "CREATE_ROOM"
        /\ gid \in Gids \cup {0, BadGid} /\ Reply(Req, 0, NoCid, gid)
    BY <1>7 DEF DoCreateRoom, Takes, CreateGame, playerVars
  <2> HIDE DEF gid
  <2>2. QED
    BY <1>1, <1>2, <2>1, PlainAnswer
<1>8. CASE DoJoinRoom \/ DoQuitRoom \/ DoGameReady \/ DoQuitGameReady
  <2>1. /\ task.pc = "wait" /\ m_queTaskData # <<>> /\ m_queTaskData' = Tail(m_queTaskData)
        /\ task' = task /\ UNCHANGED m_mapOlinePlayers
        /\ Req.type \in {"JOIN_ROOM", "QUIT_ROOM", "GAME_READY", "QUIT_GAME_READY"}
    BY <1>8 DEF DoJoinRoom, DoQuitRoom, DoGameReady, DoQuitGameReady, Takes, playerVars
  <2>2. PICK res \in {0, -1, -2} : Reply(Req, res, NoCid, 0)
    BY <1>8 DEF DoJoinRoom, DoQuitRoom, DoGameReady, DoQuitGameReady, JoinAnswer,
       AddGamePlayerResult, ReadyResult
  <2>3. QED
    BY <1>1, <1>2, <2>1, <2>2, PlainAnswer
<1>9. CASE DoRequestGameStart \/ DoGameStart
  <2>1. /\ task.pc = "wait" /\ m_queTaskData # <<>> /\ m_queTaskData' = Tail(m_queTaskData)
        /\ UNCHANGED <<m_mapOlinePlayers, m_queSendMsg>>
        /\ task'.pc # "wait" /\ task'.req = Req
    BY <1>9 DEF DoRequestGameStart, DoGameStart, Takes, playerVars, IdleTask
  <2>2. QED
    BY <1>1, <2>1, AskedLeft, QuietStep
<1>10. CASE AnswerGameStart
  <2>1. /\ task.pc = "counted" /\ m_queTaskData' = m_queTaskData /\ task' = IdleTask
        /\ UNCHANGED m_mapOlinePlayers
    BY <1>10 DEF AnswerGameStart, playerVars
  <2>2. task.req.type = "REQ_GAME_START"
    BY <2>1 DEF ServerInv, TaskOK
  <2>3. PICK res \in {0, -1, -2} : Reply(task.req, res, NoCid, 0)
    BY <1>10 DEF AnswerGameStart, StartAnswer
  <2>4. QED
    BY <1>1, <1>2, <2>1, <2>2, <2>3, PlainAnswer
<1>11. CASE StartFrameThread \/ NotifyPlayer
  <2>1. /\ task.pc # "wait" /\ m_queTaskData' = m_queTaskData /\ UNCHANGED m_mapOlinePlayers
        /\ \/ m_queSendMsg' = m_queSendMsg
           \/ \E m \in ReplyMsg : /\ m.nr = 0 /\ m.type = "GAME_START"
                                /\ m_queSendMsg' = Append(m_queSendMsg, m)
        /\ task' = IdleTask \/ (task'.pc # "wait" /\ task'.req = task.req)
    <3>1. UNCHANGED m_mapOlinePlayers
      BY <1>11 DEF StartFrameThread, NotifyPlayer, playerVars
    <3>2. GoesOn
      BY <1>11, StartGoesOn
    <3>3. QED
      BY <3>1, <3>2 DEF GoesOn
  <2>2. Asked' \subseteq Asked
    BY <1>1, <2>1, AskedLeft, IdleTaskOK
  <2>3. \A m \in Range(m_queSendMsg') :
          m \in Range(m_queSendMsg) \/ (m.nr = 0 /\ m.type = "GAME_START")
    <3>1. CASE UNCHANGED m_queSendMsg
      BY <3>1
    <3>2. ASSUME NEW n \in ReplyMsg, n.nr = 0, n.type = "GAME_START",
                 m_queSendMsg' = Append(m_queSendMsg, n)
          PROVE  \A m \in Range(m_queSendMsg') :
                   m \in Range(m_queSendMsg) \/ (m.nr = 0 /\ m.type = "GAME_START")
      <4>1. Range(m_queSendMsg') = Range(m_queSendMsg) \cup {n}
        BY <3>2, ChainTyped, RangeOfAppend
      <4>2. QED
        BY <3>2, <4>1
    <3>3. QED
      BY <2>1, <3>1, <3>2
  <2>4. QED
    BY <1>1, <2>1, <2>2, <2>3, QuietStep
<1>12. QED
  BY <1>3, <1>4, <1>5, <1>6, <1>7, <1>8, <1>9, <1>10, <1>11 DEF TaskThread

-----------------------------------------------------------------------------
(* The receive thread.                                                     *)

\* A step that concerns the descriptor fd and its client only.
LEMMA AroundStep ==
  ASSUME ServerInv, SessionInv, NEW fd \in Fds,
         \A ge \in Fds \ {fd} : /\ conn'[ge] = conn[ge] /\ ClientOf(ge)' = ClientOf(ge)
                                /\ conn[ge] # NoClient => cli'[conn[ge]] = cli[conn[ge]],
         EntryOK(fd)', OneDescriptorEach', \A p \in Clients : MenuOK(cli'[p]),
         \A m \in Asked' : (m \in Asked /\ (m.nr > 0 => m.fd # fd)) \/ AskOK(m)',
         \A m \in Range(m_queSendMsg') :
           (m \in Range(m_queSendMsg) /\ (m.nr > 0 => m.fd # fd)) \/ ReplyRight(m)'
  PROVE  SessionInv'
<1>1. \A ge \in Fds : EntryOK(ge)'
  BY SameView DEF SessionInv
<1>2. ASSUME NEW m \in Asked, m.nr > 0 => m.fd # fd
      PROVE  AskOK(m)'
  <2>1. AskOK(m) /\ m.nr \in Nat /\ m.fd \in Fds
    BY AskedTyped DEF SessionInv
  <2>2. CASE m.nr = 0
    BY <2>1, <2>2 DEF AskOK
  <2>3. CASE m.nr > 0
    BY <1>2, <2>1, <2>3, SameView
  <2>4. QED
    BY <2>1, <2>2, <2>3
<1>3. ASSUME NEW m \in Range(m_queSendMsg), m.nr > 0 => m.fd # fd
      PROVE  ReplyRight(m)'
  <2>1. ReplyRight(m) /\ m.nr \in Nat /\ m.fd \in Fds
    BY AskedTyped DEF SessionInv
  <2>2. CASE m.nr = 0
    BY <2>1, <2>2 DEF ReplyRight
  <2>3. CASE m.nr > 0
    BY <1>3, <2>1, <2>3, SameView
  <2>4. QED
    BY <2>1, <2>2, <2>3
<1>4. QED
  BY <1>1, <1>2, <1>3 DEF SessionInv

LEMMA SessionRecvStep ==
  ASSUME failures' = 0, ServerInv, OrderInv, SessionInv, RecvThread
  PROVE  SessionInv'
<1>1. UNCHANGED <<m_queSendMsg, Busy, cli>>
  BY RecvThreadFrame DEF Busy
<1>2. ASSUME UNCHANGED <<conn, m_mapOlinePlayers, recv>>, Asked' \subseteq Asked
      PROVE  SessionInv'
  BY <1>1, <1>2, QuietStep
<1>3. CASE RegisterFd
  BY <1>1, <1>2, <1>3 DEF RegisterFd, playerVars, Asked, Delivered, Arriving
<1>4. ASSUME NEW fd \in Fds, RecvMessage(fd)
      PROVE  SessionInv'
  <2>1. /\ inbox[fd] # <<>> /\ m_queTaskData' = Append(m_queTaskData, Head(inbox[fd]))
        /\ inbox' = [inbox EXCEPT ![fd] = Tail(inbox[fd])] /\ inbox \in [Fds -> Seq(GoodMessage)]
        /\ UNCHANGED <<conn, m_mapOlinePlayers, recv>>
    BY <1>4 DEF RecvMessage, ServerInv, MessagesOK, playerVars
  <2>2. Range(m_queTaskData)' = Range(m_queTaskData) \cup {Head(inbox[fd])}
    BY <2>1, ChainTyped, RangeOfAppend
  <2>3. Head(inbox[fd]) \in Range(inbox[fd]) /\ Range(Tail(inbox[fd])) \subseteq Range(inbox[fd])
    BY <2>1, RangeOfTail
  <2>4. \A ge \in Fds : Range(inbox'[ge]) \subseteq Range(inbox[ge])
    BY <2>1, <2>3
  <2>5. Arriving' \subseteq Arriving /\ Head(inbox[fd]) \in Arriving
    BY <2>3, <2>4 DEF Arriving
  <2>6. Range(Busy)' = Range(Busy)
    BY <1>1
  <2>7. Asked' \subseteq Asked
    BY <2>2, <2>5, <2>6 DEF Asked, Delivered
  <2>8. QED
    BY <1>2, <2>1, <2>7
<1>5. ASSUME NEW fd \in Fds, RecvEof(fd)
      PROVE  SessionInv'
  <2>1. /\ conn[fd] # NoClient /\ conn[fd] \in Clients /\ cli[conn[fd]].phase = "exited"
        /\ recv' = [pc |-> "remove", fd |-> fd, cid |-> ClientOf(fd)]
        /\ m_mapOlinePlayers' = Offline(fd) /\ UNCHANGED <<conn, inbox, m_queTaskData>>
    BY <1>5 DEF RecvEof, Exited, netVars, ServerInv, NetOK
  <2>2. \A ge : ClientOf(ge)' = IF ge = fd THEN -1 ELSE ClientOf(ge)
    BY <2>1, OfflineEntry
  <2>3. ~Waiting(conn[fd])
    BY <2>1 DEF Waiting, ServerInv, ClientsOK
  <2>4. \A m \in Asked \cup Range(m_queSendMsg) : m.nr > 0 => m.fd # fd
    BY <2>3, NothingUnderWay
  <2>5. Asked' = Asked
    BY <1>1, <2>1 DEF Asked, Delivered, Arriving
  <2>6. EntryOK(fd)'
    BY <1>1, <2>1 DEF EntryOK, PastLogin
  <2>7. OneDescriptorEach'
    BY <1>1, <2>1, <2>2 DEF SessionInv, OneDescriptorEach, Exited
  <2>8. \A p \in Clients : MenuOK(cli'[p])
    BY <1>1 DEF SessionInv
  <2>9. QED
    BY <1>1, <2>1, <2>2, <2>4, <2>5, <2>6, <2>7, <2>8, AroundStep
<1>6. CASE RecvRemovePlayer
  <2>1. /\ recv.pc = "remove" /\ recv' = [recv EXCEPT !.pc = "close"]
        /\ UNCHANGED <<conn, inbox, m_queTaskData, m_mapOlinePlayers>>
    BY <1>6 DEF RecvRemovePlayer, netVars, playerVars
  <2>2. recv'.fd = recv.fd
    BY <2>1 DEF ServerInv, NetOK
  <2>3. Asked' = Asked
    BY <1>1, <2>1 DEF Asked, Delivered, Arriving
  <2>4. QED
    BY <1>1, <2>1, <2>2, <2>3, QuietStep
<1>7. CASE RecvClose
  <2> PICK fd : fd = recv.fd
    OBVIOUS
  <2>1. /\ fd \in Fds /\ conn[fd] \in Clients /\ conn[fd] # NoClient
        /\ cli[conn[fd]].phase = "exited" /\ ClientOf(fd) = -1
    BY <1>7 DEF RecvClose, SessionInv, OneDescriptorEach, Exited, ServerInv, NetOK
  <2>2. /\ conn' = [conn EXCEPT ![fd] = NoClient] /\ inbox' = [inbox EXCEPT ![fd] = <<>>]
        /\ recv'.pc = "wait" /\ UNCHANGED <<m_queTaskData, m_mapOlinePlayers>>
    BY <1>7 DEF RecvClose, Close, IdleRecv, playerVars
  <2>3. conn \in [Fds -> Clients \cup {NoClient}] /\ inbox \in [Fds -> Seq(GoodMessage)]
    BY DEF ServerInv, NetOK, MessagesOK
  <2>4. \A ge : ClientOf(ge)' = ClientOf(ge)
    BY <2>2 DEF ClientOf
  <2>5. \A m \in Asked \cup Range(m_queSendMsg) : m.nr > 0 => m.fd # fd
    <3>1. ~Waiting(conn[fd])
      BY <2>1 DEF Waiting, ServerInv, ClientsOK
    <3>2. QED
      BY <2>1, <3>1, NothingUnderWay
  <2>6. Asked' \subseteq Asked
    <3>1. \A ge \in Fds : Range(inbox'[ge]) \subseteq Range(inbox[ge])
      BY <2>2, <2>3 DEF Range
    <3>2. Arriving' \subseteq Arriving
      BY <3>1 DEF Arriving
    <3>3. Delivered' = Delivered
      BY <1>1, <2>2 DEF Delivered
    <3>4. QED
      BY <3>2, <3>3 DEF Asked
  <2>7. conn'[fd] = NoClient /\ \A ge \in Fds \ {fd} : conn'[ge] = conn[ge]
    BY <2>1, <2>2, <2>3
  <2>8. EntryOK(fd)'
    BY <2>1, <2>4, <2>7 DEF EntryOK
  <2>9. OneDescriptorEach'
    <3>1. \A p \in Clients : cli[p].phase \notin {"out", "exited"} => \E ge \in Fds \ {fd} : conn[ge] = p
      BY <2>1 DEF SessionInv, OneDescriptorEach
    <3>2. \A p \in Clients : cli[p].phase \notin {"out", "exited"} => \E ge \in Fds : conn'[ge] = p
      BY <2>7, <3>1
    <3>3. \A ge, he \in Fds : conn'[ge] = conn'[he] /\ conn'[ge] # NoClient => ge = he
      BY <2>7 DEF SessionInv, OneDescriptorEach
    <3>4. QED
      BY <1>1, <2>2, <3>2, <3>3 DEF OneDescriptorEach
  <2>10. \A p \in Clients : MenuOK(cli'[p])
    BY <1>1 DEF SessionInv
  <2>11. QED
    BY <1>1, <2>1, <2>4, <2>5, <2>6, <2>7, <2>8, <2>9, <2>10, AroundStep
<1>8. \A fd \in Fds : ~RecvFails(fd)
  BY DEF RecvFails, Fails, ServerInv, ClientsOK
<1>9. QED
  BY <1>3, <1>4, <1>5, <1>6, <1>7, <1>8 DEF RecvThread

LEMMA SessionAccept ==
  ASSUME ServerInv, OrderInv, SessionInv, NEW p \in Clients, Accept(p)
  PROVE  SessionInv'
<1> DEFINE free == {ge \in Fds : conn[ge] = NoClient}
<1>1. PICK fd : fd = Min(free)
  OBVIOUS
<1>2. free # {} /\ free \subseteq Fds
  BY DEF Accept
<1>3. fd \in Fds /\ conn[fd] = NoClient /\ p # NoClient
  BY <1>1, <1>2, LowestDescriptor, FdsAssumption
<1>4. /\ conn' = [conn EXCEPT ![fd] = p] /\ cli' = [cli EXCEPT ![p].phase = "login"]
      /\ cli[p].phase = "out"
      /\ UNCHANGED <<inbox, m_queTaskData, m_queSendMsg, task, recv, m_mapOlinePlayers>>
  BY <1>1 DEF Accept, playerVars
<1>5. /\ conn'[fd] = p /\ \A ge \in Fds \ {fd} : conn'[ge] = conn[ge]
      /\ cli'[p].phase = "login" /\ cli'[p].op = "none" /\ \A q \in Clients \ {p} : cli'[q] = cli[q]
  BY <1>3, <1>4 DEF ServerInv, ClientsOK, ClientRecord, NetOK
<1>6. \A ge \in Fds : conn[ge] # p
  BY <1>3, <1>4 DEF SessionInv, EntryOK
<1>7. \A ge : ClientOf(ge)' = ClientOf(ge)
  BY <1>4 DEF ClientOf
<1>8. Asked' = Asked
  BY <1>4 DEF Asked, Delivered, Arriving, Busy
<1>9. \A m \in Asked \cup Range(m_queSendMsg) : m.nr > 0 => m.fd # fd
  BY <1>3, NothingUnderWay
<1>10. EntryOK(fd)'
  BY <1>3, <1>5, <1>7 DEF EntryOK, PastLogin, SessionInv
<1>11. \A q \in Clients : MenuOK(cli'[q])
  BY <1>5 DEF SessionInv, MenuOK, AccountTypes, RoomTypes, InRoomPhases
<1>12. OneDescriptorEach'
  <2>1. recv.pc # "wait" => /\ recv.fd \in Fds /\ conn[recv.fd] # NoClient /\ conn[recv.fd] \in Clients
                            /\ cli[conn[recv.fd]].phase = "exited" /\ ClientOf(recv.fd) = -1
    BY DEF SessionInv, OneDescriptorEach, Exited, ServerInv, NetOK
  <2>2. recv.pc # "wait" => Exited(conn[recv.fd])' /\ ClientOf(recv.fd)' = -1
    BY <1>3, <1>4, <1>5, <1>6, <1>7, <2>1 DEF Exited
  <2>3. \A ge, he \in Fds : conn'[ge] = conn'[he] /\ conn'[ge] # NoClient => ge = he
    BY <1>5, <1>6 DEF SessionInv, OneDescriptorEach
  <2>4. \A q \in Clients : cli'[q].phase \notin {"out", "exited"} => \E ge \in Fds : conn'[ge] = q
    <3>1. ASSUME NEW q \in Clients \ {p}, cli[q].phase \notin {"out", "exited"}
          PROVE  \E ge \in Fds : conn'[ge] = q
      <4>1. PICK ge \in Fds : conn[ge] = q
        BY <3>1 DEF SessionInv, OneDescriptorEach
      <4>2. ge # fd
        BY <1>3, <3>1, <4>1, FdsAssumption
      <4>3. QED
        BY <1>5, <4>1, <4>2
    <3>2. QED
      BY <1>3, <1>5, <3>1
  <2>5. QED
    BY <1>4, <2>2, <2>3, <2>4 DEF OneDescriptorEach
<1>13. \A ge \in Fds \ {fd} : conn[ge] # NoClient => cli'[conn[ge]] = cli[conn[ge]]
  BY <1>5, <1>6 DEF ServerInv, NetOK
<1>14. QED
  BY <1>3, <1>4, <1>5, <1>7, <1>8, <1>9, <1>10, <1>11, <1>12, <1>13, AroundStep

-----------------------------------------------------------------------------
(* The clients.                                                            *)

\* Which menu sends which request, and in whose name.
RequestFits(c, type, cid, gid) ==
  /\ c.phase \notin {"out", "exited"}
  /\ type \in PlayerTypes => cid = c.cid
  /\ type \in AccountTypes => c.phase = "login"
  /\ type = "LOGOUT" => c.phase = "menu"
  /\ type \in RoomTypes <=> c.phase \in InRoomPhases
  /\ type \in RoomTypes => gid = c.gid

LEMMA RequestMenu ==
  ASSUME NEW p, Request(p)
  PROVE  \E type, cid, gid, what :
           Send(p, type, cid, gid, what) /\ RequestFits(cli[p], type, cid, gid)
<1> USE DEF RequestFits, PlayerTypes, AccountTypes, RoomTypes, InRoomPhases
<1>1. CASE cli[p].phase = "login" /\ (regist(p) \/ login(p))
  BY <1>1 DEF regist, login
<1>2. CASE cli[p].phase = "menu" /\ (logout(p) \/ create_room(p))
  BY <1>2 DEF logout, create_room
<1>3. CASE cli[p].phase = "picked" /\ join_room(p)
  BY <1>3 DEF join_room
<1>4. CASE cli[p].phase = "seat" /\ (quit_room(p) \/ game_ready(p) \/ request_start_game(p))
  BY <1>4 DEF quit_room, game_ready, request_start_game
<1>5. CASE cli[p].phase \in {"ready", "unready"} /\ quit_game_ready(p)
  BY <1>5 DEF quit_game_ready
<1>6. QED
  BY <1>1, <1>2, <1>3, <1>4, <1>5 DEF Request

\* The descriptor of a client that is there, and of nobody else.
LEMMA OwnDescriptor ==
  ASSUME SessionInv, NEW p \in Clients, cli[p].phase \notin {"out", "exited"}
  PROVE  \E fd \in Fds : conn[fd] = p /\ FdOf(p) = {fd} /\ \A ge \in Fds \ {fd} : conn[ge] # p
<1>1. PICK fd \in Fds : conn[fd] = p
  BY DEF SessionInv, OneDescriptorEach
<1>2. \A ge \in Fds \ {fd} : conn[ge] # p
  BY <1>1, FdsAssumption DEF SessionInv, OneDescriptorEach
<1>3. FdOf(p) = {fd}
  BY <1>1, <1>2 DEF FdOf
<1>4. QED
  BY <1>1, <1>2, <1>3

\* A message a client sends arrives at its descriptor, after what is there.
LEMMA PutArrives ==
  ASSUME ServerInv, NEW p, NEW m, Put(p, m), NEW fd \in Fds, FdOf(p) = {fd},
         UNCHANGED <<m_queTaskData, task>>
  PROVE  Asked' = Asked \cup {[m EXCEPT !.fd = fd]}
<1> DEFINE h == [m EXCEPT !.fd = fd]
<1>1. inbox \in [Fds -> Seq(GoodMessage)]
  BY DEF ServerInv, MessagesOK
<1>2. /\ inbox'[fd] = Append(inbox[fd], h)
      /\ \A ge \in Fds : ge # fd => inbox'[ge] = inbox[ge]
  BY DEF Put
<1> HIDE DEF h
<1>3. Range(inbox'[fd]) = Range(inbox[fd]) \cup {h}
  BY <1>1, <1>2, RangeOfAppend
<1>4. \A n : n \in Arriving' <=> \E ge \in Fds : n \in Range(inbox'[ge])
  BY DEF Arriving
<1>5. \A n : n \in Arriving <=> \E ge \in Fds : n \in Range(inbox[ge])
  BY DEF Arriving
<1>6. \A n : n \in Arriving' <=> n \in Arriving \cup {h}
  BY <1>2, <1>3, <1>4, <1>5
<1>7. Arriving' = Arriving \cup {h}
  BY <1>6
<1>8. Delivered' = Delivered
  BY DEF Delivered, Busy
<1>9. QED
  BY <1>7, <1>8 DEF Asked, h

LEMMA SessionRequest ==
  ASSUME ServerInv, OrderInv, SessionInv, NEW p \in Clients, Request(p)
  PROVE  SessionInv'
<1>1. PICK type, cid, gid, what :
        Send(p, type, cid, gid, what) /\ RequestFits(cli[p], type, cid, gid)
  BY RequestMenu
<1>2. PICK fd \in Fds : conn[fd] = p /\ FdOf(p) = {fd} /\ \A ge \in Fds \ {fd} : conn[ge] # p
  BY <1>1, OwnDescriptor DEF RequestFits
<1>id. PICK i :
         /\ Put(p, [id |-> i, nr |-> nextNr, fd |-> Min(Fds), type |-> type, cid |-> cid,
                    gid |-> gid, what |-> what])
         /\ cli' = [cli EXCEPT ![p] = [@ EXCEPT !.op = type, !.id = i, !.nr = nextNr,
                                               !.gid = gid]]
  BY <1>1 DEF Send
<1> DEFINE m == [id |-> i, nr |-> nextNr, fd |-> Min(Fds), type |-> type, cid |-> cid, gid |-> gid,
                 what |-> what]
<1> PICK h : h = [m EXCEPT !.fd = fd]
  OBVIOUS
<1>3. /\ cli[p].op = "none" /\ Put(p, m) /\ nextNr \in Nat \ {0}
      /\ cli' = [cli EXCEPT ![p] = [@ EXCEPT !.op = type, !.id = i, !.nr = nextNr, !.gid = gid]]
      /\ UNCHANGED <<conn, m_queTaskData, m_queSendMsg, recv, task, m_mapOlinePlayers>>
  BY <1>1, <1>id, ChainTyped DEF Send, Waiting, playerVars
<1>4. /\ h.nr = nextNr /\ h.fd = fd /\ h.type = type /\ h.cid = cid /\ h.gid = gid
      /\ Asked' = Asked \cup {h}
  BY <1>2, <1>3, PutArrives
<1> HIDE DEF m
<1>5. /\ cli'[p].op = type /\ cli'[p].nr = nextNr /\ cli'[p].gid = gid
      /\ cli'[p].phase = cli[p].phase /\ cli'[p].cid = cli[p].cid
      /\ \A q \in Clients \ {p} : cli'[q] = cli[q]
  BY <1>3 DEF ServerInv, ClientsOK, ClientRecord
<1>6. \A ge : ClientOf(ge)' = ClientOf(ge)
  BY <1>3 DEF ClientOf
<1>7. \A n \in Asked \cup Range(m_queSendMsg) : n.nr > 0 => n.fd # fd
  BY <1>2, <1>3, NothingUnderWay DEF Waiting
<1>8. p # NoClient
  BY FdsAssumption
<1>9. EntryOK(fd)
  BY DEF SessionInv
<1>10. EntryOK(fd)'
  BY <1>2, <1>3, <1>5, <1>6, <1>9 DEF EntryOK
<1>11. AskOK(h)'
  <2>1. type = "LOGIN" => ClientOf(fd) = -1
    BY <1>1, <1>2, <1>3, <1>8, <1>9 DEF EntryOK, RequestFits, AccountTypes
  <2>2. type = "LOGOUT" => ClientOf(fd) = cid
    BY <1>1, <1>2, <1>3, <1>8, <1>9 DEF EntryOK, RequestFits, PlayerTypes, PastLogin, Phases
  <2>3. type \in PlayerTypes => cid = cli[p].cid
    BY <1>1 DEF RequestFits
  <2>4. nextNr # 0
    BY <1>3
  <2>5. QED
    BY <1>2, <1>3, <1>4, <1>5, <1>6, <1>8, <2>1, <2>2, <2>3, <2>4 DEF AskOK
<1>12. \A q \in Clients : MenuOK(cli'[q])
  <2>1. MenuOK(cli'[p])
    BY <1>1, <1>3, <1>5 DEF MenuOK, RequestFits, InRoomPhases
  <2>2. QED
    BY <1>5, <2>1 DEF SessionInv
<1>13. OneDescriptorEach'
  <2>1. \A q \in Clients : cli'[q].phase = cli[q].phase
    BY <1>5
  <2>2. recv.pc # "wait" => conn[recv.fd] \in Clients
    BY DEF SessionInv, OneDescriptorEach, Exited, ServerInv, NetOK
  <2>3. QED
    BY <1>3, <1>6, <2>1, <2>2 DEF SessionInv, OneDescriptorEach, Exited
<1>14. \A ge \in Fds \ {fd} : conn[ge] # NoClient => cli'[conn[ge]] = cli[conn[ge]]
  BY <1>2, <1>5 DEF ServerInv, NetOK
<1>15. QED
  BY <1>2, <1>3, <1>4, <1>6, <1>7, <1>10, <1>11, <1>12, <1>13, <1>14, AroundStep

\* A client comes to wait for nothing, or goes on doing so.
LEMMA FreeStep ==
  ASSUME ServerInv, SessionInv, NEW p \in Clients, NEW fd \in Fds, conn[fd] = p,
         cli[p].phase \notin {"out", "exited"}, cli'[p].op = "none",
         \A q \in Clients \ {p} : cli'[q] = cli[q],
         UNCHANGED <<conn, recv, m_mapOlinePlayers>>, EntryOK(fd)',
         \A m \in Asked' : (m \in Asked /\ (m.nr > 0 => m.fd # fd)) \/ (m.nr = 0 /\ m.type = "GAME_START"),
         \A m \in Range(m_queSendMsg') : m \in Range(m_queSendMsg) /\ (m.nr > 0 => m.fd # fd)
  PROVE  SessionInv'
<1>1. /\ p # NoClient /\ conn'[fd] = p
      /\ \A ge \in Fds : conn'[ge] = conn[ge]
      /\ \A ge \in Fds \ {fd} : conn[ge] # p
  BY FdsAssumption DEF SessionInv, OneDescriptorEach
<1>2. \A ge : ClientOf(ge)' = ClientOf(ge)
  BY DEF ClientOf
<1>3. \A ge \in Fds \ {fd} : conn[ge] # NoClient => cli'[conn[ge]] = cli[conn[ge]]
  BY <1>1 DEF ServerInv, NetOK
<1>4. \A q \in Clients : MenuOK(cli'[q])
  BY DEF SessionInv, MenuOK, AccountTypes, RoomTypes
<1>5. OneDescriptorEach'
  <2>1. ASSUME recv.pc # "wait"
        PROVE  Exited(conn[recv.fd])'
    <3>1. Exited(conn[recv.fd]) /\ conn[recv.fd] \in Clients
      BY <2>1 DEF SessionInv, OneDescriptorEach, Exited, ServerInv, NetOK
    <3>2. conn[recv.fd] # p
      BY <3>1 DEF Exited
    <3>3. QED
      BY <3>1, <3>2 DEF Exited
  <2>2. \A q \in Clients : cli'[q].phase \notin {"out", "exited"} => \E ge \in Fds : conn[ge] = q
    BY DEF SessionInv, OneDescriptorEach
  <2>3. QED
    BY <1>2, <2>1, <2>2 DEF SessionInv, OneDescriptorEach
<1>6. \A m : m.nr = 0 /\ m.type = "GAME_START" => AskOK(m)'
  BY DEF AskOK
<1>7. QED
  BY <1>1, <1>2, <1>3, <1>4, <1>5, <1>6, AroundStep

\* A client that waits for nothing goes from one menu behind the login to
\* another, or exits.
LEMMA MoveStep ==
  ASSUME ServerInv, SessionInv, NEW p \in Clients, ~Waiting(p),
         cli[p].phase \notin {"out", "exited"}, cli'[p].op = "none",
         \/ cli[p].phase \in PastLogin /\ cli'[p].phase \in PastLogin /\ cli'[p].cid = cli[p].cid
         \/ cli'[p].phase = "exited",
         \A q \in Clients \ {p} : cli'[q] = cli[q],
         UNCHANGED <<conn, recv, m_mapOlinePlayers>>, Asked' = Asked,
         Range(m_queSendMsg') \subseteq Range(m_queSendMsg)
  PROVE  SessionInv'
<1>1. PICK fd \in Fds : conn[fd] = p /\ FdOf(p) = {fd} /\ \A ge \in Fds \ {fd} : conn[ge] # p
  BY OwnDescriptor
<1>2. \A m \in Asked \cup Range(m_queSendMsg) : m.nr > 0 => m.fd # fd
  BY <1>1, NothingUnderWay
<1>3. ClientOf(fd)' = ClientOf(fd) /\ p # NoClient
  BY FdsAssumption DEF ClientOf
<1>4. EntryOK(fd)'
  BY <1>1, <1>3 DEF EntryOK, SessionInv, PastLogin, Waiting
<1>5. QED
  BY <1>1, <1>2, <1>4, FreeStep

\* Until the first failure a client exits between two requests only.
LEMMA ExitsAtRest ==
  ASSUME failures' = 0, ServerInv, NEW p, Exit(p)
  PROVE  ~Waiting(p)
<1>1. failures \in Nat
  BY DEF ServerInv, ClientsOK
<1>2. failures + 1 # 0
  BY <1>1
<1>3. Waiting(p) => failures' = failures + 1
  BY DEF Exit, Fails
<1>4. QED
  BY <1>2, <1>3

LEMMA SessionClientStep ==
  ASSUME failures' = 0, ServerInv, OrderInv, SessionInv, NEW p \in Clients, ClientStep(p)
  PROVE  SessionInv'
<1>1. ~GiveUp(p) /\ ~ShowPlayersTimesOut(p)
  BY DEF GiveUp, ShowPlayersTimesOut, Fails, ServerInv, ClientsOK
<1>2. ASSUME Exit(p) \/ PickRoom(p) \/ ShowPlayers(p)
      PROVE  /\ UNCHANGED <<conn, recv, m_mapOlinePlayers, m_queSendMsg>> /\ Asked' = Asked
             /\ ~Waiting(p) /\ cli[p].phase \notin {"out", "exited"}
             /\ \A q \in Clients \ {p} : cli'[q] = cli[q]
  <2>1. UNCHANGED <<netVars, recv, playerVars, m_queTaskData, m_queSendMsg, task>>
    BY <1>2 DEF Exit, PickRoom, ShowPlayers, QueryAnswered
  <2>2. Asked' = Asked
    BY <2>1 DEF Asked, Delivered, Arriving, Busy, netVars
  <2>3. ~Waiting(p) /\ cli[p].phase \notin {"out", "exited"}
    BY <1>2, ExitsAtRest DEF Exit, PickRoom, ShowPlayers, QueryAnswered
  <2>4. \E c : cli' = [cli EXCEPT ![p] = c]
    BY <1>2 DEF Exit, PickRoom, ShowPlayers
  <2>5. QED
    BY <2>1, <2>2, <2>3, <2>4 DEF netVars, playerVars, ServerInv, ClientsOK
<1>3. cli \in [Clients -> ClientRecord] /\ cli[p] \in ClientRecord
  BY DEF ServerInv, ClientsOK
<1>4. CASE Exit(p)
  <2>1. cli'[p].phase = "exited" /\ cli'[p].op = "none"
    BY <1>3, <1>4 DEF Exit, NoClientYet
  <2>2. QED
    BY <1>2, <1>4, <2>1, MoveStep
<1>5. CASE PickRoom(p) \/ ShowPlayers(p)
  <2>1. /\ cli[p].phase \in PastLogin /\ cli'[p].phase \in PastLogin
        /\ cli'[p].cid = cli[p].cid /\ cli'[p].op = cli[p].op
    <3>1. CASE PickRoom(p)
      BY <1>3, <3>1 DEF PickRoom, PastLogin, Phases, ClientRecord
    <3>2. CASE ShowPlayers(p)
      BY <1>3, <3>2 DEF ShowPlayers, PastLogin, Phases, ClientRecord
    <3>3. QED
      BY <1>5, <3>1, <3>2
  <2>2. cli'[p].op = "none"
    BY <1>2, <1>5, <2>1 DEF Waiting
  <2>3. QED
    BY <1>2, <1>5, <2>1, <2>2, MoveStep
<1>6. QED
  BY <1>1, <1>4, <1>5, SessionRequest DEF ClientStep

-----------------------------------------------------------------------------
(* The send thread.                                                        *)

\* What a reply makes of the client that waits for it.
LEMMA AnsweredFields ==
  ASSUME NEW c \in ClientRecord, NEW res, NEW cid, NEW gid
  PROVE  LET d == Answered(c, res, cid, gid)
         IN  /\ d.phase = AfterReply(c.op, res) /\ d.op = "none"
             /\ d.cid = IF c.op \in {"REGIST", "LOGIN"} /\ res = 0 THEN cid ELSE c.cid
             /\ d.gid = IF c.op = "CREATE_ROOM" THEN gid ELSE c.gid
BY DEF Answered, ClientRecord

LEMMA AnsweredEntry ==
  ASSUME ServerInv, SessionInv, NEW m \in Range(m_queSendMsg), m.type # "GAME_START", m.nr > 0,
         NEW p \in Clients, p = conn[m.fd], UNCHANGED <<conn, m_mapOlinePlayers>>,
         cli' = [cli EXCEPT ![p] = Answered(@, m.res, m.cid, m.gid)]
  PROVE  EntryOK(m.fd)'
<1> DEFINE c == cli[p]
<1> PICK d : d = Answered(c, m.res, m.cid, m.gid)
  OBVIOUS
<1>1. /\ c \in ClientRecord /\ cli'[p] = d /\ p # NoClient
  BY FdsAssumption DEF ServerInv, ClientsOK
<1>2. /\ d.phase = AfterReply(c.op, m.res) /\ d.op = "none"
      /\ d.cid = IF c.op \in {"REGIST", "LOGIN"} /\ m.res = 0 THEN m.cid ELSE c.cid
  BY <1>1, AnsweredFields
<1>3. ReplyRight(m) /\ m.fd \in Fds /\ EntryOK(m.fd) /\ MenuOK(c) /\ m.type \in Types
  BY AskedTyped DEF SessionInv, ReplyMsg
<1>4. c.op = m.type /\ c.phase \notin {"out", "exited"}
      /\ (c.phase = "login" => c.op \in AccountTypes) /\ c.phase \in Phases
  BY <1>1, <1>3 DEF ReplyRight, ServerInv, ClientsOK, ClientRecord, Types
<1>5. ClientOf(m.fd)' = ClientOf(m.fd) /\ conn'[m.fd] = p
  BY DEF ClientOf
<1>6. CASE m.type = "REGIST"
  BY <1>1, <1>2, <1>3, <1>4, <1>5, <1>6 DEF EntryOK, AfterReply, MenuOK, AccountTypes, PastLogin
<1>7. CASE m.type = "LOGIN"
  <2>1. ClientOf(m.fd) = IF m.res = 0 THEN m.cid ELSE -1
    BY <1>3, <1>7 DEF ReplyRight
  <2>2. d.phase = (IF m.res = 0 THEN "menu" ELSE "login") /\ (m.res = 0 => d.cid = m.cid)
    BY <1>2, <1>4, <1>7 DEF AfterReply
  <2>3. QED
    BY <1>1, <1>5, <2>1, <2>2 DEF EntryOK, PastLogin
<1>8. CASE m.type = "LOGOUT"
  BY <1>1, <1>2, <1>3, <1>4, <1>5, <1>8 DEF EntryOK, AfterReply, ReplyRight, PastLogin
<1>9. CASE m.type \notin {"REGIST", "LOGIN", "LOGOUT"}
  <2>1. c.phase \in PastLogin
    BY <1>4, <1>9 DEF PastLogin, AccountTypes
  <2>2. AfterReply(c.op, m.res) \notin {"out", "login", "exited"}
    BY <1>3, <1>4, <1>9 DEF AfterReply, Types
  <2>3. ClientOf(m.fd) = c.cid
    BY <1>1, <1>3, <1>4, <1>9, <2>1 DEF EntryOK
  <2>4. QED
    BY <1>1, <1>2, <1>4, <1>5, <1>9, <2>2, <2>3 DEF EntryOK
<1>10. QED
  BY <1>6, <1>7, <1>8, <1>9

LEMMA SessionSendStep ==
  ASSUME ServerInv, OrderInv, SessionInv, SendMessage
  PROVE  SessionInv'
<1> PICK m : m = Head(m_queSendMsg)
  OBVIOUS
<1> PICK p : p = conn[m.fd]
  OBVIOUS
<1>1. /\ m_queSendMsg # <<>> /\ m_queSendMsg' = Tail(m_queSendMsg)
      /\ UNCHANGED <<conn, recv, m_mapOlinePlayers, m_queTaskData, task>>
      /\ UNCHANGED <<cli, inbox>> \/ (p # NoClient /\ ~Exited(p) /\ SentTo(p, m))
  BY DEF SendMessage, playerVars
<1>2. Range(m_queSendMsg') \subseteq Range(m_queSendMsg) /\ m \in Range(m_queSendMsg)
  BY <1>1, ChainTyped, RangeOfTail
<1>3. m \in ReplyMsg /\ m.fd \in Fds /\ m.type \in Types
  BY <1>2, AskedTyped DEF ReplyMsg
<1>4. Delivered' = Delivered
  BY <1>1 DEF Delivered, Busy
<1>5. CASE UNCHANGED <<cli, inbox>>
  <2>1. Asked' = Asked
    BY <1>4, <1>5 DEF Asked, Arriving
  <2>2. QED
    BY <1>1, <1>2, <1>5, <2>1, QuietStep
<1>6. ASSUME p # NoClient, ~Exited(p), SentTo(p, m), ~UNCHANGED <<cli, inbox>>
      PROVE  SessionInv'
  <2>1. p \in Clients /\ cli[p] \in ClientRecord /\ cli \in [Clients -> ClientRecord]
    BY <1>3, <1>6 DEF ServerInv, NetOK, ClientsOK
  <2>2. CASE m.type = "GAME_START"
    <3>1. /\ cli[p].phase \in {"ready", "start"} /\ cli[p].op = "none"
          /\ cli' = [cli EXCEPT ![p].phase = "game"] /\ UNCHANGED inbox
      BY <1>6, <2>2 DEF SentTo
    <3>2. Asked' = Asked
      BY <1>4, <3>1 DEF Asked, Arriving
    <3>3. /\ cli'[p].phase = "game" /\ cli'[p].op = "none" /\ cli'[p].cid = cli[p].cid
          /\ \A q \in Clients \ {p} : cli'[q] = cli[q]
      BY <2>1, <3>1 DEF ClientRecord
    <3>4. QED
      BY <1>1, <1>2, <2>1, <3>1, <3>2, <3>3, MoveStep DEF Waiting, PastLogin, Phases
  <2>3. CASE m.type # "GAME_START"
    <3>1. /\ Waiting(p)
          /\ cli' = [cli EXCEPT ![p] = Answered(@, m.res, m.cid, m.gid)]
          /\ StartCommand(p, m)
      BY <1>6, <2>3 DEF SentTo
    <3>2. m.nr > 0
      <4>1. ReplyRight(m) /\ m.nr \in Nat
        BY <1>2, <1>3 DEF SessionInv, ReplyMsg
      <4>2. QED
        BY <2>3, <4>1 DEF ReplyRight
    <3>3. EntryOK(m.fd)'
      BY <1>1, <1>2, <2>1, <2>3, <3>1, <3>2, AnsweredEntry
    <3>4. cli'[p].op = "none" /\ \A q \in Clients \ {p} : cli'[q] = cli[q]
      BY <2>1, <3>1, AnsweredFields
    <3>5. cli[p].phase \notin {"out", "exited"}
      BY <2>1, <3>1 DEF ServerInv, ClientsOK, Waiting
    <3>6. \A n \in Asked \cup Range(m_queSendMsg') : n.nr > 0 => n.fd # m.fd
      BY <1>1, <3>2, SentAlone
    <3>7. \A n \in Asked' : n \in Asked \/ (n.nr = 0 /\ n.type = "GAME_START")
      <4>1. CASE UNCHANGED inbox
        BY <1>4, <4>1 DEF Asked, Arriving
      <4>2. CASE ~UNCHANGED inbox
        <5> DEFINE g == [id |-> 0, nr |-> 0, fd |-> m.fd, type |-> "GAME_START", cid |-> -1,
                         gid |-> cli[p].gid, what |-> NoArg]
        <5>1. Put(p, g)
          BY <3>1, <4>2 DEF StartCommand
        <5>2. PICK fd \in Fds : FdOf(p) = {fd}
          BY <2>1, <3>5, OwnDescriptor
        <5>3. [g EXCEPT !.fd = fd].nr = 0 /\ [g EXCEPT !.fd = fd].type = "GAME_START"
          OBVIOUS
        <5> HIDE DEF g
        <5>4. Asked' = Asked \cup {[g EXCEPT !.fd = fd]}
          BY <1>1, <5>1, <5>2, PutArrives
        <5>5. QED
          BY <5>3, <5>4
      <4>3. QED
        BY <4>1, <4>2
    <3>8. QED
      BY <1>1, <1>2, <1>3, <2>1, <3>3, <3>4, <3>5, <3>6, <3>7, FreeStep
  <2>4. QED
    BY <2>2, <2>3
<1>7. QED
  BY <1>1, <1>5, <1>6

-----------------------------------------------------------------------------

LEMMA SessionInit == ServerInit => SessionInv
<1> SUFFICES ASSUME ServerInit PROVE SessionInv
  OBVIOUS
<1>1. /\ \A fd \in Fds : conn[fd] = NoClient /\ inbox[fd] = <<>>
      /\ \A p \in Clients : cli[p] = NoClientYet
      /\ recv = IdleRecv /\ task = IdleTask /\ failures = 0
      /\ m_queTaskData = <<>> /\ m_queSendMsg = <<>> /\ DOMAIN m_mapOlinePlayers = {}
  BY DEF ServerInit
<1>2. Range(<<>>) = {}
  BY DEF Range
<1>3. Asked = {} /\ Range(m_queSendMsg) = {}
  <2>1. Busy = <<>>
    BY <1>1 DEF Busy, IdleTask
  <2>2. QED
    BY <1>1, <1>2, <2>1 DEF Asked, Delivered, Arriving
<1>4. \A fd \in Fds : EntryOK(fd)
  BY <1>1 DEF EntryOK, ClientOf
<1>5. OneDescriptorEach
  BY <1>1 DEF OneDescriptorEach, NoClientYet, IdleRecv
<1>6. \A p \in Clients : MenuOK(cli[p])
  BY <1>1 DEF MenuOK, NoClientYet, AccountTypes, RoomTypes
<1>7. QED
  BY <1>1, <1>3, <1>4, <1>5, <1>6 DEF SessionInv

LEMMA SessionStep ==
  ASSUME failures' = 0, ServerInv, OrderInv, SessionInv, [ServerNext]_serverVars
  PROVE  SessionInv'
<1>1. CASE FrameThread \/ UNCHANGED serverVars
  <2>1. UNCHANGED <<netVars, playerVars, m_queTaskData, m_queSendMsg, recv, task, cli>>
    BY <1>1 DEF FrameThread, serverVars
  <2>2. Asked' = Asked
    BY <2>1 DEF Asked, Delivered, Arriving, Busy, netVars
  <2>3. QED
    BY <2>1, <2>2, QuietStep DEF netVars, playerVars
<1>2. QED
  BY <1>1, ServerStepKinds, SessionAccept, SessionClientStep, SessionRecvStep, SessionTaskStep,
     SessionSendStep

LEMMA SessionInvariant ==
  ServerSpec => [](ServerInv /\ OrderInv /\ (failures = 0 => SessionInv))
<1>1. ServerInit => (failures = 0 => SessionInv)
  BY SessionInit
<1>2. ASSUME ServerInv, OrderInv, failures = 0 => SessionInv, [ServerNext]_serverVars
      PROVE  (failures = 0 => SessionInv)'
  <2> SUFFICES ASSUME failures' = 0 PROVE SessionInv'
    OBVIOUS
  <2>1. failures = 0
    BY <1>2, FailuresStep DEF ServerInv, ClientsOK
  <2>2. QED
    BY <1>2, <2>1, SessionStep
<1>3. QED
  BY <1>1, <1>2, ServerInvariant, OrderInvariant, PTL DEF ServerSpec

\* Until the first failure a client that is past the login menu is the one the
\* online table has for its descriptor, until its LOGOUT (do_login, do_logout
\* and the disconnect path): nobody is taken for somebody else.
THEOREM LoggedInStaysOnline == ServerSpec => []LoggedInIsOnline
<1>1. ServerInv /\ (failures = 0 => SessionInv) => LoggedInIsOnline
  <2> SUFFICES ASSUME ServerInv, SessionInv, NEW p \in Clients, NEW fd \in FdOf(p),
                      cli[p].phase \notin {"out", "login", "exited"}, cli[p].op # "LOGOUT"
               PROVE  fd \in DOMAIN m_mapOlinePlayers /\ m_mapOlinePlayers[fd] = cli[p].cid
    BY DEF LoggedInIsOnline
  <2>1. fd \in Fds /\ conn[fd] = p /\ p # NoClient
    BY FdsAssumption DEF FdOf
  <2>2. cli[p].phase \in PastLogin /\ cli[p].cid \in Cids
    BY DEF ServerInv, ClientsOK, ClientRecord, PastLogin
  <2>3. ClientOf(fd) = cli[p].cid
    BY <2>1, <2>2 DEF SessionInv, EntryOK
  <2>4. cli[p].cid # -1
    BY <2>2, CidsAssumption
  <2>5. QED
    BY <2>3, <2>4, EntryTyped
<1>2. QED
  BY <1>1, SessionInvariant, PTL

-----------------------------------------------------------------------------
(* The players of the rooms.                                               *)

KeepsSeats(cid) == \A g : cid \in Members(g) => cid \in Members(g)'

\* Whoever leaves, the others keep their seats: that the room is destroyed
\* when the last player goes does not concern them.
LEMMA OthersKeepSeats ==
  ASSUME RoomsInv, NEW c, RemovePlayer(c) \/ \E g : RemovePlayerOf(g, c), status' = "running",
         NEW d, d # c
  PROVE  KeepsSeats(d)
<1>1. ASSUME NEW g \in DOMAIN m_mapGame, RemoveFromRoom(g, c)
      PROVE  KeepsSeats(d)
  <2> DEFINE r == m_mapGame[g]
             rest == RemoveClient(r, c)
  <2>1. r \in Room
    BY <1>1 DEF RoomsInv, RoomsTypeOK
  <2>2. rest.m_mapGameOpt = r.m_mapGameOpt \ {c}
    BY <2>1 DEF RemoveClient, Room
  <2>3. CASE rest.m_mapGameOpt = {}
    <3>1. m_mapGame' = [h \in DOMAIN m_mapGame \ {g} |-> m_mapGame[h]]
      BY <1>1, <2>3 DEF RemoveFromRoom, EraseRoom
    <3>2. \A h : d \in Members(h) => h # g
      BY <2>2, <2>3 DEF Members
    <3>3. QED
      BY <3>1, <3>2 DEF KeepsSeats, Members
  <2>4. CASE rest.m_mapGameOpt # {}
    <3>1. m_mapGame' = [m_mapGame EXCEPT ![g] = AfterLeaving(rest, c)]
      BY <1>1, <2>4 DEF RemoveFromRoom
    <3>2. AfterLeaving(rest, c).m_mapGameOpt = rest.m_mapGameOpt
      BY <2>1 DEF AfterLeaving, SetRoomOwner, RemoveClient, Room
    <3> HIDE DEF rest
    <3>3. \A h \in DOMAIN m_mapGame : d \in m_mapGame[h].m_mapGameOpt => d \in m_mapGame'[h].m_mapGameOpt
      BY <2>2, <3>1, <3>2
    <3>4. DOMAIN m_mapGame' = DOMAIN m_mapGame
      BY <3>1
    <3>5. QED
      BY <3>3, <3>4 DEF KeepsSeats, Members
  <2>5. QED
    BY <2>3, <2>4
<1>2. CASE UNCHANGED m_mapGame
  BY <1>2 DEF KeepsSeats, Members
<1>3. CASE RemovePlayer(c)
  <2>1. CASE DOMAIN m_mapGame # {}
    <3>1. DOMAIN m_mapGame \subseteq Nat
      BY GidsAssumption DEF RoomsInv, RoomsTypeOK
    <3>2. Min(DOMAIN m_mapGame) \in DOMAIN m_mapGame
      BY <2>1, <3>1, MinOfNaturals
    <3>3. QED
      BY <1>1, <1>3, <2>1, <3>2 DEF RemovePlayer
  <2>2. QED
    BY <1>2, <1>3, <2>1 DEF RemovePlayer
<1>4. CASE \E g : RemovePlayerOf(g, c)
  BY <1>1, <1>2, <1>4 DEF RemovePlayerOf
<1>5. QED
  BY <1>3, <1>4

\* No other step takes a seat from anybody.
LEMMA AllKeepSeats ==
  ASSUME RoomsInv,
         \/ \E c \in Cids, name \in Names : CreateGame(c, name)
         \/ \E g, c : AddGamePlayer(g, c) \/ GameReady(g, c) \/ QuitGameReady(g, c)
         \/ \E g : GameStart(g),
         NEW d
  PROVE  KeepsSeats(d)
<1>1. ASSUME NEW g \in DOMAIN m_mapGame, NEW r, m_mapGame[g].m_mapGameOpt \subseteq r.m_mapGameOpt,
             m_mapGame' = [m_mapGame EXCEPT ![g] = r]
      PROVE  KeepsSeats(d)
  <2>1. /\ DOMAIN m_mapGame' = DOMAIN m_mapGame
        /\ \A h \in DOMAIN m_mapGame : m_mapGame'[h] = IF h = g THEN r ELSE m_mapGame[h]
    BY <1>1
  <2>2. QED
    BY <1>1, <2>1 DEF KeepsSeats, Members
<1>2. CASE UNCHANGED m_mapGame
  BY <1>2 DEF KeepsSeats, Members
<1>3. \A g \in DOMAIN m_mapGame : m_mapGame[g] \in Room
  BY DEF RoomsInv, RoomsTypeOK
<1>4. ASSUME NEW c \in Cids, NEW name \in Names, CreateGame(c, name)
      PROVE  KeepsSeats(d)
  BY <1>4 DEF CreateGame, KeepsSeats, Members
<1>5. ASSUME NEW g, NEW c, AddGamePlayer(g, c)
      PROVE  KeepsSeats(d)
  <2>1. CASE g \in DOMAIN m_mapGame
    <3>1. m_mapGame[g].m_mapGameOpt \subseteq AddClient(m_mapGame[g], c).m_mapGameOpt
      BY <1>3, <2>1 DEF AddClient, Room
    <3>2. QED
      BY <1>1, <1>5, <2>1, <3>1 DEF AddGamePlayer
  <2>2. QED
    BY <1>2, <1>5, <2>1 DEF AddGamePlayer
<1>6. ASSUME NEW g, NEW c, GameReady(g, c) \/ QuitGameReady(g, c)
      PROVE  KeepsSeats(d)
  <2>1. CASE g \in DOMAIN m_mapGame
    <3>1. /\ m_mapGame[g].m_mapGameOpt \subseteq ReadyUp(m_mapGame[g], c).m_mapGameOpt
          /\ m_mapGame[g].m_mapGameOpt \subseteq QuitReady(m_mapGame[g], c).m_mapGameOpt
      BY <1>3, <2>1 DEF ReadyUp, QuitReady, Room
    <3>2. QED
      BY <1>1, <1>6, <2>1, <3>1 DEF GameReady, QuitGameReady
  <2>2. QED
    BY <1>2, <1>6, <2>1 DEF GameReady, QuitGameReady
<1>7. ASSUME NEW g, GameStart(g)
      PROVE  KeepsSeats(d)
  <2>1. CASE g \in DOMAIN m_mapGame
    <3>1. m_mapGame[g].m_mapGameOpt \subseteq StartFrames(m_mapGame[g]).m_mapGameOpt
      BY <1>3, <2>1 DEF StartFrames, Room
    <3>2. QED
      BY <1>1, <1>7, <2>1, <3>1 DEF GameStart
  <2>2. QED
    BY <1>2, <1>7, <2>1 DEF GameStart
<1>8. QED
  BY <1>4, <1>5, <1>6, <1>7

\* Who creates a room or joins one with success has a seat in it.
LEMMA SeatTaken ==
  ASSUME RoomsInv
  PROVE  /\ \A c \in Cids, name \in Names : \A g :
              CreateGame(c, name) /\ CreateGameResult(name) # -1 /\ g = NewGid => c \in Members(g)'
         /\ \A g, c : AddGamePlayer(g, c) /\ AddGamePlayerResult(g) = 0 => c \in Members(g)'
<1>1. ASSUME NEW c \in Cids, NEW name \in Names, CreateGame(c, name), CreateGameResult(name) # -1,
             NEW g, g = NewGid
      PROVE  c \in Members(g)'
  <2>1. g \notin DOMAIN m_mapGame /\ ~IsGameNameExisted(name)
    <3>1. \A h \in DOMAIN m_mapGame : h < nextSid /\ h \in Nat
      BY GidsAssumption, InvRestated DEF RegistryOK
    <3>2. QED
      BY <1>1, <3>1 DEF NewGid, CreateGameResult
  <2>2. g \in DOMAIN m_mapGame' /\ m_mapGame'[g] = NewRoom(name, c)
    BY <1>1, <2>1 DEF CreateGame
  <2>3. QED
    BY <2>2, NewRoomGood DEF Members
<1>2. ASSUME NEW g, NEW c, AddGamePlayer(g, c), AddGamePlayerResult(g) = 0
      PROVE  c \in Members(g)'
  <2>1. g \in DOMAIN m_mapGame /\ ~IsFull(m_mapGame[g]) /\ m_mapGame[g] \in Room
    BY <1>2 DEF AddGamePlayerResult, RoomsInv, RoomsTypeOK
  <2>2. c \in AddClient(m_mapGame[g], c).m_mapGameOpt
    BY <2>1 DEF AddClient, Room
  <2>3. g \in DOMAIN m_mapGame' /\ m_mapGame'[g] = AddClient(m_mapGame[g], c)
    BY <1>2, <2>1 DEF AddGamePlayer
  <2>4. QED
    BY <2>2, <2>3 DEF Members
<1>3. QED
  BY <1>1, <1>2

-----------------------------------------------------------------------------
(* Who is who.                                                             *)

\* A client past the login menu is in the online table.
LEMMA OnlineClient ==
  ASSUME ServerInv, SessionInv, NEW p \in Clients, cli[p].phase \in PastLogin, cli[p].op # "LOGOUT"
  PROVE  \E fd \in Fds : conn[fd] = p /\ ClientOf(fd) = cli[p].cid /\ ClientOf(fd) # -1
<1>1. cli[p].phase \notin {"out", "exited"} /\ cli[p].cid \in Cids
  BY DEF PastLogin, ServerInv, ClientsOK
<1>2. PICK fd \in Fds : conn[fd] = p
  BY <1>1 DEF SessionInv, OneDescriptorEach
<1>3. EntryOK(fd) /\ conn[fd] # NoClient
  BY <1>2, FdsAssumption DEF SessionInv
<1>4. QED
  BY <1>1, <1>2, <1>3, CidsAssumption DEF EntryOK

\* No two processes play as one client.
LEMMA SameCidSamePlayer ==
  ASSUME ServerInv, SessionInv, NEW p \in Clients, NEW q \in Clients,
         cli[p].phase \in PastLogin, cli[p].op # "LOGOUT",
         cli[q].phase \in PastLogin, cli[q].op # "LOGOUT", cli[p].cid = cli[q].cid
  PROVE  p = q
<1>1. PICK fd \in Fds : conn[fd] = p /\ ClientOf(fd) = cli[p].cid /\ ClientOf(fd) # -1
  BY OnlineClient
<1>2. PICK ge \in Fds : conn[ge] = q /\ ClientOf(ge) = cli[q].cid
  BY OnlineClient
<1>3. QED
  BY <1>1, <1>2, EntryAlone

\* Who is in a room is past the login menu and has not asked to log out.
LEMMA InRoomOnline ==
  ASSUME ServerInv, SessionInv, NEW p \in Clients, InRoom(p)
  PROVE  cli[p].phase \in PastLogin /\ cli[p].op # "LOGOUT" /\ cli[p].cid \in Cids
BY DEF InRoom, PastLogin, Phases, SessionInv, MenuOK, ServerInv, ClientsOK

\* The sender of a request about a room, or the one its reply is for.
LEMMA Sender ==
  ASSUME ServerInv, SessionInv, NEW m \in Asked \cup Range(m_queSendMsg), m.nr > 0,
         m.type \notin AccountTypes
  PROVE  /\ m.fd \in Fds /\ conn[m.fd] \in Clients /\ conn[m.fd] # NoClient
         /\ cli[conn[m.fd]].phase \in PastLogin
         /\ cli[conn[m.fd]].op = m.type /\ m.type # "none" /\ SenderCid(m) \in Cids
<1>1. m.fd \in Fds /\ m.type \in Types
  BY AskedTyped DEF GoodMessage, Message, ReplyMsg
<1>2. conn[m.fd] # NoClient /\ cli[conn[m.fd]].op = m.type
  BY DEF SessionInv, AskOK, ReplyRight
<1>3. conn[m.fd] \in Clients
  BY <1>1, <1>2 DEF ServerInv, NetOK
<1>4. m.type # "none"
  BY <1>1 DEF Types
<1>5. cli[conn[m.fd]].phase \in PastLogin
  BY <1>2, <1>3, <1>4 DEF ServerInv, ClientsOK, ClientRecord, PastLogin
<1>6. QED
  BY <1>1, <1>2, <1>3, <1>4, <1>5 DEF SenderCid, ServerInv, ClientsOK

-----------------------------------------------------------------------------
(* The steps of the server.                                                *)

\* A step that leaves clients and connections alone and takes no seat that is
\* held, with at most one new reply.
LEMMA SeatsKept ==
  ASSUME SeatInv, UNCHANGED cli,
         \A m \in Range(m_queSendMsg) : Enters(m) => conn'[m.fd] = conn[m.fd],
         status' = "running" =>
           /\ status = "running"
           /\ \A p \in Clients : InRoom(p) /\ cli[p].op # "QUIT_ROOM" => KeepsSeats(cli[p].cid)
           /\ \A m \in Range(m_queSendMsg) : Enters(m) => KeepsSeats(SenderCid(m))
           /\ \A m \in Range(m_queSendMsg') : m \in Range(m_queSendMsg) \/ EntryHeld(m)',
         LeaverAway'
  PROVE  SeatInv'
<1>1. ASSUME status' = "running", NEW p \in Clients, InRoom(p)', cli'[p].op # "QUIT_ROOM",
             cli'[p].gid # BadGid
      PROVE  (cli[p].cid \in Members(cli[p].gid))'
  <2> PICK g : g = cli[p].gid
    OBVIOUS
  <2>1. InRoom(p) /\ cli[p].cid \in Members(g)
    BY <1>1 DEF SeatInv, SeatsOK, InRoom
  <2>2. cli[p].cid \in Members(g)'
    BY <1>1, <2>1 DEF KeepsSeats
  <2>3. QED
    BY <2>2 DEF Members
<1>2. ASSUME status' = "running", NEW m \in Range(m_queSendMsg)
      PROVE  EntryHeld(m)'
  <2> SUFFICES ASSUME Enters(m), m.res = 0
               PROVE  EntryHeld(m)'
    BY DEF EntryHeld, Enters
  <2>1. EntryHeld(m) /\ KeepsSeats(SenderCid(m)) /\ conn'[m.fd] = conn[m.fd]
    BY <1>2 DEF SeatInv
  <2>2. m.type = "CREATE_ROOM" /\ m.gid # BadGid => SenderCid(m) \in Members(m.gid)'
    BY <2>1 DEF EntryHeld, KeepsSeats
  <2> PICK g : g = cli[conn[m.fd]].gid
    OBVIOUS
  <2>3. m.type = "JOIN_ROOM" => SenderCid(m) \in Members(g)'
    BY <2>1 DEF EntryHeld, KeepsSeats
  <2>4. QED
    BY <2>1, <2>2, <2>3 DEF EntryHeld, SenderCid, Members
<1>3. QED
  BY <1>1, <1>2 DEF SeatInv, SeatsOK

\* What is delivered or answered after a step of the task thread was delivered
\* or answered before it, or is a message without a number.
LEMMA TaskMessages ==
  ASSUME ServerInv, TaskThread, NEW m \in (Delivered' \cup Range(m_queSendMsg'))
  PROVE  \/ m.nr = 0
         \/ \E r \in Delivered \cup Range(m_queSendMsg) :
              r.nr = m.nr /\ r.fd = m.fd /\ r.type = m.type
<1>1. Delivered' = Range(m_queTaskData') \cup (IF task'.pc = "wait" THEN {} ELSE {task'.req})
  BY DEF Delivered, Busy, Range
<1>2. m_queTaskData # <<>> =>
        Range(Tail(m_queTaskData)) \subseteq Range(m_queTaskData) /\ Req \in Range(m_queTaskData)
  BY ChainTyped, RangeOfTail DEF Req
<1>3. /\ Range(m_queTaskData) \subseteq Delivered
      /\ task.pc # "wait" => task.req \in Delivered
  BY BusyRange DEF Delivered
<1>4. \A n : m_queSendMsg' = Append(m_queSendMsg, n) => Range(m_queSendMsg') = Range(m_queSendMsg) \cup {n}
  BY ChainTyped, RangeOfAppend
<1>5. CASE HandlesAtOnce
  BY <1>1, <1>2, <1>3, <1>4, <1>5 DEF HandlesAtOnce, Answers
<1>6. CASE Keeps
  BY <1>1, <1>2, <1>3, <1>6 DEF Keeps
<1>7. CASE AnswersKept
  BY <1>1, <1>3, <1>4, <1>7, IdleTaskOK DEF AnswersKept, Answers
<1>8. CASE GoesOn
  BY <1>1, <1>3, <1>4, <1>8, IdleTaskOK DEF GoesOn
<1>9. QED
  BY <1>5, <1>6, <1>7, <1>8, TaskKinds

\* Only create_room and join_room are answered with an entry into a room.
LEMMA OtherReplies ==
  ASSUME ServerInv, TaskThread, ~DoCreateRoom, ~DoJoinRoom, NEW m \in Range(m_queSendMsg')
  PROVE  m \in Range(m_queSendMsg) \/ ~Enters(m)
<1> DEFINE Others == {"REGIST", "LOGIN", "LOGOUT", "QUIT_ROOM", "GAME_READY", "QUIT_GAME_READY",
                      "REQ_GAME_START", "GAME_START"}
<1>1. \A n : m_queSendMsg' = Append(m_queSendMsg, n) => Range(m_queSendMsg') = Range(m_queSendMsg) \cup {n}
  BY ChainTyped, RangeOfAppend
<1>2. ASSUME NEW req, NEW res, NEW cid, NEW gid, req.type \in Others, Reply(req, res, cid, gid)
      PROVE  m \in Range(m_queSendMsg) \/ ~Enters(m)
  <2>1. m_queSendMsg' = Append(m_queSendMsg, ReplyTo(req, res, cid, gid))
    BY <1>2 DEF Reply, Queued, ReplyTo
  <2>2. ~Enters(ReplyTo(req, res, cid, gid))
    BY <1>2 DEF Enters, ReplyTo
  <2>3. QED
    BY <1>1, <2>1, <2>2
<1>3. CASE UNCHANGED m_queSendMsg
  BY <1>3
<1>4. CASE DoRegiser \/ DoLogin \/ DoLogout \/ DoQuitRoom \/ DoGameReady \/ DoQuitGameReady
  BY <1>2, <1>3, <1>4 DEF DoRegiser, DoLogin, DoLogout, DoQuitRoom, DoGameReady, DoQuitGameReady, Takes
<1>5. CASE AddPlayer \/ AnswerGameStart
  <2>1. task.req.type \in Others
    BY <1>5 DEF AddPlayer, AnswerGameStart, ServerInv, TaskOK
  <2>2. QED
    BY <1>2, <1>5, <2>1 DEF AddPlayer, AnswerGameStart
<1>6. CASE StartFrameThread \/ NotifyPlayer
  <2>1. \/ UNCHANGED m_queSendMsg
        \/ \E n \in ReplyMsg : n.nr = 0 /\ m_queSendMsg' = Append(m_queSendMsg, n)
    BY <1>6, StartGoesOn DEF GoesOn
  <2>2. QED
    BY <1>1, <1>3, <2>1 DEF Enters
<1>7. CASE DoRequestGameStart \/ DoGameStart
  BY <1>3, <1>7 DEF DoRequestGameStart, DoGameStart
<1>8. QED
  BY <1>4, <1>5, <1>6, <1>7 DEF TaskThread

LEMMA SeatTaskStep ==
  ASSUME ServerInv, OrderInv, SessionInv, SeatInv, TaskThread
  PROVE  SeatInv'
<1>1. UNCHANGED <<conn, inbox, recv, cli>>
  BY TaskThreadFrame DEF netVars
<1>2. UNCHANGED roomsVars \/ status = "running"
  BY DEF TaskThread, DoRegiser, DoLogin, AddPlayer, DoLogout, DoCreateRoom, DoJoinRoom,
     DoQuitRoom, DoGameReady, DoQuitGameReady, DoRequestGameStart, AnswerGameStart, DoGameStart,
     StartFrameThread, NotifyPlayer, Takes, GameStart
<1>3. status' = "running" => status = "running"
  BY <1>2 DEF roomsVars
<1>4. LeaverAway'
  <2>1. ASSUME recv.pc = "remove", NEW m \in (Delivered' \cup Range(m_queSendMsg')), Enters(m)
        PROVE  SenderCid(m) # recv.cid
    <3>1. PICK r \in Delivered \cup Range(m_queSendMsg) : r.nr = m.nr /\ r.fd = m.fd /\ r.type = m.type
      BY <2>1, TaskMessages DEF Enters
    <3>2. QED
      BY <2>1, <3>1 DEF SeatInv, LeaverAway, Enters, SenderCid
  <2>2. recv.pc = "remove" => \A p \in Clients : InRoom(p) => cli[p].cid # recv.cid
    BY DEF SeatInv, LeaverAway
  <2>3. QED
    BY <1>1, <2>1, <2>2 DEF LeaverAway, InRoom, Enters, SenderCid
<1>5. ASSUME \A c : KeepsSeats(c),
             \A m \in Range(m_queSendMsg') : m \in Range(m_queSendMsg) \/ EntryHeld(m)'
      PROVE  SeatInv'
  BY <1>1, <1>3, <1>4, <1>5, SeatsKept
<1>6. \A m : ~Enters(m) => EntryHeld(m)'
  BY DEF EntryHeld, Enters
<1>7. ASSUME NEW type \in PlayerTypes, Takes(type), NEW req, req = Req
      PROVE  /\ req \in Asked /\ req.nr > 0 /\ req.type = type /\ AskOK(req) /\ req.cid = SenderCid(req)
             /\ req.fd \in Fds /\ conn[req.fd] \in Clients
             /\ cli[conn[req.fd]].phase \in PastLogin /\ cli[conn[req.fd]].op = type
             /\ type = "CREATE_ROOM" => req.what \in Names
             /\ req.cid \in Cids
  <2>1. req \in Asked /\ AskOK(req) /\ req \in GoodMessage /\ req.type = type /\ type # "GAME_START"
        /\ type \notin AccountTypes
    BY <1>1, <1>7, AskedLeft, TakenRequest DEF Takes, SessionInv, ServerInv, PlayerTypes, AccountTypes
  <2>2. req.nr > 0
    BY <2>1, NumberedRequest
  <2>3. QED
    BY <1>7, <2>1, <2>2, Sender DEF AskOK, GoodMessage, SenderCid
<1>8. CASE DoCreateRoom
  <2> PICK req, g : req = Req /\ g = NewGid
    OBVIOUS
  <2> DEFINE gid == IF CreateGameResult(req.what) = -1 THEN BadGid ELSE g
             n == ReplyTo(req, 0, NoCid, gid)
  <2>1. Takes("CREATE_ROOM") /\ CreateGame(req.cid, req.what)
        /\ m_queSendMsg' = Append(m_queSendMsg, n)
    BY <1>8 DEF DoCreateRoom, Reply, Queued, ReplyTo
  <2>2. /\ req.type = "CREATE_ROOM" /\ req.cid \in Cids /\ req.what \in Names
        /\ req.cid = SenderCid(req)
    BY <1>7, <2>1 DEF PlayerTypes
  <2>3. \A c : KeepsSeats(c)
    BY <2>1, <2>2, AllKeepSeats DEF ServerInv
  <2>4. CreateGameResult(req.what) # -1 => req.cid \in Members(g)'
    BY <2>1, <2>2, SeatTaken DEF ServerInv
  <2>5. n.fd = req.fd /\ n.gid = gid /\ n.type = "CREATE_ROOM"
    BY <2>2 DEF ReplyTo
  <2>6. Range(m_queSendMsg') = Range(m_queSendMsg) \cup {n}
    BY <2>1, ChainTyped, RangeOfAppend
  <2>7. PICK k : k = n
    OBVIOUS
  <2>8. k.gid # BadGid => k.gid = g /\ CreateGameResult(req.what) # -1
    BY <2>5, <2>7
  <2>9. k.fd = req.fd /\ k.type = "CREATE_ROOM"
    BY <2>5, <2>7
  <2> HIDE DEF n, gid
  <2>10. SenderCid(k)' = req.cid
    BY <1>1, <2>2, <2>9 DEF SenderCid
  <2>11. EntryHeld(k)'
    BY <2>4, <2>8, <2>9, <2>10 DEF EntryHeld
  <2>12. QED
    BY <1>5, <2>3, <2>6, <2>7, <2>11
<1>9. CASE DoJoinRoom
  <2> PICK req, g, res : req = Req /\ g = req.gid /\ res = JoinAnswer(g)
    OBVIOUS
  <2>1. Takes("JOIN_ROOM") /\ AddGamePlayer(g, req.cid)
        /\ m_queSendMsg' = Append(m_queSendMsg, ReplyTo(req, res, NoCid, 0))
    BY <1>9 DEF DoJoinRoom, Reply, Queued, ReplyTo
  <2>2. /\ req.type = "JOIN_ROOM" /\ req.cid = SenderCid(req) /\ cli[conn[req.fd]].gid = g
    BY <1>7, <2>1 DEF PlayerTypes, AskOK
  <2>3. \A c : KeepsSeats(c)
    BY <2>1, AllKeepSeats DEF ServerInv
  <2>4. res = 0 => req.cid \in Members(g)'
    BY <2>1, SeatTaken DEF ServerInv, JoinAnswer
  <2>5. PICK k : k = ReplyTo(req, res, NoCid, 0)
    OBVIOUS
  <2>6. k.fd = req.fd /\ k.type = "JOIN_ROOM" /\ k.res = res
    BY <2>2, <2>5 DEF ReplyTo
  <2>7. Range(m_queSendMsg') = Range(m_queSendMsg) \cup {k}
    BY <2>1, <2>5, ChainTyped, RangeOfAppend
  <2>8. SenderCid(k)' = req.cid /\ cli'[conn'[k.fd]].gid = g
    BY <1>1, <2>2, <2>6 DEF SenderCid
  <2>9. EntryHeld(k)'
    BY <2>4, <2>6, <2>8 DEF EntryHeld
  <2>10. QED
    BY <1>5, <2>3, <2>7, <2>9
<1>10. CASE DoQuitRoom
  <2> PICK req : req = Req
    OBVIOUS
  <2>1. Takes("QUIT_ROOM") /\ RemovePlayerOf(req.gid, req.cid)
    BY <1>10 DEF DoQuitRoom
  <2>2. /\ req.cid = SenderCid(req) /\ conn[req.fd] \in Clients
        /\ cli[conn[req.fd]].phase \in PastLogin /\ cli[conn[req.fd]].op = "QUIT_ROOM"
    BY <1>7, <2>1 DEF PlayerTypes
  <2>3. \A p \in Clients : InRoom(p) /\ cli[p].op # "QUIT_ROOM" => cli[p].cid # req.cid
    BY <2>2, SameCidSamePlayer, InRoomOnline DEF SenderCid
  <2>4. \A m \in Range(m_queSendMsg) : Enters(m) => SenderCid(m) # req.cid
    BY <2>2, Sender, SameCidSamePlayer DEF SenderCid, Enters, AccountTypes
  <2>5. status' = "running" => \A c : c # req.cid => KeepsSeats(c)
    BY <2>1, OthersKeepSeats DEF ServerInv
  <2>6. \A m \in Range(m_queSendMsg') : m \in Range(m_queSendMsg) \/ EntryHeld(m)'
    <3>1. ~DoCreateRoom /\ ~DoJoinRoom
      BY <2>1 DEF DoCreateRoom, DoJoinRoom, Takes
    <3>2. QED
      BY <1>6, <3>1, OtherReplies
  <2>7. QED
    BY <1>1, <1>3, <1>4, <2>3, <2>4, <2>5, <2>6, SeatsKept
<1>11. CASE ~DoCreateRoom /\ ~DoJoinRoom /\ ~DoQuitRoom
  <2>1. \A m \in Range(m_queSendMsg') : m \in Range(m_queSendMsg) \/ EntryHeld(m)'
    BY <1>6, <1>11, OtherReplies
  <2>2. \A c : KeepsSeats(c)
    <3>1. CASE UNCHANGED m_mapGame
      BY <3>1 DEF KeepsSeats, Members
    <3>2. CASE DoGameReady \/ DoQuitGameReady
      BY <3>2, AllKeepSeats DEF DoGameReady, DoQuitGameReady, ServerInv
    <3>3. CASE StartFrameThread
      BY <3>3, AllKeepSeats DEF StartFrameThread, ServerInv
    <3>4. QED
      BY <1>11, <3>1, <3>2, <3>3 DEF TaskThread, DoRegiser, DoLogin, AddPlayer, DoLogout,
         DoRequestGameStart, AnswerGameStart, DoGameStart, NotifyPlayer, roomsVars
  <2>3. QED
    BY <1>5, <2>1, <2>2
<1>12. QED
  BY <1>8, <1>9, <1>10, <1>11

LEMMA SeatRecvStep ==
  ASSUME failures' = 0, ServerInv, OrderInv, SessionInv, SeatInv, RecvThread
  PROVE  SeatInv'
<1>1. UNCHANGED <<m_queSendMsg, Busy, cli>>
  BY RecvThreadFrame DEF Busy
<1>2. CASE RecvRemovePlayer
  <2> PICK cid : cid = recv.cid
    OBVIOUS
  <2>1. recv.pc = "remove" /\ RemovePlayer(cid) /\ recv'.pc = "close" /\ UNCHANGED conn
        /\ status = "running"
    BY <1>2 DEF RecvRemovePlayer, netVars, RemovePlayer, ServerInv, NetOK
  <2>2. status' = "running" => \A c : c # cid => KeepsSeats(c)
    BY <2>1, OthersKeepSeats DEF ServerInv
  <2>3. /\ \A p \in Clients : InRoom(p) => cli[p].cid # cid
        /\ \A m \in Range(m_queSendMsg) : Enters(m) => SenderCid(m) # cid
    BY <2>1 DEF SeatInv, LeaverAway
  <2>4. LeaverAway'
    BY <2>1 DEF LeaverAway
  <2>5. QED
    BY <1>1, <2>1, <2>2, <2>3, <2>4, SeatsKept
<1>3. ASSUME UNCHANGED <<m_mapGame, status>>,
             \A m \in Range(m_queSendMsg) : Enters(m) => conn'[m.fd] = conn[m.fd], LeaverAway'
      PROVE  SeatInv'
  <2>1. \A c : KeepsSeats(c)
    BY <1>3 DEF KeepsSeats, Members
  <2>2. QED
    BY <1>1, <1>3, <2>1, SeatsKept
<1>4. CASE RegisterFd \/ \E fd \in Fds : RecvMessage(fd)
  <2>1. UNCHANGED <<m_mapGame, status, conn>> /\ recv'.pc = "wait"
    BY <1>4 DEF RegisterFd, RecvMessage, RecvReady, roomsVars
  <2>2. LeaverAway'
    BY <2>1 DEF LeaverAway
  <2>3. QED
    BY <1>3, <2>1, <2>2
<1>5. ASSUME NEW fd \in Fds, RecvEof(fd)
      PROVE  SeatInv'
  <2> PICK cid : cid = ClientOf(fd)
    OBVIOUS
  <2>1. /\ conn[fd] # NoClient /\ cli[conn[fd]].phase = "exited" /\ recv'.cid = cid
        /\ UNCHANGED <<m_mapGame, status, conn, m_queTaskData>>
    BY <1>5 DEF RecvEof, Exited, netVars, roomsVars
  <2>2. ASSUME NEW p \in Clients, cli[p].phase \in PastLogin, cli[p].op # "LOGOUT"
        PROVE  cli[p].cid # cid
    <3>1. PICK ge \in Fds : conn[ge] = p /\ ClientOf(ge) = cli[p].cid /\ ClientOf(ge) # -1
      BY <2>2, OnlineClient
    <3>2. ge # fd
      BY <2>1, <2>2, <3>1 DEF PastLogin
    <3>3. QED
      BY <3>1, <3>2, EntryAlone
  <2>3. \A p \in Clients : InRoom(p) => cli[p].cid # cid
    BY <2>2, InRoomOnline
  <2>4. \A m \in Delivered \cup Range(m_queSendMsg) : Enters(m) => SenderCid(m) # cid
    BY <2>2, Sender DEF Asked, Enters, SenderCid, AccountTypes
  <2>5. Delivered' = Delivered
    BY <1>1, <2>1 DEF Delivered
  <2>6. LeaverAway'
    BY <1>1, <2>1, <2>3, <2>4, <2>5 DEF LeaverAway, InRoom, SenderCid
  <2>7. QED
    BY <1>3, <2>1, <2>6
<1>6. CASE RecvClose
  <2> PICK fd : fd = recv.fd
    OBVIOUS
  <2>1. /\ conn' = [conn EXCEPT ![fd] = NoClient] /\ recv'.pc = "wait"
        /\ UNCHANGED <<m_mapGame, status>> /\ recv.pc = "close"
    BY <1>6 DEF RecvClose, Close, IdleRecv, roomsVars
  <2>2. /\ fd \in Fds /\ conn[fd] \in Clients /\ cli[conn[fd]].phase = "exited"
        /\ conn \in [Fds -> Clients \cup {NoClient}]
    BY <2>1 DEF SessionInv, OneDescriptorEach, Exited, ServerInv, NetOK
  <2>3. ~Waiting(conn[fd])
    BY <2>2 DEF Waiting, ServerInv, ClientsOK
  <2>4. \A m \in Range(m_queSendMsg) : Enters(m) => m.fd # fd /\ m.fd \in Fds
    BY <2>2, <2>3, NothingUnderWay, AskedTyped DEF Enters
  <2>5. LeaverAway'
    BY <2>1 DEF LeaverAway
  <2>6. QED
    BY <1>3, <2>1, <2>2, <2>4, <2>5
<1>7. \A fd \in Fds : ~RecvFails(fd)
  BY DEF RecvFails, Fails, ServerInv, ClientsOK
<1>8. QED
  BY <1>2, <1>4, <1>5, <1>6, <1>7 DEF RecvThread

-----------------------------------------------------------------------------
(* The steps of the clients.                                               *)

\* One client moves; nothing that is under way is its own.
LEMMA SeatMove ==
  ASSUME ServerInv, SessionInv, SeatInv, NEW p \in Clients,
         UNCHANGED <<m_mapGame, status, recv, Delivered>>,
         \A q \in Clients \ {p} : cli'[q] = cli[q],
         \A m \in Range(m_queSendMsg') : m \in Range(m_queSendMsg),
         \A m \in Delivered \cup Range(m_queSendMsg') :
           Enters(m) => conn'[m.fd] = conn[m.fd] /\ conn[m.fd] # p,
         InRoom(p)' =>
           /\ recv.pc = "remove" => cli'[p].cid # recv.cid
           /\ status = "running" /\ cli'[p].op # "QUIT_ROOM" /\ cli'[p].gid # BadGid
                => (cli[p].cid \in Members(cli[p].gid))'
  PROVE  SeatInv'
<1>1. \A m \in Delivered \cup Range(m_queSendMsg') : Enters(m) =>
        cli'[conn'[m.fd]] = cli[conn[m.fd]]
  BY Sender DEF Enters, Asked, AccountTypes
<1>2. \A g : Members(g)' = Members(g)
  BY DEF Members
<1>3. SeatsOK'
  <2>1. ASSUME status' = "running", NEW q \in Clients \ {p}, InRoom(q)', cli'[q].op # "QUIT_ROOM",
               cli'[q].gid # BadGid
        PROVE  (cli[q].cid \in Members(cli[q].gid))'
    BY <2>1 DEF SeatInv, SeatsOK, InRoom, Members
  <2>2. QED
    BY <2>1 DEF SeatsOK
<1>4. ASSUME status' = "running", NEW m \in Range(m_queSendMsg')
      PROVE  EntryHeld(m)'
  <2>1. EntryHeld(m)
    BY <1>4 DEF SeatInv
  <2>2. CASE ~Enters(m)
    BY <2>2 DEF EntryHeld, Enters
  <2>3. CASE Enters(m)
    BY <1>1, <2>1, <2>3 DEF EntryHeld, Enters, SenderCid, Members
  <2>4. QED
    BY <2>2, <2>3
<1>5. LeaverAway'
  BY <1>1 DEF SeatInv, LeaverAway, InRoom, Enters, SenderCid
<1>6. QED
  BY <1>3, <1>4, <1>5 DEF SeatInv

LEMMA SeatClientStep ==
  ASSUME failures' = 0, ServerInv, SessionInv, SeatInv, NEW p \in Clients,
         Accept(p) \/ ClientStep(p)
  PROVE  SeatInv'
<1>1. ~GiveUp(p) /\ ~ShowPlayersTimesOut(p)
  BY DEF GiveUp, ShowPlayersTimesOut, Fails, ServerInv, ClientsOK
<1>2. UNCHANGED <<m_mapGame, status, recv, m_queSendMsg, Delivered>>
  <2>1. UNCHANGED <<roomsVars, recv, m_queSendMsg, m_queTaskData, task>>
    BY ClientStepFrame DEF Accept
  <2>2. QED
    BY <2>1 DEF roomsVars, Delivered, Busy
<1>3. cli \in [Clients -> ClientRecord] /\ cli[p] \in ClientRecord
  BY DEF ServerInv, ClientsOK
<1>4. CASE Accept(p)
  <2> DEFINE free == {ge \in Fds : conn[ge] = NoClient}
  <2>1. PICK fd : fd = Min(free)
    OBVIOUS
  <2>2. fd \in free
    BY <1>4, <2>1, LowestDescriptor DEF Accept
  <2>3. /\ cli[p].phase = "out" /\ cli'[p].phase = "login" /\ conn' = [conn EXCEPT ![fd] = p]
        /\ \A q \in Clients \ {p} : cli'[q] = cli[q]
    BY <1>3, <1>4, <2>1 DEF Accept, ClientRecord
  <2>4. \A m \in Delivered \cup Range(m_queSendMsg) : Enters(m) =>
          m.fd \in Fds /\ conn[m.fd] # NoClient /\ conn[m.fd] # p
    BY <2>3, Sender DEF Enters, Asked, AccountTypes, PastLogin
  <2>5. \A m \in Delivered \cup Range(m_queSendMsg') : Enters(m) =>
          conn'[m.fd] = conn[m.fd] /\ conn[m.fd] # p
    BY <1>2, <2>2, <2>3, <2>4
  <2>6. ~InRoom(p)'
    BY <2>3 DEF InRoom
  <2>7. QED
    BY <1>2, <2>3, <2>5, <2>6, SeatMove
<1>5. ASSUME ClientStep(p), ~Waiting(p), \A q \in Clients \ {p} : cli'[q] = cli[q],
             InRoom(p)' => /\ InRoom(p) /\ cli'[p].cid = cli[p].cid
                           /\ cli'[p].gid = cli[p].gid
      PROVE  SeatInv'
  <2>1. UNCHANGED conn
    BY <1>5, ClientStepFrame
  <2>2. \A m \in Delivered \cup Range(m_queSendMsg') : Enters(m) => conn[m.fd] # p
    BY <1>2, <1>5, Sender DEF Enters, Asked, AccountTypes, Waiting
  <2>3. InRoom(p)' =>
          /\ recv.pc = "remove" => cli'[p].cid # recv.cid
          /\ status = "running" /\ cli'[p].gid # BadGid => (cli[p].cid \in Members(cli[p].gid))'
    BY <1>2, <1>5 DEF SeatInv, SeatsOK, LeaverAway, Waiting, Members
  <2>4. QED
    BY <1>2, <1>5, <2>1, <2>2, <2>3, SeatMove
<1>6. CASE Request(p)
  <2>1. PICK type, cid, gid, what :
          Send(p, type, cid, gid, what) /\ RequestFits(cli[p], type, cid, gid)
    BY <1>6, RequestMenu
  <2>2. /\ ~Waiting(p) /\ cli'[p].gid = gid /\ cli'[p].cid = cli[p].cid /\ cli'[p].phase = cli[p].phase
        /\ \A q \in Clients \ {p} : cli'[q] = cli[q]
    BY <1>3, <2>1 DEF Send, ClientRecord
  <2>3. InRoom(p)' => InRoom(p) /\ gid = cli[p].gid
    BY <2>1, <2>2 DEF InRoom, RequestFits, InRoomPhases
  <2>4. QED
    BY <1>5, <1>6, <2>2, <2>3 DEF ClientStep
<1>7. CASE Exit(p) \/ PickRoom(p) \/ ShowPlayers(p)
  <2>1. ~Waiting(p)
    BY <1>7, ExitsAtRest DEF PickRoom, ShowPlayers, QueryAnswered
  <2>2. \A q \in Clients \ {p} : cli'[q] = cli[q]
    BY <1>3, <1>7 DEF Exit, PickRoom, ShowPlayers
  <2>3. InRoom(p)' => /\ InRoom(p) /\ cli'[p].cid = cli[p].cid /\ cli'[p].gid = cli[p].gid
    <3>1. CASE Exit(p)
      BY <1>3, <3>1 DEF Exit, NoClientYet, InRoom
    <3>2. CASE PickRoom(p)
      BY <1>3, <3>2 DEF PickRoom, InRoom, ClientRecord
    <3>3. CASE ShowPlayers(p)
      BY <1>3, <3>3 DEF ShowPlayers, InRoom, ClientRecord
    <3>4. QED
      BY <1>7, <3>1, <3>2, <3>3
  <2>4. QED
    BY <1>5, <1>7, <2>1, <2>2, <2>3 DEF ClientStep
<1>8. QED
  BY <1>1, <1>4, <1>6, <1>7 DEF ClientStep

LEMMA SeatSendStep ==
  ASSUME ServerInv, OrderInv, SessionInv, SeatInv, SendMessage
  PROVE  SeatInv'
<1> PICK m : m = Head(m_queSendMsg)
  OBVIOUS
<1> PICK p : p = conn[m.fd]
  OBVIOUS
<1>1. /\ m_queSendMsg # <<>> /\ m_queSendMsg' = Tail(m_queSendMsg)
      /\ UNCHANGED <<m_mapGame, status, conn, recv, m_queTaskData, task>> /\ status = "running"
      /\ UNCHANGED <<cli, inbox>> \/ (p # NoClient /\ ~Exited(p) /\ SentTo(p, m))
  BY DEF SendMessage, roomsVars
<1>2. Range(m_queSendMsg') \subseteq Range(m_queSendMsg) /\ m \in Range(m_queSendMsg)
  BY <1>1, ChainTyped, RangeOfTail
<1>3. m \in ReplyMsg /\ m.fd \in Fds /\ m.type \in Types
  BY <1>2, AskedTyped DEF ReplyMsg
<1>4. Delivered' = Delivered
  BY <1>1 DEF Delivered, Busy
<1>5. CASE UNCHANGED cli
  <2>1. \A c : KeepsSeats(c)
    BY <1>1 DEF KeepsSeats, Members
  <2>2. LeaverAway'
    BY <1>1, <1>2, <1>4, <1>5 DEF SeatInv, LeaverAway, InRoom, Enters, SenderCid
  <2>3. QED
    BY <1>1, <1>2, <1>5, <2>1, <2>2, SeatsKept
<1>6. ASSUME p # NoClient, ~Exited(p), SentTo(p, m), ~UNCHANGED cli
      PROVE  SeatInv'
  <2>1. p \in Clients /\ cli[p] \in ClientRecord /\ cli \in [Clients -> ClientRecord]
    BY <1>3, <1>6 DEF ServerInv, NetOK, ClientsOK
  <2>2. CASE m.type = "GAME_START"
    <3>1. /\ cli[p].phase \in {"ready", "start"} /\ cli[p].op = "none"
          /\ cli' = [cli EXCEPT ![p].phase = "game"]
      BY <1>6, <2>2 DEF SentTo
    <3>2. /\ InRoom(p) /\ cli'[p].cid = cli[p].cid /\ cli'[p].gid = cli[p].gid
          /\ \A q \in Clients \ {p} : cli'[q] = cli[q]
      BY <2>1, <3>1 DEF ClientRecord, InRoom
    <3>3. \A n \in Delivered \cup Range(m_queSendMsg') : Enters(n) => conn[n.fd] # p
      BY <1>2, <3>1, Sender DEF Enters, Asked, AccountTypes
    <3>4. /\ recv.pc = "remove" => cli'[p].cid # recv.cid
          /\ cli'[p].gid # BadGid => (cli[p].cid \in Members(cli[p].gid))'
      BY <1>1, <2>1, <3>1, <3>2 DEF SeatInv, SeatsOK, LeaverAway, Members
    <3>5. QED
      BY <1>1, <1>2, <1>4, <2>1, <3>2, <3>3, <3>4, SeatMove
  <2>3. CASE m.type # "GAME_START"
    <3> PICK d : d = Answered(cli[p], m.res, m.cid, m.gid)
      OBVIOUS
    <3>0. m.nr > 0
      <4>1. ReplyRight(m) /\ m.nr \in Nat
        BY <1>2, <1>3 DEF SessionInv, ReplyMsg
      <4>2. QED
        BY <2>3, <4>1 DEF ReplyRight
    <3>1. /\ cli[p].op = m.type /\ cli' = [cli EXCEPT ![p] = d]
      <4>1. cli[p].op = m.type
        BY <1>2, <3>0 DEF SessionInv, ReplyRight
      <4>2. QED
        BY <1>6, <2>3, <4>1 DEF SentTo
    <3>2. /\ d.phase = AfterReply(m.type, m.res) /\ d.op = "none"
          /\ d.cid = IF m.type \in {"REGIST", "LOGIN"} /\ m.res = 0 THEN m.cid ELSE cli[p].cid
          /\ d.gid = IF m.type = "CREATE_ROOM" THEN m.gid ELSE cli[p].gid
      BY <2>1, <3>1, AnsweredFields
    <3>4. \A n \in Delivered \cup Range(m_queSendMsg') : Enters(n) => conn[n.fd] # p
      <4>1. \A n \in Delivered \cup Range(m_queSendMsg') : Enters(n) => n.fd # m.fd /\ n.fd \in Fds
        BY <1>1, <1>2, <3>0, SentAlone, Sender DEF Enters, Asked, AccountTypes
      <4>2. QED
        BY <1>3, <1>6, <4>1 DEF SessionInv, OneDescriptorEach
    <3>5. d.phase \in InRoomPhases =>
            /\ d.cid = cli[p].cid
            /\ recv.pc = "remove" => cli[p].cid # recv.cid
            /\ d.gid # BadGid => cli[p].cid \in Members(d.gid)
      <4>1. CASE m.type \in {"CREATE_ROOM", "JOIN_ROOM"}
        <5>1. d.phase \in InRoomPhases => m.res = 0
          BY <3>2, <4>1 DEF AfterReply, InRoomPhases
        <5>2. Enters(m) /\ EntryHeld(m) /\ SenderCid(m) = cli[p].cid
          BY <1>1, <1>2, <3>0, <4>1 DEF Enters, SeatInv, SenderCid
        <5>3. QED
          BY <1>2, <3>2, <4>1, <5>1, <5>2 DEF EntryHeld, SeatInv, LeaverAway
      <4>2. CASE m.type \in {"GAME_READY", "QUIT_GAME_READY", "REQ_GAME_START"}
        <5>1. InRoom(p)
          BY <2>1, <3>1, <4>2 DEF SessionInv, MenuOK, RoomTypes, InRoomPhases, InRoom
        <5>2. QED
          BY <1>1, <2>1, <3>1, <3>2, <4>2, <5>1 DEF SeatInv, SeatsOK, LeaverAway
      <4>3. CASE m.type \in {"REGIST", "LOGIN", "LOGOUT", "QUIT_ROOM"}
        BY <3>2, <4>3 DEF AfterReply, InRoomPhases
      <4>4. QED
        BY <1>3, <2>3, <4>1, <4>2, <4>3 DEF Types
    <3>6. cli'[p] = d /\ \A q \in Clients \ {p} : cli'[q] = cli[q]
      BY <2>1, <3>1
    <3>7. InRoom(p)' <=> d.phase \in InRoomPhases
      BY <3>6 DEF InRoom, InRoomPhases
    <3>8. d.cid = cli[p].cid /\ cli[p].cid \in Members(d.gid) => (cli[p].cid \in Members(cli[p].gid))'
      BY <1>1, <3>6 DEF Members
    <3>9. QED
      BY <1>1, <1>2, <1>4, <2>1, <3>4, <3>5, <3>6, <3>7, <3>8, SeatMove
  <2>4. QED
    BY <2>2, <2>3
<1>7. QED
  BY <1>1, <1>5, <1>6

-----------------------------------------------------------------------------

LEMMA SeatStep ==
  ASSUME failures' = 0, ServerInv, OrderInv, SessionInv, SeatInv, [ServerNext]_serverVars
  PROVE  SeatInv'
<1>1. CASE FrameThread \/ UNCHANGED serverVars
  <2>1. /\ UNCHANGED <<m_mapGame, cli, conn, recv, m_queTaskData, m_queSendMsg, task>>
        /\ status' = "running" => status = "running"
    BY <1>1 DEF FrameThread, OrphanFrameStep, serverVars, roomsVars, netVars
  <2>2. \A c : KeepsSeats(c)
    BY <2>1 DEF KeepsSeats, Members
  <2>3. LeaverAway'
    BY <2>1 DEF SeatInv, LeaverAway, Delivered, Busy, InRoom, SenderCid
  <2>4. QED
    BY <2>1, <2>2, <2>3, SeatsKept
<1>2. QED
  BY <1>1, ServerStepKinds, SeatClientStep, SeatRecvStep, SeatTaskStep, SeatSendStep

\* Until the first failure a client that the menus show in a room is a player
\* of that room until its QUIT_ROOM, whatever the others do: neither another's
\* QUIT_ROOM nor another's disconnect (CGameServer::remove_player) takes its seat.
THEOREM SeatsAreHeld == ServerSpec => []SeatHeld
<1>1. ServerInit => (failures = 0 => SeatInv)
  <2> SUFFICES ASSUME ServerInit PROVE SeatInv
    OBVIOUS
  <2>1. /\ \A p \in Clients : ~InRoom(p)
        /\ Range(m_queSendMsg) = {} /\ recv.pc = "wait"
    BY DEF ServerInit, InRoom, NoClientYet, IdleRecv, Range
  <2>2. QED
    BY <2>1 DEF SeatInv, SeatsOK, LeaverAway
<1>2. ASSUME ServerInv, OrderInv, failures = 0 => SessionInv, failures = 0 => SeatInv,
             [ServerNext]_serverVars
      PROVE  (failures = 0 => SeatInv)'
  <2> SUFFICES ASSUME failures' = 0 PROVE SeatInv'
    OBVIOUS
  <2>1. failures = 0
    BY <1>2, FailuresStep DEF ServerInv, ClientsOK
  <2>2. QED
    BY <1>2, <2>1, SeatStep
<1>3. (failures = 0 => SeatInv) => SeatHeld
  BY DEF SeatInv, SeatsOK, SeatHeld
<1>4. QED
  BY <1>1, <1>2, <1>3, SessionInvariant, PTL DEF ServerSpec

-----------------------------------------------------------------------------
(* The start of a game.                                                    *)

\* Whoever passes a player over has not found it in the online table.
LEMMA PassedOver ==
  ASSUME ServerInv, [ServerNext]_serverVars, task.pc = "notify", task' # task,
         m_queSendMsg' = m_queSendMsg
  PROVE  Min(task.rest) \in Cids /\ ~IsPlayerOnline(Min(task.rest))
<1>1. TaskThread
  <2>1. CASE UNCHANGED serverVars
    BY <2>1 DEF serverVars
  <2>2. CASE (\E p \in Clients : Accept(p) \/ ClientStep(p)) \/ RecvThread \/ SendMessage
             \/ FrameThread
    BY <2>2, ClientStepFrame, RecvThreadFrame DEF Accept, SendMessage, FrameThread
  <2>3. QED
    BY <2>1, <2>2, ServerStepKinds
<1>2. NotifyPlayer
  BY <1>1 DEF TaskThread, Takes, DoRegiser, DoLogin, AddPlayer, DoLogout, DoCreateRoom, DoJoinRoom,
              DoQuitRoom, DoGameReady, DoQuitGameReady, DoRequestGameStart, AnswerGameStart,
              DoGameStart, StartFrameThread
<1> DEFINE cid == Min(task.rest)
<1>3. cid \in Cids
  <2>1. task.rest \subseteq Cids /\ task.rest # {}
    BY DEF ServerInv, TaskOK
  <2>2. QED
    BY <2>1, MinOfNaturals, CidsAssumption
<1>4. ASSUME IsPlayerOnline(cid) PROVE FALSE
  <2>1. DOMAIN m_mapOlinePlayers \subseteq Fds
    BY DEF ServerInv, TablesOK
  <2>2. GetSockfd(cid) \in Fds
    BY <1>4, <2>1, LowestDescriptor DEF GetSockfd, IsPlayerOnline
  <2>3. \A fd \in Fds : fd > 0
    BY FdsAssumption
  <2>4. m_queSendMsg' # m_queSendMsg
    <3>1. m_queSendMsg \in Seq(ReplyMsg)
      BY DEF ServerInv, MessagesOK
    <3>2. \A m : Append(m_queSendMsg, m) # m_queSendMsg
      BY <3>1, AppendProperties
    <3>3. QED
      BY <1>2, <2>2, <2>3, <3>2 DEF NotifyPlayer, Queued
  <2>5. QED
    BY <2>4
<1>5. QED
  BY <1>3, <1>4

\* Until the first failure do_game_start tells every connected client that the
\* menus show in the room, though it reads the list of players, starts the frames
\* and looks up each descriptor under separate locks.
THEOREM EveryPlayerNotified == ServerSpec => AllPlayersNotified
<1>1. ASSUME ServerInv, failures = 0 => SessionInv, [ServerNext]_serverVars,
             failures = 0, task.pc = "notify", task' # task, m_queSendMsg' = m_queSendMsg,
             NEW p \in Clients, InRoom(p), cli[p].cid = Min(task.rest)
      PROVE  FALSE
  <2>1. Min(task.rest) \in Cids /\ ~IsPlayerOnline(Min(task.rest))
    BY <1>1, PassedOver
  <2>2. cli[p].phase \in PastLogin /\ cli[p].op # "LOGOUT"
    BY <1>1, InRoomOnline
  <2>3. PICK fd \in Fds : ClientOf(fd) = cli[p].cid /\ ClientOf(fd) # -1
    BY <1>1, <2>2, OnlineClient
  <2>4. fd \in DOMAIN m_mapOlinePlayers /\ m_mapOlinePlayers[fd] = cli[p].cid
    BY <1>1, <2>3, EntryTyped
  <2>5. QED
    BY <1>1, <2>1, <2>4 DEF IsPlayerOnline
<1>2. ServerInv /\ (failures = 0 => SessionInv) /\ [ServerNext]_serverVars =>
        (failures = 0 /\ task.pc = "notify" /\ task' # task /\ m_queSendMsg' = m_queSendMsg
           => ~\E p \in Clients : /\ FdOf(p) # {}
                                  /\ InRoom(p) /\ cli[p].gid = task.req.gid
                                  /\ cli[p].cid = Min(task.rest))
  BY <1>1
<1>3. QED
  BY <1>2, SessionInvariant, PTL DEF ServerSpec, AllPlayersNotified
=============================================================================
