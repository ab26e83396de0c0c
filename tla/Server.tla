------------------------------- MODULE Server --------------------------------
(***************************************************************************)
(* CServerMng (server.cpp): the listen, receive, task and send threads,    *)
(* the accounts (CClientInfoMng), the online table (COnlinePlayers), the   *)
(* registry of rooms (module Rooms) and the menus of the clients that call *)
(* it (client.cpp).  A step is what one thread does between two lock       *)
(* sections it can be interrupted between; taking a task and queueing its  *)
(* reply commute with every other thread and are folded into that step.    *)
(*                                                                         *)
(* The receive thread is the kqueue one.  What may go wrong is chosen by   *)
(* the instance:                                                           *)
(*   "exit"       a client exits while it waits for nothing                *)
(*   "timeout"    WaitNoticeFor gives up on a request under way            *)
(*   "split"      a message arrives in two segments: readn meets EAGAIN on *)
(*                the non-blocking socket and the server closes it         *)
(*   "crash"      a client exits while it waits for a reply                *)
(* All but the first are failures, of which there are at most MaxFailures. *)
(***************************************************************************)
EXTENDS Rooms, Sequences

CONSTANTS
  Clients,       \* client processes; each connects at most once
  NoClient,      \* a descriptor that is not open
  Fds,           \* descriptors accept() may return
  Accounts,      \* accounts, password included
  AccountsOf,    \* those the user of each client types
  TestAccounts,  \* the accounts start() adds, as cids 1, 2, ...
  MaxRequests,   \* bound on the requests sent
  MaxIdStep,     \* bound on the ids a client uses from one request to the next
  MaxFailures,   \* bound on the failures
  Faults,
  Faulty         \* bound: the clients that may exit or give up a wait

ASSUME FdsAssumption == Fds \subseteq Nat \ {0} /\ Fds # {} /\ NoClient \notin Clients
ASSUME AccountsAssumption ==
  /\ TestAccounts \in Seq(Accounts)
  /\ \A i, j \in DOMAIN TestAccounts : TestAccounts[i] = TestAccounts[j] => i = j
  /\ AccountsOf \in [Clients -> SUBSET Accounts]
  /\ 0..Len(TestAccounts) \subseteq Cids
ASSUME FaultsAssumption ==
  Faults \subseteq {"exit", "timeout", "split", "crash"} /\ Faulty \subseteq Clients

VARIABLES
  m_mapClientInfo,    \* CClientInfoMng: cid -> account
  m_mapOlinePlayers,  \* COnlinePlayers: fd -> cid
  conn,               \* the client at the other end of each open descriptor
  inbox,              \* bytes the kernel holds for a descriptor, as messages
  m_queSockFD,        \* accepted, not yet registered with the receive kqueue
  watched,            \* registered
  m_queTaskData, m_queSendMsg,
  recv,               \* where the receive thread is
  task,               \* where the task thread is
  up,                 \* FALSE once SIGPIPE has ended the process
  cli,                \* the clients
  nextNr,             \* the number of the next request: history, no code reads it
  failures            \* how many failures there were

netVars == <<conn, inbox, m_queSockFD, watched>>
playerVars == <<m_mapClientInfo, m_mapOlinePlayers>>
serverVars == <<roomsVars, playerVars, netVars, m_queTaskData, m_queSendMsg,
                recv, task, up, cli, nextNr, failures>>

NoArg == "-"
TimedOut == -9
BadGid == -1       \* create_game's -1 as a uint64_t: 2^64 - 1
Types == {"REGIST", "LOGIN", "LOGOUT", "CREATE_ROOM", "JOIN_ROOM", "QUIT_ROOM",
          "GAME_READY", "QUIT_GAME_READY", "REQ_GAME_START", "GAME_START"}
\* id is what the code sends, from the client's own CSnowFlake; nr numbers the
\* requests of all clients as they are sent, 0 being none.
Message == [id : Nat, nr : Nat, fd : Fds, type : Types, cid : Cids \cup {-1}, gid : Gids \cup {0, BadGid},
            what : Accounts \cup Names \cup {NoArg}]
ReplyMsg == [id : Nat, nr : Nat, fd : Fds, type : Types, res : {0, -1, -2}, cid : Cids,
             gid : Gids \cup {0, BadGid}]
Waiting(c) == cli[c].op # "none"
Exited(c) == c # NoClient /\ cli[c].phase = "exited"

NoClientYet == [phase |-> "out", op |-> "none", id |-> 0, nr |-> 0, cid |-> -1, gid |-> 0,
                owner |-> "unknown"]
NoRequest == [id |-> 0, nr |-> 0, fd |-> Min(Fds), type |-> "GAME_START", cid |-> -1,
              gid |-> 0, what |-> NoArg]
IdleTask == [pc |-> "wait", req |-> NoRequest, cid |-> -1, nums |-> 0, rest |-> {}]
NoCid == 0         \* what a missing "cid" decodes to
IdleRecv == [pc |-> "wait", fd |-> Min(Fds), cid |-> -1]

-----------------------------------------------------------------------------
(* The clients: the menus of client.cpp, as far as the server sees them.   *)

FdOf(p) == {fd \in Fds : conn[fd] = p}

\* A request goes out through the socket; nothing arrives if that is closed.
Put(p, m) ==
  inbox' = [fd \in Fds |-> IF fd \in FdOf(p) THEN Append(inbox[fd], [m EXCEPT !.fd = fd])
                                             ELSE inbox[fd]]

\* get_sid(): every client has a generator of its own, all with machine 0, so
\* ids of two clients may coincide.  Queries use ids up as well.
NextIds(p) == {cli[p].id + n : n \in 1..MaxIdStep}

Send(p, type, cid, gid, what) ==
  /\ ~Waiting(p)
  /\ nextNr <= MaxRequests
  /\ nextNr' = nextNr + 1
  /\ \E id \in NextIds(p) :
       /\ Put(p, [id |-> id, nr |-> nextNr, fd |-> Min(Fds), type |-> type, cid |-> cid,
                  gid |-> gid, what |-> what])
       /\ cli' = [cli EXCEPT ![p] = [@ EXCEPT !.op = type, !.id = id, !.nr = nextNr,
                                             !.gid = gid]]
  /\ UNCHANGED <<roomsVars, playerVars, conn, m_queSockFD, watched, m_queTaskData,
                 m_queSendMsg, recv, task, up, failures>>

\* The functions the menus call. Each queues a request, which is here, and takes
\* its reply, which is in Answered or, without one in time, in GiveUp.
regist(p) == \E a \in AccountsOf[p] : Send(p, "REGIST", -1, 0, a)
login(p) == \E a \in AccountsOf[p] : Send(p, "LOGIN", -1, 0, a)
logout(p) == Send(p, "LOGOUT", cli[p].cid, 0, NoArg)
create_room(p) == \E n \in Names : Send(p, "CREATE_ROOM", cli[p].cid, 0, n)
join_room(p) == Send(p, "JOIN_ROOM", cli[p].cid, cli[p].gid, NoArg)
quit_room(p) == Send(p, "QUIT_ROOM", cli[p].cid, cli[p].gid, NoArg)
game_ready(p) == Send(p, "GAME_READY", cli[p].cid, cli[p].gid, NoArg)
request_start_game(p) == Send(p, "REQ_GAME_START", -1, cli[p].gid, NoArg)
quit_game_ready(p) == Send(p, "QUIT_GAME_READY", cli[p].cid, cli[p].gid, NoArg)

\* The login menu, the main menu and the player list of a room.
Request(p) ==
  LET c == cli[p]
  IN  \/ c.phase = "login" /\ (regist(p) \/ login(p))
      \/ c.phase = "menu" /\ (logout(p) \/ create_room(p))
      \/ c.phase = "picked" /\ join_room(p)
      \/ c.phase = "seat" /\ quit_room(p)
      \/ c.phase = "seat" /\ c.owner = "no" /\ game_ready(p)
      \/ c.phase = "seat" /\ c.owner = "yes" /\ request_start_game(p)
      \/ c.phase \in {"ready", "unready"} /\ quit_game_ready(p)

\* Where a client goes when the reply to its request, or no reply, comes.
AfterReply(op, res) ==
  CASE op = "REGIST" -> "login"
    [] op = "LOGIN" -> IF res = 0 THEN "menu" ELSE "login"
    [] op = "LOGOUT" -> "login"
    [] op \in {"CREATE_ROOM", "JOIN_ROOM"} -> IF res = 0 THEN "room" ELSE "menu"
    [] op = "QUIT_ROOM" -> "menu"
    [] op = "GAME_READY" -> IF res = TimedOut THEN "unready" ELSE "ready"
    [] op = "QUIT_GAME_READY" -> "room"
    [] op = "REQ_GAME_START" -> IF res = 0 THEN "start" ELSE "room"

Answered(c, res, cid, gid) ==
  [c EXCEPT !.phase = AfterReply(c.op, res), !.op = "none",
            !.cid = IF c.op \in {"REGIST", "LOGIN"} /\ res = 0 THEN cid ELSE @,
            !.gid = IF c.op = "CREATE_ROOM" THEN gid ELSE @,
            !.owner = IF c.op \in {"CREATE_ROOM", "JOIN_ROOM"} THEN "unknown" ELSE @]

Fails(kind) ==
  /\ kind \in Faults
  /\ failures < MaxFailures
  /\ failures' = failures + 1

GiveUp(p) ==
  /\ p \in Faulty
  /\ Fails("timeout")
  /\ Waiting(p)
  /\ cli' = [cli EXCEPT ![p] = Answered(@, TimedOut, NoCid, 0)]
  /\ UNCHANGED <<roomsVars, playerVars, netVars, m_queTaskData, m_queSendMsg, recv, task,
                 up, nextNr>>

\* QUERY_ROOM and QUERY_ROOM_PLAYERS change nothing in the server and their
\* sender does nothing until the answer is there: each is one step, at the
\* instant the task thread reads the registry, after p's earlier requests.
\* do_query_room_players locks the registry twice, for the owner and for the
\* players, and only a disconnect comes between.  What the client makes of the
\* two is what it makes of both read at once: at the first lock if the room
\* still has a player, else at the second, as it then looks at nothing else.
QueryAnswered(p) ==
  /\ up /\ status = "running"
  /\ ~Waiting(p)
  /\ task.pc = "wait"
  /\ FdOf(p) # {} /\ FdOf(p) \subseteq watched
  /\ \A fd \in FdOf(p) : inbox[fd] = <<>> /\ \A i \in DOMAIN m_queTaskData :
                                                m_queTaskData[i].fd # fd
  /\ UNCHANGED <<roomsVars, playerVars, netVars, m_queTaskData, m_queSendMsg, recv, task,
                 up, nextNr, failures>>

PickRoom(p) ==
  /\ cli[p].phase = "menu"
  /\ QueryAnswered(p)
  /\ \E g \in GetGameidList :
       cli' = [cli EXCEPT ![p] = [@ EXCEPT !.phase = "picked", !.gid = g]]

ShowPlayers(p) ==
  /\ cli[p].phase \in {"room", "seat"}
  /\ QueryAnswered(p)
  /\ LET g == cli[p].gid
     IN  cli' = [cli EXCEPT ![p] =
                   IF Members(g) = {}
                   THEN [@ EXCEPT !.phase = "menu"]
                   ELSE [@ EXCEPT !.phase = "seat",
                                  !.owner = IF GetRoomOwner(g) = cli[p].cid
                                            THEN "yes" ELSE "no"]]

\* A query that times out leaves the last list on the screen; the first one
\* leaves none and the client goes back to the main menu without QUIT_ROOM.
ShowPlayersTimesOut(p) ==
  /\ p \in Faulty
  /\ Fails("timeout")
  /\ ~Waiting(p)
  /\ cli[p].phase = "room"
  /\ cli' = [cli EXCEPT ![p].phase = IF cli[p].owner = "unknown" THEN "menu" ELSE "seat"]
  /\ UNCHANGED <<roomsVars, playerVars, netVars, m_queTaskData, m_queSendMsg, recv, task,
                 up, nextNr>>

Exit(p) ==
  /\ p \in Faulty
  /\ cli[p].phase \notin {"out", "exited"}
  /\ IF Waiting(p) THEN Fails("crash") ELSE "exit" \in Faults /\ UNCHANGED failures
  /\ cli' = [cli EXCEPT ![p] = [NoClientYet EXCEPT !.phase = "exited"]]
  /\ UNCHANGED <<roomsVars, playerVars, netVars, m_queTaskData, m_queSendMsg, recv, task,
                 up, nextNr>>

-----------------------------------------------------------------------------
(* The listen and receive threads.                                         *)

\* accept() takes the lowest descriptor that is not open.
Accept(p) ==
  LET free == {fd \in Fds : conn[fd] = NoClient}
  IN  /\ up
      /\ cli[p].phase = "out"
      /\ free # {}
      /\ conn' = [conn EXCEPT ![Min(free)] = p]
      /\ m_queSockFD' = Append(m_queSockFD, Min(free))
      /\ cli' = [cli EXCEPT ![p].phase = "login"]
      /\ UNCHANGED <<roomsVars, playerVars, inbox, watched, m_queTaskData, m_queSendMsg,
                     recv, task, up, nextNr, failures>>

RecvReady == up /\ status = "running" /\ recv.pc = "wait"

RegisterFd ==
  /\ RecvReady
  /\ m_queSockFD # <<>>
  /\ watched' = watched \cup {Head(m_queSockFD)}
  /\ m_queSockFD' = Tail(m_queSockFD)
  /\ UNCHANGED <<roomsVars, playerVars, conn, inbox, m_queTaskData, m_queSendMsg, recv,
                 task, up, cli, nextNr, failures>>

RecvMessage(fd) ==
  /\ RecvReady
  /\ fd \in watched
  /\ inbox[fd] # <<>>
  /\ m_queTaskData' = Append(m_queTaskData, Head(inbox[fd]))
  /\ inbox' = [inbox EXCEPT ![fd] = Tail(@)]
  /\ UNCHANGED <<roomsVars, playerVars, conn, m_queSockFD, watched, m_queSendMsg, recv,
                 task, up, cli, nextNr, failures>>

Close(fd) ==
  /\ conn' = [conn EXCEPT ![fd] = NoClient]
  /\ inbox' = [inbox EXCEPT ![fd] = <<>>]
  /\ watched' = watched \ {fd}
  /\ UNCHANGED m_queSockFD

\* readn returns -1: the descriptor is closed, its online entry stays.
RecvFails(fd) ==
  /\ Fails("split")
  /\ RecvReady
  /\ fd \in watched
  /\ inbox[fd] # <<>>
  /\ Close(fd)
  /\ UNCHANGED <<roomsVars, playerVars, m_queTaskData, m_queSendMsg, recv, task, up, cli,
                 nextNr>>

\* What remove_player_by_socketfd(fd) returns.
ClientOf(fd) == IF fd \in DOMAIN m_mapOlinePlayers THEN m_mapOlinePlayers[fd] ELSE -1

\* Mutation of Offline: the first entry goes, whichever descriptor is meant.
OfflineFirst(fd) ==
  IF m_mapOlinePlayers = [f \in {} |-> 0]
  THEN m_mapOlinePlayers
  ELSE [f \in DOMAIN m_mapOlinePlayers \ {Min(DOMAIN m_mapOlinePlayers)} |->
          m_mapOlinePlayers[f]]

Offline(fd) == [f \in DOMAIN m_mapOlinePlayers \ {fd} |-> m_mapOlinePlayers[f]]

\* EV_EOF: what the peer had still sent is not read.  Three calls, three steps.
RecvEof(fd) ==
  /\ RecvReady
  /\ fd \in watched
  /\ Exited(conn[fd])
  /\ recv' = [pc |-> "remove", fd |-> fd, cid |-> ClientOf(fd)]
  /\ m_mapOlinePlayers' = Offline(fd)
  /\ UNCHANGED <<roomsVars, m_mapClientInfo, netVars, m_queTaskData, m_queSendMsg, task, up,
                 cli, nextNr, failures>>

RecvRemovePlayer ==
  /\ up
  /\ recv.pc = "remove"
  /\ RemovePlayer(recv.cid)
  /\ recv' = [recv EXCEPT !.pc = "close"]
  /\ UNCHANGED <<playerVars, netVars, m_queTaskData, m_queSendMsg, task, up, cli, nextNr, failures>>

RecvClose ==
  /\ up /\ status = "running"
  /\ recv.pc = "close"
  /\ Close(recv.fd)
  /\ recv' = IdleRecv
  /\ UNCHANGED <<roomsVars, playerVars, m_queTaskData, m_queSendMsg, task, up, cli, nextNr, failures>>

RecvThread ==
  \/ RegisterFd
  \/ \E fd \in Fds : RecvMessage(fd) \/ RecvFails(fd) \/ RecvEof(fd)
  \/ RecvRemovePlayer
  \/ RecvClose

-----------------------------------------------------------------------------
(* The task thread.  Busy handlers keep their request in task.req.         *)

Req == Head(m_queTaskData)

Takes(type) ==
  /\ up /\ status = "running"
  /\ task.pc = "wait"
  /\ m_queTaskData # <<>>
  /\ Req.type = type
  /\ m_queTaskData' = Tail(m_queTaskData)

\* Mutation of Queued: the newest message is sent first.
QueuedInFront(m) == <<m>> \o m_queSendMsg

Queued(m) == Append(m_queSendMsg, m)

\* Mutation of Reply: a refusal is not sent.
ReplyOnSuccess(req, res, cid, gid) ==
  m_queSendMsg' = IF res = 0
                  THEN Queued([id |-> req.id, nr |-> req.nr, fd |-> req.fd, type |-> req.type,
                               res |-> res, cid |-> cid, gid |-> gid])
                  ELSE m_queSendMsg

Reply(req, res, cid, gid) ==
  m_queSendMsg' = Queued([id |-> req.id, nr |-> req.nr, fd |-> req.fd, type |-> req.type,
                          res |-> res, cid |-> cid, gid |-> gid])

\* What every handler leaves alone.
TaskFrame == UNCHANGED <<netVars, recv, up, cli, nextNr, failures>>

IsClientExisted(a) == \E c \in DOMAIN m_mapClientInfo : m_mapClientInfo[c] = a

FindClient(a) ==
  IF \E c \in DOMAIN m_mapClientInfo : m_mapClientInfo[c] = a
  THEN Min({c \in DOMAIN m_mapClientInfo : m_mapClientInfo[c] = a})
  ELSE -1

GetMaxClientId == IF m_mapClientInfo = <<>> THEN 0 ELSE Max(DOMAIN m_mapClientInfo)

DoRegiser ==
  /\ Takes("REGIST")
  /\ LET new == GetMaxClientId + 1
     IN  IF IsClientExisted(Req.what)
         THEN Reply(Req, -1, NoCid, 0) /\ UNCHANGED m_mapClientInfo
         ELSE /\ new \in Cids
              /\ m_mapClientInfo' = [c \in DOMAIN m_mapClientInfo \cup {new} |->
                                       IF c = new THEN Req.what ELSE m_mapClientInfo[c]]
              /\ Reply(Req, 0, new, 0)
  /\ UNCHANGED <<roomsVars, m_mapOlinePlayers, task>>
  /\ TaskFrame

\* Mutation of IsPlayerOnline: nobody is ever online.
NobodyIsOnline(cid) == FALSE

IsPlayerOnline(cid) == \E fd \in DOMAIN m_mapOlinePlayers : m_mapOlinePlayers[fd] = cid

\* find_client and is_player_online; add_player takes the lock a second time.
DoLogin ==
  /\ Takes("LOGIN")
  /\ LET cid == FindClient(Req.what)
     IN  IF cid = -1 \/ IsPlayerOnline(cid)
         THEN Reply(Req, -1, NoCid, 0) /\ UNCHANGED task
         ELSE /\ task' = [IdleTask EXCEPT !.pc = "login", !.req = Req, !.cid = cid]
              /\ UNCHANGED m_queSendMsg
  /\ UNCHANGED <<roomsVars, playerVars>>
  /\ TaskFrame

\* Mutation of Online: add_player's two ints are swapped.
OnlineSwapped(fd, cid) ==
  [f \in DOMAIN m_mapOlinePlayers \cup {cid} |->
     IF f \in DOMAIN m_mapOlinePlayers THEN m_mapOlinePlayers[f] ELSE fd]

\* std::map::insert: a descriptor already in the table keeps its client.
Online(fd, cid) ==
  [f \in DOMAIN m_mapOlinePlayers \cup {fd} |->
     IF f \in DOMAIN m_mapOlinePlayers THEN m_mapOlinePlayers[f] ELSE cid]

AddPlayer ==
  /\ up /\ status = "running"
  /\ task.pc = "login"
  /\ m_mapOlinePlayers' = Online(task.req.fd, task.cid)
  /\ Reply(task.req, 0, task.cid, 0)
  /\ task' = IdleTask
  /\ UNCHANGED <<roomsVars, m_mapClientInfo, m_queTaskData>>
  /\ TaskFrame

\* remove_player_by_clientid erases the first entry of that client.
DoLogout ==
  /\ Takes("LOGOUT")
  /\ m_mapOlinePlayers' = IF IsPlayerOnline(Req.cid)
                          THEN Offline(Min({fd \in DOMAIN m_mapOlinePlayers :
                                              m_mapOlinePlayers[fd] = Req.cid}))
                          ELSE m_mapOlinePlayers
  /\ Reply(Req, 0, NoCid, 0)
  /\ UNCHANGED <<roomsVars, m_mapClientInfo, task>>
  /\ TaskFrame

\* gid is a uint64_t, so "gid < 0" is never true and -1 is answered res 0.
DoCreateRoom ==
  /\ Takes("CREATE_ROOM")
  /\ CreateGame(Req.cid, Req.what)
  /\ Reply(Req, 0, NoCid, IF CreateGameResult(Req.what) = -1 THEN BadGid ELSE NewGid)
  /\ UNCHANGED <<playerVars, task>>
  /\ TaskFrame

\* Mutation of JoinAnswer: a room that is gone is reported as joined.
JoinAnswerIgnoresMissing(g) == IF AddGamePlayerResult(g) = -1 THEN -1 ELSE 0

JoinAnswer(g) == AddGamePlayerResult(g)

DoJoinRoom ==
  /\ Takes("JOIN_ROOM")
  /\ AddGamePlayer(Req.gid, Req.cid)
  /\ Reply(Req, JoinAnswer(Req.gid), NoCid, 0)
  /\ UNCHANGED <<playerVars, task>>
  /\ TaskFrame

DoQuitRoom ==
  /\ Takes("QUIT_ROOM")
  /\ RemovePlayerOf(Req.gid, Req.cid)
  /\ Reply(Req, 0, NoCid, 0)
  /\ UNCHANGED <<playerVars, task>>
  /\ TaskFrame

DoGameReady ==
  /\ Takes("GAME_READY")
  /\ GameReady(Req.gid, Req.cid)
  /\ Reply(Req, ReadyResult(Req.gid), NoCid, 0)
  /\ UNCHANGED <<playerVars, task>>
  /\ TaskFrame

DoQuitGameReady ==
  /\ Takes("QUIT_GAME_READY")
  /\ QuitGameReady(Req.gid, Req.cid)
  /\ Reply(Req, ReadyResult(Req.gid), NoCid, 0)
  /\ UNCHANGED <<playerVars, task>>
  /\ TaskFrame

\* get_player_nums, then get_game_ready_status under the lock taken again.
DoRequestGameStart ==
  /\ Takes("REQ_GAME_START")
  /\ task' = [IdleTask EXCEPT !.pc = "counted", !.req = Req, !.nums = GetPlayerNums(Req.gid)]
  /\ UNCHANGED <<roomsVars, playerVars, m_queSendMsg>>
  /\ TaskFrame

StartAnswer(nums, g) == IF nums < 2 \/ ~GetGameReadyStatus(g) THEN -1 ELSE 0

AnswerGameStart ==
  /\ up /\ status = "running"
  /\ task.pc = "counted"
  /\ Reply(task.req, StartAnswer(task.nums, task.req.gid), NoCid, 0)
  /\ task' = IdleTask
  /\ UNCHANGED <<roomsVars, playerVars, m_queTaskData>>
  /\ TaskFrame

\* get_cid_list; then game_start; then get_sockfd and a message per player.
DoGameStart ==
  /\ Takes("GAME_START")
  /\ task' = [IdleTask EXCEPT !.pc = "start", !.req = Req, !.rest = Members(Req.gid)]
  /\ UNCHANGED <<roomsVars, playerVars, m_queSendMsg>>
  /\ TaskFrame

StartFrameThread ==
  /\ up
  /\ task.pc = "start"
  /\ GameStart(task.req.gid)
  /\ task' = IF task.rest = {} THEN IdleTask ELSE [task EXCEPT !.pc = "notify"]
  /\ UNCHANGED <<playerVars, m_queTaskData, m_queSendMsg>>
  /\ TaskFrame

\* Mutation of GetSockfd: the search ends at the first entry.
GetSockfdFirst(cid) ==
  LET first == Min(DOMAIN m_mapOlinePlayers)
  IN  IF m_mapOlinePlayers # <<>> /\ m_mapOlinePlayers[first] = cid THEN first ELSE -1

GetSockfd(cid) ==
  IF IsPlayerOnline(cid)
  THEN Min({fd \in DOMAIN m_mapOlinePlayers : m_mapOlinePlayers[fd] = cid})
  ELSE -1

NotifyPlayer ==
  LET cid == Min(task.rest)
      fd == GetSockfd(cid)
  IN  /\ up /\ status = "running"
      /\ task.pc = "notify"
      /\ IF fd > 0
         THEN m_queSendMsg' = Queued([id |-> 0, nr |-> 0, fd |-> fd, type |-> "GAME_START",
                                      res |-> 0, cid |-> NoCid, gid |-> 0])
         ELSE UNCHANGED m_queSendMsg
      /\ task' = IF task.rest = {cid} THEN IdleTask ELSE [task EXCEPT !.rest = @ \ {cid}]
      /\ UNCHANGED <<roomsVars, playerVars, m_queTaskData>>
      /\ TaskFrame

TaskThread ==
  \/ DoRegiser \/ DoLogin \/ AddPlayer \/ DoLogout
  \/ DoCreateRoom \/ DoJoinRoom \/ DoQuitRoom
  \/ DoGameReady \/ DoQuitGameReady
  \/ DoRequestGameStart \/ AnswerGameStart
  \/ DoGameStart \/ StartFrameThread \/ NotifyPlayer

-----------------------------------------------------------------------------
(* The send thread, and what the client at the other end makes of it: the  *)
(* reply that carries the id it waits for wakes it, a GAME_START starts    *)
(* the game if it waits for one, anything else is dropped.                 *)

\* request_start_game sends GAME_START, with id 0, as soon as it is granted.
StartCommand(p, m) ==
  IF cli[p].op = "REQ_GAME_START" /\ m.res = 0
  THEN Put(p, [id |-> 0, nr |-> 0, fd |-> m.fd, type |-> "GAME_START", cid |-> -1,
               gid |-> cli[p].gid, what |-> NoArg])
  ELSE UNCHANGED inbox

SentTo(p, m) ==
  LET c == cli[p]
  IN  CASE m.type = "GAME_START" ->
             /\ cli' = IF c.phase \in {"ready", "start"} /\ c.op = "none"
                       THEN [cli EXCEPT ![p].phase = "game"] ELSE cli
             /\ UNCHANGED inbox
        [] m.type # "GAME_START" /\ Waiting(p) /\ c.id = m.id ->
             /\ cli' = [cli EXCEPT ![p] = Answered(@, m.res, m.cid, m.gid)]
             /\ StartCommand(p, m)
        [] OTHER -> UNCHANGED <<cli, inbox>>

\* writen to a descriptor that is closed fails; to one whose peer is gone it
\* fails or, nothing handling SIGPIPE, ends the process.
SendMessage ==
  /\ up /\ status = "running"
  /\ m_queSendMsg # <<>>
  /\ m_queSendMsg' = Tail(m_queSendMsg)
  /\ LET m == Head(m_queSendMsg)
         p == conn[m.fd]
     IN  \/ /\ p = NoClient
            /\ UNCHANGED <<cli, inbox, up>>
         \/ /\ Exited(p)
            /\ up' \in BOOLEAN
            /\ UNCHANGED <<cli, inbox>>
         \/ /\ p # NoClient /\ ~Exited(p)
            /\ SentTo(p, m)
            /\ UNCHANGED up
  /\ UNCHANGED <<roomsVars, playerVars, conn, m_queSockFD, watched, m_queTaskData, recv, task,
                 nextNr, failures>>

\* A send_frame thread whose room is gone (module Rooms).
FrameThread ==
  /\ up
  /\ OrphanFrameStep
  /\ UNCHANGED <<playerVars, netVars, m_queTaskData, m_queSendMsg, recv, task, up, cli,
                 nextNr, failures>>

-----------------------------------------------------------------------------

ServerInit ==
  /\ RoomsInit
  /\ m_mapClientInfo = [c \in 1..Len(TestAccounts) |-> TestAccounts[c]]
  /\ m_mapOlinePlayers = [fd \in {} |-> 0]
  /\ conn = [fd \in Fds |-> NoClient]
  /\ inbox = [fd \in Fds |-> <<>>]
  /\ m_queSockFD = <<>>
  /\ watched = {}
  /\ m_queTaskData = <<>>
  /\ m_queSendMsg = <<>>
  /\ recv = IdleRecv
  /\ task = IdleTask
  /\ up = TRUE
  /\ cli = [p \in Clients |-> NoClientYet]
  /\ nextNr = 1
  /\ failures = 0

ClientStep(p) ==
  \/ Request(p)
  \/ GiveUp(p)
  \/ PickRoom(p)
  \/ ShowPlayers(p)
  \/ ShowPlayersTimesOut(p)
  \/ Exit(p)

ServerNext ==
  \/ \E p \in Clients : Accept(p) \/ ClientStep(p)
  \/ RecvThread
  \/ TaskThread
  \/ SendMessage
  \/ FrameThread

ServerSpec == ServerInit /\ [][ServerNext]_serverVars

\* Each server thread is a loop the operating system goes on running.
FairServerSpec ==
  /\ ServerSpec
  /\ WF_serverVars(RecvThread)
  /\ WF_serverVars(TaskThread)
  /\ WF_serverVars(SendMessage)

-----------------------------------------------------------------------------
(* What must hold.                                                         *)

\* The types; the receive and task threads hold a descriptor of theirs.
ServerTypeOK ==
  /\ RoomsTypeOK
  /\ DOMAIN m_mapClientInfo \subseteq Cids
  /\ \A c \in DOMAIN m_mapClientInfo : m_mapClientInfo[c] \in Accounts
  /\ DOMAIN m_mapOlinePlayers \subseteq Fds
  /\ \A fd \in DOMAIN m_mapOlinePlayers : m_mapOlinePlayers[fd] \in DOMAIN m_mapClientInfo
  /\ watched \subseteq {fd \in Fds : conn[fd] # NoClient}
  /\ \A fd \in Fds : inbox[fd] \in Seq(Message)
  /\ m_queTaskData \in Seq(Message) /\ m_queSendMsg \in Seq(ReplyMsg)
  /\ task.pc \in {"wait", "login", "counted", "start", "notify"} /\ task.req \in Message
  /\ recv.pc \in {"wait", "remove", "close"}
  /\ recv.pc # "wait" => recv.fd \in watched

\* "你已经登陆了." (server.cpp:1114): the check and the insertion of do_login
\* hold the lock separately, with the disconnect path between them, and still
\* no client is entered under two descriptors.
OnlineUnique ==
  \A fd, ge \in DOMAIN m_mapOlinePlayers :
    m_mapOlinePlayers[fd] = m_mapOlinePlayers[ge] => fd = ge

Busy == IF task.pc = "wait" THEN <<>> ELSE <<task.req>>

\* The requests of a connection stay in order from its socket through the task
\* thread to the reply queue, even if a descriptor is used again: so a reply
\* the client has given up on comes before the one it waits for.  Messages
\* without a number, which is 0, are no requests.
InOrder(chain, fd) ==
  \A i, j \in DOMAIN chain :
    i < j /\ chain[i].fd = fd /\ chain[j].fd = fd /\ chain[i].nr > 0 /\ chain[j].nr > 0
      => chain[i].nr < chain[j].nr

RepliesInRequestOrder ==
  \A fd \in Fds : InOrder(m_queSendMsg \o Busy \o m_queTaskData \o inbox[fd], fd)

InRoom(p) == cli[p].phase \in {"room", "seat", "ready", "unready", "start", "game"}

\* Until a first failure a client that the menus show in a room is a player of
\* that room, whatever the others did, until its QUIT_ROOM; the exception is
\* the gid a duplicate name is answered with.
SeatHeld ==
  failures = 0 /\ status = "running" =>
    \A p \in Clients :
      InRoom(p) /\ cli[p].op # "QUIT_ROOM" /\ cli[p].gid # BadGid
        => cli[p].cid \in Members(cli[p].gid)

\* Until a first failure a client that is past the login menu is the one the
\* online table has for its descriptor, until its LOGOUT.
LoggedInIsOnline ==
  failures = 0 =>
    \A p \in Clients : \A fd \in FdOf(p) :
      cli[p].phase \notin {"out", "login", "exited"} /\ cli[p].op # "LOGOUT"
        => fd \in DOMAIN m_mapOlinePlayers /\ m_mapOlinePlayers[fd] = cli[p].cid

\* "通知该游戏房间下的所有玩家开始游戏" (server.cpp:1404): until a first failure a
\* player do_game_start passes over is no client that is connected and in that
\* room, though the list and each descriptor are read under locks of their own.
AllPlayersNotified ==
  [][failures = 0 /\ task.pc = "notify" /\ task' # task /\ m_queSendMsg' = m_queSendMsg
       => ~\E p \in Clients : /\ FdOf(p) # {}
                              /\ InRoom(p) /\ cli[p].gid = task.req.gid
                              /\ cli[p].cid = Min(task.rest)]_serverVars

\* No handler keeps its answer back: a client that waits on an open connection
\* gets a reply, gives up, or the server has ended.
RequestsAnswered ==
  \A p \in Clients :
    Waiting(p) ~> (~Waiting(p) \/ FdOf(p) = {} \/ ~up \/ status = "undefined")
=============================================================================
