# A TLA+ development of one-peace

The repository is a collection of C++ programs. Its largest is a two-player
snake game: a server with accounts and game rooms (`server.cpp`, `game.cpp`), a
menu-driven client (`client.cpp`) and the concurrency toolbox both are built on
(`utility.hpp`, `utility.cpp`). The rest is independent exercises. This
directory holds TLA+ modules translated from that code, TLC runs that check them
on small instances and proofs that hold for every value of the constants.

## Inventory

| Part | State | Operations | Hard behaviour | What makes it correct |
|---|---|---|---|---|
| Room registry, `CGameServer` and `CGame` (`game.cpp:264-698`) | `m_mapGame`: gid to room; per room two maps by player, owner, exit flag, detached `send_frame` threads | create, join, quit, ready, withdraw, disconnect, start, over, remove | threads outside the lock; a room destroyed under its thread; erasing `find()` unchecked | the maps of a room agree, the owner is a ready player, a name denotes one room |
| Game server, `CServerMng` (`server.cpp`) | accounts, online table, three queues, four threads | accept, receive, disconnect, eleven request handlers, send | check and insertion under separate locks; a disconnect between two steps of a handler; descriptors reused | nobody online twice, replies in order, menus agree with tables, every request answered |
| Client, `CClientMng` (`client.cpp`) | menu, pending request, chosen room, `m_bGameStart` | menus, requests, waiting for the start | 10 ms timeouts racing replies; condition variable without predicate | the client leaves every wait; a start is not forgotten |
| Ids, `CSnowFlake` (`utility.cpp:57-121`) | last key, last timestamp, mutex | `get_sid` | a clock that falls back; a mutex unlocked twice | ids increase, serial numbers stay in their field |
| Reply rendezvous, `CEventNotice` (`utility.hpp:67-127`) | promises by task id | `WaitNoticeFor`, `Notice` | erase without the lock | a reply reaches the call that waits for it |
| `threadsafe_queue`, `thread_pool`, `sorter`, algorithms with a thread per block (`utility.hpp:210-735`) | linked list with two locks, workers | push, pop, wait, submit, spawn, join | notification between test and sleep; tasks that wait for tasks; rounding of blocks | a FIFO queue; the pool never waits for itself; every element counted once |
| Snake (`game.cpp:1-262`, `409-454`, `700-982`) | per client: map, overlaps, snakes, frames received, random numbers drawn | send, receive, move, grow, new food | both clients replay the same frames at their own pace; snakes cross | map, overlaps and snakes agree; both clients show the same board |
| Red-black trees (`rb_tree/`: plain, with ranks, with intervals) | nodes with links, colour, size, maximum; a sentinel shared by all | insert, remove and their fixups, rotations, searches, traversals | values kept up to date through every rotation; links through the sentinel | contents and order kept, every search right |
| Coroutines (`test_coroutine/`) | slots, states, shared stack | create, resume, yield | saved stacks and contexts | one coroutine runs, slots are not lost |
| FTP server (`libevent_test/ev_ftp_server`) | threads with pipes and task lists | dispatch, activate | wake-up byte and list filled separately | every task runs once |
| Memory order programs (`memory_order_test/`) | two or three atomics | load, store, fence | weak orders | the assertions the comments speak of |
| Practice algorithms (`practice.cpp`, `test.cpp`) | none | sorting, searching, strings | boundaries | agreement with a definition |
| Demonstrations of libevent, redis, ssh, ffmpeg, openssl, readers, reflection | nearly none | calls into libraries | none of its own | left out: input and output only |

How the parts meet: a client process sends a request over its socket; the
server's receive thread puts it into `m_queTaskData`; the task thread takes it,
calls the registry, and puts the reply into `m_queSendMsg`; the send thread
writes it to the descriptor; the client's task thread hands it to the waiting
menu through `CEventNotice`. Ids of requests and rooms come from `CSnowFlake`.
When a socket ends, the receive thread itself removes the client from the online
table and from the registry, concurrently with the task thread.

## Modules

| Module | Models | Notes |
|---|---|---|
| `Rooms` | `CGameServer`, `CGame` | one action per operation of the registry: all are under `CGameServer::m_mtx`. `CGame` functions are operators from room to room. `send_frame` threads are counted per room. |
| `RoomsProofs` | | theorems about `Rooms` |
| `Server` (extends `Rooms`) | `CServerMng`, the accounts, the online table, the menus of the clients | one action per thread and lock section |
| `MCServer` | | instances of `Server`: which accounts a user types |
| `ServerProofs` (extends `RoomsProofs`) | | theorems about `Server`: some under every fault, some until the first failure |
| `Client` | `player_list_menu`, `CEventNotice`, the start of a game | one action per step of the user's and the task thread; the server is the environment |
| `ClientProofs` | | theorems about `Client` |
| `SnowFlake` | `CSnowFlake` | one action per step of `get_sid` between lock, clock, test, update, unlock |
| `SnowFlakeProofs` | | theorems about `SnowFlake` |
| `Fifo` | what `threadsafe_queue` promises | a sequence; each call takes effect at one instant |
| `ThreadsafeQueue` | `threadsafe_queue` | one action per lock, wait or access to a shared node; implements `Fifo` |
| `ThreadsafeQueueProofs` | | theorems about `ThreadsafeQueue` |
| `ThreadPool` | `thread_pool`, `sorter`, `parallel_accumulate_using_thread_pool`, `parallel_accumulate`, `parallel_for_each`, `join_threads` | uses the queue as `Fifo` has it |
| `MCThreadPool` | | the list to sort and to sum |
| `ThreadPoolProofs` | | theorems about `ThreadPool` |
| `RbTree` | the three headers of `rb_tree/` | one model with the fields of all; one action per operation up to its fixup and per round of a fixup |
| `MCRbTree` | | the data and interval ends of the nodes |
| `RbTreeProofs` | | theorems about `RbTree` |
| `Snake` | `CMap`, `CSnake`, the threads of `CGameClient`, the frames of `CGame` | one action per frame sent, received, taken, and per snake moved |
| `MCSnake` | | the options of the two players, symmetry |
| `SnakeProofs` | | theorems about `Snake` |

Names follow the code: `m_mapGame`, `m_mapOlinePlayers`, `DoLogin` for
`do_login`, `RemovePlayer` for `remove_player(cid)` and `RemovePlayerOf` for
`remove_player(gid, cid)`. `PROJECT.json` maps every definition to its lines.

### Rooms

The state is the map from gid to room, the next id, the number of frame threads
whose room is gone, and `status`. Some steps of the code have no defined outcome:
`remove_client` erases `find(client)` of a player who is not in the room,
`remove_game` erases a gid that is not there, a frame thread walks `m_mapGameOpt`
without the lock while a player joins or leaves, and goes on after the room it
belongs to is destroyed; the frame thread of `CGame::start` reads the port through a reference
to a parameter that may be gone (`game.cpp:271`). Such a step sets `status` to `"undefined"` (or, for the
races, may do so), and nothing happens or is claimed after it. `remove_player(cid)`
is modelled as it is written: `remove_client` always returns true, so it acts on
the first room of the map whoever is in it.

### Server

The receive thread is the kqueue one, which the repository's README names. A
handler is one step unless it takes two locks between which another thread can
change what it has read: `do_login` (is online, then enter), `do_request_game_start`
(count, then ready flags), `do_game_start` (list, start, one message per player).
A disconnect is three steps. The two queries of the menus change nothing on the
server and their sender waits for the answer, so each is one step, taken when the
task thread is between requests and the client has nothing of its own queued.
`do_query_room_players` takes two locks, for the owner and for the players: only a disconnect
comes between, and what the menu makes of the two answers is what it makes of both read at one
of the two locks, as the comment at `QueryAnswered` argues.
A client's menu is its `phase`; a request is sent only from the menu that offers
it, with the arguments the menu has. `conn` and `inbox` are the operating system's
side of the sockets: `accept` returns the lowest free number, so numbers are reused.

A request carries two numbers. `id` is the one the code sends: each client draws it from its own
generator, so it grows by 1 to `MaxIdStep` per request (queries use ids up as well) and two
clients may use the same one. All generators have machine number 0, and their
timestamps repeat after about a thousand seconds, as `get_ms_ts` adds the milliseconds to the seconds. `nr` is history: it numbers the requests of all
clients in the order they are sent, and no step looks at it.

What may go wrong is chosen by the instance: a client exits while it waits for
nothing or for a reply, a message arrives in two segments (on a non-blocking
socket `readn` then fails and the server closes the descriptor), and
`WaitNoticeFor` gives up on a request that is under way. The last three are failures:
`failures` counts them, up to `MaxFailures`, and what holds only until the first one says so with
`failures = 0`. An exit between requests is no failure. `Faulty` names the clients that
may exit or give up a wait. `writen` to a peer that is
gone may end the server, nothing handling `SIGPIPE` (`up`).

### Client

The user's thread is at `ui`: in the loop of `player_list_menu` before its query
(`loop`), at its prompt (`menu`), in `WaitNoticeFor` before the promise is there
(`asked`), waiting, or giving up (`timedOut`), in `wait_to_start`, on the way to and in
`m_cv.wait` (`toWait`, `wait`), in the game, before `quit_game_ready` (`quitReady`), or
back in the main menu (`out`). The task thread is idle, in `Notice`, or in `set_start`.
Requests are queued before the promise is inserted, as the code does. The two
erasures of `WaitNoticeFor` take no lock: beside a `Notice`, which sets the value in one step and
unlocks in the next, they set `raced`, or happen
to work. `m_mtx` needs no variable: `game_start` holds it while `ui = "game"`, and
`set_start` for one step. Owners other than this client start games at any time
after the server has seen the player ready. `do_game_start` sends `GAME_START` to the players of the
room that the online table has a descriptor for; whether this one is among them (`room.online`)
is open at the start and does not change.

Two facts about time are assumptions: a request may time out whenever it has no answer,
and the five seconds of `set_start` do not end while the user's thread is between
seeing the flag and `m_cv.wait` (`SecondsPassed`); it looks at the flag every 0.2 seconds.

### SnowFlake

A key keeps its timestamp and serial number; the machine number is constant. The
timestamp is what `get_ms_ts` computes, the seconds plus the milliseconds of the
current second. A call that finds the serial numbers exhausted sleeps until the
clock has moved, unlocks by calling the guard's destructor, and calls itself; each
of the nested guards unlocks once more on return (`pending`).

### ThreadsafeQueue

The list is nodes numbered in the order of linking; `data` and `next` are their
fields. `push` is its lock, the write of `data`, the write of `next`, the write of
`tail` with the unlock, and the notification. A pop is its lock, the test
(which takes `tail_mutex` for one read), and then the pop, an answer, or the wait.
`data_cond.wait` releases the mutex after the test in a step of its own, and may
wake up without a notification. `threadsafe_queue` has no destructor of interest and is
never copied.

The model has a behaviour in which `wait_and_pop` sleeps although there is a value:
`push` changes `tail` and notifies without `head_mutex`, between the test and the
sleep. A later push wakes the sleeper. Nothing in the repository calls
`wait_and_pop`, and no comment promises that it returns, so it is listed under
the hazards and no property is stated.

### ThreadPool

A task is its number (the place of its future in `futures`) and the set of elements it
works on. A thread has a stack of the calls of `do_sort` it is in, because
`run_pending_task` starts another one inside a wait. `std::partition` leaves the
order of the parts open and `do_sort` takes the first element as its pivot: any
element may be the pivot. Reading a future that is not ready and finding the queue
empty change nothing and are not steps. `started` is the pool's threads, as many as
`hardware_concurrency()` answers, which may be none. In mode `"spawn"` there is no pool: each
block but the last gets a thread of its own, started one after the other, and the
number of blocks (`NumThreads`) is what the code computes from the length and from
any answer of `hardware_concurrency()`. `parallel_for_each` differs from `parallel_accumulate` only in
what it does to an element; the sum shows which elements it reached, and how often.

### RbTree

The headers repeat one structure: `rb_tree` keeps the order, `os_tree` also the size of
each subtree, `int_tree` the greatest right end of the intervals below. The model carries all
fields, so each of its operations is that of the three headers at once, and `map` spreads
the definitions over them. The left end of an interval is its data, as in `test.cpp`; there
`remove` of the interval tree, which searches by data while the tree is ordered by the left
end, finds what it looks for. Interval ends are not negative: the sentinel's maximum is 0
(`int_tree_ini.hpp:6`), and with negative ends `GET_MAX_HIGH` would be too high, which costs
`int_search` a turn into a subtree without overlap.

`insert` and `remove` are one step up to their fixup, each round of a fixup is a step. The
mirrored branches are one definition with a side. Reading a field through a null pointer is
the end of the program (`crashed`). Nodes are used again: one that is not in the tree has the
links and the colour a new one is made with, as nothing points to it. Where a removal leaves a
parent in the sentinel, the fixup reads it, and it is forgotten at its end because nothing reads it later.

That no red node has a red child, and that all paths have as many black nodes, is not
stated: the code breaks it after a red uncle, where it goes on to recolour and rotate about
the new grandparent without asking whether its parent is red. What does hold, in balanced
and unbalanced trees alike, is stated: contents, order, ranks, maxima.

### Snake

A client's state is its board (map, overlaps, two snakes), the frames in its socket and
its queue, and the part of a frame its `refresh_thread` has still to carry out. Random draws are
shared: `draws` keeps for the other client the cells one client has already drawn. The repository
does not finish this part: no code puts the snakes into `m_mapSnake`, and `add_gameopt` is called by
nobody. The model takes `m_mapSnake` with a snake of each player on the client's map, and `Options` as
what the queues of `m_mapGameOpt` may hold; the rest is as written.

Three things the code does are outcomes after which a client no longer moves: an index outside
the map (a snake may be put with its second node on the border, and then leaves the map:
`undefined`), a draw of food that never ends because the interior is full (`draws`), and nothing at
all on a border. Frames arrive in order: `szFrameID` is written and never read, so after one
lost datagram the boards differ and nothing brings them together again. `BoardsAgree` is thus about the
lossless, ordered frames of one room; all rooms send to port 10010 (`game.cpp:577`), and frames
of another room that reach a client there are not modelled.

## Runs

| Run | Instance | Shows |
|---|---|---|
| `Rooms` | 3 players, 2 names, 3 gids, 2 frame threads per room (267 152 states) | type, `MapsAgree`, `OwnerIsReadyPlayer`, `NamesUnique`, `OwnerStaysWhilePresent` |
| `Server` | 2 clients, one of them faulty, 2 descriptors, 3 requests, 2 failures of any kind, exits, fair threads (259 617 states) | `OnlineUnique`, `RepliesInRequestOrder` survive every fault; `RequestsAnswered` |
| `ServerGame` | 2 clients, one of them with both accounts, 7 requests, exits, no failure, fair threads (647 541 states) | `SeatHeld`, `LoggedInIsOnline`, `AllPlayersNotified`; `RequestsAnswered` by the handlers that only long runs reach |
| `SnowFlake` | 2 threads, 2 serial numbers, a second of 3 ms, 4 calls, clock to 7 | ids increase until exhaustion for all, always for a single caller |
| `SnowFlakeUnique` | the same | finding: equal ids |
| `Client` | 6 requests, 2 games started by others (307 610 states) | nothing stays in the map, a player at the menu is not ready, every wait ends |
| `ClientStart` | 2 requests, 2 games started by others | finding: an announced game is not entered |
| `ThreadsafeQueue` | 3 threads, 2 values, 3 pushes (1 156 077 states) | the ends of the list stay apart; the queue implements `Fifo` |
| `ThreadPool` | 0 to 2 workers, the list 2 1 2 1 3, blocks of 2 (124 682 states) | right result, each task once, nothing dropped, the caller returns |
| `RbTree` | 8 nodes, two with equal data, intervals of lengths 0 to 5 (390 294 states) | `ContentsKept`, `RanksRight`, `SearchesRight`, `PrintsInOrder` in every tree that operations reach |
| `RbTreeSentinel` | the same | finding: a fixup reads through the sentinel's null child |
| `Snake` | 2 clients, map of 4 by 5, 4 frames, queues of 1 (479 755 states) | `BoardConsistent`, `BodyConnected`, `BoardsAgree` |

Why the bounds are enough. Two players fill a room; the third is the one a full
room refuses, and the next owner after two departures. Three gids allow two rooms
at a time and one that is created after a room has gone. Seven requests are two
logins, create, join, ready, the request to start, and one more (quit, withdraw or
logout); the `GAME_START` the client sends by itself is not counted. Three requests under every
fault (`Server`) are too few for a game; the seven of `ServerGame` give `RequestsAnswered` a room of two, one that is
gone, players that get ready and withdraw, starts granted and refused, a name in use, logout, quitting, and
players told that their game starts. Two answers are not reached by either run: a full room refuses a third
player (two clients fill it; the registry's part of it is in `Rooms`), and `GAME_READY` or `QUIT_GAME_READY`
for a room that is gone. In `ServerGame` one client has the other's account too, so that
somebody may log in as the one who is leaving; when both exit, a room goes while its frame thread runs. Two
descriptors for two clients let one be used again. A second of three milliseconds
makes the timestamp fall back twice within the clock's bound. Three threads are two at
one end of the queue and one at the other, three pushes let the list be empty, hold one
value and hold more. Five elements with blocks of two are two full blocks and a rest. Six requests
of a client are two rounds of query, ready and withdraw, so a late answer, a flag or a
promise of the first round can meet the second. In the pool, the caller and two workers can all be waiting in `do_sort` at the same time. With eight nodes the trees lose
their balance and a removal then meets the sentinel, which takes twelve operations; equal data go right, and a rotation
may bring them to either side. In `Server` one faulty client suffices to inherit a descriptor from or to
leave one to the other; the other stays so that an answer is owed to somebody. The board of 4 by 5 has an
interior of six cells: two snakes and the food fill it, so crossings, growth, the border and the full board
all come within four frames; a client can be three frames ahead of the other's board.

Which fault breaks what: `SeatHeld`, `LoggedInIsOnline` and `AllPlayersNotified` are about the menus of
clients whose requests are answered in time. With an early timeout the client
leaves a menu while its request is still executed, with a split message its
connection is gone and its online entry stays, and the requests of a client that dies with one under way
are still executed: its LOGIN may be entered on a descriptor another client has by then. The three
properties may then fail, by the code's design of 10 ms waits, and they are therefore stated until the
first of these failures; clients may exit between requests, at any step of the others. `SeatHeld` leaves out the gid 2^64-1 that `do_create_room` answers for a
name in use (the test `gid < 0` at `server.cpp:1174` is on an unsigned value).

`Rooms`, `Server`, `Client`, `SnowFlake`, `ThreadPool`, `RbTree` and `Snake` come to rest (a step without
an outcome was taken, clients have exited, bounds are reached, the algorithm has returned), so their runs do
not check for deadlock; that the server never stops answering is `RequestsAnswered`, that
the pool does not block is `AlgorithmReturns`. The run of `ThreadsafeQueue` checks for
deadlock: its callers can always call again.

### Fairness

`FairServerSpec` assumes weak fairness of the receive thread, the task thread and
the send thread. Each is an endless loop started by `init_thread`
(`server.cpp:950-972`) that blocks only for work. Nothing is assumed of clients, of
`accept`, or of the order of a thread's work. `ClientSpec` assumes it of the client's two
threads and of the server that answers; the user, the other players and spurious wakeups
are not fair. `PoolSpec` assumes weak fairness of
each thread that was started and of the caller: they spin with `yield`, so the scheduler
runs them. Which pending task a thread gets is the queue's order.

## Proofs

Every theorem holds for every value of the constants that satisfies the module's
`ASSUME`s: any number of players, clients, descriptors, threads, frames, any size of the map.
TLC has checked each inductive invariant on the instance of the run first (`TreeInv` with `sub` computed from the links).

| Module | Theorems state | Assumptions |
|---|---|---|
| `RoomsProofs` | type, `MapsAgree`, `OwnerIsReadyPlayer`, `NamesUnique`, `OwnerStaysWhilePresent` | player ids are positive, gids natural numbers |
| `ServerProofs` | type, `OnlineUnique`, `RepliesInRequestOrder`, under every fault; `LoggedInIsOnline`, `SeatHeld`, `AllPlayersNotified`, until the first failure | descriptors are positive, and there is one; the test accounts of `server.cpp:907-930` are distinct |
| `ClientProofs` | `NothingLeftBehind`, `FlagMeansNotification`, `MenuMeansNotReady` | the bounds are natural numbers |
| `SnowFlakeProofs` | type, `IncreasingUntilExhausted`, `IncreasingForOneCaller` | a serial number and a millisecond at least; any set of threads |
| `ThreadsafeQueueProofs` | type, `HeadAndTailApart`, the queue implements `Fifo` | threads are finitely many; `NoValue` is no value, `NoThread` no thread |
| `ThreadPoolProofs` | `EachTaskOnce`, `NothingLeftAtShutdown`, `ResultRight` | the list is not empty, workers are finitely many, a block has an element at least |
| `SnakeProofs` | type, `BoardConsistent`, `BodyConnected`, `BoardsAgree` | the map is at least 4 by 4 |
| `RbTreeProofs` | type, `ContentsKept`, `RanksRight`, `SearchesRight`, `PrintsInOrder` | finitely many nodes; data and interval ends are natural numbers, no interval ends before it begins |

**Rooms.** The inductive invariant `RoomsInv` is the conjunction of the four state
properties: none is inductive alone. That the owner is ready needs that the two maps agree
(else `set_room_owner` could name a player without a flag); that they agree needs the type;
that names are unique needs that a new gid is above all others, which is part of the type.
The proofs have one lemma for what each room operator preserves and one step per action.

**Server.** `ServerInv` joins to `RoomsInv` what the tables, the connections, the messages
and the handler under way are. Two conjuncts carry the weight: `TaskOK` says that between the
two lock sections of `do_login` the client is still not online (only the task thread enters
clients; the receive thread only removes them), and `NetOK` that a descriptor is queued or watched
once and is open while the receive thread works on it. Order of replies has an invariant of its own,
`OrderInv`: the messages of a descriptor are in order within the reply queue, the handler, the
task queue and the socket, and each of the four comes before the next. `OrderInv` is about `nr`: the
ids of two clients that share a descriptor one after the other need not be in any order.

`SessionInv` holds while `failures = 0`: the first failure is a step after which nothing of it is
claimed, so no constant has to be restricted. It says that a client has one request under way at most, that what is under way is what
it waits for, and what the online table holds for its descriptor at each stage of it. `SeatInv` adds
that a reply to a request that entered a room is true of the room, and `LeaverAway`: the account of the
client whose end of file the receive thread has met is in no room under another descriptor, and nothing
delivered will bring it into one. That is so because the receive thread delivers nothing between the
end of file and the close; with a second receive thread, a client that logs in meanwhile with
the same account could lose its seat to the `remove_player` of the one that left. `AllPlayersNotified` follows at
the step that passes a player over (`PassedOver`): its `get_sockfd` found no descriptor, and `SessionInv` has one for
everybody whom the menus show in a room.

**Client.** `ClientInv` adds to the properties that a player who is ready and not the owner has a
withdrawal under way or still to be asked for at its place in the program (`ReadyIsWithdrawn`): the
request to be ready may still be on its way when the withdrawal is sent, so the invariant speaks of
the order of the requests in the queue.

**SnowFlake.** While nobody has slept, at most one thread is between lock and unlock, the key
is the last one issued, and the timestamp read is still the current one when it is compared.
After a double unlock the first of these is lost, but where one thread alone has called, it is not needed:
`CallerInv` states the others for a single caller, through any number of exhaustions and nested calls.

**ThreadsafeQueue.** The inductive invariant joins to the types
`MutexesHeld` (a thread is in a critical section exactly when it holds the mutex),
`ListLinked` (every node before the dummy has its value and its link, the dummy as far
as the pusher got), `CallsConsistent` (what a call has read so far; a thread about to pop
has seen a value, and since only it moves `head`, there still is one) and
`PushesCounted` (nodes plus pushes under way are the pushes, so there is a node for
the next dummy). In the refinement `SetTail` is `Enqueue`, `PopHead` is `Dequeue`, an answer
of `Test` is `Look`, and everything else that changes no variable of `Fifo` is a stutter.

**ThreadPool.** `PoolInv` says where tasks are and what they are worth. `QueueOK`, `CallsOK` and `NoneLost`
give `EachTaskOnce`: what is queued or run is unfinished, at one place, and what is unfinished is queued or run.
`StacksOK` is about `run_pending_task` inside a wait: a call below another is in its own call of `do_sort` or
waits, and every call of a thread waits for a task younger than the thread's first. With `Awaited` (somebody
waits for each unfinished task) this gives `NothingLeftAtShutdown` (`CallerWaits`): whoever waits for the
oldest unfinished task is in a thread whose first call is the caller's, since a worker's first task would be
older and unfinished. So the caller is still in its call. This takes the least element of a set of numbers; the
library has it without an operator parameter for well-founded relations, and `EveryNumber` is the induction
drawn from it. The last conjunct gives `ResultRight`: for some list `given` of what each task
was submitted with, every queued or running chunk is the one given, every future that is ready has the right
value for it, and each call still holds the parts its waits are for. `given` is quantified instead of stored.
The values rest on two facts about data: `MergeSorts` (lower part, pivot, higher part is a sorted list of all) and
`SumsAdd` (the sum of disjoint blocks is the sum of the sums, from the fold's definition in the
community modules through `SumIsTotal`).

**Snake.** That caught-up clients agree is no invariant of two boards: while one is ahead, nothing
relates them. `SnakeInv` says that there is one history of the board for all clients: the frames
sent, the draws made, and the list of states the foremost client has passed through, each following
from the one before by the next option of the next frame. Every client is in one of these states, and
what its socket, queue, frame and `draws` still hold is the rest of the frames and draws after it. The next
state is determined by them (`FollowsOnce`), so a client behind finds its next state in the history, and only
the foremost one adds to it, and may choose a draw. Every state of the history is a good
board: `Counted` (overlaps and map agree with the nodes, proved once for each of cover, append,
prepend, leave and shift by counting the positions of a cell), connected snakes, and one food unless the
draw never ends. The invariant quantifies over the history instead of storing it in variables.

**RbTree.** The laws (`HasLaws`) are about the links and a function `sub` that gives each node the set of nodes
from it downward: those of a node are the node and the disjoint sets of its children, who is a child has the
parent and who has a parent is its child; one tree hangs from the root, every other node is alone; what is on
either side of a node is on that side of it in order; a size is the number of the set, a maximum is the
greatest of the node's and its children's. `sub` is quantified, so each operation has to give a new one:
a rotation changes it at two nodes (`RotateShape`), an insertion above the new node (`AttachKeeps`). A removal
with two children is proved as two steps the code does not separate, the successor lifted out of its place
(`LiftShape`) and put under the links of the node removed (`SubstituteShape`); `ReplacementIs` shows that
the transplants and assignments of the code amount to that, also where the successor is the right child itself.
Before the walk upward, sizes and maxima are right except above the change (`Stale`); `RepairUpward` is the walk,
and the sentinel's parent, which the removal has set, is where it starts. `TreeInv` adds to the laws what
the colours say of where a fixup may be (`FixupsPlaced`): the root is black at rest and while a fixup goes on,
so a red parent has a parent, and a removal's fixup is at a node with one unless it is at the root. No more
is needed of the colours, which is as well, since the code does not keep their rules. A step that meets the null pointer
leaves a tree with the laws.

What the code computes from a tree is recursive in the model. Structural induction is a fact about sets of
nodes (`Downward`, `UpwardInduction`, from the least number of a set, as in `EveryNumber`), and that a
recursive definition has a value at all is `Recursion`: a functional that asks only for values of smaller rank
has a fixed point. From there, the list of a subtree is in order and holds its nodes once (`ListRight`), a
node's rank in it is the size of its left subtree plus one (`RanksFound`), a search turns to the only side where what it looks for
can be, or to one where an overlap is (`OverlapFinds`: if the left subtree reaches as far as `low` and has no
overlap, nothing to the right has one either). For the loop of `in_order`, each node has a place
in the list with those below it around it (`Placed`); the invariant `Walked` says that the nodes on the stack
are those whose place comes right after all that is below the next, and counts the rounds: two for each node
printed and one for each on the stack. So the loop has ended when the model's bound of three rounds per node is reached.

Only model-checked: everything temporal under fairness (`RequestsAnswered`, `AlgorithmReturns`, the waits of the
client), which the prover does not treat.

## Findings

Three runs end with a counterexample: `ClientStart` (an announced game is not entered), `SnowFlakeUnique` (two
calls get one id) and `RbTreeSentinel` (the tree crashes after twelve legal operations).

Four more defects are in the models without a run of their own:

- A start may be granted to a room with one player: `do_request_game_start` counts the players under one lock and
  reads their flags under the next, and a disconnect in between leaves the owner alone, who is ready
  (`DoRequestGameStart`, `RecvRemovePlayer`, `AnswerGameStart`). A frame of one queue of options carries an option nobody
  gave (`game.cpp:428-437`).
- A second login on one connection, after one that timed out, leaves the first client in the online table: the player is
  passed over when its game starts (`Online`, `NotifyPlayer`; in `Client`, `room.online` is false).
- Ids of two clients may coincide, and a client then takes the reply to another that died on its descriptor (`NextIds`).
- `get_ms_ts` falls back at the end of each second, so
  the calls of a whole second may share the serial numbers meant for one millisecond.

## Plan

1. `FtpPool`: dispatch of tasks over a pipe to the list of a worker.

## Not modelled

- The epoll variants of the server's threads (the repository's README names kqueue), multicast and
  broadcast of addresses, heartbeat and chat messages (no operations), JSON that does not
  parse (clients always send what parses).
- Of the snake: drawing, the keyboard loop (its queue has no reader), the end of a game, after
  which `refresh_thread` may wait for a frame for ever, and a second game, whose snakes are
  added to those of the first.
- The recursive `parallel_accumulate_r` and `parallel_for_each_r`: the first cannot be instantiated (it
  passes `func()` and too few arguments), and nothing calls the second.
- Coroutines: one thread, and a state of saved stacks and contexts that has no abstraction
  short of the machine. Resuming inside a coroutine fails the assertion at `coro.h:97`.
- The FTP server: its steps are callbacks of libevent, which is not in the repository; planned.
- The memory order programs: what they show are the orderings of C++ atomics, which the
  interleavings of a specification do not have.
- Practice algorithms and string helpers: sequential functions without state, unrelated to each
  other, which unit tests reach.
- The demonstrations listed in the inventory: calls into libraries, without state of their own.
