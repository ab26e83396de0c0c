---------------------------- MODULE RoomsProofs -----------------------------
(***************************************************************************)
(* Proofs about Rooms, for every set of clients, names and room ids.  The  *)
(* inductive invariant is RoomsInv, the conjunction of the invariants the  *)
(* rooms run checks.  It is restated as a predicate on the map             *)
(* (RegistryOK), so that what an operation of CGame does to one room and   *)
(* what an operation of CGameServer does to the map are separate lemmas.   *)
(***************************************************************************)
EXTENDS Rooms, FiniteSetTheorems, TLAPS

\* Type, agreement of the two maps, ready owner and unique names, together.
RoomsInv == RoomsTypeOK /\ MapsAgree /\ OwnerIsReadyPlayer /\ NamesUnique

\* The part of RoomsInv that speaks of one room.
GoodRoom(r) ==
  /\ r \in Room
  /\ r.m_mapGameOpt # {}
  /\ IsFiniteSet(r.m_mapGameOpt)
  /\ Cardinality(r.m_mapGameOpt) <= RoomCapacity
  /\ DOMAIN r.m_mapGameReady = r.m_mapGameOpt
  /\ r.m_roomOwner \in r.m_mapGameOpt
  /\ r.m_mapGameReady[r.m_roomOwner] = 1

\* The part of RoomsInv that speaks of the map m, sid being the next id.
RegistryOK(m, sid) ==
  /\ DOMAIN m \subseteq Gids
  /\ m = [g \in DOMAIN m |-> m[g]]
  /\ \A g \in DOMAIN m : GoodRoom(m[g]) /\ g < sid
  /\ \A g, h \in DOMAIN m : m[g].m_strRoomName = m[h].m_strRoomName => g = h

-----------------------------------------------------------------------------
(* Facts about the operators.                                              *)

\* A non-empty set of naturals has a least element: std::map::begin() is
\* defined on a map that is not empty.
LEMMA MinOfNaturals ==
  ASSUME NEW S, S \subseteq Nat, S # {}
  PROVE  Min(S) \in S
<1>1. PICK x \in S : \A y \in S : ~(<<y, x>> \in OpToRel(<, Nat))
  BY NatLessThanWellFounded, WFMin
<1>2. \A y \in S : ~(y < x)
  BY <1>1, Zenon DEF OpToRel
<1>3. \A y \in S : x <= y
  BY <1>2
<1>4. QED
  BY <1>3 DEF Min

\* A ready map stays a ready map when an entry is inserted or assigned.
LEMMA ReadyMapUpdates ==
  ASSUME NEW ready \in ReadyMaps, NEW c \in Cids, NEW v \in {0, 1}
  PROVE  /\ InsertReady(ready, c, v) \in ReadyMaps
         /\ AssignReady(ready, c, v) \in ReadyMaps
         /\ DOMAIN InsertReady(ready, c, v) = DOMAIN ready \cup {c}
         /\ DOMAIN AssignReady(ready, c, v) = DOMAIN ready \cup {c}
<1>1. PICK D \in SUBSET Cids : ready \in [D -> {0, 1}]
  BY DEF ReadyMaps
<1>2. D \cup {c} \in SUBSET Cids
  OBVIOUS
<1>3. /\ InsertReady(ready, c, v) \in [D \cup {c} -> {0, 1}]
      /\ AssignReady(ready, c, v) \in [D \cup {c} -> {0, 1}]
  BY <1>1 DEF InsertReady, AssignReady
<1>4. QED
  BY <1>1, <1>2, <1>3 DEF ReadyMaps

\* add_client keeps a room well formed, with its name and its owner.
LEMMA AddClientGood ==
  ASSUME NEW r, GoodRoom(r), NEW c \in Cids
  PROVE  /\ GoodRoom(AddClient(r, c))
         /\ AddClient(r, c).m_strRoomName = r.m_strRoomName
         /\ AddClient(r, c).m_roomOwner = r.m_roomOwner
<1>1. CASE IsFull(r)
  BY <1>1 DEF AddClient
<1>2. CASE ~IsFull(r)
  <2> DEFINE opt == r.m_mapGameOpt \cup {c}
             ready == InsertReady(r.m_mapGameReady, c, 0)
             s == [r EXCEPT !.m_mapGameOpt = opt, !.m_mapGameReady = ready]
  <2>1. AddClient(r, c) = s
    BY <1>2 DEF AddClient, GoodRoom, Room
  <2>2. ready \in ReadyMaps /\ DOMAIN ready = opt
    BY ReadyMapUpdates DEF GoodRoom, Room
  <2>3. IsFiniteSet(opt) /\ Cardinality(opt) <= RoomCapacity
    <3>1. /\ IsFiniteSet(opt)
          /\ Cardinality(opt) <= Cardinality(r.m_mapGameOpt) + 1
      BY FS_AddElement, FS_CardinalityType DEF GoodRoom
    <3>2. Cardinality(r.m_mapGameOpt) \in Nat /\ Cardinality(opt) \in Nat
      BY <3>1, FS_CardinalityType DEF GoodRoom
    <3>3. QED
      BY <1>2, <3>1, <3>2 DEF GoodRoom, IsFull, RoomCapacity
  <2>4. ready[r.m_roomOwner] = 1
    BY DEF GoodRoom, InsertReady
  <2>5. s \in Room
    BY <2>2 DEF GoodRoom, Room
  <2> HIDE DEF ready, opt
  <2>6. /\ s.m_mapGameOpt = opt
        /\ s.m_mapGameReady = ready
        /\ s.m_roomOwner = r.m_roomOwner
        /\ s.m_strRoomName = r.m_strRoomName
    BY DEF GoodRoom, Room
  <2>7. r.m_roomOwner \in opt /\ opt # {}
    BY DEF GoodRoom, opt
  <2> HIDE DEF s
  <2>8. QED
    BY <2>1, <2>2, <2>3, <2>4, <2>5, <2>6, <2>7 DEF GoodRoom
<1>3. QED
  BY <1>1, <1>2

\* ready and quit_ready keep a room well formed, with its name and its owner.
LEMMA ReadyGood ==
  ASSUME NEW r, GoodRoom(r), NEW c \in Cids
  PROVE  /\ GoodRoom(ReadyUp(r, c)) /\ GoodRoom(QuitReady(r, c))
         /\ ReadyUp(r, c).m_strRoomName = r.m_strRoomName
         /\ QuitReady(r, c).m_strRoomName = r.m_strRoomName
         /\ ReadyUp(r, c).m_roomOwner = r.m_roomOwner
         /\ QuitReady(r, c).m_roomOwner = r.m_roomOwner
<1>1. PICK D \in SUBSET Cids : r.m_mapGameReady \in [D -> {0, 1}]
  BY DEF GoodRoom, Room, ReadyMaps
<1>2. ASSUME NEW v \in {0, 1}, c \in D, c = r.m_roomOwner => v = 1
      PROVE  LET s == [r EXCEPT !.m_mapGameReady[c] = v]
             IN  /\ GoodRoom(s)
                 /\ s.m_strRoomName = r.m_strRoomName
                 /\ s.m_roomOwner = r.m_roomOwner
  <2> DEFINE ready == [r.m_mapGameReady EXCEPT ![c] = v]
             s == [r EXCEPT !.m_mapGameReady = ready]
  <2>1. ready \in [D -> {0, 1}]
    BY <1>1
  <2>2. ready \in ReadyMaps
    BY <2>1 DEF ReadyMaps
  <2>3. ready[r.m_roomOwner] = 1 /\ DOMAIN ready = DOMAIN r.m_mapGameReady
    BY <1>1, <1>2, <2>1 DEF GoodRoom
  <2> HIDE DEF ready
  <2>4. GoodRoom(s) /\ s.m_strRoomName = r.m_strRoomName /\ s.m_roomOwner = r.m_roomOwner
    BY <2>2, <2>3 DEF GoodRoom, Room
  <2>5. QED
    BY <2>4 DEF ready, GoodRoom, Room
<1>3. QED
  BY <1>1, <1>2 DEF ReadyUp, QuitReady

\* After a player has left, the room that is not empty is well formed again.
LEMMA LeavingGood ==
  ASSUME NEW r, GoodRoom(r), NEW c, CanRemove(r, c),
         RemoveClient(r, c).m_mapGameOpt # {}
  PROVE  LET s == AfterLeaving(RemoveClient(r, c), c)
         IN  /\ GoodRoom(s)
             /\ s.m_strRoomName = r.m_strRoomName
             /\ s.m_roomOwner # r.m_roomOwner => r.m_roomOwner \notin s.m_mapGameOpt
<1> DEFINE opt == r.m_mapGameOpt \ {c}
           ready == [x \in DOMAIN r.m_mapGameReady \ {c} |-> r.m_mapGameReady[x]]
           t == [r EXCEPT !.m_mapGameOpt = opt, !.m_mapGameReady = ready]
           first == Min(opt)
           ready1 == AssignReady(ready, first, 1)
           u == [t EXCEPT !.m_roomOwner = first, !.m_mapGameReady = ready1]
<1>1. RemoveClient(r, c) = t
  BY DEF RemoveClient, GoodRoom, Room
<1>2. PICK D \in SUBSET Cids : r.m_mapGameReady \in [D -> {0, 1}]
  BY DEF GoodRoom, Room, ReadyMaps
<1>3. ready \in ReadyMaps /\ DOMAIN ready = opt
  <2>1. ready \in [D \ {c} -> {0, 1}]
    BY <1>2
  <2>2. QED
    BY <1>2, <2>1 DEF ReadyMaps, GoodRoom
<1>4. opt # {} /\ opt \subseteq Cids
  BY <1>1 DEF GoodRoom, Room
<1>5. IsFiniteSet(opt) /\ Cardinality(opt) <= RoomCapacity
  <2>1. IsFiniteSet(opt) /\ Cardinality(opt) <= Cardinality(r.m_mapGameOpt)
    BY FS_Subset DEF GoodRoom
  <2>2. Cardinality(opt) \in Nat /\ Cardinality(r.m_mapGameOpt) \in Nat
    BY <2>1, FS_CardinalityType DEF GoodRoom
  <2>3. QED
    BY <2>1, <2>2 DEF GoodRoom, RoomCapacity
<1>6. t \in Room /\ t.m_mapGameOpt = opt /\ t.m_mapGameReady = ready
      /\ t.m_roomOwner = r.m_roomOwner /\ t.m_strRoomName = r.m_strRoomName
  BY <1>3, <1>4 DEF GoodRoom, Room
<1>7. CASE r.m_roomOwner = c
  <2>1. first \in opt /\ first \in Cids
    BY <1>4, MinOfNaturals, CidsAssumption
  <2>2. ready1 \in ReadyMaps /\ DOMAIN ready1 = opt
    BY <1>3, <2>1, ReadyMapUpdates
  <2>3. ready1[first] = 1
    BY DEF AssignReady
  <2>4. AfterLeaving(t, c) = u
    BY <1>4, <1>6, <1>7 DEF AfterLeaving, SetRoomOwner
  <2>5. /\ u \in Room /\ u.m_mapGameOpt = opt /\ u.m_mapGameReady = ready1
        /\ u.m_roomOwner = first /\ u.m_strRoomName = r.m_strRoomName
    <3> HIDE DEF ready1, opt, ready, first
    <3>1. QED
      BY <1>6, <2>1, <2>2 DEF Room
  <2>6. r.m_roomOwner \notin opt
    BY <1>7
  <2> HIDE DEF u, ready1, first, opt, t
  <2>7. QED
    BY <1>1, <1>4, <1>5, <2>1, <2>2, <2>3, <2>4, <2>5, <2>6 DEF GoodRoom
<1>8. CASE r.m_roomOwner # c
  <2>1. AfterLeaving(t, c) = t
    BY <1>6, <1>8 DEF AfterLeaving
  <2>2. r.m_roomOwner \in opt /\ ready[r.m_roomOwner] = 1
    BY <1>8 DEF GoodRoom
  <2> HIDE DEF t, opt, ready
  <2>3. QED
    BY <1>1, <1>3, <1>4, <1>5, <1>6, <2>1, <2>2 DEF GoodRoom
<1>9. QED
  BY <1>7, <1>8

\* The room create_game makes is well formed and carries the name.
LEMMA NewRoomGood ==
  ASSUME NEW name \in Names, NEW c \in Cids
  PROVE  /\ GoodRoom(NewRoom(name, c)) /\ NewRoom(name, c).m_strRoomName = name
         /\ NewRoom(name, c).m_mapGameOpt = {c}
<1> DEFINE e == EmptyRoom(name)
           ready0 == InsertReady([x \in {} |-> 0], c, 0)
           a == [e EXCEPT !.m_mapGameOpt = {c}, !.m_mapGameReady = ready0]
           ready1 == AssignReady(ready0, c, 1)
           o == [a EXCEPT !.m_roomOwner = c, !.m_mapGameReady = ready1]
<1>1. AddClient(e, c) = a
  <2>1. ~IsFull(e)
    BY FS_EmptySet DEF IsFull, EmptyRoom, RoomCapacity
  <2>2. {} \cup {c} = {c}
    OBVIOUS
  <2>3. QED
    BY <2>1, <2>2 DEF AddClient, EmptyRoom
<1>2. a.m_mapGameOpt = {c} /\ a.m_mapGameReady = ready0
  BY DEF EmptyRoom
<1>3. Min({c}) = c
  BY MinOfNaturals, CidsAssumption
<1>4. SetRoomOwner(a) = o
  BY <1>2, <1>3 DEF SetRoomOwner
<1>5. ready1 \in [{c} -> {0, 1}] /\ ready1[c] = 1
  BY DEF AssignReady, InsertReady
<1>6. ready1 \in ReadyMaps
  BY <1>5 DEF ReadyMaps
<1>7. IsFiniteSet({c}) /\ Cardinality({c}) = 1
  BY FS_Singleton
<1> HIDE DEF ready1
<1>8. GoodRoom(o) /\ o.m_strRoomName = name /\ o.m_mapGameOpt = {c}
  <2>1. /\ o.m_mapGameOpt = {c} /\ o.m_mapGameReady = ready1 /\ o.m_roomOwner = c
        /\ o.m_strRoomName = name /\ o \in Room
    BY <1>6 DEF EmptyRoom, Room
  <2>2. DOMAIN ready1 = {c}
    BY <1>5
  <2> HIDE DEF o
  <2>3. QED
    BY <1>5, <1>7, <2>1, <2>2 DEF GoodRoom, RoomCapacity
<1>9. NewRoom(name, c) = ReadyUp(o, c)
  BY <1>1, <1>4 DEF NewRoom
<1> HIDE DEF o
<1>10. ReadyUp(o, c).m_mapGameOpt = o.m_mapGameOpt
  BY <1>8 DEF ReadyUp, GoodRoom, Room
<1>11. QED
  BY <1>8, <1>9, <1>10, ReadyGood

-----------------------------------------------------------------------------
(* Facts about the map.                                                    *)

\* Putting a well-formed room of the same name in the place of another.
LEMMA ReplaceRoom ==
  ASSUME NEW m, NEW sid, RegistryOK(m, sid), NEW g \in DOMAIN m, NEW r,
         GoodRoom(r), r.m_strRoomName = m[g].m_strRoomName
  PROVE  RegistryOK([m EXCEPT ![g] = r], sid)
BY DEF RegistryOK

\* Erasing a room.
LEMMA DropRoom ==
  ASSUME NEW m, NEW sid, RegistryOK(m, sid), NEW g
  PROVE  RegistryOK([h \in DOMAIN m \ {g} |-> m[h]], sid)
BY DEF RegistryOK

\* Inserting a well-formed room of a new name at the next id.
LEMMA InsertRoom ==
  ASSUME NEW m, NEW sid \in Nat, RegistryOK(m, sid), sid \in Gids, NEW r, GoodRoom(r),
         \A g \in DOMAIN m : m[g].m_strRoomName # r.m_strRoomName
  PROVE  RegistryOK([g \in DOMAIN m \cup {sid} |-> IF g = sid THEN r ELSE m[g]], sid + 1)
<1> DEFINE n == [g \in DOMAIN m \cup {sid} |-> IF g = sid THEN r ELSE m[g]]
<1>1. \A g \in DOMAIN n : GoodRoom(n[g]) /\ g < sid + 1
  BY GidsAssumption DEF RegistryOK
<1>2. \A g, h \in DOMAIN n : n[g].m_strRoomName = n[h].m_strRoomName => g = h
  BY DEF RegistryOK
<1>3. QED
  BY <1>1, <1>2 DEF RegistryOK

\* A larger next id.
LEMMA LaterSid ==
  ASSUME NEW m, NEW sid \in Nat, RegistryOK(m, sid)
  PROVE  RegistryOK(m, sid + 1)
BY GidsAssumption DEF RegistryOK

\* RoomsInv is RegistryOK and the types of the other variables.
LEMMA InvRestated ==
  RoomsInv <=> /\ nextSid \in Nat
               /\ status \in {"running", "undefined"}
               /\ orphanFrames \in Nat
               /\ RegistryOK(m_mapGame, nextSid)
BY DEF RoomsInv, RoomsTypeOK, MapsAgree, OwnerIsReadyPlayer, NamesUnique,
       RegistryOK, GoodRoom

-----------------------------------------------------------------------------
(* The invariant.                                                          *)

\* Every step of the registry keeps RoomsInv.
LEMMA RoomsInvStep == RoomsInv /\ [RoomsNext]_roomsVars => RoomsInv'
<1> SUFFICES ASSUME RoomsInv, [RoomsNext]_roomsVars PROVE RoomsInv'
  OBVIOUS
<1>1. /\ nextSid \in Nat
      /\ status \in {"running", "undefined"}
      /\ orphanFrames \in Nat
      /\ RegistryOK(m_mapGame, nextSid)
  BY InvRestated
<1> DEFINE InvNext == /\ nextSid' \in Nat
                      /\ status' \in {"running", "undefined"}
                      /\ orphanFrames' \in Nat
                      /\ RegistryOK(m_mapGame', nextSid')
<1>2. SUFFICES InvNext
  BY DEF RoomsInv, RoomsTypeOK, MapsAgree, OwnerIsReadyPlayer, NamesUnique,
         RegistryOK, GoodRoom
<1>3. \A g \in DOMAIN m_mapGame :
        /\ GoodRoom(m_mapGame[g])
        /\ m_mapGame[g].sendFrames \in Nat
        /\ RaceOutcome(g) \subseteq {"running", "undefined"}
  BY <1>1 DEF RegistryOK, GoodRoom, Room, RaceOutcome
<1>4. ASSUME NEW g \in DOMAIN m_mapGame, NEW c, RemoveFromRoom(g, c), UNCHANGED nextSid
      PROVE  /\ status' \in {"running", "undefined"}
             /\ orphanFrames' \in Nat
             /\ RegistryOK(m_mapGame', nextSid)
  <2>1. CASE ~CanRemove(m_mapGame[g], c)
    BY <1>1, <1>4, <2>1 DEF RemoveFromRoom
  <2>2. CASE CanRemove(m_mapGame[g], c) /\ RemoveClient(m_mapGame[g], c).m_mapGameOpt = {}
    BY <1>1, <1>3, <1>4, <2>2, DropRoom DEF RemoveFromRoom, EraseRoom
  <2>3. CASE CanRemove(m_mapGame[g], c) /\ RemoveClient(m_mapGame[g], c).m_mapGameOpt # {}
    <3>1. /\ m_mapGame' = [m_mapGame EXCEPT
                             ![g] = AfterLeaving(RemoveClient(m_mapGame[g], c), c)]
          /\ orphanFrames' = orphanFrames /\ status' \in RaceOutcome(g)
      BY <1>4, <2>3 DEF RemoveFromRoom
    <3>2. /\ GoodRoom(AfterLeaving(RemoveClient(m_mapGame[g], c), c))
          /\ AfterLeaving(RemoveClient(m_mapGame[g], c), c).m_strRoomName
               = m_mapGame[g].m_strRoomName
      BY <1>3, <2>3, LeavingGood
    <3>3. RegistryOK(m_mapGame', nextSid)
      BY <1>1, <3>1, <3>2, ReplaceRoom
    <3>4. status' \in {"running", "undefined"} /\ orphanFrames' \in Nat
      BY <1>1, <1>3, <3>1
    <3>5. QED
      BY <3>3, <3>4
  <2>4. QED
    BY <2>1, <2>2, <2>3
<1>5. ASSUME NEW c \in Cids, NEW name \in Names, CreateGame(c, name)
      PROVE  InvNext \* create_game
  <2>1. RegistryOK(m_mapGame, nextSid + 1)
    BY <1>1, LaterSid
  <2>2. CASE IsGameNameExisted(name) \/ nextSid \in DOMAIN m_mapGame
    BY <1>1, <1>5, <2>1, <2>2 DEF CreateGame, NewGid
  <2>3. CASE ~IsGameNameExisted(name) /\ nextSid \notin DOMAIN m_mapGame
    <3>1. \A g \in DOMAIN m_mapGame :
            m_mapGame[g].m_strRoomName # NewRoom(name, c).m_strRoomName
      BY <2>3, NewRoomGood DEF IsGameNameExisted
    <3>2. RegistryOK(m_mapGame', nextSid + 1)
      BY <1>1, <1>5, <2>3, <3>1, NewRoomGood, InsertRoom DEF CreateGame, NewGid
    <3>3. QED
      BY <1>1, <1>5, <3>2 DEF CreateGame, NewGid
  <2>4. QED
    BY <2>2, <2>3
<1>6. ASSUME NEW g \in Gids, NEW c \in Cids, AddGamePlayer(g, c)
      PROVE  InvNext
  BY <1>1, <1>3, <1>6, AddClientGood, ReplaceRoom DEF AddGamePlayer
<1>7. ASSUME NEW g \in Gids, NEW c \in Cids, GameReady(g, c) \/ QuitGameReady(g, c)
      PROVE  InvNext
  BY <1>1, <1>3, <1>7, ReadyGood, ReplaceRoom DEF GameReady, QuitGameReady
<1>8. ASSUME NEW g \in Gids, NEW c \in Cids, RemovePlayerOf(g, c)
      PROVE  InvNext
  BY <1>1, <1>4, <1>8 DEF RemovePlayerOf
<1>9. ASSUME NEW c \in Cids \cup {-1}, RemovePlayer(c)
      PROVE  InvNext
  <2>1. DOMAIN m_mapGame # {} => Min(DOMAIN m_mapGame) \in DOMAIN m_mapGame
    BY <1>1, MinOfNaturals, GidsAssumption DEF RegistryOK
  <2>2. QED
    BY <1>1, <1>4, <1>9, <2>1 DEF RemovePlayer
<1>10. ASSUME NEW g \in Gids, GameStart(g) \/ GameOver(g) \/ FrameThreadExit(g)
       PROVE  InvNext
  <2>1. CASE g \notin DOMAIN m_mapGame
    BY <1>1, <1>10, <2>1 DEF GameStart, GameOver, FrameThreadExit
  <2>2. ASSUME g \in DOMAIN m_mapGame, NEW b \in BOOLEAN, NEW n \in Nat
        PROVE  LET r == [m_mapGame[g] EXCEPT !.m_bExitSendFrame = b, !.sendFrames = n]
               IN  GoodRoom(r) /\ r.m_strRoomName = m_mapGame[g].m_strRoomName
    BY <1>3, <2>2 DEF GoodRoom, Room
  <2>3. CASE g \in DOMAIN m_mapGame
    <3> DEFINE r == m_mapGame[g]
               With(b, n) == [r EXCEPT !.m_bExitSendFrame = b, !.sendFrames = n]
    <3>1. PICK b \in BOOLEAN, n \in Nat : m_mapGame' = [m_mapGame EXCEPT ![g] = With(b, n)]
      <4>1. r \in Room /\ r.sendFrames \in Nat /\ r.m_bExitSendFrame \in BOOLEAN
        BY <1>3, <2>3 DEF GoodRoom, Room
      <4>2. CASE GameStart(g)
        <5>1. m_mapGame' = [m_mapGame EXCEPT ![g] = StartFrames(r)]
          BY <2>3, <4>2 DEF GameStart
        <5>2. StartFrames(r) = With(FALSE, r.sendFrames + 1)
          <6>1. \A q \in Room :
                  StartFrames(q) = [q EXCEPT !.m_bExitSendFrame = FALSE,
                                             !.sendFrames = q.sendFrames + 1]
            BY DEF StartFrames, Room
          <6>2. QED
            BY <4>1, <6>1
        <5>3. m_mapGame' = [m_mapGame EXCEPT ![g] = With(FALSE, r.sendFrames + 1)]
          BY <5>1, <5>2
        <5>4. r.sendFrames + 1 \in Nat
          BY <4>1
        <5> HIDE DEF With, r
        <5>5. QED
          BY <5>3, <5>4, Zenon
      <4>3. CASE GameOver(g)
        <5>1. m_mapGame' = [m_mapGame EXCEPT ![g] = With(TRUE, r.sendFrames)]
          BY <2>3, <4>1, <4>3 DEF GameOver, Room
        <5>2. QED
          BY <4>1, <5>1
      <4>4. CASE FrameThreadExit(g)
        <5>1. m_mapGame' = [m_mapGame EXCEPT ![g] = With(r.m_bExitSendFrame, r.sendFrames - 1)]
          BY <2>3, <4>1, <4>4 DEF FrameThreadExit, Room
        <5>2. r.sendFrames - 1 \in Nat
          BY <4>1, <4>4 DEF FrameThreadExit, FrameMayExit
        <5>3. QED
          BY <4>1, <5>1, <5>2
      <4>5. QED
        BY <1>10, <4>2, <4>3, <4>4
    <3>2. RegistryOK(m_mapGame', nextSid)
      BY <1>1, <2>2, <2>3, <3>1, ReplaceRoom
    <3>3. QED
      BY <1>1, <1>10, <3>2 DEF GameStart, GameOver, FrameThreadExit
  <2>4. QED
    BY <2>1, <2>3
<1>11. ASSUME NEW g \in Gids, RemoveGame(g)
       PROVE  InvNext
  BY <1>1, <1>3, <1>11, DropRoom DEF RemoveGame, EraseRoom
<1>12. CASE OrphanFrameStep
  BY <1>1, <1>12 DEF OrphanFrameStep
<1>13. CASE UNCHANGED roomsVars
  BY <1>1, <1>13 DEF roomsVars
<1>14. QED
  BY <1>5, <1>6, <1>7, <1>8, <1>9, <1>10, <1>11, <1>12, <1>13 DEF RoomsNext

\* In every reachable state of the registry the invariants of the rooms run
\* hold, for any number of clients, names and room ids.
THEOREM RoomsInvariant == RoomsSpec => []RoomsInv
<1>1. RoomsInit => RoomsInv
  BY DEF RoomsInit, RoomsInv, RoomsTypeOK, MapsAgree, OwnerIsReadyPlayer, NamesUnique
<1>2. QED
  BY <1>1, RoomsInvStep, PTL DEF RoomsSpec

\* The registry is well typed.
THEOREM RoomsTypeCorrect == RoomsSpec => []RoomsTypeOK
<1>1. RoomsInv => RoomsTypeOK
  BY DEF RoomsInv
<1>2. QED
  BY <1>1, RoomsInvariant, PTL

\* The two maps of a room name the same one or two players.
THEOREM MapsAlwaysAgree == RoomsSpec => []MapsAgree
<1>1. RoomsInv => MapsAgree
  BY DEF RoomsInv
<1>2. QED
  BY <1>1, RoomsInvariant, PTL

\* "房主默认始终处于准备状态": the owner is in the room and ready.
THEOREM OwnerAlwaysReady == RoomsSpec => []OwnerIsReadyPlayer
<1>1. RoomsInv => OwnerIsReadyPlayer
  BY DEF RoomsInv
<1>2. QED
  BY <1>1, RoomsInvariant, PTL

\* Two rooms never share a name.
THEOREM NamesAlwaysUnique == RoomsSpec => []NamesUnique
<1>1. RoomsInv => NamesUnique
  BY DEF RoomsInv
<1>2. QED
  BY <1>1, RoomsInvariant, PTL

-----------------------------------------------------------------------------
(* Steps.                                                                  *)

\* A step changes one room, drops one, or inserts one; in each case the owner
\* of a room that is there before and after changes only if he left it.
LEMMA OwnerStep ==
  RoomsInv /\ [RoomsNext]_roomsVars =>
    [\A g \in DOMAIN m_mapGame \cap DOMAIN m_mapGame' :
       m_mapGame'[g].m_roomOwner # m_mapGame[g].m_roomOwner
         => m_mapGame[g].m_roomOwner \notin m_mapGame'[g].m_mapGameOpt]_roomsVars
<1> DEFINE Stays(r, s) == s.m_roomOwner # r.m_roomOwner => r.m_roomOwner \notin s.m_mapGameOpt
           AllStay == \A h \in DOMAIN m_mapGame \cap DOMAIN m_mapGame' :
                        Stays(m_mapGame[h], m_mapGame'[h])
<1> SUFFICES ASSUME RoomsInv, RoomsNext PROVE AllStay
  OBVIOUS
<1>1. RegistryOK(m_mapGame, nextSid)
  BY InvRestated
<1>2. \A h \in DOMAIN m_mapGame : GoodRoom(m_mapGame[h])
  BY <1>1 DEF RegistryOK
<1>3. ASSUME NEW g \in DOMAIN m_mapGame, NEW s, Stays(m_mapGame[g], s),
             m_mapGame' = [m_mapGame EXCEPT ![g] = s]
      PROVE  AllStay
  BY <1>3
<1>4. ASSUME m_mapGame' = m_mapGame \/ \E g : m_mapGame' = [h \in DOMAIN m_mapGame \ {g} |-> m_mapGame[h]]
      PROVE  AllStay
  BY <1>4
<1>5. ASSUME NEW g \in DOMAIN m_mapGame, NEW c, RemoveFromRoom(g, c)
      PROVE  AllStay
  <2>1. CASE CanRemove(m_mapGame[g], c) /\ RemoveClient(m_mapGame[g], c).m_mapGameOpt # {}
    <3>1. Stays(m_mapGame[g], AfterLeaving(RemoveClient(m_mapGame[g], c), c))
      BY <1>2, <2>1, LeavingGood
    <3>2. m_mapGame' = [m_mapGame EXCEPT
                          ![g] = AfterLeaving(RemoveClient(m_mapGame[g], c), c)]
      BY <1>5, <2>1 DEF RemoveFromRoom
    <3> HIDE DEF Stays, AllStay
    <3>3. QED
      BY <1>3, <3>1, <3>2
  <2>2. CASE ~(CanRemove(m_mapGame[g], c) /\ RemoveClient(m_mapGame[g], c).m_mapGameOpt # {})
    <3> HIDE DEF AllStay
    <3>1. QED
      BY <1>4, <1>5, <2>2 DEF RemoveFromRoom, EraseRoom
  <2>3. QED
    BY <2>1, <2>2
<1>6. ASSUME NEW c \in Cids, NEW name \in Names, CreateGame(c, name)
      PROVE  AllStay
  BY <1>6 DEF CreateGame, NewGid
<1>7. ASSUME NEW g \in Gids, NEW c \in Cids,
             AddGamePlayer(g, c) \/ GameReady(g, c) \/ QuitGameReady(g, c)
      PROVE  AllStay
  <2>1. CASE g \notin DOMAIN m_mapGame
    BY <1>4, <1>7, <2>1 DEF AddGamePlayer, GameReady, QuitGameReady
  <2>2. CASE g \in DOMAIN m_mapGame
    <3>1. PICK s : Stays(m_mapGame[g], s) /\ m_mapGame' = [m_mapGame EXCEPT ![g] = s]
      BY <1>2, <1>7, <2>2, AddClientGood, ReadyGood DEF AddGamePlayer, GameReady, QuitGameReady
    <3> HIDE DEF Stays, AllStay
    <3>2. QED
      BY <1>3, <2>2, <3>1
  <2>3. QED
    BY <2>1, <2>2
<1>8. ASSUME NEW g \in Gids, NEW c \in Cids, RemovePlayerOf(g, c)
      PROVE  AllStay
  <2> HIDE DEF AllStay
  <2>1. QED
    BY <1>4, <1>5, <1>8 DEF RemovePlayerOf
<1>9. ASSUME NEW c \in Cids \cup {-1}, RemovePlayer(c)
      PROVE  AllStay
  <2>1. DOMAIN m_mapGame # {} => Min(DOMAIN m_mapGame) \in DOMAIN m_mapGame
    BY <1>1, MinOfNaturals, GidsAssumption DEF RegistryOK
  <2> HIDE DEF AllStay
  <2>2. QED
    BY <1>4, <1>5, <1>9, <2>1 DEF RemovePlayer
<1>10. ASSUME NEW g \in Gids, GameStart(g) \/ GameOver(g) \/ FrameThreadExit(g)
       PROVE  AllStay
  <2>1. \A h \in DOMAIN m_mapGame : m_mapGame[h] \in Room
    BY <1>2 DEF GoodRoom
  <2>2. \A r \in Room : StartFrames(r).m_roomOwner = r.m_roomOwner
    BY DEF StartFrames, Room
  <2>3. QED
    BY <1>10, <2>1, <2>2 DEF GameStart, GameOver, FrameThreadExit, Room
<1>11. ASSUME NEW g \in Gids, RemoveGame(g)
       PROVE  AllStay
  BY <1>4, <1>11 DEF RemoveGame, EraseRoom
<1>12. CASE OrphanFrameStep
  BY <1>12 DEF OrphanFrameStep
<1>13. QED
  BY <1>6, <1>7, <1>8, <1>9, <1>10, <1>11, <1>12 DEF RoomsNext

\* "如果删除的玩家是房主，那么重新设置房主": only a departure changes the owner.
THEOREM OwnerStays == RoomsSpec => OwnerStaysWhilePresent
<1>1. QED
  BY RoomsInvariant, OwnerStep, PTL DEF RoomsSpec, OwnerStaysWhilePresent
=============================================================================
