--------------------------- MODULE NodeRegistryProofs ---------------------------
(***************************************************************************)
(* Proofs about NodeRegistry: for any nodes, names, ids and messages of    *)
(* the radio, and any number of restarts and publications.                 *)
(***************************************************************************)
EXTENDS NodeRegistry, PacketDispatchProofs

(* What readLoop may call for a message, in a frame or in a line.          *)
Handles(m, calls) == calls \in {DispatchFrame(m, version), DispatchLine(m, version)}

(* A waypoint that main is called with has no place: bytes that hold one   *)
(* are telemetry to readLoop first.                                        *)
LEMMA WaypointsHaveNoPlace ==
  ASSUME NEW m, NEW calls, Handles(m, calls), version \in Versions
  PROVE  Results(calls, "waypoint") \subseteq {NoPlace}
<1> SUFFICES ASSUME NEW c \in calls, c[1] = "waypoint"
             PROVE  c[2] = NoPlace
  BY DEF Results
<1>1. c[2] \in DecodeWaypoint(m, version) /\ DecodeTelemetry(m, version) = {}
  BY FrameCalls, LineCalls DEF Handles
<1>2. Supported(version)
  BY DEF Versions, Supported
<1>3. ~ReadsAsTelemetry(m)
  BY <1>1, <1>2 DEF DecodeTelemetry
<1>4. ~IsPacket(m, WaypointPort)
  BY <1>3 DEF ReadsAsTelemetry, IsPacket, PacketField
<1> QED
  BY <1>1, <1>2, <1>4 DEF DecodeWaypoint

(* A NodeInfo is that of a NodeInfo message, or names nobody.              *)
LEMMA InfosAreOwn ==
  ASSUME NEW m, NEW calls, Handles(m, calls), NEW info \in Results(calls, "nodeInfo")
  PROVE  \/ m.field = NodeInfoField /\ Parses(m) /\ info = m.info
         \/ ~(m.field = NodeInfoField /\ Parses(m)) /\ info = ReadAsNodeInfo(m)
<1>1. info \in DecodeNodeInfo(m, version)
  BY FrameCalls, LineCalls DEF Results, Handles
<1> QED
  BY <1>1 DEF DecodeNodeInfo

LEMMA InfoTypes ==
  ASSUME NEW m \in FromRadio, NEW calls, Handles(m, calls), NEW info \in Results(calls, "nodeInfo")
  PROVE  /\ info.num \in Key /\ info.place \in Place
         /\ info.user.long \in Name \cup {NoName} /\ info.user.short \in Name \cup {NoName}
<1>1. CASE m.field = NodeInfoField /\ Parses(m) /\ info = m.info
  BY <1>1, MessageFields, NodeInfoTypes DEF Key
<1>2. CASE info = ReadAsNodeInfo(m)
  <2>1. /\ info.num = m.id /\ info.place = NoPlace
        /\ info.user.long = NoName /\ info.user.short = NoName
    BY <1>2 DEF ReadAsNodeInfo, NoUser
  <2> QED
    BY <2>1, MessageFields DEF Key, Place
<1> QED
  BY <1>1, <1>2, InfosAreOwn

LEMMA MyInfoTypes ==
  ASSUME NEW m \in FromRadio, NEW calls, Handles(m, calls), NEW n \in Results(calls, "myInfo")
  PROVE  n \in Key
<1>1. n \in DecodeMyInfo(m, version)
  BY FrameCalls, LineCalls DEF Results, Handles
<1>2. n = m.id \/ (m.field = MyInfoField /\ n = m.num)
  BY <1>1 DEF DecodeMyInfo
<1> QED
  BY <1>2, MessageFields DEF Key

-----------------------------------------------------------------------------
(***************************************************************************)
(* The database: a position was told, and its node has a row.              *)
(***************************************************************************)
Tellable == Key \X (Place \ {NoPlace})

Sound(s, T) == /\ s = [rows |-> s.rows, positions |-> s.positions]
               /\ DOMAIN s.rows \subseteq Key /\ \A k \in DOMAIN s.rows : s.rows[k] \in Row
               /\ s.positions \subseteq Tellable
               /\ \A p \in s.positions : p \in T /\ p[1] \in DOMAIN s.rows

LEMMA UpsertSound ==
  ASSUME NEW s, NEW T, Sound(s, T), NEW k \in Key, NEW row \in Row,
         row.place # NoPlace => <<k, row.place>> \in T,
         NEW t \in Upsert(s, k, row)
  PROVE  Sound(t, T)
<1> DEFINE put == [rows |-> Put(s.rows, k, row), positions |-> s.positions]
<1>1. /\ DOMAIN Put(s.rows, k, row) = DOMAIN s.rows \cup {k}
      /\ \A x \in DOMAIN s.rows \cup {k} : Put(s.rows, k, row)[x] \in Row
  <2>1. DOMAIN Put(s.rows, k, row) = DOMAIN s.rows \cup {k}
    BY DEF Put
  <2>2. Put(s.rows, k, row)[k] = row /\ \A x \in DOMAIN s.rows : x # k => Put(s.rows, k, row)[x] = s.rows[x]
    BY DEF Put
  <2>3. \A x \in DOMAIN s.rows : s.rows[x] \in Row
    BY DEF Sound
  <2> QED
    BY <2>1, <2>2, <2>3
<1>2. Sound(put, T)
  BY <1>1 DEF Sound
<1>3. [s EXCEPT !.rows = Put(@, k, row)] = put
  BY DEF Sound
<1>4. Sound(Written(s, k, row), T)
  <2>1. CASE row.place = NoPlace
    BY <1>2, <2>1 DEF Written, AddPosition
  <2>2. CASE row.place # NoPlace
    <3>1. Written(s, k, row) = [rows |-> Put(s.rows, k, row), positions |-> s.positions \cup {<<k, row.place>>}]
      BY <2>2 DEF Written, AddPosition
    <3>2. row.place \in Place \ {NoPlace}
      BY <2>2 DEF Row
    <3>3. s.positions \cup {<<k, row.place>>} \subseteq Tellable
      BY <3>2 DEF Sound, Tellable
    <3>4. \A p \in s.positions \cup {<<k, row.place>>} : p \in T /\ p[1] \in DOMAIN Put(s.rows, k, row)
      BY <1>1, <2>2 DEF Sound
    <3> QED
      BY <1>1, <3>1, <3>3, <3>4 DEF Sound
  <2> QED
    BY <2>1, <2>2
<1>5. t = s \/ t = put \/ t = Written(s, k, row)
  BY <1>3 DEF Upsert
<1> QED
  BY <1>2, <1>4, <1>5

(* What is told of a message m.                                            *)
ToldBy(m) == IF Readable(m) THEN Placed({<<m.info.num, m.info.place>>}) ELSE {}

LEMMA ToldByTypes ==
  ASSUME NEW m \in FromRadio
  PROVE  ToldBy(m) \subseteq Tellable
<1>1. ASSUME Readable(m) PROVE m.info.num \in Key /\ m.info.place \in Place
  BY <1>1, MessageFields, NodeInfoTypes DEF Readable, Key
<1> QED
  BY <1>1 DEF ToldBy, Placed, Tellable

(* main's callbacks leave the database sound.                              *)
LEMMA StoresSound ==
  ASSUME NEW m \in FromRadio, NEW calls, Handles(m, calls), version \in Versions,
         NEW s, NEW T, Sound(s, T), ToldBy(m) \subseteq T, NEW t \in Stores(s, calls, m)
  PROVE  Sound(t, T)
<1>1. ASSUME NEW u \in AfterNodeInfo(s, calls)
      PROVE  Sound(u, T)
  <2>1. ASSUME NEW i \in Results(calls, "nodeInfo"), i.user.set, u \in Upsert(s, i.num, RowOfNodeInfo(i))
        PROVE  Sound(u, T)
    <3>1. i.num \in Key /\ RowOfNodeInfo(i) \in Row /\ RowOfNodeInfo(i).place = i.place
      BY InfoTypes DEF RowOfNodeInfo, Row
    <3>2. ASSUME i.place # NoPlace PROVE <<i.num, i.place>> \in T
      <4>1. m.field = NodeInfoField /\ Parses(m) /\ i = m.info
        BY <3>2, InfosAreOwn DEF ReadAsNodeInfo
      <4>2. ToldBy(m) = {<<i.num, i.place>>}
        BY <2>1, <3>2, <4>1 DEF ToldBy, Readable, Placed
      <4> QED
        BY <4>2
    <3> QED
      BY <2>1, <3>1, <3>2, UpsertSound
  <2> QED
    BY <1>1, <2>1 DEF AfterNodeInfo
<1>2. ASSUME NEW u, Sound(u, T), NEW w \in AfterMyInfo(u, calls)
      PROVE  Sound(w, T)
  <2>1. RowOfMyInfo \in Row /\ RowOfMyInfo.place = NoPlace
    BY DEF RowOfMyInfo, Row, Place
  <2>2. ASSUME NEW n \in Results(calls, "myInfo"), w \in Upsert(u, n, RowOfMyInfo)
        PROVE  Sound(w, T)
    BY <1>2, <2>1, <2>2, MyInfoTypes, UpsertSound
  <2> QED
    BY <1>2, <2>2 DEF AfterMyInfo
<1>3. ASSUME NEW u, Sound(u, T), NEW w \in AfterWaypoint(u, calls, m)
      PROVE  w = u
  <2>1. \A id : [u EXCEPT !.positions = AddPosition(@, id, NoPlace)] = u
    BY <1>3 DEF Sound, AddPosition
  <2>2. \A id : AddWaypoint(u, id, NoPlace) = {u}
    BY <2>1 DEF AddWaypoint
  <2>3. Results(calls, "waypoint") = {} \/ Results(calls, "waypoint") = {NoPlace}
    BY WaypointsHaveNoPlace
  <2> QED
    BY <1>3, <2>2, <2>3 DEF AfterWaypoint
<1>4. PICK u \in AfterNodeInfo(s, calls) : \E w \in AfterMyInfo(u, calls) : t \in AfterWaypoint(w, calls, m)
  BY DEF Stores
<1>5. PICK w \in AfterMyInfo(u, calls) : t \in AfterWaypoint(w, calls, m)
  BY <1>4
<1>6. Sound(u, T) /\ Sound(w, T)
  BY <1>1, <1>2, <1>5
<1> QED
  BY <1>3, <1>5, <1>6

-----------------------------------------------------------------------------
(***************************************************************************)
(* The node map.                                                           *)
(***************************************************************************)
NamesSound(m) == DOMAIN m \subseteq Key /\ \A n \in DOMAIN m : m[n] \in Entry

LEMMA EntryTypes ==
  ASSUME NEW m, NamesSound(m), NEW n
  PROVE  EntryOf(m, n).long \in Name \cup {NoName} /\ EntryOf(m, n).short \in Name \cup {NoName}
<1>1. EntryOf(m, n) \in Entry
  BY DEF NamesSound, EntryOf, Entry
<1> QED
  BY <1>1 DEF Entry

(* What Update leaves: the entry of n, with each name either new or old.   *)
LEMMA UpdateKeeps ==
  ASSUME NEW m, NamesSound(m), NEW n \in Key,
         NEW long \in Name \cup {NoName}, NEW short \in Name \cup {NoName}
  PROVE  /\ NamesSound(Update(m, n, long, short))
         /\ DOMAIN Update(m, n, long, short) = DOMAIN m \cup {n}
         /\ \A x \in DOMAIN m : x # n => Update(m, n, long, short)[x] = m[x]
         /\ Update(m, n, long, short)[n] = [long |-> Or(long, EntryOf(m, n).long),
                                            short |-> Or(short, EntryOf(m, n).short)]
<1> DEFINE entry == [long |-> Or(long, EntryOf(m, n).long), short |-> Or(short, EntryOf(m, n).short)]
<1>1. entry \in Entry
  BY EntryTypes DEF Or, Entry
<1> HIDE DEF entry
<1>2. /\ DOMAIN Put(m, n, entry) = DOMAIN m \cup {n}
      /\ Put(m, n, entry)[n] = entry
      /\ \A x \in DOMAIN m : x # n => Put(m, n, entry)[x] = m[x]
  BY DEF Put
<1>3. NamesSound(Put(m, n, entry))
  BY <1>1, <1>2 DEF NamesSound
<1>4. Update(m, n, long, short) = Put(m, n, entry)
  BY DEF Update, entry
<1> QED
  BY <1>2, <1>3, <1>4 DEF entry

-----------------------------------------------------------------------------
(***************************************************************************)
(* The start-up.                                                           *)
(***************************************************************************)
IsList(L) == DOMAIN L \subseteq Node /\ \A n \in DOMAIN L : L[n].long \in Name \cup {NoName} /\ L[n].place \in Place

LEMMA ListsAreLists ==
  ASSUME NEW L \in Lists \cup {<< >>}
  PROVE  IsList(L)
BY RegistryAssumption DEF IsList, ListedNode

LEMMA LocalInfoTypes ==
  ASSUME NEW info \in LocalInfos
  PROVE  /\ info \in Row /\ LocalId(info) \in Key
         /\ info.long \in Name \cup {NoName} /\ info.short \in Name \cup {NoName} /\ info.place \in Place
<1>1. info \in LocalInfo
  BY RegistryAssumption
<1> QED
  BY <1>1 DEF LocalInfo, Row, LocalId, Key

LEMMA ListedSound ==
  ASSUME NEW m, NamesSound(m), NEW L, IsList(L)
  PROVE  NamesSound(Listed(m, L))
<1>1. ASSUME NEW n \in DOMAIN L
      PROVE  n \in Key /\ Update(m, n, L[n].long, NoName)[n] \in Entry
  <2>1. n \in Key /\ L[n].long \in Name \cup {NoName}
    BY DEF IsList, Key
  <2> QED
    BY <2>1, UpdateKeeps DEF NamesSound
<1> QED
  BY <1>1 DEF NamesSound, Listed

LEMMA ListedRowsSound ==
  ASSUME NEW s, NEW T, Sound(s, T), NEW L, IsList(L), NEW R \in SUBSET DOMAIN L, NEW P \in SUBSET R,
         \A n \in DOMAIN L : L[n].place # NoPlace => <<n, L[n].place>> \in T
  PROVE  Sound(ListedRows(s, L, R, P), T)
<1> DEFINE rs == [k \in DOMAIN s.rows \cup R |->
                    IF k \in R THEN [long |-> L[k].long, short |-> NoName, place |-> L[k].place] ELSE s.rows[k]]
           ps == s.positions \cup {<<n, L[n].place>> : n \in {l \in P : L[l].place # NoPlace}}
<1>1. ListedRows(s, L, R, P) = [rows |-> rs, positions |-> ps]
  BY DEF ListedRows
<1>2. ASSUME NEW n \in R
      PROVE  n \in Key /\ [long |-> L[n].long, short |-> NoName, place |-> L[n].place] \in Row
  BY DEF IsList, Key, Row
<1>3. DOMAIN rs = DOMAIN s.rows \cup R /\ DOMAIN rs \subseteq Key /\ \A k \in DOMAIN rs : rs[k] \in Row
  BY <1>2 DEF Sound
<1>4. ASSUME NEW p \in ps
      PROVE  p \in Tellable /\ p \in T /\ p[1] \in DOMAIN s.rows \cup R
  <2>1. CASE p \in s.positions
    BY <2>1 DEF Sound
  <2>2. ASSUME NEW n \in P, L[n].place # NoPlace, p = <<n, L[n].place>>
        PROVE  p \in Tellable /\ p \in T /\ p[1] \in R
    BY <1>2, <2>2 DEF IsList, Tellable
  <2> QED
    BY <1>4, <2>1, <2>2
<1> HIDE DEF rs, ps
<1> QED
  BY <1>1, <1>3, <1>4 DEF Sound

(* Whatever statements fail, a start-up leaves the node map and the tables *)
(* sound, with the positions it tells.                                     *)
LEMMA StartUpsSound ==
  ASSUME NEW s, NEW T, Sound(s, T), NEW start \in StartUps(s)
  PROVE  /\ NamesSound(start.names)
         /\ Sound(start.store, T \cup start.told)
         /\ start.told \subseteq Tellable
         /\ start.version \in Firmwares \cup {"none"}
<1>1. NamesSound(<< >>)
  BY DEF NamesSound
<1>2. CASE start \in [names : {<< >>}, store : {s}, told : {{}}, version : {"none"}]
  <2>1. start.names = << >> /\ start.store = s /\ start.told = {} /\ start.version = "none"
    BY <1>2
  <2> QED
    BY <1>1, <2>1
<1>3. ASSUME NEW info \in LocalInfos, NEW L \in Lists \cup {<< >>}, start \in StartUp(s, info, L)
      PROVE  /\ NamesSound(start.names)
             /\ Sound(start.store, T \cup start.told)
             /\ start.told \subseteq Tellable
             /\ start.version \in Firmwares
  <2> DEFINE told0 == ToldAtStart(info, L)
             U == T \cup told0
  <2>1. /\ start.names = Listed(Update(<< >>, 0, info.long, info.short), L)
        /\ start.store \in UNION {UpsertList(t, L) : t \in Upsert(s, LocalId(info), info)}
        /\ start.told = told0
        /\ start.version \in Firmwares
    BY <1>3 DEF StartUp
  <2>2. IsList(L)
    BY ListsAreLists
  <2>3. NamesSound(start.names)
    <3>1. 0 \in Key
      BY DEF Key
    <3>2. NamesSound(Update(<< >>, 0, info.long, info.short))
      BY <1>1, <3>1, LocalInfoTypes, UpdateKeeps
    <3> QED
      BY <2>1, <2>2, <3>2, ListedSound
  <2>4. /\ info.place # NoPlace => <<LocalId(info), info.place>> \in told0
        /\ \A n \in DOMAIN L : L[n].place # NoPlace => <<n, L[n].place>> \in told0
    BY DEF ToldAtStart, Placed
  <2>5. told0 \subseteq Tellable
    <3>1. \A n \in DOMAIN L : n \in Key /\ L[n].place \in Place
      BY <2>2 DEF IsList, Key
    <3>2. LocalId(info) \in Key /\ info.place \in Place
      BY LocalInfoTypes
    <3> QED
      BY <3>1, <3>2 DEF ToldAtStart, Placed, Tellable
  <2> HIDE DEF told0
  <2>6. Sound(s, U)
    BY DEF Sound
  <2> HIDE DEF U
  <2>7. PICK t \in Upsert(s, LocalId(info), info) : start.store \in UpsertList(t, L)
    BY <2>1
  <2>8. Sound(t, U)
    <3>1. info.place # NoPlace => <<LocalId(info), info.place>> \in U
      BY <2>4 DEF U
    <3> QED
      BY <2>6, <2>7, <3>1, LocalInfoTypes, UpsertSound
  <2>9. Sound(start.store, U)
    <3>1. \E R \in SUBSET DOMAIN L : \E P \in SUBSET R : start.store = ListedRows(t, L, R, P)
      <4>1. CASE Faults
        <5>1. PICK R \in SUBSET DOMAIN L : start.store \in {ListedRows(t, L, R, P) : P \in SUBSET R}
          BY <2>7, <4>1 DEF UpsertList
        <5> QED
          BY <5>1
      <4>2. CASE ~Faults
        BY <2>7, <4>2 DEF UpsertList
      <4> QED
        BY <4>1, <4>2
    <3>2. \A n \in DOMAIN L : L[n].place # NoPlace => <<n, L[n].place>> \in U
      BY <2>4 DEF U
    <3> QED
      BY <2>2, <2>8, <3>1, <3>2, ListedRowsSound
  <2> QED
    BY <2>1, <2>3, <2>5, <2>9 DEF U
<1>4. ASSUME start \in UNION {UNION {StartUp(s, info, L) : L \in Lists \cup {<< >>}} : info \in LocalInfos}
      PROVE  \E info \in LocalInfos : \E L \in Lists \cup {<< >>} : start \in StartUp(s, info, L)
  BY <1>4
<1> QED
  BY <1>2, <1>3, <1>4 DEF StartUps

-----------------------------------------------------------------------------
(***************************************************************************)
(* The inductive invariant.                                                *)
(***************************************************************************)
RegistryInv == TypeOK /\ Sound(Store, told)

LEMMA ResolveTypes ==
  ASSUME RegistryInv, NEW n \in Node, NEW canonical \in BOOLEAN
  PROVE  ResolveLong(names, n, canonical) \in Publication
<1>1. NamesSound(names)
  BY DEF RegistryInv, TypeOK, NamesSound
<1>2. EntryOf(names, n).long \in Name \cup {NoName} /\ EntryOf(names, n).short \in Name \cup {NoName}
  BY <1>1, EntryTypes
<1>3. \A x \in Name : ByName(x) \in Publication
  BY DEF ByName, Publication
<1>4. ById(n, canonical) \in Publication
  BY DEF ById, Publication
<1>5. \/ ResolveLong(names, n, canonical) = ById(n, canonical)
      \/ \E x \in Name : ResolveLong(names, n, canonical) = ByName(x)
  BY <1>2 DEF ResolveLong
<1> QED
  BY <1>3, <1>4, <1>5

LEMMA HandleInv ==
  ASSUME RegistryInv, NEW m \in FromRadio, NEW calls, Handles(m, calls), Handle(m, calls)
  PROVE  RegistryInv'
<1>1. UNCHANGED <<lastNode, published, version, restarts>>
  BY DEF Handle
<1>2. NamesSound(names')
  <2>1. NamesSound(names)
    BY DEF RegistryInv, TypeOK, NamesSound
  <2>2. ASSUME NEW info \in Results(calls, "nodeInfo"), names' = UpdateFromProto(names, info)
        PROVE  NamesSound(names')
    BY <2>1, <2>2, InfoTypes, UpdateKeeps DEF UpdateFromProto
  <2>3. names' = names \/ \E info \in Results(calls, "nodeInfo") : names' = UpdateFromProto(names, info)
    BY DEF Handle
  <2> QED
    BY <2>1, <2>2, <2>3
<1>3. PICK s \in Stores(Store, calls, m) : rows' = s.rows /\ positions' = s.positions
  BY DEF Handle
<1>7. told' = told \cup ToldBy(m) /\ told' \subseteq Tellable
  <2>1. told \subseteq Tellable
    BY DEF RegistryInv, TypeOK, Tellable
  <2> QED
    BY <2>1, ToldByTypes DEF Handle, ToldBy
<1>4. version \in Versions
  BY RegistryAssumption DEF RegistryInv, TypeOK, Versions
<1>5. Sound(s, told')
  <2>1. Sound(Store, told') /\ ToldBy(m) \subseteq told'
    BY <1>7 DEF RegistryInv, Sound
  <2> QED
    BY <1>3, <1>4, <2>1, StoresSound
<1>8. Sound(Store, told)'
  BY <1>3, <1>5 DEF Sound, Store
<1>6. DOMAIN heard' \subseteq Node /\ \A n \in DOMAIN heard' : heard'[n] \in NodeInfo
  <2>1. CASE m.field = NodeInfoField /\ heard' = Put(heard, m.info.num, m.info)
    <3>1. m.info \in NodeInfo /\ m.info.num \in Node
      BY <2>1, MessageFields, NodeInfoTypes
    <3> QED
      BY <2>1, <3>1 DEF RegistryInv, TypeOK, Put
  <2>2. CASE heard' = heard
    BY <2>2 DEF RegistryInv, TypeOK
  <2> QED
    BY <2>1, <2>2 DEF Handle, Readable
<1> QED
  BY <1>1, <1>2, <1>3, <1>5, <1>6, <1>7, <1>8 DEF RegistryInv, TypeOK, NamesSound, Sound, Tellable

LEMMA NamingLineInv ==
  ASSUME RegistryInv, NEW n \in Node, NEW canonical \in BOOLEAN, NamingLine(n, canonical)
  PROVE  RegistryInv'
<1> DEFINE node == ResolveLong(names, n, canonical)
<1>1. node \in Publication
  BY ResolveTypes
<1>2. UNCHANGED <<names, rows, positions, heard, told, version, restarts>>
  BY DEF NamingLine
<1>3. lastNode' \in {lastNode, node} /\ published' \in {published, Append(published, node)}
  BY DEF NamingLine
<1> HIDE DEF node
<1>4. lastNode' \in Publication \cup {<< >>} /\ published' \in Seq(Publication)
  BY <1>1, <1>3 DEF RegistryInv, TypeOK
<1> QED
  BY <1>2, <1>4 DEF RegistryInv, TypeOK, Sound, Store

LEMMA InitInv == Init => RegistryInv
<1> SUFFICES ASSUME Init PROVE RegistryInv
  OBVIOUS
<1> DEFINE empty == [rows |-> << >>, positions |-> {}]
<1>1. Sound(empty, {})
  BY DEF Sound
<1> HIDE DEF empty
<1>2. PICK start \in StartUps(empty) :
        /\ names = start.names
        /\ rows = start.store.rows /\ positions = start.store.positions
        /\ told = start.told
        /\ version = start.version
  BY DEF Init, empty
<1>3. /\ NamesSound(start.names) /\ Sound(start.store, {} \cup start.told)
      /\ start.told \subseteq Tellable /\ start.version \in Firmwares \cup {"none"}
  BY <1>1, StartUpsSound
<1>4. Sound(Store, told)
  BY <1>2, <1>3 DEF Sound, Store
<1>5. lastNode = << >> /\ published = << >> /\ heard = << >> /\ restarts = 0
  BY DEF Init
<1> QED
  BY <1>2, <1>3, <1>4, <1>5, RegistryAssumption DEF RegistryInv, TypeOK, NamesSound, Sound, Store, Tellable

LEMMA RestartInv == RegistryInv /\ Restart => RegistryInv'
<1> SUFFICES ASSUME RegistryInv, Restart PROVE RegistryInv'
  OBVIOUS
<1>1. restarts' \in 0..MaxRestarts /\ lastNode' = << >> /\ UNCHANGED <<published, heard>>
  BY RegistryAssumption DEF RegistryInv, TypeOK, Restart
<1>2. PICK start \in StartUps(Store) :
        /\ names' = start.names
        /\ rows' = start.store.rows /\ positions' = start.store.positions
        /\ told' = told \cup start.told
        /\ version' = start.version
  BY DEF Restart
<1>3. /\ NamesSound(start.names) /\ Sound(start.store, told \cup start.told)
      /\ start.told \subseteq Tellable /\ start.version \in Firmwares \cup {"none"}
  BY StartUpsSound DEF RegistryInv
<1>4. Sound(Store, told)'
  BY <1>2, <1>3 DEF Sound, Store
<1> QED
  BY <1>1, <1>2, <1>3, <1>4 DEF RegistryInv, TypeOK, NamesSound, Sound, Store, Tellable

LEMMA RegistryInvariant == Spec => []RegistryInv
<1>1. RegistryInv /\ [Next]_vars => RegistryInv'
  <2> SUFFICES ASSUME RegistryInv, [Next]_vars PROVE RegistryInv'
    OBVIOUS
  <2>1. ASSUME NEW m \in Messages, Frame(m) \/ FramedLine(m)
        PROVE  RegistryInv'
    BY <2>1, RegistryAssumption, HandleInv DEF Frame, FramedLine, Handles
  <2>2. ASSUME NEW n \in Node, NEW canonical \in BOOLEAN, NamingLine(n, canonical)
        PROVE  RegistryInv'
    BY <2>2, NamingLineInv
  <2>3. CASE Restart
    BY <2>3, RestartInv
  <2>4. CASE UNCHANGED vars
    BY <2>4 DEF vars, RegistryInv, TypeOK, Sound, Store
  <2> QED
    BY <2>1, <2>2, <2>3, <2>4 DEF Next
<1> QED
  BY <1>1, InitInv, PTL DEF Spec

(* The node map, the tables and the publications keep their types.         *)
THEOREM RegistryTypeCorrect == Spec => []TypeOK
BY RegistryInvariant, PTL DEF RegistryInv

(* A position is where a node was said to be and belongs to its row, for   *)
(* any messages, failed statements and restarts (nodestore.go 93-105,      *)
(* 131-142): of the two cases of the property, as long as waypoints do not *)
(* arrive, the second.                                                     *)
THEOREM PositionsTold == Spec => []PositionsAreTold
<1>1. RegistryInv => PositionsAreTold
  BY DEF RegistryInv, PositionsAreTold, Sound, Store
<1> QED
  BY <1>1, RegistryInvariant, PTL

-----------------------------------------------------------------------------
(***************************************************************************)
(* What a step may not do.                                                 *)
(***************************************************************************)
NamesKept ==
  \A n \in DOMAIN names \ {0} :
    /\ n \in DOMAIN names'
    /\ names'[n] # names[n] => n \in DOMAIN heard'
    /\ names'[n].long # names[n].long => names'[n].long = heard'[n].user.long
    /\ names'[n].short # names[n].short => names'[n].short = heard'[n].user.short
    /\ names[n].long # NoName => names'[n].long # NoName
    /\ names[n].short # NoName => names'[n].short # NoName

LEMMA HandleKeepsNames ==
  ASSUME RegistryInv, NEW m \in FromRadio, NEW calls, Handles(m, calls), Handle(m, calls)
  PROVE  NamesKept
<1>1. CASE names' = names
  BY <1>1 DEF NamesKept
<1>2. ASSUME NEW info \in Results(calls, "nodeInfo"), names' = UpdateFromProto(names, info), names' # names
      PROVE  NamesKept
  <2>1. NamesSound(names)
    BY DEF RegistryInv, TypeOK, NamesSound
  <2>2. /\ info.num \in Key
        /\ info.user.long \in Name \cup {NoName} /\ info.user.short \in Name \cup {NoName}
    BY InfoTypes
  <2>3. info.user.set /\ names' = Update(names, info.num, info.user.long, info.user.short)
    BY <1>2 DEF UpdateFromProto
  <2>4. /\ DOMAIN names' = DOMAIN names \cup {info.num}
        /\ \A x \in DOMAIN names : x # info.num => names'[x] = names[x]
        /\ names'[info.num] = [long |-> Or(info.user.long, EntryOf(names, info.num).long),
                               short |-> Or(info.user.short, EntryOf(names, info.num).short)]
    <3> DEFINE num == info.num
               long == info.user.long
               short == info.user.short
    <3>1. num \in Key /\ long \in Name \cup {NoName} /\ short \in Name \cup {NoName}
      BY <2>2
    <3> HIDE DEF num, long, short
    <3>2. DOMAIN Update(names, num, long, short) = DOMAIN names \cup {num}
      BY <2>1, <3>1, UpdateKeeps
    <3>3. \A x \in DOMAIN names : x # num => Update(names, num, long, short)[x] = names[x]
      BY <2>1, <3>1, UpdateKeeps, ZenonT(30)
    <3>4. Update(names, num, long, short)[num] = [long |-> Or(long, EntryOf(names, num).long),
                                                  short |-> Or(short, EntryOf(names, num).short)]
      BY <2>1, <3>1, UpdateKeeps, ZenonT(30)
    <3> QED
      BY <2>3, <3>2, <3>3, <3>4 DEF num, long, short
  <2>5. ASSUME info.num \in DOMAIN names
        PROVE  /\ names'[info.num].long = Or(info.user.long, names[info.num].long)
               /\ names'[info.num].short = Or(info.user.short, names[info.num].short)
    BY <2>4, <2>5 DEF EntryOf
  <2>6. CASE info = m.info /\ m.field = NodeInfoField /\ Parses(m)
    <3>1. heard' = Put(heard, info.num, info)
      BY <2>3, <2>6 DEF Handle, Readable
    <3>2. heard'[info.num] = info /\ info.num \in DOMAIN heard'
      BY <3>1 DEF Put
    <3> QED
      BY <2>4, <2>5, <3>2 DEF NamesKept, Or
  <2>7. CASE info = ReadAsNodeInfo(m)
    <3>1. info.user.long = NoName /\ info.user.short = NoName
      BY <2>7 DEF ReadAsNodeInfo, NoUser
    <3>2. ASSUME info.num \in DOMAIN names PROVE names'[info.num] = names[info.num]
      <4>1. names[info.num] \in Entry /\ EntryOf(names, info.num) = names[info.num]
        BY <2>1, <3>2 DEF NamesSound, EntryOf
      <4> QED
        BY <2>4, <3>1, <4>1 DEF Or, Entry
    <3> QED
      BY <2>4, <3>2 DEF NamesKept
  <2> QED
    BY <2>6, <2>7, InfosAreOwn
<1>3. names' = names \/ \E info \in Results(calls, "nodeInfo") : names' = UpdateFromProto(names, info)
  BY DEF Handle
<1> QED
  BY <1>1, <1>2, <1>3

(* Within one run of the program a node's name changes only by its own     *)
(* NodeInfo message, and is never forgotten (nodemap.go 31-53).            *)
THEOREM NamesAreOwn == Spec => NamesOnlyFromOwnInfo
<1>1. RegistryInv /\ [Next]_vars => [restarts' = restarts => NamesKept]_vars
  <2> SUFFICES ASSUME RegistryInv, Next, restarts' = restarts
               PROVE  NamesKept
    BY DEF vars
  <2>1. ASSUME NEW m \in Messages, Frame(m) \/ FramedLine(m)
        PROVE  NamesKept
    BY <2>1, RegistryAssumption, HandleKeepsNames DEF Frame, FramedLine, Handles
  <2>2. ASSUME NEW n \in Node, NEW canonical \in BOOLEAN, NamingLine(n, canonical)
        PROVE  NamesKept
    BY <2>2 DEF NamingLine, NamesKept
  <2>3. ~Restart
    BY DEF Restart, RegistryInv, TypeOK
  <2> QED
    BY <2>1, <2>2, <2>3 DEF Next
<1> QED
  BY <1>1, RegistryInvariant, PTL DEF Spec, NamesOnlyFromOwnInfo, NamesKept

IsResolved(p) ==
  IF "name" \in DOMAIN p
  THEN \E n \in DOMAIN names :
         p.name = names[n].long \/ (names[n].long = NoName /\ p.name = names[n].short)
  ELSE p.canonical => EntryOf(names, p.id) = [long |-> NoName, short |-> NoName]

LEMMA ResolveLongResolves ==
  ASSUME RegistryInv, NEW n \in Node, NEW canonical \in BOOLEAN
  PROVE  IsResolved(ResolveLong(names, n, canonical))
<1> DEFINE node == ResolveLong(names, n, canonical)
           entry == EntryOf(names, n)
<1>1. entry \in Entry
  BY DEF RegistryInv, TypeOK, EntryOf, Entry
<1>2. entry.long # NoName \/ entry.short # NoName => n \in DOMAIN names /\ names[n] = entry
  BY DEF EntryOf
<1>3. \A x : DOMAIN ByName(x) = {"name"} /\ ByName(x).name = x
  BY DEF ByName
<1>4. /\ DOMAIN ById(n, canonical) = {"id", "canonical"}
      /\ ById(n, canonical).id = n /\ ById(n, canonical).canonical = canonical
  BY DEF ById
<1>5. "name" # "id" /\ "name" # "canonical"
  OBVIOUS
<1>6. CASE canonical /\ entry.long # NoName
  <2>1. node = ByName(entry.long)
    BY <1>6 DEF ResolveLong
  <2> QED
    BY <1>2, <1>3, <1>6, <2>1 DEF IsResolved
<1>7. CASE canonical /\ entry.long = NoName /\ entry.short # NoName
  <2>1. node = ByName(entry.short)
    BY <1>7 DEF ResolveLong
  <2> QED
    BY <1>2, <1>3, <1>7, <2>1 DEF IsResolved
<1>8. CASE ~canonical \/ (entry.long = NoName /\ entry.short = NoName)
  <2>1. node = ById(n, canonical)
    BY <1>8 DEF ResolveLong
  <2>2. entry.long = NoName /\ entry.short = NoName => entry = [long |-> NoName, short |-> NoName]
    BY <1>1 DEF Entry
  <2> QED
    BY <1>4, <1>5, <1>8, <2>1, <2>2 DEF IsResolved
<1> QED
  BY <1>6, <1>7, <1>8

(* A publication uses the best name known (nodemap.go 74-87, serial.go     *)
(* 144-153).                                                               *)
THEOREM PublicationsResolved == Spec => PublishedIsResolved
<1>1. RegistryInv /\ [Next]_vars => [published' # published => IsResolved(Last(published'))]_vars
  <2> SUFFICES ASSUME RegistryInv, Next, published' # published
               PROVE  IsResolved(Last(published'))
    BY DEF vars
  <2>1. \E n \in Node, canonical \in BOOLEAN : NamingLine(n, canonical)
    BY DEF Next, Frame, FramedLine, Handle, Restart
  <2>2. PICK n \in Node, canonical \in BOOLEAN : NamingLine(n, canonical)
    BY <2>1
  <2> DEFINE node == ResolveLong(names, n, canonical)
  <2>3. published' = Append(published, node)
    BY <2>2 DEF NamingLine
  <2>4. node \in Publication /\ published \in Seq(Publication)
    BY ResolveTypes DEF RegistryInv, TypeOK
  <2>5. Last(published') = node
    <3> HIDE DEF node
    <3> QED
      BY <2>3, <2>4 DEF Last
  <2> QED
    BY <2>5, ResolveLongResolves
<1> QED
  BY <1>1, RegistryInvariant, PTL DEF Spec, PublishedIsResolved, IsResolved
=============================================================================
