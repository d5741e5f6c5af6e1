----------------------------- MODULE NodeRegistry -----------------------------
(***************************************************************************)
(* What meshspy remembers of the nodes it hears: the node map in memory    *)
(* (nodemap/nodemap.go), the tables nodes and positions of the database    *)
(* (storage/nodestore.go), and the names it publishes for the nodes found  *)
(* in log lines (serial/serial.go).  They are fed by the callbacks of      *)
(* cmd/meshspy/main.go: one step is one frame or one line, with every      *)
(* callback it triggers.                                                   *)
(*                                                                         *)
(* Keys are "0x" ids, given as the number they spell, and of the local     *)
(* node its "!" id, LocalKey, or "", EmptyKey.                             *)
(***************************************************************************)
EXTENDS PacketDispatch, SequencesExt

CONSTANTS Messages,       \* the messages the radio sends
          Firmwares,      \* the protocol versions of the firmwares the radio may have
          LocalInfos,     \* what meshtastic-go info, or the cache, may say of the local node
          Lists,          \* the lists of nodes meshtastic-go may give
          Faults,         \* whether statements and publications may fail
          MaxRestarts,    \* bound: restarts in one behaviour
          MaxPublished    \* bound: names published in one behaviour

(* The line with the id and the names of the local node gives all of them, *)
(* or none when it is not as expected; lists have no short names.          *)
LocalInfo == [long : Name, short : Name, place : Place] \cup
             [long : {NoName}, short : {NoName}, place : Place]
ListedNode == [long : Name \cup {NoName}, place : Place]

ASSUME RegistryAssumption == /\ Messages \subseteq FromRadio
                             /\ Firmwares \subseteq Versions \ {"none"}
                             /\ LocalInfos \subseteq LocalInfo
                             /\ \A L \in Lists : DOMAIN L \subseteq Node /\ \A n \in DOMAIN L : L[n] \in ListedNode
                             /\ Faults \in BOOLEAN
                             /\ MaxRestarts \in Nat /\ MaxPublished \in Nat

LocalKey == -1
EmptyKey == -2
Key == Node \cup Id \cup {0, LocalKey, EmptyKey}

VARIABLES names,      \* nodemap: names by node number, in memory
          rows,       \* table nodes: what was stored last, by key
          positions,  \* table positions: keys and places (order and times left out)
          lastNode,   \* readLoop's lastNode, << >> when ""
          published,  \* what was published, oldest first
          heard,      \* history: the last NodeInfo message of each node that could be read
          told,       \* history: where nodes were said to be
          version,    \* the protocol version readLoop was started with
          restarts    \* counts the restarts

vars == <<names, rows, positions, lastNode, published, heard, told, version, restarts>>

Entry == [long : Name \cup {NoName}, short : Name \cup {NoName}]
Row == [long : Name \cup {NoName}, short : Name \cup {NoName}, place : Place]

(* A node as a publication names it: by a name, or by its id as the line   *)
(* spelled it.                                                             *)
ById(n, canonical) == [id |-> n, canonical |-> canonical]
ByName(x) == [name |-> x]
Publication == [id : Node, canonical : BOOLEAN] \cup [name : Name]

Put(f, k, v) == [x \in DOMAIN f \cup {k} |-> IF x = k THEN v ELSE f[x]]

-----------------------------------------------------------------------------
(* nodemap.go.  A new name replaces the old one, no name keeps it.         *)

Or(new, old) == IF new # NoName THEN new ELSE old

EntryOf(m, n) == IF n \in DOMAIN m THEN m[n] ELSE [long |-> NoName, short |-> NoName]

ReplaceEntry(m, n, long, short) == Put(m, n, [long |-> long, short |-> short])
Update(m, n, long, short) ==
  Put(m, n, [long |-> Or(long, EntryOf(m, n).long), short |-> Or(short, EntryOf(m, n).short)])

UpdateFromProto(m, info) ==
  IF ~info.user.set \/ (info.num = 0 /\ info.user.long = NoName /\ info.user.short = NoName)
  THEN m
  ELSE Update(m, info.num, info.user.long, info.user.short)

ResolveShortFirst(m, n, canonical) ==
  IF canonical /\ EntryOf(m, n).short # NoName THEN ByName(EntryOf(m, n).short)
  ELSE IF canonical /\ EntryOf(m, n).long # NoName THEN ByName(EntryOf(m, n).long)
  ELSE ById(n, canonical)
(* Ids spelled in another way than the map's keys are not found.           *)
ResolveLong(m, n, canonical) ==
  IF canonical /\ EntryOf(m, n).long # NoName THEN ByName(EntryOf(m, n).long)
  ELSE IF canonical /\ EntryOf(m, n).short # NoName THEN ByName(EntryOf(m, n).short)
  ELSE ById(n, canonical)

-----------------------------------------------------------------------------
(* nodestore.go.  A store is the pair of its tables.  The two statements   *)
(* of Upsert are not a transaction: the second may fail alone.             *)

AddEveryPosition(pos, k, place) == pos \cup {<<k, place>>}
AddPosition(pos, k, place) == IF place = NoPlace THEN pos ELSE pos \cup {<<k, place>>}

Written(s, k, row) == [rows |-> Put(s.rows, k, row), positions |-> AddPosition(s.positions, k, row.place)]

UpsertPositionFirst(s, k, row) ==
  IF Faults THEN {s, [s EXCEPT !.positions = AddPosition(@, k, row.place)], Written(s, k, row)}
  ELSE {Written(s, k, row)}
Upsert(s, k, row) ==
  IF Faults THEN {s, [s EXCEPT !.rows = Put(@, k, row)], Written(s, k, row)}
  ELSE {Written(s, k, row)}

(* The waypoint's id serves as the node id of its position.                *)
AddWaypoint(s, id, place) ==
  LET done == [s EXCEPT !.positions = AddPosition(@, id, place)]
  IN IF Faults THEN {s, done} ELSE {done}

RowOfNodeInfo(info) == [long |-> info.user.long, short |-> info.user.short, place |-> info.place]
RowOfMyInfo == [long |-> NoName, short |-> NoName, place |-> NoPlace]

-----------------------------------------------------------------------------
(* The callbacks of main.go on a store s: the stores they may leave.       *)

Results(calls, callback) == {c[2] : c \in {d \in calls : d[1] = callback}}

AfterNodeInfo(s, calls) ==
  LET infos == {i \in Results(calls, "nodeInfo") : i.user.set}
  IN IF infos = {} THEN {s} ELSE UNION {Upsert(s, i.num, RowOfNodeInfo(i)) : i \in infos}

AfterMyInfo(s, calls) ==
  LET nums == Results(calls, "myInfo")
  IN IF nums = {} THEN {s} ELSE UNION {Upsert(s, n, RowOfMyInfo) : n \in nums}

(* A waypoint in its packet has an id of its own.                          *)
WaypointIds(m) == IF IsPacket(m, WaypointPort) THEN Id \cup Node ELSE {m.id}

AfterWaypoint(s, calls, m) ==
  LET places == Results(calls, "waypoint")
  IN IF places = {} THEN {s} ELSE UNION {AddWaypoint(s, w, p) : w \in WaypointIds(m), p \in places}

Stores(s, calls, m) ==
  UNION {UNION {AfterWaypoint(u, calls, m) : u \in AfterMyInfo(t, calls)} : t \in AfterNodeInfo(s, calls)}

-----------------------------------------------------------------------------
(* Start-up.  The memory is empty.  The cached info of the local node has  *)
(* no number, so that its names go to 0x0, and its row to its id.  Then    *)
(* each listed node is entered and stored, whatever failed before.         *)
LocalId(info) == IF info.long = NoName THEN EmptyKey ELSE LocalKey

Listed(m, L) ==
  [n \in DOMAIN m \cup DOMAIN L |-> IF n \in DOMAIN L THEN Update(m, n, L[n].long, NoName)[n] ELSE m[n]]

(* Of the nodes of L the rows of R and the places of P are stored.         *)
ListedRows(s, L, R, P) ==
  [rows |-> [k \in DOMAIN s.rows \cup R |->
               IF k \in R THEN [long |-> L[k].long, short |-> NoName, place |-> L[k].place] ELSE s.rows[k]],
   positions |-> s.positions \cup {<<n, L[n].place>> : n \in {l \in P : L[l].place # NoPlace}}]

UpsertList(s, L) ==
  IF Faults THEN UNION {{ListedRows(s, L, R, P) : P \in SUBSET R} : R \in SUBSET DOMAIN L}
  ELSE {ListedRows(s, L, DOMAIN L, DOMAIN L)}

Placed(pairs) == {t \in pairs : t[2] # NoPlace}

(* What a start-up tells, and may leave of the tables s: with the info of  *)
(* the local node, whose firmware decides the protocol version, and a list *)
(* of nodes, which may be missing; or without info, and then nothing.      *)
ToldAtStart(info, L) ==
  Placed({<<LocalId(info), info.place>>} \cup {<<n, L[n].place>> : n \in DOMAIN L})

StartUp(s, info, L) ==
  [names : {Listed(Update(<< >>, 0, info.long, info.short), L)},
   store : UNION {UpsertList(t, L) : t \in Upsert(s, LocalId(info), info)},
   told : {ToldAtStart(info, L)},
   version : Firmwares]

StartUps(s) ==
  [names : {<< >>}, store : {s}, told : {{}}, version : {"none"}] \cup
  UNION {UNION {StartUp(s, info, L) : L \in Lists \cup {<< >>}} : info \in LocalInfos}

Init == /\ \E start \in StartUps([rows |-> << >>, positions |-> {}]) :
             /\ names = start.names
             /\ rows = start.store.rows /\ positions = start.store.positions
             /\ told = start.told
             /\ version = start.version
        /\ lastNode = << >>
        /\ published = << >>
        /\ heard = << >>
        /\ restarts = 0

Store == [rows |-> rows, positions |-> positions]

Readable(m) == m.field = NodeInfoField /\ Parses(m) /\ m.info.user.set

Handle(m, calls) ==
  /\ names' = LET infos == Results(calls, "nodeInfo")
              IN IF infos = {} THEN names
                 ELSE UpdateFromProto(names, CHOOSE i \in infos : TRUE)
  /\ \E s \in Stores(Store, calls, m) : rows' = s.rows /\ positions' = s.positions
  /\ heard' = IF Readable(m) THEN Put(heard, m.info.num, m.info) ELSE heard
  /\ told' = told \cup (IF Readable(m) THEN Placed({<<m.info.num, m.info.place>>}) ELSE {})
  /\ UNCHANGED <<lastNode, published, version, restarts>>

(* A frame, and a line that holds a framed message of a 2.1 radio.         *)
Frame(m) == Handle(m, DispatchFrame(m, version))
FramedLine(m) == version = "2.1" /\ Handle(m, DispatchLine(m, version))

(* A line of log text that names a node.  lastNode is set first; whether   *)
(* the publication succeeds is only logged.  0x0 is no node.  Its bytes    *)
(* may happen to be a message, which then takes it; as printable ones they *)
(* cannot hold a number, a user or a place, and nothing else is kept.      *)
NamingLine(n, canonical) ==
  LET node == ResolveLong(names, n, canonical) IN
  /\ \/ UNCHANGED <<lastNode, published>>
     \/ /\ node # lastNode
        /\ Len(published) < MaxPublished
        /\ lastNode' = node
        /\ published' \in {Append(published, node)} \cup (IF Faults THEN {published} ELSE {})
  /\ UNCHANGED <<names, rows, positions, heard, told, version, restarts>>

(* A crash or a stop, and the next start-up.                               *)
Restart ==
  /\ restarts < MaxRestarts
  /\ restarts' = restarts + 1
  /\ \E start \in StartUps(Store) :
       /\ names' = start.names
       /\ rows' = start.store.rows /\ positions' = start.store.positions
       /\ told' = told \cup start.told
       /\ version' = start.version
  /\ lastNode' = << >>
  /\ UNCHANGED <<published, heard>>

Next == \/ \E m \in Messages : Frame(m) \/ FramedLine(m)
        \/ \E n \in Node, canonical \in BOOLEAN : NamingLine(n, canonical)
        \/ Restart

Spec == Init /\ [][Next]_vars

-----------------------------------------------------------------------------
TypeOK ==
  /\ DOMAIN names \subseteq Key /\ \A n \in DOMAIN names : names[n] \in Entry
  /\ DOMAIN rows \subseteq Key /\ \A k \in DOMAIN rows : rows[k] \in Row
  /\ positions \subseteq Key \X (Place \ {NoPlace})
  /\ lastNode \in Publication \cup {<< >>}
  /\ published \in Seq(Publication)
  /\ DOMAIN heard \subseteq Node /\ \A n \in DOMAIN heard : heard[n] \in NodeInfo
  /\ told \subseteq Key \X (Place \ {NoPlace})
  /\ version \in Firmwares \cup {"none"}
  /\ restarts \in 0..MaxRestarts

(* Within one run of the program a node's name changes only when a         *)
(* NodeInfo message of that very node says so, and is never forgotten: not *)
(* by messages without names, nor by packets whose bytes are also read as  *)
(* a NodeInfo (nodemap.go 31-53, nodeinfo.go 28-35).                       *)
NamesOnlyFromOwnInfo ==
  [][restarts' = restarts =>
       \A n \in DOMAIN names \ {0} :
         /\ n \in DOMAIN names'
         /\ names'[n] # names[n] => n \in DOMAIN heard'
         /\ names'[n].long # names[n].long => names'[n].long = heard'[n].user.long
         /\ names'[n].short # names[n].short => names'[n].short = heard'[n].user.short
         /\ names[n].long # NoName => names'[n].long # NoName
         /\ names[n].short # NoName => names'[n].short # NoName]_vars

(* Every recorded position is that of a waypoint the radio may send, or    *)
(* where a node was said to be, by a NodeInfo message of its own or at     *)
(* start-up, and then the node has its row: whatever statement of Upsert   *)
(* fails, wherever the program stops, and whatever else the bytes of the   *)
(* messages were read as (nodestore.go 93-105, 131-142, 170-180).          *)
Waypoints == UNION {WaypointIds(m) \X {m.place} : m \in {w \in Messages : IsPacket(w, WaypointPort) /\ w.valid}}

PositionsAreTold ==
  \A p \in positions : p \in Waypoints \/ (p \in told /\ p[1] \in DOMAIN rows)

(* A publication uses the best name known: an id in the map's spelling     *)
(* goes out only while the node has no name, a short name only while it    *)
(* has no long one (nodemap.go 74-87, serial.go 144-153).                  *)
PublishedIsResolved ==
  [][published' # published =>
       LET p == Last(published') IN
       IF "name" \in DOMAIN p
       THEN \E n \in DOMAIN names :
              p.name = names[n].long \/ (names[n].long = NoName /\ p.name = names[n].short)
       ELSE p.canonical => EntryOf(names, p.id) = [long |-> NoName, short |-> NoName]]_vars

(* README 127-129: the row of a node holds its last NodeInfo message.      *)
RowsHoldLastNodeInfo ==
  \A n \in DOMAIN heard : n \in DOMAIN rows /\ rows[n] = RowOfNodeInfo(heard[n])
=============================================================================
