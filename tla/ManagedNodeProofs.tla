--------------------------- MODULE ManagedNodeProofs ---------------------------
(***************************************************************************)
(* Proofs about ManagedNode: for any set of radios, any number of changes  *)
(* of the radio, stops and uploads.                                        *)
(***************************************************************************)
EXTENDS ManagedNode, SequenceTheorems, TLAPS

(***************************************************************************)
(* The first block of what meshtastic-go prints.                           *)
(***************************************************************************)
Line == {Node, Other} \cup {User(r) : r \in Radio} \cup {FirmwareVersion(fw) : fw \in Firmware}

(* No line is of two kinds.                                                *)
LEMMA KindsDiffer ==
  /\ Node.kind = "node" /\ Other.kind = "other"
  /\ \A x : User(x).kind = "user" /\ User(x).value = x
  /\ \A x : FirmwareVersion(x).kind = "firmware" /\ FirmwareVersion(x).value = x
  /\ Other # Node
  /\ \A x : User(x) # Node /\ User(x) # Other /\ FirmwareVersion(x) # Node /\ FirmwareVersion(x) # Other
<1>1. Node.kind = "node" /\ Other.kind = "other"
  BY DEF Node, Other
<1>2. \A x : User(x).kind = "user" /\ User(x).value = x
  BY DEF User
<1>3. \A x : FirmwareVersion(x).kind = "firmware" /\ FirmwareVersion(x).value = x
  BY DEF FirmwareVersion
<1> QED
  BY <1>1, <1>2, <1>3

(* A list of output lines that begins with a whole block of its own: what  *)
(* InfoOf needs to know of it.                                             *)
OwnFirst(lines) ==
  /\ DOMAIN lines = 1..3 \/ (DOMAIN lines = 1..6 /\ lines[4] = Node)
  /\ lines[1] = Node
  /\ lines[2] \in {User(radio.id), Other}
  /\ lines[3] \in {FirmwareVersion(radio.fw), Other}

(* The own block stays the first one whatever follows it.                  *)
LEMMA OwnStaysFirst ==
  ASSUME radio \in Radios,
         NEW own \in Seq(Line), Len(own) = 3, own[1] = Node,
         own[2] \in {User(radio.id), Other}, own[3] \in {FirmwareVersion(radio.fw), Other},
         NEW other \in Seq(Line), other = << >> \/ (Len(other) = 3 /\ other[1] = Node)
  PROVE  OwnFirst(own \o other)
<1>1. /\ own \o other \in Seq(Line)
      /\ Len(own \o other) = Len(own) + Len(other)
      /\ \A i \in 1..Len(own) + Len(other) :
           (own \o other)[i] = IF i <= Len(own) THEN own[i] ELSE other[i - Len(own)]
  BY ConcatProperties, Zenon
<1>2. DOMAIN (own \o other) = 1..3 + Len(other)
  BY <1>1
<1>3. Len(other) = 0 \/ (Len(other) = 3 /\ other[1] = Node)
  OBVIOUS
<1>4. /\ (own \o other)[1] = own[1] /\ (own \o other)[2] = own[2] /\ (own \o other)[3] = own[3]
      /\ Len(other) = 3 => (own \o other)[4] = other[1]
  BY <1>1, <1>3
<1> QED
  BY <1>2, <1>3, <1>4 DEF OwnFirst

LEMMA OutputsShape ==
  ASSUME radio \in Radios, NEW lines \in Outputs
  PROVE  lines = <<Other>> \/ OwnFirst(lines)
<1>1. radio.id \in Radio /\ radio.fw \in Firmware
  BY DEF Radios
<1>2. ASSUME NEW own \in OwnBlocks
      PROVE  /\ own \in Seq(Line) /\ Len(own) = 3 /\ own[1] = Node
             /\ own[2] \in {User(radio.id), Other} /\ own[3] \in {FirmwareVersion(radio.fw), Other}
  <2> DEFINE whole == <<Node, User(radio.id), FirmwareVersion(radio.fw)>>
  <2>1. /\ whole \in Seq(Line) /\ Len(whole) = 3
        /\ whole[1] = Node /\ whole[2] = User(radio.id) /\ whole[3] = FirmwareVersion(radio.fw)
    BY <1>1 DEF Line
  <2>2. ASSUME NEW i \in 2..3
        PROVE  /\ ReplaceAt(whole, i, Other) \in Seq(Line) /\ Len(ReplaceAt(whole, i, Other)) = 3
               /\ \A j \in 1..3 : ReplaceAt(whole, i, Other)[j] = IF j = i THEN Other ELSE whole[j]
    <3> HIDE DEF whole
    <3>1. Other \in Line /\ i \in 1..Len(whole)
      BY <2>1, <2>2 DEF Line
    <3>2. whole \in [1..3 -> Line]
      BY <2>1, LenProperties
    <3>3. DEFINE r == [whole EXCEPT ![i] = Other]
    <3>4. /\ r \in [1..3 -> Line]
          /\ \A j \in 1..3 : r[j] = IF j = i THEN Other ELSE whole[j]
      BY <2>1, <3>1, <3>2
    <3> HIDE DEF r
    <3>5. r \in Seq(Line)
      BY <3>4, SeqDef
    <3>6. Len(r) = 3
      BY <3>4, <3>5, LenProperties
    <3> QED
      BY <3>4, <3>5, <3>6 DEF ReplaceAt, r
  <2>3. own = whole \/ \E i \in 2..3 : own = ReplaceAt(whole, i, Other)
    BY <1>2 DEF OwnBlocks
  <2> HIDE DEF whole
  <2> QED
    BY <2>1, <2>2, <2>3
<1>3. ASSUME NEW o \in OtherBlocks
      PROVE  o \in Seq(Line) /\ (o = << >> \/ (Len(o) = 3 /\ o[1] = Node))
  <2>1. CASE o = << >>
    BY <2>1
  <2>2. ASSUME NEW r \in Radio, NEW fw \in Firmware, o = <<Node, User(r), FirmwareVersion(fw)>>
        PROVE  o \in Seq(Line) /\ Len(o) = 3 /\ o[1] = Node
    <3>1. Node \in Line /\ User(r) \in Line /\ FirmwareVersion(fw) \in Line
      BY DEF Line
    <3> QED
      BY <2>2, <3>1
  <2>3. o = << >> \/ \E r \in Radio \ {radio.id}, fw \in Firmware : o = <<Node, User(r), FirmwareVersion(fw)>>
    BY <1>3 DEF OtherBlocks
  <2> QED
    BY <2>1, <2>2, <2>3
<1>4. lines = <<Other>> \/ \E own \in OwnBlocks, o \in OtherBlocks : lines = own \o o
  BY DEF Outputs
<1>5. ASSUME NEW own \in OwnBlocks, NEW o \in OtherBlocks, lines = own \o o
      PROVE  OwnFirst(lines)
  BY <1>2, <1>3, <1>5, OwnStaysFirst
<1> QED
  BY <1>4, <1>5

LEMMA MinOne == ASSUME NEW S \in SUBSET (Nat \ {0}), 1 \in S PROVE Min(S) = 1
<1>1. \A y \in S : 1 <= y
  OBVIOUS
<1>2. \A x \in S : (\A y \in S : x <= y) => x = 1
  OBVIOUS
<1>3. Min(S) \in S /\ \A y \in S : Min(S) <= y
  BY <1>1, Zenon DEF Min
<1> QED
  BY <1>2, <1>3

LEMMA MaxSingle == ASSUME NEW i \in Nat PROVE Max({i}) = i
  BY DEF Max

(* Only the lines of the first block are read.                             *)
LEMMA BlockIsFirst ==
  ASSUME NEW lines, OwnFirst(lines)
  PROVE  Block(lines) = {2, 3}
<1> DEFINE headers == {i \in DOMAIN lines : lines[i] = Node}
<1>1. headers \in SUBSET (Nat \ {0}) /\ 1 \in headers /\ 2 \notin headers /\ 3 \notin headers
  BY KindsDiffer DEF OwnFirst
<1>2. DOMAIN lines = 1..3 \/ (DOMAIN lines = 1..6 /\ 4 \in headers)
  BY DEF OwnFirst
<1>3. Min(headers) = 1
  BY <1>1, MinOne
<1>4. Block(lines) = {i \in DOMAIN lines : i > 1 /\ \A h \in headers : h > 1 => i < h}
  BY <1>1, <1>3 DEF Block
<1> HIDE DEF headers
<1>5. ASSUME NEW i \in DOMAIN lines, i > 1, \A h \in headers : h > 1 => i < h
      PROVE  i \in {2, 3}
  BY <1>2, <1>5
<1>6. ASSUME NEW i \in {2, 3}, NEW h \in headers, h > 1
      PROVE  i < h
  BY <1>1, <1>6
<1> QED
  BY <1>2, <1>4, <1>5, <1>6

(* What is read from the output is the radio's own id and firmware, or     *)
(* nothing.                                                                *)
LEMMA FieldsAreOwn ==
  ASSUME radio \in Radios, NEW lines \in Outputs
  PROVE  Field(lines, "user") \in {"none", radio.id} /\ Field(lines, "firmware") \in {"none", radio.fw}
<1>1. CASE lines = <<Other>>
  <2>1. DOMAIN lines = {1} /\ lines[1] # Node
    BY <1>1, KindsDiffer
  <2>2. Block(lines) = {}
    BY <2>1 DEF Block
  <2>3. Field(lines, "user") = "none"
    BY <2>2, Zenon DEF Field
  <2>4. Field(lines, "firmware") = "none"
    BY <2>2, Zenon DEF Field
  <2> QED
    BY <2>3, <2>4
<1>2. CASE OwnFirst(lines)
  <2> DEFINE found(kind) == {i \in {2, 3} : lines[i].kind = kind}
  <2>1. \A kind : Field(lines, kind) = IF found(kind) = {} THEN "none" ELSE lines[Max(found(kind))].value
    BY <1>2, BlockIsFirst DEF Field
  <2>2. found("user") = {} \/ (found("user") = {2} /\ lines[2] = User(radio.id))
    BY <1>2, KindsDiffer DEF OwnFirst
  <2>3. found("firmware") = {} \/ (found("firmware") = {3} /\ lines[3] = FirmwareVersion(radio.fw))
    BY <1>2, KindsDiffer DEF OwnFirst
  <2> HIDE DEF found
  <2>4. Max({2}) = 2 /\ Max({3}) = 3
    BY MaxSingle
  <2>5. Field(lines, "user") \in {"none", radio.id}
    <3>1. CASE found("user") = {}
      BY <2>1, <3>1, Zenon
    <3>2. CASE found("user") = {2} /\ lines[2] = User(radio.id)
      <4>1. Field(lines, "user") = lines[2].value
        BY <2>1, <2>4, <3>2
      <4> QED
        BY <3>2, <4>1, KindsDiffer
    <3> QED
      BY <2>2, <3>1, <3>2
  <2>6. Field(lines, "firmware") \in {"none", radio.fw}
    <3>1. CASE found("firmware") = {}
      BY <2>1, <3>1, Zenon
    <3>2. CASE found("firmware") = {3} /\ lines[3] = FirmwareVersion(radio.fw)
      <4>1. Field(lines, "firmware") = lines[3].value
        BY <2>1, <2>4, <3>2
      <4> QED
        BY <3>2, <4>1, KindsDiffer
    <3> QED
      BY <2>3, <3>1, <3>2
  <2> QED
    BY <2>5, <2>6
<1> QED
  BY <1>1, <1>2, OutputsShape

-----------------------------------------------------------------------------
(***************************************************************************)
(* The start of meshspy.  What an info says of the radio it was read from  *)
(* holds as long as the radio is the same, and a start does not go on      *)
(* without a firmware unless the radio itself left it out.                 *)
(***************************************************************************)
InfoFits(i) == /\ i.since <= changes
               /\ i.since = changes => i.id \in {"none", radio.id} /\ i.fw \in {"none", radio.fw}

LocalInv == /\ LocalTypeOK
            /\ InfoFits(info) /\ InfoFits(file.info)
            /\ start \in {"load", "ask"} => protoVer = "none"
            /\ start \in {"save", "saving"} => source = "radio"
            /\ protoVer # "none" => protoVer = ProtoVersionForFirmware(info.fw)
            /\ start = "loaded" \/ protoVer # "none" => source = "radio" \/ info.fw # "none"

LEMMA NoInfoFits ==
  /\ NoInfo \in Info /\ NoInfo.id = "none" /\ NoInfo.fw = "none" /\ NoInfo.since = 0
  /\ Unreadable.info = NoInfo /\ ~Unreadable.parses
  /\ \A i : Holding(i).info = i /\ Holding(i).parses
<1>1. 0 \in 0..MaxChanges
  BY LocalBounds
<1>2. NoInfo \in Info /\ NoInfo.id = "none" /\ NoInfo.fw = "none" /\ NoInfo.since = 0
  BY <1>1 DEF NoInfo, Info
<1>3. Unreadable.info = NoInfo /\ ~Unreadable.parses
  BY DEF Unreadable
<1>4. \A i : Holding(i).info = i /\ Holding(i).parses
  BY DEF Holding
<1> QED
  BY <1>2, <1>3, <1>4

LEMMA LocalInitInv == LocalInit => LocalInv
<1> SUFFICES ASSUME LocalInit PROVE LocalInv
  OBVIOUS
<1>1. LocalTypeOK
  BY NoInfoFits, LocalBounds, RadioAssumption DEF LocalInit, LocalTypeOK
<1>2. InfoFits(info) /\ InfoFits(file.info)
  BY NoInfoFits DEF LocalInit, InfoFits
<1> QED
  BY <1>1, <1>2 DEF LocalInit, LocalInv

(* What nodes.json holds when it is read.                                  *)
LEMMA FileHolds ==
  ASSUME file \in {Unreadable} \cup {Holding(i) : i \in Info}
  PROVE  /\ file.info \in Info
         /\ file.parses => file = Holding(file.info)
         /\ ~file.parses => file = Unreadable
BY NoInfoFits

LEMMA VersionIsOne ==
  ASSUME NEW fw PROVE ProtoVersionForFirmware(fw) \in {"latest", "2.1"}
BY DEF ProtoVersionForFirmware

LEMMA LoadInv == LocalInv /\ Load => LocalInv'
<1> SUFFICES ASSUME LocalInv, Load PROVE LocalInv'
  OBVIOUS
<1>1. /\ UNCHANGED <<radio, changes, file, protoVer, crashes>> /\ start = "load"
      /\ \/ info' = file.info /\ source' = "file" /\ start' = "loaded" /\ file.info.fw # "none"
         \/ start' = "ask" /\ UNCHANGED <<info, source>>
  <2>1. CASE file.parses /\ Usable(file.info)
    BY <2>1 DEF Load, Usable
  <2>2. CASE ~(file.parses /\ Usable(file.info))
    <3>1. start' = "ask" /\ UNCHANGED <<info, source>>
      BY <2>2, Zenon DEF Load
    <3> QED
      BY <3>1 DEF Load
  <2> QED
    BY <2>1, <2>2
<1>2. file.info \in Info
  BY FileHolds DEF LocalInv, LocalTypeOK
<1> QED
  BY <1>1, <1>2 DEF LocalInv, LocalTypeOK, InfoFits

LEMMA AskRadioInv == LocalInv /\ AskRadio => LocalInv'
<1> SUFFICES ASSUME LocalInv, AskRadio PROVE LocalInv'
  OBVIOUS
<1>1. start = "ask" /\ UNCHANGED <<radio, changes, file, protoVer, crashes>> /\ protoVer = "none"
  BY DEF AskRadio, LocalInv
<1>2. ASSUME NEW lines \in Outputs, info' = InfoOf(lines), source' = "radio", start' = "save"
      PROVE  LocalInv'
  <2>1. radio \in Radios /\ changes \in 0..MaxChanges
    BY DEF LocalInv, LocalTypeOK
  <2>2. /\ info'.since = changes
        /\ info'.id \in {"none", radio.id} /\ info'.fw \in {"none", radio.fw}
    BY <1>2, <2>1, FieldsAreOwn DEF InfoOf
  <2>3. info' \in Info
    BY <1>2, <2>1, <2>2 DEF InfoOf, Info, Radios
  <2> QED
    BY <1>1, <1>2, <2>1, <2>2, <2>3 DEF LocalInv, LocalTypeOK, InfoFits
<1>3. CASE UNCHANGED <<info, source>> /\ start' = "no_info"
  BY <1>1, <1>3 DEF LocalInv, LocalTypeOK, InfoFits
<1> QED
  BY <1>2, <1>3 DEF AskRadio

LEMMA ChooseVersionInv == LocalInv /\ ChooseVersion => LocalInv'
BY VersionIsOne DEF LocalInv, LocalTypeOK, InfoFits, ChooseVersion

LEMMA SaveInv == LocalInv /\ Save => LocalInv'
<1> SUFFICES ASSUME LocalInv, Save PROVE LocalInv'
  OBVIOUS
<1>1. /\ UNCHANGED <<radio, changes, info, source, protoVer, crashes>>
      /\ \/ start = "save" /\ start' \in {"saving", "loaded"}
         \/ start = "saving" /\ start' = "loaded"
         \/ start = "save_again" /\ start' \in {"saving_again", "send"}
         \/ start = "saving_again" /\ start' = "send"
  BY DEF Save, Truncate, Encode
<1>2. file' = Unreadable \/ file' = Holding(info) \/ file' = file
  BY DEF Save, Truncate, Encode
<1>3. file' \in {Unreadable} \cup {Holding(i) : i \in Info}
  BY <1>2 DEF LocalInv, LocalTypeOK
<1>4. /\ InfoFits(NoInfo) /\ InfoFits(info) /\ InfoFits(file.info)
      /\ Unreadable.info = NoInfo /\ Holding(info).info = info
  BY LocalBounds DEF LocalInv, LocalTypeOK, InfoFits, NoInfo, Unreadable, Holding
<1>5. file'.info \in {NoInfo, info, file.info}
  BY <1>2, <1>4
<1>6. InfoFits(file.info)'
  BY <1>1, <1>4, <1>5 DEF InfoFits
<1> QED
  BY <1>1, <1>3, <1>6 DEF LocalInv, LocalTypeOK, InfoFits

LEMMA StopInv == LocalInv /\ Stop => LocalInv'
<1> SUFFICES ASSUME LocalInv, Stop PROVE LocalInv'
  OBVIOUS
<1>1. NoInfo \in Info /\ NoInfo.since <= changes /\ NoInfo.id = "none" /\ NoInfo.fw = "none"
  BY LocalBounds DEF LocalInv, LocalTypeOK, NoInfo, Info
<1> QED
  BY <1>1, LocalBounds DEF LocalInv, LocalTypeOK, InfoFits, Stop

(* After a change no info is of the radio plugged in.                      *)
LEMMA ChangeRadioInv == LocalInv /\ ChangeRadio => LocalInv'
<1> SUFFICES ASSUME LocalInv, ChangeRadio PROVE LocalInv'
  OBVIOUS
<1>1. file.info \in Info /\ info \in Info
  BY FileHolds DEF LocalInv, LocalTypeOK
<1>2. info.since \in Nat /\ file.info.since \in Nat
  BY <1>1, LocalBounds DEF Info
<1>3. info.since < changes' /\ file.info.since < changes'
  BY <1>2, LocalBounds DEF LocalInv, LocalTypeOK, InfoFits, ChangeRadio
<1> QED
  BY <1>1, <1>2, <1>3, LocalBounds DEF LocalInv, LocalTypeOK, InfoFits, ChangeRadio

LEMMA LocalNextInv ==
  ASSUME LocalInv, [Next]_vars
  PROVE  LocalInv'
<1>1. CASE StartStep
  BY <1>1, LoadInv, AskRadioInv, ChooseVersionInv, SaveInv DEF StartStep, StartUp
<1>2. CASE SendOwn
  BY <1>2 DEF SendOwn, LocalInv, LocalTypeOK, InfoFits
<1>3. CASE OpenPort
  BY <1>3 DEF OpenPort, LocalInv, LocalTypeOK, InfoFits
<1>4. CASE UNCHANGED localVars
  BY <1>4 DEF localVars, LocalInv, LocalTypeOK, InfoFits
<1>5. CASE Crash
  BY <1>5, StopInv DEF Crash
<1>6. CASE Change
  BY <1>6, ChangeRadioInv DEF Change
<1>7. SendHeard \/ ServerStep \/ GiveUp \/ UNCHANGED vars => UNCHANGED localVars
  BY DEF SendHeard, ServerStep, GiveUp, vars
<1> QED
  BY <1>1, <1>2, <1>3, <1>4, <1>5, <1>6, <1>7 DEF Next

-----------------------------------------------------------------------------
(***************************************************************************)
(* The server.  A handler ends before its client hears of it; only the     *)
(* last upload may still be awaited, so that a handler that writes late    *)
(* writes for a client that has given up.                                  *)
(***************************************************************************)

(* What a sequence is after an assignment to one of its elements.          *)
LEMMA Updated ==
  ASSUME NEW S, NEW s \in Seq(S), NEW i \in DOMAIN s, NEW e \in S
  PROVE  /\ [s EXCEPT ![i] = e] \in Seq(S) /\ Len([s EXCEPT ![i] = e]) = Len(s)
         /\ DOMAIN [s EXCEPT ![i] = e] = DOMAIN s
         /\ \A j \in DOMAIN s : [s EXCEPT ![i] = e][j] = IF j = i THEN e ELSE s[j]
<1> DEFINE t == [s EXCEPT ![i] = e]
<1>1. Len(s) \in Nat /\ s \in [1..Len(s) -> S] /\ DOMAIN s = 1..Len(s)
  BY LenProperties
<1>2. t \in [1..Len(s) -> S] /\ \A j \in 1..Len(s) : t[j] = IF j = i THEN e ELSE s[j]
  BY <1>1
<1> HIDE DEF t
<1>3. t \in Seq(S)
  BY <1>1, <1>2, SeqDef
<1>4. Len(t) = Len(s)
  BY <1>1, <1>2, <1>3, LenProperties
<1> QED
  BY <1>1, <1>2, <1>3, <1>4 DEF t

RowIsNotOlder(u) ==
  LET r == rows[uploads[u].id]
  IN r # 0 /\ (r < u => outcome[r] = "given_up")

MgmtInv == /\ MgmtTypeOK
           /\ \A u \in DOMAIN uploads : u < Len(uploads) => outcome[u] # "waiting"
           /\ \A u \in DOMAIN uploads : /\ outcome[u] = "accepted" => handler[u] = "stored"
                                        /\ outcome[u] = "refused" => handler[u] = "failed"
           /\ \A u \in DOMAIN uploads : handler[u] \in {"row", "stored"} => RowIsNotOlder(u)
           /\ \A u \in positions : handler[u] = "stored"

LEMMA MgmtInitInv == MgmtInit => MgmtInv
BY UploadsAssumption DEF MgmtInit, MgmtInv, MgmtTypeOK

LEMMA Domains ==
  ASSUME MgmtTypeOK
  PROVE  /\ Len(uploads) \in Nat
         /\ DOMAIN uploads = 1..Len(uploads) /\ DOMAIN outcome = 1..Len(uploads)
         /\ DOMAIN handler = 1..Len(uploads)
         /\ \A u \in 1..Len(uploads) : uploads[u].id \in Id /\ outcome[u] \in Outcomes /\ handler[u] \in Stages
<1>1. /\ Len(uploads) \in Nat /\ DOMAIN uploads = 1..Len(uploads) /\ uploads \in [1..Len(uploads) -> Upload]
      /\ DOMAIN outcome = 1..Len(uploads) /\ outcome \in [1..Len(uploads) -> Outcomes]
      /\ DOMAIN handler = 1..Len(uploads) /\ handler \in [1..Len(uploads) -> Stages]
  BY LenProperties DEF MgmtTypeOK
<1> QED
  BY <1>1 DEF Upload

LEMMA SendNodeInv ==
  ASSUME MgmtInv, NEW upload \in Upload, SendNode(upload)
  PROVE  MgmtInv'
<1> DEFINE n == Len(uploads)
<1>1. /\ n \in Nat /\ DOMAIN uploads = 1..n /\ DOMAIN outcome = 1..n /\ DOMAIN handler = 1..n
      /\ \A u \in 1..n : uploads[u].id \in Id /\ outcome[u] \in Outcomes /\ handler[u] \in Stages
  BY Domains DEF MgmtInv
<1>2. /\ uploads' \in Seq(Upload) /\ Len(uploads') = n + 1 /\ DOMAIN uploads' = 1..n + 1
      /\ \A u \in 1..n : uploads'[u] = uploads[u]
      /\ uploads'[n + 1] = upload
  BY <1>1 DEF MgmtInv, MgmtTypeOK, SendNode
<1>3. /\ outcome' \in Seq(Outcomes) /\ Len(outcome') = n + 1
      /\ \A u \in 1..n : outcome'[u] = outcome[u]
      /\ outcome'[n + 1] = "waiting"
  BY <1>1 DEF MgmtInv, MgmtTypeOK, SendNode, Outcomes
<1>4. /\ handler' \in Seq(Stages) /\ Len(handler') = n + 1
      /\ \A u \in 1..n : handler'[u] = handler[u]
      /\ handler'[n + 1] = "sent"
  BY <1>1 DEF MgmtInv, MgmtTypeOK, SendNode, Stages
<1>5. UNCHANGED <<rows, positions>> /\ n < MaxUploads /\ \A u \in 1..n : outcome[u] # "waiting"
  BY <1>1 DEF SendNode, Waiting
<1>6. MgmtTypeOK'
  BY <1>1, <1>2, <1>3, <1>4, <1>5, UploadsAssumption DEF MgmtInv, MgmtTypeOK
<1>7. \A u \in 1..n : RowIsNotOlder(u) => RowIsNotOlder(u)'
  <2> SUFFICES ASSUME NEW u \in 1..n, RowIsNotOlder(u) PROVE RowIsNotOlder(u)'
    OBVIOUS
  <2>1. rows[uploads[u].id] \in 0..n
    BY <1>1 DEF MgmtInv, MgmtTypeOK
  <2> QED
    BY <1>1, <1>2, <1>3, <1>5, <2>1 DEF RowIsNotOlder
<1> HIDE DEF n
<1>8. positions \subseteq 1..n
  BY <1>1 DEF MgmtInv, MgmtTypeOK
<1>9. \A u \in 1..n + 1 : u \in 1..n \/ u = n + 1
  BY <1>1
<1>10. \A u \in DOMAIN uploads' : u < Len(uploads') => outcome'[u] # "waiting"
  BY <1>1, <1>2, <1>3, <1>5
<1>11. \A u \in DOMAIN uploads' : /\ outcome'[u] = "accepted" => handler'[u] = "stored"
                                  /\ outcome'[u] = "refused" => handler'[u] = "failed"
  BY <1>1, <1>2, <1>3, <1>4, <1>9 DEF MgmtInv
<1>12. \A u \in DOMAIN uploads' : handler'[u] \in {"row", "stored"} => RowIsNotOlder(u)'
  BY <1>1, <1>2, <1>4, <1>7, <1>9 DEF MgmtInv
<1>13. \A u \in positions' : handler'[u] = "stored"
  BY <1>1, <1>4, <1>5, <1>8 DEF MgmtInv
<1> QED
  BY <1>6, <1>10, <1>11, <1>12, <1>13 DEF MgmtInv

(* A step of the server's handler of u.                                    *)
LEMMA GoesTo ==
  ASSUME MgmtTypeOK, NEW u \in DOMAIN uploads, NEW from, NEW to \in Stages, Goes(u, from, to)
  PROVE  /\ handler[u] = from
         /\ handler' \in Seq(Stages) /\ Len(handler') = Len(uploads)
         /\ \A v \in DOMAIN uploads : handler'[v] = IF v = u THEN to ELSE handler[v]
<1>1. /\ handler \in Seq(Stages) /\ Len(handler) = Len(uploads) /\ u \in DOMAIN handler
      /\ DOMAIN uploads = DOMAIN handler
  BY Domains DEF MgmtTypeOK
<1> QED
  BY <1>1, Updated DEF Goes

LEMMA FailInv ==
  ASSUME MgmtInv, NEW u \in DOMAIN uploads, Fail(u)
  PROVE  MgmtInv'
<1>1. UNCHANGED <<uploads, outcome, rows, positions>> /\ MgmtTypeOK
  BY DEF Fail, MgmtInv
<1>2. /\ handler[u] \in {"sent", "row"}
      /\ handler' \in Seq(Stages) /\ Len(handler') = Len(uploads)
      /\ \A v \in DOMAIN uploads : handler'[v] = IF v = u THEN "failed" ELSE handler[v]
  BY <1>1, GoesTo DEF Fail, Stages
<1>3. \A v \in DOMAIN uploads : RowIsNotOlder(v)' <=> RowIsNotOlder(v)
  BY <1>1 DEF RowIsNotOlder
<1> QED
  BY <1>1, <1>2, <1>3 DEF MgmtInv, MgmtTypeOK

(* An upload whose handler still writes a row is the last one, or was      *)
(* given up: no later row of the node may be older than an accepted one.   *)
LEMMA UpsertRowInv ==
  ASSUME MgmtInv, NEW u \in DOMAIN uploads, UpsertRow(u)
  PROVE  MgmtInv'
<1>1. UNCHANGED <<uploads, outcome, positions>> /\ rows' = [rows EXCEPT ![uploads[u].id] = u]
  BY DEF UpsertRow
<1>2. /\ Len(uploads) \in Nat /\ DOMAIN uploads = 1..Len(uploads) /\ uploads[u].id \in Id
      /\ outcome[u] \in Outcomes /\ MgmtTypeOK
  BY Domains DEF MgmtInv
<1>3. /\ handler[u] = "sent"
      /\ handler' \in Seq(Stages) /\ Len(handler') = Len(uploads)
      /\ \A v \in DOMAIN uploads : handler'[v] = IF v = u THEN "row" ELSE handler[v]
  BY <1>2, GoesTo DEF UpsertRow, Stages
<1>4. rows' \in [Id -> 0..Len(uploads)]
  BY <1>1, <1>2 DEF MgmtTypeOK
<1>5. MgmtTypeOK'
  BY <1>1, <1>3, <1>4 DEF MgmtInv, MgmtTypeOK
<1>6. u < Len(uploads) => outcome[u] = "given_up"
  BY <1>2, <1>3 DEF MgmtInv, Outcomes
<1>7. ASSUME NEW v \in DOMAIN uploads, handler'[v] \in {"row", "stored"}
      PROVE  RowIsNotOlder(v)'
  <2>1. uploads[v].id \in Id
    BY <1>2, Domains
  <2>2. CASE uploads[v].id = uploads[u].id
    <3>1. rows'[uploads[v].id] = u
      BY <1>1, <1>2, <2>2 DEF MgmtTypeOK
    <3>2. u # 0 /\ (u < v => outcome[u] = "given_up")
      BY <1>2, <1>6
    <3> QED
      BY <1>1, <3>1, <3>2 DEF RowIsNotOlder
  <2>3. CASE uploads[v].id # uploads[u].id
    <3>1. rows'[uploads[v].id] = rows[uploads[v].id]
      BY <1>1, <1>2, <2>1, <2>3 DEF MgmtTypeOK
    <3>2. RowIsNotOlder(v)
      BY <1>3, <1>7, <2>3 DEF MgmtInv
    <3> QED
      BY <1>1, <3>1, <3>2 DEF RowIsNotOlder
  <2> QED
    BY <2>2, <2>3
<1>8. \A v \in DOMAIN uploads : /\ outcome[v] = "accepted" => handler'[v] = "stored"
                                /\ outcome[v] = "refused" => handler'[v] = "failed"
  BY <1>3 DEF MgmtInv
<1>9. \A v \in positions : handler'[v] = "stored"
  BY <1>2, <1>3 DEF MgmtInv, MgmtTypeOK
<1> QED
  BY <1>1, <1>5, <1>7, <1>8, <1>9 DEF MgmtInv

LEMMA AddPositionInv ==
  ASSUME MgmtInv, NEW u \in DOMAIN uploads, AddPosition(u)
  PROVE  MgmtInv'
<1>1. UNCHANGED <<uploads, outcome, rows>> /\ positions' \in {positions, positions \cup {u}} /\ MgmtTypeOK
  BY DEF AddPosition, MgmtInv
<1>2. /\ handler[u] = "row"
      /\ handler' \in Seq(Stages) /\ Len(handler') = Len(uploads)
      /\ \A v \in DOMAIN uploads : handler'[v] = IF v = u THEN "stored" ELSE handler[v]
  BY <1>1, GoesTo DEF AddPosition, Stages
<1>3. \A v \in DOMAIN uploads : RowIsNotOlder(v)' <=> RowIsNotOlder(v)
  BY <1>1 DEF RowIsNotOlder
<1>4. \A v \in positions' : v \in DOMAIN uploads /\ handler'[v] = "stored"
  BY <1>1, <1>2 DEF MgmtInv, MgmtTypeOK
<1> QED
  BY <1>1, <1>2, <1>3, <1>4 DEF MgmtInv, MgmtTypeOK

(* The client hears, or gives up: nothing it was told before is taken      *)
(* back.                                                                   *)
LEMMA OutcomeInv ==
  ASSUME MgmtInv, UNCHANGED <<uploads, handler, rows, positions>>,
         outcome' \in Seq(Outcomes), Len(outcome') = Len(uploads),
         \A u \in DOMAIN uploads :
           \/ outcome'[u] = outcome[u]
           \/ /\ outcome[u] = "waiting"
              /\ \/ outcome'[u] = "given_up"
                 \/ outcome'[u] = "accepted" /\ handler[u] = "stored"
                 \/ outcome'[u] = "refused" /\ handler[u] = "failed"
  PROVE  MgmtInv'
<1>1. MgmtTypeOK'
  BY DEF MgmtInv, MgmtTypeOK
<1>2. \A u \in DOMAIN uploads : RowIsNotOlder(u) => RowIsNotOlder(u)'
  <2> SUFFICES ASSUME NEW u \in DOMAIN uploads, RowIsNotOlder(u) PROVE RowIsNotOlder(u)'
    OBVIOUS
  <2>1. /\ rows[uploads[u].id] \in 0..Len(uploads) /\ Len(uploads) \in Nat
        /\ DOMAIN uploads = 1..Len(uploads)
    BY Domains DEF MgmtInv, MgmtTypeOK
  <2> QED
    BY <2>1 DEF RowIsNotOlder
<1> QED
  BY <1>1, <1>2 DEF MgmtInv

LEMMA AnswerInv ==
  ASSUME MgmtInv, NEW u \in DOMAIN uploads, Answer(u) \/ TimeOut(u)
  PROVE  MgmtInv'
<1>1. /\ UNCHANGED <<uploads, handler, rows, positions>> /\ outcome[u] = "waiting"
      /\ \E o \in {"given_up", "accepted", "refused"} :
           /\ outcome' = [outcome EXCEPT ![u] = o]
           /\ o = "accepted" => handler[u] = "stored"
           /\ o = "refused" => handler[u] = "failed"
  BY DEF Answer, TimeOut
<1>2. /\ outcome \in Seq(Outcomes) /\ Len(outcome) = Len(uploads)
      /\ u \in DOMAIN outcome /\ DOMAIN outcome = DOMAIN uploads
  BY Domains DEF MgmtInv, MgmtTypeOK
<1>3. PICK o \in {"given_up", "accepted", "refused"} :
           /\ outcome' = [outcome EXCEPT ![u] = o]
           /\ o = "accepted" => handler[u] = "stored"
           /\ o = "refused" => handler[u] = "failed"
  BY <1>1
<1>4. /\ outcome' \in Seq(Outcomes) /\ Len(outcome') = Len(uploads)
      /\ \A v \in DOMAIN uploads : outcome'[v] = IF v = u THEN o ELSE outcome[v]
  <2>1. o \in Outcomes
    BY DEF Outcomes
  <2> QED
    BY <1>2, <1>3, <2>1, Updated
<1> QED
  BY <1>1, <1>3, <1>4, OutcomeInv

LEMMA CrashInv ==
  ASSUME MgmtInv, Crash
  PROVE  MgmtInv'
<1>1. /\ Len(outcome) = Len(uploads) /\ Len(uploads) \in Nat
      /\ DOMAIN outcome = 1..Len(uploads) /\ DOMAIN uploads = 1..Len(uploads)
      /\ \A u \in 1..Len(uploads) : outcome[u] \in Outcomes
  BY Domains DEF MgmtInv, MgmtTypeOK
<1>2. /\ UNCHANGED <<uploads, handler, rows, positions>>
      /\ outcome' = [u \in DOMAIN outcome |-> IF outcome[u] = "waiting" THEN "given_up" ELSE outcome[u]]
  BY DEF Crash
<1>3. outcome' \in [1..Len(uploads) -> Outcomes]
  BY <1>1, <1>2 DEF Outcomes
<1>4. outcome' \in Seq(Outcomes)
  BY <1>1, <1>3, SeqDef
<1>5. Len(outcome') = Len(uploads)
  BY <1>1, <1>3, <1>4, LenProperties
<1> QED
  BY <1>1, <1>2, <1>4, <1>5, OutcomeInv

-----------------------------------------------------------------------------
LEMMA MgmtNextInv ==
  ASSUME LocalInv, MgmtInv, [Next]_vars
  PROVE  MgmtInv'
<1>1. CASE SendOwn
  <2>1. \A place \in BOOLEAN : [id |-> info.id, place |-> place] \in Upload
    BY IdAssumption DEF LocalInv, LocalTypeOK, Info, Upload
  <2> QED
    BY <1>1, <2>1, SendNodeInv DEF SendOwn
<1>2. CASE SendHeard
  BY <1>2, SendNodeInv DEF SendHeard
<1>3. CASE ServerStep
  BY <1>3, FailInv, UpsertRowInv, AddPositionInv, AnswerInv DEF ServerStep, Server
<1>4. CASE GiveUp
  BY <1>4, AnswerInv DEF GiveUp
<1>5. CASE Crash
  BY <1>5, CrashInv
<1>6. CASE UNCHANGED mgmtVars
  BY <1>6 DEF mgmtVars, MgmtInv, MgmtTypeOK, RowIsNotOlder
<1>7. StartStep \/ OpenPort \/ Change \/ UNCHANGED vars => UNCHANGED mgmtVars
  BY DEF StartStep, OpenPort, Change, vars, mgmtVars
<1> QED
  BY <1>1, <1>2, <1>3, <1>4, <1>5, <1>6, <1>7 DEF Next

(***************************************************************************)
(* The inductive invariant.                                                *)
(***************************************************************************)
NodeInv == LocalInv /\ MgmtInv

LEMMA NodeInvariant == Spec => []NodeInv
<1>1. Init => NodeInv
  BY LocalInitInv, MgmtInitInv DEF Init, NodeInv
<1>2. NodeInv /\ [Next]_vars => NodeInv'
  BY LocalNextInv, MgmtNextInv DEF NodeInv
<1> QED
  BY <1>1, <1>2, PTL DEF Spec

(* Every variable of the start and of the uploads keeps its type.          *)
THEOREM NodeTypeCorrect == Spec => []TypeOK
<1>1. NodeInv => TypeOK
  BY DEF NodeInv, LocalInv, MgmtInv, TypeOK
<1> QED
  BY <1>1, NodeInvariant, PTL

(* The protocol version is that of the firmware of the radio, unless the   *)
(* radio changed since it was asked or left its firmware out of this very  *)
(* start's answer (client.go 203-248, main.go 192-200).                    *)
THEOREM VersionFitsRadio == Spec => []VersionFits
<1>1. NodeInv => VersionFits
  BY DEF NodeInv, LocalInv, InfoFits, VersionFits, Settled
<1> QED
  BY <1>1, NodeInvariant, PTL

(* Nothing of another node that meshtastic-go lists enters the info of the *)
(* local node (client.go 93-107).                                          *)
THEOREM InfoIsOwn == Spec => []InfoIsOfTheRadio
<1>1. NodeInv => InfoIsOfTheRadio
  BY DEF NodeInv, LocalInv, InfoFits, InfoIsOfTheRadio
<1> QED
  BY <1>1, NodeInvariant, PTL

(* What SendNode reports as accepted stays in the server's database until  *)
(* a later upload of the node, or an older one that was given up, replaces *)
(* it (mgmtapi/client.go 51, unifiserver/main.go 52-67).                   *)
THEOREM AcceptedStays == Spec => []AcceptedIsKept
<1>1. NodeInv => AcceptedIsKept
  BY DEF NodeInv, MgmtInv, RowIsNotOlder, AcceptedIsKept
<1> QED
  BY <1>1, NodeInvariant, PTL

(* Every position the server lists is that of a node it lists              *)
(* (nodestore.go 93-142).                                                  *)
THEOREM ServerPositionsBelong == Spec => []ServerPositionsHaveRows
<1>1. NodeInv => ServerPositionsHaveRows
  BY DEF NodeInv, MgmtInv, MgmtTypeOK, RowIsNotOlder, ServerPositionsHaveRows
<1> QED
  BY <1>1, NodeInvariant, PTL
=============================================================================
