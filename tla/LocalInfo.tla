------------------------------- MODULE LocalInfo -------------------------------
(***************************************************************************)
(* How meshspy comes to know its own radio: client.GetLocalNodeInfoCached  *)
(* takes the info from nodes.json or asks the radio with meshtastic-go,    *)
(* and main chooses the protocol version by the firmware it names.         *)
(*                                                                         *)
(* Of an info only the owner's id and the firmware are kept; a text that   *)
(* is empty is "none".  The radio may get another firmware or be replaced; *)
(* the process may stop at any step.                                       *)
(***************************************************************************)
EXTENDS Naturals, SequencesExt, FiniteSetsExt

CONSTANTS Radio,       \* ids of radios
          FirstRadio,  \* the one plugged in at first, with its firmware
          MaxChanges,  \* bound: how often the radio changes
          MaxCrashes   \* bound: how often the process stops

ASSUME LocalBounds == MaxChanges \in Nat /\ MaxCrashes \in Nat

VARIABLES radio,     \* the radio plugged in
          changes,   \* counts its changes
          file,      \* nodes.json
          start,     \* where the start-up is
          info,      \* the info in use
          source,    \* where it is from; history
          protoVer,  \* the protocol version
          crashes    \* counts the stops

localVars == <<radio, changes, file, start, info, source, protoVer, crashes>>

Firmware == {"2.1", "2.3"}
Radios == [id : Radio, fw : Firmware]

ASSUME RadioAssumption == "none" \notin Radio /\ FirstRadio \in Radios

(* since is history: the number of changes when the radio was asked.       *)
Info == [id : Radio \cup {"none"}, fw : Firmware \cup {"none"}, since : 0..MaxChanges]
NoInfo == [id |-> "none", fw |-> "none", since |-> 0]

(* A file that is missing, empty or cut off does not parse.                *)
Unreadable == [parses |-> FALSE, info |-> NoInfo]
Holding(i) == [parses |-> TRUE, info |-> i]

VersionIsFirmware(fw) == IF fw = "none" THEN "latest" ELSE fw
ProtoVersionForFirmware(fw) == IF fw = "2.1" THEN "2.1" ELSE "latest"

-----------------------------------------------------------------------------
(* The output of meshtastic-go, line by line.  A block describes one node; *)
(* only the first is read.  A line whose format is not the expected one    *)
(* counts as other.                                                        *)

Node == [kind |-> "node"]
User(id) == [kind |-> "user", value |-> id]
FirmwareVersion(fw) == [kind |-> "firmware", value |-> fw]
Other == [kind |-> "other"]

BlockUnbounded(lines) ==
  LET headers == {i \in DOMAIN lines : lines[i] = Node}
  IN IF headers = {} THEN {} ELSE {i \in DOMAIN lines : i > Min(headers)}
Block(lines) ==
  LET headers == {i \in DOMAIN lines : lines[i] = Node}
  IN IF headers = {} THEN {}
     ELSE {i \in DOMAIN lines : i > Min(headers) /\ \A h \in headers : h > Min(headers) => i < h}

Field(lines, kind) ==
  LET found == {i \in Block(lines) : lines[i].kind = kind}
  IN IF found = {} THEN "none" ELSE lines[Max(found)].value

InfoOf(lines) == [id |-> Field(lines, "user"), fw |-> Field(lines, "firmware"), since |-> changes]

(* What the command prints: the radio's own block, in full or with a line  *)
(* that is not understood, before or without the blocks of other nodes; or *)
(* nothing of use.                                                         *)
OwnBlocks == LET own == <<Node, User(radio.id), FirmwareVersion(radio.fw)>>
             IN {own} \cup {ReplaceAt(own, i, Other) : i \in 2..3}
OtherBlocks == {<< >>} \cup {<<Node, User(r), FirmwareVersion(fw)>> : r \in Radio \ {radio.id}, fw \in Firmware}
Outputs == {<<Other>>} \cup UNION {{own \o others : others \in OtherBlocks} : own \in OwnBlocks}

-----------------------------------------------------------------------------
LocalInit == /\ radio = FirstRadio /\ changes = 0
             /\ file = Unreadable
             /\ start = "load" /\ info = NoInfo /\ source = "none" /\ protoVer = "none" /\ crashes = 0

Usable(i) == i.id # "none" /\ i.fw # "none"

LoadUnchecked ==
  /\ start = "load"
  /\ IF file.parses THEN info' = file.info /\ source' = "file" /\ start' = "loaded"
     ELSE start' = "ask" /\ UNCHANGED <<info, source>>
  /\ UNCHANGED <<radio, changes, file, protoVer, crashes>>
(* A file that does not parse, or lacks the name or the firmware, is as    *)
(* good as none.                                                           *)
Load == /\ start = "load"
        /\ IF file.parses /\ Usable(file.info) THEN info' = file.info /\ source' = "file" /\ start' = "loaded"
           ELSE start' = "ask" /\ UNCHANGED <<info, source>>
        /\ UNCHANGED <<radio, changes, file, protoVer, crashes>>

(* Up to five attempts; when all fail the program goes on without an info. *)
AskRadio ==
  /\ start = "ask"
  /\ \/ \E lines \in Outputs : info' = InfoOf(lines) /\ source' = "radio" /\ start' = "save"
     \/ UNCHANGED <<info, source>> /\ start' = "no_info"
  /\ UNCHANGED <<radio, changes, file, protoVer, crashes>>

(* os.Create empties the file before the info is encoded; each may fail,   *)
(* and a file that could not be created anew stays what it was.            *)
Truncate(from, to, behind) ==
  /\ start = from
  /\ \/ start' = to /\ file' = Unreadable
     \/ start' = behind /\ UNCHANGED file
  /\ UNCHANGED <<radio, changes, info, source, protoVer, crashes>>
Encode(from, to) == /\ start = from /\ start' = to
                    /\ file' \in {Holding(info), file}
                    /\ UNCHANGED <<radio, changes, info, source, protoVer, crashes>>

ChooseVersion == /\ start = "loaded"
                 /\ protoVer' = ProtoVersionForFirmware(info.fw)
                 /\ start' = "save_again"
                 /\ UNCHANGED <<radio, changes, file, info, source, crashes>>

(* The file is saved by GetLocalNodeInfoCached when the radio was asked,   *)
(* and again by main in any case.                                          *)
Save == \/ Truncate("save", "saving", "loaded") \/ Encode("saving", "loaded")
        \/ Truncate("save_again", "saving_again", "send") \/ Encode("saving_again", "send")

StartUp == Load \/ AskRadio \/ ChooseVersion \/ Save

Stop == /\ crashes < MaxCrashes
        /\ crashes' = crashes + 1
        /\ start' = "load" /\ info' = NoInfo /\ source' = "none" /\ protoVer' = "none"
        /\ UNCHANGED <<radio, changes, file>>

(* The radio gets another firmware or is replaced by another radio.        *)
ChangeRadio == /\ changes < MaxChanges
               /\ changes' = changes + 1
               /\ radio' \in Radios \ {radio}
               /\ UNCHANGED <<file, start, info, source, protoVer, crashes>>

LocalTypeOK ==
  /\ radio \in Radios /\ changes \in 0..MaxChanges
  /\ file \in {Unreadable} \cup {Holding(i) : i \in Info}
  /\ start \in {"load", "ask", "save", "saving", "loaded", "save_again", "saving_again", "send", "sending",
               "no_info", "running", "no_port"}
  /\ info \in Info /\ source \in {"none", "file", "radio"}
  /\ protoVer \in {"none", "latest", "2.1"}
  /\ crashes \in 0..MaxCrashes

Settled == start \in {"save_again", "saving_again", "send", "sending", "running", "no_port"} /\ protoVer # "none"

(* The protocol version is that of the radio's firmware unless the radio   *)
(* changed after it was asked or this very start could not make out its    *)
(* answer: a saved info without a firmware, or one cut off by a stop, is   *)
(* never taken for an answer (client.go 203-248, main.go 192-200).         *)
VersionFits ==
  Settled /\ info.since = changes /\ ~(source = "radio" /\ info.fw = "none")
    => protoVer = ProtoVersionForFirmware(radio.fw)

(* What is taken for the local node is a radio, and the id and firmware in *)
(* use were those of one radio at one time: nothing of another node that   *)
(* meshtastic-go lists enters the info (client.go 93-107).                 *)
InfoIsOfTheRadio ==
  Settled /\ info.since = changes => info.id \in {"none", radio.id} /\ info.fw \in {"none", radio.fw}
=============================================================================
