---------------------- MODULE CloudConnection_proofs ----------------------
(* Theorems about CloudConnection: the types, the four properties that its    *)
(* run checks, and the invariant ConnectionInv they follow from.  A key is    *)
(* followed from the lookup that proves it over the files of a device to the  *)
(* upload that uses it (KeyIsProven, SavedFirst, AcknowledgedIsKnown), and a  *)
(* v0.1.0 connection to the two entries of the migration slot                 *)
(* (LegacyIsPreserved).  Each part has a lemma about one step.  The lemmas    *)
(* before them say where a step can lead and what it can change of a command, *)
(* of a device and of the account, so that a part looks only at the steps     *)
(* that matter to it.                                                         *)
EXTENDS CloudConnection, FiniteSetTheorems, TLAPS

(* What a lookup can say, and the points of a command.                        *)
States == {"none", "missing", "valid", "invalid", "conflict"}
Points == {"new"} \cup Running \cup Ended

(* The record of a command that goes on.                                      *)
LEMMA JobTyped ==
    ASSUME cmd \in [Commands -> Jobs], NEW c \in Commands, NEW pc \in Points
    PROVE  /\ [cmd EXCEPT ![c].pc = pc] \in [Commands -> Jobs]
           /\ \A secret \in Secrets :
                 [cmd EXCEPT ![c].pc = pc, ![c].secret = secret] \in [Commands -> Jobs]
           /\ \A key \in Keys \cup {"none"}, secret \in Secrets :
                 [cmd EXCEPT ![c].pc = pc, ![c].key = key, ![c].secret = secret] \in [Commands -> Jobs]
           /\ \A state \in States :
                 [cmd EXCEPT ![c].pc = pc, ![c].state = state] \in [Commands -> Jobs]
           /\ \A state \in States, key \in Keys \cup {"none"} :
                 [cmd EXCEPT ![c].pc = pc, ![c].state = state, ![c].key = key] \in [Commands -> Jobs]
           /\ \A key \in Keys \cup {"none"}, existing \in BOOLEAN :
                 [cmd EXCEPT ![c].pc = pc, ![c].key = key, ![c].existing = existing] \in [Commands -> Jobs]
           /\ \A d \in Devices, manual \in Keys \cup {"none"} :
                 [cmd EXCEPT ![c].pc = pc, ![c].dev = d, ![c].manual = manual] \in [Commands -> Jobs]
PROOF
<1>1. \A job \in Jobs : [cmd EXCEPT ![c] = job] \in [Commands -> Jobs]
  OBVIOUS
<1>2. cmd[c] \in Jobs
  OBVIOUS
<1>3. /\ [cmd[c] EXCEPT !.pc = pc] \in Jobs
      /\ \A secret \in Secrets : [cmd[c] EXCEPT !.pc = pc, !.secret = secret] \in Jobs
      /\ \A key \in Keys \cup {"none"}, secret \in Secrets :
            [cmd[c] EXCEPT !.pc = pc, !.key = key, !.secret = secret] \in Jobs
      /\ \A state \in States : [cmd[c] EXCEPT !.pc = pc, !.state = state] \in Jobs
  BY <1>2 DEF Jobs, States, Points
<1>4. /\ \A state \in States, key \in Keys \cup {"none"} :
            [cmd[c] EXCEPT !.pc = pc, !.state = state, !.key = key] \in Jobs
      /\ \A key \in Keys \cup {"none"}, existing \in BOOLEAN :
            [cmd[c] EXCEPT !.pc = pc, !.key = key, !.existing = existing] \in Jobs
      /\ \A d \in Devices, manual \in Keys \cup {"none"} :
            [cmd[c] EXCEPT !.pc = pc, !.dev = d, !.manual = manual] \in Jobs
  BY <1>2 DEF Jobs, States, Points
<1> QED
  BY <1>1, <1>3, <1>4

(* A command that was not given yet.                                          *)
LEMMA WaitingTyped == Waiting \in Jobs
PROOF
  BY DEF Waiting, Jobs, Secrets

(* A command that goes on to its next call, or reports.                       *)
LEMMA GotoTyped ==
    ASSUME cmd \in [Commands -> Jobs], NEW c \in Commands, NEW step \in Points, Goto(c, step)
    PROVE  cmd' \in [Commands -> Jobs]
PROOF
<1>1. cmd[c] \in Jobs
  OBVIOUS
<1>2. cmd[c].key \in Keys \cup {"none"} /\ cmd[c].state \in States
  BY <1>1 DEF Jobs, States
<1>3. Report(c, step) \in Jobs
  <2>1. [Waiting EXCEPT !.pc = step] \in Jobs
    BY WaitingTyped DEF Jobs, Points
  <2>2. [Waiting EXCEPT !.pc = step, !.key = cmd[c].key, !.state = cmd[c].state] \in Jobs
    BY <1>2, WaitingTyped DEF Jobs, States, Points
  <2> QED
    BY <2>1, <2>2 DEF Report
<1>4. [cmd[c] EXCEPT !.pc = step] \in Jobs
  BY <1>1 DEF Jobs, Points
<1> QED
  BY <1>3, <1>4 DEF Goto

(* A device's files with one of them changed.                                 *)
LEMMA FilesTyped ==
    ASSUME local \in [Devices -> Locals], NEW d \in Devices
    PROVE  /\ \A h \in Locals : [local EXCEPT ![d] = h] \in [Devices -> Locals]
           /\ [local EXCEPT ![d].config = Absent] \in [Devices -> Locals]
           /\ \A secret \in Secrets :
                 /\ [local EXCEPT ![d].secret = secret] \in [Devices -> Locals]
                 /\ [local EXCEPT ![d].config.secret = secret] \in [Devices -> Locals]
                 /\ [local EXCEPT ![d].slot.config = secret] \in [Devices -> Locals]
                 /\ [local EXCEPT ![d].slot.secret = secret] \in [Devices -> Locals]
           /\ \A material \in Material :
                 /\ [local EXCEPT ![d].managed = material] \in [Devices -> Locals]
                 /\ [local EXCEPT ![d].ack = material] \in [Devices -> Locals]
           /\ \A remote \in Remotes :
                 [local EXCEPT ![d].config.remotes = @ \cup {remote}] \in [Devices -> Locals]
PROOF
<1>1. Absent \in Configs
  BY DEF Absent, Configs, Secrets
<1>2. local[d] \in Locals /\ local[d].config \in Configs /\ local[d].slot \in Slots
  BY DEF Locals
<1>3. \A h \in Locals : [local EXCEPT ![d] = h] \in [Devices -> Locals]
  OBVIOUS
<1>4. /\ \A config \in Configs : [local[d] EXCEPT !.config = config] \in Locals
      /\ \A slot \in Slots : [local[d] EXCEPT !.slot = slot] \in Locals
  BY <1>2 DEF Locals
<1>5. ASSUME NEW secret \in Secrets
      PROVE  /\ [local EXCEPT ![d].secret = secret] \in [Devices -> Locals]
             /\ [local EXCEPT ![d].config.secret = secret] \in [Devices -> Locals]
             /\ [local EXCEPT ![d].slot.config = secret] \in [Devices -> Locals]
             /\ [local EXCEPT ![d].slot.secret = secret] \in [Devices -> Locals]
  <2>1. /\ [local[d].config EXCEPT !.secret = secret] \in Configs
        /\ [local[d].slot EXCEPT !.config = secret] \in Slots
        /\ [local[d].slot EXCEPT !.secret = secret] \in Slots
    BY <1>2 DEF Configs, Slots
  <2>2. [local[d] EXCEPT !.secret = secret] \in Locals
    BY <1>2 DEF Locals
  <2> QED
    BY <1>3, <1>4, <2>1, <2>2
<1>6. ASSUME NEW material \in Material
      PROVE  /\ [local EXCEPT ![d].managed = material] \in [Devices -> Locals]
             /\ [local EXCEPT ![d].ack = material] \in [Devices -> Locals]
  <2>1. /\ [local[d] EXCEPT !.managed = material] \in Locals
        /\ [local[d] EXCEPT !.ack = material] \in Locals
    BY <1>2 DEF Locals
  <2> QED
    BY <1>3, <2>1
<1>7. ASSUME NEW remote \in Remotes
      PROVE  [local EXCEPT ![d].config.remotes = @ \cup {remote}] \in [Devices -> Locals]
  <2>1. [local[d].config EXCEPT !.remotes = @ \cup {remote}] \in Configs
    BY <1>2 DEF Configs
  <2> QED
    BY <1>3, <1>4, <2>1
<1> QED
  BY <1>1, <1>3, <1>4, <1>5, <1>6, <1>7

(* What a command reads of itself and of its device.                          *)
LEMMA CommandFacts ==
    ASSUME TypeOK, Placed, NEW c \in Commands
    PROVE  /\ cmd[c].pc \in Points /\ cmd[c].secret \in Secrets /\ cmd[c].key \in Keys \cup {"none"}
           /\ cmd[c].manual \in Keys \cup {"none"} /\ cmd[c].state \in States /\ cmd[c].existing \in BOOLEAN
           /\ cmd[c].pc \in Running =>
                 /\ cmd[c].dev \in Devices /\ Here(c) \in Locals
                 /\ Here(c).config \in Configs /\ Here(c).slot \in Slots
                 /\ Here(c).config.remotes \subseteq Remotes /\ Here(c).config.secret \in Secrets
                 /\ Here(c).secret \in Secrets
                 /\ Here(c).managed \in Material /\ Here(c).ack \in Material
                 /\ Here(c).slot.config \in Secrets /\ Here(c).slot.secret \in Secrets
           /\ c \in Secrets /\ {"none", "torn", "typed"} \subseteq Secrets
           /\ Keys \subseteq Material /\ {"none", "torn"} \subseteq Material
PROOF
<1>1. cmd[c] \in Jobs
  BY DEF TypeOK
<1>2. cmd[c].pc \in Running => cmd[c].dev \in Devices /\ Here(c) \in Locals
  BY DEF TypeOK, Placed, Here
<1>3. cmd[c].pc \in Running => Here(c).config \in Configs /\ Here(c).slot \in Slots
  BY <1>2 DEF Locals
<1> QED
  BY <1>1, <1>2, <1>3 DEF Jobs, Locals, Configs, Slots, Secrets, Material, NotKeys, Points, States

(* The files of one device change.                                            *)
LEMMA HereTyped ==
    ASSUME TypeOK, Placed, NEW c \in Commands, cmd[c].pc \in Running, NEW h \in Locals,
           local' = [local EXCEPT ![cmd[c].dev] = h]
    PROVE  local' \in [Devices -> Locals]
PROOF
  BY DEF TypeOK

(* A command that ends goes on to its cleanup or its report.                  *)
LEMMA EndsTyped ==
    ASSUME TypeOK, NEW c \in Commands, Ends(c)
    PROVE  cmd' \in [Commands -> Jobs]
PROOF
<1>1. {"cleanup", "failed"} \subseteq Points
  BY DEF Points, Running, ConnectSteps, Ended
<1> QED
  BY <1>1, GotoTyped DEF Ends, TypeOK

(* A file that a call has created and written when its command dies: the      *)
(* password or the acknowledgement.                                           *)
LEMMA WrittenFacts ==
    ASSUME NEW c \in Commands
    PROVE  \/ Written(c) = Here(c)
           \/ cmd[c].pc \in {"password", "keepTyped"} /\ Here(c).secret = "none"
              /\ \E secret \in {c, "typed"} : Written(c) = [Here(c) EXCEPT !.secret = secret]
           \/ cmd[c].pc = "acknowledge" /\ Here(c).ack = "none"
              /\ Written(c) = [Here(c) EXCEPT !.ack = cmd[c].key]
PROOF
  BY DEF Written

(* A file that is only created: always one that was not there.                *)
LEMMA TornFacts ==
    ASSUME NEW c \in Commands
    PROVE  \/ Torn(c) = Here(c)
           \/ Here(c).secret = "none" /\ Torn(c) = [Here(c) EXCEPT !.secret = "torn"]
           \/ cmd[c].pc = "save" /\ Here(c).managed = "none"
              /\ Torn(c) = [Here(c) EXCEPT !.managed = "torn"]
           \/ Here(c).ack = "none" /\ Torn(c) = [Here(c) EXCEPT !.ack = "torn"]
           \/ Here(c).slot.config = "none" /\ Torn(c) = [Here(c) EXCEPT !.slot.config = "torn"]
           \/ Here(c).slot.secret = "none" /\ Torn(c) = [Here(c) EXCEPT !.slot.secret = "torn"]
PROOF
  BY DEF Torn

(* The points of a connection and of the other commands.                      *)
LEMMA PointFacts ==
    /\ ConnectSteps \cup DisconnectSteps \cup OtherSteps \cup Ended \cup {"new"} = Points
    /\ Running = ConnectSteps \cup DisconnectSteps \cup OtherSteps
    /\ \A kind \in {"connect", "disconnect", "upload", "unlock"} : First[kind] \in Running
PROOF
  BY DEF Points, Running, ConnectSteps, DisconnectSteps, OtherSteps, Ended, First

(* What all steps of a command have in common.                                *)
LEMMA StepTyped ==
    ASSUME TypeOK, Placed, NEW c \in Commands
    PROVE  /\ Calm \/ Trouble => left' \in 0 .. MaxTroubles
           /\ Ends(c) => cmd' \in [Commands -> Jobs]
           /\ \A step \in Points : Goto(c, step) => cmd' \in [Commands -> Jobs]
           /\ Refuses(c) => TypeOK'
PROOF
<1>1. Calm \/ Trouble => left' \in 0 .. MaxTroubles
  BY ConnectionAssumption DEF TypeOK, Trouble, Calm
<1>2. Ends(c) => cmd' \in [Commands -> Jobs]
  BY EndsTyped
<1>3. \A step \in Points : Goto(c, step) => cmd' \in [Commands -> Jobs]
  BY GotoTyped DEF TypeOK
<1>4. Refuses(c) => TypeOK'
  BY <1>1, <1>2 DEF Refuses, TypeOK, account
<1> QED
  BY <1>1, <1>2, <1>3, <1>4

(* The types, for a step of a connection,                                     *)
LEMMA ConnectTyped ==
    ASSUME TypeOK, Placed, KeyIsProven, NEW c \in Commands, Connect(c)
    PROVE  TypeOK'
PROOF
<1>1. /\ objects \subseteq Objects /\ KeysOf(objects) \subseteq Keys
      /\ local \in [Devices -> Locals] /\ cmd \in [Commands -> Jobs]
  BY DEF TypeOK, Objects, KeysOf
<1>2. cmd[c].pc \in ConnectSteps /\ cmd[c].dev \in Devices
  <2>1. cmd[c].pc \in ConnectSteps
    BY DEF Connect, Password, CheckAbsent, Encrypt, Lookup, Choose, StoreBase, StoreCrypt, Verify, Post, ReadBack,
           SaveManaged, Acknowledge, Cleanup, ConnectSteps
  <2> QED
    BY <2>1, PointFacts DEF Placed
<1>3. CASE Refuses(c)
  BY <1>3, StepTyped
<1>4. ASSUME local' \in [Devices -> Locals], cmd' \in [Commands -> Jobs], Calm \/ Trouble,
             UNCHANGED <<account, exported>>
      PROVE  TypeOK'
  BY <1>4, StepTyped DEF TypeOK, account
<1> USE CommandFacts, PointFacts, <1>1, <1>2, <1>4
<1>5. CASE Password(c) /\ ~ Refuses(c)
  <2>1. PICK secret \in Secrets : /\ local' = [local EXCEPT ![cmd[c].dev].secret = secret]
                                 /\ cmd' = [cmd EXCEPT ![c].pc = "absent", ![c].secret = secret]
    BY <1>5 DEF Password
  <2>2. local' \in [Devices -> Locals]
    BY <2>1, FilesTyped
  <2>3. cmd' \in [Commands -> Jobs]
    BY <2>1, JobTyped DEF ConnectSteps
  <2> QED
    BY <1>5, <2>2, <2>3 DEF Password
<1>6. CASE CheckAbsent(c) /\ ~ Refuses(c)
  BY <1>6, StepTyped DEF CheckAbsent, ConnectSteps, account
<1>7. CASE Encrypt(c) /\ ~ Refuses(c)
  <2>1. /\ local' = [local EXCEPT ![cmd[c].dev].config.secret = cmd[c].secret]
        /\ Goto(c, "lookup") /\ Calm /\ UNCHANGED <<account, exported>>
    BY <1>7 DEF Encrypt
  <2>2. local' \in [Devices -> Locals]
    BY <2>1, FilesTyped
  <2> QED
    BY <2>1, <2>2, StepTyped DEF ConnectSteps
<1>8. CASE Lookup(c)
  <2>1. PICK key \in Keys \cup {"none"}, state \in States :
            cmd' = [cmd EXCEPT ![c].pc = "choose", ![c].state = state, ![c].key = key]
    <3>1. PICK bad \in SUBSET objects : \E state \in Lookups(bad) :
              \E key \in IF state = "valid" THEN KeysOf(objects) ELSE {"none"} :
                 cmd' = [cmd EXCEPT ![c].pc = "choose", ![c].state = state, ![c].key = key]
      BY <1>8 DEF Lookup
    <3>2. Lookups(bad) \subseteq States
      BY DEF Lookups, States
    <3> QED
      BY <3>1, <3>2
  <2>2. cmd' \in [Commands -> Jobs]
    BY <2>1, JobTyped DEF ConnectSteps
  <2> QED
    BY <1>8, <2>2 DEF Lookup, Unread
<1>9. CASE Choose(c) /\ ~ Refuses(c)
  <2>1. \A existing, confirmed \in BOOLEAN : Eligible(c, existing, confirmed) \subseteq Keys \cup {"none"}
    BY DEF Eligible, Generated
  <2>2. PICK key \in Keys \cup {"none"}, existing \in BOOLEAN :
            cmd' = [cmd EXCEPT ![c].pc = "base", ![c].key = key, ![c].existing = existing]
    <3>1. PICK seen \in Visible, confirmed \in BOOLEAN : \E key \in Eligible(c, seen > 0, confirmed) :
              cmd' = [cmd EXCEPT ![c].pc = "base", ![c].key = key, ![c].existing = (seen > 0)]
      BY <1>9 DEF Choose
    <3>2. (seen > 0) \in BOOLEAN
      OBVIOUS
    <3>3. Eligible(c, seen > 0, confirmed) \subseteq Keys \cup {"none"}
      BY <2>1, <3>2
    <3> QED
      BY <3>1, <3>2, <3>3
  <2>3. cmd' \in [Commands -> Jobs]
    BY <2>2, JobTyped DEF ConnectSteps
  <2> QED
    BY <1>9, <2>3 DEF Choose, account
<1>10. CASE (StoreBase(c) \/ StoreCrypt(c)) /\ ~ Refuses(c)
  <2>1. PICK remote \in Remotes : local' = [local EXCEPT ![cmd[c].dev].config.remotes = @ \cup {remote}]
    BY <1>10 DEF StoreBase, StoreCrypt, Store, Remotes
  <2>2. local' \in [Devices -> Locals]
    BY <2>1, FilesTyped
  <2> QED
    BY <1>10, <2>2, StepTyped DEF StoreBase, StoreCrypt, Store, ConnectSteps
<1>11. CASE Verify(c) /\ ~ Refuses(c)
  BY <1>11, StepTyped DEF Verify, ConnectSteps, account
<1>12. CASE Post(c)
  <2>1. Object(c) \in Objects
    BY <1>12 DEF Post, KeyIsProven, Chosen, Object, Objects
  <2> QED
    BY <1>12, <2>1, StepTyped DEF Post, ConnectSteps, TypeOK
<1>13. CASE ReadBack(c)
  <2>1. cmd' \in [Commands -> Jobs]
    <3>1. Ends(c) \/ cmd' = [cmd EXCEPT ![c].pc = "save", ![c].state = "valid"]
      BY <1>13 DEF ReadBack
    <3>2. Ends(c) => cmd' \in [Commands -> Jobs]
      BY StepTyped
    <3>3. [cmd EXCEPT ![c].pc = "save", ![c].state = "valid"] \in [Commands -> Jobs]
      BY JobTyped DEF ConnectSteps, States
    <3> QED
      BY <3>1, <3>2, <3>3
  <2> QED
    BY <1>13, <2>1 DEF ReadBack, Unread, account
<1>14. CASE SaveManaged(c) /\ ~ Refuses(c)
  <2>1. /\ local' = [local EXCEPT ![cmd[c].dev].managed = cmd[c].key]
        /\ Goto(c, "acknowledge") /\ Calm /\ UNCHANGED <<account, exported>>
    BY <1>14 DEF SaveManaged, CreatePrivateFile
  <2>2. local' \in [Devices -> Locals]
    BY <2>1, FilesTyped
  <2> QED
    BY <2>1, <2>2, StepTyped DEF ConnectSteps
<1>15. CASE Acknowledge(c) /\ ~ Refuses(c)
  <2>1. /\ local' = [local EXCEPT ![cmd[c].dev].ack = cmd[c].key]
        /\ Goto(c, "connected") /\ Calm /\ UNCHANGED <<account, exported>>
    BY <1>15 DEF Acknowledge, CreatePrivateFile
  <2>2. local' \in [Devices -> Locals]
    BY <2>1, FilesTyped
  <2> QED
    BY <2>1, <2>2, StepTyped DEF Ended
<1>16. CASE Cleanup(c)
  BY <1>16, StepTyped, FilesTyped DEF Cleanup, Ended
<1> QED
  BY <1>3, <1>5, <1>6, <1>7, <1>8, <1>9, <1>10, <1>11, <1>12, <1>13, <1>14, <1>15, <1>16 DEF Connect

(* of a disconnection, an unlocking or an upload,                             *)
LEMMA OtherTyped ==
    ASSUME TypeOK, Placed, AcknowledgedIsKnown, NEW c \in Commands, Disconnect(c) \/ Other(c)
    PROVE  TypeOK'
PROOF
<1>1. /\ local \in [Devices -> Locals] /\ cmd \in [Commands -> Jobs] /\ backups \in [Keys -> Nat]
  BY DEF TypeOK
<1>2. cmd[c].pc \in DisconnectSteps \cup OtherSteps /\ cmd[c].dev \in Devices
  <2>1. cmd[c].pc \in DisconnectSteps \cup OtherSteps
    BY DEF Disconnect, Other, Open, Inspect, KeepConfig, KeepSecret, InspectAgain, DropConfig, DropAck, DropSecret,
           CheckTyped, KeepTyped, Load, Ready, Put, DisconnectSteps, OtherSteps
  <2> QED
    BY <2>1, PointFacts DEF Placed
<1>3. CASE Refuses(c)
  BY <1>3, StepTyped
<1>4. ASSUME local' \in [Devices -> Locals], cmd' \in [Commands -> Jobs], Calm \/ Trouble,
             UNCHANGED <<account, exported>>
      PROVE  TypeOK'
  BY <1>4, StepTyped DEF TypeOK, account
<1> USE CommandFacts, PointFacts, <1>1, <1>2, <1>4
<1>5. CASE Open(c) /\ ~ Refuses(c)
  <2>1. PICK secret \in Secrets : cmd' = [cmd EXCEPT ![c].pc = "inspect", ![c].secret = secret]
    BY <1>5 DEF Open
  <2>2. cmd' \in [Commands -> Jobs]
    BY <2>1, JobTyped DEF DisconnectSteps
  <2> QED
    BY <1>5, <2>2 DEF Open, account
<1>6. CASE (Inspect(c) \/ InspectAgain(c)) /\ ~ Refuses(c)
  BY <1>6, StepTyped DEF Inspect, InspectAgain, DisconnectSteps, account
<1>7. CASE (KeepConfig(c) \/ KeepSecret(c)) /\ ~ Refuses(c)
  <2>1. \/ local' = [local EXCEPT ![cmd[c].dev].slot.config = Config(c).secret]
        \/ local' = [local EXCEPT ![cmd[c].dev].slot.secret = cmd[c].secret]
    BY <1>7 DEF KeepConfig, KeepSecret, Preserve
  <2>2. local' \in [Devices -> Locals]
    <3>1. /\ [local EXCEPT ![cmd[c].dev].slot.config = Here(c).config.secret] \in [Devices -> Locals]
          /\ [local EXCEPT ![cmd[c].dev].slot.secret = cmd[c].secret] \in [Devices -> Locals]
      BY FilesTyped
    <3> QED
      BY <2>1, <3>1 DEF Config
  <2> QED
    BY <1>7, <2>2, StepTyped DEF KeepConfig, KeepSecret, Preserve, DisconnectSteps
<1>8. CASE (DropConfig(c) \/ DropAck(c) \/ DropSecret(c)) /\ ~ Refuses(c)
  <2>1. \/ local' = [local EXCEPT ![cmd[c].dev].config = Absent]
        \/ local' = [local EXCEPT ![cmd[c].dev].ack = "none"]
        \/ local' = [local EXCEPT ![cmd[c].dev].secret = "none"]
    BY <1>8 DEF DropConfig, DropAck, DropSecret
  <2>2. local' \in [Devices -> Locals]
    <3>1. /\ [local EXCEPT ![cmd[c].dev].config = Absent] \in [Devices -> Locals]
          /\ [local EXCEPT ![cmd[c].dev].ack = "none"] \in [Devices -> Locals]
          /\ [local EXCEPT ![cmd[c].dev].secret = "none"] \in [Devices -> Locals]
      BY FilesTyped
    <3> QED
      BY <2>1, <3>1
  <2> QED
    BY <1>8, <2>2, StepTyped DEF DropConfig, DropAck, DropSecret, DisconnectSteps, Ended
<1>9. CASE (CheckTyped(c) \/ KeepTyped(c)) /\ ~ Refuses(c)
  <2>1. local' = local \/ local' = [local EXCEPT ![cmd[c].dev].secret = "typed"]
    BY <1>9 DEF CheckTyped, KeepTyped
  <2>2. local' \in [Devices -> Locals]
    <3>1. [local EXCEPT ![cmd[c].dev].secret = "typed"] \in [Devices -> Locals]
      BY FilesTyped
    <3> QED
      BY <2>1, <3>1
  <2> QED
    BY <1>9, <2>2, StepTyped DEF CheckTyped, KeepTyped, OtherSteps, Ended, account
<1>10. CASE Load(c) /\ ~ Refuses(c)
  <2>1. Loaded(c) \in Keys
    BY <1>10 DEF Load, Loaded, Material
  <2>2. cmd' = [cmd EXCEPT ![c].pc = "ready", ![c].key = Loaded(c), ![c].secret = Here(c).secret]
    BY <1>10 DEF Load
  <2>3. cmd' \in [Commands -> Jobs]
    <3>1. "ready" \in Points
      BY DEF OtherSteps
    <3>2. \A key \in Keys, secret \in Secrets :
             [cmd EXCEPT ![c].pc = "ready", ![c].key = key, ![c].secret = secret] \in [Commands -> Jobs]
      BY <3>1, JobTyped
    <3> QED
      BY <2>1, <2>2, <3>2
  <2> QED
    BY <1>10, <2>3 DEF Load, account
<1>11. CASE Ready(c) /\ ~ Refuses(c)
  BY <1>11, StepTyped DEF Ready, OtherSteps, account
<1>12. CASE Put(c) /\ ~ Refuses(c)
  <2>1. backups' \in [Keys -> Nat]
    BY <1>12 DEF Put
  <2>2. cmd' \in [Commands -> Jobs] /\ left' \in 0 .. MaxTroubles
    BY <1>12, StepTyped DEF Put, Ended
  <2> QED
    BY <1>12, <2>1, <2>2 DEF Put, TypeOK
<1> QED
  BY <1>3, <1>5, <1>6, <1>7, <1>8, <1>9, <1>10, <1>11, <1>12 DEF Disconnect, Other

(* of what fails or is killed,                                                *)
LEMMA TroubleTyped ==
    ASSUME TypeOK, Placed, KeyIsProven, NEW c \in Commands, Fail(c) \/ Kill(c)
    PROVE  TypeOK'
PROOF
<1>1. /\ local \in [Devices -> Locals] /\ cmd \in [Commands -> Jobs] /\ cmd[c].pc \in Running
      /\ cmd[c].dev \in Devices
  BY DEF TypeOK, Fail, Kill, Placed
<1>2. local' \in [Devices -> Locals]
  <2>1. PICK h \in {Here(c), Written(c), Torn(c)} : local' = [local EXCEPT ![cmd[c].dev] = h]
    BY DEF Fail, Kill
  <2> USE <1>1, CommandFacts, FilesTyped
  <2>2. CASE h = Here(c)
    BY <2>1, <2>2
  <2>3. CASE h = Written(c)
    <3>1. /\ [local EXCEPT ![cmd[c].dev] = Here(c)] \in [Devices -> Locals]
          /\ [local EXCEPT ![cmd[c].dev].secret = c] \in [Devices -> Locals]
          /\ [local EXCEPT ![cmd[c].dev].secret = "typed"] \in [Devices -> Locals]
          /\ [local EXCEPT ![cmd[c].dev].ack = cmd[c].key] \in [Devices -> Locals]
      BY DEF Material, NotKeys
    <3> QED
      BY <2>1, <2>3, <3>1, WrittenFacts DEF Here
  <2>4. CASE h = Torn(c)
    <3>1. /\ [local EXCEPT ![cmd[c].dev] = Here(c)] \in [Devices -> Locals]
          /\ [local EXCEPT ![cmd[c].dev].secret = "torn"] \in [Devices -> Locals]
          /\ [local EXCEPT ![cmd[c].dev].managed = "torn"] \in [Devices -> Locals]
          /\ [local EXCEPT ![cmd[c].dev].ack = "torn"] \in [Devices -> Locals]
          /\ [local EXCEPT ![cmd[c].dev].slot.config = "torn"] \in [Devices -> Locals]
          /\ [local EXCEPT ![cmd[c].dev].slot.secret = "torn"] \in [Devices -> Locals]
      OBVIOUS
    <3> QED
      BY <2>1, <2>4, <3>1, TornFacts DEF Here
  <2> QED
    BY <2>1, <2>2, <2>3, <2>4
<1>3. cmd' \in [Commands -> Jobs]
  BY StepTyped, PointFacts DEF Fail, Kill, Ended
<1>4. inflight' \in SUBSET Objects
  <2>1. cmd[c].pc = "post" => Object(c) \in Objects
    BY DEF KeyIsProven, Chosen, Object, Objects
  <2> QED
    BY <2>1 DEF Fail, Kill, TypeOK
<1>5. left' \in 0 .. MaxTroubles
  BY StepTyped DEF Fail, Kill
<1> QED
  BY <1>2, <1>3, <1>4, <1>5 DEF Fail, Kill, TypeOK

(* and for every step.                                                        *)
LEMMA TypeStep ==
    ASSUME TypeOK, Placed, KeyIsProven, AcknowledgedIsKnown, [Next]_vars
    PROVE  TypeOK'
PROOF
<1>1. ASSUME NEW c \in Commands, Start(c) PROVE TypeOK'
  <2>1. PICK d \in Devices, kind \in Kinds[c], manual \in exported \cup {"none"} :
            cmd' = [cmd EXCEPT ![c].pc = First[kind], ![c].dev = d, ![c].manual = manual]
    BY <1>1 DEF Start
  <2>2. First[kind] \in Points
    BY PointFacts, ConnectionAssumption DEF Points
  <2>3. manual \in Keys \cup {"none"}
    BY DEF TypeOK
  <2>4. cmd' \in [Commands -> Jobs]
    BY <2>1, <2>2, <2>3, JobTyped DEF TypeOK
  <2> QED
    BY <1>1, <2>4, StepTyped DEF Start, TypeOK, account
<1>2. ASSUME NEW d \in Devices, Export(d) PROVE TypeOK'
  BY <1>2 DEF Export, Calm, TypeOK, account
<1>3. ASSUME NEW d \in Devices, Reinstall(d) PROVE TypeOK'
  <2>1. Fresh \in Locals
    BY DEF Fresh, Locals, Configs, Slots, Absent, Secrets, Material, NotKeys
  <2>2. local' \in [Devices -> Locals]
    BY <1>3, <2>1 DEF Reinstall, TypeOK
  <2> QED
    BY <1>3, <2>2, ConnectionAssumption DEF Reinstall, Trouble, TypeOK, account
<1>4. CASE Arrives
  BY <1>4 DEF Arrives, Calm, TypeOK
<1>5. CASE UNCHANGED vars
  BY <1>5 DEF vars, TypeOK
<1> QED
  BY <1>1, <1>2, <1>3, <1>4, <1>5, ConnectTyped, OtherTyped, TroubleTyped DEF Next

-----------------------------------------------------------------------------
(* A command takes a step.                                                    *)
Acts(c) == Start(c) \/ Connect(c) \/ Disconnect(c) \/ Other(c) \/ Fail(c) \/ Kill(c)

(* What a command keeps when it goes on to its next call, and when it reports. *)
LEMMA GotoFacts ==
    ASSUME TypeOK, NEW c \in Commands, NEW step \in Points, Goto(c, step)
    PROVE  /\ cmd'[c].pc = step
           /\ \A e \in Commands \ {c} : cmd'[e] = cmd[e]
           /\ step \notin Ended => /\ cmd'[c].dev = cmd[c].dev /\ cmd'[c].manual = cmd[c].manual
                                  /\ cmd'[c].secret = cmd[c].secret
           /\ step \in Ended => cmd'[c].dev = "none" /\ cmd'[c].manual = "none"
           /\ step \notin Ended \/ step \in {"connected", "uploaded"} =>
                 cmd'[c].key = cmd[c].key /\ cmd'[c].state = cmd[c].state
           /\ step \in Ended \ {"connected", "uploaded"} => cmd'[c].state = "none"
PROOF
  BY DEF Goto, Report, Waiting, TypeOK, Jobs, Points

(* Nothing that is known is forgotten: objects are only created, files of the *)
(* owner only added.                                                          *)
LEMMA KnownGrows ==
    ASSUME [Next]_vars
    PROVE  /\ KeysOf(objects \ Damaged) \subseteq KeysOf(objects \ Damaged)'
           /\ exported \subseteq exported'
           /\ Known \subseteq Known'
PROOF
<1>0. ASSUME NEW c, Choose(c)
      PROVE  objects' = objects /\ exported' = exported
  BY <1>0 DEF Choose, Refuses, account
<1>1. objects \subseteq objects' /\ exported \subseteq exported'
  BY <1>0 DEF Next, Start, Connect, Disconnect, Other, Fail, Kill, Export, Reinstall, Arrives, vars, account,
     Password, CheckAbsent, Encrypt, Lookup, StoreBase, StoreCrypt, Store, Verify, Post, ReadBack,
     SaveManaged, Acknowledge, CreatePrivateFile, Cleanup, Open, Inspect, KeepConfig, KeepSecret, Preserve,
     InspectAgain, DropConfig, DropAck, DropSecret, CheckTyped, KeepTyped, Load, Ready, Put, Refuses
<1>2. KeysOf(objects \ Damaged) \subseteq KeysOf(objects' \ Damaged')
  BY <1>1 DEF KeysOf, Damaged
<1>3. KeysOf(objects \ Damaged)' = KeysOf(objects' \ Damaged')
  BY DEF KeysOf
<1> QED
  BY <1>1, <1>2, <1>3 DEF Known

(* Where the steps lead, and what they leave of the command.                  *)
LEMMA EndsFacts ==
    ASSUME TypeOK, NEW c \in Commands, Ends(c)
    PROVE  /\ cmd'[c].pc \in {"cleanup", "failed"} /\ \A e \in Commands \ {c} : cmd'[e] = cmd[e]
           /\ cmd'[c].pc = "cleanup" => /\ Cleans(c)
                                       /\ cmd'[c].dev = cmd[c].dev /\ cmd'[c].manual = cmd[c].manual
                                       /\ cmd'[c].key = cmd[c].key /\ cmd'[c].state = cmd[c].state
           /\ cmd'[c].pc = "failed" => cmd'[c].dev = "none" /\ cmd'[c].manual = "none" /\ cmd'[c].state = "none"
PROOF
<1>1. {"cleanup", "failed"} \subseteq Points /\ "cleanup" \notin Ended
  BY PointFacts DEF ConnectSteps, Ended
<1>2. CASE Goto(c, "cleanup") /\ Cleans(c)
  BY <1>1, <1>2, GotoFacts
<1>3. CASE Goto(c, "failed")
  BY <1>1, <1>3, GotoFacts DEF Ended
<1> QED
  BY <1>2, <1>3 DEF Ends

(* A step of a command that was given changes that command; its device and    *)
(* its file stay until it ends.                                               *)
LEMMA ActsFacts ==
    ASSUME TypeOK, NEW c \in Commands, Acts(c), ~ Start(c)
    PROVE  /\ \A e \in Commands \ {c} : cmd'[e] = cmd[e]
           /\ \/ cmd'[c].dev = cmd[c].dev /\ cmd'[c].manual = cmd[c].manual
              \/ cmd'[c].pc \in Ended /\ cmd'[c].dev = "none" /\ cmd'[c].manual = "none"
           /\ cmd[c].pc \in Running
PROOF
<1>1. cmd \in [Commands -> Jobs] /\ cmd[c] \in Jobs
  BY DEF TypeOK
<1>2. cmd[c].pc \in Running
  BY PointFacts DEF Acts, Connect, Disconnect, Other, Fail, Kill,
     Password, CheckAbsent, Encrypt, Lookup, Choose, StoreBase, StoreCrypt, Verify, Post, ReadBack,
     SaveManaged, Acknowledge, Cleanup, Open, Inspect, KeepConfig, KeepSecret,
     InspectAgain, DropConfig, DropAck, DropSecret, CheckTyped, KeepTyped, Load, Ready, Put,
     ConnectSteps, DisconnectSteps, OtherSteps
<1>3. CASE Ends(c)
  BY <1>2, <1>3, EndsFacts DEF Ended
<1>4. CASE \E step \in Points : Goto(c, step)
  BY <1>2, <1>4, GotoFacts
<1>5. ASSUME ~ Ends(c), ~ \E step \in Points : Goto(c, step)
      PROVE  \/ \E secret : cmd' = [cmd EXCEPT ![c].pc = "absent", ![c].secret = secret]
             \/ \E state, key : cmd' = [cmd EXCEPT ![c].pc = "choose", ![c].state = state, ![c].key = key]
             \/ \E key, existing : cmd' = [cmd EXCEPT ![c].pc = "base", ![c].key = key, ![c].existing = existing]
             \/ cmd' = [cmd EXCEPT ![c].pc = "save", ![c].state = "valid"]
             \/ \E secret : cmd' = [cmd EXCEPT ![c].pc = "inspect", ![c].secret = secret]
             \/ \E key, secret : cmd' = [cmd EXCEPT ![c].pc = "ready", ![c].key = key, ![c].secret = secret]
  <2> USE <1>5, PointFacts DEF Refuses
  <2>1. CASE Connect(c)
    <3>1. CASE Password(c)
      BY <3>1 DEF Password
    <3>2. CASE Lookup(c)
      BY <3>2 DEF Lookup
    <3>3. CASE Choose(c)
      BY <3>3 DEF Choose
    <3>4. CASE ReadBack(c)
      BY <3>4 DEF ReadBack
    <3> QED
      BY <2>1, <3>1, <3>2, <3>3, <3>4 DEF Connect, CheckAbsent, Encrypt, StoreBase, StoreCrypt, Store, Verify, Post,
         SaveManaged, Acknowledge, CreatePrivateFile, Cleanup, ConnectSteps, Ended
  <2>2. CASE Disconnect(c)
    <3>1. CASE Open(c)
      BY <3>1 DEF Open
    <3> QED
      BY <2>2, <3>1 DEF Disconnect, Inspect, KeepConfig, KeepSecret, Preserve, InspectAgain, DropConfig, DropAck,
         DropSecret, DisconnectSteps, Ended
  <2>3. CASE Other(c)
    <3>1. CASE Load(c)
      BY <3>1 DEF Load
    <3> QED
      BY <2>3, <3>1 DEF Other, CheckTyped, KeepTyped, Ready, Put, OtherSteps, Ended
  <2>4. CASE Fail(c) \/ Kill(c)
    BY <2>4 DEF Fail, Kill, Ended
  <2> QED
    BY <2>1, <2>2, <2>3, <2>4 DEF Acts
<1>6. ASSUME NEW secret, NEW pc, cmd' = [cmd EXCEPT ![c].pc = pc, ![c].secret = secret]
      PROVE  /\ \A e \in Commands \ {c} : cmd'[e] = cmd[e]
             /\ cmd'[c].dev = cmd[c].dev /\ cmd'[c].manual = cmd[c].manual
  BY <1>1, <1>6 DEF Jobs
<1>7. ASSUME NEW state, NEW key, NEW pc, cmd' = [cmd EXCEPT ![c].pc = pc, ![c].state = state, ![c].key = key]
      PROVE  /\ \A e \in Commands \ {c} : cmd'[e] = cmd[e]
             /\ cmd'[c].dev = cmd[c].dev /\ cmd'[c].manual = cmd[c].manual
  BY <1>1, <1>7 DEF Jobs
<1>8. ASSUME NEW existing, NEW key, NEW pc, cmd' = [cmd EXCEPT ![c].pc = pc, ![c].key = key, ![c].existing = existing]
      PROVE  /\ \A e \in Commands \ {c} : cmd'[e] = cmd[e]
             /\ cmd'[c].dev = cmd[c].dev /\ cmd'[c].manual = cmd[c].manual
  BY <1>1, <1>8 DEF Jobs
<1>9. ASSUME NEW secret, NEW key, NEW pc, cmd' = [cmd EXCEPT ![c].pc = pc, ![c].key = key, ![c].secret = secret]
      PROVE  /\ \A e \in Commands \ {c} : cmd'[e] = cmd[e]
             /\ cmd'[c].dev = cmd[c].dev /\ cmd'[c].manual = cmd[c].manual
  BY <1>1, <1>9 DEF Jobs
<1>10. ASSUME cmd' = [cmd EXCEPT ![c].pc = "save", ![c].state = "valid"]
       PROVE  /\ \A e \in Commands \ {c} : cmd'[e] = cmd[e]
              /\ cmd'[c].dev = cmd[c].dev /\ cmd'[c].manual = cmd[c].manual
  BY <1>1, <1>10 DEF Jobs
<1> QED
  BY <1>2, <1>3, <1>4, <1>5, <1>6, <1>7, <1>8, <1>9, <1>10

(* A command that is given starts at its first call, with nothing learned.    *)
LEMMA StartFacts ==
    ASSUME TypeOK, NEW c \in Commands, Start(c)
    PROVE  /\ \A e \in Commands \ {c} : cmd'[e] = cmd[e]
           /\ cmd'[c].pc \in {"password", "open", "load", "check"} /\ cmd'[c].dev \in Devices
           /\ cmd'[c].manual \in exported \cup {"none"} /\ cmd'[c].state = "none"
           /\ UNCHANGED <<account, local, exported>>
PROOF
<1>1. PICK d \in Devices, kind \in Kinds[c], manual \in exported \cup {"none"} :
          cmd' = [cmd EXCEPT ![c].pc = First[kind], ![c].dev = d, ![c].manual = manual]
  BY DEF Start
<1>2. First[kind] \in {"password", "open", "load", "check"}
  BY ConnectionAssumption DEF First
<1>3. cmd \in [Commands -> Jobs] /\ cmd[c] \in Jobs
  BY DEF TypeOK
<1>4. cmd[c].state = "none"
  <2>1. cmd[c] = Waiting
    BY DEF Start
  <2> QED
    BY <2>1 DEF Waiting
<1> QED
  BY <1>1, <1>2, <1>3, <1>4 DEF Jobs, Start

(* A command stays on its device, and its file is the owner's.                *)
LEMMA PlacedStep ==
    ASSUME TypeOK, Placed, [Next]_vars
    PROVE  Placed'
PROOF
<1>1. ASSUME NEW c \in Commands, Acts(c) PROVE Placed'
  <2>1. CASE Start(c)
    BY <2>1, StartFacts, KnownGrows DEF Placed
  <2>2. CASE ~ Start(c)
    <3>1. Ended \cap Running = {}
      BY DEF Ended, Running, ConnectSteps, DisconnectSteps, OtherSteps
    <3> QED
      BY <1>1, <2>2, <3>1, ActsFacts, KnownGrows DEF Placed
  <2> QED
    BY <2>1, <2>2
<1>2. CASE UNCHANGED cmd
  BY <1>2, KnownGrows DEF Placed
<1> QED
  BY <1>1, <1>2 DEF Next, Acts, Export, Reinstall, Arrives, vars

(* A lookup that says valid has read every object and found one key.          *)
LEMMA ValidFacts ==
    ASSUME TypeOK, NEW bad \in SUBSET objects, Unread(bad), "valid" \in Lookups(bad)
    PROVE  \E key \in Keys : KeysOf(objects) = {key} /\ KeysOf(objects \ Damaged) = {key}
PROOF
<1>1. bad = {} /\ Damaged = {} /\ Cardinality(KeysOf(objects \ bad)) = 1
  BY DEF Lookups, Unread
<1>2. KeysOf(objects) \subseteq Keys
  BY DEF TypeOK, Objects, KeysOf
<1>3. IsFiniteSet(KeysOf(objects))
  BY <1>2, FS_Subset, ConnectionAssumption
<1>4. objects \ bad = objects /\ objects \ Damaged = objects
  BY <1>1
<1> QED
  BY <1>1, <1>2, <1>3, <1>4, FS_Singleton

(* One command changes: what is true of the others stays so.                  *)
LEMMA KeyOthers ==
    ASSUME TypeOK, KeyIsProven, [Next]_vars, NEW c \in Commands,
           \A e \in Commands \ {c} : cmd'[e] = cmd[e],
           cmd'[c].state = "valid" =>
              \/ cmd[c].state = "valid" /\ cmd'[c].key = cmd[c].key
              \/ KeysOf(objects \ Damaged) = {cmd'[c].key},
           cmd'[c].pc \in Chosen => /\ cmd'[c].key \in Keys
                                    /\ cmd'[c].state \in {"missing", "valid", "invalid"}
                                    /\ cmd'[c].state = "invalid" => cmd'[c].key \in exported',
           cmd'[c].pc \in {"save", "acknowledge"} => cmd'[c].state # "missing",
           cmd'[c].pc = "load" => cmd'[c].state = "none"
    PROVE  KeyIsProven'
PROOF
<1>1. /\ exported \subseteq exported'
      /\ KeysOf(objects \ Damaged) \subseteq KeysOf(objects \ Damaged)'
  BY KnownGrows
<1>2. cmd'[c].state = "valid" => cmd'[c].key \in KeysOf(objects \ Damaged)'
  BY <1>1 DEF KeyIsProven
<1>3. ASSUME NEW e \in Commands \ {c}, cmd[e].state = "valid", cmd'[c].state = "valid"
      PROVE  cmd[e].key = cmd'[c].key
  BY <1>3 DEF KeyIsProven
<1>4. ASSUME NEW e \in Commands
      PROVE  /\ cmd'[e].state = "valid" => cmd'[e].key \in KeysOf(objects \ Damaged)'
             /\ cmd'[e].pc \in Chosen =>
                   /\ cmd'[e].key \in Keys
                   /\ cmd'[e].state \in {"missing", "valid", "invalid"}
                   /\ cmd'[e].state = "invalid" => cmd'[e].key \in exported'
             /\ cmd'[e].pc \in {"save", "acknowledge"} => cmd'[e].state # "missing"
             /\ cmd'[e].pc = "load" => cmd'[e].state = "none"
  BY <1>1, <1>2 DEF KeyIsProven
<1>5. ASSUME NEW e \in Commands, NEW f \in Commands, cmd'[e].state = "valid", cmd'[f].state = "valid"
      PROVE  cmd'[e].key = cmd'[f].key
  BY <1>3, <1>5 DEF KeyIsProven
<1> QED
  BY <1>4, <1>5 DEF KeyIsProven, Chosen

(* What a command has learned of the key stays true.                          *)
LEMMA KeyStep ==
    ASSUME TypeOK, Placed, KeyIsProven, [Next]_vars
    PROVE  KeyIsProven'
PROOF
<1>1. CASE UNCHANGED cmd
  BY <1>1, KnownGrows DEF KeyIsProven
<1>2. ASSUME NEW c \in Commands, Acts(c) PROVE KeyIsProven'
  <2>0. /\ cmd \in [Commands -> Jobs] /\ cmd[c] \in Jobs
        /\ cmd[c].pc \in Chosen =>
              /\ cmd[c].key \in Keys
              /\ cmd[c].state \in {"missing", "valid", "invalid"}
              /\ cmd[c].state = "invalid" => cmd[c].key \in exported
        /\ cmd[c].pc \in {"save", "acknowledge"} => cmd[c].state # "missing"
        /\ cmd[c].pc = "load" => cmd[c].state = "none"
        /\ cmd[c].manual \in exported \cup {"none"} /\ exported \subseteq exported' /\ exported \subseteq Keys
        /\ "none" \notin Keys
    BY KnownGrows, ConnectionAssumption DEF TypeOK, KeyIsProven, Placed, NotKeys
  <2>1. \A e \in Commands \ {c} : cmd'[e] = cmd[e]
    BY <1>2, StartFacts, ActsFacts
  <2>2. SUFFICES
          /\ cmd'[c].state = "valid" =>
                \/ cmd[c].state = "valid" /\ cmd'[c].key = cmd[c].key
                \/ KeysOf(objects \ Damaged) = {cmd'[c].key}
          /\ cmd'[c].pc \in Chosen => /\ cmd'[c].key \in Keys
                                      /\ cmd'[c].state \in {"missing", "valid", "invalid"}
                                      /\ cmd'[c].state = "invalid" => cmd'[c].key \in exported'
          /\ cmd'[c].pc \in {"save", "acknowledge"} => cmd'[c].state # "missing"
          /\ cmd'[c].pc = "load" => cmd'[c].state = "none"
    BY <2>1, KeyOthers
  <2> USE <2>0 DEF Chosen
  <2>3. CASE Start(c)
    BY <2>3, StartFacts
  <2>4. CASE Ends(c)
    BY <2>4, EndsFacts
  <2>5. CASE Lookup(c)
    <3>0. PICK bad \in SUBSET objects : \E state \in Lookups(bad) :
             /\ Unread(bad)
             /\ \E key \in IF state = "valid" THEN KeysOf(objects) ELSE {"none"} :
                    cmd' = [cmd EXCEPT ![c].pc = "choose", ![c].state = state, ![c].key = key]
      BY <2>5 DEF Lookup
    <3>1. PICK state \in Lookups(bad) :
             /\ Unread(bad)
             /\ \E key \in IF state = "valid" THEN KeysOf(objects) ELSE {"none"} :
                    cmd' = [cmd EXCEPT ![c].pc = "choose", ![c].state = state, ![c].key = key]
      BY <3>0
    <3>2. PICK key \in IF state = "valid" THEN KeysOf(objects) ELSE {"none"} :
             cmd' = [cmd EXCEPT ![c].pc = "choose", ![c].state = state, ![c].key = key]
      BY <3>1
    <3>3. cmd'[c].pc = "choose" /\ cmd'[c].state = state /\ cmd'[c].key = key
      BY <3>2 DEF Jobs
    <3>4. state = "valid" => KeysOf(objects \ Damaged) = {key}
      BY <3>1, <3>2, ValidFacts
    <3> QED
      BY <3>3, <3>4
  <2>6. CASE Choose(c) /\ ~ Ends(c)
    <3>0. PICK seen \in Visible, confirmed \in BOOLEAN : \E key \in Eligible(c, seen > 0, confirmed) :
              cmd' = [cmd EXCEPT ![c].pc = "base", ![c].key = key, ![c].existing = (seen > 0)]
      BY <2>6 DEF Choose, Refuses
    <3>1. PICK key \in Eligible(c, seen > 0, confirmed) :
              cmd' = [cmd EXCEPT ![c].pc = "base", ![c].key = key, ![c].existing = (seen > 0)]
      BY <3>0
    <3>2. cmd'[c].pc = "base" /\ cmd'[c].state = cmd[c].state /\ cmd'[c].key = key
      BY <3>1 DEF Jobs
    <3>3. /\ cmd[c].state = "valid" => key = cmd[c].key
          /\ cmd[c].state = "invalid" => key \in exported
          /\ cmd[c].state \in {"missing", "valid", "invalid"}
          /\ cmd[c].state = "missing" => key \in Keys
      BY DEF Eligible, Generated
    <3>4. cmd[c].state = "valid" => cmd[c].key \in Keys
      BY DEF KeyIsProven, KeysOf, TypeOK, Objects
    <3> QED
      BY <3>2, <3>3, <3>4
  <2>7. CASE ReadBack(c) /\ ~ Ends(c)
    <3>1. PICK bad \in SUBSET objects :
             /\ Unread(bad) /\ "valid" \in Lookups(bad) /\ KeysOf(objects) = {cmd[c].key}
             /\ cmd' = [cmd EXCEPT ![c].pc = "save", ![c].state = "valid"]
      BY <2>7 DEF ReadBack
    <3>2. cmd'[c].pc = "save" /\ cmd'[c].state = "valid" /\ cmd'[c].key = cmd[c].key
      BY <3>1 DEF Jobs
    <3>3. KeysOf(objects \ Damaged) = {cmd[c].key}
      BY <3>1, ValidFacts
    <3> QED
      BY <3>2, <3>3, <2>7 DEF ReadBack
  <2>8. CASE Password(c) /\ ~ Ends(c)
    BY <2>8 DEF Password, Refuses, Jobs
  <2>9. CASE (CheckAbsent(c) \/ Encrypt(c)) /\ ~ Ends(c)
    BY <2>9, GotoFacts, PointFacts DEF CheckAbsent, Encrypt, Refuses, ConnectSteps, Ended
  <2>10. CASE (StoreBase(c) \/ StoreCrypt(c) \/ Verify(c)) /\ ~ Ends(c)
    BY <2>10, GotoFacts, PointFacts DEF StoreBase, StoreCrypt, Store, Verify, Refuses, ConnectSteps, Ended
  <2>11. CASE (Post(c) \/ SaveManaged(c) \/ Acknowledge(c) \/ Cleanup(c)) /\ ~ Ends(c)
    BY <2>11, GotoFacts, PointFacts DEF Post, SaveManaged, Acknowledge, CreatePrivateFile, Cleanup, Refuses,
       ConnectSteps, Ended
  <2>12. CASE Open(c) /\ ~ Ends(c)
    BY <2>12 DEF Open, Refuses, Jobs
  <2>13. CASE Disconnect(c) /\ ~ Open(c) /\ ~ Ends(c)
    BY <2>13, GotoFacts, PointFacts DEF Disconnect, Inspect, KeepConfig, KeepSecret, Preserve, InspectAgain,
       DropConfig, DropAck, DropSecret, Refuses, DisconnectSteps, Ended
  <2>14. CASE Load(c) /\ ~ Ends(c)
    BY <2>14 DEF Load, Refuses, Jobs
  <2>15. CASE (CheckTyped(c) \/ KeepTyped(c) \/ Ready(c) \/ Put(c)) /\ ~ Ends(c)
    BY <2>15, GotoFacts, PointFacts DEF CheckTyped, KeepTyped, Ready, Put, Refuses, OtherSteps, Ended
  <2>16. CASE Kill(c)
    BY <2>16, GotoFacts, PointFacts DEF Kill, Ended
  <2> QED
    BY <1>2, <2>3, <2>4, <2>5, <2>6, <2>7, <2>8, <2>9, <2>10, <2>11, <2>12, <2>13, <2>14, <2>15, <2>16
    DEF Acts, Connect, Disconnect, Other, Fail
<1> QED
  BY <1>1, <1>2 DEF Next, Acts, Export, Reinstall, Arrives, vars

(* What a step of a command does to the files of its device: recovery.json    *)
(* and the acknowledgement ...                                                *)
LEMMA KeyFilesFacts ==
    ASSUME TypeOK, Placed, NEW c \in Commands, Acts(c), NEW d \in Devices
    PROVE  /\ d # cmd[c].dev => local'[d] = local[d]
           /\ \/ local'[d].managed = local[d].managed
              \/ local[d].managed = "none" /\ cmd[c].pc = "save" /\ local'[d].managed \in {cmd[c].key, "torn"}
           /\ \/ local'[d].ack \in {local[d].ack, "none", "torn"}
              \/ d = cmd[c].dev /\ cmd[c].pc = "acknowledge" /\ local'[d].ack = cmd[c].key
PROOF
<1>1. CASE UNCHANGED local
  BY <1>1
<1>2. local \in [Devices -> Locals] /\ local[d] \in Locals
  BY DEF TypeOK
<1> USE <1>2 DEF Locals
<1>3. CASE Password(c) \/ Encrypt(c) \/ StoreBase(c) \/ StoreCrypt(c) \/ Cleanup(c)
  BY <1>1, <1>3 DEF Password, Encrypt, StoreBase, StoreCrypt, Store, Cleanup, Refuses
<1>4. CASE SaveManaged(c) \/ Acknowledge(c)
  BY <1>1, <1>4 DEF SaveManaged, Acknowledge, CreatePrivateFile, Here, Refuses
<1>5. CASE KeepConfig(c) \/ KeepSecret(c) \/ DropConfig(c) \/ DropAck(c) \/ DropSecret(c) \/ KeepTyped(c)
  BY <1>1, <1>5 DEF KeepConfig, KeepSecret, Preserve, DropConfig, DropAck, DropSecret, KeepTyped, Refuses
<1>6. CASE Fail(c)
  <2>1. PICK h \in {Here(c), Written(c)} : local' = [local EXCEPT ![cmd[c].dev] = h]
    BY <1>6 DEF Fail
  <2> QED
    BY <2>1, WrittenFacts DEF Here
<1>7. CASE Kill(c)
  <2>1. PICK h \in {Here(c), Torn(c)} : local' = [local EXCEPT ![cmd[c].dev] = h]
    BY <1>7 DEF Kill
  <2> QED
    BY <2>1, TornFacts DEF Here
<1> QED
  BY <1>1, <1>3, <1>4, <1>5, <1>6, <1>7 DEF Acts, Connect, Disconnect, Other, Start, CheckAbsent, Lookup, Choose,
     Verify, Post, ReadBack, Open, Inspect, InspectAgain, CheckTyped, Load, Ready, Put, Refuses

(* ... the connection and the migration slot.                                 *)
LEMMA ConfigFacts ==
    ASSUME TypeOK, Placed, NEW c \in Commands, Acts(c), NEW d \in Devices
    PROVE  /\ \/ local'[d].config = local[d].config
              \/ d = cmd[c].dev /\ cmd[c].pc \in {"cleanup", "dropConfig"} /\ local'[d].config = Absent
              \/ d = cmd[c].dev /\ cmd[c].pc = "encrypt" /\ local'[d].config.remotes = local[d].config.remotes
              \/ /\ d = cmd[c].dev /\ cmd[c].pc \in {"base", "crypt"}
                 /\ local'[d].config.secret = local[d].config.secret
                 /\ "legacy" \in local'[d].config.remotes => "legacy" \in local[d].config.remotes
                 /\ local[d].config.remotes \subseteq local'[d].config.remotes
           /\ \/ local'[d].slot.config = local[d].slot.config
              \/ local[d].slot.config = "none" /\ local'[d].slot.config = "torn"
              \/ /\ d = cmd[c].dev /\ cmd[c].pc = "keepConfig" /\ local'[d].slot.config = local[d].config.secret
                 /\ local[d].slot.config \in {"none", local[d].config.secret}
           /\ \/ local'[d].slot.secret = local[d].slot.secret
              \/ local[d].slot.secret = "none" /\ local'[d].slot.secret = "torn"
              \/ /\ d = cmd[c].dev /\ cmd[c].pc = "keepSecret" /\ local'[d].slot.secret = cmd[c].secret
                 /\ local[d].slot.secret \in {"none", cmd[c].secret}
PROOF
<1>1. CASE UNCHANGED local
  BY <1>1
<1>2. /\ local \in [Devices -> Locals] /\ local[d] \in Locals
      /\ local[d].config \in Configs /\ local[d].slot \in Slots
  BY DEF TypeOK, Locals
<1> USE <1>2 DEF Locals, Configs, Slots
<1>3. CASE Password(c) \/ Encrypt(c) \/ Cleanup(c)
  BY <1>1, <1>3 DEF Password, Encrypt, Cleanup, Refuses
<1>4. CASE StoreBase(c) \/ StoreCrypt(c)
  BY <1>1, <1>4 DEF StoreBase, StoreCrypt, Store, Refuses
<1>5. CASE SaveManaged(c) \/ Acknowledge(c)
  BY <1>1, <1>5 DEF SaveManaged, Acknowledge, CreatePrivateFile, Refuses
<1>6. CASE KeepConfig(c) \/ KeepSecret(c)
  BY <1>1, <1>6 DEF KeepConfig, KeepSecret, Preserve, Refuses, Here, Config
<1>7. CASE DropConfig(c) \/ DropAck(c) \/ DropSecret(c) \/ KeepTyped(c)
  BY <1>1, <1>7 DEF DropConfig, DropAck, DropSecret, KeepTyped, Refuses
<1>8. CASE Fail(c)
  <2>1. PICK h \in {Here(c), Written(c)} : local' = [local EXCEPT ![cmd[c].dev] = h]
    BY <1>8 DEF Fail
  <2> QED
    BY <2>1, WrittenFacts DEF Here
<1>9. CASE Kill(c)
  <2>1. PICK h \in {Here(c), Torn(c)} : local' = [local EXCEPT ![cmd[c].dev] = h]
    BY <1>9 DEF Kill
  <2> QED
    BY <2>1, TornFacts DEF Here
<1> QED
  BY <1>1, <1>3, <1>4, <1>5, <1>6, <1>7, <1>8, <1>9 DEF Acts, Connect, Disconnect, Other, Start, CheckAbsent,
     Lookup, Choose, Verify, Post, ReadBack, Open, Inspect, InspectAgain, CheckTyped, Load, Ready, Put, Refuses

(* No command is on a device that is installed again.                         *)
LEMMA ReinstallFacts ==
    ASSUME TypeOK, NEW d \in Devices, Reinstall(d)
    PROVE  /\ cmd' = cmd /\ objects' = objects /\ exported' = exported
           /\ \A c \in Commands : cmd[c].dev # d
           /\ local'[d] = Fresh /\ \A e \in Devices \ {d} : local'[e] = local[e]
PROOF
  BY DEF Reinstall, TypeOK, account

(* What leads to the points where a key is held.                              *)
LEMMA KeyMoves ==
    ASSUME TypeOK, Placed, NEW c \in Commands, Acts(c)
    PROVE  /\ cmd'[c].pc = "ready" => cmd'[c].key \in Keys
           /\ cmd'[c].pc = "put" => /\ cmd[c].pc = "ready" /\ cmd[c].dev \in Devices
                                    /\ cmd'[c].key = cmd[c].key /\ Here(c).ack = cmd[c].key
           /\ cmd'[c].pc = "uploaded" => cmd[c].pc = "put" /\ cmd'[c].key = cmd[c].key
           /\ cmd'[c].pc = "acknowledge" =>
                 /\ cmd'[c].dev = cmd[c].dev /\ cmd[c].dev \in Devices /\ cmd'[c].key = cmd[c].key
                 /\ local'[cmd[c].dev].managed = cmd[c].key
PROOF
<1>1. cmd \in [Commands -> Jobs] /\ cmd[c] \in Jobs /\ local \in [Devices -> Locals]
  BY DEF TypeOK
<1>2. CASE Start(c)
  BY <1>2, StartFacts
<1>3. CASE Ends(c)
  BY <1>3, EndsFacts
<1>4. CASE Password(c) /\ ~ Ends(c)
  BY <1>1, <1>4 DEF Password, Refuses, Jobs
<1>5. CASE Lookup(c)
  <2>1. cmd'[c].pc = "choose"
    BY <1>1, <1>5 DEF Lookup, Jobs
  <2> QED
    BY <2>1
<1>6. CASE Choose(c) /\ ~ Ends(c)
  <2>1. PICK key, existing : cmd' = [cmd EXCEPT ![c].pc = "base", ![c].key = key, ![c].existing = existing]
    BY <1>6 DEF Choose, Refuses
  <2>2. cmd'[c].pc = "base"
    BY <1>1, <2>1 DEF Jobs
  <2> QED
    BY <2>2
<1>7. CASE ReadBack(c) /\ ~ Ends(c)
  <2>1. cmd'[c].pc = "save"
    BY <1>1, <1>7 DEF ReadBack, Jobs
  <2> QED
    BY <2>1
<1>8. CASE (CheckAbsent(c) \/ Encrypt(c) \/ StoreBase(c) \/ StoreCrypt(c) \/ Verify(c) \/ Post(c)
              \/ Acknowledge(c) \/ Cleanup(c)) /\ ~ Ends(c)
  BY <1>8, GotoFacts, PointFacts DEF CheckAbsent, Encrypt, StoreBase, StoreCrypt, Store, Verify, Post,
     Acknowledge, CreatePrivateFile, Cleanup, Refuses, ConnectSteps, Ended
<1>9. CASE SaveManaged(c) /\ ~ Ends(c)
  <2>1. Goto(c, "acknowledge") /\ local' = [local EXCEPT ![cmd[c].dev].managed = cmd[c].key]
    BY <1>9 DEF SaveManaged, CreatePrivateFile, Refuses
  <2>2. cmd[c].dev \in Devices
    BY <1>9, PointFacts DEF SaveManaged, Placed, ConnectSteps
  <2>3. local'[cmd[c].dev].managed = cmd[c].key
    BY <1>1, <2>1, <2>2 DEF Locals
  <2> QED
    BY <2>1, <2>2, <2>3, GotoFacts, PointFacts DEF ConnectSteps, Ended
<1>10. CASE Open(c) /\ ~ Ends(c)
  <2>1. cmd'[c].pc = "inspect"
    BY <1>1, <1>10 DEF Open, Refuses, Jobs
  <2> QED
    BY <2>1
<1>11. CASE Disconnect(c) /\ ~ Open(c) /\ ~ Ends(c)
  BY <1>11, GotoFacts, PointFacts DEF Disconnect, Inspect, KeepConfig, KeepSecret, Preserve, InspectAgain,
     DropConfig, DropAck, DropSecret, Refuses, DisconnectSteps, Ended
<1>12. CASE Load(c) /\ ~ Ends(c)
  <2>1. Loaded(c) \in Keys /\ cmd' = [cmd EXCEPT ![c].pc = "ready", ![c].key = Loaded(c), ![c].secret = Here(c).secret]
    BY <1>12, CommandFacts, PointFacts DEF Load, Loaded, Refuses, Material, OtherSteps
  <2>2. cmd'[c].pc = "ready" /\ cmd'[c].key = Loaded(c)
    BY <1>1, <2>1 DEF Jobs
  <2> QED
    BY <2>1, <2>2
<1>13. CASE Ready(c) /\ ~ Ends(c)
  BY <1>13, GotoFacts, PointFacts DEF Ready, Refuses, OtherSteps, Ended, Placed
<1>14. CASE Put(c) /\ ~ Ends(c)
  BY <1>14, GotoFacts, PointFacts DEF Put, Refuses, Ended
<1>15. CASE (CheckTyped(c) \/ KeepTyped(c)) /\ ~ Ends(c)
  BY <1>15, GotoFacts, PointFacts DEF CheckTyped, KeepTyped, Refuses, OtherSteps, Ended
<1>16. CASE Kill(c)
  BY <1>16, GotoFacts, PointFacts DEF Kill, Ended
<1> QED
  BY <1>2, <1>3, <1>4, <1>5, <1>6, <1>7, <1>8, <1>9, <1>10, <1>11, <1>12, <1>13, <1>14, <1>15, <1>16
  DEF Acts, Connect, Disconnect, Other, Fail

(* The acknowledgement and the uploads: their key stays known.                *)
LEMMA AcknowledgedStep ==
    ASSUME TypeOK, Placed, KeyIsProven, AcknowledgedIsKnown, [Next]_vars
    PROVE  AcknowledgedIsKnown'
PROOF
<1>0. "none" \notin Keys /\ "torn" \notin Keys
  BY ConnectionAssumption DEF NotKeys
<1>1. CASE UNCHANGED <<cmd, local>>
  BY <1>1, KnownGrows DEF AcknowledgedIsKnown
<1>2. ASSUME NEW c \in Commands, Acts(c) PROVE AcknowledgedIsKnown'
  <2>1. cmd[c].pc = "acknowledge" => cmd[c].key \in Known
    BY DEF KeyIsProven, Known, Chosen
  <2>2. ASSUME NEW d \in Devices, local'[d].ack \in Keys PROVE local'[d].ack \in Known
    BY <1>0, <1>2, <2>1, <2>2, KeyFilesFacts DEF AcknowledgedIsKnown
  <2>3. cmd'[c].pc \in {"put", "uploaded"} => cmd'[c].key \in Known
    BY <1>2, KeyMoves DEF AcknowledgedIsKnown, Here
  <2>4. \A e \in Commands \ {c} : cmd'[e] = cmd[e]
    BY <1>2, StartFacts, ActsFacts
  <2> QED
    BY <1>2, <2>2, <2>3, <2>4, KeyMoves, KnownGrows DEF AcknowledgedIsKnown
<1>3. ASSUME NEW d \in Devices, Reinstall(d) PROVE AcknowledgedIsKnown'
  <2>1. Fresh.ack = "none"
    BY DEF Fresh
  <2> QED
    BY <1>0, <1>3, <2>1, ReinstallFacts, KnownGrows DEF AcknowledgedIsKnown
<1> QED
  BY <1>1, <1>2, <1>3 DEF Next, Acts, Export, Arrives, vars

(* The key is saved before it is acknowledged, and nobody removes it.         *)
LEMMA SavedStep ==
    ASSUME TypeOK, Placed, KeyIsProven, AcknowledgedIsKept, SavedFirst, [Next]_vars
    PROVE  AcknowledgedIsKept' /\ SavedFirst'
PROOF
<1>0. "none" \notin Keys /\ "torn" \notin Keys
  BY ConnectionAssumption DEF NotKeys
<1>00. \A c \in Commands : cmd[c].pc = "acknowledge" =>
           cmd[c].dev \in Devices /\ cmd[c].key \in Keys /\ local[cmd[c].dev].managed = cmd[c].key
  BY PointFacts DEF SavedFirst, Placed, KeyIsProven, Chosen, ConnectSteps, Here
<1>1. CASE UNCHANGED <<cmd, local>>
  BY <1>1 DEF AcknowledgedIsKept, SavedFirst, Here
<1>2. ASSUME NEW c \in Commands, Acts(c) PROVE AcknowledgedIsKept' /\ SavedFirst'
  <2>1. ASSUME NEW d \in Devices, local'[d].ack \in Keys \ OldKeys PROVE local'[d].managed = local'[d].ack
    BY <1>0, <1>00, <1>2, <2>1, KeyFilesFacts DEF AcknowledgedIsKept
  <2>2. \A e \in Commands \ {c} : cmd'[e] = cmd[e]
    BY <1>2, StartFacts, ActsFacts
  <2>3. ASSUME NEW e \in Commands \ {c}, cmd[e].pc = "acknowledge"
        PROVE  local'[cmd[e].dev].managed = cmd[e].key
    BY <1>0, <1>00, <1>2, <2>3, KeyFilesFacts
  <2>4. cmd'[c].pc = "acknowledge" => local'[cmd'[c].dev].managed = cmd'[c].key
    BY <1>2, KeyMoves
  <2> QED
    BY <2>1, <2>2, <2>3, <2>4 DEF AcknowledgedIsKept, SavedFirst, Here
<1>3. ASSUME NEW d \in Devices, Reinstall(d) PROVE AcknowledgedIsKept' /\ SavedFirst'
  <2>1. Fresh.ack = "none"
    BY DEF Fresh
  <2> QED
    BY <1>0, <1>00, <1>3, <2>1, ReinstallFacts DEF AcknowledgedIsKept, SavedFirst, Here
<1> QED
  BY <1>1, <1>2, <1>3 DEF Next, Acts, Export, Arrives, vars

(* What leads to the steps of a connection that owns its configuration, and   *)
(* from one step of the preservation to the next.                             *)
Owning == ConnectSteps \ {"password", "absent"}

(* How a command gets to the calls where LegacyIsPreserved says something.    *)
LEMMA LegacyMoves ==
    ASSUME TypeOK, Placed, NEW c \in Commands, Acts(c)
    PROVE  /\ cmd'[c].pc \in Owning =>
                 /\ cmd'[c].dev = cmd[c].dev /\ cmd[c].dev \in Devices
                 /\ cmd[c].pc \in Owning \/ (local'[cmd[c].dev].config = Absent)
           /\ cmd'[c].pc \in {"keepConfig", "keepSecret", "again", "dropConfig"} =>
                 /\ cmd'[c].dev = cmd[c].dev /\ cmd[c].dev \in Devices /\ cmd'[c].secret = cmd[c].secret
           /\ cmd'[c].pc = "keepConfig" => cmd[c].pc = "inspect" /\ Config(c).secret = cmd[c].secret
           /\ cmd'[c].pc = "keepSecret" =>
                 cmd[c].pc = "keepConfig" /\ local'[cmd[c].dev].slot.config = Config(c).secret
           /\ cmd'[c].pc = "again" =>
                 \/ cmd[c].pc = "inspect" /\ "legacy" \notin Config(c).remotes
                 \/ cmd[c].pc = "keepSecret" /\ local'[cmd[c].dev].slot.secret = cmd[c].secret
           /\ cmd'[c].pc = "dropConfig" => cmd[c].pc = "again"
PROOF
<1>1. cmd \in [Commands -> Jobs] /\ cmd[c] \in Jobs /\ local \in [Devices -> Locals]
  BY DEF TypeOK
<1>2. CASE Start(c)
  BY <1>2, StartFacts DEF Owning, ConnectSteps
<1>3. ~ Start(c) => cmd[c].dev \in Devices
  BY ActsFacts DEF Placed
<1> USE PointFacts DEF Owning, ConnectSteps, Ended
<1>4. CASE ~ Start(c) /\ Ends(c)
  BY <1>3, <1>4, EndsFacts DEF Cleans
<1>5. CASE Password(c) /\ ~ Ends(c)
  BY <1>1, <1>5 DEF Password, Refuses, Jobs
<1>6. CASE Lookup(c)
  <2>1. cmd'[c].pc = "choose" /\ cmd'[c].dev = cmd[c].dev
    BY <1>1, <1>6 DEF Lookup, Jobs
  <2> QED
    BY <1>3, <1>6, <2>1 DEF Lookup, Placed
<1>7. CASE Choose(c) /\ ~ Ends(c)
  <2>1. PICK key, existing : cmd' = [cmd EXCEPT ![c].pc = "base", ![c].key = key, ![c].existing = existing]
    BY <1>7 DEF Choose, Refuses
  <2>2. cmd'[c].pc = "base" /\ cmd'[c].dev = cmd[c].dev
    BY <1>1, <2>1 DEF Jobs
  <2> QED
    BY <1>3, <1>7, <2>2 DEF Choose, Placed
<1>8. CASE ReadBack(c) /\ ~ Ends(c)
  <2>1. cmd'[c].pc = "save" /\ cmd'[c].dev = cmd[c].dev
    BY <1>1, <1>8 DEF ReadBack, Jobs
  <2> QED
    BY <1>3, <1>8, <2>1 DEF ReadBack, Placed
<1>9. CASE (CheckAbsent(c) \/ Encrypt(c) \/ StoreBase(c) \/ StoreCrypt(c) \/ Verify(c) \/ Post(c)
              \/ SaveManaged(c) \/ Acknowledge(c) \/ Cleanup(c)) /\ ~ Start(c) /\ ~ Ends(c)
  BY <1>3, <1>9, GotoFacts DEF CheckAbsent, Encrypt, StoreBase, StoreCrypt, Store, Verify, Post,
     SaveManaged, Acknowledge, CreatePrivateFile, Cleanup, Refuses, Config, Here
<1>10. CASE Open(c) /\ ~ Ends(c)
  <2>1. cmd'[c].pc = "inspect"
    BY <1>1, <1>10 DEF Open, Refuses, Jobs
  <2> QED
    BY <2>1
<1>11. CASE (Inspect(c) \/ InspectAgain(c)) /\ ~ Start(c) /\ ~ Ends(c)
  BY <1>3, <1>11, GotoFacts DEF Inspect, InspectAgain, Inspected, Preflight, Opens, Refuses, DisconnectSteps
<1>12. CASE KeepConfig(c) /\ ~ Start(c) /\ ~ Ends(c)
  <2>1. Goto(c, "keepSecret") /\ local' = [local EXCEPT ![cmd[c].dev].slot.config = Config(c).secret]
    BY <1>12 DEF KeepConfig, Preserve, Refuses
  <2>2. local'[cmd[c].dev].slot.config = Config(c).secret
    BY <1>1, <1>3, <1>12, <2>1 DEF Locals, Slots
  <2> QED
    BY <1>3, <1>12, <2>1, <2>2, GotoFacts DEF DisconnectSteps, KeepConfig
<1>13. CASE KeepSecret(c) /\ ~ Start(c) /\ ~ Ends(c)
  <2>1. Goto(c, "again") /\ local' = [local EXCEPT ![cmd[c].dev].slot.secret = cmd[c].secret]
    BY <1>13 DEF KeepSecret, Preserve, Refuses
  <2>2. local'[cmd[c].dev].slot.secret = cmd[c].secret
    BY <1>1, <1>3, <1>13, <2>1 DEF Locals, Slots
  <2> QED
    BY <1>3, <1>13, <2>1, <2>2, GotoFacts DEF DisconnectSteps, KeepSecret
<1>14. CASE (DropConfig(c) \/ DropAck(c) \/ DropSecret(c)) /\ ~ Start(c) /\ ~ Ends(c)
  BY <1>14, GotoFacts DEF DropConfig, DropAck, DropSecret, Refuses, DisconnectSteps
<1>15. CASE Load(c) /\ ~ Ends(c)
  <2>1. cmd'[c].pc = "ready"
    BY <1>1, <1>15 DEF Load, Refuses, Jobs
  <2> QED
    BY <2>1
<1>16. CASE (CheckTyped(c) \/ KeepTyped(c) \/ Ready(c) \/ Put(c)) /\ ~ Ends(c)
  BY <1>16, GotoFacts DEF CheckTyped, KeepTyped, Ready, Put, Refuses, OtherSteps
<1>17. CASE Kill(c)
  BY <1>17, GotoFacts DEF Kill
<1> QED
  BY <1>2, <1>4, <1>5, <1>6, <1>7, <1>8, <1>9, <1>10, <1>11, <1>12, <1>13, <1>14, <1>15, <1>16, <1>17
  DEF Acts, Connect, Disconnect, Other, Fail

(* A v0.1.0 connection and what is preserved of it.                           *)
LEMMA LegacyStep ==
    ASSUME TypeOK, TypeOK', Placed, LegacyIsPreserved, [Next]_vars
    PROVE  LegacyIsPreserved'
PROOF
<1>0. Absent.remotes = {} /\ Fresh.config = Absent
  BY DEF Absent, Fresh
<1>00. /\ DisconnectSteps \cap ConnectSteps = {}
       /\ \A c \in Commands : cmd[c].pc \in ConnectSteps \cup DisconnectSteps => cmd[c].dev \in Devices
  BY PointFacts DEF Placed, DisconnectSteps, ConnectSteps
<1>1. CASE UNCHANGED <<cmd, local>>
  BY <1>1 DEF LegacyIsPreserved, Config, Here
<1>2. ASSUME NEW c \in Commands, Acts(c) PROVE LegacyIsPreserved'
  <2>0. \A e \in Commands \ {c} : cmd'[e] = cmd[e]
    BY <1>2, StartFacts, ActsFacts
  <2>1. ASSUME NEW d \in Devices, "legacy" \in local'[d].config.remotes
        PROVE  /\ "legacy" \in local[d].config.remotes
               /\ local[d].config.secret = "typed" /\ local'[d].config.secret = "typed"
    <3>1. cmd[c].pc = "encrypt" /\ d = cmd[c].dev => "legacy" \notin local[d].config.remotes
      BY DEF LegacyIsPreserved, ConnectSteps, Config, Here
    <3> QED
      BY <1>0, <1>2, <2>1, <3>1, ConfigFacts DEF LegacyIsPreserved
  <2>2. ASSUME NEW d \in Devices
        PROVE  /\ local[d].slot.config = "typed" => local'[d].slot.config = "typed"
               /\ local[d].slot.secret = "typed" => local'[d].slot.secret = "typed"
    BY <1>2, ConfigFacts
  <2>3. ASSUME NEW e \in Commands, cmd'[e].pc \in Owning
        PROVE  "legacy" \notin local'[cmd'[e].dev].config.remotes
    <3>1. CASE e = c
      BY <1>0, <1>2, <2>1, <2>3, <3>1, LegacyMoves DEF LegacyIsPreserved, Owning, Config, Here
    <3>2. CASE e # c
      BY <1>00, <2>0, <2>1, <2>3, <3>2 DEF LegacyIsPreserved, Owning, Config, Here
    <3> QED
      BY <3>1, <3>2
  <2>4. ASSUME NEW e \in Commands, cmd'[e].pc \in DisconnectSteps,
               "legacy" \in local'[cmd'[e].dev].config.remotes
        PROVE  /\ cmd'[e].pc \in {"keepConfig", "keepSecret"} => cmd'[e].secret = "typed"
               /\ cmd'[e].pc \in {"keepSecret", "again", "dropConfig"} =>
                     local'[cmd'[e].dev].slot.config = "typed"
               /\ cmd'[e].pc \in {"again", "dropConfig"} => local'[cmd'[e].dev].slot.secret = "typed"
    <3>1. CASE e = c
      BY <1>2, <2>1, <2>2, <2>4, <3>1, LegacyMoves DEF LegacyIsPreserved, DisconnectSteps, Config, Here
    <3>2. CASE e # c
      BY <1>00, <2>0, <2>1, <2>2, <2>4, <3>2 DEF LegacyIsPreserved, DisconnectSteps, Config, Here
    <3> QED
      BY <3>1, <3>2
  <2> QED
    BY <2>1, <2>3, <2>4 DEF LegacyIsPreserved, Owning, Config, Here
<1>3. ASSUME NEW d \in Devices, Reinstall(d) PROVE LegacyIsPreserved'
  BY <1>0, <1>00, <1>3, ReinstallFacts DEF LegacyIsPreserved, Config, Here
<1> QED
  BY <1>1, <1>2, <1>3 DEF Next, Acts, Export, Arrives, vars

(* No step takes a v0.1.0 connection away before the slot is complete.        *)
LEMMA LegacyKeptStep ==
    ASSUME TypeOK, TypeOK', Placed, LegacyIsPreserved, [Next]_vars, NEW d \in Devices,
           "legacy" \in local[d].config.remotes \ local'[d].config.remotes, local'[d] # Fresh
    PROVE  local'[d].slot = [config |-> "typed", secret |-> "typed"]
PROOF
<1>1. PICK c \in Commands : Acts(c)
  <2>1. ~ UNCHANGED local
    OBVIOUS
  <2>2. ~ \E e \in Devices : Reinstall(e)
    BY ReinstallFacts
  <2> QED
    BY <2>1, <2>2 DEF Next, Acts, Export, Arrives, vars
<1>2. d = cmd[c].dev /\ cmd[c].pc = "dropConfig"
  BY <1>1, ConfigFacts DEF LegacyIsPreserved, ConnectSteps, Config, Here
<1>3. local[d].slot.config = "typed" /\ local[d].slot.secret = "typed"
  BY <1>2 DEF LegacyIsPreserved, DisconnectSteps, Config, Here
<1>4. local'[d].slot.config = "typed" /\ local'[d].slot.secret = "typed"
  BY <1>1, <1>3, ConfigFacts
<1>5. local'[d].slot \in Slots
  BY DEF TypeOK, Locals
<1> QED
  BY <1>4, <1>5 DEF Slots

-----------------------------------------------------------------------------
(* The first accounts and devices satisfy the invariant.                      *)
LEMMA InitInv == Init => ConnectionInv
PROOF
<1> SUFFICES ASSUME Init PROVE ConnectionInv
  OBVIOUS
<1>1. PICK a \in FirstAccounts : objects = a.objects /\ backups = a.backups
  BY DEF Init
<1>2. a \in Accounts /\ a.objects \subseteq Objects /\ a.backups \in [Keys -> Nat]
  BY FirstAssumption DEF Accounts
<1>3. local \in [Devices -> Locals] /\ local \in FirstDevices
  BY FirstAssumption DEF Init
<1>4. \A c \in Commands : cmd[c] = Waiting
  BY DEF Init
<1>5. Waiting.pc = "new" /\ Waiting.state = "none" /\ Waiting.manual = "none"
  BY DEF Waiting
<1>6. "new" \notin Running \cup Chosen \cup {"save", "acknowledge", "load", "ready", "put", "uploaded"}
  BY DEF Running, ConnectSteps, DisconnectSteps, OtherSteps, Chosen
<1>7. TypeOK
  <2>1. cmd \in [Commands -> Jobs]
    BY WaitingTyped DEF Init
  <2> QED
    BY <1>1, <1>2, <1>3, <2>1, ConnectionAssumption DEF Init, TypeOK
<1>8. Placed /\ KeyIsProven /\ SavedFirst
  BY <1>4, <1>5, <1>6 DEF Placed, KeyIsProven, SavedFirst
<1>9. ASSUME NEW d \in Devices, local[d].ack \in Keys \ OldKeys
      PROVE  local[d].managed = local[d].ack /\ local[d].ack \in KeysOf(objects \ Damaged)
  <2>1. [key |-> local[d].ack, sound |-> TRUE] \in objects /\ local[d].managed = local[d].ack
    BY <1>1, <1>3, <1>9, ConnectedAssumption
  <2> QED
    BY <2>1 DEF KeysOf, Damaged
<1>10. AcknowledgedIsKept /\ AcknowledgedIsKnown
  BY <1>4, <1>5, <1>6, <1>9 DEF AcknowledgedIsKept, AcknowledgedIsKnown, Known, Init
<1>11. LegacyIsPreserved
  BY <1>3, <1>4, <1>5, <1>6, ConnectedAssumption DEF LegacyIsPreserved, Running
<1> QED
  BY <1>7, <1>8, <1>10, <1>11 DEF ConnectionInv

(* Every step keeps it.                                                       *)
LEMMA InvStep == ConnectionInv /\ [Next]_vars => ConnectionInv'
PROOF
<1> SUFFICES ASSUME ConnectionInv, [Next]_vars PROVE ConnectionInv'
  OBVIOUS
<1>1. TypeOK'
  BY TypeStep DEF ConnectionInv
<1> QED
  BY <1>1, PlacedStep, KeyStep, AcknowledgedStep, SavedStep, LegacyStep DEF ConnectionInv

(* The inductive invariant, for any devices, commands, first accounts and     *)
(* first devices (connection.go, appdata.go, legacy.go).                      *)
THEOREM Invariant == Spec => []ConnectionInv
PROOF
<1> QED
  BY InitInv, InvStep, PTL DEF Spec

(* Every reachable state is well typed.                                       *)
THEOREM TypeCorrect == Spec => []TypeOK
PROOF
<1>1. ConnectionInv => TypeOK
  BY DEF ConnectionInv
<1> QED
  BY <1>1, Invariant, PTL

(* All connections that were reported on the account's recovery data have the *)
(* same key (connectGoogle, createRecoveryObject).                            *)
THEOREM AgreeOnOneKey == Spec => []OneKey
PROOF
<1>1. ConnectionInv => OneKey
  BY DEF ConnectionInv, KeyIsProven, OneKey, Agreed
<1> QED
  BY <1>1, Invariant, PTL

(* The key of every reported upload is in a readable recovery object or in a  *)
(* file of the owner, from then on (Upload, AcknowledgeRecovery).             *)
THEOREM UploadsStayReadable == Spec => []UploadsCanBeOpened
PROOF
<1>1. ConnectionInv => UploadsCanBeOpened
  BY DEF ConnectionInv, AcknowledgedIsKnown, UploadsCanBeOpened, Known
<1> QED
  BY <1>1, Invariant, PTL

(* The acknowledgement is never on a device without the key that it is of.    *)
THEOREM AcknowledgementFollowsKey == Spec => []AcknowledgedIsKept
PROOF
<1>1. ConnectionInv => AcknowledgedIsKept
  BY DEF ConnectionInv
<1> QED
  BY <1>1, Invariant, PTL

(* A v0.1.0 connection is removed only when its configuration and its         *)
(* password are both in the migration slot (runCloudDisconnect).              *)
THEOREM LegacyIsNeverLost == Spec => LegacyIsKept
PROOF
<1> DEFINE Kept == \A d \in Devices :
          "legacy" \in local[d].config.remotes \ local'[d].config.remotes /\ local'[d] # Fresh =>
              local'[d].slot = [config |-> "typed", secret |-> "typed"]
<1>1. ConnectionInv /\ [Next]_vars => [Kept]_vars
  <2> SUFFICES ASSUME ConnectionInv, [Next]_vars PROVE Kept
    OBVIOUS
  <2>1. TypeOK /\ TypeOK' /\ Placed /\ LegacyIsPreserved
    BY InvStep DEF ConnectionInv
  <2> QED
    BY <2>1, LegacyKeptStep
<1> QED
  BY <1>1, Invariant, PTL DEF Spec, LegacyIsKept
=============================================================================
