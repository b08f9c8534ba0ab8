--------------------------- MODULE CloudConnection ---------------------------
(***************************************************************************)
(* How the devices of one owner come to share the key that encrypts their   *)
(* snapshots in one Google account.  The key is kept in three places: an    *)
(* object in the account's private application area, recovery.json on the   *)
(* device, and (as a fingerprint) the acknowledgement without which nothing *)
(* is uploaded.  A command is one run of `deck-snapshot cloud': connect,    *)
(* disconnect, unlock or upload, call by call.  The commands of all devices *)
(* interleave; a call fails, a command is killed, a request takes effect    *)
(* after its caller gave up, a device is reinstalled.                       *)
(***************************************************************************)
EXTENDS Naturals, FiniteSets, FiniteSetsExt

CONSTANTS
    Devices,
    Commands,      \* one element for each command that is ever given
    Keys,          \* recovery materials
    OldKeys,       \* those the owner has a file of from v0.1.x
    FirstAccounts, \* what the account may hold at first
    FirstDevices,  \* what the devices may hold at first
    Kinds,         \* command -> the kinds it may be of
    PageBound,     \* googleDriveMaximumPages
    MaxTroubles    \* bound on failing calls, killed commands and reinstallations

(* A file that is created without replacement and then written is torn when   *)
(* the command dies in between: it exists and nothing can be read from it.    *)
NotKeys  == {"none", "torn"}
Unusable == {"none", "torn"}

(* Recovery material is a string of a fixed length: there are finitely many.  *)
ASSUME ConnectionAssumption ==
    /\ IsFiniteSet(Keys) /\ Keys \cap NotKeys = {} /\ OldKeys \subseteq Keys
    /\ Commands \cap {"none", "torn", "typed"} = {}
    /\ Kinds \in [Commands -> SUBSET {"connect", "disconnect", "upload", "unlock"}]
    /\ PageBound \in Nat /\ MaxTroubles \in Nat

Secrets  == Commands \cup {"none", "torn", "typed"}  \* config-password, named for its creator
Material == Keys \cup NotKeys                        \* recovery.json, the acknowledgement
Remotes  == {"base", "crypt", "legacy"}
Configs  == [remotes : SUBSET Remotes, secret : Secrets]  \* rclone.conf, what encrypts it
Objects  == [key : Keys, sound : BOOLEAN]            \* objects of managedRecoveryObjectName
Accounts == [objects : SUBSET Objects, backups : [Keys -> Nat]]
Slots    == [config : Secrets, secret : Secrets]     \* the migration slot of v0.1.0
Locals   == [config : Configs, secret : Secrets, managed : Material, ack : Material, slot : Slots]

ASSUME FirstAssumption == FirstAccounts \subseteq Accounts /\ FirstDevices \subseteq [Devices -> Locals]

(* A device that is connected at first has its key from the account, and      *)
(* keeps it, or it is one of v0.1.x, whose owner has it in a file.  The       *)
(* password of a v0.1.0 configuration was typed and is nowhere on the device. *)
ASSUME ConnectedAssumption ==
    \A files \in FirstDevices : \A d \in Devices :
        /\ files[d].ack \in Keys \ OldKeys =>
              /\ files[d].managed = files[d].ack
              /\ \A a \in FirstAccounts : [key |-> files[d].ack, sound |-> TRUE] \in a.objects
        /\ "legacy" \in files[d].config.remotes => files[d].config.secret = "typed"

VARIABLES
    objects,   \* the recovery objects of the account
    backups,   \* key -> the number of backups encrypted with it
    inflight,  \* objects whose creation was given up and may still happen
    local,     \* device -> its files
    exported,  \* the keys the owner has a file of
    cmd,       \* the commands
    left       \* how many troubles are left

account == <<objects, backups, inflight>>
vars    == <<objects, backups, inflight, local, exported, cmd, left>>

ConnectSteps    == {"password", "absent", "encrypt", "lookup", "choose", "base", "crypt",
                    "verify", "post", "readback", "save", "acknowledge", "cleanup"}
DisconnectSteps == {"open", "inspect", "keepConfig", "keepSecret",
                    "again", "dropConfig", "dropAck", "dropSecret"}
OtherSteps      == {"load", "ready", "put", "check", "keepTyped"}
Running == ConnectSteps \cup DisconnectSteps \cup OtherSteps
Ended   == {"connected", "disconnected", "uploaded", "unlocked", "failed", "killed"}

First == [connect |-> "password", disconnect |-> "open", upload |-> "load", unlock |-> "check"]

Waiting == [pc |-> "new", dev |-> "none", manual |-> "none", secret |-> "none",
            key |-> "none", state |-> "none", existing |-> FALSE]

Absent == [remotes |-> {}, secret |-> "none"]
Fresh  == [config |-> Absent, secret |-> "none", managed |-> "none", ack |-> "none",
           slot |-> [config |-> "none", secret |-> "none"]]

Here(c)   == local[cmd[c].dev]
Config(c) == Here(c).config
KeysOf(files) == {f.key : f \in files}

-----------------------------------------------------------------------------
Trouble == left > 0 /\ left' = left - 1
Calm    == left' = left

(* A command that ended leaves what it reported: the outcome, and the key of  *)
(* a connection or an upload.                                                 *)
Report(c, outcome) ==
    IF outcome \in {"connected", "uploaded"}
    THEN [Waiting EXCEPT !.pc = outcome, !.key = cmd[c].key, !.state = cmd[c].state]
    ELSE [Waiting EXCEPT !.pc = outcome]

Goto(c, step) ==
    cmd' = [cmd EXCEPT ![c] = IF step \in Ended THEN Report(c, step) ELSE [@ EXCEPT !.pc = step]]

(* An error ends the command; once a connection has begun to create the       *)
(* configuration, it removes it first.                                        *)
Cleans(c)  == cmd[c].pc \in ConnectSteps \ {"password", "absent", "cleanup"}
Ends(c)    == Goto(c, IF Cleans(c) THEN "cleanup" ELSE "failed")
Refuses(c) == Ends(c) /\ Calm /\ UNCHANGED <<account, local, exported>>

(* The configuration can be read with the password that the command holds.    *)
Opens(c) == Config(c) # Absent /\ Config(c).secret = cmd[c].secret

(* preflightProfile: both remotes, of the present or of the v0.1.0 layout.    *)
Preflight(c) == Opens(c) /\ {"base", "crypt"} \subseteq Config(c).remotes

(* InspectConfiguration also reads the acknowledgement, of whatever key.      *)
Inspected(c) == Preflight(c) /\ Here(c).ack # "torn"

(* The material of a command that requires one: the file, or recovery.json.   *)
Loaded(c) == IF cmd[c].manual # "none" THEN cmd[c].manual ELSE Here(c).managed

(* The owner gives a command, with or without a recovery file.                *)
Start(c) ==
    /\ cmd[c] = Waiting
    /\ \E d \in Devices, kind \in Kinds[c], manual \in exported \cup {"none"} :
           cmd' = [cmd EXCEPT ![c].pc = First[kind], ![c].dev = d, ![c].manual = manual]
    /\ Calm /\ UNCHANGED <<account, local, exported>>

(* A file is created without replacement.  One that is there is accepted only *)
(* when it holds the same.                                                    *)
CreatePrivateFile(c, file, value, next) ==
    IF Here(c)[file] \in {"none", value}
    THEN /\ local' = [local EXCEPT ![cmd[c].dev][file] = value]
         /\ Goto(c, next)
         /\ Calm /\ UNCHANGED <<account, exported>>
    ELSE Refuses(c)

-----------------------------------------------------------------------------
(* Connect *)

(* The password is loaded, or made when there is neither one nor a            *)
(* configuration that needs it.                                               *)
Password(c) ==
    /\ cmd[c].pc = "password"
    /\ LET kept   == Here(c).secret
           makes  == kept = "none" /\ Config(c) = Absent
           secret == IF makes THEN c ELSE kept
       IN  IF secret \in Unusable
           THEN Refuses(c)
           ELSE /\ local' = [local EXCEPT ![cmd[c].dev].secret = secret]
                /\ cmd' = [cmd EXCEPT ![c].pc = "absent", ![c].secret = secret]
                /\ Calm /\ UNCHANGED <<account, exported>>

(* Mutant: a configuration that is there is connected over. *)
CheckNothing(c) ==
    /\ cmd[c].pc = "absent"
    /\ Goto(c, "encrypt") /\ Calm /\ UNCHANGED <<account, local, exported>>

CheckAbsent(c) ==
    /\ cmd[c].pc = "absent"
    /\ IF Config(c) # Absent
       THEN Refuses(c)
       ELSE Goto(c, "encrypt") /\ Calm /\ UNCHANGED <<account, local, exported>>

(* rclone creates the encrypted configuration.  One that another command has  *)
(* made since it refuses, or encrypts again.                                  *)
Encrypt(c) ==
    /\ cmd[c].pc = "encrypt"
    /\ \/ /\ local' = [local EXCEPT ![cmd[c].dev].config.secret = cmd[c].secret]
          /\ Goto(c, "lookup")
          /\ Calm /\ UNCHANGED <<account, exported>>
       \/ Config(c) # Absent /\ Refuses(c)

Damaged == {f \in objects : ~f.sound}

(* What a lookup can make of the objects when those of `bad' were not read:   *)
(* of the objects that are unreadable and those that differ from the first    *)
(* readable one the last decides, and the account orders the listing.         *)
Lookups(bad) ==
    {s \in {"missing", "valid", "invalid", "conflict"} :
        LET keys == KeysOf(objects \ bad) IN
        CASE s = "missing"  -> objects = {}
          [] s = "valid"    -> objects # {} /\ bad = {} /\ Cardinality(keys) = 1
          [] s = "invalid"  -> bad # {}
          [] s = "conflict" -> Cardinality(keys) > 1}

(* The objects a lookup could not read: the damaged ones, and others when     *)
(* their download failed.                                                     *)
Unread(bad) == Damaged \subseteq bad /\ (IF bad = Damaged THEN Calm ELSE Trouble)

(* lookupRecoveryObject, after the authorization in the browser.              *)
Lookup(c) ==
    /\ cmd[c].pc = "lookup"
    /\ \E bad \in SUBSET objects : \E state \in Lookups(bad) :
           /\ Unread(bad)
           /\ \E key \in IF state = "valid" THEN KeysOf(objects) ELSE {"none"} :
                  cmd' = [cmd EXCEPT ![c].pc = "choose", ![c].state = state, ![c].key = key]
    /\ UNCHANGED <<account, local, exported>>

(* A generated key is like no other.                                          *)
Generated == {k \in Keys :
    /\ k \notin KeysOf(objects \cup inflight) \cup exported
    /\ backups[k] = 0
    /\ \A d \in Devices : local[d].managed # k
    /\ \A c \in Commands : cmd[c].key # k /\ cmd[c].manual # k}

(* The keys a connection may go on with; `confirmed' is --initialize.         *)
Eligible(c, existing, confirmed) ==
    CASE cmd[c].state = "valid" /\ cmd[c].manual \in {"none", cmd[c].key} -> {cmd[c].key}
      [] cmd[c].state = "invalid" -> {cmd[c].manual} \ {"none"}
      [] cmd[c].state = "missing" /\ cmd[c].manual # "none" /\ (existing \/ confirmed) -> {cmd[c].manual}
      [] cmd[c].state = "missing" /\ cmd[c].manual = "none" /\ ~existing /\ confirmed -> Generated
      [] OTHER -> {}

BackupsOf(k) == backups[k]

(* How many backups the probe may see: it can miss those of an older          *)
(* authorization identity (connection.go 183-187).                            *)
Visible == MapThenSumSet(BackupsOf, Keys \ OldKeys) .. MapThenSumSet(BackupsOf, Keys)

(* hasVisibleSnapshotObjects lists the backups one to a page and gives up     *)
(* when there are more pages than its bound; then the key is chosen.          *)
Choose(c) ==
    /\ cmd[c].pc = "choose"
    /\ \E seen \in Visible, confirmed \in BOOLEAN :
           LET existing == seen > 0 IN
           IF seen > PageBound \/ Eligible(c, existing, confirmed) = {}
           THEN Refuses(c)
           ELSE /\ \E key \in Eligible(c, existing, confirmed) :
                       cmd' = [cmd EXCEPT ![c].pc = "base", ![c].key = key, ![c].existing = existing]
                /\ Calm /\ UNCHANGED <<account, local, exported>>

(* rclone adds a remote to the configuration. *)
Store(c, remote, next) ==
    IF Opens(c)
    THEN /\ local' = [local EXCEPT ![cmd[c].dev].config.remotes = @ \cup {remote}]
         /\ Goto(c, next)
         /\ Calm /\ UNCHANGED <<account, exported>>
    ELSE Refuses(c)

StoreBase(c)  == cmd[c].pc = "base"  /\ Store(c, "base", "crypt")
StoreCrypt(c) == cmd[c].pc = "crypt" /\ Store(c, "crypt", "verify")

(* Mutant: a new key is not created in the account. *)
VerifyOnly(c) ==
    /\ cmd[c].pc = "verify"
    /\ IF Preflight(c) /\ (cmd[c].existing => backups[cmd[c].key] > 0)
       THEN Goto(c, "save") /\ Calm /\ UNCHANGED <<account, local, exported>>
       ELSE Refuses(c)

(* The listing shows the backups the key opens; when the account has any, one *)
(* must be there.                                                             *)
Verify(c) ==
    /\ cmd[c].pc = "verify"
    /\ IF Preflight(c) /\ (cmd[c].existing => backups[cmd[c].key] > 0)
       THEN /\ Goto(c, IF cmd[c].state = "missing" THEN "post" ELSE "save")
            /\ Calm /\ UNCHANGED <<account, local, exported>>
       ELSE Refuses(c)

Object(c) == [key |-> cmd[c].key, sound |-> TRUE]

Post(c) ==
    /\ cmd[c].pc = "post"
    /\ objects' = objects \cup {Object(c)}
    /\ Goto(c, "readback")
    /\ Calm /\ UNCHANGED <<backups, inflight, local, exported>>

(* Mutant: what was created is not looked up again. *)
ReadBackNothing(c) ==
    /\ cmd[c].pc = "readback"
    /\ cmd' = [cmd EXCEPT ![c].pc = "save", ![c].state = "valid"]
    /\ Calm /\ UNCHANGED <<account, local, exported>>

(* The object is looked up again: it must be the only one, or its copies.     *)
ReadBack(c) ==
    /\ cmd[c].pc = "readback"
    /\ \E bad \in SUBSET objects :
           /\ Unread(bad)
           /\ IF "valid" \in Lookups(bad) /\ KeysOf(objects) = {cmd[c].key}
              THEN cmd' = [cmd EXCEPT ![c].pc = "save", ![c].state = "valid"]
              ELSE Ends(c)
    /\ UNCHANGED <<account, local, exported>>

(* Mutant: an error of the save is ignored. *)
SaveManagedOrNot(c) ==
    /\ cmd[c].pc = "save"
    /\ \/ CreatePrivateFile(c, "managed", cmd[c].key, "acknowledge")
       \/ Goto(c, "acknowledge") /\ Calm /\ UNCHANGED <<account, local, exported>>

SaveManaged(c) ==
    cmd[c].pc = "save" /\ CreatePrivateFile(c, "managed", cmd[c].key, "acknowledge")

Acknowledge(c) ==
    cmd[c].pc = "acknowledge" /\ CreatePrivateFile(c, "ack", cmd[c].key, "connected")

(* Whatever is at the path, by now.                                           *)
Cleanup(c) ==
    /\ cmd[c].pc = "cleanup"
    /\ local' = [local EXCEPT ![cmd[c].dev].config = Absent]
    /\ Goto(c, "failed")
    /\ Calm /\ UNCHANGED <<account, exported>>

-----------------------------------------------------------------------------
(* Disconnect, unlock, upload, export *)

(* The password file, or the v0.1.0 password that the owner types.            *)
Open(c) ==
    /\ cmd[c].pc = "open"
    /\ \E secret \in {Here(c).secret, "typed"} :
           IF Loaded(c) \in NotKeys \/ secret \in Unusable
           THEN Refuses(c)
           ELSE /\ cmd' = [cmd EXCEPT ![c].pc = "inspect", ![c].secret = secret]
                /\ Calm /\ UNCHANGED <<account, local, exported>>

(* Mutant: a legacy connection is not preserved. *)
InspectOnly(c) ==
    /\ cmd[c].pc = "inspect"
    /\ IF Inspected(c)
       THEN Goto(c, "again") /\ Calm /\ UNCHANGED <<account, local, exported>>
       ELSE Refuses(c)

Inspect(c) ==
    /\ cmd[c].pc = "inspect"
    /\ IF Inspected(c)
       THEN /\ Goto(c, IF "legacy" \in Config(c).remotes THEN "keepConfig" ELSE "again")
            /\ Calm /\ UNCHANGED <<account, local, exported>>
       ELSE Refuses(c)

(* preserveLegacyContents, entry by entry.                                    *)
Preserve(c, entry, value, next) ==
    IF value # "none" /\ Here(c).slot[entry] \in {"none", value}
    THEN /\ local' = [local EXCEPT ![cmd[c].dev].slot[entry] = value]
         /\ Goto(c, next)
         /\ Calm /\ UNCHANGED <<account, exported>>
    ELSE Refuses(c)

KeepConfig(c) == cmd[c].pc = "keepConfig" /\ Preserve(c, "config", Config(c).secret, "keepSecret")
KeepSecret(c) == cmd[c].pc = "keepSecret" /\ Preserve(c, "secret", cmd[c].secret, "again")

(* Disconnect makes the preflight once more, then removes.                    *)
InspectAgain(c) ==
    /\ cmd[c].pc = "again"
    /\ IF Preflight(c)
       THEN Goto(c, "dropConfig") /\ Calm /\ UNCHANGED <<account, local, exported>>
       ELSE Refuses(c)

DropConfig(c) ==
    /\ cmd[c].pc = "dropConfig"
    /\ IF Config(c) = Absent
       THEN Refuses(c)
       ELSE /\ local' = [local EXCEPT ![cmd[c].dev].config = Absent]
            /\ Goto(c, "dropAck")
            /\ Calm /\ UNCHANGED <<account, exported>>

DropAck(c) ==
    /\ cmd[c].pc = "dropAck"
    /\ local' = [local EXCEPT ![cmd[c].dev].ack = "none"]
    /\ Goto(c, "dropSecret")
    /\ Calm /\ UNCHANGED <<account, exported>>

DropSecret(c) ==
    /\ cmd[c].pc = "dropSecret"
    /\ local' = [local EXCEPT ![cmd[c].dev].secret = "none"]
    /\ Goto(c, "disconnected")
    /\ Calm /\ UNCHANGED <<account, exported>>

(* Unlock: the typed password must open the configuration.                    *)
CheckTyped(c) ==
    /\ cmd[c].pc = "check"
    /\ IF /\ Loaded(c) \in Keys /\ Here(c).ack # "torn"
          /\ {"base", "crypt"} \subseteq Config(c).remotes /\ Config(c).secret = "typed"
       THEN Goto(c, "keepTyped") /\ Calm /\ UNCHANGED <<account, local, exported>>
       ELSE Refuses(c)

KeepTyped(c) ==
    /\ cmd[c].pc = "keepTyped"
    /\ IF Here(c).secret = "none"
       THEN /\ local' = [local EXCEPT ![cmd[c].dev].secret = "typed"]
            /\ Goto(c, "unlocked")
            /\ Calm /\ UNCHANGED <<account, exported>>
       ELSE Refuses(c)

Load(c) ==
    /\ cmd[c].pc = "load"
    /\ IF Loaded(c) \in NotKeys \/ Here(c).secret \in Unusable
       THEN Refuses(c)
       ELSE /\ cmd' = [cmd EXCEPT ![c].pc = "ready", ![c].key = Loaded(c), ![c].secret = Here(c).secret]
            /\ Calm /\ UNCHANGED <<account, local, exported>>

Ready(c) ==
    /\ cmd[c].pc = "ready"
    /\ IF Preflight(c) /\ "legacy" \notin Config(c).remotes /\ Here(c).ack = cmd[c].key
       THEN Goto(c, "put") /\ Calm /\ UNCHANGED <<account, local, exported>>
       ELSE Refuses(c)

(* rclone encrypts with the key that the command gave it, as long as the      *)
(* remotes are there.                                                         *)
Put(c) ==
    /\ cmd[c].pc = "put"
    /\ IF Preflight(c)
       THEN /\ backups' = [backups EXCEPT ![cmd[c].key] = @ + 1]
            /\ Goto(c, "uploaded")
            /\ Calm /\ UNCHANGED <<objects, inflight, local, exported>>
       ELSE Refuses(c)

(* `cloud recovery create' writes what recovery.json holds to a new file.     *)
Export(d) ==
    /\ local[d].managed \in Keys \ exported
    /\ exported' = exported \cup {local[d].managed}
    /\ Calm /\ UNCHANGED <<account, local, cmd>>

-----------------------------------------------------------------------------
(* Trouble *)

(* A file that was created and written, in a directory that then could not be *)
(* synchronised, stays.  (Where the code reads it back it goes on instead.)   *)
Written(c) ==
    LET h == Here(c) IN
    CASE cmd[c].pc = "password" /\ h.secret = "none" /\ h.config = Absent -> [h EXCEPT !.secret = c]
      [] cmd[c].pc = "keepTyped" /\ h.secret = "none" -> [h EXCEPT !.secret = "typed"]
      [] cmd[c].pc = "acknowledge" /\ h.ack = "none" -> [h EXCEPT !.ack = cmd[c].key]
      [] OTHER -> h

(* A call fails: the request to create the object may still be carried out.   *)
Fail(c) ==
    /\ cmd[c].pc \in Running \ {"cleanup"}
    /\ Trouble
    /\ Ends(c)
    /\ \E h \in {Here(c), Written(c)} : local' = [local EXCEPT ![cmd[c].dev] = h]
    /\ inflight' \in {inflight} \cup (IF cmd[c].pc = "post" THEN {inflight \cup {Object(c)}} ELSE {})
    /\ UNCHANGED <<objects, backups, exported>>

Arrives ==
    \E f \in inflight :
        /\ objects' = objects \cup {f}
        /\ inflight' = inflight \ {f}
        /\ Calm /\ UNCHANGED <<backups, local, exported, cmd>>

(* What the file the command is about to create looks like when it dies after *)
(* the creation and before the content.                                       *)
Torn(c) ==
    LET h == Here(c) IN
    CASE cmd[c].pc = "password" /\ h.secret = "none" /\ h.config = Absent -> [h EXCEPT !.secret = "torn"]
      [] cmd[c].pc = "keepTyped" /\ h.secret = "none" -> [h EXCEPT !.secret = "torn"]
      [] cmd[c].pc = "save" /\ h.managed = "none" -> [h EXCEPT !.managed = "torn"]
      [] cmd[c].pc = "acknowledge" /\ h.ack = "none" -> [h EXCEPT !.ack = "torn"]
      [] cmd[c].pc = "keepConfig" /\ h.slot.config = "none" -> [h EXCEPT !.slot.config = "torn"]
      [] cmd[c].pc = "keepSecret" /\ h.slot.secret = "none" -> [h EXCEPT !.slot.secret = "torn"]
      [] OTHER -> h

(* The command is killed, with its deferred removals.                         *)
Kill(c) ==
    /\ cmd[c].pc \in Running
    /\ Trouble
    /\ Goto(c, "killed")
    /\ \E h \in {Here(c), Torn(c)} : local' = [local EXCEPT ![cmd[c].dev] = h]
    /\ inflight' \in {inflight} \cup (IF cmd[c].pc = "post" THEN {inflight \cup {Object(c)}} ELSE {})
    /\ UNCHANGED <<objects, backups, exported>>

(* SteamOS is installed again, and nothing of the device's files is left.     *)
Reinstall(d) ==
    /\ Trouble
    /\ \A c \in Commands : cmd[c].dev # d
    /\ local[d] # Fresh
    /\ local' = [local EXCEPT ![d] = Fresh]
    /\ UNCHANGED <<account, exported, cmd>>

-----------------------------------------------------------------------------
Init ==
    /\ \E a \in FirstAccounts : objects = a.objects /\ backups = a.backups
    /\ inflight = {}
    /\ local \in FirstDevices
    /\ exported = OldKeys
    /\ cmd = [c \in Commands |-> Waiting]
    /\ left = MaxTroubles

Connect(c) ==
    \/ Password(c) \/ CheckAbsent(c) \/ Encrypt(c) \/ Lookup(c) \/ Choose(c) \/ StoreBase(c)
    \/ StoreCrypt(c) \/ Verify(c) \/ Post(c) \/ ReadBack(c) \/ SaveManaged(c) \/ Acknowledge(c)
    \/ Cleanup(c)
Disconnect(c) ==
    \/ Open(c) \/ Inspect(c) \/ KeepConfig(c) \/ KeepSecret(c) \/ InspectAgain(c)
    \/ DropConfig(c) \/ DropAck(c) \/ DropSecret(c)
Other(c) == CheckTyped(c) \/ KeepTyped(c) \/ Load(c) \/ Ready(c) \/ Put(c)

Next ==
    \/ \E c \in Commands : Start(c) \/ Connect(c) \/ Disconnect(c) \/ Other(c) \/ Fail(c) \/ Kill(c)
    \/ \E d \in Devices : Export(d) \/ Reinstall(d)
    \/ Arrives

Spec == Init /\ [][Next]_vars

-----------------------------------------------------------------------------
(* Properties *)

(* What a command is at, and what it has learned.                             *)
Jobs == [pc : {"new"} \cup Running \cup Ended, dev : Devices \cup {"none"},
         manual : Keys \cup {"none"}, secret : Secrets, key : Keys \cup {"none"},
         state : {"none", "missing", "valid", "invalid", "conflict"},
         existing : BOOLEAN]

TypeOK ==
    /\ objects \in SUBSET Objects /\ inflight \in SUBSET Objects
    /\ backups \in [Keys -> Nat]
    /\ local \in [Devices -> Locals]
    /\ exported \in SUBSET Keys
    /\ cmd \in [Commands -> Jobs]
    /\ left \in 0 .. MaxTroubles

(* A connection that was reported after the account's recovery data proved    *)
(* valid.                                                                     *)
Agreed == {c \in Commands : cmd[c].pc = "connected" /\ cmd[c].state = "valid"}

(* However connections of several devices interleave, all that are reported   *)
(* on the account's recovery data have the same key: of two devices that      *)
(* connect for the first time at most one succeeds, unless both were given    *)
(* the same file (connectGoogle, createRecoveryObject).                       *)
OneKey == \A c, d \in Agreed : cmd[c].key = cmd[d].key

(* Every backup a command uploaded can be opened by whoever connects to the   *)
(* account, or with a recovery file the owner has: its key is in a recovery   *)
(* object that can be read, or in a file (Upload, AcknowledgeRecovery).       *)
UploadsCanBeOpened ==
    \A c \in Commands :
        cmd[c].pc = "uploaded" => cmd[c].key \in KeysOf(objects \ Damaged) \cup exported

(* The acknowledgement, which lets uploads begin, is never there without the  *)
(* key it is of: what was encrypted can be opened on this device, wherever    *)
(* the connection was interrupted.  (That of v0.1.0 is of the owner's file.)  *)
AcknowledgedIsKept ==
    \A d \in Devices : local[d].ack \in Keys \ OldKeys => local[d].managed = local[d].ack

(* A v0.1.0 connection is not forgotten before its configuration and its      *)
(* password are both in the migration slot, whoever removes it and however    *)
(* often the preservation was interrupted (runCloudDisconnect).               *)
LegacyIsKept ==
    [][\A d \in Devices :
          "legacy" \in local[d].config.remotes \ local'[d].config.remotes /\ local'[d] # Fresh =>
              local'[d].slot = [config |-> "typed", secret |-> "typed"]]_vars

-----------------------------------------------------------------------------
(* The inductive invariant *)

(* The keys of which somebody who is not on the device has a readable copy.   *)
Known == KeysOf(objects \ Damaged) \cup exported

(* A command that works is on a device; a file it was given is the owner's.   *)
Placed ==
    \A c \in Commands : /\ cmd[c].pc \in Running => cmd[c].dev \in Devices
                        /\ cmd[c].manual \in exported \cup {"none"}

(* A key that a lookup proved valid is in the account to stay, and there is   *)
(* only one such key; one that is in no object is the owner's.                *)
Chosen == {"base", "crypt", "verify", "post", "readback", "save", "acknowledge"}

KeyIsProven ==
    /\ \A c \in Commands :
          /\ cmd[c].state = "valid" => cmd[c].key \in KeysOf(objects \ Damaged)
          /\ cmd[c].pc \in Chosen =>
                /\ cmd[c].key \in Keys
                /\ cmd[c].state \in {"missing", "valid", "invalid"}
                /\ cmd[c].state = "invalid" => cmd[c].key \in exported
          /\ cmd[c].pc \in {"save", "acknowledge"} => cmd[c].state # "missing"
          /\ cmd[c].pc = "load" => cmd[c].state = "none"
    /\ \A c, d \in Commands : cmd[c].state = "valid" /\ cmd[d].state = "valid" => cmd[c].key = cmd[d].key

(* What is acknowledged is known, and so is what an upload may encrypt with.  *)
AcknowledgedIsKnown ==
    /\ \A d \in Devices : local[d].ack \in Keys => local[d].ack \in Known
    /\ \A c \in Commands : /\ cmd[c].pc = "ready" => cmd[c].key \in Keys
                           /\ cmd[c].pc \in {"put", "uploaded"} => cmd[c].key \in Known

(* recovery.json is there before the acknowledgement.                         *)
SavedFirst == \A c \in Commands : cmd[c].pc = "acknowledge" => Here(c).managed = cmd[c].key

(* No v0.1.0 remote is under a connection that is being made; and the two     *)
(* entries of the slot are written before one is removed.                     *)
LegacyIsPreserved ==
    /\ \A d \in Devices : "legacy" \in local[d].config.remotes => local[d].config.secret = "typed"
    /\ \A c \in Commands :
          /\ cmd[c].pc \in ConnectSteps \ {"password", "absent"} => "legacy" \notin Config(c).remotes
          /\ cmd[c].pc \in DisconnectSteps /\ "legacy" \in Config(c).remotes =>
                /\ cmd[c].pc \in {"keepConfig", "keepSecret"} => cmd[c].secret = "typed"
                /\ cmd[c].pc \in {"keepSecret", "again", "dropConfig"} => Here(c).slot.config = "typed"
                /\ cmd[c].pc \in {"again", "dropConfig"} => Here(c).slot.secret = "typed"

ConnectionInv ==
    /\ TypeOK /\ Placed /\ KeyIsProven /\ AcknowledgedIsKnown
    /\ AcknowledgedIsKept /\ SavedFirst /\ LegacyIsPreserved

-----------------------------------------------------------------------------
(* docs/user-guide.md:49: "After a SteamOS reinstall, [...] connect the same  *)
(* Google account, and the managed recovery object is retrieved               *)
(* automatically."  A connection that found valid recovery data, whose key    *)
(* opens every backup, on a device without another key, does not fail when    *)
(* nothing else did.                                                          *)
ReinstallRecovers ==
    \A c \in Commands :
        /\ cmd[c].state = "valid" /\ cmd[c].manual = "none"
        /\ \A k \in Keys \ {cmd[c].key} : backups[k] = 0
        /\ Here(c).managed \in {"none", cmd[c].key} /\ left = MaxTroubles
        => cmd[c].pc # "cleanup"

=============================================================================
