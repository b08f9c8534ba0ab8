---------------------------- MODULE SnapshotStore ----------------------------
(***************************************************************************)
(* The snapshot directory of one device and the protected cloud folder that *)
(* it shares with the owner's other devices.  Each run is one command or    *)
(* one flow of the user interface, call by call: creation, backup (creation *)
(* and upload under the interface's lock), upload, download, deletion,      *)
(* trash, both removals, and the dashboard.  Runs interleave; a call fails, *)
(* a transfer damages the data, a command is killed while its rclone goes   *)
(* on, the interface dies under its command, the power goes.                *)
(*                                                                          *)
(* A snapshot's name contains its random identifier, so a name stands for   *)
(* one archive, which a file or an object holds "whole" or "broken".        *)
(***************************************************************************)
EXTENDS Naturals, FiniteSets

CONSTANTS
    Names,       \* names of snapshots
    MaxRuns,     \* bound on the runs on this device
    MaxTroubles  \* bound on failing calls, damaged transfers, killed commands and
                 \* interfaces, losses of power and changes by other devices

ASSUME StoreAssumption ==
    /\ IsFiniteSet(Names)
    /\ MaxRuns \in Nat /\ MaxTroubles \in Nat

VARIABLES
    local,    \* the files in the snapshot directory
    disk,     \* name -> what a loss of power can leave there
    cloud,    \* the objects in the cloud folder, in which a name may occur twice
    made,     \* the names given out so far
    uploads,  \* the number of objects created so far
    erased,   \* name -> the number of its objects moved to trash
    orphans,  \* what the rclone of a killed command has still to do
    run,      \* the runs
    lock,     \* the run that holds the interface's backup lock, or 0
    claims,   \* what the user was told and did not undo since
    left      \* how many troubles are left

store == <<local, disk>>
drive == <<cloud, uploads, erased>>
vars  == <<local, disk, cloud, uploads, erased, made, orphans, run, lock, claims, left>>

Runs == 1 .. MaxRuns
Data == {"whole", "broken"}

At(n)      == {f \in local : f.name = n}
Objects(n) == {o \in cloud : o.name = n}
Claim(what, n) == [what |-> what, name |-> n]

CreateSteps   == {"archive", "publish", "sync", "confirm"}
DownloadSteps == {"fetch", "check", "publish", "sync", "confirm"}
UploadSteps   == {"source", "look", "put", "roundtrip", "compare"}
TrashSteps    == {"erase", "list"}
DeleteSteps   == {"inspect", "validate", "remove", "syncRemoval"}
CommandSteps  == CreateSteps \cup DownloadSteps \cup UploadSteps \cup TrashSteps \cup DeleteSteps
DialogSteps   == {"lock", "decide", "ask", "close", "show"}
Ended         == {"ok", "failed", "killed"}

First == [create |-> "archive", backup |-> "lock", upload |-> "source", download |-> "fetch",
          delete |-> "inspect", trash |-> "erase", both |-> "erase", dashboard |-> "show"]

Idle == [kind |-> "none", name |-> "none", pc |-> "new", ui |-> TRUE,
         temp |-> "none", seen |-> 0, before |-> {}]

-----------------------------------------------------------------------------
Trouble == left > 0 /\ left' = left - 1

Goto(r, step) == run' = [run EXCEPT ![r].pc = step]

(* What follows the command: in a backup the interface goes on, as long as it *)
(* lives; the choice of both removals deletes only after the trash.           *)
After(r, ok) ==
    IF run[r].kind = "backup" /\ ~run[r].ui
    THEN "killed"
    ELSE CASE run[r].kind = "backup" /\ run[r].pc \in CreateSteps -> IF ok THEN "decide" ELSE "close"
           [] run[r].kind = "backup" /\ run[r].pc \in UploadSteps -> IF ok THEN "close" ELSE "ask"
           [] run[r].kind = "both" /\ run[r].pc \in TrashSteps /\ ok -> "inspect"
           [] OTHER -> IF ok THEN "ok" ELSE "failed"

(* The command ends and removes its temporary file.  The lock of a dead       *)
(* interface is its command's, which has inherited it.                        *)
Ends(r, ok) ==
    /\ run' = [run EXCEPT ![r].pc = After(r, ok), ![r].temp = "none", ![r].seen = 0]
    /\ lock' = IF lock = r /\ ~run[r].ui THEN 0 ELSE lock

(* Mutant: the directory is synchronised before its entry changes. *)
EntrySyncedEarly(n, files) ==
    /\ local' = (local \ At(n)) \cup files
    /\ disk' = [disk EXCEPT ![n] = {At(n)}]

(* The directory's entry for a name changes; the medium may have either.      *)
Entry(n, files) ==
    /\ local' = (local \ At(n)) \cup files
    /\ disk' = [disk EXCEPT ![n] = @ \cup {files}]

Start(r) ==
    /\ run[r] = Idle /\ \A s \in Runs : s < r => run[s] # Idle
    /\ \E kind \in DOMAIN First, n \in Names :
           /\ kind \in {"create", "backup"} <=> n \notin made
           /\ kind = "dashboard" => At(n) # {}
           /\ made' = made \cup {n}
           /\ run' = [run EXCEPT ![r] = [Idle EXCEPT !.kind = kind, !.name = n, !.pc = First[kind]]]
    /\ UNCHANGED <<store, drive, orphans, lock, claims, left>>

-----------------------------------------------------------------------------
(* snapshot.Create and snapshot.PublishValidated *)

(* The archive is written to a temporary file, synchronised and validated.    *)
Archive(r) ==
    /\ run[r].pc = "archive"
    /\ IF At(run[r].name) = {}
       THEN run' = [run EXCEPT ![r].pc = "publish", ![r].temp = "whole"] /\ UNCHANGED lock
       ELSE Ends(r, FALSE)
    /\ UNCHANGED <<store, drive, made, orphans, claims, left>>

(* rclone copies some object of that name, or damages the copy.               *)
Receive(r, step) ==
    \/ /\ Objects(run[r].name) = {}
       /\ Ends(r, FALSE) /\ UNCHANGED left
    \/ /\ \/ \E o \in Objects(run[r].name) :
                 run' = [run EXCEPT ![r].pc = step, ![r].temp = o.data,
                                    ![r].seen = erased[run[r].name]]
             /\ UNCHANGED left
          \/ /\ Objects(run[r].name) # {} /\ Trouble
             /\ run' = [run EXCEPT ![r].pc = step, ![r].temp = "broken",
                                   ![r].seen = erased[run[r].name]]
       /\ UNCHANGED lock

Fetch(r) ==
    /\ run[r].pc = "fetch" /\ Receive(r, "check")
    /\ UNCHANGED <<store, drive, made, orphans, claims>>

(* Mutant: the download is published as it came. *)
CheckNothing(r) ==
    /\ run[r].pc = "check"
    /\ IF At(run[r].name) = {} THEN Goto(r, "publish") /\ UNCHANGED lock ELSE Ends(r, FALSE)
    /\ UNCHANGED <<store, drive, made, orphans, claims, left>>

Check(r) ==
    /\ run[r].pc = "check"
    /\ IF run[r].temp = "whole" /\ At(run[r].name) = {}
       THEN Goto(r, "publish") /\ UNCHANGED lock
       ELSE Ends(r, FALSE)
    /\ UNCHANGED <<store, drive, made, orphans, claims, left>>

(* The file that is renamed to its name.  Only Create synchronised it.        *)
Published(r) ==
    [name |-> run[r].name, by |-> r, data |-> run[r].temp, synced |-> run[r].kind # "download"]

(* Mutant: a plain rename. *)
PublishReplacing(r) ==
    /\ run[r].pc = "publish"
    /\ Entry(run[r].name, {Published(r)})
    /\ run' = [run EXCEPT ![r].pc = "sync", ![r].temp = "none"]
    /\ UNCHANGED <<drive, made, orphans, lock, claims, left>>

Publish(r) ==
    /\ run[r].pc = "publish"
    /\ IF At(run[r].name) = {}
       THEN /\ Entry(run[r].name, {Published(r)})
            /\ run' = [run EXCEPT ![r].pc = "sync", ![r].temp = "none"]
            /\ UNCHANGED lock
       ELSE Ends(r, FALSE) /\ UNCHANGED store
    /\ UNCHANGED <<drive, made, orphans, claims, left>>

(* Mutant: success of the rename is enough. *)
SyncNothing(r) ==
    /\ run[r].pc = "sync"
    /\ Goto(r, "confirm")
    /\ UNCHANGED <<store, drive, made, orphans, lock, claims, left>>

SyncDirectory(r) ==
    /\ run[r].pc = "sync"
    /\ disk' = [n \in Names |-> {At(n)}]
    /\ Goto(r, "confirm")
    /\ UNCHANGED <<local, drive, made, orphans, lock, claims, left>>

(* Create finds a file there, PublishValidated finds its own.                 *)
Confirm(r) ==
    /\ run[r].pc = "confirm"
    /\ LET n    == run[r].name
           mine == \E f \in At(n) : f.by = r
       IN  /\ Ends(r, IF run[r].kind = "download" THEN mine ELSE At(n) # {})
           /\ claims' = IF mine
                        THEN claims \cup {Claim(IF run[r].kind = "download" THEN "downloaded"
                                                ELSE "created", n)}
                        ELSE claims
    /\ UNCHANGED <<store, drive, made, orphans, left>>

-----------------------------------------------------------------------------
(* Manager.Upload and Manager.Trash, with what rclone does *)

Source(r) ==
    /\ run[r].pc = "source"
    /\ IF \E f \in At(run[r].name) : f.data = "whole"
       THEN Goto(r, "look") /\ UNCHANGED lock
       ELSE Ends(r, FALSE)
    /\ UNCHANGED <<store, drive, made, orphans, claims, left>>

(* copyto --immutable: an object that looks the same is left, one that does   *)
(* not is an error.                                                           *)
Look(r) ==
    /\ run[r].pc = "look"
    /\ \/ Objects(run[r].name) = {} /\ Goto(r, "put") /\ UNCHANGED lock
       \/ Objects(run[r].name) # {} /\ Goto(r, "roundtrip") /\ UNCHANGED lock
       \/ (\E o \in Objects(run[r].name) : o.data = "broken") /\ Ends(r, FALSE)
    /\ UNCHANGED <<store, drive, made, orphans, claims, left>>

PutObject(n, data) ==
    /\ cloud' = cloud \cup {[name |-> n, id |-> uploads + 1, data |-> data]}
    /\ uploads' = uploads + 1
    /\ UNCHANGED erased

(* Nothing was found, so an object is made.  The data may be damaged on the   *)
(* way, and an object may be made although the command times out.             *)
Put(r) ==
    /\ run[r].pc = "put"
    /\ \/ At(run[r].name) = {} /\ Ends(r, FALSE) /\ UNCHANGED <<drive, left>>
       \/ /\ At(run[r].name) # {} /\ PutObject(run[r].name, "whole")
          /\ \/ Goto(r, "roundtrip") /\ UNCHANGED <<lock, left>>
             \/ Trouble /\ Ends(r, FALSE)
       \/ /\ At(run[r].name) # {} /\ PutObject(run[r].name, "broken")
          /\ Trouble /\ Goto(r, "roundtrip") /\ UNCHANGED lock
    /\ UNCHANGED <<store, made, orphans, claims>>

RoundTrip(r) ==
    /\ run[r].pc = "roundtrip" /\ Receive(r, "compare")
    /\ UNCHANGED <<store, drive, made, orphans, claims>>

(* What an upload that is reported as verified lets the user believe, unless  *)
(* an object of that name was moved to trash while it was being compared.     *)
Stored(r) ==
    {Claim("verified", run[r].name)} \cup
    (IF erased[run[r].name] = run[r].seen THEN {Claim("stored", run[r].name)} ELSE {})

(* Mutant: that it can be downloaded is enough. *)
CompareNothing(r) ==
    /\ run[r].pc = "compare"
    /\ Ends(r, TRUE) /\ claims' = claims \cup Stored(r)
    /\ UNCHANGED <<store, drive, made, orphans, left>>

Compare(r) ==
    /\ run[r].pc = "compare"
    /\ IF run[r].temp = "whole" /\ At(run[r].name) # {}
       THEN Ends(r, TRUE) /\ claims' = claims \cup Stored(r)
       ELSE Ends(r, FALSE) /\ UNCHANGED claims
    /\ UNCHANGED <<store, drive, made, orphans, left>>

EraseObject(o) ==
    /\ cloud' = cloud \ {o}
    /\ erased' = [erased EXCEPT ![o.name] = @ + 1]
    /\ claims' = claims \ {Claim("stored", o.name)}
    /\ UNCHANGED uploads

(* deletefile moves one object of that name to trash, or finds none.          *)
Erase(r) ==
    /\ run[r].pc = "erase"
    /\ \/ /\ Objects(run[r].name) = {}
          /\ Ends(r, FALSE) /\ UNCHANGED <<drive, claims, left>>
       \/ \E o \in Objects(run[r].name) :
              /\ EraseObject(o)
              /\ \/ /\ run' = [run EXCEPT ![r].pc = "list", ![r].before = Objects(run[r].name)]
                    /\ UNCHANGED <<lock, left>>
                 \/ Trouble /\ Ends(r, FALSE)
    /\ UNCHANGED <<store, made, orphans>>

(* Mutant: what deletefile reports is believed. *)
ListNothing(r) ==
    /\ run[r].pc = "list"
    /\ Ends(r, TRUE)
    /\ UNCHANGED <<store, drive, made, orphans, claims, left>>

List(r) ==
    /\ run[r].pc = "list"
    /\ Ends(r, Objects(run[r].name) = {})
    /\ UNCHANGED <<store, drive, made, orphans, claims, left>>

-----------------------------------------------------------------------------
(* snapshot.DeleteValidated *)

Inspect(r) ==
    /\ run[r].pc = "inspect"
    /\ \/ At(run[r].name) = {} /\ Ends(r, FALSE)
       \/ \E f \in At(run[r].name) :
              run' = [run EXCEPT ![r].pc = "validate", ![r].seen = f.by] /\ UNCHANGED lock
    /\ UNCHANGED <<store, drive, made, orphans, claims, left>>

Validate(r) ==
    /\ run[r].pc = "validate"
    /\ IF \E f \in At(run[r].name) : f.data = "whole" /\ f.by = run[r].seen
       THEN Goto(r, "remove") /\ UNCHANGED lock
       ELSE Ends(r, FALSE)
    /\ UNCHANGED <<store, drive, made, orphans, claims, left>>

(* The name is removed, whatever file has it by now.                          *)
Remove(r) ==
    /\ run[r].pc = "remove"
    /\ LET n == run[r].name
       IN  IF At(n) = {}
           THEN Ends(r, FALSE) /\ UNCHANGED <<store, claims>>
           ELSE /\ Entry(n, {}) /\ Goto(r, "syncRemoval") /\ UNCHANGED lock
                /\ claims' = claims \ {Claim("created", n), Claim("downloaded", n)}
    /\ UNCHANGED <<drive, made, orphans, left>>

SyncRemoval(r) ==
    /\ run[r].pc = "syncRemoval"
    /\ disk' = [n \in Names |-> {At(n)}]
    /\ Ends(r, TRUE)
    /\ UNCHANGED <<local, drive, made, orphans, claims, left>>

-----------------------------------------------------------------------------
(* The user interface *)

(* flock -n; the flow also ends where there is no safe lock file, or no       *)
(* progress window to show.                                                   *)
TakeLock(r) ==
    /\ run[r].pc = "lock"
    /\ \/ lock = 0 /\ lock' = r /\ Goto(r, "archive")
       \/ Goto(r, "failed") /\ UNCHANGED lock
    /\ UNCHANGED <<store, drive, made, orphans, claims, left>>

(* An upload follows if it is configured; after a failure the user chooses.   *)
Decide(r) ==
    /\ run[r].pc \in {"decide", "ask"}
    /\ \/ (run[r].pc = "ask" \/ At(run[r].name) # {}) /\ Goto(r, "source")
       \/ Goto(r, "close")
    /\ UNCHANGED <<store, drive, made, orphans, lock, claims, left>>

ReleaseLock(r) ==
    /\ run[r].pc = "close"
    /\ lock' = 0 /\ Goto(r, "ok")
    /\ UNCHANGED <<store, drive, made, orphans, claims, left>>

(* "Local + Cloud": the latest local backup's name is in the cloud's listing. *)
Show(r) ==
    /\ run[r].pc = "show"
    /\ claims' = IF Objects(run[r].name) = {} THEN claims
                 ELSE claims \cup {Claim("shown", run[r].name)}
    /\ Goto(r, "ok")
    /\ UNCHANGED <<store, drive, made, orphans, lock, left>>

-----------------------------------------------------------------------------
(* What goes wrong, and what other devices do *)

(* A call fails with no effect, or the command is killed there.               *)
Fail(r) ==
    /\ run[r].pc \in CommandSteps /\ Trouble
    /\ Ends(r, FALSE)
    /\ UNCHANGED <<store, drive, made, orphans, claims>>

(* The command is killed while rclone is at work, which goes on.              *)
Kill(r) ==
    /\ run[r].pc \in {"put", "erase"} /\ run[r].ui /\ Trouble
    /\ orphans' = orphans \cup {[does |-> run[r].pc, name |-> run[r].name]}
    /\ Ends(r, FALSE)
    /\ UNCHANGED <<store, drive, made, claims>>

(* Mutant: the lock's descriptor is closed on exec. *)
KillUnlocking(r) ==
    /\ run[r].kind = "backup" /\ run[r].ui /\ run[r].pc \notin Ended /\ Trouble
    /\ run' = [run EXCEPT ![r].ui = FALSE,
                          ![r].pc = IF @ \in CommandSteps THEN @ ELSE "killed"]
    /\ lock' = IF lock = r THEN 0 ELSE lock
    /\ UNCHANGED <<store, drive, made, orphans, claims>>

(* The interface is killed; its command goes on, and holds the lock.          *)
KillInterface(r) ==
    /\ run[r].kind = "backup" /\ run[r].ui /\ run[r].pc \notin Ended /\ Trouble
    /\ run' = [run EXCEPT ![r].ui = FALSE,
                          ![r].pc = IF @ \in CommandSteps THEN @ ELSE "killed"]
    /\ lock' = IF lock = r /\ run[r].pc \notin CommandSteps THEN 0 ELSE lock
    /\ UNCHANGED <<store, drive, made, orphans, claims>>

OrphanPuts ==
    /\ \E o \in orphans :
           /\ o.does = "put" /\ orphans' = orphans \ {o}
           /\ At(o.name) # {} /\ PutObject(o.name, "whole")
    /\ UNCHANGED <<store, made, run, lock, claims, left>>

OrphanErases ==
    /\ \E o \in orphans :
           /\ o.does = "erase" /\ orphans' = orphans \ {o}
           /\ \E object \in Objects(o.name) : EraseObject(object)
    /\ UNCHANGED <<store, made, run, lock, left>>

OrphanFails ==
    /\ \E o \in orphans : orphans' = orphans \ {o}
    /\ UNCHANGED <<store, drive, made, run, lock, claims, left>>

(* The medium keeps one of the entries that each name had since the last      *)
(* synchronisation, and perhaps not the data that was never synchronised.     *)
PowerCut ==
    /\ Trouble
    /\ \E entry \in [Names -> UNION {disk[n] : n \in Names}] :
           /\ \A n \in Names : entry[n] \in disk[n]
           /\ LET kept == UNION {entry[n] : n \in Names}
              IN  \E lost \in SUBSET {f \in kept : ~f.synced} :
                      local' = {[f EXCEPT !.data = IF f \in lost THEN "broken" ELSE @,
                                          !.synced = TRUE] : f \in kept}
    /\ disk' = [n \in Names |-> {{f \in local' : f.name = n}}]
    /\ run' = [r \in Runs |-> IF run[r] = Idle \/ run[r].pc \in Ended THEN run[r]
                              ELSE [run[r] EXCEPT !.pc = "killed", !.temp = "none"]]
    /\ lock' = 0 /\ orphans' = {}
    /\ UNCHANGED <<drive, made, claims>>

OtherUploads ==
    /\ Trouble
    /\ \E n \in Names \ made :
           /\ PutObject(n, "whole") /\ made' = made \cup {n}
           /\ claims' = claims \cup {Claim("verified", n)}
    /\ UNCHANGED <<store, orphans, run, lock>>

OtherTrashes ==
    /\ Trouble
    /\ \E o \in cloud : EraseObject(o)
    /\ UNCHANGED <<store, made, orphans, run, lock>>

-----------------------------------------------------------------------------
(* Snapshots of earlier runs are there, some in the cloud as well.            *)
Init ==
    /\ \E here, there \in SUBSET Names :
           /\ local = {[name |-> n, by |-> 0, data |-> "whole", synced |-> TRUE] : n \in here}
           /\ cloud = {[name |-> n, id |-> 0, data |-> "whole"] : n \in there}
           /\ made = here \cup there
           /\ claims = {Claim("verified", n) : n \in there}
    /\ disk = [n \in Names |-> {At(n)}]
    /\ uploads = 0
    /\ erased = [n \in Names |-> 0]
    /\ orphans = {}
    /\ run = [r \in Runs |-> Idle]
    /\ lock = 0
    /\ left = MaxTroubles

Creates(r)   == Archive(r) \/ Publish(r) \/ SyncDirectory(r) \/ Confirm(r)
Downloads(r) == Fetch(r) \/ Check(r)
Uploads(r)   == Source(r) \/ Look(r) \/ Put(r) \/ RoundTrip(r) \/ Compare(r)
Trashes(r)   == Erase(r) \/ List(r)
Deletes(r)   == Inspect(r) \/ Validate(r) \/ Remove(r) \/ SyncRemoval(r)
Dialogs(r)   == TakeLock(r) \/ Decide(r) \/ ReleaseLock(r) \/ Show(r)

Next ==
    \/ \E r \in Runs :
           \/ Start(r) \/ Creates(r) \/ Downloads(r) \/ Uploads(r) \/ Trashes(r) \/ Deletes(r)
           \/ Dialogs(r) \/ Fail(r) \/ Kill(r) \/ KillInterface(r)
    \/ OrphanPuts \/ OrphanErases \/ OrphanFails
    \/ PowerCut \/ OtherUploads \/ OtherTrashes

Spec == Init /\ [][Next]_vars

-----------------------------------------------------------------------------
Files     == [name : Names, by : Runs \cup {0}, data : Data, synced : BOOLEAN]
ObjectSet == [name : Names, id : Nat, data : Data]
RunSet    == [kind : DOMAIN First \cup {"none"}, name : Names \cup {"none"},
              pc : CommandSteps \cup DialogSteps \cup Ended \cup {"new"},
              ui : BOOLEAN, temp : Data \cup {"none"}, seen : Nat, before : SUBSET ObjectSet]
ClaimSet  == [what : {"created", "downloaded", "stored", "verified", "shown"}, name : Names]

OneFileOf(n, files) == (\A f \in files : f.name = n) /\ (\A f, g \in files : f = g)

(* The directory: a name has at most one file there, and on the medium, which *)
(* may have what the directory shows.                                         *)
StoreOK ==
    /\ local \subseteq Files
    /\ disk \in [Names -> SUBSET SUBSET Files]
    /\ \A n \in Names : At(n) \in disk[n] /\ \A files \in disk[n] : OneFileOf(n, files)

(* The cloud folder: no two objects have the number of one upload.            *)
CloudOK ==
    /\ cloud \subseteq ObjectSet /\ uploads \in Nat /\ erased \in [Names -> Nat]
    /\ \A o \in cloud : o.id <= uploads

RunsOK ==
    /\ run \in [Runs -> RunSet]
    /\ lock \in Runs \cup {0} /\ left \in Nat
    /\ made \subseteq Names /\ claims \subseteq ClaimSet
    /\ orphans \subseteq [does : {"put", "erase"}, name : Names]

(* The variables have their types.                                            *)
TypeOK == StoreOK /\ CloudOK /\ RunsOK

(* Whatever fails, is damaged or killed, no broken archive is at a snapshot's *)
(* name, but for a download whose data a loss of power has taken: Create and  *)
(* PublishValidated publish only what they validated.                         *)
NoPartialSnapshot ==
    \A f \in local :
        f.data = "broken" => f.by # 0 /\ run[f.by].kind = "download" /\ f.synced

(* A snapshot that was reported as created, and that no run deleted since,    *)
(* is at its name and whole, before and after a loss of power.                *)
CreatedIsKept ==
    \A n \in Names : Claim("created", n) \in claims => \E f \in At(n) : f.data = "whole"

(* No run ever puts a file in the place of another: concurrent downloads of   *)
(* one snapshot, or a download of one that is there, leave the first.         *)
NeverReplaced ==
    [][PowerCut \/ \A f \in local, g \in local' : f.name = g.name => f = g]_vars

(* An upload that is reported as verified leaves a whole copy in the cloud,   *)
(* until an object of that name is moved to trash, by any device: neither a   *)
(* second upload nor one of an orphan takes it away.                          *)
StoredIsKept ==
    \A n \in Names : Claim("stored", n) \in claims => \E o \in Objects(n) : o.data = "whole"

(* When a trash is reported as done, every object that its name had when it   *)
(* began is out of the active folder, also where two uploads made two.        *)
TrashedIsGone ==
    \A r \in Runs :
        \/ run[r].kind = "trash" /\ run[r].pc = "ok"
        \/ run[r].kind = "both" /\ run[r].pc \in DeleteSteps \cup {"ok"}
        => run[r].before \cap cloud = {}

(* Two backups of the interface never work at the same time, though an        *)
(* interface dies while its command goes on.                                  *)
OneBackupAtATime ==
    \A r, s \in Runs :
        /\ {run[r].kind, run[s].kind} = {"backup"}
        /\ {run[r].pc, run[s].pc} \subseteq CreateSteps \cup UploadSteps
        => r = s
=============================================================================
