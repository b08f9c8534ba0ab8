# Deck Snapshot: a formal model

Deck Snapshot backs up and restores the customisation of a Steam Deck: Decky
Loader with its plugins and their settings, CSS themes and Steam artwork.  This
directory holds TLA+ models of its protocols, TLC configurations that check
them on small instances, and TLAPS proofs of their main properties.  References
of the form `run.go 441` are to `src/internal/restore/` unless a path is given.

## The system

| Component | State it keeps | Operations | What makes it correct |
|---|---|---|---|
| Restore transaction (`run.go`) | the plan, lists of applied actions, the report | `Run`: prepare, quiesce, converge, finish, roll back | targets are all old or all new unless the run is recorded as incomplete; the report is true |
| Transaction marker (`transaction_marker.go`) | `restore-incomplete.json` | publish, update the phase, remove, load | present and durable whenever the targets may be a mixture |
| Quiescence (`decky_quiescence.go`, `decky_side_effect.go`, `steam_quiesce_linux.go`) | Decky's disabled list in `loader.json`, the running plugins, Steam | quiesce, keep disabled, synchronise, restore the original, stop Steam | no plugin runs on half-restored files; the temporary list does not survive unrecorded |
| Pending check (`pending.go`) | none of its own | after a reboot: note the phase, plan again, retire the marker | the marker goes only when nothing is left to restore |
| File writes (`filesystem.go`) | a target, a private directory beside it | conditional create, replace, remove | nobody else's content is overwritten or lost |
| Plugin trees (`plugin_install.go`) | a plugin directory, its preservation path | install, remove and roll back, by rename or through Decky | as above, for a directory |
| Planning (`plan.go`, `convergence.go`, `incompatible.go`, `plugin_action.go`) | none | from a snapshot and the disk to a sealed plan | every target has one action, and re-planning a restored system finds nothing to do |
| Recovery snapshot (`recovery.go`) | an archive of the targets' old content | capture, publish, stage | captured content is what the plan approved |
| Decky client (`internal/deckyapi`) | WebSocket connections | install, uninstall, set the list, restart | each call means what its reply says |
| Snapshot store (`internal/snapshot`, `manifest`) | a directory of archives | create, publish, delete, validate, stage | a name never means two contents |
| Cloud storage and connection (`internal/cloud`) | rclone's configuration, the recovery key (at Google, locally, in the configuration) | connect, disconnect, upload, download, trash | one key for all uploads; what is listed can be decrypted |
| Discovery, plugin store, configuration, identity, update, command line, user interface | small files of their own | | see `PROJECT.json` |

`Run` is where all of them meet.  It is called by the command line with a plan
that the user approved; it reads the snapshot store, has the plugin store
download packages, publishes a recovery snapshot, drives Decky through the
client and changes files itself.  It shares the disk with every other program,
`loader.json` with Decky, and the marker with `CheckPendingRestore`, which the
application runs at its start.  The hard behaviours are its failures: each of
its some thirty calls may fail, or take effect and still report a failure; the
process may die and the Deck may reboot or lose power between any two; other
programs write the same files; and the rollback can fail as well.

## Modules

* `RestoreTransaction` is one run with everything around it.
* `RestoreContract` is what a restore promises, in three variables.
* `RestoreRefinement` maps the first to the second.
* `RestoreTransaction_proofs` holds the theorems about the targets, the report
  and the contract; `RestoreProgress_proofs` those about Decky, Steam, single
  failures and progress.
* `MCRestoreTransaction` gives TLC its plans.
* `AtomicFile` is one file write of a run, call by call; its configurations
  need no MC module.  `AtomicFile_proofs` holds its theorems.
* `PluginTree` is one plugin directory that the restore installs itself, rename
  by rename.  `PluginTree_proofs` holds its theorems.
* `DeckyInstall` is one plugin that Decky Loader installs, replaces or removes
  for the restore, message by message.  `DeckyInstall_proofs` holds its theorems.
* `SnapshotStore` is the snapshot directory, the cloud folder and the backup
  flow of the user interface.  `MCSnapshotStore` adds the symmetry of names, and
  `SnapshotStore_proofs` holds its theorems.
* `CloudConnection` is how several devices come to share one recovery key.
  `MCCloudConnection` gives TLC its accounts and devices, and
  `CloudConnection_proofs` holds its theorems.

The type invariant `TypeOK` of `RestoreTransaction`, `AtomicFile` and
`CloudConnection` is the first conjunct of their inductive invariants `IInv`,
`NamesInv` and `ConnectionInv`, and their runs check it as a part of these.

`PluginTree`, `DeckyInstall` and `AtomicFile` each open one step of
`RestoreTransaction` (`PluginApplied`/`PluginTorn` by either method,
`FileApplied`/`FileTorn`, and their rollbacks): what they show of the outcomes a
step may report is what `RestoreTransaction` takes for granted.

### RestoreTransaction

A plan is a sequence of actions, each with a kind (`plugin_api`, a plugin that
Decky installs; `plugin_fs`, one that Run installs by rename; `decky`, a file
of Decky's, a plugin's or CSS Loader's settings; `loader`, the file
`loader.json`; `steam`, artwork; `preserve`, settings kept aside) and an
operation.  `plan.go` keeps plugin actions, file actions and preserved settings
in three lists; one sequence, in the order in which Run goes through them,
replaces them, so that one index `i` is the position of both loops and of the
reverse loops of the rollback.

`pc` is the place in `Run`.  There is one action for each call that changes
state, at the granularity of the calls whose failures Run tells apart:

| Actions | Code |
|---|---|
| `Begin`, `Recover`, `Save` | run.go 127-440 |
| `SetDisabled`, `RestartDisabled`, `MarkQuiesced`, `MarkPlugins` | run.go 441-495, decky_quiescence.go 71-83 |
| `SkipUnchanged`, `PluginRefused`, `PluginTorn`, `PluginApplied`, `Synchronize`, `PluginsDone` | run.go 538-654 |
| `SettleLoader`, `QuiesceSteam`, `MarkSteam`, `MarkFiles` | run.go 655-681 |
| `FileRefused`, `FileApplied`, `FileTorn`, `FilesDone` | run.go 683-797 |
| `VerifyConverged`, `MarkVerified`, `MarkReboot`, `RequestReboot`, `Succeed` | run.go 798-829, 862-881 |
| `UndoSkips`, `UndoOne`, `UndoFails`, `UndoDone`, `UndoLoader`, `RestoreOriginal`, `Reverify`, `Close` | run.go 498-537, 831-860, 891-932 |
| `PendingNote`, `PendingRetire` | pending.go 27-78 |
| `Crash`, `Edit`, `Reboot` | the environment |

Content is abstracted to where it comes from: `orig` is what the plan approved,
`want` what the snapshot holds (for a removal, absence), `other` what another
program wrote, `gone` and `partial` what a failed Decky operation leaves, and
for `loader.json` `quiesced` (any file with the temporary list) and `rewritten`
(the original list, but other bytes).  A fingerprint comparison is equality of
contents.  `MarkAt` is the one shape of all updates of the marker; an update
that fails may have taken effect, with its directory synchronised or not.

Where the model is coarser than the code:

* At least one plugin is installed and enabled when Run quiesces Decky;
  otherwise `quiesced` and `orig` would be the same list.
* Other programs write files and `loader.json`, not plugin directories, and
  Decky has no other client: both are in `PluginTree` and `DeckyInstall`.
  Nobody starts Steam again during a run.
* A file write is one conditional step.  Its parts, and what an editor can do
  between them, are in `AtomicFile`.
* `RestoreOriginal` (set the list, restart, verify, whatever fails) is one step
  with every combination of the outcomes of its calls.  They are one by one,
  with the comparison of the plugin inventory, in `DeckyInstall`.
* A crash in the middle of an operation of Decky's is `PluginTorn` followed by
  `Crash`.
* A loss of power may take back a publication of the marker that was not
  synchronised.  It does not bring a removed marker back, nor take back a
  phase: both would leave more recorded, never less.
* One run.  An older marker may be there at its start, and nobody else writes
  one during it.

### What the runs check

`MCRestoreTransaction` has thirteen plans of one to four actions.  Between them
they have each kind, each operation the planner allows for it, a guarded and an
unguarded `loader.json` that is absent, canonical or hand-written, plans with
and without artwork, with nothing to do, and with nothing that needs a refresh.
Longer plans repeat steps, not branches.

| Run | Bounds | What it shows |
|---|---|---|
| `restore_safety` | all plans, 3 faults, 2 edits, 2 reboots, power cuts | the properties below, and the contract |
| `restore_ends` | all plans, 2 faults, 1 edit, 2 reboots, no power cuts, weak fairness of `RunStep` | Decky's temporary list is never on disk without a marker where `loader.json` is guarded and no step of the rollback failed; every run ends |
| `power_cut`, `reenabled` | the least that shows each | see *Disagreements* |

Three faults are one for the convergence, one for the rollback and one for the
closing of the marker or the check of a later boot; two edits let one come
before an action and one during its rollback; two reboots are one during a run
and one after it.  The runs stop when a run has ended and the bounds are used
up, so deadlock is not checked.

* `AllOrNothing`: without a marker of this run, the targets are all old or all
  new, up to what other programs wrote.  It is what entitles the next run, and
  the user, to trust the absence of a marker.
* `ReportIsTrue`: a report that names a version is right.
* `MixtureMeansDisabled`: while the process lives and its targets are a
  mixture, Decky's plugins are disabled.
* `CleanFailureRollsBack`: one failure by itself never ends in
  `rollback_failed`, except where `loader.json` is compared and cannot be
  reproduced byte by byte.
* `SteamStoppedForArtwork`: artwork changes only while Steam is stopped, in
  the rollback too.
* `GuardedListIsRecorded`: where the plan guards `loader.json` and no step of
  the rollback failed, the temporary list is on disk only with a durable
  marker.
* `RunInv`: what the run knows of Decky, of Steam and of its own failures at
  every step.  The theorems of `RestoreProgress_proofs` follow from it.
* `AlwaysAdvances`: every step of the process, whatever fails in it, lowers
  `Left`, the number of calls that Run still has before it.
* `RunEnds`: every run returns or dies.
* `MeetsContract`: every step of a run is a step of `RestoreContract`, or
  changes nothing of it.  The contract's `versions` are the versions (of old
  and new) that the targets can be read as, `open` is the durable marker,
  `claim` is the report.  Targets change only while it is open; it is closed
  only when they are at a version.

Fairness is weak fairness of the steps of the process together.  The code gives
no more and needs no more: every call of `Run` has a deadline or ends with the
kernel's answer, and the process is scheduled.  Nothing is assumed of crashes,
editors, reboots or the user, so no property says that an incomplete restore is
ever recovered.

### AtomicFile

`RestoreTransaction` takes three things for granted of a file write: an error
that is not an `incompleteMutationError` left nothing to roll back (run.go 742),
a success is durable, and nobody else's content is lost.  `AtomicFile` has the
write itself: `atomicWrite` with `create` and `replace`, which rollbacks call
too, and `removeAppliedCreate`.

The state is a namespace (`dir`: the target, and in the private directory
`private`, the file `payload`, and `aside`, the file `failed` or `removed`)
that maps names to inodes, and the content of each inode.  `disk` holds the
namespaces that a loss of power can leave: every rename adds one, a
synchronisation removes the others.  A file's content includes its mode.

| Actions | filesystem.go |
|---|---|
| `Inspect`, `Stage` | 94-130, 233-299, 377-405 |
| `Publish`, `Commit` (and every later synchronisation) | 300-329, 406-411, 445-450 |
| `CheckDisplaced`, `Verify`, `CheckBackup` | 307-308, 331-332, 363-366 |
| `Back`, `CheckBack`, `Quarantine`, `CheckQuarantined` | 309-322, 334-360 |
| `CheckMoved`, `PutItBack` | 412-416, 426-438 |
| `Drop`, `DropCommit`, `Close` | 138-180, 264-268, 367-373, 401-405, 417-422 |
| `Save`, `Delete`, `Open`, `Write`, `Crash` | the environment |

Every comparison and every call may fail.  The other program may act between
any two calls: save by a rename over the target (also bytes that were there
before), delete it, or open it and write through the descriptor wherever the
inode is by then; the last only where `InPlace` is set.

| Run | Bounds | What it shows |
|---|---|---|
| `file_names` | 3 faults, 2 edits, writes in place | `AlwaysNamed`, `RefusedIsUndone`, `AppliedIsDurable`: what the name shows, now and after a loss of power |
| `file_saves` | 3 faults, 3 edits, no writes in place | `OnlyKnownDestroyed`, `LatestIsKept`: no version of another program is destroyed, or silently replaced |

Three faults fail a verification, its reversal and the `Close`; three edits put
one before the exchange, one before the reversal and one after it.  Two
foreign files are enough: no property compares two of them, and one of the two
has the payload's bytes with another mode.

Coarser than the code: a comparison reads a file at one moment (the code reads
it between two `Lstat`, and refuses when they differ); `Write` changes content,
not what of it survives a loss of power; nobody else works in the private
directory, which has a random name and mode 0700; the directories that
`openSecureParent` creates above a target become durable with what is
synchronised in them, as the journaling file systems of SteamOS have it.

### PluginTree

`dir` says which tree is at each of five places: the plugin's name, the staging
directory of the run, the preservation path, and the private directories of an
installation and of its rollback.  A tree is the approved one, the prepared one
or another program's; a fingerprint comparison is equality.  `step` is the next
call, and each call is one of three shapes: a rename or exchange, which is done,
done without that its directories could be synchronised, or refused (`Rename`);
a comparison, which may also fail to read (`Test`); the removal of a private
directory with all that is in it (`Remove`).

| Actions | Code |
|---|---|
| `Check`, `Publish`, `ExchangeOld`, `CheckDisplaced`, `Preserve`, `Verify` | plugin_install.go 25-119 |
| `Reverse`, `CheckReversed` | 90-99, 105-113 |
| `Isolate`, `SwapBack`, `CheckRestored`, `SetAside`, `SetAsideAnyway`, `CheckAside`, `Withdraw`, `CheckWithdrawn`, `GiveBack`, `Close` | 120-157 |
| `Decide`, `Cleanup` | run.go 201-206, 614-629 |
| `Undo`, `UndoMove`, `UndoVerify`, `UndoHide`, `UndoTake`, `UndoDrop`, `UndoTaken`, `UndoReturn`, `UndoClose` | plugin_install.go 227-293 |
| `UndoExchange`, `UndoCheck`, `UndoPut`, `UndoPutCheck`, `UndoPutBack` | 392-431 |
| `Kill`, `Change` | the environment |

`Decide` is Run's part: it rolls back an item that failed, or one that was
installed when a later action fails, and it retains the workspace when an
incomplete mutation came back.  `Change` deletes, makes or changes what the
plugin's name shows, between any two steps.

| Run | Bounds | What it shows |
|---|---|---|
| `plugin_tree` | both operations, 3 faults, 2 changes, a kill anywhere | the properties below |
| `plugin_cleanup` | a creation, 1 fault, 1 change | see *Disagreements* |

Three faults fail a step, its reversal and what cleans up after the reversal;
two changes put one before the exchange and one before a rollback.

* `AlwaysActive`: the name of a plugin that is replaced shows the old or the new
  one at every moment, which is what the exchange is for.
* `OldIsKept`: the approved tree is at one of the five places after every
  failure, rollback, kill and cleanup, unless another program took it from the
  name.  The cleanup of the run is the hazard: it deletes the staging directory,
  where the old tree may be.
* `OnlyGeneratedDestroyed`: a replacement deletes nothing but the tree that it
  generated.  A creation does; see *Disagreements*.
* `UndoneIsOld`: what is refused without an item, or reported as rolled back,
  has left the name as it was and nothing at the preservation path.

### DeckyInstall

One plugin (`this`) among others (`other`), from `Quiesce` to the commit of the
run or to the end of its rollback.  `run` is the client: what Run is about
(`goal`), its next call (`step`), whether there is an item to roll back, what
failed.  `decky` is the service: whether it runs, whether a restart is due, the
persisted disabled list, the plugins it knows and which of them are live; a list
takes effect at a start only.  `jobs` are the two calls that Decky works off
for a long time, the installation or removal of the action and that of its
rollback; `conn` is the connection of the call that waits, with the messages on
it.

| Actions | Code (`internal/deckyapi/client.go` unless given) |
|---|---|
| `Set`, `ReadBack` | 271-355, decky_quiescence.go 56-74, 85-99 |
| `Restart`, `Poll`, `Deadline`, `Reconnect` | 361-410 |
| `Inventory`, `ReadDisabled` | 233-267, decky_quiescence.go 101-198 |
| `Check`, `Inspect` | plugin_install.go 161-220 |
| `Request`, `Prompt`, `Confirm`, `Await`, `Uninstall`, `GiveUp` | 146-229, 578-612 |
| `Undo` | plugin_install.go 295-390 |
| `Put`, `Revalidate`, `Report` | decky_side_effect.go, revalidate.go, run.go 495-531, 831-854 |
| `Service` (prompts, removals, unpacking, loading, failing jobs, stops and starts) | Decky Loader, from how the client uses it |
| `Change`, `Toggle`, `Intrude` | other programs and other clients |

A call may be lost, or carried out and its answer lost.  A job goes on when its
call is given up, and ends when Decky stops.  Messages come in order over one
connection, and Decky sends the events of other clients over it too.

| Run | Bounds | What it shows |
|---|---|---|
| `decky_install` | 3 operations, every original list, 3 faults, 1 act of another | the properties below |

Three faults are a call of the action, one of its rollback, and a crash of
Decky, or a job, between them.

* `ConfirmsOnlyOwn`: no prompt is confirmed but that of the approved request,
  whatever arrives on the connection.
* `AppliedQuietly`: no other plugin runs while Decky works for the restore, and
  an action that is recorded as applied is, with every plugin disabled and not
  running; the inventory shows it, not the reply of the installation.
* `UndoneIsOriginal`: a rollback that reports success has put back the tree, the
  list and the plugins that run, and no job is still to come.  This is where
  the restart matters: a job of a call that timed out may begin to write the
  plugin after `Undo` found nothing to undo, and only the restart of Decky that
  `RestoreOriginal` sees ends it.  A probe of a running Decky that fails is
  taken for that restart.  The property holds all the same, except where it
  happens in a rollback that left such a job (`Mistaken`): there the job does
  outlive the rollback; see the notes under *Disagreements*.
* `Ends`: every call ends, whatever Decky does.

Fairness is weak fairness of the client's steps together: every wait has a
deadline (ten minutes for a call, 2048 messages, 45 seconds for a restart), and
those are the actions `GiveUp` and `Deadline`.  Decky and others need not do
anything.

Coarser than the code: the inventory of before is read without another client in
between; a Decky that starts loads the plugins that are in its directory;
`Revalidate` compares this plugin and the list only.

### SnapshotStore

The directory holds at most one file per name; `disk` holds, for each name, the
entries that a loss of power can leave there, and a file knows whether its data
was synchronised.  The cloud folder is a set of objects, in which a name may
occur twice, as on Google Drive.  A name contains the random identifier of its
snapshot, so it stands for one archive, and a copy of it is `whole` or `broken`.

`run` holds one record for each command or flow: what it does, for which name,
the call it is at, its temporary file, and whether its interface still lives.
There is one action for each call that changes or reads the directory or the
folder:

| Actions | Code |
|---|---|
| `Archive`, `Publish`, `SyncDirectory`, `Confirm` | snapshot/snapshot.go 46-137, snapshot/publish.go 47-57 |
| `Fetch`, `Check` | cloud/cloud.go 212-246, snapshot/publish.go 16-45 |
| `Source`, `Look`, `Put`, `RoundTrip`, `Compare` | cloud/cloud.go 172-210, 392-415 |
| `Erase`, `List` | cloud/cloud.go 288-312 |
| `Inspect`, `Validate`, `Remove`, `SyncRemoval` | snapshot/delete.go |
| `TakeLock`, `Decide`, `ReleaseLock`, `Show` | scripts/deck-snapshot-ui 85-128, 294-380, 881-939 |
| `Fail`, `Kill`, `KillInterface`, `OrphanPuts`, `OrphanErases`, `OrphanFails`, `PowerCut`, `OtherUploads`, `OtherTrashes` | the environment |

`claims` is a history variable: what the user was told, until the user, on any
device, undid it.  `rclone copyto --immutable` looks for an object and makes one
if it finds none, in two steps, which is how two uploads make two objects;
`deletefile` takes one of them.  A command that is killed leaves its rclone at
work (`orphans`).  The backup lock is a `flock` on a descriptor that the
interface's commands inherit, so it outlives an interface that is killed.

| Run | Bounds | What it shows |
|---|---|---|
| `snapshot_store` | 2 names, 3 runs, 1 trouble, names symmetric | the properties below |

Three runs are two uploads and a trash, or two backups and a deletion.  One
trouble (a failing call, a damaged transfer, a killed process, a loss of power,
an act of another device) is enough to break every claim that a single failure
can; two of them pass with two runs.  Two names are needed for a loss of power
that takes one entry and keeps another.

* `NoPartialSnapshot`: nothing broken is at a snapshot's name, except that a
  download is renamed into place without a synchronisation of its data, which a
  loss of power may then take.
* `CreatedIsKept`: a creation that was reported stays until it is deleted,
  across losses of power.
* `StoredIsKept`: an upload that was reported as verified leaves a whole copy
  in the folder until an object of its name is trashed, whatever other uploads
  and orphans do meanwhile.
* `TrashedIsGone`: a trash that was reported left no object its name had, also
  where there were two.
* `OneBackupAtATime`, `NeverReplaced`: see the comments of the module.

There is no liveness here: the user decides whether an upload is tried again.

### CloudConnection

The recovery key is in three places: an object in the account's private
application area, `recovery.json` on each device, and as a fingerprint in the
acknowledgement without which nothing is uploaded.  `objects` and `backups` are
the account, `inflight` the creations whose caller gave up, `local` the files of
each device, `exported` the recovery files that the owner has.  `cmd` has one
record for every command that is ever given: the device it runs on, the call it
is at, and what it has learned.

| Actions | Code (`internal/cloud/` unless given) |
|---|---|
| `Password`, `KeepTyped` | config_password.go 59-97 |
| `CheckAbsent`, `Encrypt`, `StoreBase`, `StoreCrypt`, `Verify`, `Cleanup` | connection.go 40-207, 268-307 |
| `Lookup`, `Choose`, `Post`, `ReadBack` | appdata.go 59-258, connection.go 74-126 |
| `SaveManaged`, `Acknowledge` | recovery.go 58-133, cloud.go 113-138 |
| `Open`, `Inspect`, `KeepConfig`, `KeepSecret`, `InspectAgain`, `DropConfig`, `DropAck`, `DropSecret` | cli/cloud.go 259-322, legacy.go, connection.go 224-250 |
| `CheckTyped`, `Load`, `Ready`, `Put`, `Export` | cli/cloud.go 67-214, 541-600, cloud.go 172-209, 510-540 |
| `Fail`, `Kill`, `Arrives`, `Reinstall` | the environment |

A file that is created and then written is `torn` when its command dies in
between: it exists, and nothing can be read from it.  A password is named for
the command that made it.  `Generated` is a key that nobody has.

| Run | Bounds | What it shows |
|---|---|---|
| `cloud_connection` | 3 commands (a connection; a connection, disconnection or unlocking; an upload), 2 devices, 3 keys, 4 accounts, a fresh or a v0.1.0 device, 2 troubles | the properties below |
| `cloud_reinstall` | one connection, an account with 9 backups | see *Disagreements* |

Two connections are needed for a race for the key, and an upload to profit from
a key that was wrongly taken for good; two troubles kill or fail two of the
commands.  Three keys are one of v0.1.x and one for each connection.

* `OneKey`: connections that are reported agree on the key, on whichever
  devices and however interleaved.
* `UploadsCanBeOpened`: what was uploaded is encrypted with a key that is in a
  readable recovery object, or in a file that the owner has.
* `AcknowledgedIsKept`: no acknowledgement without the key it is of.
* `LegacyIsKept`: a v0.1.0 connection is removed only after its configuration
  and its password are both preserved.
* `ConnectionInv`: the inductive invariant behind the four; see *What is
  proved*.

What the module assumes of its constants: there are finitely many keys (key
material has a fixed length); the first accounts and devices are well formed; a
device that is connected at first has the key it acknowledged, and the account
has it in a readable object, as a connection leaves them, or it is one of v0.1.x
(`ConnectedAssumption`); and the password of a v0.1.0 configuration was typed,
since only later versions generate one.

Coarser than the code: the probe for visible backups sees any number of them
between those of later identities and all, since it may miss those of an older
one (connection.go 183-187); the encrypted listing in `Verify` is exact.  The
content of a file is read and written whole: a read of a file that another
command has half written is a call that fails (`Fail`), and a kill leaves it
`torn`.

There is no liveness: a command is a straight line of calls, and whether the
owner gives another one is not the code's.

### Disagreements

Each of these is a run, with the counterexample that TLC finds.

* `reenabled`.  A plan that changes nothing through Decky's API has no guard
  for `loader.json`, and then nothing undoes the disabled list that `Quiesce`
  wrote: the restore succeeds and every plugin stays disabled for good.
* `power_cut`.  The marker's publication is the one committed rename without a
  synchronised directory.  It costs the record of the original list, not the
  targets: `AllOrNothing` holds with power cuts, because the update to
  `plugins_quiesced` synchronises the directory before anything else changes.
* `cloud_reinstall`.  Whether the account has backups is asked with a listing of
  one backup to a page, and a listing of more than eight pages is an error: with
  nine backups no device can connect any more, also after a reinstallation.
* `plugin_cleanup`.  The rollback of a created plugin moves what is at its name
  into a private directory.  If that move took effect and could not be
  synchronised, the directory is removed with the tree in it, which was not
  compared yet.

The models showed more than the runs have room for.  Seen with the same
modules, and left as notes:

* The plans of `reenabled`, when the snapshot holds `loader.json`, cannot
  succeed: the target differs from the approved one because of Run's own
  quiescence, and the run is rolled back without a failure.
* restore-safety-v1.md:52 promises the exact bytes of `loader.json` after a
  rollback; `RestoreOriginal` has the last word and Decky writes the file anew.
* Without the exception for `Mistaken`, `UndoneIsOriginal` is violated.
  client.go:358 says that `Restart` "proves that the old loopback service went
  away and a supported replacement came back".  Any error of a probe, also a
  second without an answer, sets `seenOffline` (389), so Run may believe in the
  restart before Decky has stopped; it reports `rolled_back`, and the job of a
  call that had timed out still removes or installs the plugin afterwards.
* A displaced file is compared and then removed by name; a program that had it
  open before the exchange can write to it in between.  Nothing short of a lease
  would prevent it, and programs that save by renames are safe
  (`OnlyKnownDestroyed`).
* A test has the removal of a file refuse a target whose mode changed.  The mode
  is compared before the file is moved; afterwards only its bytes are.
* The dashboard takes a backup for stored when its name is in the cloud's
  listing.  An upload that timed out, or whose read-back failed, can leave an
  object there, and was reported as failed a moment before.
* A connection that is killed while it waits for the browser leaves a
  configuration without remotes: the next connection refuses it because it
  exists, a disconnection because nothing is in it (user-guide.md:96 lets either
  forget it).  Torn files of the password, the key and the acknowledgement, and
  a v0.1.0 acknowledgement that outlives its configuration, are refused forever
  as well.
* A disconnection removes the configuration before the acknowledgement, so an
  upload may begin on the next connection before that is verified.
* The deferred cleanup of a connection removes whatever configuration is at the
  path, also one that another command has made since.
* user-guide.md:53: "If the private recovery object is missing, corrupt, or
  belongs to a conflicting duplicate, Deck Snapshot stops safely and offers the
  Advanced **Import recovery key** fallback."  The first two work; a conflict is
  refused before the imported key is looked at (connection.go 98-99).  Two
  devices that race for their first connection both fail and leave two objects,
  and from then on no device can connect, also with the recovery file of every
  backup.

## What is proved

`RestoreTransaction_proofs` proves, for every set of well-formed plans of any
length and for any number of faults, edits and boots:

* `TypeCorrect`: `Spec => []TypeOK`.
* `Invariant`: `Spec => []IInv`.
* `AlwaysAllOrNothing`, `ReportsAreTrue`: `Spec => []AllOrNothing` and
  `Spec => []ReportIsTrue`, from `IInv`.
* `KeepsContract`: `Spec => MeetsContract`.

The first module's theorems assume `PlansAssumption` (what the planner lets
through) and `BoundsAssumption`, which TLC evaluates in every run.

`AllOrNothing` is not inductive: that a removal of the marker is harmless
depends on why the run is where it is.  `IInv` adds that nothing changes before
and during the quiescence (`NothingChangedYet`, with the marker there,
`MarkedWhileItQuiesces`), that a durable marker is there from the first
mutation on (`RecordedWhileItChanges`), that the steps after the verification
have the new targets (`ConvergedWhenItCommits`) and a close without a rollback
error the old ones (`UndoneWhenItCloses`), that without a durable marker the
targets are at one version (`RecordedOrAtomic`), and that the marker of a living
run is of this boot (`MarkerOfThisBoot`), which keeps `CheckPendingRestore` away
from it.  The proof of the step has a case for each action.  What the cases
share is in lemmas: a step that leaves the disk and the marker alone
(`SameDisk`, `SameMarker`), that moves the marker's phase (`MarkerMoves`) or
removes it (`MarkerGoes`), that the targets stay at a version while others
write (`Undisturbed`), and what a successful comparison means (`FreshIsOld`,
`ConvergedIsNew`).  `KeepsContract` uses the same invariant, and one conjunct
per action that tells which step of the contract it is.

`RestoreProgress_proofs` proves, for the same plans and bounds:

* `RunInvariant`: `Spec => []RunInv`.
* `NoPluginOnAMixture`, `ArtworkOnlyWithoutSteam`, `OneFailureRollsBack`:
  `Spec => []MixtureMeansDisabled`, `Spec => SteamStoppedForArtwork` and
  `Spec => []CleanFailureRollsBack`.
* `GuardedListStaysRecorded`: without losses of power,
  `Spec => []GuardedListIsRecorded`.
* `RunsAreFinite`: `Spec => AlwaysAdvances`, and that `Left` is a natural number.

`RunInv` has a part for each thing a run must keep track of: the list for the
rollback is what the loops have passed (`ListedInOrder`), and unless something
was half done, everything else is at its old version (`ListedIsAllThatChanged`);
the plugins are disabled from the verified restart to the end of the rollback
(`DisabledWhileItChanges`); Steam is stopped where artwork may be written and
from there on (`SteamHeld`); the temporary list is gone once `loader.json` is
settled (`ListIsBack`); and while there was at most one failure and nobody else
at work, every slot holds exactly what the list says, and a run that rolls back
has its failure behind it (`CleanSoFar`), which is what
`CleanFailureRollsBack` needs.  `Left` counts the calls to come: the phases, the
actions left in the loop, and the rollback that may still follow; a failure
moves the run into the rollback, which is always the smaller.  `RunEnds` is
liveness and stays with TLC, but with `RunsAreFinite` only the scheduling of the
process is left of it: a run of n actions ends within 4n + 24 of its steps.

The first attempt at `GuardedListIsRecorded` failed for a good reason: the
property was too strong.  The update of the marker to `awaiting_reboot` can
report a failure and have taken effect.  The rollback then runs under a marker
that awaits a reboot; if one of its steps fails and the process dies, the
temporary list may still be on disk, and the check of the next boot retires the
marker.  The plan it takes, a single change through Decky, was not among those
that TLC had; it is the thirteenth now.  The property leaves out rollbacks with
a failed step.

`AtomicFile_proofs` proves, for any content, any number of faults and any
number of edits:

* `NamesAreRight`: `Spec => []NamesInv`, which includes the types, and from it
  `TypeCorrect`, `ReplacedIsAlwaysNamed`, `RefusalsLeaveNothing` and
  `SuccessesAreDurable`.
* where others save by renames only (each theorem assumes `~ InPlace`):
  `ContentIsRight` (`Spec => []ContentInv`), and from it `LatestIsAlwaysKept` and
  `NothingForeignIsDestroyed`.  With programs that write in place nothing is
  proved of the contents, and the three are false: a program that writes into
  the file it has open reaches the displaced copy.

`NamesInv` is a fact about names alone and needs nothing of what files hold.
It says which operation a step belongs to (`StepsOfOperation`), that each inode
in use has one name and a save has an inode of its own (`InodesInUse`,
`TypeOK`), where payload and displaced file are (`Places`), that the payload is
away from the target before its reversal is synchronised (`TakenBack`), and
that between the first synchronisation and the end every namespace on disk
shows the new file or another program's (`Synchronised`).  `ContentInv` adds
that files in the private directory are what they were compared to
(`PrivateIsKnown`), and follows the other program's last version through the
renames (`LatestIsSomewhere`): at each step it is at the target, or in the
private directory with the payload at the target.  The proof of the step is one
case per action and one leaf per conjunct; what the renames make of a namespace
is in the lemma `NamesAfter`.

`SnapshotStore_proofs` proves every property that the run `snapshot_store`
checks, for any finite set of names, any number of runs and any number of
troubles (`StoreAssumption`): `TypeCorrect`, `NothingPartial`, `CreatedStays`,
`StoredStays`, `TrashedStaysGone`, `OneBackup` and `FilesAreNeverReplaced`.
The inductive invariant `SInv` has five parts beside the types.  `Control` says
which steps a kind of run can be at (`RunInv`), that a backup that still works
holds the lock (`LockInv`), and that nothing but a validated temporary file is
about to be published (`TempInv`).  `FilesInv` is `NoPartialSnapshot` for every
file that the medium may still show after a loss of power; of the visible files
alone it is not inductive, since the loss chooses another.  `CreatedInv` says
that a creation which was confirmed, or is about to be, has left nothing but its
file on the medium.  `TrashInv` and `StoredInv` are about the numbers of uploads:
what a trash took is never given out again, and what an upload compared stays
until a trash of its name moves `erased`.  Most steps leave most of this alone.
`StoreChanges`, `DriveChanges` and `ClaimChanges` say which steps change the
directory, the folder and what the user was told, and `RunsMove` how a run's
record may move, so that the proof of each part looks at those steps only.

`PluginTree_proofs` proves every property that the run `plugin_tree` checks, for
either operation or both and any number of faults and changes:
`TreeTypesAreKept`, `ReplacedPluginStaysActive`, `ApprovedTreeIsKept`,
`ReplacementDestroysOnlyItsOwn` and `UndoneInstallationLeavesNothing`.  The
inductive invariant `IInv` has four parts beside the types and the two properties
that are inductive with them (`OldIsKept`, `OnlyGeneratedDestroyed`).  `Ordered` says
which operation a step belongs to, and which outcome a rollback or a cleanup
follows; `Once` that the prepared tree is at one place at most; `Placed`
what is at the places a step is about to move or delete, which the comparisons
before it established; `Untouched` where the old and the new tree are as long as
no other program interfered, and that the name shows one of them.  `UndoneIsOld`
follows from `Placed` and `Untouched` at the steps that report.

`DeckyInstall_proofs` proves every safety property that the run `decky_install`
checks, for any original list and any number of faults and changes: `TypeCorrect`,
`OnlyOwnConfirmed`, `QuietlyApplied` and `RollbackIsOriginal`.  None of the last
three is inductive.  `Control` says which steps a goal has.  `Waiting` is about the
connection: only a call that waits has messages, at most as many as its job and
the intruders can have sent (`ToCome`, `Expected`), one reply at most, and none
while the job goes on, which is why a confirmed request starts with nothing of its
prompt on the wire.  `JobsEnd` says when no job of an abandoned call can be left.
`Quiet` follows the other plugins from the disabled list over the restart to the
inventory that shows them at rest, and `Applied` carries that to the commit.
`Undone` says what each step of the rollback has seen: from the restart that was
really observed on no job is left, from the inventory on the loaded plugins are
the original ones, and the last comparison adds the tree.  `FailedFacts`,
`SucceededFacts` and `AfterFailure` say once what the two ways out of every call
do to the run; `CallFacts`, `Heard` and `WorkStep` do so for calls that wait for
nothing, for a message that is taken, and for what Decky does on its own.

`CloudConnection_proofs` proves every property that the run `cloud_connection`
checks, for any devices, any set of commands, any first accounts and devices and
any number of troubles: `Invariant` (`Spec => []ConnectionInv`), `TypeCorrect`,
`AgreeOnOneKey`, `UploadsStayReadable`, `AcknowledgementFollowsKey` and
`LegacyIsNeverLost`.  `OneKey` speaks of reported connections; what is inductive
is that a lookup which said *valid* has read every object and found one key, that
objects are never taken away, and so that any two lookups which ever say *valid*
have the same key (`KeyIsProven`).  From there the key is followed:
`recovery.json` has it before the acknowledgement is written (`SavedFirst`), the
acknowledgement is of a key that is in the account or in a file of the owner
(`AcknowledgedIsKnown`), and an upload takes the key that the acknowledgement
names.  `LegacyIsKept` needs that no connection is being made over a v0.1.0
configuration, whichever commands run beside it, and that the two entries of the
slot are there from the step that reports them (`LegacyIsPreserved`).  `KeyMoves`,
`LegacyMoves`, `KeyFilesFacts` and `ConfigFacts` say which steps lead to the
points these parts are about, and which change the files; `KnownGrows` that what
is known stays so.

Only model-checked: `RunEnds` and `Ends`.  Liveness under fairness, `ENABLED` and
induction over data are out of the prover's reach.  Every safety property of a
passing run is stated by a theorem.

## Not modelled

* Planning (`plan.go`, `convergence.go`): pure functions from a snapshot and a
  disk to a plan.  `RestoreTransaction` takes every plan that they let through.
* Two runs at a time: the marker is published without replacement, so the
  second is refused, but later updates go by its path.  The interface starts one
  run at a time.
* The first-writer files of the device identity and the configuration, the
  installer's swap of an update, staging a snapshot for a restore.
* Discovery, manifest validation, the plugin store's extraction, the other
  commands, path confinement and logging, which are sequential, keep no state
  between calls and are covered by unit tests.

Left to do, the most useful first: contracts of one file write and one plugin
installation that `AtomicFile` and `PluginTree` implement and
`RestoreTransaction` uses; the ownership of the marker; planning as operators,
with the fact that planning again after a restore finds nothing to do.
