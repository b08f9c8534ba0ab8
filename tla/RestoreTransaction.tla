-------------------------- MODULE RestoreTransaction --------------------------
(***************************************************************************)
(* One restore run (internal/restore/run.go, Run) from the approved plan   *)
(* to its report, with everything that can happen around it: any step may  *)
(* fail, another program may rewrite a target, the process may be killed,  *)
(* the Deck may reboot or lose power, and the application's start-up check *)
(* (pending.go, CheckPendingRestore) may retire the transaction marker.    *)
(*                                                                         *)
(* Contents are abstracted to their identity.  For a target of the plan:   *)
(*   "orig"      what the approved plan saw (absent, for a creation)       *)
(*   "want"      what the snapshot holds (absent, for a removal)           *)
(*   "gone"      a plugin directory a failed Decky replacement left absent *)
(*   "partial"   one that a failed Decky operation left half written       *)
(*   "other"     what somebody else wrote after the plan was approved      *)
(* and for Decky's loader.json (slot 0) also                               *)
(*   "quiesced"  any file whose disabled list is the temporary one         *)
(*   "rewritten" the original list, in a file Decky serialised anew.       *)
(***************************************************************************)
EXTENDS Integers, Sequences, FiniteSets

CONSTANTS
    Plans,      \* the approved plans a behaviour may start from
    MaxFaults,  \* bound: how many operations of a behaviour fail
    MaxEdits,   \* bound: how many targets another program rewrites
    MaxBoots,   \* bound: how many reboots a behaviour has
    PowerCuts   \* whether a reboot may be a loss of power

PluginKinds == {"plugin_api", "plugin_fs"}
FileKinds   == {"decky", "loader", "steam"}
Kinds       == PluginKinds \cup FileKinds \cup {"preserve"}
Ops         == {"unchanged", "create", "replace", "remove"}
Contents    == {"orig", "want", "gone", "partial", "other", "quiesced", "rewritten"}

(* Run's order: plugin actions, then file actions, then preserved settings. *)
Group(kind) == IF kind \in PluginKinds THEN 1 ELSE IF kind \in FileKinds THEN 2 ELSE 3

(* What BuildPlan and ValidatePlan let through: removals only of Decky-     *)
(* managed plugins, CSS themes and artwork; preserved settings are created  *)
(* or already there; at most one action is on loader.json, and that file is *)
(* replaced or left alone only where it exists.                             *)
WellFormed(p) ==
    /\ p.actions \in Seq([kind : Kinds, op : Ops])
    /\ p.loader \in {"absent", "canonical", "custom"}
    /\ \A j, k \in DOMAIN p.actions :
          j < k => /\ Group(p.actions[j].kind) <= Group(p.actions[k].kind)
                   /\ ~ (p.actions[j].kind = "loader" /\ p.actions[k].kind = "loader")
    /\ \A k \in DOMAIN p.actions :
          LET a == p.actions[k]
          IN  /\ a.op = "remove" => a.kind \in {"plugin_api", "decky", "steam"}
              /\ a.kind = "preserve" => a.op \in {"unchanged", "create"}
              /\ a.kind = "loader" => (a.op = "create") = (p.loader = "absent")

ASSUME PlansAssumption == \A p \in Plans : WellFormed(p)
ASSUME BoundsAssumption ==
    MaxFaults \in Nat /\ MaxEdits \in Nat /\ MaxBoots \in Nat /\ PowerCuts \in BOOLEAN

VARIABLES
    plan,      \* the approved plan
    pc,        \* where Run is; "done" it returned, "dead" its process was killed
    i,         \* the action the current loop is at
    applied,   \* the actions installedPlugins and applied list for rollback
    rbFailed,  \* whether rollbackErr is set
    status,    \* Report.Status
    disk,      \* slot -> content of the target on disk
    running,   \* "live" or "disabled": what Decky's running plugins are
    steam,     \* whether Steam runs
    marker,    \* the marker file restore-incomplete.json
    boot,      \* the number of the current boot
    faults,    \* operations that failed so far
    torn,      \* whether a failed operation left its target half changed
    edits      \* the slots another program rewrote

run  == <<pc, i, applied, rbFailed, status>>
live == <<running, steam>>
env  == <<boot, edits>>
vars == <<plan, run, disk, live, marker, env, faults, torn>>

-----------------------------------------------------------------------------
(* The plan, as run.go and plan.go read it. *)

Actions     == DOMAIN plan.actions
Kind(k)     == plan.actions[k].kind
Op(k)       == plan.actions[k].op
Mutates(k)  == Op(k) # "unchanged"
Slot(k)     == IF Kind(k) = "loader" THEN 0 ELSE k
Targets     == {k \in Actions : Mutates(k) /\ Kind(k) # "loader"}
HasMutations == \E k \in Actions : Mutates(k)

(* requiresRuntimeRefresh: only a plan that just preserves settings needs none. *)
Refresh == \E k \in Actions : Mutates(k) /\ Kind(k) # "preserve"
(* Mutant: planMutatesSteam forgets removals. *)
MutatesSteamUnlessRemoved == \E k \in Actions : Op(k) \in {"create", "replace"} /\ Kind(k) = "steam"
MutatesSteam == \E k \in Actions : Mutates(k) /\ Kind(k) = "steam"

(* bindDeckyAPISettingsRecovery: loader.json is guarded only by plans that   *)
(* change a plugin through Decky's API.                                      *)
Guarded == \E k \in Actions : Mutates(k) /\ Kind(k) = "plugin_api"

(* fingerprintTargets: what a plan's target fingerprint covers. *)
Tracked == {Slot(k) : k \in Actions} \cup (IF Guarded THEN {0} ELSE {})
Fresh   == \A s \in Tracked : disk[s] = "orig"

(* verifyConverged, and the re-planning of CheckPendingRestore. *)
Converged == \A k \in Actions :
    \/ disk[Slot(k)] = "want"
    \/ ~ Mutates(k) /\ disk[Slot(k)] = "orig"

(* The bytes of loader.json after SetDisabledPlugins put the original list   *)
(* back: the client sorts the list and Decky writes the file anew.           *)
OriginalList == IF plan.loader = "canonical" THEN "orig" ELSE "rewritten"

(* What Decky's plugins are once Decky starts from this loader.json. *)
Started(loader) == IF loader = "quiesced" THEN "disabled" ELSE "live"

-----------------------------------------------------------------------------
(* The transaction marker. *)

Phases == {"prepared", "plugins_quiesced", "plugin_convergence", "steam_quiesced",
           "filesystem_convergence", "static_verification_passed", "awaiting_reboot",
           "awaiting_post_boot_verification", "recovery_required"}

NoMarker  == [phase |-> "none", boot |-> 0, mine |-> FALSE, synced |-> FALSE]
OldMarker == [phase |-> "recovery_required", boot |-> 0, mine |-> FALSE, synced |-> TRUE]
MyMarker  == marker.mine

(* Mutant: an update does not synchronise its directory either. *)
InPhaseUnsynced(phase) ==
    [phase |-> phase, boot |-> marker.boot, mine |-> marker.mine, synced |-> marker.synced]

(* updateIncompleteTransaction: exchange, then synchronise the directory. *)
InPhase(phase) ==
    [phase |-> phase, boot |-> marker.boot, mine |-> marker.mine, synced |-> TRUE]
(* An update that failed may have exchanged the file, synchronised or not.   *)
AfterFailedUpdate(phase) ==
    {marker, InPhase(phase),
             [phase |-> phase, boot |-> marker.boot, mine |-> marker.mine,
              synced |-> marker.synced]}

-----------------------------------------------------------------------------
(* Steps of Run. *)

Fails == faults < MaxFaults /\ faults' = faults + 1
Works == UNCHANGED faults

Goto(p)    == pc' = p /\ UNCHANGED <<i, applied, rbFailed, status>>
Return(s)  == pc' = "done" /\ status' = s /\ UNCHANGED <<i, applied, rbFailed>>
StartLoop  == pc' = "plugins" /\ i' = 1 /\ UNCHANGED <<applied, rbFailed, status>>
(* failPluginQuiescence and the applyErr branch roll back from the last action. *)
RollBack == /\ pc' = "undo" /\ i' = Len(plan.actions)
            /\ UNCHANGED <<applied, rbFailed, status>>

(* Lines 127-295: approval, revalidation, marker check, staging.             *)
Begin ==
    /\ pc = "start"
    /\ \/ Fails /\ Return("failed_before_mutation")
       \/ Works /\ ~ Fresh /\ Return("failed_before_mutation")
       \/ Works /\ Fresh /\ ~ HasMutations /\ Return("already_matches")
       \/ Works /\ Fresh /\ HasMutations /\ marker # NoMarker
          /\ Return("failed_before_mutation")
       \/ Works /\ Fresh /\ HasMutations /\ marker = NoMarker /\ Goto("recovery")
    /\ UNCHANGED <<plan, disk, live, marker, env, torn>>

(* Lines 296-433: revalidate, publish and stage the recovery snapshot (it is *)
(* refused unless every captured target still has its approved content),     *)
(* revalidate, plan the quiescence.                                          *)
Recover ==
    /\ pc = "recovery"
    /\ \/ Fails /\ Return("failed_before_mutation")
       \/ Works /\ ~ Fresh /\ Return("failed_before_mutation")
       \/ Works /\ Fresh /\ Refresh /\ Goto("save")
       \/ Works /\ Fresh /\ ~ Refresh /\ StartLoop
    /\ UNCHANGED <<plan, disk, live, marker, env, torn>>

(* saveIncompleteTransaction: published without replacement, and without a   *)
(* synchronisation of its directory.                                         *)
Save ==
    /\ pc = "save"
    /\ \/ /\ Fails \/ (Works /\ marker # NoMarker)
          /\ Return("failed_before_mutation") /\ UNCHANGED marker
       \/ /\ Works /\ marker = NoMarker /\ Goto("quiesce")
          /\ marker' = [phase |-> "prepared", boot |-> boot, mine |-> TRUE, synced |-> FALSE]
    /\ UNCHANGED <<plan, disk, live, env, torn>>

(* Quiesce: persist the temporary list ... *)
SetDisabled ==
    /\ pc = "quiesce"
    /\ \/ /\ Works /\ Goto("restart") /\ disk' = [disk EXCEPT ![0] = "quiesced"]
       \/ /\ Fails /\ Goto("unquiesce") /\ disk' \in {disk, [disk EXCEPT ![0] = "quiesced"]}
    /\ UNCHANGED <<plan, live, marker, env, torn>>

(* Mutant: the restart is not verified. *)
RestartUnverified ==
    /\ pc = "restart" /\ Works /\ running' = Started(disk[0]) /\ Goto("mark_quiesced")
    /\ UNCHANGED <<plan, disk, steam, marker, env, torn>>

(* ... restart Decky and verify that every plugin is disabled. *)
RestartDisabled ==
    /\ pc = "restart"
    /\ \/ /\ Works /\ running' = Started(disk[0])
          /\ Goto(IF disk[0] = "quiesced" THEN "mark_quiesced" ELSE "unquiesce")
       \/ /\ Fails /\ running' \in {running, Started(disk[0])} /\ Goto("unquiesce")
    /\ UNCHANGED <<plan, disk, steam, marker, env, torn>>

(* Every update of the marker's phase.  One that fails may have taken effect. *)
MarkAt(here, phase, onSuccess, onFailure) ==
    /\ pc = here
    /\ \/ Works /\ marker' = InPhase(phase) /\ onSuccess
       \/ Fails /\ marker' \in AfterFailedUpdate(phase) /\ onFailure
    /\ UNCHANGED <<plan, disk, live, env, torn>>

MarkQuiesced == MarkAt("mark_quiesced", "plugins_quiesced", Goto("mark_plugins"), Goto("unquiesce"))
MarkPlugins  == MarkAt("mark_plugins", "plugin_convergence", StartLoop, Goto("unquiesce"))
MarkSteam    == MarkAt("mark_steam", "steam_quiesced", Goto("mark_files"), RollBack)
MarkFiles    == MarkAt("mark_files", "filesystem_convergence", Goto("files"), RollBack)
MarkVerified == MarkAt("mark_verified", "static_verification_passed", Goto("mark_reboot"), RollBack)
MarkReboot   == MarkAt("mark_reboot", "awaiting_reboot", Goto("request"), RollBack)

(* The loops skip an action with nothing to do. *)
Advance(p) == pc' = p /\ i' = i + 1 /\ UNCHANGED <<applied, rbFailed, status>>
ListedThen(p, n) ==
    pc' = p /\ i' = n /\ applied' = applied \cup {i} /\ UNCHANGED <<rbFailed, status>>
Writes(k, value) == disk' = [disk EXCEPT ![Slot(k)] = value]

(* Mutant: the loop continues without advancing. *)
SkipUnchangedAgain ==
    /\ pc \in {"plugins", "files"} /\ i \in Actions /\ ~ Mutates(i)
    /\ pc = "plugins" => Group(Kind(i)) = 1
    /\ UNCHANGED <<plan, run, disk, live, marker, env, faults, torn>>

SkipUnchanged ==
    /\ pc \in {"plugins", "files"} /\ i \in Actions /\ ~ Mutates(i)
    /\ pc = "plugins" => Group(Kind(i)) = 1
    /\ Advance(pc) /\ Works
    /\ UNCHANGED <<plan, disk, live, marker, env, torn>>

(* The plugin loop.  Before it installs through Decky, Run adds the plugin   *)
(* to the disabled list (KeepDisabled); Decky's own change to loader.json    *)
(* leaves a file whose list is still the temporary one.                      *)
AtPlugin == pc = "plugins" /\ i \in Actions /\ Group(Kind(i)) = 1 /\ Mutates(i)

KeptDisabled(d) ==
    IF Kind(i) = "plugin_api" /\ Op(i) # "remove" THEN [d EXCEPT ![0] = "quiesced"] ELSE d

HalfDone(k) ==
    {"orig", "want"} \cup (IF Kind(k) = "plugin_api" THEN {"partial"} ELSE {})
                     \cup (IF Kind(k) = "plugin_api" /\ Op(k) = "replace" THEN {"gone"} ELSE {})

PluginRefused ==
    /\ AtPlugin /\ Fails /\ RollBack
    /\ disk' \in {disk, KeptDisabled(disk)}
    /\ UNCHANGED <<plan, live, marker, env, torn>>

PluginTorn ==
    /\ AtPlugin /\ Fails /\ ListedThen("undo", Len(plan.actions))
    /\ \E value \in HalfDone(i) : disk' = [KeptDisabled(disk) EXCEPT ![i] = value]
    /\ torn' = TRUE
    /\ UNCHANGED <<plan, live, marker, env>>

PluginApplied ==
    /\ AtPlugin /\ Works
    /\ disk' = [KeptDisabled(disk) EXCEPT ![i] = "want"]
    /\ IF Kind(i) = "plugin_api" THEN ListedThen("sync", i) ELSE ListedThen("plugins", i + 1)
    /\ UNCHANGED <<plan, live, marker, env, torn>>

(* After an operation through Decky: SynchronizeQuiescence verifies that all *)
(* plugins are still disabled, and the marker records the new list.          *)
Synchronize ==
    /\ pc = "sync"
    /\ \/ /\ Works /\ disk[0] = "quiesced" /\ running = "disabled"
          /\ Advance("plugins") /\ marker' = InPhase("plugin_convergence")
       \/ /\ Works /\ ~ (disk[0] = "quiesced" /\ running = "disabled")
          /\ RollBack /\ UNCHANGED marker
       \/ Fails /\ RollBack /\ UNCHANGED marker
    /\ UNCHANGED <<plan, disk, live, env, torn>>

PluginsDone ==
    /\ pc = "plugins" /\ ~ (i \in Actions /\ Group(Kind(i)) = 1)
    /\ Goto(IF Refresh THEN "settle" ELSE "files") /\ Works
    /\ UNCHANGED <<plan, disk, live, marker, env, torn>>

(* Mutant: loader.json is left to the final reboot. *)
SettleLoaderSkipped ==
    /\ pc = "settle" /\ Works /\ Goto(IF MutatesSteam THEN "steam" ELSE "mark_files")
    /\ UNCHANGED <<plan, disk, live, marker, env, torn>>

(* restoreDeckySettingsSideEffects: a nil guard is a no-op. *)
SettleLoader ==
    /\ pc = "settle"
    /\ \/ /\ Works /\ disk' = IF Guarded THEN [disk EXCEPT ![0] = "orig"] ELSE disk
          /\ Goto(IF MutatesSteam THEN "steam" ELSE "mark_files")
       \/ /\ Guarded /\ Fails /\ RollBack
          /\ disk' \in {disk, [disk EXCEPT ![0] = "orig"]}
    /\ UNCHANGED <<plan, live, marker, env, torn>>

QuiesceSteam ==
    /\ pc = "steam"
    /\ \/ Works /\ steam' = "stopped" /\ Goto("mark_steam")
       \/ Fails /\ steam' \in {steam, "stopped"} /\ RollBack
    /\ UNCHANGED <<plan, disk, running, marker, env, torn>>

(* The file loop, then the preserved settings.  Every write is conditional   *)
(* on the approved content (atomicWrite, removeAppliedCreate).               *)
AtFile == pc = "files" /\ i \in Actions /\ Mutates(i)

(* Mutant: a file is listed for rollback before it is written. *)
FileRefusedListed ==
    /\ AtFile /\ ListedThen("undo", Len(plan.actions))
    /\ Fails \/ (Works /\ disk[Slot(i)] # "orig")
    /\ UNCHANGED <<plan, disk, live, marker, env, torn>>

FileRefused ==
    /\ AtFile /\ RollBack
    /\ Fails \/ (Works /\ disk[Slot(i)] # "orig")
    /\ UNCHANGED <<plan, disk, live, marker, env, torn>>

FileApplied ==
    /\ AtFile /\ Works /\ disk[Slot(i)] = "orig"
    /\ Writes(i, "want") /\ ListedThen("files", i + 1)
    /\ UNCHANGED <<plan, live, marker, env, torn>>

(* A create or replace that ends in an incompleteMutationError, or in a      *)
(* target that fails verification, is listed for rollback; an incomplete     *)
(* removal or preservation is not.                                           *)
FileTorn ==
    /\ AtFile /\ Fails /\ disk[Slot(i)] = "orig"
    /\ \/ /\ Kind(i) # "preserve" /\ Op(i) # "remove"
          /\ ListedThen("undo", Len(plan.actions))
          /\ \E value \in {"orig", "want"} : Writes(i, value)
       \/ /\ Kind(i) = "preserve" \/ Op(i) = "remove"
          /\ RollBack /\ Writes(i, "want")
    /\ torn' = TRUE
    /\ UNCHANGED <<plan, live, marker, env>>

FilesDone ==
    /\ pc = "files" /\ i \notin Actions
    /\ Goto("verify") /\ Works
    /\ UNCHANGED <<plan, disk, live, marker, env, torn>>

VerifyConverged ==
    /\ pc = "verify"
    /\ \/ Works /\ Converged /\ Goto(IF Refresh THEN "mark_verified" ELSE "succeed")
       \/ RollBack /\ (Fails \/ (Works /\ ~ Converged))
    /\ UNCHANGED <<plan, disk, live, marker, env, torn>>

(* A reboot that cannot be requested is reported, never rolled back. *)
RequestReboot ==
    /\ pc = "request"
    /\ \/ Works /\ Return("awaiting_post_boot_verification")
       \/ Fails /\ Return("reboot_required")
    /\ UNCHANGED <<plan, disk, live, marker, env, torn>>

(* The end of a run that needs no refresh: remove a marker, save the report. *)
Succeed ==
    /\ pc = "succeed"
    /\ \/ Works /\ Return("succeeded") /\ marker' = NoMarker
       \/ Fails /\ Return("succeeded_marker_retained") /\ UNCHANGED marker
       \/ Fails /\ Return("succeeded_report_failed") /\ marker' = NoMarker
    /\ UNCHANGED <<plan, disk, live, env, torn>>

-----------------------------------------------------------------------------
(* Rolling back: rollbackApplied and rollbackInstalledPluginsWithDecky, both *)
(* in reverse order and neither stopped by a failure.                        *)

UndoneThen(failed) ==
    /\ i' = i - 1 /\ rbFailed' = (rbFailed \/ failed) /\ UNCHANGED <<pc, applied, status>>

(* What each rollback finds done already, and what it can put back. *)
AlreadyOld(k) == disk[Slot(k)] = "orig" /\ (Kind(k) = "plugin_api" \/ Op(k) = "create")
Undoable(k) ==
    \/ disk[Slot(k)] = "want"
    \/ disk[Slot(k)] = "gone" /\ Kind(k) = "plugin_api"

(* A rollback through Decky makes Decky rewrite loader.json from its memory. *)
DeckyRewrote(d, k) == IF Kind(k) = "plugin_api" THEN {d, [d EXCEPT ![0] = "quiesced"]} ELSE {d}

AtUndo == pc = "undo" /\ i \in applied

UndoSkips ==
    /\ pc = "undo" /\ i > 0 /\ (i \notin applied \/ AlreadyOld(i))
    /\ UndoneThen(FALSE) /\ Works
    /\ UNCHANGED <<plan, disk, live, marker, env, torn>>

UndoOne ==
    /\ AtUndo /\ Undoable(i)
    /\ UndoneThen(FALSE) /\ Works
    /\ disk' \in DeckyRewrote([disk EXCEPT ![Slot(i)] = "orig"], i)
    /\ UNCHANGED <<plan, live, marker, env, torn>>

(* Mutant: what could not be put back is tried again. *)
UndoFailsRetried ==
    /\ AtUndo /\ UNCHANGED run
    /\ \/ Works /\ ~ Undoable(i) /\ ~ AlreadyOld(i) /\ UNCHANGED disk
       \/ Fails /\ \E value \in {disk[Slot(i)], "orig"} :
                      disk' \in DeckyRewrote([disk EXCEPT ![Slot(i)] = value], i)
    /\ UNCHANGED <<plan, live, marker, env, torn>>

UndoFails ==
    /\ AtUndo /\ UndoneThen(TRUE)
    /\ \/ Works /\ ~ Undoable(i) /\ ~ AlreadyOld(i) /\ UNCHANGED disk
       \/ Fails /\ \E value \in {disk[Slot(i)], "orig"} :
                      disk' \in DeckyRewrote([disk EXCEPT ![Slot(i)] = value], i)
    /\ UNCHANGED <<plan, live, marker, env, torn>>

UndoDone ==
    /\ pc = "undo" /\ i = 0
    /\ Goto("undo_loader") /\ Works
    /\ UNCHANGED <<plan, disk, live, marker, env, torn>>

(* rollbackPlugins: after an operation through Decky, loader.json again ... *)
ApiMutation == \E k \in applied : Kind(k) = "plugin_api"
AfterLoader == IF Refresh THEN "undo_quiesce" ELSE "reverify"

UndoLoader ==
    /\ pc = "undo_loader"
    /\ \/ /\ Works /\ Goto(AfterLoader)
          /\ disk' = IF ApiMutation THEN [disk EXCEPT ![0] = "orig"] ELSE disk
       \/ /\ ApiMutation /\ Fails
          /\ pc' = AfterLoader /\ rbFailed' = TRUE /\ UNCHANGED <<i, applied, status>>
          /\ disk' \in {disk, [disk EXCEPT ![0] = "orig"]}
    /\ UNCHANGED <<plan, live, marker, env, torn>>

(* ... then RestoreOriginal: set the list, restart Decky, verify both, each   *)
(* whether or not the one before it worked.                                  *)
RestoreOriginal ==
    /\ pc \in {"unquiesce", "undo_quiesce"}
    /\ pc' = IF pc = "unquiesce" THEN "close" ELSE "reverify"
    /\ \/ /\ Works /\ UNCHANGED rbFailed
          /\ disk' = [disk EXCEPT ![0] = OriginalList] /\ running' = "live"
       \/ /\ Fails /\ rbFailed' = TRUE
          /\ disk' \in {disk, [disk EXCEPT ![0] = OriginalList]}
          /\ running' \in {running, Started(disk'[0])}
    /\ UNCHANGED <<plan, i, applied, status, steam, marker, env, torn>>

(* Mutant: a rollback is not verified. *)
ReverifyNothing ==
    /\ pc = "reverify" /\ pc' = "close" /\ Works
    /\ UNCHANGED <<plan, i, applied, rbFailed, status, disk, live, marker, env, torn>>

(* revalidate: the targets must have their approved fingerprint again. *)
Reverify ==
    /\ pc = "reverify" /\ pc' = "close"
    /\ \/ Works /\ rbFailed' = (rbFailed \/ ~ Fresh)
       \/ Fails /\ rbFailed' = TRUE
    /\ UNCHANGED <<plan, i, applied, status, disk, live, marker, env, torn>>

(* Mutant: the marker is removed whatever the rollback did. *)
CloseAlways ==
    /\ pc = "close" /\ Works /\ marker' = NoMarker
    /\ Return(IF rbFailed THEN "rollback_failed" ELSE "rolled_back")
    /\ UNCHANGED <<plan, disk, live, env, torn>>

Close ==
    /\ pc = "close"
    /\ \/ /\ rbFailed /\ Return("rollback_failed")
          /\ \/ Works /\ marker' = IF Refresh THEN InPhase("recovery_required") ELSE marker
             \/ Fails /\ Refresh
                /\ marker' \in AfterFailedUpdate("recovery_required")
       \/ ~ rbFailed /\ Works /\ Return("rolled_back") /\ marker' = NoMarker
       \/ ~ rbFailed /\ Fails /\ Return("rollback_failed") /\ UNCHANGED marker
    /\ UNCHANGED <<plan, disk, live, env, torn>>

-----------------------------------------------------------------------------
(* Around the run. *)

Ended == pc \in {"done", "dead"}

Crash ==
    /\ ~ Ended /\ pc' = "dead"
    /\ UNCHANGED <<plan, i, applied, rbFailed, status, disk, live, marker, env, faults, torn>>

(* Another program rewrites a file target, or loader.json, with its own      *)
(* content.                                                                  *)
Editable == {0} \cup {Slot(k) : k \in {a \in Actions : Group(Kind(a)) > 1}}
Edit ==
    \E s \in Editable \ edits :
       /\ Cardinality(edits) < MaxEdits
       /\ disk' = [disk EXCEPT ![s] = "other"] /\ edits' = edits \cup {s}
       /\ UNCHANGED <<plan, run, live, marker, boot, faults, torn>>

(* The Deck restarts: Decky reads loader.json again, Steam starts.  A loss of *)
(* power may undo the publication of a marker whose directory is not synced. *)
Reboot ==
    /\ boot < MaxBoots /\ boot' = boot + 1
    /\ pc' = IF Ended THEN pc ELSE "dead"
    /\ running' = Started(disk[0]) /\ steam' = "running"
    /\ marker' \in {marker} \cup (IF PowerCuts /\ ~ marker.synced THEN {NoMarker} ELSE {})
    /\ UNCHANGED <<plan, i, applied, rbFailed, status, disk, edits, faults, torn>>

(* CheckPendingRestore: it acts only on a marker that awaits a reboot, in     *)
(* another boot than the marker's; it notes the new phase, plans the restore *)
(* again, and retires the marker if nothing is left to do.                   *)
PendingNote ==
    /\ MyMarker /\ marker.phase = "awaiting_reboot" /\ boot # marker.boot
    /\ \/ Works /\ marker' = InPhase("awaiting_post_boot_verification")
       \/ Fails /\ marker' \in AfterFailedUpdate("awaiting_post_boot_verification")
    /\ UNCHANGED <<plan, run, disk, live, env, torn>>

(* Mutant: the marker is retired without planning the restore again. *)
PendingRetireUnchecked ==
    /\ MyMarker /\ marker.phase = "awaiting_post_boot_verification" /\ boot # marker.boot
    /\ marker' = NoMarker
    /\ UNCHANGED <<plan, run, disk, live, env, faults, torn>>

PendingRetire ==
    /\ MyMarker /\ marker.phase = "awaiting_post_boot_verification" /\ boot # marker.boot
    /\ Converged
    /\ marker' = NoMarker
    /\ UNCHANGED <<plan, run, disk, live, env, faults, torn>>

-----------------------------------------------------------------------------
Init ==
    /\ plan \in Plans
    /\ pc = "start" /\ i = 0 /\ applied = {} /\ rbFailed = FALSE
    /\ status = "failed_before_mutation"
    /\ disk = [s \in 0 .. Len(plan.actions) |-> "orig"]
    /\ running = "live" /\ steam = "running"
    /\ marker \in {NoMarker, OldMarker}
    /\ boot = 0 /\ faults = 0 /\ torn = FALSE /\ edits = {}

Prepare  == Begin \/ Recover \/ Save
Quiesce  == SetDisabled \/ RestartDisabled \/ MarkQuiesced \/ MarkPlugins
Converge == \/ SkipUnchanged
            \/ PluginRefused \/ PluginTorn \/ PluginApplied \/ Synchronize \/ PluginsDone
            \/ SettleLoader \/ QuiesceSteam \/ MarkSteam \/ MarkFiles
            \/ FileRefused \/ FileTorn \/ FileApplied \/ FilesDone
Finish   == VerifyConverged \/ MarkVerified \/ MarkReboot \/ RequestReboot \/ Succeed
Undo     == UndoSkips \/ UndoOne \/ UndoFails \/ UndoDone \/ UndoLoader
            \/ RestoreOriginal \/ Reverify \/ Close

RunStep  == Prepare \/ Quiesce \/ Converge \/ Finish \/ Undo
EnvStep  == Crash \/ Edit \/ Reboot \/ PendingNote \/ PendingRetire

Next == RunStep \/ EnvStep
Spec     == Init /\ [][Next]_vars
(* The process is scheduled, and every call it makes returns: all of them    *)
(* are bounded by a deadline or by the kernel.                               *)
FairSpec == Spec /\ WF_vars(RunStep)

-----------------------------------------------------------------------------
(* Properties. *)

PreMarker   == {"start", "recovery", "save"}
Quiescing   == {"quiesce", "restart", "mark_quiesced", "mark_plugins", "unquiesce"}
Converging  == {"plugins", "sync", "settle", "steam", "mark_steam", "mark_files", "files", "verify"}
Committing  == {"mark_verified", "mark_reboot", "request", "succeed"}
Undoing     == {"undo", "undo_loader", "undo_quiesce", "reverify"}
Finished    == {"done", "dead"}
PCs         == PreMarker \cup Quiescing \cup Converging \cup Committing \cup Undoing
                         \cup {"close"} \cup Finished

Statuses == {"failed_before_mutation", "already_matches", "rolled_back", "rollback_failed",
             "awaiting_post_boot_verification", "reboot_required", "succeeded",
             "succeeded_marker_retained", "succeeded_report_failed"}

Markers == [phase : Phases \cup {"none"}, boot : Nat, mine : BOOLEAN, synced : BOOLEAN]

(* The type invariant. *)
TypeOK ==
    /\ plan \in Plans
    /\ pc \in PCs
    /\ i \in 0 .. Len(plan.actions) + 1
    /\ pc = "sync" => i \in Actions
    /\ applied \subseteq Actions
    /\ rbFailed \in BOOLEAN
    /\ status \in Statuses
    /\ disk \in [0 .. Len(plan.actions) -> Contents]
    /\ running \in {"live", "disabled"}
    /\ steam \in {"running", "stopped"}
    /\ marker \in Markers
    /\ boot \in Nat
    /\ faults \in Nat
    /\ torn \in BOOLEAN
    /\ edits \subseteq Nat

(* The two states a restore may leave its targets in, up to what other        *)
(* programs wrote.                                                           *)
Untouched(s, value) == disk[s] = value \/ disk[s] = "other"
Old == \A k \in Targets : Untouched(k, "orig")
New == \A k \in Targets : Untouched(k, "want")

(* All or nothing.  Whatever fails, crashes or loses power, and however much   *)
(* of a rollback fails: as soon as no marker of this run is on disk, the       *)
(* targets are all as they were or all as the snapshot has them.  It is what   *)
(* lets a later run trust the absence of a marker (run.go 168-174).            *)
AllOrNothing == Refresh /\ ~ MyMarker => Old \/ New

(* The report tells the truth: "rolled_back" and the early refusals leave the  *)
(* old targets, the success statuses the new ones (run.go 124, 481, 814, 848). *)
ReportIsTrue ==
    pc = "done" =>
      /\ status \in {"failed_before_mutation", "already_matches", "rolled_back"} => Old
      /\ status \in {"awaiting_post_boot_verification", "reboot_required", "succeeded",
                     "succeeded_marker_retained", "succeeded_report_failed"} => New

(* While the process lives and its targets are a mixture, Decky's plugins are  *)
(* disabled: no plugin runs on half-restored files, neither while the files    *)
(* converge nor while they are rolled back (run.go 655-658).  A rollback that  *)
(* failed, or a half-done operation nobody listed, is reported instead.        *)
MixtureMeansDisabled ==
    pc \notin Finished /\ Refresh /\ ~ Old /\ ~ New /\ ~ rbFailed /\ ~ torn
        => running = "disabled"

(* A plan that guards loader.json never leaves Decky's temporary list behind   *)
(* without the marker that says so (decky_quiescence.go 122-130, run.go 498).  *)
(* A rollback with a failed step is another matter: it may run under a marker  *)
(* that awaits a reboot, because the update that failed (run.go 811) took      *)
(* effect; a crash later, the check of the next boot retires that marker.      *)
GuardedListIsRecorded ==
    Guarded /\ marker = NoMarker /\ ~ rbFailed => disk[0] # "quiesced"

(* One clean failure is enough to be rolled back, not to need a recovery: a    *)
(* failed rollback takes a second failure, a half-done operation, a target     *)
(* somebody else rewrote, or a compared loader.json that Decky cannot          *)
(* reproduce or that nobody guards (run.go 107-110 and 831-860).               *)
CleanFailureRollsBack ==
    status = "rollback_failed" =>
        \/ faults > 1 \/ torn \/ edits # {}
        \/ 0 \in Tracked /\ (plan.loader # "canonical" \/ ~ Guarded)

(* An artwork file changes only while Steam is stopped, when it is applied and *)
(* when it is rolled back (run.go 663-675).                                    *)
SteamStoppedForArtwork ==
    [][\A k \in Actions :
          Kind(k) = "steam" /\ disk'[k] # disk[k] /\ k \notin edits' => steam = "stopped"]_vars

(* The steps a run with n actions can still take from p with its index at j.  *)
LeftAt(p, n, j) ==
    CASE p \in Finished                       -> 0
      [] p \in {"request", "succeed", "close"} -> 1
      [] p \in {"unquiesce", "reverify"}       -> 2
      [] p = "undo_quiesce"   -> 3
      [] p = "undo_loader"    -> 4
      [] p = "undo"           -> j + 5
      [] p = "mark_reboot"    -> n + 6
      [] p = "mark_verified"  -> n + 7
      [] p = "verify"         -> n + 8
      [] p = "files"          -> (n + 1 - j) + n + 9
      [] p = "mark_files"     -> 2 * n + 11
      [] p = "mark_steam"     -> 2 * n + 12
      [] p = "steam"          -> 2 * n + 13
      [] p = "settle"         -> 2 * n + 14
      [] p = "sync"           -> 2 * (n + 1 - j) + 2 * n + 14
      [] p = "plugins"        -> 2 * (n + 1 - j) + 2 * n + 15
      [] p = "mark_plugins"   -> 4 * n + 18
      [] p = "mark_quiesced"  -> 4 * n + 19
      [] p = "restart"        -> 4 * n + 20
      [] p = "quiesce"        -> 4 * n + 21
      [] p = "save"           -> 4 * n + 22
      [] p = "recovery"       -> 4 * n + 23
      [] p = "start"          -> 4 * n + 24

Left == LeftAt(pc, Len(plan.actions), i)

(* Every step of a run brings it nearer to its end, and nothing around it     *)
(* takes it back: with n actions it ends within 4n + 24 steps, whatever fails *)
(* and however often (run.go 538-860).                                        *)
AlwaysAdvances == [][Left' <= Left /\ (RunStep => Left' < Left)]_vars

(* Every run returns or dies: no loop of the convergence or of the rollback is *)
(* endless, whatever fails (run.go 538-860).                                   *)
RunEnds == <>(pc \in Finished)

-----------------------------------------------------------------------------
(* The inductive invariant behind AllOrNothing and ReportIsTrue.              *)

(* A durable record: no loss of power can take this marker back. *)
Recorded == MyMarker /\ marker.synced

NothingChangedYet   == pc \in PreMarker \cup Quiescing => Old
MarkedWhileItQuiesces == pc \in Quiescing => MyMarker
RecordedWhileItChanges ==
    pc \in Converging \cup Committing \cup Undoing /\ Refresh => Recorded
ConvergedWhenItCommits == pc \in Committing => New
UndoneWhenItCloses  == pc = "close" /\ ~ rbFailed => Old
RecordedOrAtomic    == Refresh /\ ~ Recorded => Old \/ New
MarkerOfThisBoot    == pc \notin Finished /\ MyMarker => marker.boot = boot

(* What every step of a run keeps: nothing changes before there is a durable   *)
(* record, no commit without the new state, no clean close without the old     *)
(* one, and no boot but the run's own while it lives (run.go 434-881).         *)
IInv ==
    /\ TypeOK
    /\ NothingChangedYet
    /\ MarkedWhileItQuiesces
    /\ RecordedWhileItChanges
    /\ ConvergedWhenItCommits
    /\ UndoneWhenItCloses
    /\ RecordedOrAtomic
    /\ MarkerOfThisBoot
    /\ ReportIsTrue

-----------------------------------------------------------------------------
(* What a run keeps track of on its way, behind MixtureMeansDisabled,         *)
(* SteamStoppedForArtwork, GuardedListIsRecorded and CleanFailureRollsBack.   *)

(* The list for the rollback is what the loops have passed, in order.         *)
ListedInOrder ==
    /\ pc \in PreMarker \cup Quiescing => applied = {}
    /\ \A k \in applied : Mutates(k)
    /\ pc \in {"plugins", "sync", "settle"} => \A k \in applied : Group(Kind(k)) = 1
    /\ pc = "sync" => i \in applied /\ Kind(i) = "plugin_api"
    /\ pc \in Converging =>
          /\ i > 0
          /\ \A k \in applied : k < i \/ (pc = "sync" /\ k = i)
          /\ \A k \in Actions : k < i /\ Mutates(k) => k \in applied
    /\ pc = "verify" => \A k \in Actions : Mutates(k) => k \in applied

(* Plugins are disabled from the verified restart to the end of the rollback. *)
DisabledWhileItChanges ==
    Refresh /\ pc \in (Converging \cup Committing \cup Undoing \cup {"mark_quiesced", "mark_plugins"})
                          \ {"reverify"}
        => running = "disabled"

(* Unless an operation was half done or failed to be undone, whatever is not  *)
(* listed, or is undone already, is at its old version.                       *)
ListedIsAllThatChanged ==
    ~ torn =>
      /\ pc \in Converging \cup Committing => \A k \in Targets \ applied : Untouched(k, "orig")
      /\ pc = "undo" /\ ~ rbFailed =>
            \A k \in Targets : k \notin applied \/ k > i => Untouched(k, "orig")
      /\ pc \in Undoing \ {"undo"} /\ ~ rbFailed => Old

(* Steam is stopped where artwork may be written, and from there on.          *)
SteamHeld ==
    /\ pc \in {"mark_steam", "mark_files", "files"} /\ MutatesSteam => steam = "stopped"
    /\ pc \notin Finished /\ (\E k \in applied : Kind(k) = "steam") => steam = "stopped"

(* The temporary list is gone once loader.json is settled, and it comes back  *)
(* under a marker that awaits a reboot only with a plugin that is back too.   *)
Awaiting == {"awaiting_reboot", "awaiting_post_boot_verification"}
Settled  == {"steam", "mark_steam", "mark_files", "files", "verify"} \cup Committing

ListIsBack ==
    Guarded =>
      /\ pc \in Settled => disk[0] # "quiesced"
      /\ pc = "close" /\ ~ rbFailed => disk[0] # "quiesced"
      /\ pc \in PreMarker \cup Quiescing \cup {"plugins", "sync", "settle"} /\ MyMarker
            => marker.phase \notin Awaiting
      /\ MyMarker /\ marker.phase \in Awaiting /\ ~ rbFailed =>
            \/ disk[0] # "quiesced"
            \/ \E k \in Actions : Mutates(k) /\ Kind(k) = "plugin_api" /\ disk[k] = "orig"

(* At most one failure, nothing half done, nobody else at work, and a         *)
(* loader.json that is not compared or that Decky can reproduce.              *)
Clean == /\ faults <= 1 /\ ~ torn /\ edits = {}
         /\ 0 \in Tracked => plan.loader = "canonical" /\ Guarded

(* Then every slot holds what the list says, and a rollback has its failure   *)
(* behind it.                                                                 *)
CleanSoFar ==
    Clean =>
      /\ pc \in PreMarker \cup Quiescing \cup Converging \cup Committing =>
            \A k \in Actions : Kind(k) # "loader" =>
               disk[k] = IF k \in applied THEN "want" ELSE "orig"
      /\ pc \in {"restart", "mark_quiesced", "mark_plugins"} => disk[0] = "quiesced"
      /\ pc \in {"plugins", "sync", "settle"} /\ Refresh => disk[0] = "quiesced"
      /\ pc \in Settled => \A k \in Actions : Kind(k) = "loader" =>
            disk[0] = IF k \in applied THEN "want" ELSE "orig"
      /\ pc = "undo" =>
            /\ \A k \in applied : k <= i => disk[Slot(k)] = "want"
            /\ \A k \in Actions : Kind(k) # "loader" /\ (k \notin applied \/ k > i) => disk[k] = "orig"
      /\ pc \in Undoing \ {"undo"} => \A k \in Actions : Kind(k) # "loader" => disk[k] = "orig"
      /\ pc = "reverify" /\ 0 \in Tracked => disk[0] = "orig"
      /\ pc \in Undoing \cup {"unquiesce", "close"} => faults = 1
      /\ pc \notin Finished => ~ rbFailed

RunInv == /\ ListedInOrder /\ DisabledWhileItChanges /\ ListedIsAllThatChanged
          /\ SteamHeld /\ ListIsBack /\ CleanSoFar

-----------------------------------------------------------------------------
(* What the documentation and the comments say and the code does not do. *)

(* "RestoreOriginal is the only bounded recovery path for the temporary        *)
(* disabled-plugin state" and wrappers "stay disabled until the final          *)
(* controlled refresh": once a restore is complete, that state is gone.        *)
PluginsReenabled ==
    status = "awaiting_post_boot_verification" /\ marker = NoMarker /\ edits = {}
        => running = "live"

=============================================================================
