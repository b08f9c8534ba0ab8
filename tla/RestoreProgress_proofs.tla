------------------------ MODULE RestoreProgress_proofs ------------------------
(***************************************************************************)
(* More theorems about RestoreTransaction, again for every set of          *)
(* well-formed plans and every bound.  RunInv says what a living run has    *)
(* done so far: which actions it listed as done, that the refreshed list    *)
(* keeps the plugins disabled, that Steam is held, what the rollback has    *)
(* left to put back.  It is inductive beside IInv, conjunct by conjunct,    *)
(* and the properties follow.  Termination needs no fairness: each step of  *)
(* the run lowers Left and nothing raises it.                               *)
(***************************************************************************)
EXTENDS RestoreTransaction_proofs

(* No step changes the plan, and every step is one of these actions.          *)
LEMMA PlanStays == [Next]_vars => plan' = plan
PROOF
  BY DEF Next, RunStep, EnvStep, Prepare, Quiesce, Converge, Finish, Undo, vars,
     Begin, Recover, Save, SetDisabled, RestartDisabled, MarkQuiesced, MarkPlugins, MarkAt,
     SkipUnchanged, PluginRefused, PluginTorn, PluginApplied, Synchronize, PluginsDone,
     SettleLoader, QuiesceSteam, MarkSteam, MarkFiles, FileRefused, FileTorn, FileApplied,
     FilesDone, VerifyConverged, MarkVerified, MarkReboot, RequestReboot, Succeed,
     UndoSkips, UndoOne, UndoFails, UndoDone, UndoLoader, RestoreOriginal, Reverify, Close,
     Crash, Edit, Reboot, PendingNote, PendingRetire

(* What is listed as done comes before the point the run has reached, group   *)
(* by group.                                                                  *)
LEMMA ListedStep == TypeOK /\ ListedInOrder /\ [Next]_vars => ListedInOrder'
PROOF
<1> SUFFICES ASSUME TypeOK, ListedInOrder, [Next]_vars PROVE ListedInOrder'
  OBVIOUS
<1>0. plan' = plan
  BY PlanStays
<1>00. /\ Len(plan.actions) \in Nat /\ Actions = 1 .. Len(plan.actions)
       /\ applied \subseteq Actions /\ i \in 0 .. Len(plan.actions) + 1
  BY PlanFacts DEF TypeOK
<1> USE <1>0, <1>00 DEF ListedInOrder, PreMarker, Quiescing, Converging, Mutates, Op, Kind,
         Goto, Return, StartLoop, RollBack, Advance, ListedThen
<1>1. CASE Begin \/ Recover \/ Save
  BY <1>1 DEF Begin, Recover, Save, Actions
<1>2. CASE SetDisabled \/ RestartDisabled \/ MarkQuiesced \/ MarkPlugins
  BY <1>2 DEF SetDisabled, RestartDisabled, MarkQuiesced, MarkPlugins, MarkAt, Actions
<1>3. CASE SkipUnchanged
  BY <1>3 DEF SkipUnchanged, Group, Actions
<1>4. CASE PluginRefused \/ PluginTorn
  BY <1>4 DEF PluginRefused, PluginTorn, AtPlugin
<1>5. CASE PluginApplied
  BY <1>5 DEF PluginApplied, AtPlugin, Actions
<1>6. CASE Synchronize
  BY <1>6 DEF Synchronize, Actions
<1>7. CASE PluginsDone \/ SettleLoader \/ QuiesceSteam \/ MarkSteam \/ MarkFiles
  BY <1>7 DEF PluginsDone, SettleLoader, QuiesceSteam, MarkSteam, MarkFiles, MarkAt, Actions
<1>8. CASE FileRefused \/ FileTorn
  BY <1>8 DEF FileRefused, FileTorn, AtFile
<1>9. CASE FileApplied
  BY <1>9 DEF FileApplied, AtFile, Actions
<1>10. CASE FilesDone
  BY <1>10 DEF FilesDone, Actions
<1>11. CASE Finish
  BY <1>11 DEF Finish, VerifyConverged, MarkVerified, MarkReboot, MarkAt, RequestReboot, Succeed, Actions
<1>12. CASE Undo
  BY <1>12 DEF Undo, UndoSkips, UndoOne, UndoFails, UndoDone, UndoLoader, AfterLoader, AtUndo, UndoneThen,
               RestoreOriginal, Reverify, Close
<1>13. CASE EnvStep
  BY <1>13 DEF EnvStep, Crash, Edit, Reboot, PendingNote, PendingRetire, Ended, run, Finished, Actions
<1>14. CASE UNCHANGED vars
  BY <1>14 DEF vars, run, Actions
<1> QED
  BY <1>1, <1>2, <1>3, <1>4, <1>5, <1>6, <1>7, <1>8, <1>9, <1>10, <1>11, <1>12, <1>13, <1>14
  DEF Next, RunStep, Prepare, Quiesce, Converge

(* The plugins stay disabled from the quiescence to the settlement of the     *)
(* list, and again in the rollback.                                           *)
LEMMA DisabledStep == TypeOK /\ DisabledWhileItChanges /\ [Next]_vars => DisabledWhileItChanges'
PROOF
<1> SUFFICES ASSUME TypeOK, DisabledWhileItChanges, [Next]_vars PROVE DisabledWhileItChanges'
  OBVIOUS
<1>0. plan' = plan
  BY PlanStays
<1>00. Refresh' <=> Refresh
  BY <1>0, PlanIsFixed
<1> USE <1>0, <1>00 DEF DisabledWhileItChanges, PreMarker, Quiescing, Converging, Committing, Undoing,
         Finished, live, Goto, Return, StartLoop, RollBack, Advance, ListedThen
<1>1. CASE Prepare
  BY <1>1 DEF Prepare, Begin, Recover, Save
<1>2. CASE Quiesce
  BY <1>2 DEF Quiesce, SetDisabled, RestartDisabled, MarkQuiesced, MarkPlugins, MarkAt, Started
<1>3. CASE Converge
  BY <1>3 DEF Converge, SkipUnchanged, PluginRefused, PluginTorn, PluginApplied, AtPlugin, Synchronize,
              PluginsDone, SettleLoader, QuiesceSteam, MarkSteam, MarkFiles, MarkAt,
              FileRefused, FileTorn, FileApplied, AtFile, FilesDone
<1>4. CASE Finish
  BY <1>4 DEF Finish, VerifyConverged, MarkVerified, MarkReboot, MarkAt, RequestReboot, Succeed
<1>5. CASE Undo
  BY <1>5 DEF Undo, UndoSkips, UndoOne, UndoFails, UndoDone, UndoLoader, AfterLoader, AtUndo, UndoneThen,
              RestoreOriginal, Reverify, Close
<1>6. CASE EnvStep
  BY <1>6 DEF EnvStep, Crash, Edit, Reboot, PendingNote, PendingRetire, Ended, run
<1>7. CASE UNCHANGED vars
  BY <1>7 DEF vars, run
<1> QED
  BY <1>1, <1>2, <1>3, <1>4, <1>5, <1>6, <1>7 DEF Next, RunStep

(* Steam, once stopped, is not started while the run lives.                   *)
LEMMA SteamStep == TypeOK /\ ListedInOrder /\ SteamHeld /\ [Next]_vars => SteamHeld'
PROOF
<1> SUFFICES ASSUME TypeOK, ListedInOrder, SteamHeld, [Next]_vars PROVE SteamHeld'
  OBVIOUS
<1>0. plan' = plan
  BY PlanStays
<1>00. /\ MutatesSteam' <=> MutatesSteam
       /\ \A k \in Actions : Mutates(k) /\ Kind(k) = "steam" => MutatesSteam
       /\ MutatesSteam => Refresh
  BY <1>0 DEF MutatesSteam, Mutates, Op, Kind, Actions, Refresh
<1> USE <1>0, <1>00 DEF SteamHeld, PreMarker, Quiescing, Converging, Committing, Undoing,
         Finished, live, Goto, Return, StartLoop, RollBack, Advance, ListedThen, Kind
<1>1. CASE Prepare
  BY <1>1 DEF Prepare, Begin, Recover, Save, ListedInOrder
<1>2. CASE Quiesce
  BY <1>2 DEF Quiesce, SetDisabled, RestartDisabled, MarkQuiesced, MarkPlugins, MarkAt, ListedInOrder
<1>3. CASE Converge
  <2>1. CASE PluginRefused \/ PluginTorn \/ PluginApplied
    BY <1>3, <2>1 DEF PluginRefused, PluginTorn, PluginApplied, AtPlugin, Group, PluginKinds
  <2>2. CASE FileRefused \/ FileTorn \/ FileApplied
    BY <1>3, <2>2 DEF FileRefused, FileTorn, FileApplied, AtFile
  <2>3. CASE SkipUnchanged \/ Synchronize \/ PluginsDone \/ SettleLoader
    BY <1>3, <2>3 DEF SkipUnchanged, Synchronize, PluginsDone, SettleLoader
  <2>4. CASE QuiesceSteam \/ MarkSteam \/ MarkFiles \/ FilesDone
    BY <1>3, <2>4 DEF QuiesceSteam, MarkSteam, MarkFiles, MarkAt, FilesDone
  <2> QED
    BY <1>3, <2>1, <2>2, <2>3, <2>4 DEF Converge
<1>4. CASE Finish
  BY <1>4 DEF Finish, VerifyConverged, MarkVerified, MarkReboot, MarkAt, RequestReboot, Succeed
<1>5. CASE Undo
  BY <1>5 DEF Undo, UndoSkips, UndoOne, UndoFails, UndoDone, UndoLoader, AfterLoader, AtUndo, UndoneThen,
              RestoreOriginal, Reverify, Close
<1>6. CASE EnvStep
  BY <1>6 DEF EnvStep, Crash, Edit, Reboot, PendingNote, PendingRetire, Ended, run
<1>7. CASE UNCHANGED vars
  BY <1>7 DEF vars, run
<1> QED
  BY <1>1, <1>2, <1>3, <1>4, <1>5, <1>6, <1>7 DEF Next, RunStep

(* A step that changes artwork, other than the owner's, finds Steam stopped.  *)
LEMMA ArtworkStep == TypeOK /\ ListedInOrder /\ SteamHeld /\ [Next]_vars =>
    \A k \in Actions : Kind(k) = "steam" /\ disk'[k] # disk[k] /\ k \notin edits' => steam = "stopped"
PROOF
<1> SUFFICES ASSUME TypeOK, ListedInOrder, SteamHeld, [Next]_vars, NEW k \in Actions,
                    Kind(k) = "steam", disk'[k] # disk[k], k \notin edits'
             PROVE  steam = "stopped"
  OBVIOUS
<1>0. k \in DOMAIN disk /\ k # 0 /\ disk' # disk
  BY PlanFacts DEF TypeOK
<1>00. Mutates(k) => MutatesSteam
  BY DEF MutatesSteam
<1> USE <1>0, <1>00 DEF SteamHeld, Finished, live
<1>1. CASE Converge
  BY <1>1 DEF Converge, SkipUnchanged, PluginRefused, PluginTorn, PluginApplied, AtPlugin, KeptDisabled, Synchronize,
              PluginsDone, SettleLoader, QuiesceSteam, MarkSteam, MarkFiles, MarkAt,
              FileRefused, FileTorn, FileApplied, AtFile, Writes, Slot, FilesDone, Group, PluginKinds
<1>2. CASE Undo
  <2>1. CASE UndoOne
    BY <1>2, <2>1 DEF UndoOne, AtUndo, DeckyRewrote, Slot
  <2>2. CASE UndoFails
    <3>1. \E value : disk' \in DeckyRewrote([disk EXCEPT ![Slot(i)] = value], i)
      BY <2>2 DEF UndoFails
    <3>2. k = i
      BY <3>1 DEF DeckyRewrote, Slot
    <3> QED
      BY <2>2, <3>2 DEF UndoFails, AtUndo
  <2>3. CASE RestoreOriginal \/ UndoLoader
    BY <2>3 DEF RestoreOriginal, UndoLoader
  <2> QED
    BY <1>2, <2>1, <2>2, <2>3 DEF Undo, UndoSkips, UndoDone, Reverify, Close
<1>3. CASE Prepare \/ Quiesce \/ Finish
  BY <1>3 DEF Prepare, Begin, Recover, Save,
              Quiesce, SetDisabled, RestartDisabled, MarkQuiesced, MarkPlugins, MarkAt,
              Finish, VerifyConverged, MarkVerified, MarkReboot, RequestReboot, Succeed
<1>4. CASE EnvStep
  BY <1>4 DEF EnvStep, Crash, Edit, Reboot, PendingNote, PendingRetire
<1>5. CASE UNCHANGED vars
  BY <1>5 DEF vars
<1> QED
  BY <1>1, <1>2, <1>3, <1>4, <1>5 DEF Next, RunStep

(* Beyond what is listed nothing differs from before, and a rollback that has *)
(* not failed leaves nothing behind it that does.                             *)
LEMMA RolledBackStep ==
    IInv /\ ListedInOrder /\ ListedIsAllThatChanged /\ [Next]_vars => ListedIsAllThatChanged'
PROOF
<1> SUFFICES ASSUME IInv, ListedInOrder, ListedIsAllThatChanged, [Next]_vars
             PROVE  ListedIsAllThatChanged'
  OBVIOUS
<1>0. /\ plan' = plan /\ Targets' = Targets
      /\ pc \in PreMarker \cup Quiescing => Old
      /\ Len(plan.actions) \in Nat /\ i \in 0 .. Len(plan.actions) + 1
      /\ torn \in BOOLEAN /\ disk \in [0 .. Len(plan.actions) -> Contents]
  BY PlanStays, PlanFacts, PlanIsFixed DEF IInv, TypeOK, NothingChangedYet
<1>00. \A k \in Targets : k \in DOMAIN disk /\ k \in 1 .. Len(plan.actions) /\ Kind(k) # "loader"
  BY PlanFacts DEF IInv, TypeOK, Targets
<1> USE <1>0, <1>00 DEF ListedIsAllThatChanged, Old, Untouched, PreMarker, Quiescing, Converging,
         Committing, Undoing, Goto, Return, StartLoop, RollBack, Advance, ListedThen
<1>1. CASE Prepare
  BY <1>1 DEF Prepare, Begin, Recover, Save
<1>2. CASE Quiesce
  BY <1>2 DEF Quiesce, SetDisabled, RestartDisabled, MarkQuiesced, MarkPlugins, MarkAt
<1>3. CASE Converge
  <2>1. CASE PluginRefused \/ PluginTorn \/ PluginApplied
    BY <1>3, <2>1 DEF PluginRefused, PluginTorn, PluginApplied, AtPlugin, KeptDisabled
  <2>2. CASE FileRefused \/ FileTorn \/ FileApplied
    BY <1>3, <2>2 DEF FileRefused, FileTorn, FileApplied, AtFile, Writes, Slot
  <2>3. CASE SkipUnchanged \/ Synchronize \/ PluginsDone \/ SettleLoader
    BY <1>3, <2>3 DEF SkipUnchanged, Synchronize, PluginsDone, SettleLoader
  <2>4. CASE QuiesceSteam \/ MarkSteam \/ MarkFiles \/ FilesDone
    BY <1>3, <2>4 DEF QuiesceSteam, MarkSteam, MarkFiles, MarkAt, FilesDone
  <2> QED
    BY <1>3, <2>1, <2>2, <2>3, <2>4 DEF Converge
<1>4. CASE Finish
  BY <1>4 DEF Finish, VerifyConverged, MarkVerified, MarkReboot, MarkAt, RequestReboot, Succeed
<1>5. CASE Undo
  <2>1. CASE UndoOne
    <3>1. /\ pc = "undo" /\ pc' = "undo" /\ i' = i - 1 /\ applied' = applied /\ torn' = torn
      BY <2>1 DEF UndoOne, AtUndo, UndoneThen
    <3>2. ASSUME NEW k \in Targets PROVE disk'[k] = IF k = i THEN "orig" ELSE disk[k]
      BY <2>1 DEF UndoOne, DeckyRewrote, Slot
    <3>3. ~ rbFailed' => ~ rbFailed
      BY <2>1 DEF UndoOne, UndoneThen
    <3> QED
      BY <3>1, <3>2, <3>3
  <2>2. CASE UndoFails
    BY <1>5, <2>2 DEF UndoFails, AtUndo, UndoneThen
  <2>3. CASE UndoSkips
    <3>1. /\ pc = "undo" /\ pc' = "undo" /\ i' = i - 1 /\ applied' = applied /\ torn' = torn
          /\ disk' = disk
      BY <2>3 DEF UndoSkips, UndoneThen
    <3>2. ASSUME NEW k \in Targets, k = i, k \in applied PROVE disk[k] = "orig"
      BY <2>3, <3>2 DEF UndoSkips, AlreadyOld, Slot
    <3>3. ~ rbFailed' => ~ rbFailed
      BY <2>3 DEF UndoSkips, UndoneThen
    <3> QED
      BY <3>1, <3>2, <3>3
  <2>4. CASE UndoDone
    BY <2>4 DEF UndoDone
  <2>5. CASE RestoreOriginal \/ UndoLoader
    BY <2>5 DEF RestoreOriginal, UndoLoader, AfterLoader
  <2>6. CASE Reverify \/ Close
    BY <2>6 DEF Reverify, Close
  <2> QED
    BY <1>5, <2>1, <2>2, <2>3, <2>4, <2>5, <2>6 DEF Undo
<1>6. CASE EnvStep
  BY <1>6 DEF EnvStep, Crash, Edit, Reboot, PendingNote, PendingRetire, Ended, Finished, run
<1>7. CASE UNCHANGED vars
  BY <1>7 DEF vars, run
<1> QED
  BY <1>1, <1>2, <1>3, <1>4, <1>5, <1>6, <1>7 DEF Next, RunStep

(* Decky's temporary list is gone from disk before the run records that it    *)
(* awaits a reboot, and before it ends well.                                  *)
LEMMA ListStep ==
    IInv /\ ListedInOrder /\ ListIsBack /\ [Next]_vars => ListIsBack'
PROOF
<1> SUFFICES ASSUME IInv, ListedInOrder, ListIsBack, Guarded, [Next]_vars
             PROVE  ListIsBack'
  BY PlanStays DEF ListIsBack, Guarded, Mutates, Op, Kind, Actions
<1>0. /\ plan' = plan
      /\ Len(plan.actions) \in Nat /\ i \in 0 .. Len(plan.actions) + 1
      /\ disk \in [0 .. Len(plan.actions) -> Contents] /\ 0 \in DOMAIN disk
      /\ Refresh /\ 0 \in Tracked /\ applied \subseteq Actions
      /\ pc \notin Finished /\ MyMarker => marker.boot = boot
      /\ rbFailed \in BOOLEAN
  BY PlanStays, PlanFacts DEF IInv, TypeOK, MarkerOfThisBoot, Guarded, Refresh, Tracked
<1>00. /\ Actions \subseteq DOMAIN disk /\ 0 \notin Actions
       /\ \A k \in applied : Mutates(k)
       /\ OriginalList # "quiesced"
  BY <1>0, PlanFacts DEF IInv, ListedInOrder, OriginalList
<1> DEFINE Back(d) == \E k \in Actions : Mutates(k) /\ Kind(k) = "plugin_api" /\ d[k] = "orig"
<1>a. SUFFICES
        /\ pc' \in Settled => disk'[0] # "quiesced"
        /\ pc' = "close" /\ ~ rbFailed' => disk'[0] # "quiesced"
        /\ pc' \in PreMarker \cup Quiescing \cup {"plugins", "sync", "settle"} /\ MyMarker'
              => marker'.phase \notin Awaiting
        /\ MyMarker' /\ marker'.phase \in Awaiting /\ ~ rbFailed' => disk'[0] # "quiesced" \/ Back(disk')
  BY <1>0 DEF ListIsBack, Mutates, Op, Kind, Actions
<1>b. /\ pc \in Settled => disk[0] # "quiesced"
      /\ pc = "close" /\ ~ rbFailed => disk[0] # "quiesced"
      /\ pc \in PreMarker \cup Quiescing \cup {"plugins", "sync", "settle"} /\ MyMarker
            => marker.phase \notin Awaiting
      /\ MyMarker /\ marker.phase \in Awaiting /\ ~ rbFailed => disk[0] # "quiesced" \/ Back(disk)
  BY DEF ListIsBack
<1> USE <1>0, <1>00, <1>b DEF Settled, Awaiting, MyMarker, PreMarker, Quiescing, Converging,
         Committing, Undoing, Finished, Goto, Return, StartLoop, RollBack, Advance, ListedThen
<1> HIDE DEF Back
<1>1. CASE Prepare
  BY <1>1 DEF Prepare, Begin, Recover, Save
<1>2. CASE Quiesce
  BY <1>2 DEF Quiesce, SetDisabled, RestartDisabled, MarkQuiesced, MarkPlugins, MarkAt, InPhase, AfterFailedUpdate
<1>3. CASE Converge
  <2>1. CASE PluginRefused \/ PluginTorn \/ PluginApplied
    BY <1>3, <2>1 DEF PluginRefused, PluginTorn, PluginApplied, AtPlugin, KeptDisabled
  <2>2. CASE FileRefused \/ FileTorn \/ FileApplied
    BY <1>3, <2>2 DEF FileRefused, FileTorn, FileApplied, AtFile, Writes, Slot
  <2>3. CASE SkipUnchanged \/ Synchronize \/ PluginsDone \/ SettleLoader
    BY <1>3, <2>3 DEF SkipUnchanged, Synchronize, PluginsDone, SettleLoader, InPhase
  <2>4. CASE QuiesceSteam \/ MarkSteam \/ MarkFiles \/ FilesDone
    BY <1>3, <2>4 DEF QuiesceSteam, MarkSteam, MarkFiles, MarkAt, FilesDone, InPhase, AfterFailedUpdate
  <2> QED
    BY <1>3, <2>1, <2>2, <2>3, <2>4 DEF Converge
<1>4. CASE Finish
  BY <1>4 DEF Finish, VerifyConverged, MarkVerified, MarkReboot, MarkAt, RequestReboot, Succeed,
              InPhase, AfterFailedUpdate, NoMarker
<1>5. CASE Undo
  <2>1. CASE UndoOne
    BY <1>5, <2>1 DEF UndoOne, AtUndo, DeckyRewrote, Slot, UndoneThen, Back
  <2>2. CASE UndoFails
    BY <1>5, <2>2 DEF UndoFails, AtUndo, UndoneThen
  <2>3. CASE UndoSkips \/ UndoDone
    BY <2>3 DEF UndoSkips, UndoneThen, UndoDone
  <2>5. CASE RestoreOriginal \/ UndoLoader
    BY <2>5 DEF RestoreOriginal, UndoLoader, AfterLoader
  <2>6. CASE Reverify \/ Close
    BY <2>6 DEF Reverify, Close, Fresh, InPhase, AfterFailedUpdate, NoMarker
  <2> QED
    BY <1>5, <2>1, <2>2, <2>3, <2>5, <2>6 DEF Undo
<1>6. CASE EnvStep
  <2>1. CASE Edit
    BY <2>1 DEF Edit, Editable, Slot, Group, PluginKinds, run, Back
  <2>2. CASE PendingNote
    BY <2>2 DEF PendingNote, InPhase, AfterFailedUpdate, run
  <2> QED
    BY <1>6, <2>1, <2>2 DEF EnvStep, Crash, Reboot, PendingRetire, Ended, run, NoMarker
<1>7. CASE UNCHANGED vars
  BY <1>7 DEF vars, run
<1> QED
  BY <1>1, <1>2, <1>3, <1>4, <1>5, <1>6, <1>7 DEF Next, RunStep

(* A second failure, a half-done operation and a foreign change are for good.  *)
LEMMA CleanBefore == TypeOK /\ [Next]_vars /\ Clean' => Clean /\ (faults' # faults => faults = 0)
PROOF
<1> SUFFICES ASSUME TypeOK, [Next]_vars, Clean' PROVE Clean /\ (faults' # faults => faults = 0)
  OBVIOUS
<1>1. plan' = plan /\ faults \in Nat /\ torn \in BOOLEAN
  BY PlanStays DEF TypeOK
<1>2. Tracked' = Tracked /\ (Guarded' <=> Guarded)
  BY <1>1 DEF Tracked, Guarded, Mutates, Op, Kind, Slot, Actions
<1>3. faults' = faults \/ faults' = faults + 1
  BY DEF Next, RunStep, EnvStep, Prepare, Quiesce, Converge, Finish, Undo, vars, Fails, Works,
     Begin, Recover, Save, SetDisabled, RestartDisabled, MarkQuiesced, MarkPlugins, MarkAt,
     SkipUnchanged, PluginRefused, PluginTorn, PluginApplied, Synchronize, PluginsDone,
     SettleLoader, QuiesceSteam, MarkSteam, MarkFiles, FileRefused, FileTorn, FileApplied,
     FilesDone, VerifyConverged, MarkVerified, MarkReboot, RequestReboot, Succeed,
     UndoSkips, UndoOne, UndoFails, UndoDone, UndoLoader, RestoreOriginal, Reverify, Close,
     Crash, Edit, Reboot, PendingNote, PendingRetire
<1>4. torn => torn'
  BY <1>1 DEF Next, RunStep, EnvStep, Prepare, Quiesce, Converge, Finish, Undo, vars,
     Begin, Recover, Save, SetDisabled, RestartDisabled, MarkQuiesced, MarkPlugins, MarkAt,
     SkipUnchanged, PluginRefused, PluginTorn, PluginApplied, Synchronize, PluginsDone,
     SettleLoader, QuiesceSteam, MarkSteam, MarkFiles, FileRefused, FileTorn, FileApplied,
     FilesDone, VerifyConverged, MarkVerified, MarkReboot, RequestReboot, Succeed,
     UndoSkips, UndoOne, UndoFails, UndoDone, UndoLoader, RestoreOriginal, Reverify, Close,
     Crash, Edit, Reboot, PendingNote, PendingRetire
<1>5. edits \subseteq edits'
  BY DEF Next, RunStep, EnvStep, Prepare, Quiesce, Converge, Finish, Undo, vars, env,
     Begin, Recover, Save, SetDisabled, RestartDisabled, MarkQuiesced, MarkPlugins, MarkAt,
     SkipUnchanged, PluginRefused, PluginTorn, PluginApplied, Synchronize, PluginsDone,
     SettleLoader, QuiesceSteam, MarkSteam, MarkFiles, FileRefused, FileTorn, FileApplied,
     FilesDone, VerifyConverged, MarkVerified, MarkReboot, RequestReboot, Succeed,
     UndoSkips, UndoOne, UndoFails, UndoDone, UndoLoader, RestoreOriginal, Reverify, Close,
     Crash, Edit, Reboot, PendingNote, PendingRetire
<1> QED
  BY <1>1, <1>2, <1>3, <1>4, <1>5 DEF Clean

(* With one failure at most, nothing torn and nothing changed by others, the  *)
(* disk is exactly what the list of actions says.                             *)
LEMMA CleanStep ==
    IInv /\ ListedInOrder /\ DisabledWhileItChanges /\ CleanSoFar /\ [Next]_vars => CleanSoFar'
PROOF
<1> SUFFICES ASSUME IInv, ListedInOrder, DisabledWhileItChanges, CleanSoFar, [Next]_vars, Clean'
             PROVE  CleanSoFar'
  BY DEF CleanSoFar
<1>1. /\ plan' = plan /\ Clean /\ (faults' # faults => faults = 0) /\ ~ torn' /\ faults' <= 1
      /\ faults \in Nat /\ edits' = {}
  BY PlanStays, CleanBefore DEF IInv, TypeOK, Clean
<1>2. /\ Len(plan.actions) \in Nat /\ i \in 0 .. Len(plan.actions) + 1
      /\ Actions = 1 .. Len(plan.actions) /\ applied \subseteq Actions
      /\ disk \in [0 .. Len(plan.actions) -> Contents] /\ rbFailed \in BOOLEAN
  BY PlanFacts DEF IInv, TypeOK
<1>3. \A k \in Actions : Kind(k) = "loader" => 0 \in Tracked
  BY DEF Tracked, Slot
<1>4. 0 \in Tracked => Guarded /\ OriginalList = "orig"
  BY <1>1 DEF Clean, OriginalList
<1>5. Guarded => Refresh
  BY DEF Guarded, Refresh
<1>6. \A j, k \in Actions : Kind(j) = "loader" /\ Kind(k) = "loader" => j = k
  BY <1>2, PlansAssumption DEF IInv, TypeOK, WellFormed, Kind, Actions
<1>7. \A j, k \in Actions : Kind(j) = "loader" /\ Group(Kind(k)) = 1 => k < j
  <2> SUFFICES ASSUME NEW j \in Actions, NEW k \in Actions, Kind(j) = "loader", Group(Kind(k)) = 1
               PROVE  k < j
    OBVIOUS
  <2>1. Group(Kind(j)) = 2
    BY DEF Group, PluginKinds, FileKinds
  <2>2. j < k => Group(Kind(j)) <= Group(Kind(k))
    BY PlansAssumption DEF IInv, TypeOK, WellFormed, Kind, Actions
  <2> QED
    BY <1>2, <2>1, <2>2
<1>8. Group("plugin_api") = 1 /\ Group("loader") = 2
  BY DEF Group, PluginKinds, FileKinds
<1>9. SUFFICES
        /\ pc' \in PreMarker \cup Quiescing \cup Converging \cup Committing =>
              \A k \in Actions : Kind(k) # "loader" =>
                 disk'[k] = IF k \in applied' THEN "want" ELSE "orig"
        /\ pc' \in {"restart", "mark_quiesced", "mark_plugins"} => disk'[0] = "quiesced"
        /\ pc' \in {"plugins", "sync", "settle"} /\ Refresh => disk'[0] = "quiesced"
        /\ pc' \in Settled => \A k \in Actions : Kind(k) = "loader" =>
              disk'[0] = IF k \in applied' THEN "want" ELSE "orig"
        /\ pc' = "undo" =>
              /\ \A k \in applied' : k <= i' => disk'[Slot(k)] = "want"
              /\ \A k \in Actions : Kind(k) # "loader" /\ (k \notin applied' \/ k > i') => disk'[k] = "orig"
        /\ pc' \in Undoing \ {"undo"} => \A k \in Actions : Kind(k) # "loader" => disk'[k] = "orig"
        /\ pc' = "reverify" /\ 0 \in Tracked => disk'[0] = "orig"
        /\ pc' \in Undoing \cup {"unquiesce", "close"} => faults' = 1
        /\ pc' \notin Finished => ~ rbFailed'
  BY <1>1 DEF CleanSoFar, Tracked, Guarded, Refresh, Mutates, Op, Kind, Slot, Actions
<1>10. /\ pc \in PreMarker \cup Quiescing \cup Converging \cup Committing =>
             \A k \in Actions : Kind(k) # "loader" =>
                disk[k] = IF k \in applied THEN "want" ELSE "orig"
       /\ pc \in {"restart", "mark_quiesced", "mark_plugins"} => disk[0] = "quiesced"
       /\ pc \in {"plugins", "sync", "settle"} /\ Refresh => disk[0] = "quiesced"
       /\ pc \in Settled => \A k \in Actions : Kind(k) = "loader" =>
             disk[0] = IF k \in applied THEN "want" ELSE "orig"
       /\ pc = "undo" =>
             /\ \A k \in applied : k <= i => disk[Slot(k)] = "want"
             /\ \A k \in Actions : Kind(k) # "loader" /\ (k \notin applied \/ k > i) => disk[k] = "orig"
       /\ pc \in Undoing \ {"undo"} => \A k \in Actions : Kind(k) # "loader" => disk[k] = "orig"
       /\ pc = "reverify" /\ 0 \in Tracked => disk[0] = "orig"
       /\ pc \in Undoing \cup {"unquiesce", "close"} => faults = 1
       /\ pc \notin Finished => ~ rbFailed
  BY <1>1 DEF CleanSoFar
<1>11. \A k \in Actions : Slot(k) = IF Kind(k) = "loader" THEN 0 ELSE k
  BY DEF Slot
<1>12. /\ pc \in PreMarker \cup Quiescing => applied = {}
       /\ pc \in {"plugins", "sync", "settle"} => \A k \in applied : Group(Kind(k)) = 1
       /\ pc \in Converging => \A k \in applied : k < i \/ (pc = "sync" /\ k = i)
       /\ pc = "sync" => i \in applied /\ Mutates(i) /\ Kind(i) = "plugin_api"
       /\ pc = "verify" => \A k \in Actions : Mutates(k) <=> k \in applied
  BY DEF IInv, TypeOK, ListedInOrder
<1> USE <1>1, <1>2, <1>3, <1>4, <1>5, <1>6, <1>7, <1>8, <1>10, <1>11, <1>12
    DEF Settled, PreMarker, Quiescing, Converging, Committing, Undoing, Finished,
        Goto, Return, StartLoop, RollBack, Advance, ListedThen, Fails, Works
<1>13. ASSUME pc \in Settled, RollBack, disk' = disk, faults' = 1
       PROVE  /\ pc' = "undo" /\ i' = Len(plan.actions) /\ ~ rbFailed'
              /\ \A k \in applied' : k <= i' => disk'[Slot(k)] = "want"
              /\ \A k \in Actions : Kind(k) # "loader" /\ (k \notin applied' \/ k > i') => disk'[k] = "orig"
  <2>1. pc' = "undo" /\ i' = Len(plan.actions) /\ ~ rbFailed' /\ applied' = applied
    BY <1>13
  <2>2. \A k \in applied : disk[Slot(k)] = "want"
    BY <1>13
  <2>3. \A k \in Actions : Kind(k) # "loader" /\ (k \notin applied \/ k > i') => disk[k] = "orig"
    BY <1>13, <2>1
  <2> QED
    BY <1>13, <2>1, <2>2, <2>3
<1>14. Fails => faults' = 1
  OBVIOUS
<1>15. CASE Prepare
  BY <1>15 DEF Prepare, Begin, Recover, Save
<1>16. CASE Quiesce
  <2>1. CASE SetDisabled
    BY <2>1 DEF SetDisabled
  <2>2. CASE RestartDisabled
    BY <2>2 DEF RestartDisabled
  <2>3. CASE MarkQuiesced
    BY <2>3 DEF MarkQuiesced, MarkAt
  <2>4. CASE MarkPlugins
    BY <2>4 DEF MarkPlugins, MarkAt
  <2> QED
    BY <1>16, <2>1, <2>2, <2>3, <2>4 DEF Quiesce
<1>17. CASE Converge
  <2>1. CASE PluginRefused
    BY <2>1 DEF PluginRefused, AtPlugin, KeptDisabled
  <2>2. CASE PluginTorn \/ FileTorn
    BY <2>2 DEF PluginTorn, FileTorn
  <2>3. CASE PluginApplied
    BY <2>3 DEF PluginApplied, AtPlugin, KeptDisabled
  <2>4. CASE SkipUnchanged
    BY <2>4 DEF SkipUnchanged
  <2>5. CASE Synchronize
    <3>1. pc = "sync" => Refresh
      BY DEF Guarded
    <3>2. pc = "sync" => disk[0] = "quiesced" /\ running = "disabled"
      BY <3>1 DEF DisabledWhileItChanges
    <3>3. CASE Advance("plugins")
      BY <2>5, <3>1, <3>2, <3>3 DEF Synchronize
    <3>4. CASE RollBack
      <4>1. pc = "sync" /\ Fails /\ disk' = disk
        BY <2>5, <3>2, <3>4 DEF Synchronize
      <4>2. \A k \in applied : Kind(k) # "loader" /\ Slot(k) = k
        BY <4>1
      <4> QED
        BY <1>14, <3>4, <4>1, <4>2
    <3> QED
      BY <2>5, <3>3, <3>4 DEF Synchronize
  <2>6. CASE PluginsDone
    BY <2>6 DEF PluginsDone
  <2>7. CASE SettleLoader
    BY <2>7 DEF SettleLoader
  <2>8. CASE QuiesceSteam \/ FilesDone
    BY <2>8, <1>13, <1>14 DEF QuiesceSteam, FilesDone
  <2>11. CASE MarkSteam \/ MarkFiles
    BY <2>11, <1>13, <1>14 DEF MarkSteam, MarkFiles, MarkAt
  <2>9. CASE FileRefused
    BY <2>9 DEF FileRefused, AtFile
  <2>10. CASE FileApplied
    BY <2>10 DEF FileApplied, AtFile, Writes
  <2> QED
    BY <1>17, <2>1, <2>2, <2>3, <2>4, <2>5, <2>6, <2>7, <2>8, <2>9, <2>10, <2>11 DEF Converge
<1>18. CASE Finish
  <2>1. CASE VerifyConverged
    <3>1. pc = "verify" => Converged
      BY DEF Converged
    <3> QED
      BY <1>13, <1>14, <2>1, <3>1 DEF VerifyConverged
  <2>2. CASE MarkVerified \/ MarkReboot
    BY <1>13, <1>14, <2>2 DEF MarkVerified, MarkReboot, MarkAt
  <2>3. CASE RequestReboot \/ Succeed
    BY <2>3 DEF RequestReboot, Succeed
  <2> QED
    BY <1>18, <2>1, <2>2, <2>3 DEF Finish
<1>19. CASE Undo
  <2>1. CASE UndoOne
    BY <2>1 DEF UndoOne, AtUndo, DeckyRewrote, UndoneThen
  <2>2. CASE UndoFails
    BY <2>2 DEF UndoFails, AtUndo, UndoneThen, Undoable
  <2>3. CASE UndoSkips
    BY <2>3 DEF UndoSkips, UndoneThen, AlreadyOld
  <2>4. CASE UndoDone
    BY <2>4 DEF UndoDone
  <2>5. CASE UndoLoader
    BY <2>5 DEF UndoLoader, AfterLoader
  <2>6. CASE RestoreOriginal
    BY <2>6 DEF RestoreOriginal
  <2>7. CASE Reverify
    BY <2>7 DEF Reverify, Fresh, Tracked
  <2>8. CASE Close
    BY <2>8 DEF Close
  <2> QED
    BY <1>19, <2>1, <2>2, <2>3, <2>4, <2>5, <2>6, <2>7, <2>8 DEF Undo
<1>20. CASE EnvStep
  <2>1. ~ Edit
    BY DEF Edit
  <2> QED
    BY <1>20, <2>1 DEF EnvStep, Crash, Reboot, PendingNote, PendingRetire, Ended, run,
                       IInv, MarkerOfThisBoot
<1>21. CASE UNCHANGED vars
  BY <1>21 DEF vars, run
<1> QED
  BY <1>15, <1>16, <1>17, <1>18, <1>19, <1>20, <1>21 DEF Next, RunStep

(* Every step keeps all of it.                                                *)
LEMMA RunStepKeeps == IInv /\ RunInv /\ [Next]_vars => RunInv'
PROOF
<1> SUFFICES ASSUME IInv, RunInv, [Next]_vars PROVE RunInv'
  OBVIOUS
<1>1. TypeOK
  BY DEF IInv
<1> QED
  BY <1>1, ListedStep, DisabledStep, SteamStep, RolledBackStep, ListStep, CleanStep DEF RunInv

(* A run starts with all of it.                                               *)
LEMMA RunInvInit == Init => RunInv
PROOF
<1> SUFFICES ASSUME Init PROVE RunInv
  OBVIOUS
<1>1. /\ pc = "start" /\ applied = {} /\ rbFailed = FALSE /\ ~ MyMarker
      /\ Len(plan.actions) \in Nat /\ Actions = 1 .. Len(plan.actions)
      /\ disk = [s \in 0 .. Len(plan.actions) |-> "orig"]
  BY TypeInit, PlanFacts, NoMarkerFacts DEF Init, MyMarker
<1> QED
  BY <1>1 DEF RunInv, ListedInOrder, DisabledWhileItChanges, ListedIsAllThatChanged, SteamHeld, ListIsBack,
     CleanSoFar, PreMarker, Quiescing, Converging, Committing, Undoing, Settled, Finished

(* A run that lives has all of RunInv, for every plan and every bound (run.go *)
(* 434-881).                                                                  *)
THEOREM RunInvariant == Spec => []RunInv
PROOF
<1> QED
  BY InvInit, InvStep, RunInvInit, RunStepKeeps, PTL DEF Spec

(* While the process lives, no plugin runs on half-restored files (run.go     *)
(* 655-658).                                                                  *)
THEOREM NoPluginOnAMixture == Spec => []MixtureMeansDisabled
PROOF
<1>1. IInv /\ RunInv => MixtureMeansDisabled
  <2> SUFFICES ASSUME IInv, RunInv, pc \notin Finished, Refresh, ~ Old, ~ New, ~ rbFailed, ~ torn
               PROVE  running = "disabled"
    BY DEF MixtureMeansDisabled
  <2>1. pc \notin PreMarker \cup Quiescing \cup Committing \cup {"close"}
    BY DEF IInv, NothingChangedYet, ConvergedWhenItCommits, UndoneWhenItCloses
  <2>2. pc \notin Undoing \ {"undo"}
    BY DEF RunInv, ListedIsAllThatChanged
  <2>3. pc \in Converging \cup {"undo"}
    BY <2>1, <2>2 DEF IInv, TypeOK, PCs
  <2> QED
    BY <2>3 DEF RunInv, DisabledWhileItChanges, Undoing, Converging
<1> QED
  BY <1>1, Invariant, RunInvariant, PTL

(* Artwork changes only while Steam is stopped, forwards and in a rollback    *)
(* (run.go 663-675).                                                          *)
THEOREM ArtworkOnlyWithoutSteam == Spec => SteamStoppedForArtwork
PROOF
<1> DEFINE Held == \A k \in Actions :
                      Kind(k) = "steam" /\ disk'[k] # disk[k] /\ k \notin edits' => steam = "stopped"
<1>1. IInv /\ RunInv /\ [Next]_vars => [Held]_vars
  BY ArtworkStep DEF IInv, RunInv
<1> QED
  BY <1>1, Invariant, RunInvariant, PTL DEF Spec, SteamStoppedForArtwork

(* After one clean failure no step reports a failed rollback: when the run    *)
(* closes its rollback went through.                                          *)
LEMMA CleanFailureStep ==
    IInv /\ RunInv /\ CleanFailureRollsBack /\ [Next]_vars => CleanFailureRollsBack'
PROOF
<1> SUFFICES ASSUME IInv, RunInv, CleanFailureRollsBack, [Next]_vars PROVE CleanFailureRollsBack'
  OBVIOUS
<1>0. TypeOK'
  BY TypeStep DEF IInv
<1> SUFFICES ASSUME Clean', status' = "rollback_failed" PROVE FALSE
  BY <1>0 DEF CleanFailureRollsBack, Clean, TypeOK
<1>1. Clean /\ (faults' # faults => faults = 0) /\ faults \in Nat
  BY CleanBefore DEF IInv, TypeOK
<1>2. status # "rollback_failed"
  BY <1>1 DEF CleanFailureRollsBack, Clean
<1>3. pc = "close" => faults = 1 /\ ~ rbFailed
  BY <1>1 DEF RunInv, CleanSoFar, Finished
<1>4. ~ Close
  BY <1>1, <1>2, <1>3 DEF Close, Return, Fails
<1> QED
  BY <1>2, <1>4 DEF Next, RunStep, EnvStep, Prepare, Quiesce, Converge, Finish, Undo, vars, run,
     Begin, Recover, Save, SetDisabled, RestartDisabled, MarkQuiesced, MarkPlugins, MarkAt,
     SkipUnchanged, PluginRefused, PluginTorn, PluginApplied, Synchronize, PluginsDone,
     SettleLoader, QuiesceSteam, MarkSteam, MarkFiles, FileRefused, FileTorn, FileApplied,
     FilesDone, VerifyConverged, MarkVerified, MarkReboot, RequestReboot, Succeed,
     UndoSkips, UndoOne, UndoFails, UndoDone, UndoLoader, RestoreOriginal, Reverify,
     Crash, Edit, Reboot, PendingNote, PendingRetire,
     Goto, Return, StartLoop, RollBack, Advance, ListedThen, UndoneThen

(* One clean failure is rolled back without a recovery (run.go 107-110 and    *)
(* 831-860): the report says rollback_failed only where something else        *)
(* happened as well.                                                          *)
THEOREM OneFailureRollsBack == Spec => []CleanFailureRollsBack
PROOF
<1>1. Init => CleanFailureRollsBack
  BY DEF Init, CleanFailureRollsBack
<1> QED
  BY <1>1, Invariant, RunInvariant, CleanFailureStep, PTL DEF Spec

(* The steps that retire the marker find the list put back, or the rollback   *)
(* failed.                                                                    *)
LEMMA GuardedListStep ==
    ASSUME ~ PowerCuts, IInv, RunInv, GuardedListIsRecorded, [Next]_vars
    PROVE  GuardedListIsRecorded'
PROOF
<1> SUFFICES ASSUME Guarded, marker' = NoMarker, ~ rbFailed', disk'[0] = "quiesced" PROVE FALSE
  BY PlanStays DEF GuardedListIsRecorded, Guarded, Mutates, Op, Kind, Actions
<1>1. /\ rbFailed \in BOOLEAN /\ 0 \in DOMAIN disk /\ Refresh
      /\ marker = NoMarker /\ ~ rbFailed => disk[0] # "quiesced"
      /\ pc \in Quiescing => marker # NoMarker
      /\ pc \in Converging \cup Undoing => marker # NoMarker
  BY PlanFacts, NoMarkerFacts DEF IInv, TypeOK, MarkedWhileItQuiesces, RecordedWhileItChanges,
     Recorded, MyMarker, Guarded, Refresh, GuardedListIsRecorded
<1>2. /\ pc = "succeed" \/ (pc = "close" /\ ~ rbFailed) => disk[0] # "quiesced"
      /\ MyMarker /\ marker.phase \in Awaiting /\ ~ rbFailed /\ Converged => disk[0] # "quiesced"
  BY DEF RunInv, ListIsBack, Settled, Committing, Converged, Slot
<1>3. ~ NoMarker.mine /\ NoMarker.phase = "none"
  BY DEF NoMarker
<1> USE <1>1, <1>2, <1>3 DEF PreMarker, Quiescing, Converging, Committing, Undoing, MyMarker,
     Goto, Return, StartLoop, RollBack, Advance, ListedThen
<1>4. CASE Prepare
  BY <1>4 DEF Prepare, Begin, Recover, Save
<1>5. CASE Quiesce
  BY <1>5 DEF Quiesce, SetDisabled, RestartDisabled, MarkQuiesced, MarkPlugins, MarkAt, InPhase, AfterFailedUpdate
<1>6. CASE Converge
  BY <1>6 DEF Converge, SkipUnchanged, PluginRefused, PluginTorn, PluginApplied, AtPlugin, Synchronize,
     PluginsDone, SettleLoader, QuiesceSteam, MarkSteam, MarkFiles, MarkAt, FileRefused, FileTorn,
     FileApplied, AtFile, FilesDone, InPhase, AfterFailedUpdate
<1>7. CASE Finish
  BY <1>7 DEF Finish, VerifyConverged, MarkVerified, MarkReboot, MarkAt, RequestReboot, Succeed, InPhase, AfterFailedUpdate
<1>8. CASE Undo
  <2>1. CASE Close
    BY <2>1 DEF Close, InPhase, AfterFailedUpdate
  <2>2. marker' = marker \/ Close
    BY <1>8 DEF Undo, UndoSkips, UndoOne, UndoFails, UndoDone, UndoLoader, RestoreOriginal, Reverify
  <2>3. pc \in Undoing \cup {"unquiesce"} \/ Close
    BY <1>8 DEF Undo, UndoSkips, UndoOne, UndoFails, AtUndo, UndoDone, UndoLoader, RestoreOriginal, Reverify
  <2> QED
    BY <2>1, <2>2, <2>3
<1>9. CASE EnvStep
  BY <1>9 DEF EnvStep, Crash, Edit, Reboot, PendingNote, PendingRetire, run, InPhase, AfterFailedUpdate, Awaiting
<1>10. CASE UNCHANGED vars
  BY <1>10 DEF vars, run
<1> QED
  BY <1>4, <1>5, <1>6, <1>7, <1>8, <1>9, <1>10 DEF Next, RunStep

(* Where no power is lost, Decky's temporary list is never on disk without    *)
(* the marker that says so, unless a step of the rollback failed              *)
(* (decky_quiescence.go 122-130, run.go 498).                                 *)
THEOREM GuardedListStaysRecorded ==
    ASSUME ~ PowerCuts
    PROVE  Spec => []GuardedListIsRecorded
PROOF
<1>1. Init => GuardedListIsRecorded
  BY TypeInit, PlanFacts DEF Init, GuardedListIsRecorded, TypeOK
<1>2. IInv /\ RunInv /\ GuardedListIsRecorded /\ [Next]_vars => GuardedListIsRecorded'
  BY GuardedListStep
<1> QED
  BY <1>1, <1>2, Invariant, RunInvariant, PTL DEF Spec

-----------------------------------------------------------------------------
(* Termination, without fairness: what is left of a run only shrinks.         *)

(* What LeftAt is at each program point, as facts.                            *)
Leaves(p, n, j, m) ==
    /\ p \in Finished => m = 0
    /\ p \in {"request", "succeed", "close"} => m = 1
    /\ p \in {"unquiesce", "reverify"} => m = 2
    /\ p = "undo_quiesce" => m = 3
    /\ p = "undo_loader" => m = 4
    /\ p = "undo" => m = j + 5
    /\ p = "mark_reboot" => m = n + 6
    /\ p = "mark_verified" => m = n + 7
    /\ p = "verify" => m = n + 8
    /\ p = "files" => m = (n + 1 - j) + n + 9
    /\ p = "mark_files" => m = 2 * n + 11
    /\ p = "mark_steam" => m = 2 * n + 12
    /\ p = "steam" => m = 2 * n + 13
    /\ p = "settle" => m = 2 * n + 14
    /\ p = "sync" => m = 2 * (n + 1 - j) + 2 * n + 14
    /\ p = "plugins" => m = 2 * (n + 1 - j) + 2 * n + 15
    /\ p = "mark_plugins" => m = 4 * n + 18
    /\ p = "mark_quiesced" => m = 4 * n + 19
    /\ p = "restart" => m = 4 * n + 20
    /\ p = "quiesce" => m = 4 * n + 21
    /\ p = "save" => m = 4 * n + 22
    /\ p = "recovery" => m = 4 * n + 23
    /\ p = "start" => m = 4 * n + 24

LEMMA LeftFacts ==
    ASSUME NEW p, NEW n, NEW j
    PROVE  Leaves(p, n, j, LeftAt(p, n, j))
PROOF
  BY DEF Leaves, LeftAt, Finished

(* A step of the run has less left.                                           *)
LEMMA RunAdvances == TypeOK /\ ListedInOrder /\ RunStep => Left' < Left
PROOF
<1> SUFFICES ASSUME TypeOK, ListedInOrder, RunStep PROVE Left' < Left
  OBVIOUS
<1> DEFINE n == Len(plan.actions)
<1>1. /\ n \in Nat /\ i \in 0 .. n + 1 /\ Actions = 1 .. n /\ plan' = plan /\ applied \subseteq Actions
      /\ pc \in Converging => i > 0
  BY PlanFacts, PlanStays DEF TypeOK, ListedInOrder, Next
<1>2. Left = LeftAt(pc, n, i) /\ Left' = LeftAt(pc', n, i')
  BY <1>1 DEF Left
<1> HIDE DEF n
<1>3. Leaves(pc, n, i, Left)
  BY <1>2, LeftFacts
<1>9. Leaves(pc', n, i', Left')
  BY <1>2, LeftFacts
<1> USE <1>1, <1>3, <1>9 DEF Leaves, PreMarker, Quiescing, Converging, Committing, Undoing,
     Finished, Goto, Return, StartLoop, RollBack, Advance, ListedThen
<1>4. CASE Prepare
  BY <1>4 DEF Prepare, Begin, Recover, Save
<1>5. CASE Quiesce
  BY <1>5 DEF Quiesce, SetDisabled, RestartDisabled, MarkQuiesced, MarkPlugins, MarkAt
<1>6. CASE Converge
  <2>1. CASE PluginRefused \/ PluginTorn \/ PluginApplied
    BY <2>1 DEF PluginRefused, PluginTorn, PluginApplied, AtPlugin, n
  <2>2. CASE FileRefused \/ FileTorn \/ FileApplied
    BY <2>2 DEF FileRefused, FileTorn, FileApplied, AtFile, n
  <2>3. CASE SkipUnchanged \/ Synchronize
    BY <2>3 DEF SkipUnchanged, Synchronize, n, TypeOK
  <2>4. CASE PluginsDone \/ SettleLoader
    BY <2>4 DEF PluginsDone, SettleLoader, n
  <2>5. CASE QuiesceSteam \/ MarkSteam \/ MarkFiles \/ FilesDone
    BY <2>5 DEF QuiesceSteam, MarkSteam, MarkFiles, MarkAt, FilesDone, n
  <2> QED
    BY <1>6, <2>1, <2>2, <2>3, <2>4, <2>5 DEF Converge
<1>7. CASE Finish
  BY <1>7 DEF Finish, VerifyConverged, MarkVerified, MarkReboot, MarkAt, RequestReboot, Succeed, n
<1>8. CASE Undo
  BY <1>8 DEF Undo, UndoSkips, UndoOne, UndoFails, AtUndo, UndoneThen, UndoDone, UndoLoader, AfterLoader,
     RestoreOriginal, Reverify, Close
<1> QED
  BY <1>4, <1>5, <1>6, <1>7, <1>8 DEF RunStep

(* It is a number of steps, and no more than 4n + 24 for n actions.           *)
LEMMA LeftIsBounded ==
    TypeOK /\ ListedInOrder => Left \in 0 .. 4 * Len(plan.actions) + 24
PROOF
<1> SUFFICES ASSUME TypeOK, ListedInOrder PROVE Left \in 0 .. 4 * Len(plan.actions) + 24
  OBVIOUS
<1> DEFINE n == Len(plan.actions)
<1>1. /\ n \in Nat /\ i \in 0 .. n + 1 /\ Left = LeftAt(pc, n, i)
      /\ pc \in Converging => i > 0
      /\ pc = "sync" => i <= n
      /\ pc \in PCs
  BY PlanFacts DEF TypeOK, ListedInOrder, Left, Actions
<1> HIDE DEF n
<1>2. Leaves(pc, n, i, Left)
  BY <1>1, LeftFacts
<1>3. Left \in 0 .. 4 * n + 24
  BY <1>1, <1>2 DEF Leaves, PCs, PreMarker, Quiescing, Converging, Committing, Undoing, Finished
<1> QED
  BY <1>3 DEF n

(* In particular an integer.                                                  *)
LEMMA LeftIsNumber == TypeOK /\ ListedInOrder => Left \in Int
PROOF
  BY LeftIsBounded, PlanFacts

(* What happens around the run leaves it where it is, or ends it.             *)
LEMMA NothingTakesItBack == TypeOK /\ ListedInOrder /\ (EnvStep \/ UNCHANGED vars) => Left' <= Left
PROOF
<1> SUFFICES ASSUME TypeOK, ListedInOrder, EnvStep \/ UNCHANGED vars PROVE Left' <= Left
  OBVIOUS
<1>1. plan' = plan /\ i' = i /\ (pc' = pc \/ pc' = "dead")
  BY DEF EnvStep, Crash, Edit, Reboot, PendingNote, PendingRetire, run, vars
<1>2. Left \in Int /\ Left >= 0
  BY LeftIsBounded, PlanFacts
<1>3. CASE pc' = pc
  BY <1>1, <1>2, <1>3 DEF Left
<1>4. CASE pc' = "dead"
  BY <1>2, <1>4, LeftFacts DEF Left, Leaves, Finished
<1> QED
  BY <1>1, <1>3, <1>4

(* Every run ends after at most 4n + 24 steps for n actions, whatever fails   *)
(* and whatever happens around it: no loop of the convergence or of the       *)
(* rollback is endless (run.go 538-860).                                      *)
THEOREM RunsAreFinite ==
    Spec => AlwaysAdvances /\ [](Left \in 0 .. 4 * Len(plan.actions) + 24)
PROOF
<1>1. IInv /\ RunInv /\ [Next]_vars => [Left' <= Left /\ (RunStep => Left' < Left)]_vars
  <2> SUFFICES ASSUME IInv, RunInv, [Next]_vars PROVE Left' <= Left /\ (RunStep => Left' < Left)
    OBVIOUS
  <2>1. TypeOK /\ ListedInOrder
    BY DEF IInv, RunInv
  <2>2. RunStep => Left' < Left
    BY <2>1, RunAdvances
  <2>3. Left \in Int /\ Left' \in Int
    <3>1. TypeOK' /\ ListedInOrder'
      BY <2>1, TypeStep, ListedStep
    <3>2. (TypeOK /\ ListedInOrder => Left \in Int)'
      BY LeftIsNumber, PTL
    <3> QED
      BY <2>1, <3>1, <3>2, LeftIsBounded, PlanFacts
  <2>5. EnvStep \/ UNCHANGED vars => Left' <= Left
    BY <2>1, NothingTakesItBack
  <2> QED
    BY <2>2, <2>3, <2>5 DEF Next
<1>2. IInv /\ RunInv => Left \in 0 .. 4 * Len(plan.actions) + 24
  BY LeftIsBounded DEF IInv, RunInv
<1> QED
  BY <1>1, <1>2, Invariant, RunInvariant, PTL DEF Spec, AlwaysAdvances

=============================================================================
