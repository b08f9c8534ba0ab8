---------------------- MODULE RestoreTransaction_proofs ----------------------
(***************************************************************************)
(* Theorems about RestoreTransaction, for every set of well-formed plans   *)
(* and every bound.  The argument: IInv is inductive.  The one fact that   *)
(* carries it is that the targets change only at the program points        *)
(* Converging and Undoing, where a durable marker of the run is on disk.   *)
(***************************************************************************)
EXTENDS RestoreRefinement, SequenceTheorems, TLAPS

(* What a well-formed plan gives: indexes, kinds and slots.                  *)
LEMMA PlanFacts ==
    ASSUME TypeOK
    PROVE  /\ Len(plan.actions) \in Nat
           /\ Actions = 1 .. Len(plan.actions)
           /\ \A k \in Actions : /\ k \in Nat \ {0}
                                 /\ Kind(k) \in Kinds /\ Op(k) \in Ops
                                 /\ Slot(k) \in 0 .. Len(plan.actions)
           /\ Targets \subseteq Actions
           /\ \A k \in Targets : Slot(k) = k
PROOF
<1>1. plan.actions \in Seq([kind : Kinds, op : Ops])
  BY PlansAssumption DEF TypeOK, WellFormed
<1>2. Len(plan.actions) \in Nat /\ Actions = 1 .. Len(plan.actions)
  BY <1>1 DEF Actions
<1>3. ASSUME NEW k \in Actions
      PROVE  /\ k \in Nat \ {0}
             /\ Kind(k) \in Kinds /\ Op(k) \in Ops
             /\ Slot(k) \in 0 .. Len(plan.actions)
  <2>1. plan.actions[k] \in [kind : Kinds, op : Ops]
    BY <1>1, <1>2, <1>3, ElementOfSeq
  <2> QED
    BY <1>2, <1>3, <2>1 DEF Kind, Op, Slot
<1>4. Targets \subseteq Actions /\ \A k \in Targets : Slot(k) = k
  BY DEF Targets, Slot
<1> QED
  BY <1>2, <1>3, <1>4

(* The plan-level definitions depend on the plan alone. *)
LEMMA PlanIsFixed ==
    ASSUME plan' = plan
    PROVE  /\ Targets' = Targets /\ Actions' = Actions
           /\ Refresh' = Refresh
PROOF
  BY DEF Targets, Actions, Refresh, Mutates, Op, Kind

(* A step that leaves every target alone, or to another program, keeps the    *)
(* targets at the versions they were at.                                      *)
LEMMA Undisturbed ==
    ASSUME plan' = plan,
           \A k \in Targets : disk'[k] = disk[k] \/ disk'[k] = "other"
    PROVE  (Old => Old') /\ (New => New')
PROOF
  BY PlanIsFixed DEF Old, New, Untouched

(* Writing loader.json is such a step. *)
LEMMA LoaderIsNoTarget ==
    ASSUME TypeOK, plan' = plan,
           NEW value, disk' = disk \/ disk' = [disk EXCEPT ![0] = value]
    PROVE  (Old => Old') /\ (New => New')
PROOF
<1>1. \A k \in Targets : k # 0 /\ k \in DOMAIN disk
  BY PlanFacts DEF TypeOK
<1>2. \A k \in Targets : disk'[k] = disk[k]
  BY <1>1
<1> QED
  BY <1>2, Undisturbed

(* The contents and the slots of the plan's targets, for the type invariant.  *)
LEMMA DiskUpdate ==
    ASSUME TypeOK, NEW k \in Actions, NEW value \in Contents
    PROVE  [disk EXCEPT ![Slot(k)] = value] \in [0 .. Len(plan.actions) -> Contents]
PROOF
  BY PlanFacts DEF TypeOK

LEMMA LoaderUpdate ==
    ASSUME TypeOK, NEW value \in Contents
    PROVE  [disk EXCEPT ![0] = value] \in [0 .. Len(plan.actions) -> Contents]
PROOF
  BY PlanFacts DEF TypeOK

LEMMA MarkerUpdate ==
    ASSUME TypeOK, NEW phase \in Phases, NEW m \in {InPhase(phase)} \cup AfterFailedUpdate(phase)
    PROVE  /\ m \in Markers /\ m.mine = marker.mine /\ m.boot = marker.boot
           /\ marker.synced => m.synced
PROOF
<1>1. /\ marker \in [phase : Phases \cup {"none"}, boot : Nat, mine : BOOLEAN, synced : BOOLEAN]
      /\ marker.boot \in Nat /\ marker.mine \in BOOLEAN /\ marker.synced \in BOOLEAN
  BY DEF TypeOK, Markers
<1>2. CASE m = InPhase(phase)
  BY <1>1, <1>2 DEF InPhase, Markers
<1>3. CASE m = marker
  BY <1>1, <1>3 DEF Markers
<1>4. CASE m = [phase |-> phase, boot |-> marker.boot, mine |-> marker.mine,
                synced |-> marker.synced]
  BY <1>1, <1>4 DEF Markers
<1> QED
  BY <1>2, <1>3, <1>4 DEF AfterFailedUpdate

LEMMA InPhaseIsSynced == \A phase : InPhase(phase).synced
PROOF
  BY DEF InPhase

LEMMA NoMarkerFacts ==
    NoMarker \in Markers /\ ~ NoMarker.mine /\ ~ NoMarker.synced /\ OldMarker \in Markers
    /\ ~ OldMarker.mine
PROOF
  BY DEF NoMarker, OldMarker, Markers, Phases

-----------------------------------------------------------------------------
(* Type correctness. *)

(* The two halves of the type invariant: the state of the run's process and   *)
(* the state around it.                                                       *)
ControlOK == /\ pc \in PCs
             /\ i \in 0 .. Len(plan.actions) + 1
             /\ pc = "sync" => i \in Actions
             /\ applied \subseteq Actions
             /\ rbFailed \in BOOLEAN
             /\ status \in Statuses

StoreOK == /\ disk \in [0 .. Len(plan.actions) -> Contents]
           /\ running \in {"live", "disabled"}
           /\ steam \in {"running", "stopped"}
           /\ marker \in Markers
           /\ boot \in Nat
           /\ faults \in Nat
           /\ torn \in BOOLEAN
           /\ edits \subseteq Nat

LEMMA TypeHalves ==
    ASSUME TypeOK, plan' = plan, ControlOK', StoreOK'
    PROVE  TypeOK'
PROOF
  BY DEF TypeOK, ControlOK, StoreOK

LEMMA TypeInit == Init => TypeOK
PROOF
<1> SUFFICES ASSUME Init PROVE TypeOK
  OBVIOUS
<1>1. plan.actions \in Seq([kind : Kinds, op : Ops])
  BY PlansAssumption DEF Init, WellFormed
<1>2. Len(plan.actions) \in Nat
  BY <1>1
<1>3. disk \in [0 .. Len(plan.actions) -> Contents]
  BY <1>2 DEF Init, Contents
<1>4. pc \in PCs /\ status \in Statuses
  BY DEF Init, PCs, PreMarker, Statuses
<1>5. marker \in Markers
  BY NoMarkerFacts DEF Init
<1>6. i \in 0 .. Len(plan.actions) + 1
  BY <1>2 DEF Init
<1>7. plan \in Plans /\ applied \subseteq Actions /\ pc # "sync"
  BY DEF Init
<1>8. rbFailed \in BOOLEAN /\ torn \in BOOLEAN
  BY DEF Init
<1>9. /\ running \in {"live", "disabled"} /\ steam \in {"running", "stopped"}
      /\ boot \in Nat /\ faults \in Nat /\ edits \subseteq Nat
  BY DEF Init
<1> QED
  BY <1>3, <1>4, <1>5, <1>6, <1>7, <1>8, <1>9 DEF TypeOK

(* Each way a step moves the process keeps the first half.                   *)
LEMMA ControlMoves ==
    ASSUME TypeOK, plan' = plan
    PROVE  /\ \A p \in PCs \ {"sync"} : Goto(p) => ControlOK'
           /\ \A s \in Statuses : Return(s) => ControlOK'
           /\ StartLoop => ControlOK'
           /\ RollBack => ControlOK'
           /\ \A p \in PCs \ {"sync"} : i \in Actions /\ Advance(p) => ControlOK'
           /\ \A p \in PCs, n \in 0 .. Len(plan.actions) + 1 :
                 i \in Actions /\ (p = "sync" => n = i) /\ ListedThen(p, n) => ControlOK'
           /\ \A b \in BOOLEAN : pc = "undo" /\ i > 0 /\ UndoneThen(b) => ControlOK'
           /\ UNCHANGED run => ControlOK'
PROOF
<1>1. Len(plan.actions) \in Nat /\ Actions = 1 .. Len(plan.actions) /\ Actions' = Actions
  BY PlanFacts, PlanIsFixed
<1>2. "plugins" \in PCs /\ "undo" \in PCs /\ "done" \in PCs
  BY DEF PCs, Converging, Undoing, Finished
<1>3. /\ pc \in PCs /\ i \in 0 .. Len(plan.actions) + 1 /\ applied \subseteq Actions
      /\ status \in Statuses
  BY DEF TypeOK
<1>4. rbFailed \in BOOLEAN
  BY DEF TypeOK
<1>5. ASSUME NEW p \in PCs \ {"sync"}, Goto(p) PROVE ControlOK'
  <2>1. rbFailed' \in BOOLEAN
    BY <1>4, <1>5 DEF Goto
  <2> QED
    BY <1>1, <1>3, <1>5, <2>1 DEF Goto, ControlOK
<1>6. ASSUME NEW s \in Statuses, Return(s) PROVE ControlOK'
  <2>1. rbFailed' \in BOOLEAN
    BY <1>4, <1>6 DEF Return
  <2> QED
    BY <1>1, <1>2, <1>3, <1>6, <2>1 DEF Return, ControlOK
<1>7. ASSUME StartLoop PROVE ControlOK'
  <2>1. rbFailed' \in BOOLEAN
    BY <1>4, <1>7 DEF StartLoop
  <2> QED
    BY <1>1, <1>2, <1>3, <1>7, <2>1 DEF StartLoop, ControlOK
<1>8. ASSUME RollBack PROVE ControlOK'
  <2>1. rbFailed' \in BOOLEAN
    BY <1>4, <1>8 DEF RollBack
  <2> QED
    BY <1>1, <1>2, <1>3, <1>8, <2>1 DEF RollBack, ControlOK
<1>9. ASSUME NEW p \in PCs \ {"sync"}, i \in Actions, Advance(p) PROVE ControlOK'
  <2>1. rbFailed' \in BOOLEAN
    BY <1>4, <1>9 DEF Advance
  <2> QED
    BY <1>1, <1>3, <1>9, <2>1 DEF Advance, ControlOK
<1>10. ASSUME NEW p \in PCs, NEW n \in 0 .. Len(plan.actions) + 1,
              i \in Actions, p = "sync" => n = i, ListedThen(p, n)
       PROVE  ControlOK'
  <2>1. rbFailed' \in BOOLEAN
    BY <1>4, <1>10 DEF ListedThen
  <2> QED
    BY <1>1, <1>3, <1>10, <2>1 DEF ListedThen, ControlOK
<1>11. ASSUME NEW b \in BOOLEAN, pc = "undo", i > 0, UndoneThen(b) PROVE ControlOK'
  <2>1. rbFailed' \in BOOLEAN
    BY <1>4, <1>11 DEF UndoneThen
  <2> QED
    BY <1>1, <1>3, <1>11, <2>1 DEF UndoneThen, ControlOK
<1>12. ASSUME UNCHANGED run PROVE ControlOK'
  <2>1. rbFailed' \in BOOLEAN
    BY <1>4, <1>12 DEF run
  <2>2. pc = "sync" => i \in Actions
    BY DEF TypeOK
  <2> QED
    BY <1>1, <1>3, <1>12, <2>1, <2>2 DEF run, ControlOK
<1> QED
  BY <1>5, <1>6, <1>7, <1>8, <1>9, <1>10, <1>11, <1>12

(* Every step keeps the types, half by half. *)
LEMMA TypeStep == TypeOK /\ [Next]_vars => TypeOK'
PROOF
<1> SUFFICES ASSUME TypeOK, [Next]_vars PROVE TypeOK'
  OBVIOUS
<1> USE DEF PCs, PreMarker, Quiescing, Converging, Committing, Undoing, Finished
<1>1. CASE Begin
  <2>1. ControlOK'
    BY <1>1, ControlMoves, PlanFacts DEF Begin, Statuses
  <2>2. StoreOK'
    BY <1>1 DEF Begin, Fails, Works, live, env, TypeOK, StoreOK
  <2> QED
    BY <1>1, <2>1, <2>2, TypeHalves DEF Begin
<1>2. CASE Recover
  <2>1. ControlOK'
    BY <1>2, ControlMoves, PlanFacts DEF Recover, Statuses
  <2>2. StoreOK'
    BY <1>2 DEF Recover, Fails, Works, live, env, TypeOK, StoreOK
  <2> QED
    BY <1>2, <2>1, <2>2, TypeHalves DEF Recover
<1>3. CASE Save
  <2>1. ControlOK'
    BY <1>3, ControlMoves, PlanFacts DEF Save, Statuses
  <2>2. [phase |-> "prepared", boot |-> boot, mine |-> TRUE, synced |-> FALSE] \in Markers
    BY DEF TypeOK, Markers, Phases
  <2>3. marker' \in Markers
    BY <1>3, <2>2 DEF Save, TypeOK
  <2>4. StoreOK'
    BY <1>3, <2>3 DEF Save, Fails, Works, live, env, TypeOK, StoreOK
  <2> QED
    BY <1>3, <2>1, <2>4, TypeHalves DEF Save
<1>4. CASE SetDisabled
  <2>1. ControlOK'
    BY <1>4, ControlMoves, PlanFacts DEF SetDisabled
  <2>2. StoreOK'
    BY <1>4, PlanFacts DEF SetDisabled, Fails, Works, live, env, TypeOK, StoreOK, Contents
  <2> QED
    BY <1>4, <2>1, <2>2, TypeHalves DEF SetDisabled
<1>5. CASE RestartDisabled
  <2>1. ControlOK'
    BY <1>5, ControlMoves, PlanFacts DEF RestartDisabled
  <2>2. StoreOK'
    BY <1>5 DEF RestartDisabled, Fails, Works, Started, env, TypeOK, StoreOK
  <2> QED
    BY <1>5, <2>1, <2>2, TypeHalves DEF RestartDisabled
<1>6. CASE MarkQuiesced
  <2>1. ControlOK'
    BY <1>6, ControlMoves, PlanFacts DEF MarkQuiesced, MarkAt
  <2>2. StoreOK'
    BY <1>6, MarkerUpdate, NoMarkerFacts DEF MarkQuiesced, MarkAt, Fails, Works, live, env, TypeOK, StoreOK, Phases
  <2> QED
    BY <1>6, <2>1, <2>2, TypeHalves DEF MarkQuiesced, MarkAt
<1>7. CASE MarkPlugins
  <2>1. ControlOK'
    BY <1>7, ControlMoves, PlanFacts DEF MarkPlugins, MarkAt
  <2>2. StoreOK'
    BY <1>7, MarkerUpdate, NoMarkerFacts DEF MarkPlugins, MarkAt, Fails, Works, live, env, TypeOK, StoreOK, Phases
  <2> QED
    BY <1>7, <2>1, <2>2, TypeHalves DEF MarkPlugins, MarkAt
<1>8. CASE SkipUnchanged
  <2>1. ControlOK'
    BY <1>8, ControlMoves, PlanFacts DEF SkipUnchanged
  <2>2. StoreOK'
    BY <1>8 DEF SkipUnchanged, Works, live, env, TypeOK, StoreOK
  <2> QED
    BY <1>8, <2>1, <2>2, TypeHalves DEF SkipUnchanged
<1>9. CASE PluginRefused
  <2>1. ControlOK'
    BY <1>9, ControlMoves, PlanFacts DEF PluginRefused, AtPlugin
  <2>2. StoreOK'
    BY <1>9, PlanFacts DEF PluginRefused, Fails, AtPlugin, KeptDisabled, live, env, TypeOK, StoreOK, Contents
  <2> QED
    BY <1>9, <2>1, <2>2, TypeHalves DEF PluginRefused
<1>10. CASE PluginTorn
  <2>1. ControlOK'
    BY <1>10, ControlMoves, PlanFacts DEF PluginTorn, AtPlugin
  <2>2. StoreOK'
    BY <1>10, PlanFacts DEF PluginTorn, Fails, AtPlugin, KeptDisabled, HalfDone, live, env, TypeOK, StoreOK, Contents
  <2> QED
    BY <1>10, <2>1, <2>2, TypeHalves DEF PluginTorn
<1>11. CASE PluginApplied
  <2>1. ControlOK'
    BY <1>11, ControlMoves, PlanFacts DEF PluginApplied, AtPlugin
  <2>2. StoreOK'
    BY <1>11, PlanFacts DEF PluginApplied, Works, AtPlugin, KeptDisabled, live, env, TypeOK, StoreOK, Contents
  <2> QED
    BY <1>11, <2>1, <2>2, TypeHalves DEF PluginApplied
<1>12. CASE Synchronize
  <2>1. ControlOK'
    BY <1>12, ControlMoves DEF Synchronize, TypeOK
  <2>2. StoreOK'
    BY <1>12, MarkerUpdate, NoMarkerFacts DEF Synchronize, Fails, Works, live, env, TypeOK, StoreOK, Phases
  <2> QED
    BY <1>12, <2>1, <2>2, TypeHalves DEF Synchronize
<1>13. CASE PluginsDone
  <2>1. ControlOK'
    BY <1>13, ControlMoves, PlanFacts DEF PluginsDone
  <2>2. StoreOK'
    BY <1>13 DEF PluginsDone, Works, live, env, TypeOK, StoreOK
  <2> QED
    BY <1>13, <2>1, <2>2, TypeHalves DEF PluginsDone
<1>14. CASE SettleLoader
  <2>1. ControlOK'
    BY <1>14, ControlMoves, PlanFacts DEF SettleLoader
  <2>2. StoreOK'
    BY <1>14, PlanFacts DEF SettleLoader, Fails, Works, live, env, TypeOK, StoreOK, Contents
  <2> QED
    BY <1>14, <2>1, <2>2, TypeHalves DEF SettleLoader
<1>15. CASE QuiesceSteam
  <2>1. ControlOK'
    BY <1>15, ControlMoves, PlanFacts DEF QuiesceSteam
  <2>2. StoreOK'
    BY <1>15 DEF QuiesceSteam, Fails, Works, env, TypeOK, StoreOK
  <2> QED
    BY <1>15, <2>1, <2>2, TypeHalves DEF QuiesceSteam
<1>16. CASE MarkSteam
  <2>1. ControlOK'
    BY <1>16, ControlMoves, PlanFacts DEF MarkSteam, MarkAt
  <2>2. StoreOK'
    BY <1>16, MarkerUpdate, NoMarkerFacts DEF MarkSteam, MarkAt, Fails, Works, live, env, TypeOK, StoreOK, Phases
  <2> QED
    BY <1>16, <2>1, <2>2, TypeHalves DEF MarkSteam, MarkAt
<1>17. CASE MarkFiles
  <2>1. ControlOK'
    BY <1>17, ControlMoves, PlanFacts DEF MarkFiles, MarkAt
  <2>2. StoreOK'
    BY <1>17, MarkerUpdate, NoMarkerFacts DEF MarkFiles, MarkAt, Fails, Works, live, env, TypeOK, StoreOK, Phases
  <2> QED
    BY <1>17, <2>1, <2>2, TypeHalves DEF MarkFiles, MarkAt
<1>18. CASE FileRefused
  <2>1. ControlOK'
    BY <1>18, ControlMoves, PlanFacts DEF FileRefused, AtFile
  <2>2. StoreOK'
    BY <1>18 DEF FileRefused, Fails, Works, AtFile, live, env, TypeOK, StoreOK
  <2> QED
    BY <1>18, <2>1, <2>2, TypeHalves DEF FileRefused
<1>19. CASE FileTorn
  <2>1. ControlOK'
    BY <1>19, ControlMoves, PlanFacts DEF FileTorn, AtFile
  <2>2. StoreOK'
    BY <1>19, PlanFacts DEF FileTorn, Fails, AtFile, Writes, live, env, TypeOK, StoreOK, Contents
  <2> QED
    BY <1>19, <2>1, <2>2, TypeHalves DEF FileTorn
<1>20. CASE FileApplied
  <2>1. ControlOK'
    BY <1>20, ControlMoves, PlanFacts DEF FileApplied, AtFile
  <2>2. StoreOK'
    BY <1>20, PlanFacts DEF FileApplied, Works, AtFile, Writes, live, env, TypeOK, StoreOK, Contents
  <2> QED
    BY <1>20, <2>1, <2>2, TypeHalves DEF FileApplied
<1>21. CASE FilesDone
  <2>1. ControlOK'
    BY <1>21, ControlMoves, PlanFacts DEF FilesDone
  <2>2. StoreOK'
    BY <1>21 DEF FilesDone, Works, live, env, TypeOK, StoreOK
  <2> QED
    BY <1>21, <2>1, <2>2, TypeHalves DEF FilesDone
<1>22. CASE VerifyConverged
  <2>1. ControlOK'
    BY <1>22, ControlMoves, PlanFacts DEF VerifyConverged
  <2>2. StoreOK'
    BY <1>22 DEF VerifyConverged, Fails, Works, live, env, TypeOK, StoreOK
  <2> QED
    BY <1>22, <2>1, <2>2, TypeHalves DEF VerifyConverged
<1>23. CASE MarkVerified
  <2>1. ControlOK'
    BY <1>23, ControlMoves, PlanFacts DEF MarkVerified, MarkAt
  <2>2. StoreOK'
    BY <1>23, MarkerUpdate, NoMarkerFacts DEF MarkVerified, MarkAt, Fails, Works, live, env, TypeOK, StoreOK, Phases
  <2> QED
    BY <1>23, <2>1, <2>2, TypeHalves DEF MarkVerified, MarkAt
<1>24. CASE MarkReboot
  <2>1. ControlOK'
    BY <1>24, ControlMoves, PlanFacts DEF MarkReboot, MarkAt
  <2>2. StoreOK'
    BY <1>24, MarkerUpdate, NoMarkerFacts DEF MarkReboot, MarkAt, Fails, Works, live, env, TypeOK, StoreOK, Phases
  <2> QED
    BY <1>24, <2>1, <2>2, TypeHalves DEF MarkReboot, MarkAt
<1>25. CASE RequestReboot
  <2>1. ControlOK'
    BY <1>25, ControlMoves, PlanFacts DEF RequestReboot, Statuses
  <2>2. StoreOK'
    BY <1>25 DEF RequestReboot, Fails, Works, live, env, TypeOK, StoreOK
  <2> QED
    BY <1>25, <2>1, <2>2, TypeHalves DEF RequestReboot
<1>26. CASE Succeed
  <2>1. ControlOK'
    BY <1>26, ControlMoves, PlanFacts DEF Succeed, Statuses
  <2>2. StoreOK'
    BY <1>26, MarkerUpdate, NoMarkerFacts DEF Succeed, Fails, Works, live, env, TypeOK, StoreOK, Phases
  <2> QED
    BY <1>26, <2>1, <2>2, TypeHalves DEF Succeed
<1>27. CASE UndoSkips
  <2>1. ControlOK'
    BY <1>27, ControlMoves, PlanFacts DEF UndoSkips
  <2>2. StoreOK'
    BY <1>27 DEF UndoSkips, Works, live, env, TypeOK, StoreOK
  <2> QED
    BY <1>27, <2>1, <2>2, TypeHalves DEF UndoSkips
<1>28. CASE UndoOne
  <2>1. pc = "undo" /\ i > 0
    BY <1>28, PlanFacts DEF UndoOne, AtUndo, TypeOK
  <2>2. ControlOK'
    BY <1>28, <2>1, ControlMoves DEF UndoOne
  <2>3. StoreOK'
    BY <1>28, PlanFacts DEF UndoOne, Works, AtUndo, DeckyRewrote, live, env, TypeOK, StoreOK, Contents
  <2> QED
    BY <1>28, <2>2, <2>3, TypeHalves DEF UndoOne
<1>29. CASE UndoFails
  <2>1. pc = "undo" /\ i > 0
    BY <1>29, PlanFacts DEF UndoFails, AtUndo, TypeOK
  <2>2. ControlOK'
    BY <1>29, <2>1, ControlMoves DEF UndoFails
  <2>3. StoreOK'
    BY <1>29, PlanFacts DEF UndoFails, Fails, Works, AtUndo, DeckyRewrote, live, env, TypeOK, StoreOK, Contents
  <2> QED
    BY <1>29, <2>2, <2>3, TypeHalves DEF UndoFails
<1>30. CASE UndoDone
  <2>1. ControlOK'
    BY <1>30, ControlMoves, PlanFacts DEF UndoDone
  <2>2. StoreOK'
    BY <1>30 DEF UndoDone, Works, live, env, TypeOK, StoreOK
  <2> QED
    BY <1>30, <2>1, <2>2, TypeHalves DEF UndoDone
<1>31. CASE UndoLoader
  <2>1. rbFailed' \in BOOLEAN
    BY <1>31 DEF UndoLoader, AfterLoader, Goto, TypeOK
  <2>2. pc' \in PCs \ {"sync"}
    BY <1>31 DEF UndoLoader, AfterLoader, Goto
  <2>3. ControlOK'
    BY <1>31, <2>1, <2>2, PlanIsFixed DEF UndoLoader, AfterLoader, Goto, TypeOK, ControlOK
  <2>4. StoreOK'
    BY <1>31, PlanFacts DEF UndoLoader, Fails, Works, AfterLoader, live, env, TypeOK, StoreOK, Contents
  <2> QED
    BY <1>31, <2>3, <2>4, TypeHalves DEF UndoLoader
<1>32. CASE RestoreOriginal
  <2>1. rbFailed' \in BOOLEAN
    BY <1>32 DEF RestoreOriginal, TypeOK
  <2>2. pc' \in PCs \ {"sync"}
    BY <1>32 DEF RestoreOriginal
  <2>3. ControlOK'
    BY <1>32, <2>1, <2>2, PlanIsFixed DEF RestoreOriginal, TypeOK, ControlOK
  <2>4. StoreOK'
    BY <1>32, PlanFacts DEF RestoreOriginal, Fails, Works, Started, OriginalList, live, env, TypeOK, StoreOK, Contents
  <2> QED
    BY <1>32, <2>3, <2>4, TypeHalves DEF RestoreOriginal
<1>33. CASE Reverify
  <2>1. rbFailed' \in BOOLEAN
    BY <1>33 DEF Reverify, TypeOK
  <2>2. pc' \in PCs \ {"sync"}
    BY <1>33 DEF Reverify
  <2>3. ControlOK'
    BY <1>33, <2>1, <2>2, PlanIsFixed DEF Reverify, TypeOK, ControlOK
  <2>4. StoreOK'
    BY <1>33 DEF Reverify, Fails, Works, live, env, TypeOK, StoreOK
  <2> QED
    BY <1>33, <2>3, <2>4, TypeHalves DEF Reverify
<1>34. CASE Close
  <2>1. ControlOK'
    BY <1>34, ControlMoves, PlanFacts DEF Close, Statuses
  <2>2. StoreOK'
    BY <1>34, MarkerUpdate, NoMarkerFacts DEF Close, Fails, Works, live, env, TypeOK, StoreOK, Phases
  <2> QED
    BY <1>34, <2>1, <2>2, TypeHalves DEF Close
<1>35. CASE Crash
  <2>1. Goto("dead")
    BY <1>35 DEF Crash, Goto
  <2>2. ControlOK'
    BY <1>35, <2>1, ControlMoves DEF Crash
  <2>3. StoreOK'
    BY <1>35 DEF Crash, Ended, live, env, TypeOK, StoreOK
  <2> QED
    BY <1>35, <2>2, <2>3, TypeHalves DEF Crash
<1>36. CASE Edit
  <2>1. ControlOK'
    BY <1>36, ControlMoves DEF Edit
  <2>2. StoreOK'
    BY <1>36, PlanFacts DEF Edit, live, run, Editable, TypeOK, StoreOK, Contents
  <2> QED
    BY <1>36, <2>1, <2>2, TypeHalves DEF Edit
<1>37. CASE Reboot
  <2>1. Goto("dead") \/ Goto("done")
    BY <1>37 DEF Reboot, Ended, Goto
  <2>2. ControlOK'
    BY <1>37, <2>1, ControlMoves DEF Reboot
  <2>3. StoreOK'
    BY <1>37, MarkerUpdate, NoMarkerFacts DEF Reboot, Started, Ended, TypeOK, StoreOK, Phases
  <2> QED
    BY <1>37, <2>2, <2>3, TypeHalves DEF Reboot
<1>38. CASE PendingNote
  <2>1. ControlOK'
    BY <1>38, ControlMoves DEF PendingNote
  <2>2. StoreOK'
    BY <1>38, MarkerUpdate, NoMarkerFacts DEF PendingNote, Fails, Works, live, env, run, TypeOK, StoreOK, Phases
  <2> QED
    BY <1>38, <2>1, <2>2, TypeHalves DEF PendingNote
<1>39. CASE PendingRetire
  <2>1. ControlOK'
    BY <1>39, ControlMoves DEF PendingRetire
  <2>2. StoreOK'
    BY <1>39, MarkerUpdate, NoMarkerFacts DEF PendingRetire, live, env, run, TypeOK, StoreOK, Phases
  <2> QED
    BY <1>39, <2>1, <2>2, TypeHalves DEF PendingRetire
<1>40. CASE UNCHANGED vars
  BY <1>40, PlanIsFixed DEF vars, run, live, env, TypeOK
<1> QED
  BY <1>1, <1>2, <1>3, <1>4, <1>5, <1>6, <1>7, <1>8, <1>9, <1>10, <1>11, <1>12, <1>13, <1>14, <1>15, <1>16, <1>17, <1>18, <1>19, <1>20, <1>21, <1>22, <1>23, <1>24, <1>25, <1>26, <1>27, <1>28, <1>29, <1>30, <1>31, <1>32, <1>33, <1>34, <1>35, <1>36, <1>37, <1>38, <1>39, <1>40
  DEF Next, RunStep, EnvStep, Prepare, Quiesce, Converge, Finish, Undo

(* The type invariant holds of every behaviour of a restore run (run.go 117).  *)
THEOREM TypeCorrect == Spec => []TypeOK
PROOF
  BY TypeInit, TypeStep, PTL DEF Spec

-----------------------------------------------------------------------------
(* The inductive invariant. *)

(* What a step does to the record of the restore. *)
LEMMA SameDisk ==
    ASSUME plan' = plan, disk' = disk
    PROVE  (Old' <=> Old) /\ (New' <=> New)
PROOF
  BY PlanIsFixed DEF Old, New, Untouched

LEMMA SameMarker ==
    ASSUME marker' = marker
    PROVE  (MyMarker' <=> MyMarker) /\ (Recorded' <=> Recorded) /\ marker'.boot = marker.boot
PROOF
  BY DEF MyMarker, Recorded

LEMMA MarkerMoves ==
    ASSUME TypeOK, NEW phase \in Phases,
           marker' \in {InPhase(phase)} \cup AfterFailedUpdate(phase)
    PROVE  /\ MyMarker' <=> MyMarker
           /\ Recorded => Recorded'
           /\ marker'.boot = marker.boot
           /\ marker' = InPhase(phase) /\ MyMarker => Recorded'
PROOF
<1>1. marker'.mine = marker.mine /\ marker'.boot = marker.boot
      /\ (marker.synced => marker'.synced)
  BY MarkerUpdate
<1> QED
  BY <1>1, InPhaseIsSynced DEF MyMarker, Recorded

LEMMA MarkerGoes ==
    ASSUME marker' = NoMarker
    PROVE  ~ MyMarker' /\ ~ Recorded'
PROOF
  BY NoMarkerFacts DEF MyMarker, Recorded

(* The two checks of Run that compare the targets with the plan.             *)
LEMMA FreshIsOld == ASSUME TypeOK, Fresh PROVE Old
PROOF
  BY PlanFacts DEF Fresh, Tracked, Old, Untouched

LEMMA ConvergedIsNew == ASSUME TypeOK, Converged PROVE New
PROOF
  BY PlanFacts DEF Converged, Targets, New, Untouched

LEMMA InvInit == Init => IInv
PROOF
<1> SUFFICES ASSUME Init PROVE IInv
  OBVIOUS
<1>1. TypeOK
  BY TypeInit
<1>2. Old
  BY <1>1, PlanFacts DEF Init, Old, Untouched
<1>3. ~ MyMarker /\ pc = "start"
  BY NoMarkerFacts DEF Init, MyMarker
<1> QED
  BY <1>1, <1>2, <1>3 DEF IInv, NothingChangedYet, MarkedWhileItQuiesces,
     RecordedWhileItChanges, ConvergedWhenItCommits, UndoneWhenItCloses,
     RecordedOrAtomic, MarkerOfThisBoot, ReportIsTrue, PreMarker, Quiescing,
     Converging, Committing, Undoing, Finished

(* What a step may do to what the contract sees: a report is final and is made *)
(* by a step that changes nothing else; the targets are left as they are, or  *)
(* the record is, or the step is one of a convergence or of a rollback.       *)
Orderly ==
    /\ Refresh' <=> Refresh
    /\ pc = "done" => pc' = "done" /\ status' = status
    /\ \/ (Old' <=> Old) /\ (New' <=> New)
       \/ /\ (Old => Old') /\ (New => New') /\ (Recorded' <=> Recorded)
          /\ pc' = "done" => pc = "done"
       \/ pc \in Converging \cup Undoing /\ pc' \in Converging \cup Undoing

(* Every step keeps the invariant and is orderly.  For each action: what it   *)
(* does to the targets, what it does to the marker, and then where it leads.  *)
LEMMA InvStep == IInv /\ [Next]_vars => IInv' /\ Orderly
PROOF
<1> SUFFICES ASSUME IInv, [Next]_vars PROVE IInv' /\ Orderly
  OBVIOUS
<1>0. TypeOK /\ TypeOK'
  BY TypeStep DEF IInv
<1> USE DEF Orderly, IInv, NothingChangedYet, MarkedWhileItQuiesces, RecordedWhileItChanges,
   ConvergedWhenItCommits, UndoneWhenItCloses, RecordedOrAtomic, MarkerOfThisBoot, ReportIsTrue,
   PreMarker, Quiescing, Converging, Committing, Undoing, Finished
<1>1. CASE Begin
  <2>1. plan' = plan /\ (Refresh' <=> Refresh)
    BY <1>1, PlanIsFixed DEF Begin
  <2>2. (Old' <=> Old) /\ (New' <=> New)
    BY <1>1, <2>1, SameDisk DEF Begin
  <2>3. (MyMarker' <=> MyMarker) /\ (Recorded' <=> Recorded) /\ marker'.boot = marker.boot
    BY <1>1, SameMarker DEF Begin
  <2> QED
    BY <1>0, <1>1, <2>1, <2>2, <2>3 DEF Begin, Goto, Return, env
<1>2. CASE Recover
  <2>1. plan' = plan /\ (Refresh' <=> Refresh)
    BY <1>2, PlanIsFixed DEF Recover
  <2>2. (Old' <=> Old) /\ (New' <=> New)
    BY <1>2, <2>1, SameDisk DEF Recover
  <2>3. (MyMarker' <=> MyMarker) /\ (Recorded' <=> Recorded) /\ marker'.boot = marker.boot
    BY <1>2, SameMarker DEF Recover
  <2> QED
    BY <1>0, <1>2, <2>1, <2>2, <2>3 DEF Recover, Goto, Return, StartLoop, env
<1>3. CASE Save
  <2>1. plan' = plan /\ (Refresh' <=> Refresh)
    BY <1>3, PlanIsFixed DEF Save
  <2>2. (Old' <=> Old) /\ (New' <=> New)
    BY <1>3, <2>1, SameDisk DEF Save
  <2>3. \/ marker' = marker /\ Return("failed_before_mutation")
        \/ MyMarker' /\ marker'.boot = boot /\ Goto("quiesce")
    BY <1>3 DEF Save, MyMarker
  <2>4. marker' = marker => (MyMarker' <=> MyMarker) /\ marker'.boot = marker.boot
    BY SameMarker
  <2> QED
    BY <1>0, <1>3, <2>1, <2>2, <2>3, <2>4 DEF Save, Goto, Return, env
<1>4. CASE SetDisabled
  <2>1. plan' = plan /\ (Refresh' <=> Refresh)
    BY <1>4, PlanIsFixed DEF SetDisabled
  <2>2. disk' = disk \/ disk' = [disk EXCEPT ![0] = "quiesced"]
    BY <1>4 DEF SetDisabled
  <2>3. (Old => Old') /\ (New => New')
    BY <1>0, <2>1, <2>2, LoaderIsNoTarget
  <2>4. (MyMarker' <=> MyMarker) /\ (Recorded' <=> Recorded) /\ marker'.boot = marker.boot
    BY <1>4, SameMarker DEF SetDisabled
  <2> QED
    BY <1>0, <1>4, <2>1, <2>2, <2>3, <2>4 DEF SetDisabled, Goto, env
<1>5. CASE RestartDisabled
  <2>1. plan' = plan /\ (Refresh' <=> Refresh)
    BY <1>5, PlanIsFixed DEF RestartDisabled
  <2>2. (Old' <=> Old) /\ (New' <=> New)
    BY <1>5, <2>1, SameDisk DEF RestartDisabled
  <2>3. (MyMarker' <=> MyMarker) /\ (Recorded' <=> Recorded) /\ marker'.boot = marker.boot
    BY <1>5, SameMarker DEF RestartDisabled
  <2> QED
    BY <1>0, <1>5, <2>1, <2>2, <2>3 DEF RestartDisabled, Goto, env
<1>6. CASE MarkQuiesced
  <2>1. plan' = plan /\ (Refresh' <=> Refresh)
    BY <1>6, PlanIsFixed DEF MarkQuiesced, MarkAt
  <2>2. (Old' <=> Old) /\ (New' <=> New)
    BY <1>6, <2>1, SameDisk DEF MarkQuiesced, MarkAt
  <2>3. marker' \in {InPhase("plugins_quiesced")} \cup AfterFailedUpdate("plugins_quiesced")
    BY <1>6 DEF MarkQuiesced, MarkAt
  <2>4. /\ MyMarker' <=> MyMarker
        /\ Recorded => Recorded'
        /\ marker'.boot = marker.boot
        /\ marker' = InPhase("plugins_quiesced") /\ MyMarker => Recorded'
    BY <1>0, <2>3, MarkerMoves DEF Phases
  <2>5. /\ pc = "mark_quiesced" /\ boot' = boot
        /\ \/ marker' = InPhase("plugins_quiesced") /\ Goto("mark_plugins")
           \/ Goto("unquiesce")
    BY <1>6 DEF MarkQuiesced, MarkAt, env
  <2> QED
    BY <1>0, <2>1, <2>2, <2>3, <2>4, <2>5 DEF Goto
<1>7. CASE MarkPlugins
  <2>1. plan' = plan /\ (Refresh' <=> Refresh)
    BY <1>7, PlanIsFixed DEF MarkPlugins, MarkAt
  <2>2. (Old' <=> Old) /\ (New' <=> New)
    BY <1>7, <2>1, SameDisk DEF MarkPlugins, MarkAt
  <2>3. marker' \in {InPhase("plugin_convergence")} \cup AfterFailedUpdate("plugin_convergence")
    BY <1>7 DEF MarkPlugins, MarkAt
  <2>4. /\ MyMarker' <=> MyMarker
        /\ Recorded => Recorded'
        /\ marker'.boot = marker.boot
        /\ marker' = InPhase("plugin_convergence") /\ MyMarker => Recorded'
    BY <1>0, <2>3, MarkerMoves DEF Phases
  <2>5. /\ pc = "mark_plugins" /\ boot' = boot
        /\ \/ marker' = InPhase("plugin_convergence") /\ StartLoop
           \/ Goto("unquiesce")
    BY <1>7 DEF MarkPlugins, MarkAt, env
  <2> QED
    BY <1>0, <2>1, <2>2, <2>3, <2>4, <2>5 DEF Goto, StartLoop
<1>8. CASE SkipUnchanged
  <2>1. plan' = plan /\ (Refresh' <=> Refresh)
    BY <1>8, PlanIsFixed DEF SkipUnchanged
  <2>2. (Old' <=> Old) /\ (New' <=> New)
    BY <1>8, <2>1, SameDisk DEF SkipUnchanged
  <2>3. (MyMarker' <=> MyMarker) /\ (Recorded' <=> Recorded) /\ marker'.boot = marker.boot
    BY <1>8, SameMarker DEF SkipUnchanged
  <2> QED
    BY <1>0, <1>8, <2>1, <2>2, <2>3 DEF SkipUnchanged, Advance, env
<1>9. CASE PluginRefused
  <2>1. plan' = plan /\ (Refresh' <=> Refresh)
    BY <1>9, PlanIsFixed DEF PluginRefused
  <2>2. disk' = disk \/ disk' = [disk EXCEPT ![0] = "quiesced"]
    BY <1>9 DEF PluginRefused, KeptDisabled
  <2>3. (Old => Old') /\ (New => New')
    BY <1>0, <2>1, <2>2, LoaderIsNoTarget
  <2>4. (MyMarker' <=> MyMarker) /\ (Recorded' <=> Recorded) /\ marker'.boot = marker.boot
    BY <1>9, SameMarker DEF PluginRefused
  <2> QED
    BY <1>0, <1>9, <2>1, <2>2, <2>3, <2>4 DEF PluginRefused, RollBack, AtPlugin, env
<1>10. CASE PluginTorn
  <2>1. plan' = plan /\ (Refresh' <=> Refresh)
    BY <1>10, PlanIsFixed DEF PluginTorn
  <2>2. (MyMarker' <=> MyMarker) /\ (Recorded' <=> Recorded) /\ marker'.boot = marker.boot
    BY <1>10, SameMarker DEF PluginTorn
  <2> QED
    BY <1>0, <1>10, <2>1, <2>2 DEF PluginTorn, ListedThen, AtPlugin, env
<1>11. CASE PluginApplied
  <2>1. plan' = plan /\ (Refresh' <=> Refresh)
    BY <1>11, PlanIsFixed DEF PluginApplied
  <2>2. (MyMarker' <=> MyMarker) /\ (Recorded' <=> Recorded) /\ marker'.boot = marker.boot
    BY <1>11, SameMarker DEF PluginApplied
  <2> QED
    BY <1>0, <1>11, <2>1, <2>2 DEF PluginApplied, ListedThen, AtPlugin, env
<1>12. CASE Synchronize
  <2>1. plan' = plan /\ (Refresh' <=> Refresh)
    BY <1>12, PlanIsFixed DEF Synchronize
  <2>2. (Old' <=> Old) /\ (New' <=> New)
    BY <1>12, <2>1, SameDisk DEF Synchronize
  <2>3. marker' = marker \/ marker' = InPhase("plugin_convergence")
    BY <1>12 DEF Synchronize
  <2>4. (MyMarker' <=> MyMarker) /\ (Recorded => Recorded') /\ marker'.boot = marker.boot
    BY <1>0, <2>3, MarkerMoves, SameMarker DEF Phases
  <2> QED
    BY <1>0, <1>12, <2>1, <2>2, <2>3, <2>4 DEF Synchronize, RollBack, Advance, env
<1>13. CASE PluginsDone
  <2>1. plan' = plan /\ (Refresh' <=> Refresh)
    BY <1>13, PlanIsFixed DEF PluginsDone
  <2>2. (Old' <=> Old) /\ (New' <=> New)
    BY <1>13, <2>1, SameDisk DEF PluginsDone
  <2>3. (MyMarker' <=> MyMarker) /\ (Recorded' <=> Recorded) /\ marker'.boot = marker.boot
    BY <1>13, SameMarker DEF PluginsDone
  <2> QED
    BY <1>0, <1>13, <2>1, <2>2, <2>3 DEF PluginsDone, Goto, env
<1>14. CASE SettleLoader
  <2>1. plan' = plan /\ (Refresh' <=> Refresh)
    BY <1>14, PlanIsFixed DEF SettleLoader
  <2>2. disk' = disk \/ disk' = [disk EXCEPT ![0] = "orig"]
    BY <1>14 DEF SettleLoader
  <2>3. (Old => Old') /\ (New => New')
    BY <1>0, <2>1, <2>2, LoaderIsNoTarget
  <2>4. (MyMarker' <=> MyMarker) /\ (Recorded' <=> Recorded) /\ marker'.boot = marker.boot
    BY <1>14, SameMarker DEF SettleLoader
  <2> QED
    BY <1>0, <1>14, <2>1, <2>2, <2>3, <2>4 DEF SettleLoader, Goto, RollBack, env
<1>15. CASE QuiesceSteam
  <2>1. plan' = plan /\ (Refresh' <=> Refresh)
    BY <1>15, PlanIsFixed DEF QuiesceSteam
  <2>2. (Old' <=> Old) /\ (New' <=> New)
    BY <1>15, <2>1, SameDisk DEF QuiesceSteam
  <2>3. (MyMarker' <=> MyMarker) /\ (Recorded' <=> Recorded) /\ marker'.boot = marker.boot
    BY <1>15, SameMarker DEF QuiesceSteam
  <2> QED
    BY <1>0, <1>15, <2>1, <2>2, <2>3 DEF QuiesceSteam, Goto, RollBack, env
<1>16. CASE MarkSteam
  <2>1. plan' = plan /\ (Refresh' <=> Refresh)
    BY <1>16, PlanIsFixed DEF MarkSteam, MarkAt
  <2>2. (Old' <=> Old) /\ (New' <=> New)
    BY <1>16, <2>1, SameDisk DEF MarkSteam, MarkAt
  <2>3. marker' \in {InPhase("steam_quiesced")} \cup AfterFailedUpdate("steam_quiesced")
    BY <1>16 DEF MarkSteam, MarkAt
  <2>4. /\ MyMarker' <=> MyMarker
        /\ Recorded => Recorded'
        /\ marker'.boot = marker.boot
        /\ marker' = InPhase("steam_quiesced") /\ MyMarker => Recorded'
    BY <1>0, <2>3, MarkerMoves DEF Phases
  <2>5. /\ pc = "mark_steam" /\ boot' = boot
        /\ \/ marker' = InPhase("steam_quiesced") /\ Goto("mark_files")
           \/ RollBack
    BY <1>16 DEF MarkSteam, MarkAt, env
  <2> QED
    BY <1>0, <2>1, <2>2, <2>3, <2>4, <2>5 DEF Goto, RollBack
<1>17. CASE MarkFiles
  <2>1. plan' = plan /\ (Refresh' <=> Refresh)
    BY <1>17, PlanIsFixed DEF MarkFiles, MarkAt
  <2>2. (Old' <=> Old) /\ (New' <=> New)
    BY <1>17, <2>1, SameDisk DEF MarkFiles, MarkAt
  <2>3. marker' \in {InPhase("filesystem_convergence")} \cup AfterFailedUpdate("filesystem_convergence")
    BY <1>17 DEF MarkFiles, MarkAt
  <2>4. /\ MyMarker' <=> MyMarker
        /\ Recorded => Recorded'
        /\ marker'.boot = marker.boot
        /\ marker' = InPhase("filesystem_convergence") /\ MyMarker => Recorded'
    BY <1>0, <2>3, MarkerMoves DEF Phases
  <2>5. /\ pc = "mark_files" /\ boot' = boot
        /\ \/ marker' = InPhase("filesystem_convergence") /\ Goto("files")
           \/ RollBack
    BY <1>17 DEF MarkFiles, MarkAt, env
  <2> QED
    BY <1>0, <2>1, <2>2, <2>3, <2>4, <2>5 DEF Goto, RollBack
<1>18. CASE FileRefused
  <2>1. plan' = plan /\ (Refresh' <=> Refresh)
    BY <1>18, PlanIsFixed DEF FileRefused
  <2>2. (Old' <=> Old) /\ (New' <=> New)
    BY <1>18, <2>1, SameDisk DEF FileRefused
  <2>3. (MyMarker' <=> MyMarker) /\ (Recorded' <=> Recorded) /\ marker'.boot = marker.boot
    BY <1>18, SameMarker DEF FileRefused
  <2> QED
    BY <1>0, <1>18, <2>1, <2>2, <2>3 DEF FileRefused, RollBack, AtFile, env
<1>19. CASE FileTorn
  <2>1. plan' = plan /\ (Refresh' <=> Refresh)
    BY <1>19, PlanIsFixed DEF FileTorn
  <2>2. (MyMarker' <=> MyMarker) /\ (Recorded' <=> Recorded) /\ marker'.boot = marker.boot
    BY <1>19, SameMarker DEF FileTorn
  <2> QED
    BY <1>0, <1>19, <2>1, <2>2 DEF FileTorn, RollBack, ListedThen, AtFile, env
<1>20. CASE FileApplied
  <2>1. plan' = plan /\ (Refresh' <=> Refresh)
    BY <1>20, PlanIsFixed DEF FileApplied
  <2>2. (MyMarker' <=> MyMarker) /\ (Recorded' <=> Recorded) /\ marker'.boot = marker.boot
    BY <1>20, SameMarker DEF FileApplied
  <2> QED
    BY <1>0, <1>20, <2>1, <2>2 DEF FileApplied, ListedThen, AtFile, env
<1>21. CASE FilesDone
  <2>1. plan' = plan /\ (Refresh' <=> Refresh)
    BY <1>21, PlanIsFixed DEF FilesDone
  <2>2. (Old' <=> Old) /\ (New' <=> New)
    BY <1>21, <2>1, SameDisk DEF FilesDone
  <2>3. (MyMarker' <=> MyMarker) /\ (Recorded' <=> Recorded) /\ marker'.boot = marker.boot
    BY <1>21, SameMarker DEF FilesDone
  <2> QED
    BY <1>0, <1>21, <2>1, <2>2, <2>3 DEF FilesDone, Goto, env
<1>22. CASE VerifyConverged
  <2>1. plan' = plan /\ (Refresh' <=> Refresh)
    BY <1>22, PlanIsFixed DEF VerifyConverged
  <2>2. (Old' <=> Old) /\ (New' <=> New)
    BY <1>22, <2>1, SameDisk DEF VerifyConverged
  <2>3. (MyMarker' <=> MyMarker) /\ (Recorded' <=> Recorded) /\ marker'.boot = marker.boot
    BY <1>22, SameMarker DEF VerifyConverged
  <2>4. Converged => New
    BY <1>0, ConvergedIsNew
  <2> QED
    BY <1>0, <1>22, <2>1, <2>2, <2>3, <2>4 DEF VerifyConverged, Goto, RollBack, env
<1>23. CASE MarkVerified
  <2>1. plan' = plan /\ (Refresh' <=> Refresh)
    BY <1>23, PlanIsFixed DEF MarkVerified, MarkAt
  <2>2. (Old' <=> Old) /\ (New' <=> New)
    BY <1>23, <2>1, SameDisk DEF MarkVerified, MarkAt
  <2>3. marker' \in {InPhase("static_verification_passed")} \cup AfterFailedUpdate("static_verification_passed")
    BY <1>23 DEF MarkVerified, MarkAt
  <2>4. /\ MyMarker' <=> MyMarker
        /\ Recorded => Recorded'
        /\ marker'.boot = marker.boot
        /\ marker' = InPhase("static_verification_passed") /\ MyMarker => Recorded'
    BY <1>0, <2>3, MarkerMoves DEF Phases
  <2>5. /\ pc = "mark_verified" /\ boot' = boot
        /\ \/ marker' = InPhase("static_verification_passed") /\ Goto("mark_reboot")
           \/ RollBack
    BY <1>23 DEF MarkVerified, MarkAt, env
  <2> QED
    BY <1>0, <2>1, <2>2, <2>3, <2>4, <2>5 DEF Goto, RollBack
<1>24. CASE MarkReboot
  <2>1. plan' = plan /\ (Refresh' <=> Refresh)
    BY <1>24, PlanIsFixed DEF MarkReboot, MarkAt
  <2>2. (Old' <=> Old) /\ (New' <=> New)
    BY <1>24, <2>1, SameDisk DEF MarkReboot, MarkAt
  <2>3. marker' \in {InPhase("awaiting_reboot")} \cup AfterFailedUpdate("awaiting_reboot")
    BY <1>24 DEF MarkReboot, MarkAt
  <2>4. /\ MyMarker' <=> MyMarker
        /\ Recorded => Recorded'
        /\ marker'.boot = marker.boot
        /\ marker' = InPhase("awaiting_reboot") /\ MyMarker => Recorded'
    BY <1>0, <2>3, MarkerMoves DEF Phases
  <2>5. /\ pc = "mark_reboot" /\ boot' = boot
        /\ \/ marker' = InPhase("awaiting_reboot") /\ Goto("request")
           \/ RollBack
    BY <1>24 DEF MarkReboot, MarkAt, env
  <2> QED
    BY <1>0, <2>1, <2>2, <2>3, <2>4, <2>5 DEF Goto, RollBack
<1>25. CASE RequestReboot
  <2>1. plan' = plan /\ (Refresh' <=> Refresh)
    BY <1>25, PlanIsFixed DEF RequestReboot
  <2>2. (Old' <=> Old) /\ (New' <=> New)
    BY <1>25, <2>1, SameDisk DEF RequestReboot
  <2>3. (MyMarker' <=> MyMarker) /\ (Recorded' <=> Recorded) /\ marker'.boot = marker.boot
    BY <1>25, SameMarker DEF RequestReboot
  <2> QED
    BY <1>0, <1>25, <2>1, <2>2, <2>3 DEF RequestReboot, Return, env
<1>26. CASE Succeed
  <2>1. plan' = plan /\ (Refresh' <=> Refresh)
    BY <1>26, PlanIsFixed DEF Succeed
  <2>2. (Old' <=> Old) /\ (New' <=> New)
    BY <1>26, <2>1, SameDisk DEF Succeed
  <2> QED
    BY <1>0, <1>26, <2>1, <2>2 DEF Succeed, Return, env
<1>27. CASE UndoSkips
  <2>1. plan' = plan /\ (Refresh' <=> Refresh)
    BY <1>27, PlanIsFixed DEF UndoSkips
  <2>2. (Old' <=> Old) /\ (New' <=> New)
    BY <1>27, <2>1, SameDisk DEF UndoSkips
  <2>3. (MyMarker' <=> MyMarker) /\ (Recorded' <=> Recorded) /\ marker'.boot = marker.boot
    BY <1>27, SameMarker DEF UndoSkips
  <2> QED
    BY <1>0, <1>27, <2>1, <2>2, <2>3 DEF UndoSkips, UndoneThen, env
<1>28. CASE UndoOne
  <2>1. plan' = plan /\ (Refresh' <=> Refresh)
    BY <1>28, PlanIsFixed DEF UndoOne
  <2>2. (MyMarker' <=> MyMarker) /\ (Recorded' <=> Recorded) /\ marker'.boot = marker.boot
    BY <1>28, SameMarker DEF UndoOne
  <2> QED
    BY <1>0, <1>28, <2>1, <2>2 DEF UndoOne, UndoneThen, AtUndo, env
<1>29. CASE UndoFails
  <2>1. plan' = plan /\ (Refresh' <=> Refresh)
    BY <1>29, PlanIsFixed DEF UndoFails
  <2>2. (MyMarker' <=> MyMarker) /\ (Recorded' <=> Recorded) /\ marker'.boot = marker.boot
    BY <1>29, SameMarker DEF UndoFails
  <2> QED
    BY <1>0, <1>29, <2>1, <2>2 DEF UndoFails, UndoneThen, AtUndo, env
<1>30. CASE UndoDone
  <2>1. plan' = plan /\ (Refresh' <=> Refresh)
    BY <1>30, PlanIsFixed DEF UndoDone
  <2>2. (Old' <=> Old) /\ (New' <=> New)
    BY <1>30, <2>1, SameDisk DEF UndoDone
  <2>3. (MyMarker' <=> MyMarker) /\ (Recorded' <=> Recorded) /\ marker'.boot = marker.boot
    BY <1>30, SameMarker DEF UndoDone
  <2> QED
    BY <1>0, <1>30, <2>1, <2>2, <2>3 DEF UndoDone, Goto, env
<1>31. CASE UndoLoader
  <2>1. plan' = plan /\ (Refresh' <=> Refresh)
    BY <1>31, PlanIsFixed DEF UndoLoader
  <2>2. disk' = disk \/ disk' = [disk EXCEPT ![0] = "orig"]
    BY <1>31 DEF UndoLoader
  <2>3. (Old => Old') /\ (New => New')
    BY <1>0, <2>1, <2>2, LoaderIsNoTarget
  <2>4. (MyMarker' <=> MyMarker) /\ (Recorded' <=> Recorded) /\ marker'.boot = marker.boot
    BY <1>31, SameMarker DEF UndoLoader
  <2> QED
    BY <1>0, <1>31, <2>1, <2>2, <2>3, <2>4 DEF UndoLoader, Goto, AfterLoader, env
<1>32. CASE RestoreOriginal
  <2>1. plan' = plan /\ (Refresh' <=> Refresh)
    BY <1>32, PlanIsFixed DEF RestoreOriginal
  <2>2. disk' = disk \/ disk' = [disk EXCEPT ![0] = OriginalList]
    BY <1>32 DEF RestoreOriginal
  <2>3. (Old => Old') /\ (New => New')
    BY <1>0, <2>1, <2>2, LoaderIsNoTarget
  <2>4. (MyMarker' <=> MyMarker) /\ (Recorded' <=> Recorded) /\ marker'.boot = marker.boot
    BY <1>32, SameMarker DEF RestoreOriginal
  <2> QED
    BY <1>0, <1>32, <2>1, <2>2, <2>3, <2>4 DEF RestoreOriginal, env
<1>33. CASE Reverify
  <2>1. plan' = plan /\ (Refresh' <=> Refresh)
    BY <1>33, PlanIsFixed DEF Reverify
  <2>2. (Old' <=> Old) /\ (New' <=> New)
    BY <1>33, <2>1, SameDisk DEF Reverify
  <2>3. (MyMarker' <=> MyMarker) /\ (Recorded' <=> Recorded) /\ marker'.boot = marker.boot
    BY <1>33, SameMarker DEF Reverify
  <2>4. Fresh => Old
    BY <1>0, FreshIsOld
  <2> QED
    BY <1>0, <1>33, <2>1, <2>2, <2>3, <2>4 DEF Reverify, env
<1>34. CASE Close
  <2>1. plan' = plan /\ (Refresh' <=> Refresh)
    BY <1>34, PlanIsFixed DEF Close
  <2>2. (Old' <=> Old) /\ (New' <=> New)
    BY <1>34, <2>1, SameDisk DEF Close
  <2>3. marker' = marker \/ marker' = NoMarker \/ marker' \in {InPhase("recovery_required")} \cup AfterFailedUpdate("recovery_required")
    BY <1>34 DEF Close
  <2>4. rbFailed => (MyMarker' <=> MyMarker) /\ (Recorded => Recorded')
    BY <1>0, <1>34, MarkerMoves, SameMarker DEF Close, Phases
  <2> QED
    BY <1>0, <1>34, <2>1, <2>2, <2>3, <2>4 DEF Close, Return, env
<1>35. CASE Crash
  <2>1. plan' = plan /\ (Refresh' <=> Refresh)
    BY <1>35, PlanIsFixed DEF Crash
  <2>2. (Old' <=> Old) /\ (New' <=> New)
    BY <1>35, <2>1, SameDisk DEF Crash
  <2>3. (MyMarker' <=> MyMarker) /\ (Recorded' <=> Recorded) /\ marker'.boot = marker.boot
    BY <1>35, SameMarker DEF Crash
  <2> QED
    BY <1>0, <1>35, <2>1, <2>2, <2>3 DEF Crash, Ended, env
<1>36. CASE Edit
  <2>1. plan' = plan /\ (Refresh' <=> Refresh)
    BY <1>36, PlanIsFixed DEF Edit
  <2>2. \A k \in Targets : disk'[k] = disk[k] \/ disk'[k] = "other"
    BY <1>0, <1>36, PlanFacts DEF Edit, TypeOK
  <2>3. (Old => Old') /\ (New => New')
    BY <2>1, <2>2, Undisturbed
  <2>4. (MyMarker' <=> MyMarker) /\ (Recorded' <=> Recorded) /\ marker'.boot = marker.boot
    BY <1>36, SameMarker DEF Edit
  <2> QED
    BY <1>0, <1>36, <2>1, <2>2, <2>3, <2>4 DEF Edit, run, Editable
<1>37. CASE Reboot
  <2>1. plan' = plan /\ (Refresh' <=> Refresh)
    BY <1>37, PlanIsFixed DEF Reboot
  <2>2. (Old' <=> Old) /\ (New' <=> New)
    BY <1>37, <2>1, SameDisk DEF Reboot
  <2>3. Recorded => Recorded'
    BY <1>37, NoMarkerFacts, SameMarker DEF Reboot, Recorded
  <2> QED
    BY <1>0, <1>37, <2>1, <2>2, <2>3 DEF Reboot, Ended
<1>38. CASE PendingNote
  <2>1. plan' = plan /\ (Refresh' <=> Refresh)
    BY <1>38, PlanIsFixed DEF PendingNote
  <2>2. (Old' <=> Old) /\ (New' <=> New)
    BY <1>38, <2>1, SameDisk DEF PendingNote
  <2>3. marker' \in {InPhase("awaiting_post_boot_verification")} \cup AfterFailedUpdate("awaiting_post_boot_verification")
    BY <1>38 DEF PendingNote
  <2>4. (MyMarker' <=> MyMarker) /\ (Recorded => Recorded') /\ marker'.boot = marker.boot
    BY <1>0, <2>3, MarkerMoves DEF Phases
  <2>5. pc \in Finished
    BY <1>38 DEF PendingNote, MyMarker
  <2> QED
    BY <1>0, <1>38, <2>1, <2>2, <2>3, <2>4, <2>5 DEF PendingNote, env, run
<1>39. CASE PendingRetire
  <2>1. plan' = plan /\ (Refresh' <=> Refresh)
    BY <1>39, PlanIsFixed DEF PendingRetire
  <2>2. (Old' <=> Old) /\ (New' <=> New)
    BY <1>39, <2>1, SameDisk DEF PendingRetire
  <2>3. New
    BY <1>0, <1>39, ConvergedIsNew DEF PendingRetire
  <2>4. ~ MyMarker' /\ ~ Recorded'
    BY <1>39, MarkerGoes DEF PendingRetire
  <2>5. pc \in Finished
    BY <1>39 DEF PendingRetire, MyMarker
  <2> QED
    BY <1>0, <1>39, <2>1, <2>2, <2>3, <2>4, <2>5 DEF PendingRetire, env, run
<1>40. CASE UNCHANGED vars
  <2>1. (Old' <=> Old) /\ (New' <=> New) /\ (Refresh' <=> Refresh)
    BY <1>40, SameDisk, PlanIsFixed DEF vars
  <2>2. (MyMarker' <=> MyMarker) /\ (Recorded' <=> Recorded) /\ marker'.boot = marker.boot
    BY <1>40, SameMarker DEF vars
  <2> QED
    BY <1>0, <1>40, <2>1, <2>2 DEF vars, run, env
<1> QED
  BY <1>1, <1>2, <1>3, <1>4, <1>5, <1>6, <1>7, <1>8, <1>9, <1>10, <1>11, <1>12, <1>13, <1>14, <1>15, <1>16, <1>17, <1>18, <1>19, <1>20, <1>21, <1>22, <1>23, <1>24, <1>25, <1>26, <1>27, <1>28, <1>29, <1>30, <1>31, <1>32, <1>33, <1>34, <1>35, <1>36, <1>37, <1>38, <1>39, <1>40
  DEF Next, RunStep, EnvStep, Prepare, Quiesce, Converge, Finish, Undo

(* The inductive invariant holds of every behaviour: nothing changes before    *)
(* there is a durable record, nothing commits but the new state, nothing       *)
(* closes cleanly but the old one (run.go 434-881).                            *)
THEOREM Invariant == Spec => []IInv
PROOF
  BY InvInit, InvStep, PTL DEF Spec

(* All or nothing, whatever fails, crashes or loses power: without a marker of *)
(* this run the targets are all old or all new (run.go 168-174, 850, 863).     *)
THEOREM AlwaysAllOrNothing == Spec => []AllOrNothing
PROOF
<1>1. IInv => AllOrNothing
  BY DEF IInv, RecordedOrAtomic, Recorded, AllOrNothing
<1> QED
  BY <1>1, Invariant, PTL

(* A report that says what the targets are at says what they are at (run.go    *)
(* 124, 481, 814, 848).                                                        *)
THEOREM ReportsAreTrue == Spec => []ReportIsTrue
PROOF
<1>1. IInv => ReportIsTrue
  BY DEF IInv
<1> QED
  BY <1>1, Invariant, PTL

-----------------------------------------------------------------------------
(* The contract. *)

LEMMA ContractInit == Init /\ IInv => Contract!Init
PROOF
<1> SUFFICES ASSUME Init, IInv PROVE Contract!Init
  OBVIOUS
<1>1. Old
  BY DEF Init, IInv, NothingChangedYet, PreMarker
<1>2. ClaimBar = "none"
  BY DEF Init, ClaimBar
<1>3. OpenBar \in BOOLEAN
  BY DEF OpenBar
<1> QED
  BY <1>1, <1>2, <1>3 DEF Contract!Init, Contract!Versions, VersionsBar

(* An orderly step between two states of the invariant is a step of the        *)
(* contract, or a stutter.                                                     *)
LEMMA ContractStep == IInv /\ IInv' /\ Orderly => [Contract!Next]_(Contract!vars)
PROOF
<1> SUFFICES ASSUME IInv, IInv', Orderly PROVE [Contract!Next]_(Contract!vars)
  OBVIOUS
<1> DEFINE Same == VersionsBar' = VersionsBar
<1>1. (Old' <=> Old) /\ (New' <=> New) => Same
  BY DEF VersionsBar
<1>2. (Old => Old') /\ (New => New') => VersionsBar \subseteq VersionsBar'
  BY DEF VersionsBar
<1>3. VersionsBar' \subseteq Contract!Versions
  BY DEF VersionsBar, Contract!Versions
<1>4. ~ OpenBar' => VersionsBar' # {}
  BY DEF IInv, RecordedOrAtomic, OpenBar, VersionsBar
<1>5. /\ OpenBar \in BOOLEAN /\ OpenBar' \in BOOLEAN
      /\ (Recorded' <=> Recorded) => OpenBar' = OpenBar
  BY DEF OpenBar, Orderly
<1>6. CASE pc # "done" /\ pc' = "done"
  <2>1. Same
    BY <1>1, <1>6 DEF Orderly, Converging, Undoing
  <2>2. ClaimBar = "none"
    BY <1>6 DEF ClaimBar
  <2>3. ClaimBar' \in VersionsBar' \cup {"unknown"}
    BY <1>6 DEF ClaimBar, VersionsBar, IInv, ReportIsTrue, TypeOK, Statuses
  <2>4. Contract!Report
    BY <1>4, <1>5, <2>1, <2>2, <2>3 DEF Contract!Report
  <2> QED
    BY <2>4 DEF Contract!Next
<1>7. CASE ~ (pc # "done" /\ pc' = "done")
  <2>1. ClaimBar' = ClaimBar
    BY <1>7 DEF ClaimBar, Orderly
  <2>2. CASE Same
    <3>1. CASE OpenBar' = OpenBar
      BY <2>1, <2>2, <3>1 DEF Contract!vars
    <3>2. CASE ~ OpenBar /\ OpenBar'
      BY <2>1, <2>2, <3>2 DEF Contract!Next, Contract!Record
    <3>3. CASE OpenBar /\ ~ OpenBar'
      BY <1>4, <2>1, <2>2, <3>3 DEF Contract!Next, Contract!Settle
    <3> QED
      BY <1>5, <3>1, <3>2, <3>3
  <2>3. CASE (Old => Old') /\ (New => New') /\ (Recorded' <=> Recorded)
    BY <1>2, <1>3, <1>5, <2>1, <2>3 DEF Contract!Next, Contract!Disturb
  <2>4. CASE pc \in Converging \cup Undoing /\ pc' \in Converging \cup Undoing
    <3>1. OpenBar /\ OpenBar'
      BY <2>4 DEF IInv, RecordedWhileItChanges, OpenBar
    <3>2. ClaimBar = "none"
      BY <2>4 DEF ClaimBar, Converging, Undoing
    <3> QED
      BY <1>3, <1>5, <2>1, <3>1, <3>2 DEF Contract!Next, Contract!Change
  <2> QED
    BY <1>1, <2>2, <2>3, <2>4 DEF Orderly
<1> QED
  BY <1>6, <1>7

(* Every restore keeps its contract (run.go 117-881).                          *)
THEOREM KeepsContract == Spec => MeetsContract
PROOF
<1>1. Init => IInv
  BY InvInit
<1>2. Init /\ IInv => Contract!Init
  BY ContractInit
<1>3. IInv /\ [Next]_vars => IInv' /\ [Contract!Next]_(Contract!vars)
  BY InvStep, ContractStep
<1> QED
  BY <1>1, <1>2, <1>3, PTL DEF Spec, MeetsContract, Contract!Spec

=============================================================================
