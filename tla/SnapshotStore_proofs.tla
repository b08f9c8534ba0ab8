------------------------ MODULE SnapshotStore_proofs ------------------------
(***************************************************************************)
(* Theorems about SnapshotStore, for every set of names, any number of runs *)
(* and any number of troubles.                                              *)
(***************************************************************************)
EXTENDS SnapshotStore, TLAPS

USE StoreAssumption DEF Runs

BackupSteps == CreateSteps \cup UploadSteps \cup {"lock", "decide", "ask", "close"}

(* The steps at which a run of a kind can be.                                 *)
StepsOf(kind) ==
    Ended \cup
    CASE kind = "create"    -> CreateSteps
      [] kind = "backup"    -> BackupSteps
      [] kind = "upload"    -> UploadSteps
      [] kind = "download"  -> DownloadSteps
      [] kind = "delete"    -> DeleteSteps
      [] kind = "trash"     -> TrashSteps
      [] kind = "both"      -> TrashSteps \cup DeleteSteps
      [] kind = "dashboard" -> {"show"}
      [] OTHER              -> {"new"}

RunInv ==
    \A r \in Runs :
        /\ run[r].pc \in StepsOf(run[r].kind)
        /\ run[r].kind = "none" => run[r] = Idle
        /\ run[r].kind # "none" => run[r].name \in Names
        /\ run[r].kind # "backup" => run[r].ui

(* One run changes, and stays a run. *)
LEMMA RunTyped ==
    ASSUME run \in [Runs -> RunSet], NEW r \in Runs,
           NEW pc \in CommandSteps \cup DialogSteps \cup Ended \cup {"new"},
           NEW temp \in Data \cup {"none"}, NEW seen \in Nat, NEW before \in SUBSET ObjectSet
    PROVE  /\ [run EXCEPT ![r].pc = pc] \in [Runs -> RunSet]
           /\ [run EXCEPT ![r].pc = pc, ![r].temp = temp] \in [Runs -> RunSet]
           /\ [run EXCEPT ![r].pc = pc, ![r].temp = temp, ![r].seen = seen] \in [Runs -> RunSet]
           /\ [run EXCEPT ![r].pc = pc, ![r].seen = seen] \in [Runs -> RunSet]
           /\ [run EXCEPT ![r].pc = pc, ![r].before = before] \in [Runs -> RunSet]
PROOF
<1>1. \A one \in RunSet :
          /\ [one EXCEPT !.pc = pc] \in RunSet
          /\ [one EXCEPT !.pc = pc, !.temp = temp] \in RunSet
          /\ [one EXCEPT !.pc = pc, !.temp = temp, !.seen = seen] \in RunSet
          /\ [one EXCEPT !.pc = pc, !.seen = seen] \in RunSet
          /\ [one EXCEPT !.pc = pc, !.before = before] \in RunSet
  BY DEF RunSet
<1>2. \A one \in RunSet : [run EXCEPT ![r] = one] \in [Runs -> RunSet]
  OBVIOUS
<1> QED  BY <1>1, <1>2

(* Where a command goes when it ends. *)
LEMMA AfterFacts ==
    ASSUME RunsOK, RunInv, NEW r \in Runs, run[r].pc \in CommandSteps, NEW ok \in BOOLEAN
    PROVE  /\ After(r, ok) \in StepsOf(run[r].kind)
           /\ After(r, ok) \in Ended \cup {"decide", "ask", "close", "inspect"}
           /\ ~run[r].ui => After(r, ok) = "killed"
           /\ After(r, ok) = "inspect" => run[r].kind = "both" /\ run[r].pc \in TrashSteps /\ ok
           /\ After(r, ok) = "ok" => ok
  BY DEF RunsOK, RunSet, RunInv, After, StepsOf, BackupSteps, CreateSteps, DownloadSteps,
         UploadSteps, TrashSteps, DeleteSteps, CommandSteps, DialogSteps, Ended, First

(* A backup of a living interface holds the lock from its first command on.   *)
LockInv ==
    \A r \in Runs :
        run[r].kind = "backup" /\ run[r].pc \in CommandSteps \cup {"decide", "ask", "close"}
        => lock = r

(* Only what was validated is about to be published. *)
TempInv == \A r \in Runs : run[r].pc = "publish" => run[r].temp = "whole"

Control == RunInv /\ LockInv /\ TempInv

(* The run and the lock alone. *)
RunsTyped == run \in [Runs -> RunSet] /\ lock \in Runs \cup {0}

LEMMA EndsKeeps ==
    ASSUME RunsOK, Control, NEW r \in Runs, run[r].pc \in CommandSteps, NEW ok \in BOOLEAN,
           Ends(r, ok)
    PROVE  RunsTyped' /\ Control'
PROOF
<1>1. /\ After(r, ok) \in StepsOf(run[r].kind)
      /\ After(r, ok) \in Ended \cup {"decide", "ask", "close", "inspect"}
      /\ ~run[r].ui => After(r, ok) = "killed"
      /\ After(r, ok) = "inspect" => run[r].kind = "both"
  BY AfterFacts DEF Control
<1> DEFINE next == After(r, ok)
<1>2. run' = [run EXCEPT ![r].pc = next, ![r].temp = "none", ![r].seen = 0]
  BY DEF Ends
<1> HIDE DEF next
<1>3. run[r] # Idle /\ run[r].kind # "none"
  BY DEF Control, RunInv, Idle, StepsOf, Ended, CommandSteps, CreateSteps, DownloadSteps, UploadSteps, TrashSteps, DeleteSteps
<1>4. RunsTyped'
  <2>1. next \in CommandSteps \cup DialogSteps \cup Ended \cup {"new"}
    BY <1>1 DEF CommandSteps, DialogSteps, DeleteSteps, next
  <2>2. run' \in [Runs -> RunSet]
    BY <1>2, <2>1, RunTyped DEF RunsOK
  <2> QED  BY <2>2 DEF RunsTyped, RunsOK, Ends
<1>5. RunInv'
  <2> SUFFICES ASSUME NEW s \in Runs PROVE RunInv!(s)'
    BY DEF RunInv
  <2>1. CASE s = r
    BY <2>1, <1>1, <1>2, <1>3 DEF RunsOK, RunSet, Control, RunInv, next
  <2>2. CASE s # r
    BY <2>2, <1>2 DEF RunsOK, RunSet, Control, RunInv
  <2> QED  BY <2>1, <2>2
<1>6. LockInv'
  BY <1>1, <1>2 DEF RunsOK, RunSet, Control, RunInv, LockInv, Ends, Ended, CommandSteps, CreateSteps,
         DownloadSteps, UploadSteps, TrashSteps, DeleteSteps, next
<1>7. TempInv'
  BY <1>1, <1>2 DEF RunsOK, RunSet, Control, TempInv, Ended, next
<1> QED  BY <1>4, <1>5, <1>6, <1>7 DEF Control

(* A run goes on to another step of its kind, and the lock stays. *)
LEMMA AdvanceKeeps ==
    ASSUME RunsOK, Control, NEW r \in Runs, NEW step \in StepsOf(run[r].kind), run[r].kind # "none",
           run' \in [Runs -> RunSet], \A s \in Runs \ {r} : run'[s] = run[s],
           run'[r].kind = run[r].kind, run'[r].name = run[r].name, run'[r].ui = run[r].ui,
           run'[r].pc = step,
           UNCHANGED lock,
           run[r].kind = "backup" /\ step \in CommandSteps \cup {"decide", "ask", "close"} => lock = r,
           step = "publish" => run'[r].temp = "whole"
    PROVE  RunsTyped' /\ Control'
PROOF
<1>1. RunsTyped'
  BY DEF RunsTyped, RunsOK
<1>2. RunInv'
  <2> SUFFICES ASSUME NEW s \in Runs PROVE RunInv!(s)'
    BY DEF RunInv
  <2>1. CASE s = r
    BY <2>1 DEF Control, RunInv
  <2>2. CASE s # r
    BY <2>2 DEF Control, RunInv
  <2> QED  BY <2>1, <2>2
<1>3. LockInv'
  BY DEF Control, LockInv
<1>4. TempInv'
  BY DEF Control, TempInv
<1> QED  BY <1>1, <1>2, <1>3, <1>4 DEF Control

LEMMA GotoKeeps ==
    ASSUME RunsOK, Control, NEW r \in Runs, NEW step \in StepsOf(run[r].kind), run[r].kind # "none",
           Goto(r, step), UNCHANGED lock,
           run[r].kind = "backup" /\ step \in CommandSteps \cup {"decide", "ask", "close"} => lock = r,
           step = "publish" => run[r].temp = "whole"
    PROVE  RunsTyped' /\ Control'
PROOF
<1>1. run' = [run EXCEPT ![r].pc = step] /\ run \in [Runs -> RunSet]
  BY DEF Goto, RunsOK
<1>2. step \in CommandSteps \cup DialogSteps \cup Ended \cup {"new"}
  BY DEF StepsOf, BackupSteps, CommandSteps, DialogSteps
<1>3. run' \in [Runs -> RunSet]
  BY <1>1, <1>2, RunTyped
<1>4. /\ \A s \in Runs \ {r} : run'[s] = run[s]
      /\ run'[r].kind = run[r].kind /\ run'[r].name = run[r].name /\ run'[r].ui = run[r].ui
      /\ run'[r].pc = step /\ run'[r].temp = run[r].temp
  BY <1>1 DEF RunSet
<1> QED  BY <1>3, <1>4, AdvanceKeeps

(* The calls follow one another in every kind of run that makes them. *)
LEMMA NextSteps ==
    ASSUME NEW kind
    PROVE  LET after(one, other) == one \in StepsOf(kind) => other \in StepsOf(kind)
           IN  /\ after("archive", "publish") /\ after("fetch", "check") /\ after("check", "publish")
               /\ after("publish", "sync") /\ after("sync", "confirm")
               /\ after("source", "look") /\ after("look", "put") /\ after("look", "roundtrip")
               /\ after("put", "roundtrip") /\ after("roundtrip", "compare")
               /\ after("erase", "list")
               /\ after("inspect", "validate") /\ after("validate", "remove") /\ after("remove", "syncRemoval")
               /\ after("lock", "archive") /\ after("decide", "source") /\ after("decide", "close")
               /\ after("ask", "source") /\ after("ask", "close")
  BY DEF StepsOf, BackupSteps, CreateSteps, DownloadSteps, UploadSteps, TrashSteps, DeleteSteps, Ended

(* The dialogs belong to backups, but for the dashboard. *)
LEMMA KindFacts ==
    ASSUME Control, NEW r \in Runs
    PROVE  /\ Ended \subseteq StepsOf(run[r].kind)
           /\ run[r].pc \notin Ended \cup {"new"} => run[r].kind # "none"
           /\ run[r].pc \in {"lock", "decide", "ask", "close"} => run[r].kind = "backup"
           /\ run[r].pc = "show" => run[r].kind = "dashboard"
  BY DEF Control, RunInv, StepsOf, BackupSteps, CreateSteps, DownloadSteps, UploadSteps, TrashSteps,
         DeleteSteps, Ended

LEMMA FirstFacts ==
    \A kind \in DOMAIN First :
        /\ First[kind] \in CommandSteps \cup DialogSteps
        /\ First[kind] \in StepsOf(kind) /\ First[kind] \notin {"publish", "decide", "ask", "close"}
        /\ kind = "backup" => First[kind] = "lock"
        /\ kind # "none"
PROOF
<1>1. DOMAIN First =
          {"create", "backup", "upload", "download", "delete", "trash", "both", "dashboard"}
  BY DEF First
<1>2. /\ First["create"] = "archive" /\ First["backup"] = "lock" /\ First["upload"] = "source"
      /\ First["download"] = "fetch" /\ First["delete"] = "inspect" /\ First["trash"] = "erase"
      /\ First["both"] = "erase" /\ First["dashboard"] = "show"
  BY DEF First
<1> QED
  BY <1>1, <1>2 DEF StepsOf, BackupSteps, CommandSteps, DialogSteps, CreateSteps, DownloadSteps,
                    UploadSteps, TrashSteps, DeleteSteps

(* Every step keeps the runs typed, and the lock with the backup that works.  *)
LEMMA ControlStep ==
    ASSUME TypeOK, Control, [Next]_vars
    PROVE  RunsTyped' /\ Control'
PROOF
<1> USE DEF TypeOK
<1> DEFINE keeps == RunsTyped' /\ Control'
<1> SUFFICES keeps
  OBVIOUS
<1> HIDE DEF keeps
<1>a. ASSUME NEW r \in Runs, NEW ok \in BOOLEAN, run[r].pc \in CommandSteps, Ends(r, ok)
      PROVE  keeps
  BY <1>a, EndsKeeps DEF keeps
<1>b. ASSUME NEW r \in Runs, NEW step \in StepsOf(run[r].kind), Goto(r, step), UNCHANGED lock,
             run[r].kind # "none",
             run[r].kind = "backup" /\ step \in CommandSteps \cup {"decide", "ask", "close"} => lock = r,
             step = "publish" => run[r].temp = "whole"
      PROVE  keeps
  BY <1>b, GotoKeeps DEF keeps
<1>c. \A r \in Runs : run[r].pc \in StepsOf(run[r].kind)
  BY DEF Control, RunInv
<1>d. \A r \in Runs : run[r].pc \in CommandSteps => run[r].kind # "none" /\ (run[r].kind = "backup" => lock = r)
  BY KindFacts DEF Control, LockInv, CommandSteps, CreateSteps, DownloadSteps, UploadSteps, TrashSteps, DeleteSteps, Ended
<1> USE DEF CommandSteps, CreateSteps, DownloadSteps, UploadSteps, TrashSteps, DeleteSteps
<1>1. ASSUME NEW r \in Runs, Archive(r) PROVE keeps
  <2>1. CASE Ends(r, FALSE)
    BY <1>1, <2>1, <1>a DEF Archive
  <2>2. CASE run' = [run EXCEPT ![r].pc = "publish", ![r].temp = "whole"] /\ UNCHANGED lock
    <3>1. run' \in [Runs -> RunSet]
      BY <2>2, RunTyped DEF Data, RunsOK
    <3>2. /\ \A s \in Runs \ {r} : run'[s] = run[s]
          /\ run'[r].kind = run[r].kind /\ run'[r].name = run[r].name /\ run'[r].ui = run[r].ui
          /\ run'[r].pc = "publish" /\ run'[r].temp = "whole"
      BY <2>2 DEF RunsOK, RunSet
    <3> QED  BY <1>1, <2>2, <3>1, <3>2, <1>c, <1>d, NextSteps, AdvanceKeeps DEF Archive, keeps
  <2> QED  BY <1>1, <2>1, <2>2 DEF Archive
<1>2. ASSUME NEW r \in Runs, Check(r) PROVE keeps
  <2>1. CASE Goto(r, "publish") /\ UNCHANGED lock /\ run[r].temp = "whole"
    BY <1>2, <2>1, <1>b, <1>c, <1>d, NextSteps DEF Check
  <2> QED  BY <1>2, <2>1, <1>a DEF Check
<1>e. ASSUME NEW r \in Runs, run[r].pc \in CommandSteps, NEW step \in StepsOf(run[r].kind),
             step \in {"check", "compare"}, Receive(r, step)
      PROVE  keeps
  <2>1. CASE Ends(r, FALSE)
    BY <1>e, <2>1, <1>a
  <2>2. CASE ~Ends(r, FALSE)
    <3>1. PICK data \in Data :
              run' = [run EXCEPT ![r].pc = step, ![r].temp = data, ![r].seen = erased[run[r].name]]
      BY <1>e, <2>2 DEF Receive, Objects, CloudOK, ObjectSet, Data
    <3>2. erased[run[r].name] \in Nat
      BY <1>d, <1>e DEF Control, RunInv, CloudOK
    <3>3. run' \in [Runs -> RunSet]
      BY <1>e, <3>1, <3>2, RunTyped DEF RunsOK
    <3>4. /\ \A s \in Runs \ {r} : run'[s] = run[s]
          /\ run'[r].kind = run[r].kind /\ run'[r].name = run[r].name /\ run'[r].ui = run[r].ui
          /\ run'[r].pc = step
      BY <3>1 DEF RunsOK, RunSet
    <3> QED  BY <1>e, <2>2, <3>3, <3>4, <1>d, AdvanceKeeps DEF Receive, keeps
  <2> QED  BY <2>1, <2>2
<1>3. ASSUME NEW r \in Runs, Fetch(r) PROVE keeps
  BY <1>3, <1>c, <1>e, NextSteps DEF Fetch
<1>4. ASSUME NEW r \in Runs, RoundTrip(r) PROVE keeps
  BY <1>4, <1>c, <1>e, NextSteps DEF RoundTrip
<1>5. ASSUME NEW r \in Runs, Publish(r) PROVE keeps
  <2>1. CASE run' = [run EXCEPT ![r].pc = "sync", ![r].temp = "none"] /\ UNCHANGED lock
    <3>1. run' \in [Runs -> RunSet]
      BY <2>1, RunTyped DEF RunsOK
    <3>2. /\ \A s \in Runs \ {r} : run'[s] = run[s]
          /\ run'[r].kind = run[r].kind /\ run'[r].name = run[r].name /\ run'[r].ui = run[r].ui
          /\ run'[r].pc = "sync"
      BY <2>1 DEF RunsOK, RunSet
    <3> QED  BY <1>5, <2>1, <3>1, <3>2, <1>c, <1>d, NextSteps, AdvanceKeeps DEF Publish, keeps
  <2> QED  BY <1>5, <2>1, <1>a DEF Publish
<1>6. ASSUME NEW r \in Runs, SyncDirectory(r) PROVE keeps
  BY <1>6, <1>a, <1>b, <1>c, <1>d, NextSteps DEF SyncDirectory
<1>7. ASSUME NEW r \in Runs, Confirm(r) PROVE keeps
  BY <1>7, <1>a DEF Confirm
<1>8. ASSUME NEW r \in Runs, Source(r) PROVE keeps
  BY <1>8, <1>a, <1>b, <1>c, <1>d, NextSteps DEF Source
<1>9. ASSUME NEW r \in Runs, Look(r) PROVE keeps
  BY <1>9, <1>a, <1>b, <1>c, <1>d, NextSteps DEF Look
<1>10. ASSUME NEW r \in Runs, Put(r) PROVE keeps
  BY <1>10, <1>a, <1>b, <1>c, <1>d, NextSteps DEF Put
<1>11. ASSUME NEW r \in Runs, Compare(r) PROVE keeps
  BY <1>11, <1>a DEF Compare
<1>12. ASSUME NEW r \in Runs, List(r) PROVE keeps
  BY <1>12, <1>a DEF List
<1>13. ASSUME NEW r \in Runs, Validate(r) PROVE keeps
  BY <1>13, <1>a, <1>b, <1>c, <1>d, NextSteps DEF Validate
<1>14. ASSUME NEW r \in Runs, Remove(r) PROVE keeps
  BY <1>14, <1>a, <1>b, <1>c, <1>d, NextSteps DEF Remove
<1>15. ASSUME NEW r \in Runs, SyncRemoval(r) PROVE keeps
  BY <1>15, <1>a DEF SyncRemoval
<1>16. ASSUME NEW r \in Runs, Fail(r) PROVE keeps
  BY <1>16, <1>a DEF Fail
<1>17. ASSUME NEW r \in Runs, Kill(r) PROVE keeps
  BY <1>17, <1>a DEF Kill
<1>18. ASSUME NEW r \in Runs, Erase(r) PROVE keeps
  <2>1. CASE run' = [run EXCEPT ![r].pc = "list", ![r].before = Objects(run[r].name)] /\ UNCHANGED lock
    <3>1. run' \in [Runs -> RunSet]
      BY <2>1, RunTyped DEF RunsOK, CloudOK, Objects
    <3>2. /\ \A s \in Runs \ {r} : run'[s] = run[s]
          /\ run'[r].kind = run[r].kind /\ run'[r].name = run[r].name /\ run'[r].ui = run[r].ui
          /\ run'[r].pc = "list"
      BY <2>1 DEF RunsOK, RunSet
    <3> QED  BY <1>18, <2>1, <3>1, <3>2, <1>c, <1>d, NextSteps, AdvanceKeeps DEF Erase, keeps
  <2> QED  BY <1>18, <2>1, <1>a DEF Erase
<1>19. ASSUME NEW r \in Runs, Inspect(r) PROVE keeps
  <2>1. CASE ~Ends(r, FALSE)
    <3>1. PICK f \in At(run[r].name) : run' = [run EXCEPT ![r].pc = "validate", ![r].seen = f.by]
      BY <1>19, <2>1 DEF Inspect
    <3>2. f.by \in Nat
      BY DEF At, StoreOK, Files
    <3>3. run' \in [Runs -> RunSet]
      BY <3>1, <3>2, RunTyped DEF RunsOK
    <3>4. /\ \A s \in Runs \ {r} : run'[s] = run[s]
          /\ run'[r].kind = run[r].kind /\ run'[r].name = run[r].name /\ run'[r].ui = run[r].ui
          /\ run'[r].pc = "validate"
      BY <3>1 DEF RunsOK, RunSet
    <3> QED  BY <1>19, <2>1, <3>3, <3>4, <1>c, <1>d, NextSteps, AdvanceKeeps DEF Inspect, keeps
  <2> QED  BY <1>19, <2>1, <1>a DEF Inspect
<1>20. ASSUME NEW r \in Runs, Decide(r) PROVE keeps
  <2>1. run[r].kind = "backup" /\ lock = r
    BY <1>20, KindFacts DEF Decide, Control, LockInv
  <2> QED  BY <1>20, <2>1, <1>b, <1>c, NextSteps DEF Decide
<1>21. ASSUME NEW r \in Runs, Show(r) PROVE keeps
  <2>1. run[r].kind = "dashboard" /\ "ok" \in StepsOf(run[r].kind)
    BY <1>21, KindFacts DEF Show, Ended
  <2> QED  BY <1>21, <2>1, <1>b DEF Show
<1>22. ASSUME NEW r \in Runs, Start(r) PROVE keeps
  <2>1. PICK kind \in DOMAIN First, n \in Names :
            run' = [run EXCEPT ![r] = [Idle EXCEPT !.kind = kind, !.name = n, !.pc = First[kind]]]
    BY <1>22 DEF Start
  <2> DEFINE one == [Idle EXCEPT !.kind = kind, !.name = n, !.pc = First[kind]]
  <2>2. one \in RunSet /\ one.kind = kind /\ one.name = n /\ one.pc = First[kind] /\ one.ui
        /\ one.temp = "none"
    BY FirstFacts DEF Idle, RunSet, Data
  <2>3. /\ one.pc \in StepsOf(kind) /\ one.pc \notin {"publish", "decide", "ask", "close"}
        /\ kind = "backup" => one.pc = "lock"
        /\ kind # "none"
    BY <2>2, FirstFacts
  <2>4. run' = [run EXCEPT ![r] = one]
    BY <2>1
  <2> HIDE DEF one
  <2>5. RunsTyped'
    BY <1>22, <2>2, <2>4 DEF RunsTyped, RunsOK, Start
  <2>6. run'[r] = one /\ \A s \in Runs \ {r} : run'[s] = run[s]
    BY <2>4 DEF RunsOK
  <2>7. RunInv'
    <3> SUFFICES ASSUME NEW s \in Runs PROVE RunInv!(s)'
      BY DEF RunInv
    <3>1. CASE s = r
      BY <3>1, <2>2, <2>3, <2>6
    <3>2. CASE s # r
      BY <3>2, <2>6 DEF Control, RunInv
    <3> QED  BY <3>1, <3>2
  <2>8. LockInv'
    BY <1>22, <2>2, <2>3, <2>6 DEF Control, LockInv, Start
  <2>9. TempInv'
    BY <2>3, <2>6 DEF Control, TempInv
  <2> QED  BY <2>5, <2>7, <2>8, <2>9 DEF Control, keeps
<1>23. ASSUME NEW r \in Runs, TakeLock(r) PROVE keeps
  <2>1. CASE Goto(r, "failed") /\ UNCHANGED lock
    BY <1>23, <2>1, <1>b, KindFacts DEF Ended, TakeLock
  <2>2. CASE lock = 0 /\ lock' = r /\ Goto(r, "archive")
    <3>1. run' = [run EXCEPT ![r].pc = "archive"] /\ run' \in [Runs -> RunSet]
      BY <2>2, RunTyped DEF Goto, RunsOK
    <3>2. /\ \A s \in Runs \ {r} : run'[s] = run[s]
          /\ run'[r].kind = run[r].kind /\ run'[r].name = run[r].name /\ run'[r].ui = run[r].ui
          /\ run'[r].pc = "archive" /\ run'[r].kind # "none"
      BY <1>23, <3>1, KindFacts DEF RunsOK, RunSet, TakeLock, Ended
    <3>3. RunsTyped'
      BY <2>2, <3>1 DEF RunsTyped
    <3>4. RunInv'
      <4> SUFFICES ASSUME NEW s \in Runs PROVE RunInv!(s)'
        BY DEF RunInv
      <4>1. CASE s = r
        BY <1>23, <4>1, <3>2, <1>c, NextSteps DEF Control, RunInv, TakeLock
      <4>2. CASE s # r
        BY <4>2, <3>2 DEF Control, RunInv
      <4> QED  BY <4>1, <4>2
    <3>5. LockInv'
      BY <2>2, <3>2 DEF Control, LockInv
    <3>6. TempInv'
      BY <3>2 DEF Control, TempInv
    <3> QED  BY <3>3, <3>4, <3>5, <3>6 DEF Control, keeps
  <2> QED  BY <1>23, <2>1, <2>2 DEF TakeLock
<1>24. ASSUME NEW r \in Runs, ReleaseLock(r) \/ KillInterface(r) PROVE keeps
  <2>1. run' \in [Runs -> RunSet]
    <3>1. CASE ReleaseLock(r)
      BY <3>1, RunTyped DEF ReleaseLock, Goto, RunsOK, Ended
    <3>2. CASE KillInterface(r)
      <4> DEFINE next == IF run[r].pc \in CommandSteps THEN run[r].pc ELSE "killed"
                 one  == [run[r] EXCEPT !.ui = FALSE, !.pc = next]
      <4>1. run[r] \in RunSet /\ next \in CommandSteps \cup Ended
        BY DEF RunsOK, Ended
      <4> HIDE DEF next
      <4>2. one \in RunSet
        BY <4>1 DEF RunSet
      <4>3. run' = [run EXCEPT ![r] = one]
        BY <3>2 DEF KillInterface, next
      <4> HIDE DEF one
      <4> QED  BY <4>2, <4>3 DEF RunsOK
    <3> QED  BY <1>24, <3>1, <3>2
  <2>2. run[r].kind = "backup" /\ Ended \subseteq StepsOf("backup") /\ "killed" \in Ended /\ "ok" \in Ended
    BY <1>24, KindFacts DEF ReleaseLock, KillInterface, StepsOf, Ended
  <2>3. /\ \A s \in Runs \ {r} : run'[s] = run[s]
        /\ run'[r].kind = run[r].kind /\ run'[r].name = run[r].name /\ run'[r].temp = run[r].temp
        /\ \/ run'[r].pc \in {"ok", "killed"} /\ (lock' = lock \/ (lock' = 0 /\ lock = r))
           \/ run'[r].pc = run[r].pc /\ run[r].pc \in CommandSteps /\ lock' = lock
    <3>1. CASE ReleaseLock(r)
      BY <3>1, <2>2 DEF RunsOK, RunSet, ReleaseLock, Goto, Control, LockInv
    <3>2. CASE KillInterface(r) /\ run[r].pc \in CommandSteps
      BY <3>2 DEF RunsOK, RunSet, KillInterface
    <3>3. CASE KillInterface(r) /\ run[r].pc \notin CommandSteps
      BY <3>3 DEF RunsOK, RunSet, KillInterface
    <3> QED  BY <1>24, <3>1, <3>2, <3>3
  <2>4. lock' = lock \/ (lock' = 0 /\ lock = r /\ run'[r].pc \in {"ok", "killed"})
    BY <2>3
  <2>5. RunsTyped'
    BY <2>1, <2>4 DEF RunsTyped, RunsOK
  <2>6. RunInv'
    <3> SUFFICES ASSUME NEW s \in Runs PROVE RunInv!(s)'
      BY DEF RunInv
    <3>1. CASE s = r
      BY <3>1, <2>2, <2>3 DEF Control, RunInv
    <3>2. CASE s # r
      BY <3>2, <2>3 DEF Control, RunInv
    <3> QED  BY <3>1, <3>2
  <2>7. LockInv'
    BY <2>2, <2>3, <2>4 DEF Control, LockInv, RunsOK
  <2>8. TempInv'
    BY <2>3 DEF Control, TempInv
  <2> QED  BY <2>5, <2>6, <2>7, <2>8 DEF Control, keeps
<1>25. ASSUME PowerCut PROVE keeps
  <2> DEFINE one(r) == IF run[r] = Idle \/ run[r].pc \in Ended THEN run[r]
                       ELSE [run[r] EXCEPT !.pc = "killed", !.temp = "none"]
  <2>1. \A r \in Runs : one(r) \in RunSet
    <3>1. \A old \in RunSet : [old EXCEPT !.pc = "killed", !.temp = "none"] \in RunSet
      BY DEF RunSet, Ended
    <3>2. \A r \in Runs : run[r] \in RunSet
      BY DEF RunsOK
    <3> HIDE DEF one
    <3>3. \A r \in Runs : one(r) = run[r] \/ one(r) = [run[r] EXCEPT !.pc = "killed", !.temp = "none"]
      BY DEF one
    <3> QED  BY <3>1, <3>2, <3>3
  <2>2. \A r \in Runs :
            /\ run'[r] = one(r)
            /\ one(r).kind = run[r].kind /\ one(r).name = run[r].name /\ one(r).ui = run[r].ui
            /\ one(r) = Idle \/ (run[r] # Idle /\ one(r).pc \in Ended)
    <3> TAKE r \in Runs
    <3>1. run'[r] = one(r)
      BY <1>25 DEF PowerCut
    <3>2. CASE run[r] = Idle \/ run[r].pc \in Ended
      BY <3>1, <3>2 DEF Idle, Ended
    <3>3. CASE ~(run[r] = Idle \/ run[r].pc \in Ended)
      <4>1. one(r) = [run[r] EXCEPT !.pc = "killed", !.temp = "none"]
        BY <3>3
      <4>2. /\ one(r).kind = run[r].kind /\ one(r).name = run[r].name /\ one(r).ui = run[r].ui
            /\ one(r).pc = "killed"
        BY <4>1 DEF RunsOK, RunSet
      <4> QED  BY <3>1, <3>3, <4>2 DEF Ended
    <3> QED  BY <3>2, <3>3
  <2>3. RunsTyped'
    BY <1>25, <2>1 DEF PowerCut, RunsTyped
  <2> HIDE DEF one
  <2>4. RunInv'
    <3> SUFFICES ASSUME NEW r \in Runs PROVE RunInv!(r)'
      BY DEF RunInv
    <3>1. CASE one(r) = Idle
      <4>1. "new" \in StepsOf("none")
        BY DEF StepsOf
      <4>2. Idle.kind = "none" /\ Idle.pc = "new" /\ Idle.ui
        BY DEF Idle
      <4>3. run'[r] = Idle
        BY <3>1, <2>2
      <4> QED  BY <4>1, <4>2, <4>3
    <3>2. CASE one(r) # Idle
      BY <3>2, <2>2, KindFacts DEF Control, RunInv
    <3> QED  BY <3>1, <3>2
  <2>5. LockInv' /\ TempInv'
    BY <2>2 DEF LockInv, TempInv, Idle, Ended
  <2> QED  BY <2>3, <2>4, <2>5 DEF Control, keeps
<1>26. CASE UNCHANGED <<run, lock>>
  BY <1>26 DEF keeps, RunsTyped, RunsOK, Control, RunInv, LockInv, TempInv
<1> QED
  BY <1>1, <1>2, <1>3, <1>4, <1>5, <1>6, <1>7, <1>8, <1>9, <1>10, <1>11, <1>12, <1>13, <1>14, <1>15,
     <1>16, <1>17, <1>18, <1>19, <1>20, <1>21, <1>22, <1>23, <1>24, <1>25, <1>26
  DEF Next, vars, Creates, Downloads, Uploads, Trashes, Deletes, Dialogs,
      OrphanPuts, OrphanErases, OrphanFails, OtherUploads, OtherTrashes

-----------------------------------------------------------------------------
(* What a change of an entry, and what a loss of power, leave. *)
LEMMA EntryFacts ==
    ASSUME StoreOK, NEW n \in Names, NEW files \in SUBSET Files, OneFileOf(n, files), Entry(n, files)
    PROVE  /\ At(n)' = files
           /\ disk'[n] = disk[n] \cup {files}
           /\ \A m \in Names \ {n} : At(m)' = At(m) /\ disk'[m] = disk[m]
           /\ StoreOK'
PROOF
<1>1. At(n)' = files
  BY DEF At, Entry, OneFileOf
<1>2. /\ disk'[n] = disk[n] \cup {files}
      /\ \A m \in Names \ {n} : disk'[m] = disk[m]
      /\ disk' \in [Names -> SUBSET SUBSET Files]
  BY DEF StoreOK, Entry
<1>3. \A m \in Names \ {n} : At(m)' = At(m)
  BY DEF At, Entry, OneFileOf
<1>4. local' \subseteq Files
  BY DEF StoreOK, Entry
<1>5. \A m \in Names : At(m)' \in disk'[m] /\ \A some \in disk'[m] : OneFileOf(m, some)
  BY <1>1, <1>2, <1>3 DEF StoreOK
<1>6. (\A m \in Names : At(m) \in disk[m] /\ \A some \in disk[m] : OneFileOf(m, some))'
  BY <1>5 DEF OneFileOf
<1> QED  BY <1>1, <1>2, <1>3, <1>4, <1>6 DEF StoreOK

LEMMA SyncFacts ==
    ASSUME StoreOK, disk' = [n \in Names |-> {At(n)}], UNCHANGED local
    PROVE  StoreOK' /\ \A n \in Names : At(n)' = At(n) /\ disk'[n] = {At(n)}
PROOF
<1>1. \A n \in Names : At(n)' = At(n) /\ disk'[n] = {At(n)}
  BY DEF At
<1>2. disk' \in [Names -> SUBSET SUBSET Files] /\ local' \subseteq Files
  BY DEF StoreOK, At
<1>3. \A n \in Names : OneFileOf(n, At(n))
  BY DEF StoreOK
<1>4. (\A n \in Names : At(n) \in disk[n] /\ \A files \in disk[n] : OneFileOf(n, files))'
  BY <1>1, <1>3 DEF OneFileOf
<1> QED  BY <1>1, <1>2, <1>4 DEF StoreOK

(* A file that survives is one that was on the medium, and keeps its data if  *)
(* that was synchronised.                                                     *)
LEMMA PowerCutFacts ==
    ASSUME StoreOK, PowerCut
    PROVE  /\ StoreOK'
           /\ \A n \in Names :
                  /\ disk'[n] = {At(n)'}
                  /\ \E files \in disk[n] :
                         /\ files = {} => At(n)' = {}
                         /\ files # {} => At(n)' # {}
                         /\ \A g \in At(n)' : \E f \in files :
                                /\ g.by = f.by /\ g.synced
                                /\ f.synced => g = f
                                /\ g.data \in {f.data, "broken"}
PROOF
<1> DEFINE Kept(entry) == UNION {entry[n] : n \in Names}
<1>a. PICK entry \in [Names -> UNION {disk[n] : n \in Names}] :
          /\ \A n \in Names : entry[n] \in disk[n]
          /\ \E lost \in SUBSET {f \in Kept(entry) : ~f.synced} :
                local' = {[f EXCEPT !.data = IF f \in lost THEN "broken" ELSE @, !.synced = TRUE] :
                             f \in Kept(entry)}
  BY Zenon DEF PowerCut
<1> DEFINE kept == Kept(entry)
<1>b. PICK lost \in SUBSET {f \in kept : ~f.synced} :
          local' = {[f EXCEPT !.data = IF f \in lost THEN "broken" ELSE @, !.synced = TRUE] : f \in kept}
  BY <1>a
<1> DEFINE after(f) == [f EXCEPT !.data = IF f \in lost THEN "broken" ELSE @, !.synced = TRUE]
<1>1. (\A g : g \in local' <=> \E f \in kept : g = after(f)) /\ (\A f \in lost : ~f.synced)
  BY <1>b
<1>2. \A n \in Names : entry[n] \in disk[n] /\ entry[n] \subseteq Files /\ OneFileOf(n, entry[n])
  BY <1>a DEF StoreOK
<1>3. \A f : f \in kept <=> \E n \in Names : f \in entry[n]
  OBVIOUS
<1> HIDE DEF kept
<1>4. \A f \in Files :
          /\ after(f) \in Files /\ after(f).name = f.name /\ after(f).by = f.by
          /\ after(f).synced = TRUE /\ after(f).data \in {f.data, "broken"}
          /\ f.synced => after(f) = f
  BY <1>1 DEF Files, Data
<1> HIDE DEF after
<1>5. \A n \in Names : \A g : g \in At(n)' <=> \E f \in entry[n] : g = after(f)
  <2> TAKE n \in Names
  <2> TAKE g
  <2>1. g \in At(n)' <=> g \in local' /\ g.name = n
    BY DEF At
  <2>2. \A m \in Names : \A f \in entry[m] : after(f).name = m
    BY <1>2, <1>4 DEF OneFileOf
  <2> QED  BY <1>1, <1>3, <2>1, <2>2
<1>6. local' \subseteq Files
  BY <1>1, <1>2, <1>3, <1>4
<1>7. \A n \in Names : disk'[n] = {At(n)'}
  BY DEF PowerCut, At
<1>8. StoreOK'
  <2>1. disk' \in [Names -> SUBSET SUBSET Files]
    BY <1>6 DEF PowerCut
  <2>2. \A n \in Names : OneFileOf(n, At(n)')
    BY <1>2, <1>4, <1>5 DEF OneFileOf
  <2>3. (\A n \in Names : At(n) \in disk[n] /\ \A files \in disk[n] : OneFileOf(n, files))'
    BY <1>7, <2>2 DEF OneFileOf
  <2> QED  BY <1>6, <2>1, <2>3 DEF StoreOK
<1>9. ASSUME NEW n \in Names
      PROVE  /\ entry[n] = {} => At(n)' = {}
             /\ entry[n] # {} => At(n)' # {}
             /\ \A g \in At(n)' : \E f \in entry[n] :
                    /\ g.by = f.by /\ g.synced
                    /\ f.synced => g = f
                    /\ g.data \in {f.data, "broken"}
  <2>1. (entry[n] = {} => At(n)' = {}) /\ (entry[n] # {} => At(n)' # {})
    BY <1>5
  <2>2. ASSUME NEW g \in At(n)'
        PROVE  \E f \in entry[n] :
                   /\ g.by = f.by /\ g.synced
                   /\ f.synced => g = f
                   /\ g.data \in {f.data, "broken"}
    <3>1. PICK f \in entry[n] : g = after(f)
      BY <1>5, <2>2
    <3>2. f \in Files
      BY <1>2
    <3> QED  BY <1>4, <3>1, <3>2
  <2> QED  BY <2>1, <2>2
<1> QED  BY <1>2, <1>7, <1>8, <1>9

(* The only steps that change the directory.                                  *)
Publishes(r) == Publish(r) /\ At(run[r].name) = {} /\ Entry(run[r].name, {Published(r)})
                /\ run' = [run EXCEPT ![r].pc = "sync", ![r].temp = "none"]
Removes(r)   == Remove(r) /\ At(run[r].name) # {} /\ Entry(run[r].name, {})
Syncs        == disk' = [n \in Names |-> {At(n)}] /\ UNCHANGED local

LEMMA StoreChanges ==
    ASSUME [Next]_vars
    PROVE  \/ UNCHANGED store
           \/ PowerCut
           \/ Syncs
           \/ \E r \in Runs : Publishes(r) \/ Removes(r)
PROOF
<1>1. ASSUME NEW r \in Runs, Creates(r) \/ Downloads(r) PROVE UNCHANGED store \/ Syncs \/ Publishes(r)
  BY <1>1 DEF Creates, Downloads, Archive, Publish, SyncDirectory, Confirm, Fetch, Check, store, Syncs, Publishes
<1>2. ASSUME NEW r \in Runs, Uploads(r) \/ Trashes(r) \/ Dialogs(r) PROVE UNCHANGED store
  BY <1>2 DEF Uploads, Trashes, Dialogs, Source, Look, Put, RoundTrip, Compare, Erase, List,
              TakeLock, Decide, ReleaseLock, Show, store
<1>3. ASSUME NEW r \in Runs, Deletes(r) PROVE UNCHANGED store \/ Syncs \/ Removes(r)
  BY <1>3 DEF Deletes, Inspect, Validate, Remove, SyncRemoval, store, Syncs, Removes
<1>4. ASSUME NEW r \in Runs, Start(r) \/ Fail(r) \/ Kill(r) \/ KillInterface(r) PROVE UNCHANGED store
  BY <1>4 DEF Start, Fail, Kill, KillInterface, store
<1>5. OrphanPuts \/ OrphanErases \/ OrphanFails \/ OtherUploads \/ OtherTrashes => UNCHANGED store
  BY DEF OrphanPuts, OrphanErases, OrphanFails, OtherUploads, OtherTrashes, store
<1>6. UNCHANGED vars => UNCHANGED store
  BY DEF vars, store
<1> QED  BY <1>1, <1>2, <1>3, <1>4, <1>5, <1>6 DEF Next

(* What is published is whole, by this run, and synchronised but for a download. *)
LEMMA PublishedFacts ==
    ASSUME TypeOK, Control, NEW r \in Runs, run[r].pc = "publish"
    PROVE  LET f == Published(r)
           IN  /\ run[r].name \in Names /\ run[r].kind # "none"
               /\ f \in Files /\ f.name = run[r].name /\ f.by = r /\ f.data = "whole"
               /\ ~f.synced => run[r].kind = "download"
               /\ OneFileOf(run[r].name, {f})
PROOF
<1>1. run[r].name \in Names /\ run[r].temp = "whole" /\ run[r].kind # "none"
  BY KindFacts DEF Control, RunInv, TempInv, Ended
<1>2. /\ Published(r).name = run[r].name /\ Published(r).by = r /\ Published(r).data = "whole"
      /\ Published(r).synced = (run[r].kind # "download")
      /\ Published(r) = [name |-> run[r].name, by |-> r, data |-> "whole",
                         synced |-> run[r].kind # "download"]
  BY <1>1 DEF Published
<1>3. Published(r) \in Files
  BY <1>1, <1>2 DEF Files, Data
<1> QED  BY <1>1, <1>2, <1>3 DEF OneFileOf

LEMMA StoreStep == ASSUME TypeOK, Control, [Next]_vars PROVE StoreOK'
PROOF
<1> USE DEF TypeOK
<1>1. CASE UNCHANGED store
  BY <1>1 DEF StoreOK, store, At, OneFileOf
<1>2. CASE PowerCut
  BY <1>2, PowerCutFacts
<1>3. CASE Syncs
  BY <1>3, SyncFacts DEF Syncs
<1>4. ASSUME NEW r \in Runs, Publishes(r) PROVE StoreOK'
  BY <1>4, PublishedFacts, EntryFacts DEF Publishes, Publish
<1>5. ASSUME NEW r \in Runs, Removes(r) PROVE StoreOK'
  <2>1. run[r].name \in Names
    BY <1>5, KindFacts DEF Removes, Remove, Control, RunInv, Ended
  <2> QED  BY <1>5, <2>1, EntryFacts DEF Removes, OneFileOf
<1> QED  BY <1>1, <1>2, <1>3, <1>4, <1>5, StoreChanges

-----------------------------------------------------------------------------
(* The cloud folder gains objects with new numbers, and loses some. *)
Gains(n, data) == PutObject(n, data)
Loses(o)       == EraseObject(o)

LEMMA DriveChanges ==
    ASSUME TypeOK, Control, [Next]_vars
    PROVE  \/ UNCHANGED drive
           \/ \E n \in Names, data \in Data : Gains(n, data)
           \/ \E o \in cloud : Loses(o)
PROOF
<1> USE DEF Data, Gains, Loses
<1>0. \A r \in Runs : run[r].pc \in {"put", "erase"} => run[r].name \in Names
  BY KindFacts DEF Control, RunInv, Ended
<1>1. ASSUME NEW r \in Runs, Creates(r) \/ Downloads(r) \/ Deletes(r) \/ Dialogs(r) PROVE UNCHANGED drive
  BY <1>1 DEF Creates, Downloads, Archive, Publish, SyncDirectory, Confirm, Fetch, Check,
              Deletes, Inspect, Validate, Remove, SyncRemoval, Dialogs, TakeLock, Decide, ReleaseLock, Show, drive
<1>2. ASSUME NEW r \in Runs, Put(r)
      PROVE  UNCHANGED drive \/ \E n \in Names, data \in Data : Gains(n, data)
  BY <1>0, <1>2 DEF Put
<1>3. ASSUME NEW r \in Runs, Uploads(r), ~Put(r) PROVE UNCHANGED drive
  BY <1>3 DEF Uploads, Source, Look, RoundTrip, Compare, drive
<1>4. ASSUME NEW r \in Runs, Trashes(r) PROVE UNCHANGED drive \/ \E o \in cloud : Loses(o)
  BY <1>4 DEF Trashes, Erase, List, Objects, drive
<1>5. ASSUME NEW r \in Runs, Start(r) \/ Fail(r) \/ Kill(r) \/ KillInterface(r) PROVE UNCHANGED drive
  BY <1>5 DEF Start, Fail, Kill, KillInterface, drive
<1>6. OrphanPuts \/ OtherUploads => \E n \in Names, data \in Data : Gains(n, data)
  BY DEF OrphanPuts, OtherUploads, TypeOK, RunsOK
<1>7. OrphanErases \/ OtherTrashes => \E o \in cloud : Loses(o)
  BY DEF OrphanErases, OtherTrashes, Objects
<1>8. OrphanFails \/ PowerCut \/ UNCHANGED vars => UNCHANGED drive
  BY DEF OrphanFails, PowerCut, vars, drive
<1> QED  BY <1>1, <1>2, <1>3, <1>4, <1>5, <1>6, <1>7, <1>8 DEF Next

LEMMA CloudStep == ASSUME TypeOK, Control, [Next]_vars PROVE CloudOK'
PROOF
<1>1. CASE UNCHANGED drive
  BY <1>1 DEF TypeOK, CloudOK, drive
<1>2. ASSUME NEW n \in Names, NEW data \in Data, Gains(n, data) PROVE CloudOK'
  BY <1>2 DEF TypeOK, CloudOK, ObjectSet, Gains, PutObject
<1>3. ASSUME NEW o \in cloud, Loses(o) PROVE CloudOK'
  BY <1>3 DEF TypeOK, CloudOK, ObjectSet, Loses, EraseObject
<1> QED  BY <1>1, <1>2, <1>3, DriveChanges

(* What the user is told, and from which step.                                *)
Confirms(r) == Confirm(r) /\ run[r].kind # "download" /\ \E f \in At(run[r].name) : f.by = r
Compares(r) == Compare(r) /\ run[r].temp = "whole" /\ erased[run[r].name] = run[r].seen

LEMMA ClaimChanges ==
    ASSUME TypeOK, Control, [Next]_vars
    PROVE  /\ claims' \subseteq ClaimSet
           /\ \A n \in Names : Claim("created", n) \in claims' \ claims =>
                  \E r \in Runs : Confirms(r) /\ run[r].name = n
           /\ \A n \in Names : Claim("stored", n) \in claims' \ claims =>
                  \E r \in Runs : Compares(r) /\ run[r].name = n
PROOF
<1> DEFINE goal == /\ claims' \subseteq ClaimSet
                   /\ \A n \in Names : Claim("created", n) \in claims' \ claims =>
                          \E r \in Runs : Confirms(r) /\ run[r].name = n
                   /\ \A n \in Names : Claim("stored", n) \in claims' \ claims =>
                          \E r \in Runs : Compares(r) /\ run[r].name = n
<1>0. /\ claims \subseteq ClaimSet
      /\ \A r \in Runs : run[r].pc \notin Ended \cup {"new"} => run[r].name \in Names
  BY KindFacts DEF Control, RunInv, TypeOK, RunsOK
<1>1. \A what, other, n, m : Claim(what, n) = Claim(other, m) <=> what = other /\ n = m
  BY DEF Claim
<1>2. \A n \in Names : /\ Claim("created", n) \in ClaimSet /\ Claim("downloaded", n) \in ClaimSet
                       /\ Claim("verified", n) \in ClaimSet /\ Claim("stored", n) \in ClaimSet
                       /\ Claim("shown", n) \in ClaimSet
  BY DEF Claim, ClaimSet
<1>3. claims' \subseteq claims => goal
  BY <1>0
<1>4. ASSUME NEW r \in Runs, Confirm(r) PROVE goal
  <2>1. run[r].name \in Names
    BY <1>0, <1>4 DEF Confirm, Ended
  <2>2. CASE ~\E f \in At(run[r].name) : f.by = r
    BY <1>3, <1>4, <2>2 DEF Confirm
  <2>3. CASE run[r].kind = "download"
    <3>1. claims' \subseteq claims \cup {Claim("downloaded", run[r].name)}
      BY <1>4, <2>3 DEF Confirm
    <3> QED  BY <1>0, <1>1, <1>2, <2>1, <3>1
  <2>4. CASE run[r].kind # "download" /\ \E f \in At(run[r].name) : f.by = r
    <3>1. claims' = claims \cup {Claim("created", run[r].name)} /\ Confirms(r)
      BY <1>4, <2>4 DEF Confirm, Confirms
    <3> HIDE DEF Confirms
    <3> QED  BY <1>0, <1>1, <1>2, <2>1, <3>1
  <2> QED  BY <2>2, <2>3, <2>4
<1>5. ASSUME NEW r \in Runs, Compare(r) PROVE goal
  <2>1. run[r].name \in Names
    BY <1>0, <1>5 DEF Compare, Ended
  <2>2. \/ claims' = claims
        \/ claims' = claims \cup {Claim("verified", run[r].name)}
        \/ Compares(r) /\ claims' = claims \cup {Claim("verified", run[r].name), Claim("stored", run[r].name)}
    BY <1>5 DEF Compare, Stored, Compares
  <2> QED  BY <1>0, <1>1, <1>2, <2>1, <2>2
<1>6. ASSUME NEW r \in Runs, Show(r) PROVE goal
  <2>1. run[r].name \in Names
    BY <1>0, <1>6 DEF Show, Ended
  <2>2. claims' \subseteq claims \cup {Claim("shown", run[r].name)}
    BY <1>6 DEF Show
  <2> QED  BY <1>0, <1>1, <1>2, <2>1, <2>2
<1>7. OtherUploads => goal
  <2>1. OtherUploads => \E n \in Names : claims' = claims \cup {Claim("verified", n)}
    BY DEF OtherUploads
  <2> QED  BY <1>0, <1>1, <1>2, <2>1
<1>8. ASSUME NEW r \in Runs, Archive(r) \/ Fetch(r) \/ Check(r) \/ Publish(r) \/ SyncDirectory(r)
      PROVE  UNCHANGED claims
  BY <1>8 DEF Archive, Fetch, Check, Publish, SyncDirectory
<1>9. ASSUME NEW r \in Runs, Source(r) \/ Look(r) \/ Put(r) \/ RoundTrip(r) PROVE UNCHANGED claims
  BY <1>9 DEF Source, Look, Put, RoundTrip
<1>10. ASSUME NEW r \in Runs, Trashes(r) \/ Deletes(r) PROVE claims' \subseteq claims
  BY <1>10 DEF Trashes, Erase, EraseObject, List, Deletes, Inspect, Validate, Remove, SyncRemoval
<1>11. ASSUME NEW r \in Runs,
              Start(r) \/ TakeLock(r) \/ Decide(r) \/ ReleaseLock(r) \/ Fail(r) \/ Kill(r) \/ KillInterface(r)
       PROVE  UNCHANGED claims
  BY <1>11 DEF Start, TakeLock, Decide, ReleaseLock, Fail, Kill, KillInterface
<1>12. \/ OrphanPuts \/ OrphanErases \/ OrphanFails \/ PowerCut \/ OtherTrashes \/ UNCHANGED vars
       => claims' \subseteq claims
  BY DEF OrphanPuts, OrphanErases, OrphanFails, PowerCut, OtherTrashes, EraseObject, vars
<1> HIDE DEF goal
<1>13. goal
  BY <1>3, <1>4, <1>5, <1>6, <1>7, <1>8, <1>9, <1>10, <1>11, <1>12
  DEF Next, Creates, Downloads, Uploads, Dialogs
<1> QED  BY <1>13 DEF goal

(* What else has a type. *)
LEMMA OthersStep ==
    ASSUME TypeOK, Control, [Next]_vars
    PROVE  /\ left' \in Nat /\ made' \subseteq Names
           /\ orphans' \subseteq [does : {"put", "erase"}, name : Names]
PROOF
<1>0. \A r \in Runs : run[r].pc \notin Ended \cup {"new"} => run[r].name \in Names
  BY KindFacts DEF Control, RunInv
<1>1. UNCHANGED left \/ Trouble
  BY DEF Next, vars, Start, Creates, Downloads, Uploads, Trashes, Deletes, Dialogs, Archive, Receive, Fetch, Check,
         Publish, SyncDirectory, Confirm, Source, Look, PutObject, Put, RoundTrip, Compare, EraseObject, Erase,
         List, Inspect, Validate, Remove, SyncRemoval, TakeLock, Decide, ReleaseLock, Show, Fail, Kill,
         KillInterface, OrphanPuts, OrphanErases, OrphanFails, PowerCut, OtherUploads, OtherTrashes
<1>2. UNCHANGED made \/ \E n \in Names : made' = made \cup {n}
  BY DEF Next, vars, Start, Creates, Downloads, Uploads, Trashes, Deletes, Dialogs, Archive, Receive, Fetch, Check,
         Publish, SyncDirectory, Confirm, Source, Look, PutObject, Put, RoundTrip, Compare, EraseObject, Erase,
         List, Inspect, Validate, Remove, SyncRemoval, TakeLock, Decide, ReleaseLock, Show, Fail, Kill,
         KillInterface, OrphanPuts, OrphanErases, OrphanFails, PowerCut, OtherUploads, OtherTrashes
<1>3. ASSUME NEW r \in Runs, Kill(r) PROVE orphans' \subseteq [does : {"put", "erase"}, name : Names]
  <2>1. run[r].pc \in {"put", "erase"} /\ run[r].name \in Names
    BY <1>0, <1>3 DEF Kill, Ended
  <2> QED  BY <1>3, <2>1 DEF Kill, TypeOK, RunsOK
<1>4. orphans' \subseteq orphans \/ \E r \in Runs : Kill(r)
  BY DEF Next, vars, Start, Creates, Downloads, Uploads, Trashes, Deletes, Dialogs, Archive, Receive, Fetch, Check,
         Publish, SyncDirectory, Confirm, Source, Look, PutObject, Put, RoundTrip, Compare, EraseObject, Erase,
         List, Inspect, Validate, Remove, SyncRemoval, TakeLock, Decide, ReleaseLock, Show, Fail,
         KillInterface, OrphanPuts, OrphanErases, OrphanFails, PowerCut, OtherUploads, OtherTrashes
<1> QED  BY <1>1, <1>2, <1>3, <1>4 DEF TypeOK, RunsOK, Trouble

LEMMA TypeStep == TypeOK /\ Control /\ [Next]_vars => TypeOK' /\ Control'
  BY ControlStep, StoreStep, CloudStep, ClaimChanges, OthersStep DEF TypeOK, RunsOK, RunsTyped

-----------------------------------------------------------------------------
LEMMA InitTyped == Init => TypeOK /\ Control
PROOF
<1> SUFFICES ASSUME Init PROVE TypeOK /\ Control
  OBVIOUS
<1>1. PICK here \in SUBSET Names, there \in SUBSET Names :
          /\ local = {[name |-> n, by |-> 0, data |-> "whole", synced |-> TRUE] : n \in here}
          /\ cloud = {[name |-> n, id |-> 0, data |-> "whole"] : n \in there}
          /\ made = here \cup there
          /\ claims = {Claim("verified", n) : n \in there}
  BY DEF Init
<1>2. StoreOK
  <2> DEFINE file(n) == [name |-> n, by |-> 0, data |-> "whole", synced |-> TRUE]
  <2>a. local = {file(n) : n \in here}
    BY <1>1
  <2>b. \A n \in Names : file(n) \in Files /\ file(n).name = n
    BY DEF Files, Data
  <2> HIDE DEF file
  <2>1. local \subseteq Files
    BY <2>a, <2>b
  <2>2. \A n \in Names : OneFileOf(n, At(n))
    BY <2>a, <2>b DEF OneFileOf, At
  <2>3. disk = [n \in Names |-> {At(n)}] /\ \A n \in Names : At(n) \subseteq Files
    BY <2>1 DEF Init, At
  <2> QED  BY <2>1, <2>2, <2>3 DEF StoreOK
<1>3. CloudOK
  BY <1>1 DEF Init, CloudOK, ObjectSet, Data
<1>4. Idle \in RunSet /\ Idle.kind = "none" /\ Idle.pc = "new" /\ Idle.ui
  BY DEF Idle, RunSet
<1>5. RunsOK
  BY <1>1, <1>4 DEF Init, RunsOK, ClaimSet, Claim
<1>6. "new" \in StepsOf("none")
  BY DEF StepsOf
<1>7. Control
  BY <1>4, <1>6 DEF Init, Control, RunInv, LockInv, TempInv
<1> QED  BY <1>2, <1>3, <1>5, <1>7 DEF TypeOK

(* The variables have their types, for any names and any number of runs: in   *)
(* the directory a name has one file, and the medium may have it.             *)
THEOREM TypeCorrect == Spec => []TypeOK
PROOF
<1>1. Spec => [](TypeOK /\ Control)
  BY InitTyped, TypeStep, PTL DEF Spec
<1> QED  BY <1>1, PTL

(* Two backups of the interface never work at the same time, though an        *)
(* interface dies while its command goes on (deck-snapshot-ui:93-128).        *)
THEOREM OneBackup == Spec => []OneBackupAtATime
PROOF
<1>1. Control => OneBackupAtATime
  BY DEF Control, LockInv, OneBackupAtATime, CommandSteps
<1>2. Spec => [](TypeOK /\ Control)
  BY InitTyped, TypeStep, PTL DEF Spec
<1> QED  BY <1>1, <1>2, PTL

(* No step puts a file in the place of another: publication is a rename that  *)
(* does not replace (publish_noreplace_linux.go:17).                          *)
THEOREM FilesAreNeverReplaced == Spec => NeverReplaced
PROOF
<1>1. ASSUME TypeOK, Control, [Next]_vars
      PROVE  PowerCut \/ \A f \in local, g \in local' : f.name = g.name => f = g
  <2>1. \A n \in Names : OneFileOf(n, At(n))
    BY <1>1 DEF TypeOK, StoreOK
  <2>2. \A f \in local : f.name \in Names /\ f \in At(f.name)
    BY <1>1 DEF TypeOK, StoreOK, Files, At
  <2>3. \A f, g \in local : f.name = g.name => f = g
    BY <2>1, <2>2 DEF OneFileOf
  <2>4. CASE UNCHANGED store \/ Syncs
    BY <2>3, <2>4 DEF store, Syncs
  <2>5. ASSUME NEW r \in Runs, Publishes(r)
        PROVE  \A f \in local, g \in local' : f.name = g.name => f = g
    <3>1. Published(r).name = run[r].name /\ \A f \in local : f.name # run[r].name
      BY <2>2, <2>5 DEF Publishes, Published
    <3>2. \A g \in local' : g \in local \/ g = Published(r)
      BY <2>5 DEF Publishes, Entry
    <3> QED  BY <2>3, <3>1, <3>2
  <2>6. ASSUME NEW r \in Runs, Removes(r)
        PROVE  \A f \in local, g \in local' : f.name = g.name => f = g
    BY <2>3, <2>6 DEF Removes, Entry
  <2> QED  BY <1>1, <2>4, <2>5, <2>6, StoreChanges
<1>2. TypeOK /\ Control /\ [Next]_vars
      => [PowerCut \/ \A f \in local, g \in local' : f.name = g.name => f = g]_vars
  BY <1>1
<1> QED  BY <1>2, InitTyped, TypeStep, PTL DEF Spec, NeverReplaced

-----------------------------------------------------------------------------
(* How one run moves, as far as the invariants below ask.                     *)
Done(one) ==
    \/ one.kind = "trash" /\ one.pc = "ok"
    \/ one.kind = "both" /\ one.pc \in DeleteSteps \cup {"ok"}

Erases(r) == Erase(r) /\ run'[r].before = Objects(run[r].name)
Lists(r)  == run[r].pc = "list" /\ Objects(run[r].name) = {} /\ UNCHANGED cloud

Moved(r) ==
    LET one == run[r]  next == run'[r]
    IN  /\ one.kind # "none" => next.kind = one.kind /\ next.name = one.name
        /\ next.pc = "confirm" => one.pc = "confirm" \/ Syncs
        /\ next.pc = "compare" =>
               \/ one.pc = "compare" /\ next.temp = one.temp /\ next.seen = one.seen
               \/ RoundTrip(r)
        /\ next.pc = "list" => (one.pc = "list" /\ next.before = one.before) \/ Erases(r)
        /\ next.before = one.before \/ Erases(r)
        /\ Done(next) => next.before = one.before /\ (Done(one) \/ Lists(r))

LEMMA RunsMove == ASSUME TypeOK, Control, [Next]_vars PROVE \A r \in Runs : Moved(r)
PROOF
<1> USE DEF TypeOK
<1> DEFINE goal == \A r \in Runs : Moved(r)
<1>k. \A r \in Runs : run[r].pc \in StepsOf(run[r].kind)
  BY DEF Control, RunInv
<1>x. \A r \in Runs : run'[r] = run[r] => Moved(r)
  BY DEF Moved, Done
(* A command that ends, or goes on to a step that no invariant speaks of. *)
<1>a. ASSUME NEW r \in Runs, NEW ok \in BOOLEAN, run[r].pc \in CommandSteps, Ends(r, ok),
             ok => Done(run[r]) \/ Lists(r) \/ run[r].kind \notin {"trash", "both"}
      PROVE  goal
  <2> DEFINE next == After(r, ok)
  <2>1. /\ next \in Ended \cup {"decide", "ask", "close", "inspect"}
        /\ next \in {"ok", "inspect"} => ok
        /\ next = "inspect" => run[r].kind = "both"
    BY <1>a, AfterFacts DEF Control
  <2>2. run' = [run EXCEPT ![r].pc = next, ![r].temp = "none", ![r].seen = 0]
    BY <1>a DEF Ends
  <2> HIDE DEF next
  <2>3. /\ run'[r].pc = next /\ run'[r].kind = run[r].kind /\ run'[r].name = run[r].name
        /\ run'[r].before = run[r].before
        /\ \A s \in Runs \ {r} : run'[s] = run[s]
    BY <2>2 DEF RunsOK, RunSet
  <2>4. Moved(r)
    BY <1>a, <2>1, <2>3 DEF Moved, Done, Ended, DeleteSteps
  <2> QED  BY <1>x, <2>3, <2>4
<1>b. ASSUME NEW r \in Runs, NEW step, step \notin {"confirm", "compare", "list"}, run'[r].pc = step,
             run'[r].kind = run[r].kind, run'[r].name = run[r].name, run'[r].before = run[r].before,
             \A s \in Runs \ {r} : run'[s] = run[s],
             step \in DeleteSteps => run[r].pc \in DeleteSteps,
             step = "ok" => run[r].kind \notin {"trash", "both"}
      PROVE  goal
  <2>1. Moved(r)
    BY <1>b DEF Moved, Done
  <2> QED  BY <1>b, <1>x, <2>1
<1>c. ASSUME NEW r \in Runs, NEW step, Goto(r, step)
      PROVE  /\ run'[r].pc = step /\ run'[r].kind = run[r].kind /\ run'[r].name = run[r].name
             /\ run'[r].before = run[r].before
             /\ \A s \in Runs \ {r} : run'[s] = run[s]
  BY <1>c DEF Goto, RunsOK, RunSet
<1> HIDE DEF goal
<1>1. ASSUME NEW r \in Runs, Archive(r) PROVE goal
  <2>1. CASE Ends(r, FALSE)
    BY <1>1, <2>1, <1>a DEF Archive, CommandSteps, CreateSteps
  <2>2. CASE run' = [run EXCEPT ![r].pc = "publish", ![r].temp = "whole"]
    <3>1. /\ run'[r].pc = "publish" /\ run'[r].kind = run[r].kind /\ run'[r].name = run[r].name
          /\ run'[r].before = run[r].before /\ \A s \in Runs \ {r} : run'[s] = run[s]
      BY <2>2 DEF RunsOK, RunSet
    <3> QED  BY <3>1, <1>b DEF DeleteSteps
  <2> QED  BY <1>1, <2>1, <2>2 DEF Archive
<1> USE DEF CommandSteps, CreateSteps, DownloadSteps, UploadSteps, TrashSteps, DeleteSteps
<1>2. ASSUME NEW r \in Runs, Check(r) PROVE goal
  BY <1>2, <1>a, <1>b, <1>c DEF Check
<1>3. ASSUME NEW r \in Runs, Source(r) PROVE goal
  BY <1>3, <1>a, <1>b, <1>c DEF Source
<1>4. ASSUME NEW r \in Runs, Look(r) PROVE goal
  BY <1>4, <1>a, <1>b, <1>c DEF Look
<1>5. ASSUME NEW r \in Runs, Put(r) PROVE goal
  BY <1>5, <1>a, <1>b, <1>c DEF Put
<1>6. ASSUME NEW r \in Runs, Validate(r) PROVE goal
  BY <1>6, <1>a, <1>b, <1>c DEF Validate
<1>7. ASSUME NEW r \in Runs, Remove(r) PROVE goal
  BY <1>7, <1>a, <1>b, <1>c DEF Remove
<1>8. ASSUME NEW r \in Runs, Fail(r) PROVE goal
  BY <1>8, <1>a, <1>b, <1>c DEF Fail
<1>9. ASSUME NEW r \in Runs, Kill(r) PROVE goal
  BY <1>9, <1>a, <1>b, <1>c DEF Kill
<1>10. ASSUME NEW r \in Runs, TakeLock(r) PROVE goal
  <2>1. run[r].kind \notin {"trash", "both"}
    BY <1>10, KindFacts DEF TakeLock
  <2> QED  BY <1>10, <2>1, <1>b, <1>c DEF TakeLock
<1>11. ASSUME NEW r \in Runs, Decide(r) PROVE goal
  <2>1. run[r].kind \notin {"trash", "both"}
    BY <1>11, KindFacts DEF Decide
  <2> QED  BY <1>11, <2>1, <1>b, <1>c DEF Decide
<1>12. ASSUME NEW r \in Runs, ReleaseLock(r) PROVE goal
  <2>1. run[r].kind \notin {"trash", "both"}
    BY <1>12, KindFacts DEF ReleaseLock
  <2> QED  BY <1>12, <2>1, <1>b, <1>c DEF ReleaseLock
<1>13. ASSUME NEW r \in Runs, Show(r) PROVE goal
  <2>1. run[r].kind \notin {"trash", "both"}
    BY <1>13, KindFacts DEF Show
  <2> QED  BY <1>13, <2>1, <1>b, <1>c DEF Show
<1>14. ASSUME NEW r \in Runs, Confirm(r) PROVE goal
  <2>1. run[r].kind \notin {"trash", "both"}
    BY <1>14, <1>k DEF Confirm, StepsOf, Ended
  <2> QED  BY <1>14, <2>1, <1>a DEF Confirm
<1>15. ASSUME NEW r \in Runs, Compare(r) PROVE goal
  <2>1. run[r].kind \notin {"trash", "both"}
    BY <1>15, <1>k DEF Compare, StepsOf, Ended
  <2> QED  BY <1>15, <2>1, <1>a DEF Compare
<1>16. ASSUME NEW r \in Runs, SyncRemoval(r) PROVE goal
  <2>1. Done(run[r]) \/ run[r].kind \notin {"trash", "both"}
    BY <1>16, <1>k DEF SyncRemoval, StepsOf, Ended, Done
  <2> QED  BY <1>16, <2>1, <1>a DEF SyncRemoval
<1>17. ASSUME NEW r \in Runs, List(r) PROVE goal
  <2>1. Objects(run[r].name) = {} => Lists(r)
    BY <1>17 DEF List, Lists, drive
  <2> QED  BY <1>17, <2>1, <1>a DEF List
<1>18. ASSUME NEW r \in Runs, SyncDirectory(r) PROVE goal
  <2>1. Syncs /\ run'[r].pc = "confirm"
    BY <1>18, <1>c DEF SyncDirectory, Syncs
  <2>2. Moved(r)
    BY <1>18, <2>1, <1>c DEF Moved, Done, SyncDirectory
  <2> QED  BY <1>18, <2>2, <1>c, <1>x DEF goal, SyncDirectory
<1>19. ASSUME NEW r \in Runs, Publish(r) PROVE goal
  <2>1. CASE run' = [run EXCEPT ![r].pc = "sync", ![r].temp = "none"]
    <3>1. /\ run'[r].pc = "sync" /\ run'[r].kind = run[r].kind /\ run'[r].name = run[r].name
          /\ run'[r].before = run[r].before /\ \A s \in Runs \ {r} : run'[s] = run[s]
      BY <2>1 DEF RunsOK, RunSet
    <3> QED  BY <3>1, <1>b
  <2> QED  BY <1>19, <2>1, <1>a DEF Publish
<1>20. ASSUME NEW r \in Runs, Inspect(r) PROVE goal
  <2>1. CASE ~Ends(r, FALSE)
    <3>1. PICK f \in At(run[r].name) : run' = [run EXCEPT ![r].pc = "validate", ![r].seen = f.by]
      BY <1>20, <2>1 DEF Inspect
    <3>2. /\ run'[r].pc = "validate" /\ run'[r].kind = run[r].kind /\ run'[r].name = run[r].name
          /\ run'[r].before = run[r].before /\ \A s \in Runs \ {r} : run'[s] = run[s]
      BY <3>1 DEF RunsOK, RunSet
    <3> QED  BY <1>20, <3>2, <1>b DEF Inspect
  <2> QED  BY <1>20, <2>1, <1>a DEF Inspect
<1>21. ASSUME NEW r \in Runs, Erase(r) PROVE goal
  <2>1. CASE run' = [run EXCEPT ![r].pc = "list", ![r].before = Objects(run[r].name)]
    <3>1. /\ run'[r].pc = "list" /\ run'[r].kind = run[r].kind /\ run'[r].name = run[r].name
          /\ run'[r].before = Objects(run[r].name) /\ \A s \in Runs \ {r} : run'[s] = run[s]
      BY <2>1 DEF RunsOK, RunSet
    <3>2. Moved(r)
      BY <1>21, <1>k, <3>1 DEF Moved, Done, Erases
    <3> QED  BY <3>1, <3>2, <1>x DEF goal
  <2> QED  BY <1>21, <2>1, <1>a DEF Erase
<1>d. ASSUME NEW r \in Runs, run[r].pc \in CommandSteps, NEW step \in {"check", "compare"}, Receive(r, step),
             step = "compare" => RoundTrip(r)
      PROVE  goal
  <2>1. CASE ~Ends(r, FALSE)
    <3>1. PICK data :
              run' = [run EXCEPT ![r].pc = step, ![r].temp = data, ![r].seen = erased[run[r].name]]
      BY <1>d, <2>1 DEF Receive
    <3>2. /\ run'[r].pc = step /\ run'[r].kind = run[r].kind /\ run'[r].name = run[r].name
          /\ run'[r].before = run[r].before /\ \A s \in Runs \ {r} : run'[s] = run[s]
      BY <3>1 DEF RunsOK, RunSet
    <3>3. Moved(r)
      BY <1>d, <3>2 DEF Moved, Done
    <3> QED  BY <3>2, <3>3, <1>x DEF goal
  <2> QED  BY <1>d, <2>1, <1>a
<1>22. ASSUME NEW r \in Runs, Fetch(r) PROVE goal
  BY <1>22, <1>d DEF Fetch
<1>23. ASSUME NEW r \in Runs, RoundTrip(r) PROVE goal
  BY <1>23, <1>d DEF RoundTrip
<1>24. ASSUME NEW r \in Runs, Start(r) PROVE goal
  <2>1. PICK kind \in DOMAIN First, name \in Names :
            run' = [run EXCEPT ![r] = [Idle EXCEPT !.kind = kind, !.name = name, !.pc = First[kind]]]
    BY <1>24 DEF Start
  <2>2. run[r] = Idle /\ Idle.kind = "none" /\ Idle.before = {}
    BY <1>24 DEF Start, Idle
  <2>3. /\ run'[r].pc = First[kind] /\ run'[r].kind = kind /\ run'[r].before = run[r].before
        /\ \A s \in Runs \ {r} : run'[s] = run[s]
    BY <2>1, <2>2 DEF RunsOK, Idle
  <2>4. /\ First[kind] \notin {"confirm", "compare", "list", "ok"}
        /\ kind = "both" => First[kind] = "erase"
    BY DEF First
  <2>5. Moved(r)
    BY <2>2, <2>3, <2>4 DEF Moved, Done
  <2> QED  BY <2>3, <2>5, <1>x DEF goal
<1>25. ASSUME NEW r \in Runs, KillInterface(r) PROVE goal
  <2>1. /\ run'[r].pc \in {run[r].pc, "killed"} /\ run'[r].kind = run[r].kind
        /\ run'[r].name = run[r].name /\ run'[r].temp = run[r].temp /\ run'[r].seen = run[r].seen
        /\ run'[r].before = run[r].before
        /\ \A s \in Runs \ {r} : run'[s] = run[s]
    <3>1. CASE run[r].pc \in CommandSteps
      BY <1>25, <3>1 DEF RunsOK, RunSet, KillInterface
    <3>2. CASE run[r].pc \notin CommandSteps
      BY <1>25, <3>2 DEF RunsOK, RunSet, KillInterface
    <3> QED  BY <3>1, <3>2
  <2>2. Moved(r)
    BY <2>1 DEF Moved, Done
  <2> QED  BY <2>1, <2>2, <1>x DEF goal
<1>26. ASSUME PowerCut PROVE goal
  <2> SUFFICES ASSUME NEW r \in Runs PROVE Moved(r)
    BY DEF goal
  <2>1. CASE run[r] = Idle \/ run[r].pc \in Ended
    <3>1. run'[r] = run[r]
      BY <1>26, <2>1 DEF PowerCut
    <3> QED  BY <3>1, <1>x
  <2>2. CASE ~(run[r] = Idle \/ run[r].pc \in Ended)
    <3>1. run'[r] = [run[r] EXCEPT !.pc = "killed", !.temp = "none"]
      BY <1>26, <2>2 DEF PowerCut
    <3>2. /\ run'[r].pc = "killed" /\ run'[r].kind = run[r].kind /\ run'[r].name = run[r].name
          /\ run'[r].before = run[r].before
      BY <3>1 DEF RunsOK, RunSet
    <3> QED  BY <3>2 DEF Moved, Done
  <2> QED  BY <2>1, <2>2
<1>27. ASSUME UNCHANGED run PROVE goal
  BY <1>27, <1>x DEF goal
<1>28. OrphanPuts \/ OrphanErases \/ OrphanFails \/ OtherUploads \/ OtherTrashes => UNCHANGED run
  BY DEF OrphanPuts, OrphanErases, OrphanFails, OtherUploads, OtherTrashes
<1>29. UNCHANGED vars => UNCHANGED run
  BY DEF vars
<1>30. ASSUME NEW r \in Runs, Creates(r) \/ Downloads(r) \/ Uploads(r) PROVE goal
  BY <1>30, <1>1, <1>2, <1>3, <1>4, <1>5, <1>14, <1>15, <1>18, <1>19, <1>22, <1>23 DEF Creates, Downloads, Uploads
<1>31. ASSUME NEW r \in Runs, Trashes(r) \/ Deletes(r) PROVE goal
  BY <1>31, <1>6, <1>7, <1>16, <1>17, <1>20, <1>21 DEF Trashes, Deletes
<1>32. ASSUME NEW r \in Runs, Dialogs(r) PROVE goal
  BY <1>32, <1>10, <1>11, <1>12, <1>13 DEF Dialogs
<1>33. ASSUME NEW r \in Runs, Start(r) \/ Fail(r) \/ Kill(r) \/ KillInterface(r) PROVE goal
  BY <1>8, <1>9, <1>24, <1>25, <1>33
<1>34. goal
  BY <1>26, <1>27, <1>28, <1>29, <1>30, <1>31, <1>32, <1>33 DEF Next
<1> QED  BY <1>34 DEF goal

-----------------------------------------------------------------------------
(* What files can be at a name, on the medium too.                            *)
FromDownload(f) == f.by \in Runs /\ run[f.by].kind = "download"

FilesInv ==
    \A n \in Names : \A files \in disk[n] : \A f \in files :
        /\ f.data = "broken" => f.synced /\ FromDownload(f)
        /\ ~f.synced => FromDownload(f)

(* A creation that was synchronised has left only its file on the medium.     *)
Kept(n) == disk[n] = {At(n)} /\ \E f \in At(n) : f.synced /\ f.data = "whole"

CreatedInv ==
    /\ \A n \in Names : Claim("created", n) \in claims => Kept(n)
    /\ \A r \in Runs :
           run[r].pc = "confirm" /\ run[r].kind # "download"
           => \A f \in At(run[r].name) : f.by = r => disk[run[r].name] = {At(run[r].name)}

LEMMA FilesStep ==
    ASSUME TypeOK, Control, [Next]_vars, FilesInv
    PROVE  FilesInv'
PROOF
<1>1. ASSUME NEW f, FromDownload(f) PROVE FromDownload(f)'
  BY <1>1, RunsMove DEF FromDownload, Moved
<1> DEFINE good(f) == /\ f.data = "broken" => f.synced /\ FromDownload(f)
                      /\ ~f.synced => FromDownload(f)
<1>2. ASSUME NEW f, good(f) PROVE good(f)'
  BY <1>1, <1>2
<1>3. \A n \in Names : \A files \in disk[n] : \A f \in files : good(f)
  BY DEF FilesInv
<1> SUFFICES \A n \in Names : \A files \in disk'[n] : \A f \in files : good(f)'
  BY DEF FilesInv
<1> HIDE DEF good
<1>4. CASE UNCHANGED store
  BY <1>2, <1>3, <1>4 DEF store
<1>5. CASE Syncs
  BY <1>2, <1>3, <1>5, SyncFacts DEF Syncs, TypeOK, StoreOK
<1>6. ASSUME NEW r \in Runs, Publishes(r)
      PROVE  \A n \in Names : \A files \in disk'[n] : \A f \in files : good(f)'
  <2>1. good(Published(r))
    BY <1>6, PublishedFacts DEF Publishes, Publish, good, FromDownload
  <2>2. run[r].name \in Names
        /\ \A n \in Names : disk'[n] = IF n = run[r].name THEN disk[n] \cup {{Published(r)}} ELSE disk[n]
    BY <1>6, PublishedFacts DEF Publishes, Publish, Entry, TypeOK, StoreOK
  <2>3. ASSUME NEW n \in Names, NEW files \in disk'[n], NEW f \in files PROVE good(f)'
    <3>1. f = Published(r) \/ files \in disk[n]
      <4>1. files \in disk[n] \/ files = {Published(r)}
        BY <2>2, <2>3
      <4> QED  BY <2>3, <4>1
    <3>2. good(f)
      BY <1>3, <2>1, <2>3, <3>1
    <3> QED  BY <1>2, <3>2
  <2> QED  BY <2>3
<1>7. ASSUME NEW r \in Runs, Removes(r)
      PROVE  \A n \in Names : \A files \in disk'[n] : \A f \in files : good(f)'
  <2>1. \A n \in Names : \A files \in disk'[n] : files \in disk[n] \/ files = {}
    BY <1>7 DEF Removes, Entry, TypeOK, StoreOK
  <2> QED  BY <1>2, <1>3, <2>1
<1>8. CASE PowerCut
  <2> SUFFICES ASSUME NEW n \in Names, NEW g \in At(n)' PROVE good(g)'
    BY <1>8, PowerCutFacts DEF TypeOK
  <2>1. PICK files \in disk[n] : \E f \in files :
            g.by = f.by /\ g.synced /\ (f.synced => g = f) /\ g.data \in {f.data, "broken"}
    BY <1>8, PowerCutFacts DEF TypeOK
  <2>2. PICK f \in files : g.by = f.by /\ g.synced /\ (f.synced => g = f)
    BY <2>1
  <2>3. good(f)
    BY <1>3
  <2>4. good(g)
    BY <2>2, <2>3 DEF good, FromDownload
  <2> QED  BY <1>2, <2>4
<1> QED  BY <1>4, <1>5, <1>6, <1>7, <1>8, StoreChanges

LEMMA CreatedStep ==
    ASSUME TypeOK, Control, [Next]_vars, FilesInv, CreatedInv
    PROVE  CreatedInv'
PROOF
<1>0. \A r \in Runs : run[r].pc \in {"publish", "remove", "confirm"} =>
          run[r].kind # "none" /\ run[r].name \in Names
  BY KindFacts DEF Control, RunInv, Ended
<1>s. StoreOK
  BY DEF TypeOK
<1>1. ASSUME NEW n \in Names, Claim("created", n) \in claims, Claim("created", n) \in claims'
      PROVE  Kept(n)'
  <2>1. Kept(n)
    BY <1>1 DEF CreatedInv
  <2>2. CASE UNCHANGED store
    BY <2>1, <2>2 DEF Kept, store, At
  <2>3. CASE Syncs
    BY <1>s, <2>1, <2>3, SyncFacts DEF Kept, Syncs
  <2>4. ASSUME NEW r \in Runs, Publishes(r) PROVE Kept(n)'
    <3>1. run[r].name # n
      BY <2>1, <2>4 DEF Publishes, Kept
    <3>2. At(n)' = At(n) /\ disk'[n] = disk[n]
      BY <1>s, <2>4, <3>1, PublishedFacts, EntryFacts DEF Publishes, Publish
    <3> QED  BY <2>1, <3>2 DEF Kept
  <2>5. ASSUME NEW r \in Runs, Removes(r) PROVE Kept(n)'
    <3>1. run[r].name # n
      BY <1>1, <2>5 DEF Removes, Remove
    <3>2. At(n)' = At(n) /\ disk'[n] = disk[n]
      BY <1>0, <1>s, <2>5, <3>1, EntryFacts DEF Removes, Remove, OneFileOf
    <3> QED  BY <2>1, <3>2 DEF Kept
  <2>6. CASE PowerCut
    <3>1. PICK f \in At(n) : f.synced /\ f.data = "whole" /\ At(n) = {f}
      BY <1>s, <2>1 DEF Kept, StoreOK, OneFileOf
    <3>2. disk'[n] = {At(n)'} /\ At(n)' = {f}
      BY <1>s, <2>1, <2>6, <3>1, PowerCutFacts DEF Kept
    <3> QED  BY <3>1, <3>2 DEF Kept
  <2> QED  BY <2>2, <2>3, <2>4, <2>5, <2>6, StoreChanges
<1>2. ASSUME NEW n \in Names, Claim("created", n) \in claims' \ claims PROVE Kept(n)'
  <2>1. PICK r \in Runs : Confirms(r) /\ run[r].name = n
    BY <1>2, ClaimChanges
  <2>2. PICK f \in At(n) : f.by = r
    BY <2>1 DEF Confirms
  <2>3. disk[n] = {At(n)} /\ run[r].kind # "download"
    BY <2>1, <2>2 DEF Confirms, Confirm, CreatedInv
  <2>4. f.synced /\ f.data # "broken" /\ f.data \in Data
    BY <1>s, <2>2, <2>3 DEF FilesInv, FromDownload, StoreOK, Files
  <2>5. UNCHANGED store
    BY <2>1 DEF Confirms, Confirm, store
  <2> QED  BY <2>2, <2>3, <2>4, <2>5 DEF Kept, store, At, Data
<1>3. ASSUME NEW r \in Runs, NEW n, n = run'[r].name, run'[r].pc = "confirm", run'[r].kind # "download",
             NEW f \in At(n)', f.by = r
      PROVE  disk'[n] = {At(n)'}
  <2>0. n \in Names
    BY <1>3, TypeStep DEF Control, RunInv, StepsOf, Ended
  <2>1. CASE Syncs
    BY <1>s, <2>0, <2>1, SyncFacts DEF Syncs
  <2>2. CASE PowerCut
    BY <1>s, <2>0, <2>2, PowerCutFacts
  <2>3. CASE run[r].pc = "confirm" /\ ~Syncs /\ ~PowerCut
    <3>1. run[r].name = n /\ run[r].kind # "download"
      BY <1>0, <1>3, <2>3, RunsMove DEF Moved
    <3>2. CASE UNCHANGED store
      <4>1. At(n)' = At(n) /\ disk'[n] = disk[n]
        BY <3>2 DEF store, At
      <4> QED  BY <1>3, <2>3, <3>1, <4>1 DEF CreatedInv
    <3>3. ASSUME NEW s \in Runs, Publishes(s) PROVE disk'[n] = {At(n)'}
      <4>1. s # r /\ Published(s).by = s
        BY <2>3, <3>3 DEF Publishes, Publish, Published
      <4>2. CASE run[s].name = n
        <5>1. Published(s) \in Files /\ OneFileOf(n, {Published(s)}) /\ Entry(n, {Published(s)})
          BY <3>3, <4>2, PublishedFacts DEF Publishes, Publish
        <5>2. At(n)' = {Published(s)}
          BY <1>s, <2>0, <5>1, EntryFacts
        <5> QED  BY <1>3, <4>1, <5>2
      <4>3. CASE run[s].name # n
        <5>1. At(n)' = At(n) /\ disk'[n] = disk[n]
          BY <1>s, <2>0, <3>3, <4>3, PublishedFacts, EntryFacts DEF Publishes, Publish
        <5> QED  BY <1>3, <2>3, <3>1, <5>1 DEF CreatedInv
      <4> QED  BY <4>2, <4>3
    <3>4. ASSUME NEW s \in Runs, Removes(s) PROVE disk'[n] = {At(n)'}
      <4>1. run[s].name \in Names /\ OneFileOf(run[s].name, {})
        BY <1>0, <3>4 DEF Removes, Remove, OneFileOf
      <4>2. At(n)' = At(n) /\ disk'[n] = disk[n]
        BY <1>3, <1>s, <2>0, <3>4, <4>1, EntryFacts DEF Removes
      <4> QED  BY <1>3, <2>3, <3>1, <4>2 DEF CreatedInv
    <3> QED  BY <2>3, <3>2, <3>3, <3>4, StoreChanges
  <2> QED  BY <1>3, <2>1, <2>2, <2>3, RunsMove DEF Moved
<1> QED  BY <1>1, <1>2, <1>3 DEF CreatedInv

-----------------------------------------------------------------------------
(* What a trash removed has a number that no later object gets, and what an   *)
(* upload compared is there until an object of its name is trashed.           *)
TrashInv ==
    \A r \in Runs :
        /\ \A o \in run[r].before : o.id <= uploads
        /\ run[r].pc = "list" => \A o \in run[r].before : o.name = run[r].name
        /\ Done(run[r]) => run[r].before \cap cloud = {}

WholeObject(n) == \E o \in Objects(n) : o.data = "whole"

StoredInv ==
    /\ \A n \in Names : Claim("stored", n) \in claims => WholeObject(n)
    /\ \A r \in Runs :
           run[r].pc = "compare" =>
               /\ run[r].seen <= erased[run[r].name]
               /\ run[r].temp = "whole" /\ run[r].seen = erased[run[r].name] => WholeObject(run[r].name)

LEMMA TrashStep ==
    ASSUME TypeOK, Control, [Next]_vars, TrashInv
    PROVE  TrashInv'
PROOF
<1> SUFFICES ASSUME NEW r \in Runs PROVE TrashInv!(r)'
  BY DEF TrashInv
<1>1. /\ uploads \in Nat /\ uploads' \in Nat /\ uploads' >= uploads
      /\ \A o \in cloud' : o \in cloud \/ o.id = uploads + 1
  BY DriveChanges DEF TypeOK, CloudOK, drive, Gains, PutObject, Loses, EraseObject
<1>2. \A o \in cloud : o \in ObjectSet /\ o.id \in Nat /\ o.id <= uploads
  BY DEF TypeOK, CloudOK, ObjectSet
<1>3. run[r].before \subseteq ObjectSet /\ \A o \in ObjectSet : o.id \in Nat
  BY DEF TypeOK, RunsOK, RunSet, ObjectSet
<1>4. Moved(r)
  BY RunsMove
<1>5. Erases(r) => /\ run'[r].before \subseteq cloud /\ run[r].kind # "none"
                   /\ \A o \in run'[r].before : o.name = run[r].name
  BY KindFacts DEF Erases, Erase, Objects, Ended
<1>6. \A o \in run'[r].before : o.id <= uploads'
  BY <1>1, <1>2, <1>3, <1>4, <1>5 DEF TrashInv, Moved
<1>7. run'[r].pc = "list" => \A o \in run'[r].before : o.name = run'[r].name
  <2>1. run[r].pc = "list" => run[r].kind # "none"
    BY KindFacts DEF Ended
  <2> QED  BY <1>4, <1>5, <2>1 DEF TrashInv, Moved
<1>8. Done(run'[r]) => run'[r].before \cap cloud' = {}
  <2>1. CASE Done(run'[r]) /\ Done(run[r])
    <3>1. run'[r].before = run[r].before /\ run[r].before \cap cloud = {}
      BY <1>4, <2>1 DEF Moved, TrashInv
    <3>2. \A o \in run[r].before : o.id # uploads + 1
      BY <1>1, <1>3 DEF TrashInv
    <3> QED  BY <1>1, <3>1, <3>2
  <2>2. CASE Done(run'[r]) /\ Lists(r)
    BY <1>4, <2>2 DEF Moved, Lists, TrashInv, Objects
  <2> QED  BY <1>4, <2>1, <2>2 DEF Moved
<1> QED  BY <1>6, <1>7, <1>8 DEF Done

LEMMA StoredStep ==
    ASSUME TypeOK, Control, [Next]_vars, StoredInv
    PROVE  StoredInv'
PROOF
<1> USE DEF TypeOK
<1>1. ASSUME NEW n \in Names, WholeObject(n), erased'[n] = erased[n] PROVE WholeObject(n)'
  BY <1>1, DriveChanges DEF WholeObject, Objects, drive, Gains, PutObject, Loses, EraseObject, CloudOK
<1>2. /\ \A n \in Names : erased[n] \in Nat /\ erased'[n] \in Nat /\ erased'[n] >= erased[n]
      /\ \A n \in Names : Claim("stored", n) \in claims' => erased'[n] = erased[n]
  BY DriveChanges DEF drive, Gains, PutObject, Loses, EraseObject, CloudOK, ObjectSet, Claim
<1>3. ASSUME NEW n \in Names, Claim("stored", n) \in claims' PROVE WholeObject(n)'
  <2>1. CASE Claim("stored", n) \in claims
    BY <1>1, <1>2, <1>3, <2>1 DEF StoredInv
  <2>2. CASE Claim("stored", n) \notin claims
    <3>1. PICK r \in Runs : Compares(r) /\ run[r].name = n
      BY <1>3, <2>2, ClaimChanges
    <3>2. WholeObject(n)
      BY <3>1 DEF Compares, Compare, StoredInv
    <3> QED  BY <1>1, <1>2, <1>3, <3>2
  <2> QED  BY <2>1, <2>2
<1>4. ASSUME NEW r \in Runs, NEW n, n = run'[r].name, run'[r].pc = "compare"
      PROVE  /\ n \in Names
             /\ run'[r].seen <= erased'[n]
             /\ run'[r].temp = "whole" /\ run'[r].seen = erased'[n] => WholeObject(n)'
  <2>1. run[r].pc \in {"roundtrip", "compare"} => n = run[r].name /\ n \in Names
    BY <1>4, KindFacts, RunsMove DEF Control, RunInv, Ended, Moved
  <2>2. CASE run[r].pc = "compare" /\ run'[r].temp = run[r].temp /\ run'[r].seen = run[r].seen
    <3>1. /\ run[r].seen \in Nat /\ run[r].seen <= erased[n]
          /\ run[r].temp = "whole" /\ run[r].seen = erased[n] => WholeObject(n)
      BY <2>1, <2>2 DEF StoredInv, RunsOK, RunSet
    <3>2. erased[n] \in Nat /\ erased'[n] \in Nat /\ erased'[n] >= erased[n]
      BY <1>2, <2>1, <2>2
    <3>3. run'[r].seen <= erased'[n]
      BY <2>2, <3>1, <3>2
    <3>4. run'[r].seen = erased'[n] => run[r].seen = erased[n] /\ erased'[n] = erased[n]
      BY <2>2, <3>1, <3>2
    <3> QED  BY <1>1, <2>1, <2>2, <3>1, <3>3, <3>4
  <2>3. CASE RoundTrip(r)
    <3>1. n = run[r].name /\ n \in Names /\ erased' = erased /\ erased[n] \in Nat
      BY <1>2, <2>1, <2>3 DEF RoundTrip, drive
    <3>2. \E data : /\ run' = [run EXCEPT ![r].pc = "compare", ![r].temp = data, ![r].seen = erased[n]]
                    /\ data = "whole" => WholeObject(n)
      <4>1. ~Ends(r, FALSE)
        <5> SUFFICES ASSUME Ends(r, FALSE) PROVE FALSE
          OBVIOUS
        <5>1. run[r].pc \in CommandSteps
          BY <2>3 DEF RoundTrip, CommandSteps, UploadSteps
        <5>2. After(r, FALSE) # "compare"
          BY <5>1, AfterFacts DEF Control, Ended
        <5>3. run'[r].pc = After(r, FALSE)
          BY DEF Ends, RunsOK, RunSet
        <5> QED  BY <1>4, <5>2, <5>3
      <4> DEFINE received(data) == run' = [run EXCEPT ![r].pc = "compare", ![r].temp = data, ![r].seen = erased[n]]
      <4>2. (\E o \in Objects(n) : received(o.data)) \/ received("broken")
        BY <2>3, <3>1, <4>1 DEF RoundTrip, Receive
      <4>3. \A o \in Objects(n) : o.data = "whole" => WholeObject(n)
        BY DEF WholeObject
      <4> HIDE DEF received
      <4>4. \E data : received(data) /\ (data = "whole" => WholeObject(n))
        BY <4>2, <4>3
      <4> QED  BY <4>4 DEF received
    <3>3. run'[r].seen = erased[n] /\ (run'[r].temp = "whole" => WholeObject(n))
      BY <3>2 DEF RunsOK, RunSet
    <3> QED  BY <1>1, <3>1, <3>3
  <2> QED  BY <1>4, <2>2, <2>3, RunsMove DEF Moved
<1> QED  BY <1>3, <1>4 DEF StoredInv

-----------------------------------------------------------------------------
(* The inductive invariant of the store and the cloud folder. *)
SInv == TypeOK /\ Control /\ FilesInv /\ CreatedInv /\ TrashInv /\ StoredInv

LEMMA InitInv == Init => SInv
PROOF
<1> SUFFICES ASSUME Init PROVE SInv
  OBVIOUS
<1>1. TypeOK /\ Control
  BY InitTyped
<1>2. PICK here \in SUBSET Names, there \in SUBSET Names :
          /\ local = {[name |-> n, by |-> 0, data |-> "whole", synced |-> TRUE] : n \in here}
          /\ claims = {Claim("verified", n) : n \in there}
  BY DEF Init
<1>3. FilesInv
  <2>1. \A f \in local : f.synced /\ f.data = "whole"
    BY <1>2
  <2>2. \A n \in Names : disk[n] = {At(n)} /\ At(n) \subseteq local
    BY DEF Init, At
  <2> QED  BY <2>1, <2>2 DEF FilesInv
<1>4. \A r \in Runs : run[r] = Idle /\ Idle.pc = "new" /\ Idle.before = {} /\ Idle.kind = "none"
  BY DEF Init, Idle
<1>5. \A n \in Names : Claim("created", n) \notin claims /\ Claim("stored", n) \notin claims
  BY <1>2 DEF Claim
<1>6. CreatedInv
  BY <1>4, <1>5 DEF CreatedInv
<1>7. TrashInv /\ StoredInv
  BY <1>4, <1>5 DEF TrashInv, StoredInv, Done
<1> QED  BY <1>1, <1>3, <1>6, <1>7 DEF SInv

LEMMA StepInv == SInv /\ [Next]_vars => SInv'
  BY TypeStep, FilesStep, CreatedStep, TrashStep, StoredStep DEF SInv

LEMMA AlwaysInv == Spec => []SInv
  BY InitInv, StepInv, PTL DEF Spec

(* No broken archive is at a snapshot's name, whatever fails or is killed,    *)
(* but for a download whose data a loss of power has taken.                   *)
THEOREM NothingPartial == Spec => []NoPartialSnapshot
PROOF
<1>1. ASSUME SInv, NEW f \in local, f.data = "broken"
      PROVE  f.by # 0 /\ run[f.by].kind = "download" /\ f.synced
  <2>1. StoreOK /\ FilesInv
    BY <1>1 DEF SInv, TypeOK
  <2>2. f.name \in Names
    BY <1>1, <2>1 DEF StoreOK, Files
  <2>3. f \in At(f.name) /\ At(f.name) \in disk[f.name]
    BY <1>1, <2>1, <2>2 DEF StoreOK, At
  <2>4. f.synced /\ FromDownload(f)
    BY <1>1, <2>1, <2>2, <2>3 DEF FilesInv
  <2> QED  BY <2>4, StoreAssumption DEF FromDownload, Runs
<1>2. SInv => NoPartialSnapshot
  BY <1>1 DEF NoPartialSnapshot
<1> QED  BY <1>2, AlwaysInv, PTL

(* A creation that was reported stays until a run deletes it, across losses   *)
(* of power: Create reports after it has synchronised the directory.          *)
THEOREM CreatedStays == Spec => []CreatedIsKept
PROOF
<1>1. SInv => CreatedIsKept
  BY DEF SInv, CreatedInv, Kept, CreatedIsKept
<1> QED  BY <1>1, AlwaysInv, PTL

(* An upload that was reported as verified is in the cloud until an object of *)
(* its name is moved to trash, whatever other uploads and orphans do.         *)
THEOREM StoredStays == Spec => []StoredIsKept
PROOF
<1>1. SInv => StoredIsKept
  BY DEF SInv, StoredInv, WholeObject, StoredIsKept
<1> QED  BY <1>1, AlwaysInv, PTL

(* What a reported trash found under its name is gone, also where two uploads *)
(* had made two objects: the listing afterwards must have none.               *)
THEOREM TrashedStaysGone == Spec => []TrashedIsGone
PROOF
<1>1. SInv => TrashedIsGone
  BY DEF SInv, TrashInv, Done, TrashedIsGone
<1> QED  BY <1>1, AlwaysInv, PTL
=============================================================================
