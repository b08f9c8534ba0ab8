-------------------------- MODULE AtomicFile_proofs --------------------------
(***************************************************************************)
(* Theorems about AtomicFile, for every bound on failures and on the other *)
(* program's changes.  NamesInv follows the payload and the displaced file *)
(* through the renames and needs nothing of their content; ContentInv is   *)
(* what else holds where nobody writes to a file that is no longer at its  *)
(* name.                                                                   *)
(***************************************************************************)
EXTENDS AtomicFile, TLAPS

USE FilesAssumption, BoundsAssumption

(* What the renames make of a namespace. *)
LEMMA NamesAfter ==
    ASSUME NEW d \in Namespaces
    PROVE  /\ Swapped(d) \in Namespaces
           /\ Swapped(d).target = d.private /\ Swapped(d).private = d.target /\ Swapped(d).aside = d.aside
           /\ Published(d) \in Namespaces
           /\ Published(d).target = d.private /\ Published(d).private = None /\ Published(d).aside = d.aside
           /\ SetAside(d) \in Namespaces
           /\ SetAside(d).target = None /\ SetAside(d).private = d.private /\ SetAside(d).aside = d.target
           /\ PutBack(d) \in Namespaces
           /\ PutBack(d).target = d.aside /\ PutBack(d).private = d.private /\ PutBack(d).aside = None
           /\ Cleaned(d) \in Namespaces
           /\ Cleaned(d).target = d.target /\ Cleaned(d).private = None /\ Cleaned(d).aside = None
           /\ d.target # Payload /\ d.aside # Payload => Staged(d) \in Namespaces
           /\ Staged(d).target = d.target /\ Staged(d).aside = d.aside
           /\ Staged(d).private = IF op = "remove" THEN d.private ELSE Payload
PROOF
<1> USE DEF Namespaces, Inodes, None
<1>1. Swapped(d) \in Namespaces
      /\ Swapped(d).target = d.private /\ Swapped(d).private = d.target /\ Swapped(d).aside = d.aside
  BY DEF Swapped
<1>2. Published(d) \in Namespaces
      /\ Published(d).target = d.private /\ Published(d).private = None /\ Published(d).aside = d.aside
  BY DEF Published
<1>3. SetAside(d) \in Namespaces
      /\ SetAside(d).target = None /\ SetAside(d).private = d.private /\ SetAside(d).aside = d.target
  BY DEF SetAside
<1>4. PutBack(d) \in Namespaces
      /\ PutBack(d).target = d.aside /\ PutBack(d).private = d.private /\ PutBack(d).aside = None
  BY DEF PutBack
<1>5. Cleaned(d) \in Namespaces
      /\ Cleaned(d).target = d.target /\ Cleaned(d).private = None /\ Cleaned(d).aside = None
  BY DEF Cleaned
<1>6. /\ d.target # Payload /\ d.aside # Payload => Staged(d) \in Namespaces
      /\ Staged(d).target = d.target /\ Staged(d).aside = d.aside
      /\ Staged(d).private = IF op = "remove" THEN d.private ELSE Payload
  BY DEF Staged, Payload
<1> QED  BY <1>1, <1>2, <1>3, <1>4, <1>5, <1>6

(* The other program's changes of the target; each save has an inode of its own. *)
LEMMA NamesRelinked ==
    \A d \in Namespaces : \A inode \in (Inodes \cup {None}) \ Named(d) :
        /\ Relinked(d, inode) \in Namespaces
        /\ Relinked(d, inode).target = inode
        /\ Relinked(d, inode).private = d.private /\ Relinked(d, inode).aside = d.aside
  BY DEF Relinked, Namespaces, Named, Inodes, None

LEMMA SavedIsNew ==
    ASSUME TypeOK, InodesInUse, edits < MaxEdits
    PROVE  Saved \in Inodes /\ Saved > 2 /\ \A d \in disk : Saved \notin Named(d)
  BY DEF TypeOK, InodesInUse, Saved, Inodes

LEMMA NoneIsUnnamed == \A d \in Namespaces : None \in (Inodes \cup {None}) \ Named(d)
  BY DEF Named, None, Inodes

(* NamesInv is inductive: one step per action, one conjunct at a time.          *)
LEMMA NamesStep == NamesInv /\ [Next]_vars => NamesInv'
PROOF
<1> SUFFICES ASSUME NamesInv, [Next]_vars PROVE NamesInv'
  OBVIOUS
<1> USE DEF NamesInv
<1>1. CASE Inspect
  <2> USE <1>1 DEF Inspect, others, NothingToRemove, Goto, Works, Fails, SameNames
  <2>1. TypeOK'
    BY DEF TypeOK, Steps, Committed
  <2>2. InodesInUse'
    BY DEF InodesInUse, Named, None
  <2>3. StepsOfOperation'
    BY DEF StepsOfOperation
  <2>4. Places'
    BY DEF Places, Early, Exchanged
  <2>5. TakenBack'
    BY DEF TakenBack
  <2>6. Synchronised'
    BY DEF Synchronised, Shows
  <2>7. AlwaysNamed'
    BY DEF AlwaysNamed, None
  <2>8. RefusedIsUndone'
    BY DEF RefusedIsUndone, Places, Early
  <2>9. AppliedIsDurable'
    BY DEF AppliedIsDurable, Synchronised, Shows
  <2> QED  BY <2>1, <2>2, <2>3, <2>4, <2>5, <2>6, <2>7, <2>8, <2>9 DEF NamesInv
<1>2. CASE CheckDisplaced \/ Verify \/ CheckBackup \/ CheckBack \/ CheckQuarantined \/ CheckMoved
  <2> USE <1>2 DEF CheckDisplaced, Verify, CheckBackup, CheckBack, CheckQuarantined,
                CheckMoved, others, Check, Has, Same, Goto, Return, Incomplete, Works,
                Fails, SameNames
  <2>1. TypeOK'
    BY DEF TypeOK, Steps, Committed, Inodes, Files, None
  <2>2. InodesInUse'
    BY DEF InodesInUse, Named
  <2>3. StepsOfOperation'
    BY DEF StepsOfOperation, TypeOK
  <2>4. Places'
    BY DEF Places, Early, Exchanged, StepsOfOperation
  <2>5. TakenBack'
    BY DEF TakenBack, Payload
  <2>6. Synchronised'
    BY DEF Synchronised, Shows, Original, None
  <2>7. AlwaysNamed'
    BY DEF AlwaysNamed, None
  <2>8. RefusedIsUndone'
    BY DEF RefusedIsUndone, TakenBack
  <2>9. AppliedIsDurable'
    BY DEF AppliedIsDurable, Synchronised, Shows
  <2> QED  BY <2>1, <2>2, <2>3, <2>4, <2>5, <2>6, <2>7, <2>8, <2>9 DEF NamesInv
<1>3. CASE Stage
  <2> USE <1>3 DEF Stage, others, Goto, Return, Works, Fails, Renamed
  <2>1. TypeOK'
    BY NamesAfter DEF TypeOK, Steps, Committed, None, Places, Early, Payload
  <2>2. InodesInUse'
    BY NamesAfter DEF InodesInUse, Named, TypeOK, Payload
  <2>3. StepsOfOperation'
    BY NamesAfter DEF StepsOfOperation
  <2>4. Places'
    BY NamesAfter DEF Places, Early, Exchanged, None, Payload, TypeOK
  <2>5. TakenBack'
    BY NamesAfter DEF TakenBack, Payload
  <2>6. Synchronised'
    BY NamesAfter DEF Synchronised, Shows, Original, None
  <2>7. AlwaysNamed'
    BY NamesAfter DEF AlwaysNamed, None, TypeOK
  <2>8. RefusedIsUndone'
    BY NamesAfter DEF RefusedIsUndone, TypeOK, Places, Early
  <2>9. AppliedIsDurable'
    BY NamesAfter DEF AppliedIsDurable, Original, None, TypeOK
  <2> QED  BY <2>1, <2>2, <2>3, <2>4, <2>5, <2>6, <2>7, <2>8, <2>9 DEF NamesInv
<1>4. CASE Publish
  <2> USE <1>4 DEF Publish, others, Goto, Return, Works, Fails, Renamed, SameNames
  <2>1. TypeOK'
    BY NamesAfter DEF TypeOK, Steps, Committed, Inodes, Files, None
  <2>2. InodesInUse'
    BY NamesAfter DEF InodesInUse, Named, None, TypeOK
  <2>3. StepsOfOperation'
    BY NamesAfter DEF StepsOfOperation
  <2>4. Places'
    BY NamesAfter DEF Places, Early, Exchanged, None, Payload, TypeOK
  <2>5. TakenBack'
    BY NamesAfter DEF TakenBack, Payload
  <2>6. Synchronised'
    BY NamesAfter DEF Synchronised, Shows, Original, None, TypeOK, Places, Early,
                      Payload
  <2>7. AlwaysNamed'
    BY NamesAfter DEF AlwaysNamed, None, TypeOK, Places, Early, Payload
  <2>8. RefusedIsUndone'
    BY NamesAfter DEF RefusedIsUndone, StepsOfOperation, Places, Early
  <2>9. AppliedIsDurable'
    BY NamesAfter DEF AppliedIsDurable, Original, None, TypeOK, Places, Early, Payload
  <2> QED  BY <2>1, <2>2, <2>3, <2>4, <2>5, <2>6, <2>7, <2>8, <2>9 DEF NamesInv
<1>5. CASE Commit
  <2> USE <1>5 DEF Commit, others, Committed, Goto, Return, Incomplete, Works, Fails,
                SameNames
  <2>1. TypeOK'
    BY DEF TypeOK, Steps, Inodes, Files, None
  <2>2. InodesInUse'
    BY DEF InodesInUse, Named, None, TypeOK
  <2>3. StepsOfOperation'
    BY DEF StepsOfOperation, TypeOK
  <2>4. Places'
    BY DEF Places, Early, Exchanged, None, Payload, TypeOK
  <2>5. TakenBack'
    BY DEF TakenBack, Payload, TypeOK
  <2>6. Synchronised'
    BY DEF Synchronised, Shows, Original, None
  <2>7. AlwaysNamed'
    BY DEF AlwaysNamed, None, TypeOK
  <2>8. RefusedIsUndone'
    BY DEF RefusedIsUndone, Payload, TypeOK
  <2>9. AppliedIsDurable'
    BY DEF AppliedIsDurable, Original, None, TypeOK
  <2> QED  BY <2>1, <2>2, <2>3, <2>4, <2>5, <2>6, <2>7, <2>8, <2>9 DEF NamesInv
<1>6. CASE Back
  <2> USE <1>6 DEF Back, others, Goto, Incomplete, Return, Works, Fails, Renamed, SameNames
  <2>1. TypeOK'
    BY NamesAfter DEF TypeOK, Steps, Committed, Inodes, Files, None
  <2>2. InodesInUse'
    BY NamesAfter DEF InodesInUse, Named, None, TypeOK
  <2>3. StepsOfOperation'
    BY NamesAfter DEF StepsOfOperation
  <2>4. Places'
    BY NamesAfter DEF Places, Early, Exchanged, TypeOK, StepsOfOperation
  <2>5. TakenBack'
    BY NamesAfter DEF TakenBack, TypeOK, StepsOfOperation, Places, Exchanged
  <2>6. Synchronised'
    BY NamesAfter DEF Synchronised, Shows, Original, None
  <2>7. AlwaysNamed'
    BY NamesAfter DEF AlwaysNamed, TypeOK, Places, Exchanged
  <2>8. RefusedIsUndone'
    BY NamesAfter DEF RefusedIsUndone, StepsOfOperation
  <2>9. AppliedIsDurable'
    BY NamesAfter DEF AppliedIsDurable, StepsOfOperation
  <2> QED  BY <2>1, <2>2, <2>3, <2>4, <2>5, <2>6, <2>7, <2>8, <2>9 DEF NamesInv
<1>7. CASE Quarantine
  <2> USE <1>7 DEF Quarantine, others, Goto, Incomplete, Return, Works, Fails, Renamed,
                SameNames
  <2>1. TypeOK'
    BY NamesAfter DEF TypeOK, Steps, Committed, Inodes, Files, None
  <2>2. InodesInUse'
    BY NamesAfter DEF InodesInUse, Named, None, TypeOK
  <2>3. StepsOfOperation'
    BY NamesAfter DEF StepsOfOperation
  <2>4. Places'
    BY NamesAfter DEF Places, Early, TypeOK, StepsOfOperation
  <2>5. TakenBack'
    BY NamesAfter DEF TakenBack, Payload, TypeOK, None
  <2>6. Synchronised'
    BY NamesAfter DEF Synchronised, Shows, Original, None
  <2>7. AlwaysNamed'
    BY NamesAfter DEF AlwaysNamed, StepsOfOperation
  <2>8. RefusedIsUndone'
    BY NamesAfter DEF RefusedIsUndone, Payload, TypeOK, None
  <2>9. AppliedIsDurable'
    BY NamesAfter DEF AppliedIsDurable, StepsOfOperation
  <2> QED  BY <2>1, <2>2, <2>3, <2>4, <2>5, <2>6, <2>7, <2>8, <2>9 DEF NamesInv
<1>8. CASE PutItBack
  <2> USE <1>8 DEF PutItBack, others, Incomplete, Return, Works, Fails, Renamed, SameNames
  <2>1. TypeOK'
    BY NamesAfter DEF TypeOK, Steps, Committed, Inodes, Files, None
  <2>2. InodesInUse'
    BY NamesAfter DEF InodesInUse, Named, None, TypeOK
  <2>3. StepsOfOperation'
    BY NamesAfter DEF StepsOfOperation
  <2>4. Places'
    BY NamesAfter DEF Places, Early, Exchanged, TypeOK
  <2>5. TakenBack'
    BY NamesAfter DEF TakenBack, Payload
  <2>6. Synchronised'
    BY NamesAfter DEF Synchronised, Shows, Original, None
  <2>7. AlwaysNamed'
    BY NamesAfter DEF AlwaysNamed, None, TypeOK
  <2>8. RefusedIsUndone'
    BY NamesAfter DEF RefusedIsUndone, Payload
  <2>9. AppliedIsDurable'
    BY NamesAfter DEF AppliedIsDurable, Original, None
  <2> QED  BY <2>1, <2>2, <2>3, <2>4, <2>5, <2>6, <2>7, <2>8, <2>9 DEF NamesInv
<1>9. CASE Drop
  <2> USE <1>9 DEF Drop, others, Goto, Incomplete, Return, Works, Fails, Renamed, SameNames
  <2>1. TypeOK'
    BY NamesAfter DEF TypeOK, Steps, Committed, Inodes, Files, None
  <2>2. InodesInUse'
    BY NamesAfter DEF InodesInUse, Named, None, TypeOK
  <2>3. StepsOfOperation'
    BY NamesAfter DEF StepsOfOperation
  <2>4. Places'
    BY NamesAfter DEF Places, Early, Exchanged, None, Payload, TypeOK
  <2>5. TakenBack'
    BY NamesAfter DEF TakenBack, Payload
  <2>6. Synchronised'
    BY NamesAfter DEF Synchronised, Shows, Original, None, TypeOK
  <2>7. AlwaysNamed'
    BY NamesAfter DEF AlwaysNamed, None, TypeOK
  <2>8. RefusedIsUndone'
    BY NamesAfter DEF RefusedIsUndone, Payload, TypeOK
  <2>9. AppliedIsDurable'
    BY NamesAfter DEF AppliedIsDurable, Original, None, TypeOK
  <2> QED  BY <2>1, <2>2, <2>3, <2>4, <2>5, <2>6, <2>7, <2>8, <2>9 DEF NamesInv
<1>10. CASE DropCommit
  <2> USE <1>10 DEF DropCommit, others, Incomplete, Return, Works, Fails, SameNames
  <2>1. TypeOK'
    <3>1. Cleaned(dir) = dir
      BY DEF TypeOK, Places, Namespaces, Cleaned, None
    <3>2. dir' \in disk' /\ disk' \subseteq Namespaces
      BY <3>1, NamesAfter DEF TypeOK
    <3> QED  BY <3>2 DEF TypeOK, Steps
  <2>2. InodesInUse'
    BY NamesAfter DEF InodesInUse, Named, None, TypeOK
  <2>3. StepsOfOperation'
    BY NamesAfter DEF StepsOfOperation
  <2>4. Places'
    BY NamesAfter DEF Places, Early, Exchanged, None, Payload, TypeOK
  <2>5. TakenBack'
    BY NamesAfter DEF TakenBack, Payload
  <2>6. Synchronised'
    BY NamesAfter DEF Synchronised, Shows, Original, None
  <2>7. AlwaysNamed'
    BY NamesAfter DEF AlwaysNamed, None, TypeOK
  <2>8. RefusedIsUndone'
    BY NamesAfter DEF RefusedIsUndone, Payload
  <2>9. AppliedIsDurable'
    BY NamesAfter DEF AppliedIsDurable, TypeOK, Synchronised, Shows
  <2> QED  BY <2>1, <2>2, <2>3, <2>4, <2>5, <2>6, <2>7, <2>8, <2>9 DEF NamesInv
<1>11. CASE Close
  <2> USE <1>11 DEF Close, others, Works, Fails, Renamed, SameNames
  <2>1. TypeOK'
    BY NamesAfter DEF TypeOK, Steps, Committed, Inodes, Files, None
  <2>2. InodesInUse'
    BY NamesAfter DEF InodesInUse, Named, None, TypeOK
  <2>3. StepsOfOperation'
    BY NamesAfter DEF StepsOfOperation
  <2>4. Places'
    BY NamesAfter DEF Places, Early, Exchanged, None, Payload, TypeOK
  <2>5. TakenBack'
    BY NamesAfter DEF TakenBack, Payload
  <2>6. Synchronised'
    BY NamesAfter DEF Synchronised, Shows, Original, None
  <2>7. AlwaysNamed'
    BY NamesAfter DEF AlwaysNamed, None, TypeOK
  <2>8. RefusedIsUndone'
    BY NamesAfter DEF RefusedIsUndone, TypeOK, StepsOfOperation, Places
  <2>9. AppliedIsDurable'
    BY NamesAfter DEF AppliedIsDurable, Original, None, TypeOK
  <2> QED  BY <2>1, <2>2, <2>3, <2>4, <2>5, <2>6, <2>7, <2>8, <2>9 DEF NamesInv
<1>12. CASE Save
  <2> USE <1>12 DEF Save, others, Edits, Renamed
  <2>1. TypeOK'
    BY NamesRelinked, SavedIsNew DEF TypeOK, Steps, Committed, Inodes, Files, None
  <2>2. InodesInUse'
    <3>1. edits \in Nat /\ edits' = edits + 1 /\ latest' = edits' + 2 /\ open' = open
      BY DEF TypeOK, Saved
    <3>2. ASSUME NEW d \in disk' PROVE Named(d) \subseteq 1 .. (edits' + 2)
      <4>1. CASE d \in disk
        BY <3>1, <4>1 DEF InodesInUse
      <4>2. CASE d = Relinked(dir, Saved)
        <5>1. Named(d) \subseteq {Saved} \cup Named(dir)
          BY <4>2, SavedIsNew, NamesRelinked DEF Named, TypeOK
        <5>2. Named(dir) \subseteq 1 .. (edits + 2)
          BY DEF InodesInUse, TypeOK
        <5> QED  BY <3>1, <5>1, <5>2 DEF Saved
      <4> QED  BY <4>1, <4>2
    <3> QED  BY <3>1, <3>2 DEF InodesInUse
  <2>3. StepsOfOperation'
    BY NamesRelinked, SavedIsNew DEF StepsOfOperation
  <2>4. Places'
    BY NamesRelinked, SavedIsNew DEF Places, Early, Exchanged, None, Payload, TypeOK
  <2>5. TakenBack'
    BY NamesRelinked, SavedIsNew DEF TakenBack, Payload, TypeOK
  <2>6. Synchronised'
    BY NamesRelinked, SavedIsNew DEF Synchronised, Shows, Original, None, TypeOK
  <2>7. AlwaysNamed'
    BY NamesRelinked, SavedIsNew DEF AlwaysNamed, None, TypeOK
  <2>8. RefusedIsUndone'
    BY NamesRelinked, SavedIsNew DEF RefusedIsUndone, Payload, TypeOK
  <2>9. AppliedIsDurable'
    BY NamesRelinked, SavedIsNew DEF AppliedIsDurable, Original, None, TypeOK
  <2> QED  BY <2>1, <2>2, <2>3, <2>4, <2>5, <2>6, <2>7, <2>8, <2>9 DEF NamesInv
<1>13. CASE Delete
  <2> USE <1>13 DEF Delete, others, Edits, Renamed
  <2>1. TypeOK'
    BY NamesRelinked, NoneIsUnnamed DEF TypeOK, Steps, Committed, Inodes, Files, None
  <2>2. InodesInUse'
    <3>1. edits \in Nat /\ edits' = edits + 1 /\ latest' = None /\ open' = open
      BY DEF TypeOK
    <3>2. Named(Relinked(dir, None)) \subseteq Named(dir)
      BY NamesRelinked, NoneIsUnnamed DEF Named, TypeOK
    <3>3. ASSUME NEW d \in disk' PROVE Named(d) \subseteq 1 .. (edits' + 2)
      <4>1. Named(d) \subseteq 1 .. (edits + 2)
        BY <3>2 DEF InodesInUse, TypeOK
      <4> QED  BY <3>1, <4>1
    <3> QED  BY <3>1, <3>3 DEF InodesInUse, None
  <2>3. StepsOfOperation'
    BY NamesRelinked, NoneIsUnnamed DEF StepsOfOperation
  <2>4. Places'
    BY NamesRelinked, NoneIsUnnamed DEF Places, Early, Exchanged, None, Payload, TypeOK
  <2>5. TakenBack'
    BY NamesRelinked, NoneIsUnnamed DEF TakenBack, Payload, TypeOK, None
  <2>6. Synchronised'
    BY NamesRelinked, NoneIsUnnamed DEF Synchronised, Shows, Original, None, TypeOK
  <2>7. AlwaysNamed'
    BY NamesRelinked, NoneIsUnnamed DEF AlwaysNamed, None
  <2>8. RefusedIsUndone'
    BY NamesRelinked, NoneIsUnnamed DEF RefusedIsUndone, Payload, TypeOK, None
  <2>9. AppliedIsDurable'
    BY NamesRelinked, NoneIsUnnamed DEF AppliedIsDurable, Original, None, TypeOK
  <2> QED  BY <2>1, <2>2, <2>3, <2>4, <2>5, <2>6, <2>7, <2>8, <2>9 DEF NamesInv
<1>14. CASE Open \/ Write
  <2> USE <1>14 DEF Open, Write, others, Edits, SameNames
  <2>1. TypeOK'
    <3>1. op' = op /\ pc' = pc /\ result' = result /\ dir' = dir /\ disk' = disk
          /\ latest' = latest /\ gone' = gone /\ faults' = faults
      OBVIOUS
    <3>2. file' \in [Inodes -> Files] /\ edits' \in 0 .. MaxEdits
      BY DEF TypeOK, Files
    <3>3. open' \subseteq Inodes
      BY DEF TypeOK, Namespaces
    <3>4. /\ op' \in {"create", "replace", "remove"} /\ pc' \in Steps
          /\ result' \in {"none", "ok", "refused", "incomplete"}
          /\ disk' \subseteq Namespaces /\ dir' \in disk'
          /\ latest' \in Inodes \cup {None} /\ gone' \in BOOLEAN
          /\ faults' \in 0 .. MaxFaults
      BY <3>1, Zenon DEF TypeOK
    <3> HIDE DEF Open, Write, others, Edits, SameNames
    <3> QED  BY <3>2, <3>3, <3>4, Zenon DEF TypeOK, Steps, Namespaces, Inodes, Files, None, Committed
  <2>2. InodesInUse'
    <3>1. CASE Open
      <4>1. dir.target \in Named(dir) /\ open' = open \cup {dir.target} /\ InPlace
        BY <3>1 DEF Open, Named
      <4>2. dir' = dir /\ disk' = disk /\ edits' = edits /\ latest' = latest
        BY <3>1 DEF Open
      <4> QED  BY <4>1, <4>2 DEF InodesInUse, TypeOK
    <3>2. CASE Write
      BY <3>2 DEF InodesInUse, TypeOK
    <3> QED  BY <3>1, <3>2
  <2>3. StepsOfOperation'
    BY DEF StepsOfOperation
  <2>4. Places'
    BY DEF Places, Early, Exchanged, None, Payload
  <2>5. TakenBack'
    BY DEF TakenBack, Payload
  <2>6. Synchronised'
    BY DEF Synchronised, Shows, Original, None
  <2>7. AlwaysNamed'
    BY DEF AlwaysNamed, None
  <2>8. RefusedIsUndone'
    BY DEF RefusedIsUndone, Payload
  <2>9. AppliedIsDurable'
    BY DEF AppliedIsDurable, Original, None
  <2> QED  BY <2>1, <2>2, <2>3, <2>4, <2>5, <2>6, <2>7, <2>8, <2>9 DEF NamesInv
<1>15. CASE Crash
  <2> USE <1>15 DEF Crash, others, Running, SameNames
  <2>1. TypeOK'
    BY DEF TypeOK, Steps, Committed, Inodes, Files, None
  <2>2. InodesInUse'
    BY DEF InodesInUse, Named, None
  <2>3. StepsOfOperation'
    BY DEF StepsOfOperation
  <2>4. Places'
    BY DEF Places, Early, Exchanged, None, Payload
  <2>5. TakenBack'
    BY DEF TakenBack, Payload
  <2>6. Synchronised'
    BY DEF Synchronised, Shows, Original, None
  <2>7. AlwaysNamed'
    BY DEF AlwaysNamed, None
  <2>8. RefusedIsUndone'
    BY DEF RefusedIsUndone, Payload
  <2>9. AppliedIsDurable'
    BY DEF AppliedIsDurable, Original, None
  <2> QED  BY <2>1, <2>2, <2>3, <2>4, <2>5, <2>6, <2>7, <2>8, <2>9 DEF NamesInv
<1>16. CASE UNCHANGED vars
  BY <1>16 DEF vars, others, TypeOK, Steps, Committed, InodesInUse, StepsOfOperation, Places, TakenBack,
               Synchronised, Shows, AlwaysNamed, RefusedIsUndone, AppliedIsDurable
<1> QED  BY <1>1, <1>2, <1>3, <1>4, <1>5, <1>6, <1>7, <1>8, <1>9, <1>10, <1>11, <1>12, <1>13, <1>14, <1>15, <1>16 DEF Next, Step

(* Where nobody writes through open descriptors, ContentInv is inductive too.   *)
LEMMA ContentStep ==
    ASSUME ~ InPlace, NamesInv, ContentInv, [Next]_vars
    PROVE  ContentInv'
PROOF
<1> USE DEF NamesInv, ContentInv
<1>1. CASE Inspect
  <2> USE <1>1 DEF Inspect, others, NothingToRemove, Goto, Works, Fails, SameNames
  <2>1. PrivateIsKnown'
    BY DEF PrivateIsKnown, KnownOrNone, Known
  <2>2. LatestIsSomewhere'
    BY DEF LatestIsSomewhere, Places, Early
  <2>3. LatestIsKept'
    BY DEF LatestIsKept, LatestIsSomewhere, Places, Early
  <2> QED  BY <2>1, <2>2, <2>3 DEF ContentInv
<1>2. CASE CheckDisplaced \/ Verify \/ CheckBackup \/ CheckBack \/ CheckQuarantined \/ CheckMoved
  <2> USE <1>2 DEF CheckDisplaced, Verify, CheckBackup, CheckBack, CheckQuarantined,
                CheckMoved, others, Check, Has, Same, Goto, Return, Incomplete, Works,
                Fails, SameNames
  <2>1. PrivateIsKnown'
    BY DEF PrivateIsKnown, KnownOrNone, Known, TypeOK, StepsOfOperation, Places
  <2>2. LatestIsSomewhere'
    BY DEF LatestIsSomewhere, Known, TypeOK, StepsOfOperation, Places, Early, Exchanged
  <2>3. LatestIsKept'
    BY DEF LatestIsKept, Known
  <2> QED  BY <2>1, <2>2, <2>3 DEF ContentInv
<1>3. CASE Stage
  <2> USE <1>3 DEF Stage, others, Goto, Return, Works, Fails, Renamed
  <2>1. PrivateIsKnown'
    BY NamesAfter DEF PrivateIsKnown, KnownOrNone, Known, TypeOK, Places, Early
  <2>2. LatestIsSomewhere'
    BY NamesAfter DEF LatestIsSomewhere, TypeOK, Places, Early
  <2>3. LatestIsKept'
    BY NamesAfter DEF LatestIsKept, Known
  <2> QED  BY <2>1, <2>2, <2>3 DEF ContentInv
<1>4. CASE Publish
  <2> USE <1>4 DEF Publish, others, Goto, Return, Works, Fails, Renamed, SameNames
  <2>1. PrivateIsKnown'
    BY NamesAfter DEF PrivateIsKnown, KnownOrNone, Known, TypeOK, Places, Early
  <2>2. LatestIsSomewhere'
    BY NamesAfter DEF LatestIsSomewhere, TypeOK, Places, Early
  <2>3. LatestIsKept'
    BY NamesAfter DEF LatestIsKept, Known
  <2> QED  BY <2>1, <2>2, <2>3 DEF ContentInv
<1>5. CASE Commit
  <2> USE <1>5 DEF Commit, others, Committed, Goto, Return, Incomplete, Works, Fails,
                SameNames
  <2>1. PrivateIsKnown'
    BY DEF PrivateIsKnown, KnownOrNone, Known, TypeOK, Inodes, None, Payload
  <2>2. LatestIsSomewhere'
    BY DEF LatestIsSomewhere, TypeOK, Places, Early, Exchanged
  <2>3. LatestIsKept'
    BY DEF LatestIsKept, Known, TypeOK, Inodes, None, Payload
  <2> QED  BY <2>1, <2>2, <2>3 DEF ContentInv
<1>6. CASE Back
  <2> USE <1>6 DEF Back, others, Goto, Incomplete, Return, Works, Fails, Renamed, SameNames
  <2>1. PrivateIsKnown'
    BY NamesAfter DEF PrivateIsKnown, KnownOrNone, Known
  <2>2. LatestIsSomewhere'
    BY NamesAfter DEF LatestIsSomewhere, TypeOK, StepsOfOperation, Places, Early,
                      Exchanged
  <2>3. LatestIsKept'
    BY NamesAfter DEF LatestIsKept, Known
  <2> QED  BY <2>1, <2>2, <2>3 DEF ContentInv
<1>7. CASE Quarantine
  <2> USE <1>7 DEF Quarantine, others, Goto, Incomplete, Return, Works, Fails, Renamed,
                SameNames
  <2>1. PrivateIsKnown'
    BY NamesAfter DEF PrivateIsKnown, KnownOrNone, Known
  <2>2. LatestIsSomewhere'
    BY NamesAfter DEF LatestIsSomewhere, TypeOK, StepsOfOperation, Places, Early
  <2>3. LatestIsKept'
    BY NamesAfter DEF LatestIsKept, Known
  <2> QED  BY <2>1, <2>2, <2>3 DEF ContentInv
<1>8. CASE PutItBack
  <2> USE <1>8 DEF PutItBack, others, Incomplete, Return, Works, Fails, Renamed, SameNames
  <2>1. PrivateIsKnown'
    BY NamesAfter DEF PrivateIsKnown, KnownOrNone, Known
  <2>2. LatestIsSomewhere'
    BY NamesAfter DEF LatestIsSomewhere, Places, Early, Exchanged
  <2>3. LatestIsKept'
    BY NamesAfter DEF LatestIsKept, Known
  <2> QED  BY <2>1, <2>2, <2>3 DEF ContentInv
<1>9. CASE Drop
  <2> USE <1>9 DEF Drop, others, Goto, Incomplete, Return, Works, Fails, Renamed, SameNames
  <2>1. PrivateIsKnown'
    BY NamesAfter DEF PrivateIsKnown, KnownOrNone, Known
  <2>2. LatestIsSomewhere'
    BY NamesAfter DEF LatestIsSomewhere, Known, PrivateIsKnown, KnownOrNone, TypeOK,
                      StepsOfOperation, Places, Early, Exchanged
  <2>3. LatestIsKept'
    BY NamesAfter DEF LatestIsKept, Known
  <2> QED  BY <2>1, <2>2, <2>3 DEF ContentInv
<1>10. CASE DropCommit
  <2> USE <1>10 DEF DropCommit, others, Incomplete, Return, Works, Fails, SameNames
  <2>1. PrivateIsKnown'
    BY NamesAfter DEF PrivateIsKnown, KnownOrNone, Places
  <2>2. LatestIsSomewhere'
    BY NamesAfter DEF LatestIsSomewhere, Known, Places, Early, Exchanged
  <2>3. LatestIsKept'
    BY NamesAfter DEF LatestIsKept, Known
  <2> QED  BY <2>1, <2>2, <2>3 DEF ContentInv
<1>11. CASE Close
  <2> USE <1>11 DEF Close, others, Works, Fails, Renamed, SameNames
  <2>1. PrivateIsKnown'
    BY NamesAfter DEF PrivateIsKnown, KnownOrNone, Known
  <2>2. LatestIsSomewhere'
    BY NamesAfter DEF LatestIsSomewhere, Places, Early, Exchanged
  <2>3. LatestIsKept'
    BY NamesAfter DEF LatestIsKept, Known, LatestIsSomewhere, TypeOK
  <2> QED  BY <2>1, <2>2, <2>3 DEF ContentInv
<1>12. CASE Save
  <2> USE <1>12 DEF Save, others, Edits, Renamed
  <2>1. PrivateIsKnown'
    BY NamesRelinked, SavedIsNew DEF PrivateIsKnown, KnownOrNone, Known, TypeOK, Inodes,
                                     Payload, Namespaces
  <2>2. LatestIsSomewhere'
    BY NamesRelinked, SavedIsNew DEF LatestIsSomewhere, Known, TypeOK, Inodes, None,
                                     Payload
  <2>3. LatestIsKept'
    BY NamesRelinked, SavedIsNew DEF LatestIsKept, Known, TypeOK, Inodes, None, Payload
  <2> QED  BY <2>1, <2>2, <2>3 DEF ContentInv
<1>13. CASE Delete
  <2> USE <1>13 DEF Delete, others, Edits, Renamed
  <2>1. PrivateIsKnown'
    BY NamesRelinked, NoneIsUnnamed DEF PrivateIsKnown, KnownOrNone, Known, TypeOK,
                                        Inodes, None, Payload
  <2>2. LatestIsSomewhere'
    BY NamesRelinked, NoneIsUnnamed DEF LatestIsSomewhere, Known, TypeOK, Inodes, None,
                                        Payload
  <2>3. LatestIsKept'
    BY NamesRelinked, NoneIsUnnamed DEF LatestIsKept, Known, TypeOK, Inodes, None,
                                        Payload
  <2> QED  BY <2>1, <2>2, <2>3 DEF ContentInv
<1>14. CASE Open \/ Write
  <2> USE <1>14 DEF Open, Write, others, Edits, SameNames
  <2>1. PrivateIsKnown'
    BY DEF PrivateIsKnown, KnownOrNone, InodesInUse
  <2>2. LatestIsSomewhere'
    BY DEF LatestIsSomewhere, InodesInUse
  <2>3. LatestIsKept'
    BY DEF LatestIsKept, InodesInUse
  <2> QED  BY <2>1, <2>2, <2>3 DEF ContentInv
<1>15. CASE Crash
  <2> USE <1>15 DEF Crash, others, Running, SameNames
  <2>1. PrivateIsKnown'
    BY DEF PrivateIsKnown, KnownOrNone, Known
  <2>2. LatestIsSomewhere'
    BY DEF LatestIsSomewhere, Places, Early, Exchanged
  <2>3. LatestIsKept'
    BY DEF LatestIsKept, Known
  <2> QED  BY <2>1, <2>2, <2>3 DEF ContentInv
<1>16. CASE UNCHANGED vars
  BY <1>16 DEF vars, others, PrivateIsKnown, KnownOrNone, Known, LatestIsSomewhere, LatestIsKept
<1> QED  BY <1>1, <1>2, <1>3, <1>4, <1>5, <1>6, <1>7, <1>8, <1>9, <1>10, <1>11, <1>12, <1>13, <1>14, <1>15, <1>16 DEF Next, Step

(* No step of the tool takes an unknown file's last name away.                  *)
LEMMA StepDestroysOnlyKnown ==
    ASSUME ~ InPlace, NamesInv, ContentInv, Step
    PROVE  \A inode \in Named(dir) \ Named(dir') : file[inode] \in Known
PROOF
<1> USE DEF NamesInv, ContentInv
<1>1. dir \in Namespaces /\ dir \in disk
  BY DEF TypeOK
<1>2. CASE dir' = dir
  BY <1>2
<1>3. CASE Stage
  <2>1. dir' = dir \/ dir' = Staged(dir)
    BY <1>3 DEF Stage, Renamed
  <2>2. op # "remove" => dir.private = None
    BY <1>1, <1>3 DEF Stage, Places, Early
  <2>3. Named(dir) \subseteq Named(dir')
    BY <1>1, <2>1, <2>2, NamesAfter DEF Named
  <2> QED  BY <2>3
<1>4. CASE Publish \/ Back \/ Quarantine \/ PutItBack
  <2>1. CASE dir' = Swapped(dir)
    BY <1>1, <2>1, NamesAfter DEF Named
  <2>2. CASE dir' = Published(dir) /\ dir.target = None
    BY <1>1, <2>2, NamesAfter DEF Named
  <2>3. CASE dir' = SetAside(dir) /\ dir.aside = None
    BY <1>1, <2>3, NamesAfter DEF Named
  <2>4. CASE dir' = PutBack(dir) /\ dir.target = None
    BY <1>1, <2>4, NamesAfter DEF Named
  <2>5. pc \in {"publish", "quarantine"} => dir.aside = None
    BY <1>1 DEF Places, Early, StepsOfOperation
  <2> QED  BY <1>2, <1>4, <2>1, <2>2, <2>3, <2>4, <2>5
           DEF Publish, Back, Quarantine, PutItBack, Renamed, SameNames
<1>5. CASE Drop \/ Close
  <2>1. CASE dir' = Cleaned(dir)
    <3>1. Named(dir) \ Named(dir') \subseteq {dir.private, dir.aside} \ {None}
      BY <1>1, <2>1, NamesAfter DEF Named
    <3>2. pc = "drop" \/ (pc = "close" /\ result # "incomplete") \/ dir' = dir
      BY <1>5 DEF Drop, Close, SameNames
    <3>3. CASE pc = "drop" \/ (pc = "close" /\ result # "incomplete")
      BY <3>1, <3>3 DEF PrivateIsKnown, KnownOrNone
    <3> QED  BY <1>2, <3>2, <3>3
  <2> QED  BY <1>2, <1>5, <2>1 DEF Drop, Close, Renamed, SameNames
<1>6. CASE \/ Inspect \/ Commit \/ CheckDisplaced \/ Verify \/ CheckBackup \/ CheckBack
           \/ CheckQuarantined \/ CheckMoved \/ DropCommit
  BY <1>2, <1>6 DEF Inspect, Commit, CheckDisplaced, Verify, CheckBackup, CheckBack,
                    CheckQuarantined, CheckMoved, DropCommit, Check, SameNames
<1> QED  BY <1>3, <1>4, <1>5, <1>6 DEF Step

LEMMA InitNames == Init => NamesInv
PROOF
<1> SUFFICES ASSUME Init PROVE NamesInv
  OBVIOUS
<1>1. dir \in Namespaces /\ dir.private = None /\ dir.aside = None
      /\ dir.target = IF op = "create" THEN None ELSE Original
  BY DEF Init, Namespaces, None, Original, Inodes
<1>2. TypeOK
  <2>1. Want \in Files /\ Approved \in Files
    BY DEF Files
  <2>2. file \in [Inodes -> Files]
    BY <2>1 DEF Init
  <2>3. pc \in Steps /\ gone \in BOOLEAN
    BY DEF Init, Steps
  <2>4. disk \subseteq Namespaces /\ dir \in disk
    BY <1>1 DEF Init
  <2>5. open \subseteq Inodes /\ latest \in Inodes \cup {None}
    BY <1>1 DEF Init, Inodes, None, Original
  <2>6. faults \in 0 .. MaxFaults /\ edits \in 0 .. MaxEdits
    BY DEF Init
  <2> QED  BY <2>2, <2>3, <2>4, <2>5, <2>6 DEF Init, TypeOK
<1>3. InodesInUse /\ StepsOfOperation /\ Places
  BY <1>1 DEF Init, InodesInUse, Named, StepsOfOperation, Places, Early, Exchanged,
              None, Original, Payload
<1>4. TakenBack /\ Synchronised /\ AlwaysNamed /\ RefusedIsUndone /\ AppliedIsDurable
  BY <1>1 DEF Init, TakenBack, Synchronised, Shows, AlwaysNamed, RefusedIsUndone,
              AppliedIsDurable, None, Original
<1> QED  BY <1>2, <1>3, <1>4 DEF NamesInv

LEMMA InitContent == Init => ContentInv
  BY DEF Init, ContentInv, PrivateIsKnown, KnownOrNone, LatestIsSomewhere, LatestIsKept,
         Early, Exchanged, Inodes, Original, Payload

(* Type correctness and what the names show, for every bound on failures and    *)
(* on the other program's changes, in place or not (filesystem.go 233-450).     *)
THEOREM NamesAreRight == Spec => []NamesInv
PROOF
<1> QED  BY InitNames, NamesStep, PTL DEF Spec

(* A pathname that is replaced always names a file (filesystem.go 301-340).     *)
THEOREM ReplacedIsAlwaysNamed == Spec => []AlwaysNamed
PROOF
<1>1. NamesInv => AlwaysNamed
  BY DEF NamesInv
<1> QED  BY <1>1, NamesAreRight, PTL

(* Every step of a write keeps the types, and no rename of filesystem.go gives  *)
(* an inode two names, now or after a loss of power (filesystem.go 233-450).    *)
THEOREM TypeCorrect == Spec => []TypeOK
PROOF
<1>1. NamesInv => TypeOK
  BY DEF NamesInv
<1> QED  BY <1>1, NamesAreRight, PTL

(* A refused write leaves nothing to roll back (run.go 737-745).                *)
THEOREM RefusalsLeaveNothing == Spec => []RefusedIsUndone
PROOF
<1>1. NamesInv => RefusedIsUndone
  BY DEF NamesInv
<1> QED  BY <1>1, NamesAreRight, PTL

(* A write that was reported applied survives a loss of power at any later      *)
(* moment (run.go 746-755, filesystem.go 322-366).                              *)
THEOREM SuccessesAreDurable == Spec => []AppliedIsDurable
PROOF
<1>1. NamesInv => AppliedIsDurable
  BY DEF NamesInv
<1> QED  BY <1>1, NamesAreRight, PTL

(* Where others save by renames, what the tool comes to destroy still has the   *)
(* content it verified, and the other program's last version is at the target   *)
(* or where the next step looks for it (filesystem.go 301-366).                 *)
THEOREM ContentIsRight ==
    ASSUME ~ InPlace
    PROVE  Spec => []ContentInv
PROOF
<1>1. NamesInv /\ ContentInv /\ [Next]_vars => (NamesInv /\ ContentInv)'
  BY NamesStep, ContentStep
<1> QED  BY <1>1, InitNames, InitContent, PTL DEF Spec

(* Where other programs save by renames, their last version stays at the        *)
(* target (filesystem.go 301-366).                                              *)
THEOREM LatestIsAlwaysKept ==
    ASSUME ~ InPlace
    PROVE  Spec => []LatestIsKept
PROOF
<1>1. ContentInv => LatestIsKept
  BY DEF ContentInv
<1> QED  BY <1>1, ContentIsRight, PTL

(* ... and nothing of theirs is ever destroyed (filesystem.go 138-180, 367).    *)
THEOREM NothingForeignIsDestroyed ==
    ASSUME ~ InPlace
    PROVE  Spec => OnlyKnownDestroyed
PROOF
<1> DEFINE Destroys == pc' \notin {pc, "crashed"} =>
               \A inode \in Named(dir) \ Named(dir') : file[inode] \in Known
<1>1. NamesInv /\ ContentInv /\ [Next]_vars => (NamesInv /\ ContentInv)'
  BY NamesStep, ContentStep
<1>2. NamesInv /\ ContentInv /\ [Next]_vars => [Destroys]_vars
  <2> SUFFICES ASSUME NamesInv, ContentInv, [Next]_vars, pc' \notin {pc, "crashed"}
               PROVE  \A inode \in Named(dir) \ Named(dir') : file[inode] \in Known
    OBVIOUS
  <2>1. Step
    BY DEF Next, Save, Delete, Open, Write, Crash, Edits, vars
  <2> QED  BY <2>1, StepDestroysOnlyKnown
<1> QED  BY <1>1, <1>2, InitNames, InitContent, PTL DEF Spec, OnlyKnownDestroyed

=============================================================================
