------------------------------ MODULE AtomicFile ------------------------------
(***************************************************************************)
(* One conditional change of one file: atomicWrite with "create" or        *)
(* "replace", and removeAppliedCreate (internal/restore/filesystem.go      *)
(* 233-450), call by call, against a program that saves the same file, a   *)
(* failure of any call, the death of the process and a loss of power.      *)
(*                                                                         *)
(* A namespace maps the target and the two names in the private directory  *)
(* to inodes.  Renames of the kernel are atomic, and durable only after a  *)
(* synchronisation: `disk' is the set of namespaces that a loss of power   *)
(* can leave.                                                              *)
(***************************************************************************)
EXTENDS Naturals

CONSTANTS
    Want,       \* the file that the action creates, replaces with or removes
    Approved,   \* the file that a replacement displaces
    Foreign,    \* files that the other program saves
    Rechmodded, \* those of them with the bytes of Want and another mode
    MaxFaults,  \* bound on the number of failing operations
    MaxEdits,   \* bound on the number of changes by the other program
    InPlace     \* whether it also writes through descriptors it has open

ASSUME FilesAssumption ==
    /\ Want # Approved /\ {Want, Approved} \cap Foreign = {}
    /\ Rechmodded \subseteq Foreign
ASSUME BoundsAssumption == MaxFaults \in Nat /\ MaxEdits \in Nat /\ InPlace \in BOOLEAN

VARIABLES
    op,      \* "create", "replace" or "remove"
    pc,      \* the place in atomicWrite or removeAppliedCreate
    result,  \* what it returns: "ok", "refused" (an error) or "incomplete" (an
             \* incompleteMutationError, with which the directory is retained)
    dir,     \* the namespace
    disk,    \* the namespaces that a loss of power can leave
    file,    \* inode -> content and mode
    open,    \* the inodes that the other program has open
    latest,  \* the inode that it last left at the target
    gone,    \* whether it ever deleted the target
    faults,  \* operations that failed so far
    edits    \* changes by the other program so far

others == <<op, file, open, latest, gone, edits>>
vars   == <<pc, result, dir, disk, faults, others>>

Files    == {Want, Approved} \cup Foreign
None     == 0
Original == 1
Payload  == 2
Inodes   == 1 .. (MaxEdits + 2)
Saved    == edits + 3     \* the next inode that the other program creates

Named(d) == {d.target, d.private, d.aside} \ {None}
Has(inode, f) == inode # None /\ file[inode] = f
Same(inode)   == inode # None /\ file[inode] \in {Want} \cup Rechmodded

(* What cleanup may destroy: what the tool made or removes, and what the      *)
(* recovery snapshot holds.                                                   *)
Known == IF op = "remove" THEN {Want} \cup Rechmodded ELSE {Want, Approved}

-----------------------------------------------------------------------------
(* The kernel: renameat2 with RENAME_EXCHANGE and RENAME_NOREPLACE. *)

Swapped(d) == [d EXCEPT !.target = d.private, !.private = d.target]
Published(d) == [d EXCEPT !.target = d.private, !.private = None]
SetAside(d)  == [d EXCEPT !.aside = d.target, !.target = None]
PutBack(d)   == [d EXCEPT !.target = d.aside, !.aside = None]
Cleaned(d)   == [d EXCEPT !.private = None, !.aside = None]

Relinked(d, inode) == [d EXCEPT !.target = inode]

Renamed(d) == dir' = d /\ disk' = disk \cup {d}
SameNames  == UNCHANGED <<dir, disk>>

Fails == faults < MaxFaults /\ faults' = faults + 1
Works == UNCHANGED faults

Goto(p)     == pc' = p /\ UNCHANGED result
Return(r)   == pc' = "close" /\ result' = r
Incomplete  == Return("incomplete")

(* inspectParentFile: a comparison fails on other content, and on an error. *)
Check(matches, Then, Else) ==
    /\ \/ matches /\ Works /\ Then
       \/ ~ matches /\ Works /\ Else
       \/ Fails /\ Else
    /\ SameNames /\ UNCHANGED others

-----------------------------------------------------------------------------
(* The approved state, and the comparison with it before anything is changed. *)

AsApproved ==
    CASE op = "create"  -> dir.target = None
      [] op = "replace" -> Has(dir.target, Approved)
      [] op = "remove"  -> Has(dir.target, Want)

NothingToRemove == op = "remove" /\ dir.target = None

Inspect ==
    /\ pc = "inspect"
    /\ \/ AsApproved /\ Works /\ Goto("stage")
       \/ NothingToRemove /\ Works /\ pc' = "done" /\ result' = "ok"
       \/ pc' = "done" /\ result' = "refused"
          /\ (Fails \/ (~ AsApproved /\ ~ NothingToRemove /\ Works))
    /\ SameNames /\ UNCHANGED others

(* Create the private directory, write the payload to it, synchronise both.   *)
Staged(d) == IF op = "remove" THEN d ELSE [d EXCEPT !.private = Payload]

(* Mutant: the staged payload is not synchronised. *)
StageUnsynced ==
    /\ pc = "stage"
    /\ \/ /\ Works /\ Goto("publish") /\ Renamed(Staged(dir))
       \/ /\ Fails /\ Return("refused")
          /\ \E d \in {dir, Staged(dir)} : Renamed(d)
    /\ UNCHANGED others

Stage ==
    /\ pc = "stage"
    /\ \/ /\ Works /\ Goto("publish")
          /\ dir' = Staged(dir) /\ disk' = {Staged(d) : d \in disk}
       \/ /\ Fails /\ Return("refused")
          /\ \E d \in {dir, Staged(dir)} : Renamed(d)
    /\ UNCHANGED others

(* Mutant: a plain rename, which replaces what appeared at the target. *)
PublishOverwriting ==
    /\ pc = "publish"
    /\ \/ /\ Works /\ Goto("commit")
          /\ \/ op = "create"  /\ Renamed(Published(dir))
             \/ op = "replace" /\ dir.target # None /\ Renamed(Swapped(dir))
             \/ op = "remove"  /\ dir.target # None /\ Renamed(SetAside(dir))
       \/ /\ Return("refused") /\ SameNames
          /\ Fails \/ (Works /\ op # "create" /\ dir.target = None)
    /\ UNCHANGED others

Publish ==
    /\ pc = "publish"
    /\ \/ /\ Works /\ Goto("commit")
          /\ \/ op = "create"  /\ dir.target = None /\ Renamed(Published(dir))
             \/ op = "replace" /\ dir.target # None /\ Renamed(Swapped(dir))
             \/ op = "remove"  /\ dir.target # None /\ Renamed(SetAside(dir))
       \/ /\ Return("refused") /\ SameNames
          /\ Fails \/ (Works /\ (op = "create") # (dir.target = None))
    /\ UNCHANGED others

(* syncNamespaceRoots, after each of the renames. *)
Committed ==
    [commit |-> CASE op = "create"  -> "verify"
                  [] op = "replace" -> "check_displaced"
                  [] op = "remove"  -> "check_moved",
     back_commit |-> "check_back",
     quarantine_commit |-> "check_quarantined"]

(* Mutant: a rename is not synchronised. *)
CommitNothing ==
    /\ pc \in DOMAIN Committed
    /\ \/ Works /\ Goto(Committed[pc]) /\ SameNames
       \/ Fails /\ Incomplete /\ SameNames
    /\ UNCHANGED others

(* Mutant: a rename that cannot be synchronised is a plain error. *)
CommitOrRefuse ==
    /\ pc \in DOMAIN Committed
    /\ \/ Works /\ Goto(Committed[pc]) /\ UNCHANGED dir /\ disk' = {dir}
       \/ Fails /\ Return("refused") /\ SameNames
    /\ UNCHANGED others

Commit ==
    /\ pc \in DOMAIN Committed
    /\ \/ Works /\ Goto(Committed[pc]) /\ UNCHANGED dir /\ disk' = {dir}
       \/ Fails /\ Incomplete /\ SameNames
    /\ UNCHANGED others

-----------------------------------------------------------------------------
(* Create and replace. *)

CheckDisplaced ==
    pc = "check_displaced" /\ Check(Has(dir.private, Approved), Goto("verify"), Goto("back"))

(* Mutant: a published replacement that fails verification is set aside. *)
VerifySettingAside ==
    /\ pc = "verify"
    /\ Check(Has(dir.target, Want),
             IF op = "replace" THEN Goto("check_backup") ELSE Return("ok"),
             Goto("quarantine"))

Verify ==
    /\ pc = "verify"
    /\ Check(Has(dir.target, Want),
             IF op = "replace" THEN Goto("check_backup") ELSE Return("ok"),
             IF op = "replace" THEN Goto("back") ELSE Goto("quarantine"))

CheckBackup ==
    pc = "check_backup" /\ Check(Has(dir.private, Approved), Goto("drop"), Incomplete)

(* Exchange back, or move a created target aside; both need a target.         *)
Back ==
    /\ pc = "back"
    /\ \/ Works /\ dir.target # None /\ Renamed(Swapped(dir)) /\ Goto("back_commit")
       \/ (Fails \/ (Works /\ dir.target = None)) /\ Incomplete /\ SameNames
    /\ UNCHANGED others

Quarantine ==
    /\ pc = "quarantine"
    /\ \/ Works /\ dir.target # None /\ Renamed(SetAside(dir)) /\ Goto("quarantine_commit")
       \/ (Fails \/ (Works /\ dir.target = None)) /\ Incomplete /\ SameNames
    /\ UNCHANGED others

(* Mutant: what came back from the target is not compared with the payload. *)
CheckBackNothing ==
    pc = "check_back" /\ Check(dir.private # None, Return("refused"), Incomplete)

(* What came back from the target must be the payload: another program may    *)
(* have saved its file there in the meantime.                                 *)
CheckBack ==
    pc = "check_back" /\ Check(Has(dir.private, Want), Return("refused"), Incomplete)

CheckQuarantined ==
    pc = "check_quarantined" /\ Check(Has(dir.aside, Want), Return("refused"), Incomplete)

-----------------------------------------------------------------------------
(* Remove. *)

(* Mutant: what was moved is not compared again. *)
CheckMovedNothing ==
    pc = "check_moved" /\ Check(dir.aside # None, Goto("drop"), Goto("put_back"))

(* What was moved must have the size and the hash of Want; its mode is not    *)
(* compared again.                                                            *)
CheckMoved ==
    pc = "check_moved" /\ Check(Same(dir.aside), Goto("drop"), Goto("put_back"))

(* restoreMovedRegularRoots; the directory is retained in any case. *)
PutItBack ==
    /\ pc = "put_back" /\ Incomplete
    /\ \/ Works /\ dir.target = None /\ dir' = PutBack(dir) /\ disk' = {dir'}
       \/ Fails /\ dir.target = None /\ Renamed(PutBack(dir))
       \/ (Fails \/ (Works /\ dir.target # None)) /\ SameNames
    /\ UNCHANGED others

-----------------------------------------------------------------------------
(* Destroying the verified content, and the deferred Close. *)

Drop ==
    /\ pc = "drop"
    /\ \/ Works /\ Goto("drop_commit") /\ Renamed(Cleaned(dir))
       \/ Fails /\ Incomplete /\ SameNames
    /\ UNCHANGED others

DropCommit ==
    /\ pc = "drop_commit"
    /\ \/ Works /\ Return("ok") /\ UNCHANGED dir /\ disk' = {Cleaned(d) : d \in disk}
       \/ Fails /\ Incomplete /\ SameNames
    /\ UNCHANGED others

(* An error of Close turns a success of atomicWrite into an incomplete        *)
(* mutation, and one of removeAppliedCreate into a plain error.               *)
Close ==
    /\ pc = "close" /\ pc' = "done"
    /\ \/ result = "incomplete" /\ Works /\ SameNames /\ UNCHANGED result
       \/ /\ result # "incomplete" /\ Works /\ UNCHANGED result
          /\ dir' = Cleaned(dir) /\ disk' = {dir'}
       \/ /\ result # "incomplete" /\ Fails
          /\ result' = IF result = "ok" /\ op # "remove" THEN "incomplete" ELSE "refused"
          /\ \E d \in {dir, Cleaned(dir)} : Renamed(d)
    /\ UNCHANGED others

Step == \/ Inspect \/ Stage \/ Publish \/ Commit \/ CheckDisplaced \/ Verify
        \/ CheckBackup \/ Back \/ Quarantine \/ CheckBack \/ CheckQuarantined
        \/ CheckMoved \/ PutItBack \/ Drop \/ DropCommit \/ Close

-----------------------------------------------------------------------------
(* The environment. *)

Edits == edits < MaxEdits /\ edits' = edits + 1 /\ UNCHANGED <<op, pc, result, faults>>

(* The other program saves by a rename over the target, ... *)
Save == /\ Edits
        /\ \E f \in Files : file' = [file EXCEPT ![Saved] = f]
        /\ Renamed(Relinked(dir, Saved))
        /\ latest' = Saved /\ UNCHANGED <<open, gone>>

(* ... deletes the target, ... *)
Delete == /\ Edits /\ dir.target # None
          /\ Renamed(Relinked(dir, None))
          /\ latest' = None /\ gone' = TRUE /\ UNCHANGED <<file, open>>

(* ... or opens it and writes through the descriptor, wherever the inode is   *)
(* by then.                                                                   *)
Open == /\ InPlace /\ dir.target \notin {None} \cup open
        /\ open' = open \cup {dir.target}
        /\ UNCHANGED <<op, pc, result, dir, disk, faults, file, latest, gone, edits>>

Write == /\ Edits /\ SameNames
         /\ \E inode \in open, f \in Foreign : file' = [file EXCEPT ![inode] = f]
         /\ UNCHANGED <<open, latest, gone>>

Running == pc \notin {"done", "crashed"}

(* The process dies, and perhaps the power with it. *)
Crash == /\ Running /\ pc' = "crashed"
         /\ SameNames \/ \E d \in disk : dir' = d /\ disk' = {d}
         /\ UNCHANGED <<result, faults, others>>

Init ==
    /\ op \in {"create", "replace", "remove"} /\ pc = "inspect" /\ result = "none"
    /\ dir = [target |-> IF op = "create" THEN None ELSE Original,
              private |-> None, aside |-> None]
    /\ disk = {dir}
    /\ file = [n \in Inodes |-> IF n = Original /\ op = "replace" THEN Approved ELSE Want]
    /\ open = {} /\ latest = dir.target /\ gone = FALSE
    /\ faults = 0 /\ edits = 0

Next == Step \/ Save \/ Delete \/ Open \/ Write \/ Crash
Spec == Init /\ [][Next]_vars

-----------------------------------------------------------------------------
(* Properties. *)

Steps == {"inspect", "stage", "publish", "verify", "check_displaced", "check_moved",
          "check_backup", "back", "check_back", "quarantine", "check_quarantined",
          "put_back", "drop", "drop_commit", "close", "done", "crashed"}
         \cup DOMAIN Committed

(* A namespace: an inode has one name. *)
Namespaces ==
    {d \in [target : Inodes \cup {None}, private : Inodes \cup {None},
            aside : Inodes \cup {None}] :
        /\ d.target = d.private => d.target = None
        /\ d.target = d.aside   => d.target = None
        /\ d.private = d.aside  => d.private = None}

(* Types; the namespace in use is one that a loss of power can leave, and no  *)
(* rename of filesystem.go leaves an inode with two names.                    *)
TypeOK ==
    /\ op \in {"create", "replace", "remove"} /\ pc \in Steps
    /\ result \in {"none", "ok", "refused", "incomplete"}
    /\ disk \subseteq Namespaces /\ dir \in disk
    /\ file \in [Inodes -> Files]
    /\ open \subseteq Inodes /\ latest \in Inodes \cup {None} /\ gone \in BOOLEAN
    /\ faults \in 0 .. MaxFaults /\ edits \in 0 .. MaxEdits

(* While a file is replaced its pathname always names a file, whatever fails  *)
(* and whenever the power goes, unless the other program deletes it           *)
(* (filesystem.go 301-322, 333-346; docs/restore-safety-v1.md 44).            *)
AlwaysNamed == op = "replace" /\ ~ gone => \A d \in disk : d.target # None

(* A write that was refused is not listed for rollback (run.go 742-745): its  *)
(* payload is not at the target, and no loss of power brings it back there.   *)
RefusedIsUndone == result = "refused" => \A d \in disk : d.target # Payload

(* A write that was reported applied survives a loss of power: only the other *)
(* program's own changes can show anything else.  A removal that found its    *)
(* target deleted already vouches for nothing.                                *)
AppliedIsDurable ==
    result = "ok" => \A d \in disk :
        /\ d.target = Original => op = "remove" /\ gone
        /\ d.target = None => op = "remove" \/ gone

(* A step of the tool destroys nothing but what it made, what it was to       *)
(* remove, and what the recovery snapshot holds, although the other program   *)
(* may have saved its file between any two of its calls                       *)
(* (docs/restore-safety-v1.md 54; filesystem.go 138-180, 367, 417).           *)
OnlyKnownDestroyed ==
    [][pc' \notin {pc, "crashed"} =>
        \A inode \in Named(dir) \ Named(dir') : file[inode] \in Known]_vars

(* When a write ends in anything but "incomplete", which has the user look at *)
(* the retained directory, the target is as the other program last left it,   *)
(* or what it left was nothing but the approved state or the payload.         *)
LatestIsKept ==
    pc = "done" /\ result # "incomplete" =>
        \/ dir.target = latest
        \/ latest = None /\ op = "create"
        \/ latest # None /\ file[latest] \in Known

-----------------------------------------------------------------------------
(* The inductive invariant. *)

Early == {"inspect", "stage", "publish"}
(* A replacement from its exchange to the end of its verification. *)
Exchanged == {"commit", "check_displaced", "verify", "check_backup", "back", "drop"}

(* The inodes in use are the two first ones and one for each save. *)
InodesInUse ==
    /\ \A d \in disk : Named(d) \subseteq 1 .. (edits + 2)
    /\ open \subseteq 1 .. (edits + 2) /\ latest <= edits + 2
    /\ open # {} => InPlace

StepsOfOperation ==
    /\ pc \in {"check_displaced", "check_backup", "back", "back_commit", "check_back"}
        => op = "replace"
    /\ pc \in {"quarantine", "quarantine_commit", "check_quarantined"} => op = "create"
    /\ pc \in {"check_moved", "put_back"} => op = "remove"
    /\ pc \in {"drop", "drop_commit"} => op # "create"
    /\ pc = "verify" => op # "remove"
    /\ pc \in {"close", "done"} => result # "none"
    /\ result # "none" => pc \in {"close", "done", "crashed"}

(* Where the payload and the displaced file are. *)
Places ==
    /\ op = "remove"  => \A d \in disk : d.private = None /\ Payload \notin {d.target, d.aside}
    /\ op = "replace" => \A d \in disk : d.aside = None
    /\ pc \in Early => \A d \in disk :
          /\ d.aside = None /\ d.target # Payload
          /\ d.private = IF pc = "publish" /\ op # "remove" THEN Payload ELSE None
    /\ op = "create" /\ pc \in {"commit", "verify", "quarantine"}
          => dir.private = None /\ dir.aside = None
    /\ pc \in {"quarantine_commit", "check_quarantined"} => dir.private = None
    /\ op = "replace" /\ pc \in Exchanged => dir.private \notin {None, Payload}
    /\ op = "remove" /\ pc = "drop" => dir.aside # None
    /\ pc = "drop_commit" => dir.private = None /\ dir.aside = None

(* What is taken back is gone from the target once that is synchronised. *)
TakenBack ==
    /\ pc \in {"back_commit", "quarantine_commit"} => dir.target # Payload
    /\ pc \in {"check_back", "check_quarantined"} => \A d \in disk : d.target # Payload

(* What a namespace shows after the change, and that all of them do once it   *)
(* is synchronised.                                                           *)
Shows(d) ==
    /\ d.target = Original => op = "remove" /\ gone
    /\ d.target = None => op = "remove" \/ gone

Synchronised ==
    /\ pc = "inspect" /\ dir.target = None => op = "create" \/ gone
    /\ pc = "commit" => Shows(dir)
    /\ pc \in {"check_displaced", "check_moved", "verify", "check_backup", "drop", "drop_commit"}
          => \A d \in disk : Shows(d)

(* NamesInv says what the names show, whatever the files hold. *)
NamesInv == TypeOK /\ InodesInUse /\ StepsOfOperation /\ Places /\ TakenBack
            /\ Synchronised /\ AlwaysNamed /\ RefusedIsUndone /\ AppliedIsDurable

(* Nobody writes to a file in the private directory: when the tool comes to   *)
(* destroy one, its content is still the one that was verified.               *)
KnownOrNone(inode) == inode = None \/ file[inode] \in Known

PrivateIsKnown ==
    /\ file[Payload] = Want
    /\ pc = "drop" => KnownOrNone(dir.private) /\ KnownOrNone(dir.aside)
    /\ pc = "close" /\ result # "incomplete" => KnownOrNone(dir.private) /\ KnownOrNone(dir.aside)

(* Where the other program's last version is. *)
LatestIsSomewhere ==
    /\ pc \in Early => dir.target = latest
    /\ op = "create" /\ pc \in {"commit", "verify", "quarantine"}
          => dir.target = latest \/ latest = None
    /\ pc \in {"quarantine_commit", "check_quarantined"}
          => dir.target = latest \/ dir.aside = latest \/ latest = None
    /\ op = "replace" /\ pc \in Exchanged
          => dir.target = latest \/ (dir.target = Payload /\ dir.private = latest)
    /\ pc \in {"back_commit", "check_back"} => dir.target = latest \/ dir.private = latest
    /\ op = "remove" /\ pc \in {"commit", "check_moved", "drop"}
          => dir.target = latest \/ dir.aside = latest
    /\ pc = "drop_commit" \/ (pc = "close" /\ result # "incomplete") =>
          \/ dir.target = latest
          \/ latest = None /\ op = "create"
          \/ latest # None /\ file[latest] \in Known

(* ContentInv says what the files hold when the other program saves by renames *)
(* only.  It is false with InPlace: a program that has the displaced file open *)
(* can write to it until it is destroyed.                                      *)
ContentInv == PrivateIsKnown /\ LatestIsSomewhere /\ LatestIsKept

=============================================================================
