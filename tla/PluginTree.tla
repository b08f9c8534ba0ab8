------------------------------ MODULE PluginTree ------------------------------
(***************************************************************************)
(* One plugin directory that the restore installs itself, rename by rename: *)
(* from the comparison with the approved tree to the removal of the private *)
(* directories, with the rollback when this or a later action fails.  Other *)
(* programs change what the plugin's name shows between any two steps.      *)
(***************************************************************************)
EXTENDS Naturals

CONSTANTS
    Operations, \* what the plan may want: to create, to replace
    MaxFaults,  \* bound on the calls that fail
    MaxChanges  \* bound on what other programs do

ASSUME TreeAssumption ==
    Operations \subseteq {"create", "replace"} /\ MaxFaults \in Nat /\ MaxChanges \in Nat

(* The approved tree, the prepared one, one that another program made or      *)
(* changed.  An installation and its rollback have a private directory each.  *)
None   == "none"
Trees  == {"old", "new", "theirs"}
Places == {"target", "staging", "preserve", "private", "rollback"}

VARIABLES
    op,        \* the operation
    dir,       \* place -> the tree that is there
    step,      \* the next step, or the outcome the last one returned
    outcome,   \* what the installation returned to Run
    undone,    \* what the rollback returned
    destroyed, \* the trees that the restore deleted
    taken,     \* what the target showed when another program changed it
    left       \* how many faults and changes are left

still == <<op, outcome, undone, destroyed, taken>>
treeVars == <<op, dir, step, outcome, undone, destroyed, taken, left>>

(* refused and uncertain come without an item for Run to roll back; what is   *)
(* incomplete or uncertain makes Run retain the workspace.                    *)
Outcomes == {"installed", "failed", "incomplete", "refused", "uncertain"}
HasItem  == {"installed", "failed", "incomplete"}
Retained == {"incomplete", "uncertain"}

InstallSteps == {"check", "publish", "exchange", "displaced", "preserve", "reverse", "reversed",
                 "verify", "isolate", "swapBack", "restored", "setAside", "setAsideAnyway",
                 "aside", "withdraw", "withdrawn", "giveBack", "close"}
UndoSteps    == {"undo", "undoMove", "undoVerify", "undoHide", "undoIsolate", "undoExchange",
                 "undoCheck", "undoPut", "undoPutCheck", "undoPutBack", "undoTake", "undoTaken",
                 "undoReturn", "undoClose", "undoDrop", "undone", "undoFailed"}
TreeSteps    == InstallSteps \cup Outcomes \cup UndoSteps \cup {"cleanup"}

Was == IF op = "create" THEN None ELSE "old"

Fault == left.faults > 0 /\ left' = [left EXCEPT !.faults = @ - 1]
Calm  == left' = left

-----------------------------------------------------------------------------
Swapped(a, b) == [dir EXCEPT ![a] = dir[b], ![b] = dir[a]]

(* A rename is done, or done without that its directories could be            *)
(* synchronised, or refused.                                                  *)
Rename(possible, a, b, done, uncertain, refused) ==
    /\ \/ /\ possible /\ dir' = Swapped(a, b)
          /\ \/ step' = done /\ Calm
             \/ step' = uncertain /\ Fault
       \/ /\ dir' = dir /\ step' = refused
          /\ IF possible THEN Fault ELSE Calm
    /\ UNCHANGED still

Move(a, b, done, uncertain, refused) ==
    Rename(dir[a] # None /\ dir[b] = None, a, b, done, uncertain, refused)

Exchange(a, b, done, uncertain, refused) ==
    Rename(dir[a] # None /\ dir[b] # None, a, b, done, uncertain, refused)

(* A comparison, which may also fail to read, or the creation of a private    *)
(* directory.                                                                 *)
Test(holds, yes, no) ==
    /\ \/ holds /\ step' = yes /\ Calm
       \/ step' = no /\ IF holds THEN Fault ELSE Calm
    /\ UNCHANGED <<dir, still>>

(* Mutant: an absent tree is counted as removed. *)
RemoveAny(place, done, failed) ==
    /\ dir' = [dir EXCEPT ![place] = None] /\ destroyed' = destroyed \cup {dir[place]}
    /\ step' \in {done, failed} /\ Calm
    /\ UNCHANGED <<op, outcome, undone, taken>>

(* A private directory is removed with all it holds.                          *)
Remove(place, done, failed) ==
    LET gone == destroyed \cup ({dir[place]} \ {None}) IN
    /\ \/ dir' = [dir EXCEPT ![place] = None] /\ destroyed' = gone /\ step' = done /\ Calm
       \/ dir' = dir /\ destroyed' \in {destroyed, gone} /\ step' = failed /\ Fault
    /\ UNCHANGED <<op, outcome, undone, taken>>

-----------------------------------------------------------------------------
(* Installation *)

Check == step = "check" /\ Test(dir.target = Was, IF op = "create" THEN "publish" ELSE "exchange", "refused")

Publish == step = "publish" /\ Move("staging", "target", "verify", "failed", "refused")

(* Mutant: the approved tree is moved away before the new one is moved in.    *)
ExchangeByMoves == step = "exchange" /\ Move("target", "preserve", "publish", "incomplete", "refused")

ExchangeOld == step = "exchange" /\ Exchange("staging", "target", "displaced", "incomplete", "refused")

CheckDisplaced == step = "displaced" /\ Test(dir.staging = "old", "preserve", "reverse")
Preserve       == step = "preserve" /\ Move("staging", "preserve", "verify", "incomplete", "reverse")
Reverse        == step = "reverse" /\ Exchange("staging", "target", "reversed", "incomplete", "incomplete")

(* Mutant: what the reversal took back is not compared. *)
CheckReversedNothing == step = "reversed" /\ Test(TRUE, "refused", "uncertain")

CheckReversed == step = "reversed" /\ Test(dir.staging = "new", "refused", "uncertain")

Verify == step = "verify" /\ Test(dir.target = "new", "installed", "isolate")

(* The final verification failed: what is there is taken into a private       *)
(* directory, and the approved tree put back.                                 *)
Isolate  == step = "isolate" /\ Test(TRUE, IF op = "create" THEN "withdraw" ELSE "swapBack", "incomplete")
SwapBack == step = "swapBack" /\ Exchange("target", "preserve", "restored", "incomplete", "incomplete")
CheckRestored  == step = "restored" /\ Test(dir.target = "old", "setAside", "setAsideAnyway")
SetAside       == step = "setAside" /\ Move("preserve", "private", "aside", "incomplete", "incomplete")
SetAsideAnyway == step = "setAsideAnyway" /\ Move("preserve", "private", "incomplete", "incomplete", "incomplete")
CheckAside     == step = "aside" /\ Test(dir.private = "new", "close", "incomplete")

Withdraw       == step = "withdraw" /\ Move("target", "private", "withdrawn", "giveBack", "giveBack")
CheckWithdrawn == step = "withdrawn" /\ Test(dir.private = "new", "close", "giveBack")
GiveBack       == step = "giveBack" /\ Move("private", "target", "incomplete", "incomplete", "incomplete")

Close == step = "close" /\ Remove("private", "refused", "incomplete")

-----------------------------------------------------------------------------
(* Run rolls back an item that failed, and one that was installed when a      *)
(* later action fails.                                                        *)
Decide ==
    /\ step \in Outcomes
    /\ outcome' = step
    /\ step' \in CASE step = "installed" -> {"cleanup", "undo"}
                   [] step \in HasItem \ {"installed"} -> {"undo"}
                   [] OTHER -> {"cleanup"}
    /\ Calm /\ UNCHANGED <<op, dir, undone, destroyed, taken>>

Undo ==
    /\ step = "undo"
    /\ IF dir.target = None
       THEN Test(TRUE, IF op = "create" THEN "undone" ELSE "undoMove", "undoFailed")
       ELSE Test(TRUE, "undoIsolate", "undoFailed")

UndoMove   == step = "undoMove" /\ Move("preserve", "target", "undoVerify", "undoFailed", "undoFailed")
UndoVerify == step = "undoVerify" /\ Test(dir.target = "old", "undone", "undoHide")
UndoHide   == step = "undoHide" /\ Move("target", "rollback", "undoFailed", "undoFailed", "undoFailed")

(* Mutant: a replaced plugin is rolled back like a created one. *)
UndoIsolateSame == step = "undoIsolate" /\ Test(TRUE, "undoTake", "undoFailed")

UndoIsolate == step = "undoIsolate" /\ Test(TRUE, IF op = "create" THEN "undoTake" ELSE "undoExchange", "undoFailed")

UndoExchange == step = "undoExchange" /\ Exchange("target", "preserve", "undoCheck", "undoFailed", "undoFailed")
UndoCheck    == step = "undoCheck" /\ Test(dir.target = "old" /\ dir.preserve = "new", "undoPut", "undoFailed")
UndoPut      == step = "undoPut" /\ Move("preserve", "rollback", "undoPutCheck", "undoFailed", "undoFailed")
UndoPutCheck == step = "undoPutCheck" /\ Test(dir.rollback = "new", "undoClose", "undoPutBack")
UndoPutBack  == step = "undoPutBack" /\ Move("rollback", "preserve", "undoFailed", "undoFailed", "undoFailed")

(* A rename that failed closes the private directory, also when the tree is   *)
(* in it.                                                                     *)
UndoTake   == step = "undoTake" /\ Move("target", "rollback", "undoTaken", "undoDrop", "undoFailed")
UndoTaken  == step = "undoTaken" /\ Test(dir.rollback = "new", "undoClose", "undoReturn")
UndoReturn == step = "undoReturn" /\ Move("rollback", "target", "undoFailed", "undoFailed", "undoFailed")

UndoClose == step = "undoClose" /\ Remove("rollback", "undone", "undoFailed")
UndoDrop  == step = "undoDrop" /\ Remove("rollback", "undoFailed", "undoFailed")

Report ==
    /\ step \in {"undone", "undoFailed"}
    /\ undone' = step /\ step' = "cleanup"
    /\ Calm /\ UNCHANGED <<op, dir, outcome, destroyed, taken>>

(* Mutant: the workspace is always removed. *)
CleanupRetaining == step = "cleanup" /\ Remove("staging", "done", "done")

(* The run's private directory goes with the workspace in it, if nothing      *)
(* retained it.                                                               *)
Cleanup ==
    /\ step = "cleanup"
    /\ IF outcome \in Retained
       THEN Test(TRUE, "done", "done")
       ELSE Remove("staging", "done", "done")

-----------------------------------------------------------------------------
Kill ==
    /\ step \in TreeSteps
    /\ step' = "killed"
    /\ Calm /\ UNCHANGED <<dir, still>>

(* Another program changes, deletes or makes what the plugin's name shows.    *)
Change ==
    /\ left.changes > 0 /\ left' = [left EXCEPT !.changes = @ - 1]
    /\ \E tree \in {None, "theirs"} \ {dir.target} : dir' = [dir EXCEPT !.target = tree]
    /\ taken' = taken \cup {dir.target}
    /\ UNCHANGED <<op, step, outcome, undone, destroyed>>

Install ==
    \/ Check \/ Publish \/ ExchangeOld \/ CheckDisplaced \/ Preserve \/ Reverse \/ CheckReversed
    \/ Verify \/ Isolate \/ SwapBack \/ CheckRestored \/ SetAside \/ SetAsideAnyway \/ CheckAside
    \/ Withdraw \/ CheckWithdrawn \/ GiveBack \/ Close
Rollback ==
    \/ Undo \/ UndoMove \/ UndoVerify \/ UndoHide \/ UndoIsolate \/ UndoExchange \/ UndoCheck
    \/ UndoPut \/ UndoPutCheck \/ UndoPutBack \/ UndoTake \/ UndoTaken \/ UndoReturn \/ UndoClose
    \/ UndoDrop \/ Report

TreeInit ==
    /\ op \in Operations
    /\ dir = [place \in Places |-> CASE place = "target" -> Was
                                     [] place = "staging" -> "new"
                                     [] OTHER -> None]
    /\ step = "check" /\ outcome = "none" /\ undone = "none"
    /\ destroyed = {} /\ taken = {}
    /\ left = [faults |-> MaxFaults, changes |-> MaxChanges]

TreeNext == Install \/ Decide \/ Rollback \/ Cleanup \/ Kill \/ Change

TreeSpec == TreeInit /\ [][TreeNext]_treeVars

-----------------------------------------------------------------------------
(* Properties *)

TreeTypeOK ==
    /\ op \in Operations
    /\ dir \in [Places -> Trees \cup {None}]
    /\ step \in TreeSteps \cup {"done", "killed"}
    /\ outcome \in Outcomes \cup {"none"}
    /\ undone \in {"none", "undone", "undoFailed"}
    /\ destroyed \in SUBSET Trees
    /\ taken \in SUBSET (Trees \cup {None})
    /\ left \in [faults : 0 .. MaxFaults, changes : 0 .. MaxChanges]

(* "A crash cannot expose an absent active-plugin pathname: it leaves either  *)
(* the old or new directory active" (docs/restore-safety-v1.md:46).           *)
AlwaysActive ==
    op = "replace" /\ taken = {} => dir.target \in {"old", "new"}

(* The approved tree is somewhere, active, preserved or retained, after every *)
(* failure, rollback, crash and cleanup, unless another program took it.      *)
OldIsKept == op = "replace" /\ "old" \notin taken => \E place \in Places : dir[place] = "old"

(* A replacement deletes nothing but what it generated.                       *)
OnlyGeneratedDestroyed == op = "replace" => destroyed \subseteq {"new"}

(* What reports that nothing is left, an installation that is refused and not *)
(* rolled back or a rollback that succeeds, has put back what was there.      *)
UndoneIsOld ==
    outcome = "refused" \/ undone = "undone" =>
        /\ dir.target # "new" /\ dir.preserve = None
        /\ taken = {} => dir.target = Was

(* docs/restore-safety-v1.md:54: "Private cleanup is performed [...] only for *)
(* content proven to be tool-generated".                                      *)
CleanupIsProven == destroyed \subseteq {"new"}

=============================================================================
