-------------------------- MODULE PluginTree_proofs --------------------------
(***************************************************************************)
(* What PluginTree promises for any number of faults and of changes by      *)
(* other programs.                                                          *)
(***************************************************************************)
EXTENDS PluginTree, TLAPS

(* The steps of one operation only.                                           *)
CreateOnly  == {"publish", "withdraw", "withdrawn", "giveBack", "failed", "undoTake", "undoTaken",
                "undoReturn", "undoDrop"}
ReplaceOnly == {"exchange", "displaced", "preserve", "reverse", "reversed", "uncertain", "swapBack",
                "restored", "setAside", "setAsideAnyway", "aside", "undoMove", "undoVerify",
                "undoHide", "undoExchange", "undoCheck", "undoPut", "undoPutCheck", "undoPutBack"}

Fresh     == {"check", "publish", "exchange"}
Displaced == {"displaced", "preserve", "reverse", "reversed"}
Moved     == {"verify", "isolate", "swapBack", "restored", "setAside", "setAsideAnyway", "aside",
              "withdraw", "withdrawn", "giveBack", "close", "installed", "failed"}

Ordered ==
    /\ step \in CreateOnly \/ outcome = "failed" => op = "create"
    /\ step \in ReplaceOnly => op = "replace"
    /\ step \in InstallSteps \cup Outcomes => outcome = "none"
    /\ step \in InstallSteps \cup Outcomes \cup UndoSteps => undone = "none"
    /\ step \in UndoSteps => outcome \in HasItem
    /\ step = "cleanup" => outcome # "none"
    /\ outcome = "refused" => undone = "none"

(* The prepared tree is in one place at most.                                 *)
Once == \A a, b \in Places : dir[a] = "new" /\ dir[b] = "new" => a = b

(* Where the trees are, whatever the others do to the target.                 *)
Placed ==
    /\ op = "create" => dir.preserve = None /\ dir.staging \in {None, "new"}
    /\ step \in Fresh => dir.staging = "new" /\ dir.preserve = None
    /\ step \in Displaced => dir.preserve = None
    /\ step = "preserve" => dir.staging = "old"
    /\ step \in Moved \/ outcome \in {"installed", "failed"} => dir.staging = None
    /\ step \in {"aside", "close", "undoVerify", "undoPutCheck", "undoClose"} => dir.preserve = None
    /\ step = "close" => dir.private = "new"
    /\ step = "undoClose" => dir.rollback = "new"
    /\ step = "refused" \/ outcome = "refused" =>
        dir.staging \in {None, "new"} /\ dir.target # "new" /\ dir.preserve = None
    /\ step = "undone" \/ undone = "undone" => dir.target # "new" /\ dir.preserve = None

(* What the target shows as long as nobody else has changed it.               *)
Untouched ==
    taken = {} =>
        /\ \A place \in Places : dir[place] \in {None, "old", "new"}
        /\ op = "replace" => dir.target # None /\ step \notin {"undoMove", "undoVerify", "undoHide"}
        /\ step \in Fresh => dir.target = Was
        /\ step \in {"displaced", "preserve", "reverse"} => dir.staging = "old"
        /\ step \in {"reversed", "setAside", "aside", "undoPut", "undoPutCheck"} => dir.target = "old"
        /\ step \in {"withdrawn", "undoTaken"} => dir.target = None
        /\ step \in {"close", "refused", "undoClose", "undone"} => dir.target = Was
        /\ outcome = "refused" \/ undone = "undone" => dir.target = Was

IInv ==
    /\ TreeTypeOK /\ Ordered /\ Once /\ Placed /\ Untouched
    /\ OldIsKept /\ OnlyGeneratedDestroyed

-----------------------------------------------------------------------------
LEMMA InitIInv == ASSUME TreeInit PROVE IInv
<1> USE TreeAssumption DEF TreeInit, None, Trees, Places, Was
<1>1. TreeTypeOK /\ Ordered
  BY DEF TreeTypeOK, Ordered, Outcomes, InstallSteps, UndoSteps, TreeSteps, CreateOnly, ReplaceOnly
<1>2. Once /\ OldIsKept /\ OnlyGeneratedDestroyed
  BY DEF Once, OldIsKept, OnlyGeneratedDestroyed
<1>3. Placed /\ Untouched
  BY DEF Placed, Untouched, Fresh, Displaced, Moved
<1> QED
  BY <1>1, <1>2, <1>3 DEF IInv

(* An installation keeps the invariant. *)
LEMMA InstallStep == ASSUME IInv, Install PROVE IInv'
<1> USE TreeAssumption DEF IInv, still, None, Trees, Places, Was, Outcomes, HasItem, Retained,
    InstallSteps, UndoSteps, TreeSteps, CreateOnly, ReplaceOnly, Fresh, Displaced, Moved
<1>1. ASSUME Check PROVE IInv'
  <2> USE <1>1 DEF Check, Test, Fault, Calm
  <2>1. TreeTypeOK' /\ Ordered'
    BY DEF TreeTypeOK, Ordered
  <2>2. Once' /\ OldIsKept' /\ OnlyGeneratedDestroyed'
    BY DEF TreeTypeOK, Ordered, Once, Placed, OldIsKept, OnlyGeneratedDestroyed
  <2>3. Placed'
    BY DEF TreeTypeOK, Ordered, Once, Placed
  <2>4. Untouched'
    BY DEF TreeTypeOK, Ordered, Placed, Untouched
  <2> QED
    BY <2>1, <2>2, <2>3, <2>4
<1>2. ASSUME Publish PROVE IInv'
  <2> USE <1>2 DEF Publish, Move, Rename, Swapped, Fault, Calm
  <2>1. TreeTypeOK' /\ Ordered'
    BY DEF TreeTypeOK, Ordered
  <2>2. Once' /\ OldIsKept' /\ OnlyGeneratedDestroyed'
    BY DEF TreeTypeOK, Ordered, Once, Placed, OldIsKept, OnlyGeneratedDestroyed
  <2>3. Placed'
    BY DEF TreeTypeOK, Ordered, Once, Placed
  <2>4. Untouched'
    BY DEF TreeTypeOK, Ordered, Placed, Untouched
  <2> QED
    BY <2>1, <2>2, <2>3, <2>4
<1>3. ASSUME ExchangeOld PROVE IInv'
  <2> USE <1>3 DEF ExchangeOld, Exchange, Rename, Swapped, Fault, Calm
  <2>1. TreeTypeOK' /\ Ordered'
    BY DEF TreeTypeOK, Ordered
  <2>2. Once' /\ OldIsKept' /\ OnlyGeneratedDestroyed'
    BY DEF TreeTypeOK, Ordered, Once, Placed, OldIsKept, OnlyGeneratedDestroyed
  <2>3. Placed'
    BY DEF TreeTypeOK, Ordered, Once, Placed
  <2>4. Untouched'
    BY DEF TreeTypeOK, Ordered, Placed, Untouched
  <2> QED
    BY <2>1, <2>2, <2>3, <2>4
<1>4. ASSUME CheckDisplaced PROVE IInv'
  <2> USE <1>4 DEF CheckDisplaced, Test, Fault, Calm
  <2>1. TreeTypeOK' /\ Ordered'
    BY DEF TreeTypeOK, Ordered
  <2>2. Once' /\ OldIsKept' /\ OnlyGeneratedDestroyed'
    BY DEF TreeTypeOK, Ordered, Once, Placed, OldIsKept, OnlyGeneratedDestroyed
  <2>3. Placed'
    BY DEF TreeTypeOK, Ordered, Once, Placed
  <2>4. Untouched'
    BY DEF TreeTypeOK, Ordered, Placed, Untouched
  <2> QED
    BY <2>1, <2>2, <2>3, <2>4
<1>5. ASSUME Preserve PROVE IInv'
  <2> USE <1>5 DEF Preserve, Move, Rename, Swapped, Fault, Calm
  <2>1. TreeTypeOK' /\ Ordered'
    BY DEF TreeTypeOK, Ordered
  <2>2. Once' /\ OldIsKept' /\ OnlyGeneratedDestroyed'
    BY DEF TreeTypeOK, Ordered, Once, Placed, OldIsKept, OnlyGeneratedDestroyed
  <2>3. Placed'
    BY DEF TreeTypeOK, Ordered, Once, Placed
  <2>4. Untouched'
    BY DEF TreeTypeOK, Ordered, Placed, Untouched
  <2> QED
    BY <2>1, <2>2, <2>3, <2>4
<1>6. ASSUME Reverse PROVE IInv'
  <2> USE <1>6 DEF Reverse, Exchange, Rename, Swapped, Fault, Calm
  <2>1. TreeTypeOK' /\ Ordered'
    BY DEF TreeTypeOK, Ordered
  <2>2. Once' /\ OldIsKept' /\ OnlyGeneratedDestroyed'
    BY DEF TreeTypeOK, Ordered, Once, Placed, OldIsKept, OnlyGeneratedDestroyed
  <2>3. Placed'
    BY DEF TreeTypeOK, Ordered, Once, Placed
  <2>4. Untouched'
    BY DEF TreeTypeOK, Ordered, Placed, Untouched
  <2> QED
    BY <2>1, <2>2, <2>3, <2>4
<1>7. ASSUME CheckReversed PROVE IInv'
  <2> USE <1>7 DEF CheckReversed, Test, Fault, Calm
  <2>1. TreeTypeOK' /\ Ordered'
    BY DEF TreeTypeOK, Ordered
  <2>2. Once' /\ OldIsKept' /\ OnlyGeneratedDestroyed'
    BY DEF TreeTypeOK, Ordered, Once, Placed, OldIsKept, OnlyGeneratedDestroyed
  <2>3. Placed'
    BY DEF TreeTypeOK, Ordered, Once, Placed
  <2>4. Untouched'
    BY DEF TreeTypeOK, Ordered, Placed, Untouched
  <2> QED
    BY <2>1, <2>2, <2>3, <2>4
<1>8. ASSUME Verify PROVE IInv'
  <2> USE <1>8 DEF Verify, Test, Fault, Calm
  <2>1. TreeTypeOK' /\ Ordered'
    BY DEF TreeTypeOK, Ordered
  <2>2. Once' /\ OldIsKept' /\ OnlyGeneratedDestroyed'
    BY DEF TreeTypeOK, Ordered, Once, Placed, OldIsKept, OnlyGeneratedDestroyed
  <2>3. Placed'
    BY DEF TreeTypeOK, Ordered, Once, Placed
  <2>4. Untouched'
    BY DEF TreeTypeOK, Ordered, Placed, Untouched
  <2> QED
    BY <2>1, <2>2, <2>3, <2>4
<1>9. ASSUME Isolate PROVE IInv'
  <2> USE <1>9 DEF Isolate, Test, Fault, Calm
  <2>1. TreeTypeOK' /\ Ordered'
    BY DEF TreeTypeOK, Ordered
  <2>2. Once' /\ OldIsKept' /\ OnlyGeneratedDestroyed'
    BY DEF TreeTypeOK, Ordered, Once, Placed, OldIsKept, OnlyGeneratedDestroyed
  <2>3. Placed'
    BY DEF TreeTypeOK, Ordered, Once, Placed
  <2>4. Untouched'
    BY DEF TreeTypeOK, Ordered, Placed, Untouched
  <2> QED
    BY <2>1, <2>2, <2>3, <2>4
<1>10. ASSUME SwapBack PROVE IInv'
  <2> USE <1>10 DEF SwapBack, Exchange, Rename, Swapped, Fault, Calm
  <2>1. TreeTypeOK' /\ Ordered'
    BY DEF TreeTypeOK, Ordered
  <2>2. Once' /\ OldIsKept' /\ OnlyGeneratedDestroyed'
    BY DEF TreeTypeOK, Ordered, Once, Placed, OldIsKept, OnlyGeneratedDestroyed
  <2>3. Placed'
    BY DEF TreeTypeOK, Ordered, Once, Placed
  <2>4. Untouched'
    BY DEF TreeTypeOK, Ordered, Placed, Untouched
  <2> QED
    BY <2>1, <2>2, <2>3, <2>4
<1>11. ASSUME CheckRestored PROVE IInv'
  <2> USE <1>11 DEF CheckRestored, Test, Fault, Calm
  <2>1. TreeTypeOK' /\ Ordered'
    BY DEF TreeTypeOK, Ordered
  <2>2. Once' /\ OldIsKept' /\ OnlyGeneratedDestroyed'
    BY DEF TreeTypeOK, Ordered, Once, Placed, OldIsKept, OnlyGeneratedDestroyed
  <2>3. Placed'
    BY DEF TreeTypeOK, Ordered, Once, Placed
  <2>4. Untouched'
    BY DEF TreeTypeOK, Ordered, Placed, Untouched
  <2> QED
    BY <2>1, <2>2, <2>3, <2>4
<1>12. ASSUME SetAside PROVE IInv'
  <2> USE <1>12 DEF SetAside, Move, Rename, Swapped, Fault, Calm
  <2>1. TreeTypeOK' /\ Ordered'
    BY DEF TreeTypeOK, Ordered
  <2>2. Once' /\ OldIsKept' /\ OnlyGeneratedDestroyed'
    BY DEF TreeTypeOK, Ordered, Once, Placed, OldIsKept, OnlyGeneratedDestroyed
  <2>3. Placed'
    BY DEF TreeTypeOK, Ordered, Once, Placed
  <2>4. Untouched'
    BY DEF TreeTypeOK, Ordered, Placed, Untouched
  <2> QED
    BY <2>1, <2>2, <2>3, <2>4
<1>13. ASSUME SetAsideAnyway PROVE IInv'
  <2> USE <1>13 DEF SetAsideAnyway, Move, Rename, Swapped, Fault, Calm
  <2>1. TreeTypeOK' /\ Ordered'
    BY DEF TreeTypeOK, Ordered
  <2>2. Once' /\ OldIsKept' /\ OnlyGeneratedDestroyed'
    BY DEF TreeTypeOK, Ordered, Once, Placed, OldIsKept, OnlyGeneratedDestroyed
  <2>3. Placed'
    BY DEF TreeTypeOK, Ordered, Once, Placed
  <2>4. Untouched'
    BY DEF TreeTypeOK, Ordered, Placed, Untouched
  <2> QED
    BY <2>1, <2>2, <2>3, <2>4
<1>14. ASSUME CheckAside PROVE IInv'
  <2> USE <1>14 DEF CheckAside, Test, Fault, Calm
  <2>1. TreeTypeOK' /\ Ordered'
    BY DEF TreeTypeOK, Ordered
  <2>2. Once' /\ OldIsKept' /\ OnlyGeneratedDestroyed'
    BY DEF TreeTypeOK, Ordered, Once, Placed, OldIsKept, OnlyGeneratedDestroyed
  <2>3. Placed'
    BY DEF TreeTypeOK, Ordered, Once, Placed
  <2>4. Untouched'
    BY DEF TreeTypeOK, Ordered, Placed, Untouched
  <2> QED
    BY <2>1, <2>2, <2>3, <2>4
<1>15. ASSUME Withdraw PROVE IInv'
  <2> USE <1>15 DEF Withdraw, Move, Rename, Swapped, Fault, Calm
  <2>1. TreeTypeOK' /\ Ordered'
    BY DEF TreeTypeOK, Ordered
  <2>2. Once' /\ OldIsKept' /\ OnlyGeneratedDestroyed'
    BY DEF TreeTypeOK, Ordered, Once, Placed, OldIsKept, OnlyGeneratedDestroyed
  <2>3. Placed'
    BY DEF TreeTypeOK, Ordered, Once, Placed
  <2>4. Untouched'
    BY DEF TreeTypeOK, Ordered, Placed, Untouched
  <2> QED
    BY <2>1, <2>2, <2>3, <2>4
<1>16. ASSUME CheckWithdrawn PROVE IInv'
  <2> USE <1>16 DEF CheckWithdrawn, Test, Fault, Calm
  <2>1. TreeTypeOK' /\ Ordered'
    BY DEF TreeTypeOK, Ordered
  <2>2. Once' /\ OldIsKept' /\ OnlyGeneratedDestroyed'
    BY DEF TreeTypeOK, Ordered, Once, Placed, OldIsKept, OnlyGeneratedDestroyed
  <2>3. Placed'
    BY DEF TreeTypeOK, Ordered, Once, Placed
  <2>4. Untouched'
    BY DEF TreeTypeOK, Ordered, Placed, Untouched
  <2> QED
    BY <2>1, <2>2, <2>3, <2>4
<1>17. ASSUME GiveBack PROVE IInv'
  <2> USE <1>17 DEF GiveBack, Move, Rename, Swapped, Fault, Calm
  <2>1. TreeTypeOK' /\ Ordered'
    BY DEF TreeTypeOK, Ordered
  <2>2. Once' /\ OldIsKept' /\ OnlyGeneratedDestroyed'
    BY DEF TreeTypeOK, Ordered, Once, Placed, OldIsKept, OnlyGeneratedDestroyed
  <2>3. Placed'
    BY DEF TreeTypeOK, Ordered, Once, Placed
  <2>4. Untouched'
    BY DEF TreeTypeOK, Ordered, Placed, Untouched
  <2> QED
    BY <2>1, <2>2, <2>3, <2>4
<1>18. ASSUME Close PROVE IInv'
  <2> USE <1>18 DEF Close, Remove, Fault, Calm
  <2>1. TreeTypeOK' /\ Ordered'
    BY DEF TreeTypeOK, Ordered
  <2>2. Once' /\ OldIsKept' /\ OnlyGeneratedDestroyed'
    BY DEF TreeTypeOK, Ordered, Once, Placed, OldIsKept, OnlyGeneratedDestroyed
  <2>3. Placed'
    BY DEF TreeTypeOK, Ordered, Once, Placed
  <2>4. Untouched'
    BY DEF TreeTypeOK, Ordered, Placed, Untouched
  <2> QED
    BY <2>1, <2>2, <2>3, <2>4
<1> QED
  BY <1>1, <1>2, <1>3, <1>4, <1>5, <1>6, <1>7, <1>8, <1>9, <1>10, <1>11, <1>12, <1>13, <1>14,
     <1>15, <1>16, <1>17, <1>18 DEF Install

(* A rollback keeps the invariant. *)
LEMMA RollbackStep == ASSUME IInv, Rollback PROVE IInv'
<1> USE TreeAssumption DEF IInv, still, None, Trees, Places, Was, Outcomes, HasItem, Retained,
    InstallSteps, UndoSteps, TreeSteps, CreateOnly, ReplaceOnly, Fresh, Displaced, Moved
<1>1. ASSUME Undo PROVE IInv'
  <2> USE <1>1 DEF Undo, Test, Fault, Calm
  <2>1. TreeTypeOK' /\ Ordered'
    BY DEF TreeTypeOK, Ordered
  <2>2. Once' /\ OldIsKept' /\ OnlyGeneratedDestroyed'
    BY DEF TreeTypeOK, Ordered, Once, Placed, OldIsKept, OnlyGeneratedDestroyed
  <2>3. Placed'
    BY DEF TreeTypeOK, Ordered, Once, Placed
  <2>4. Untouched'
    BY DEF TreeTypeOK, Ordered, Placed, Untouched
  <2> QED
    BY <2>1, <2>2, <2>3, <2>4
<1>2. ASSUME UndoMove PROVE IInv'
  <2> USE <1>2 DEF UndoMove, Move, Rename, Swapped, Fault, Calm
  <2>1. TreeTypeOK' /\ Ordered'
    BY DEF TreeTypeOK, Ordered
  <2>2. Once' /\ OldIsKept' /\ OnlyGeneratedDestroyed'
    BY DEF TreeTypeOK, Ordered, Once, Placed, OldIsKept, OnlyGeneratedDestroyed
  <2>3. Placed'
    BY DEF TreeTypeOK, Ordered, Once, Placed
  <2>4. Untouched'
    BY DEF TreeTypeOK, Ordered, Placed, Untouched
  <2> QED
    BY <2>1, <2>2, <2>3, <2>4
<1>3. ASSUME UndoVerify PROVE IInv'
  <2> USE <1>3 DEF UndoVerify, Test, Fault, Calm
  <2>1. TreeTypeOK' /\ Ordered'
    BY DEF TreeTypeOK, Ordered
  <2>2. Once' /\ OldIsKept' /\ OnlyGeneratedDestroyed'
    BY DEF TreeTypeOK, Ordered, Once, Placed, OldIsKept, OnlyGeneratedDestroyed
  <2>3. Placed'
    BY DEF TreeTypeOK, Ordered, Once, Placed
  <2>4. Untouched'
    BY DEF TreeTypeOK, Ordered, Placed, Untouched
  <2> QED
    BY <2>1, <2>2, <2>3, <2>4
<1>4. ASSUME UndoHide PROVE IInv'
  <2> USE <1>4 DEF UndoHide, Move, Rename, Swapped, Fault, Calm
  <2>1. TreeTypeOK' /\ Ordered'
    BY DEF TreeTypeOK, Ordered
  <2>2. Once' /\ OldIsKept' /\ OnlyGeneratedDestroyed'
    BY DEF TreeTypeOK, Ordered, Once, Placed, OldIsKept, OnlyGeneratedDestroyed
  <2>3. Placed'
    BY DEF TreeTypeOK, Ordered, Once, Placed
  <2>4. Untouched'
    BY DEF TreeTypeOK, Ordered, Placed, Untouched
  <2> QED
    BY <2>1, <2>2, <2>3, <2>4
<1>5. ASSUME UndoIsolate PROVE IInv'
  <2> USE <1>5 DEF UndoIsolate, Test, Fault, Calm
  <2>1. TreeTypeOK' /\ Ordered'
    BY DEF TreeTypeOK, Ordered
  <2>2. Once' /\ OldIsKept' /\ OnlyGeneratedDestroyed'
    BY DEF TreeTypeOK, Ordered, Once, Placed, OldIsKept, OnlyGeneratedDestroyed
  <2>3. Placed'
    BY DEF TreeTypeOK, Ordered, Once, Placed
  <2>4. Untouched'
    BY DEF TreeTypeOK, Ordered, Placed, Untouched
  <2> QED
    BY <2>1, <2>2, <2>3, <2>4
<1>6. ASSUME UndoExchange PROVE IInv'
  <2> USE <1>6 DEF UndoExchange, Exchange, Rename, Swapped, Fault, Calm
  <2>1. TreeTypeOK' /\ Ordered'
    BY DEF TreeTypeOK, Ordered
  <2>2. Once' /\ OldIsKept' /\ OnlyGeneratedDestroyed'
    BY DEF TreeTypeOK, Ordered, Once, Placed, OldIsKept, OnlyGeneratedDestroyed
  <2>3. Placed'
    BY DEF TreeTypeOK, Ordered, Once, Placed
  <2>4. Untouched'
    BY DEF TreeTypeOK, Ordered, Placed, Untouched
  <2> QED
    BY <2>1, <2>2, <2>3, <2>4
<1>7. ASSUME UndoCheck PROVE IInv'
  <2> USE <1>7 DEF UndoCheck, Test, Fault, Calm
  <2>1. TreeTypeOK' /\ Ordered'
    BY DEF TreeTypeOK, Ordered
  <2>2. Once' /\ OldIsKept' /\ OnlyGeneratedDestroyed'
    BY DEF TreeTypeOK, Ordered, Once, Placed, OldIsKept, OnlyGeneratedDestroyed
  <2>3. Placed'
    BY DEF TreeTypeOK, Ordered, Once, Placed
  <2>4. Untouched'
    BY DEF TreeTypeOK, Ordered, Placed, Untouched
  <2> QED
    BY <2>1, <2>2, <2>3, <2>4
<1>8. ASSUME UndoPut PROVE IInv'
  <2> USE <1>8 DEF UndoPut, Move, Rename, Swapped, Fault, Calm
  <2>1. TreeTypeOK' /\ Ordered'
    BY DEF TreeTypeOK, Ordered
  <2>2. Once' /\ OldIsKept' /\ OnlyGeneratedDestroyed'
    BY DEF TreeTypeOK, Ordered, Once, Placed, OldIsKept, OnlyGeneratedDestroyed
  <2>3. Placed'
    BY DEF TreeTypeOK, Ordered, Once, Placed
  <2>4. Untouched'
    BY DEF TreeTypeOK, Ordered, Placed, Untouched
  <2> QED
    BY <2>1, <2>2, <2>3, <2>4
<1>9. ASSUME UndoPutCheck PROVE IInv'
  <2> USE <1>9 DEF UndoPutCheck, Test, Fault, Calm
  <2>1. TreeTypeOK' /\ Ordered'
    BY DEF TreeTypeOK, Ordered
  <2>2. Once' /\ OldIsKept' /\ OnlyGeneratedDestroyed'
    BY DEF TreeTypeOK, Ordered, Once, Placed, OldIsKept, OnlyGeneratedDestroyed
  <2>3. Placed'
    BY DEF TreeTypeOK, Ordered, Once, Placed
  <2>4. Untouched'
    BY DEF TreeTypeOK, Ordered, Placed, Untouched
  <2> QED
    BY <2>1, <2>2, <2>3, <2>4
<1>10. ASSUME UndoPutBack PROVE IInv'
  <2> USE <1>10 DEF UndoPutBack, Move, Rename, Swapped, Fault, Calm
  <2>1. TreeTypeOK' /\ Ordered'
    BY DEF TreeTypeOK, Ordered
  <2>2. Once' /\ OldIsKept' /\ OnlyGeneratedDestroyed'
    BY DEF TreeTypeOK, Ordered, Once, Placed, OldIsKept, OnlyGeneratedDestroyed
  <2>3. Placed'
    BY DEF TreeTypeOK, Ordered, Once, Placed
  <2>4. Untouched'
    BY DEF TreeTypeOK, Ordered, Placed, Untouched
  <2> QED
    BY <2>1, <2>2, <2>3, <2>4
<1>11. ASSUME UndoTake PROVE IInv'
  <2> USE <1>11 DEF UndoTake, Move, Rename, Swapped, Fault, Calm
  <2>1. TreeTypeOK' /\ Ordered'
    BY DEF TreeTypeOK, Ordered
  <2>2. Once' /\ OldIsKept' /\ OnlyGeneratedDestroyed'
    BY DEF TreeTypeOK, Ordered, Once, Placed, OldIsKept, OnlyGeneratedDestroyed
  <2>3. Placed'
    BY DEF TreeTypeOK, Ordered, Once, Placed
  <2>4. Untouched'
    BY DEF TreeTypeOK, Ordered, Placed, Untouched
  <2> QED
    BY <2>1, <2>2, <2>3, <2>4
<1>12. ASSUME UndoTaken PROVE IInv'
  <2> USE <1>12 DEF UndoTaken, Test, Fault, Calm
  <2>1. TreeTypeOK' /\ Ordered'
    BY DEF TreeTypeOK, Ordered
  <2>2. Once' /\ OldIsKept' /\ OnlyGeneratedDestroyed'
    BY DEF TreeTypeOK, Ordered, Once, Placed, OldIsKept, OnlyGeneratedDestroyed
  <2>3. Placed'
    BY DEF TreeTypeOK, Ordered, Once, Placed
  <2>4. Untouched'
    BY DEF TreeTypeOK, Ordered, Placed, Untouched
  <2> QED
    BY <2>1, <2>2, <2>3, <2>4
<1>13. ASSUME UndoReturn PROVE IInv'
  <2> USE <1>13 DEF UndoReturn, Move, Rename, Swapped, Fault, Calm
  <2>1. TreeTypeOK' /\ Ordered'
    BY DEF TreeTypeOK, Ordered
  <2>2. Once' /\ OldIsKept' /\ OnlyGeneratedDestroyed'
    BY DEF TreeTypeOK, Ordered, Once, Placed, OldIsKept, OnlyGeneratedDestroyed
  <2>3. Placed'
    BY DEF TreeTypeOK, Ordered, Once, Placed
  <2>4. Untouched'
    BY DEF TreeTypeOK, Ordered, Placed, Untouched
  <2> QED
    BY <2>1, <2>2, <2>3, <2>4
<1>14. ASSUME UndoClose PROVE IInv'
  <2> USE <1>14 DEF UndoClose, Remove, Fault, Calm
  <2>1. TreeTypeOK' /\ Ordered'
    BY DEF TreeTypeOK, Ordered
  <2>2. Once' /\ OldIsKept' /\ OnlyGeneratedDestroyed'
    BY DEF TreeTypeOK, Ordered, Once, Placed, OldIsKept, OnlyGeneratedDestroyed
  <2>3. Placed'
    BY DEF TreeTypeOK, Ordered, Once, Placed
  <2>4. Untouched'
    BY DEF TreeTypeOK, Ordered, Placed, Untouched
  <2> QED
    BY <2>1, <2>2, <2>3, <2>4
<1>15. ASSUME UndoDrop PROVE IInv'
  <2> USE <1>15 DEF UndoDrop, Remove, Fault, Calm
  <2>1. TreeTypeOK' /\ Ordered'
    BY DEF TreeTypeOK, Ordered
  <2>2. Once' /\ OldIsKept' /\ OnlyGeneratedDestroyed'
    BY DEF TreeTypeOK, Ordered, Once, Placed, OldIsKept, OnlyGeneratedDestroyed
  <2>3. Placed'
    BY DEF TreeTypeOK, Ordered, Once, Placed
  <2>4. Untouched'
    BY DEF TreeTypeOK, Ordered, Placed, Untouched
  <2> QED
    BY <2>1, <2>2, <2>3, <2>4
<1>16. ASSUME Report PROVE IInv'
  <2> USE <1>16 DEF Report, Calm
  <2>1. TreeTypeOK' /\ Ordered'
    BY DEF TreeTypeOK, Ordered
  <2>2. Once' /\ OldIsKept' /\ OnlyGeneratedDestroyed'
    BY DEF TreeTypeOK, Ordered, Once, Placed, OldIsKept, OnlyGeneratedDestroyed
  <2>3. Placed'
    BY DEF TreeTypeOK, Ordered, Once, Placed
  <2>4. Untouched'
    BY DEF TreeTypeOK, Ordered, Placed, Untouched
  <2> QED
    BY <2>1, <2>2, <2>3, <2>4
<1> QED
  BY <1>1, <1>2, <1>3, <1>4, <1>5, <1>6, <1>7, <1>8, <1>9, <1>10, <1>11, <1>12, <1>13, <1>14,
     <1>15, <1>16 DEF Rollback

(* Run's own steps, and those of others keeps the invariant. *)
LEMMA RunStep == ASSUME IInv, Decide \/ Cleanup \/ Kill \/ Change PROVE IInv'
<1> USE TreeAssumption DEF IInv, still, None, Trees, Places, Was, Outcomes, HasItem, Retained,
    InstallSteps, UndoSteps, TreeSteps, CreateOnly, ReplaceOnly, Fresh, Displaced, Moved
<1>1. ASSUME Decide PROVE IInv'
  <2> USE <1>1 DEF Decide, Calm
  <2>1. TreeTypeOK' /\ Ordered'
    BY DEF TreeTypeOK, Ordered
  <2>2. Once' /\ OldIsKept' /\ OnlyGeneratedDestroyed'
    BY DEF TreeTypeOK, Ordered, Once, Placed, OldIsKept, OnlyGeneratedDestroyed
  <2>3. Placed'
    BY DEF TreeTypeOK, Ordered, Once, Placed
  <2>4. Untouched'
    BY DEF TreeTypeOK, Ordered, Placed, Untouched
  <2> QED
    BY <2>1, <2>2, <2>3, <2>4
<1>2. ASSUME Cleanup PROVE IInv'
  <2> USE <1>2 DEF Cleanup, Test, Fault, Calm, Remove
  <2>1. TreeTypeOK' /\ Ordered'
    BY DEF TreeTypeOK, Ordered
  <2>2. Once' /\ OldIsKept' /\ OnlyGeneratedDestroyed'
    BY DEF TreeTypeOK, Ordered, Once, Placed, OldIsKept, OnlyGeneratedDestroyed
  <2>3. Placed'
    BY DEF TreeTypeOK, Ordered, Once, Placed
  <2>4. Untouched'
    BY DEF TreeTypeOK, Ordered, Placed, Untouched
  <2> QED
    BY <2>1, <2>2, <2>3, <2>4
<1>3. ASSUME Kill PROVE IInv'
  <2> USE <1>3 DEF Kill, Calm
  <2>1. TreeTypeOK' /\ Ordered'
    BY DEF TreeTypeOK, Ordered
  <2>2. Once' /\ OldIsKept' /\ OnlyGeneratedDestroyed'
    BY DEF TreeTypeOK, Ordered, Once, Placed, OldIsKept, OnlyGeneratedDestroyed
  <2>3. Placed'
    BY DEF TreeTypeOK, Ordered, Once, Placed
  <2>4. Untouched'
    BY DEF TreeTypeOK, Ordered, Placed, Untouched
  <2> QED
    BY <2>1, <2>2, <2>3, <2>4
<1>4. ASSUME Change PROVE IInv'
  <2> USE <1>4 DEF Change, Calm
  <2>1. TreeTypeOK' /\ Ordered'
    BY DEF TreeTypeOK, Ordered
  <2>2. Once' /\ OldIsKept' /\ OnlyGeneratedDestroyed'
    BY DEF TreeTypeOK, Ordered, Once, Placed, OldIsKept, OnlyGeneratedDestroyed
  <2>3. Placed'
    BY DEF TreeTypeOK, Ordered, Once, Placed
  <2>4. Untouched'
    BY DEF TreeTypeOK, Ordered, Placed, Untouched
  <2> QED
    BY <2>1, <2>2, <2>3, <2>4
<1> QED
  BY <1>1, <1>2, <1>3, <1>4

LEMMA Invariance == TreeSpec => []IInv
<1>1. TreeInit => IInv
  BY InitIInv
<1>2. IInv /\ [TreeNext]_treeVars => IInv'
  <2> SUFFICES ASSUME IInv, [TreeNext]_treeVars PROVE IInv'
    OBVIOUS
  <2>1. CASE Install
    BY <2>1, InstallStep
  <2>2. CASE Rollback
    BY <2>2, RollbackStep
  <2>3. CASE Decide \/ Cleanup \/ Kill \/ Change
    BY <2>3, RunStep
  <2>4. CASE UNCHANGED treeVars
    BY <2>4 DEF treeVars, IInv, TreeTypeOK, Ordered, Once, Placed, Untouched, Was, OldIsKept,
      OnlyGeneratedDestroyed
  <2> QED
    BY <2>1, <2>2, <2>3, <2>4 DEF TreeNext
<1> QED
  BY <1>1, <1>2, PTL DEF TreeSpec

-----------------------------------------------------------------------------
(* Every variable of an installation has its type.                            *)
THEOREM TreeTypesAreKept == TreeSpec => []TreeTypeOK
<1>1. IInv => TreeTypeOK
  BY DEF IInv
<1> QED
  BY <1>1, Invariance, PTL

(* Whatever fails, and whenever the process is killed, a plugin that is       *)
(* replaced stays active in its old or its new form, unless another program   *)
(* changes it (installPreparedPlugin and rollbackReplacedPlugin exchange).    *)
THEOREM ReplacedPluginStaysActive == TreeSpec => []AlwaysActive
<1>1. IInv => AlwaysActive
  BY DEF IInv, TreeTypeOK, Untouched, AlwaysActive, Places, None
<1> QED
  BY <1>1, Invariance, PTL

(* The approved tree is never lost: it is active, preserved or retained       *)
(* unless another program took it from the plugin's name.                     *)
THEOREM ApprovedTreeIsKept == TreeSpec => []OldIsKept
<1>1. IInv => OldIsKept
  BY DEF IInv
<1> QED
  BY <1>1, Invariance, PTL

(* A replacement, its rollback and the cleanup delete only the prepared tree. *)
THEOREM ReplacementDestroysOnlyItsOwn == TreeSpec => []OnlyGeneratedDestroyed
<1>1. IInv => OnlyGeneratedDestroyed
  BY DEF IInv
<1> QED
  BY <1>1, Invariance, PTL

(* An installation that is refused, and a rollback that reports success, have *)
(* put back what the target showed.                                           *)
THEOREM UndoneInstallationLeavesNothing == TreeSpec => []UndoneIsOld
<1>1. IInv => UndoneIsOld
  BY DEF IInv, Placed, Untouched, UndoneIsOld
<1> QED
  BY <1>1, Invariance, PTL

=============================================================================
