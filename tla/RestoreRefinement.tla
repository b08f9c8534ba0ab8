-------------------------- MODULE RestoreRefinement --------------------------
(* RestoreTransaction implements RestoreContract.                             *)
EXTENDS RestoreTransaction

VersionsBar == (IF Old THEN {"old"} ELSE {}) \cup (IF New THEN {"new"} ELSE {})
(* The record is the marker, once no loss of power can take it back.          *)
OpenBar  == Refresh => Recorded
ClaimBar ==
    IF pc # "done" THEN "none"
    ELSE IF status \in {"failed_before_mutation", "already_matches", "rolled_back"} THEN "old"
    ELSE IF status = "rollback_failed" THEN "unknown"
    ELSE "new"

Contract == INSTANCE RestoreContract
    WITH versions <- VersionsBar, open <- OpenBar, claim <- ClaimBar

(* Every restore keeps its contract: its targets change only while a durable  *)
(* marker of its own is on disk, which is dropped only once they are all old  *)
(* or all new, and its report claims only what is there (run.go 117-881).     *)
MeetsContract == Contract!Spec

=============================================================================
