--------------------------- MODULE RestoreContract ---------------------------
(***************************************************************************)
(* What a restore promises, with nothing of how it works: its targets are  *)
(* at the old version or at the new one unless the restore is recorded as  *)
(* open, they change only while it is, and its report claims a version     *)
(* only when the targets are at it.  (docs/restore-safety-v1.md,           *)
(* "Recovery and transaction behavior".)                                   *)
(***************************************************************************)
EXTENDS Naturals

VARIABLES
    versions,  \* the versions, "old" or "new", that the targets may be read as
    open,      \* whether the restore is recorded as incomplete
    claim      \* what the report says the targets are at, "none" before it does

vars == <<versions, open, claim>>

Versions == {"old", "new"}
TypeOK   == versions \subseteq Versions /\ open \in BOOLEAN
            /\ claim \in Versions \cup {"none", "unknown"}

(* A restore that changes nothing Decky or Steam reads is never recorded: it   *)
(* counts as open from the start.                                              *)
Init == "old" \in versions /\ versions \subseteq Versions /\ open \in BOOLEAN /\ claim = "none"

Record == ~ open /\ open' /\ UNCHANGED <<versions, claim>>

Change == /\ open /\ claim = "none"
          /\ versions' \subseteq Versions
          /\ UNCHANGED <<open, claim>>

(* The record is dropped by the run itself or by a later boot's check.         *)
Settle == open /\ ~ open' /\ versions # {} /\ UNCHANGED <<versions, claim>>

Report == /\ claim = "none" /\ claim' \in versions \cup {"unknown"}
          /\ UNCHANGED versions /\ open' \in BOOLEAN
          /\ open /\ ~ open' => versions # {}

(* Somebody else rewrites a target: it no longer distinguishes the versions.   *)
Disturb == /\ versions \subseteq versions' /\ versions' \subseteq Versions
           /\ UNCHANGED <<open, claim>>

Next == Record \/ Change \/ Settle \/ Report \/ Disturb
Spec == Init /\ [][Next]_vars

(* A restore that is not open is at one of the two versions. *)
Atomic == ~ open => versions # {}

=============================================================================
