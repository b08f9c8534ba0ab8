------------------------- MODULE MCCloudConnection -------------------------
(* CloudConnection with small accounts and devices. *)
EXTENDS CloudConnection

CONSTANTS d1, k0, k1, k2, c1, c2, c3

None(n, k) == [x \in Keys |-> IF x = k THEN n ELSE 0]

(* An account nobody used; one with backups of v0.1.3, whose key the owner    *)
(* has a file of; one in use; one whose recovery object was damaged; one with *)
(* more backups than pages.                                                   *)
EmptyAccount   == [objects |-> {}, backups |-> None(0, k0)]
OldAccount     == [objects |-> {}, backups |-> None(1, k0)]
AccountInUse   == [objects |-> {[key |-> k0, sound |-> TRUE]}, backups |-> None(1, k0)]
DamagedAccount == [objects |-> {[key |-> k0, sound |-> FALSE]}, backups |-> None(1, k0)]
FullAccount    == [objects |-> {[key |-> k0, sound |-> TRUE]}, backups |-> None(PageBound + 1, k0)]

LegacyDevice == [Fresh EXCEPT !.config = [remotes |-> Remotes, secret |-> "typed"], !.ack = k0]

AllKinds == [c \in Commands |->
    CASE c = c1 -> {"connect"}
      [] c = c2 -> {"connect", "disconnect", "unlock"}
      [] OTHER  -> {"upload"}]
Connections == [c \in Commands |-> {"connect"}]

SmallAccounts == {EmptyAccount, OldAccount, AccountInUse, DamagedAccount}
SmallDevices  == {[d \in Devices |-> IF d = d1 THEN first ELSE Fresh] : first \in {Fresh, LegacyDevice}}
NewDevices    == {[d \in Devices |-> Fresh]}
LongAccounts  == {FullAccount}
=============================================================================
