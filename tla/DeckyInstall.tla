---------------------------- MODULE DeckyInstall ----------------------------
(***************************************************************************)
(* One plugin that Decky Loader installs, replaces or removes for the       *)
(* restore: the calls of the client and the messages they wait for, Decky's *)
(* jobs, which a lost call does not stop, its restarts as the client sees   *)
(* them, and the rollback.  Other clients of Decky act in between.          *)
(***************************************************************************)
EXTENDS Naturals, Sequences

CONSTANTS
    MaxFaults,  \* bound on the calls that fail and on the crashes of Decky
    MaxChanges  \* bound on what other programs and other clients do

ASSUME InstallAssumption == MaxFaults \in Nat /\ MaxChanges \in Nat

(* This plugin and all the others.                                            *)
Plugins == {"this", "other"}

None  == "none"
Trees == {None, "old", "partial", "new", "theirs"}

VARIABLES
    plan,      \* the operation, and the disabled list of before the restore
    run,       \* what Run is about, its next step, and what came of it
    conn,      \* the connection of a call that waits: whose, and its messages
    decky,     \* the service: up, a restart due, its list, its plugins, which of them run
    jobs,      \* the two calls that Decky works off: of the action, of its rollback
    target,    \* the tree in the plugin's directory
    confirmed, \* whose requests the client confirmed
    seen,      \* another program took the tree, another client touched Decky, a rollback was Mistaken
    left       \* how many faults and changes are left

vars == <<plan, run, conn, decky, jobs, target, confirmed, seen, left>>

Was    == IF plan.op = "create" THEN None ELSE "old"
Known  == IF plan.op = "create" THEN {"other"} ELSE Plugins
Wanted == IF plan.op = "remove" THEN {"other"} ELSE Plugins

(* What the job of the action makes of the directory, and that of its         *)
(* rollback.                                                                  *)
Result(job) ==
    IF job = "action" THEN IF plan.op = "remove" THEN None ELSE "new" ELSE Was

Fault == left.faults > 0 /\ left' = [left EXCEPT !.faults = @ - 1]
Calm  == left' = left

-----------------------------------------------------------------------------
(* The order of Run *)

First(goal) == CASE goal \in {"quiesce", "keep", "original"} -> "set"
                 [] goal = "sync" -> "inventory"
                 [] OTHER -> goal

At(goal)   == [run EXCEPT !.goal = goal, !.step = First(goal)]
Step(step) == run' = [run EXCEPT !.step = step]

AfterOriginal == IF run.outcome = "unquiesced" THEN "report" ELSE "revalidate"

Succeeded ==
    run' = CASE run.goal = "quiesce"  -> At(IF plan.op = "remove" THEN "change" ELSE "keep")
             [] run.goal = "keep"     -> At("change")
             [] run.goal = "change"   -> At("sync")
             [] run.goal = "sync"     -> [At("commit") EXCEPT !.outcome = "installed"]
             [] run.goal = "undo"     -> At("settings")
             [] run.goal = "settings" -> At("original")
             [] run.goal = "original" -> At(AfterOriginal)
             [] OTHER                 -> At("report")

(* An action that has reached Decky is rolled back, and every step of the     *)
(* rollback is attempted.                                                     *)
Failed ==
    run' = CASE run.goal = "quiesce" -> [At("original") EXCEPT !.outcome = "unquiesced"]
             [] run.goal \in {"keep", "change", "sync"} /\ ~run.item ->
                    [At("original") EXCEPT !.outcome = "refused"]
             [] run.goal \in {"change", "sync"} /\ run.item -> [At("undo") EXCEPT !.outcome = "failed"]
             [] run.goal = "commit"   -> At("undo")
             [] run.goal = "undo"     -> [At("settings") EXCEPT !.failed = TRUE]
             [] run.goal = "settings" -> [At("original") EXCEPT !.failed = TRUE]
             [] run.goal = "original" ->
                    IF run.step \in {"set", "readBack"}
                    THEN [run EXCEPT !.step = "restart", !.failed = TRUE]
                    ELSE IF run.step \in {"restart", "poll", "reconnect"}
                         THEN [run EXCEPT !.step = "inventory", !.failed = TRUE]
                         ELSE [At(AfterOriginal) EXCEPT !.failed = TRUE]
             [] OTHER -> [At("report") EXCEPT !.failed = TRUE]

-----------------------------------------------------------------------------
(* Calls *)

(* Decky does what a call asks and answers, or the answer is lost, or the     *)
(* call.                                                                      *)
Ask(done, ok) ==
    /\ \/ decky.up /\ decky' = done /\ ok /\ Calm
       \/ decky.up /\ decky' \in {decky, done} /\ Failed /\ Fault
       \/ ~decky.up /\ decky' = decky /\ Failed /\ Calm
    /\ UNCHANGED <<plan, conn, jobs, target, confirmed, seen>>

(* A call, or a comparison of the tree, that changes nothing.  What another   *)
(* client did before an inventory is in it.                                   *)
Read(holds, ok) ==
    /\ \/ holds /\ ok /\ Calm
       \/ Failed /\ IF holds THEN Fault ELSE Calm
    /\ seen' = [seen EXCEPT !.touched = @ /\ run.step # "inventory"]
    /\ UNCHANGED <<plan, conn, decky, jobs, target, confirmed>>

Disabled == IF run.goal = "original" THEN plan.orig ELSE plan.orig \cup Plugins

(* The temporary list names the plugins that there are; KeepDisabled adds the *)
(* one that Decky is going to install.                                        *)
List == IF run.goal = "quiesce" THEN plan.orig \cup Known ELSE Disabled

Set == run.step = "set" /\ Ask([decky EXCEPT !.list = List], Step("readBack"))

ReadBack ==
    /\ run.step = "readBack"
    /\ Read(decky.up /\ decky.list = List, IF run.goal = "keep" THEN Succeeded ELSE Step("restart"))

Restart == run.step = "restart" /\ Ask([decky EXCEPT !.due = TRUE], Step("poll"))

(* Mutant: Decky is not awaited to go away. *)
PollOnce ==
    /\ run.step = "poll" /\ decky.up /\ Step("reconnect") /\ Calm
    /\ UNCHANGED <<plan, conn, decky, jobs, target, confirmed, seen>>

(* A job of a call that was given up goes on in the Decky that a rollback      *)
(* takes for gone.                                                            *)
Mistaken == run.goal = "original" /\ decky.up /\ \E job \in DOMAIN jobs : jobs[job] # None

(* A probe every 50 ms.  One that fails, for whatever reason, is taken for    *)
(* the restart.                                                               *)
Poll ==
    /\ run.step = "poll"
    /\ \/ ~conn.offline /\ conn' = [conn EXCEPT !.offline = TRUE] /\ run' = run
          /\ seen' = [seen EXCEPT !.mistaken = @ \/ Mistaken]
          /\ IF decky.up THEN Fault ELSE Calm
       \/ conn.offline /\ decky.up /\ conn' = [conn EXCEPT !.offline = FALSE] /\ Step("reconnect")
          /\ Calm /\ seen' = seen
    /\ UNCHANGED <<plan, decky, jobs, target, confirmed>>

Deadline ==
    /\ run.step = "poll"
    /\ conn' = [conn EXCEPT !.offline = FALSE] /\ Failed /\ Calm
    /\ UNCHANGED <<plan, decky, jobs, target, confirmed, seen>>

(* Steam's web helper is reloaded over a new connection.                      *)
Reconnect == run.step = "reconnect" /\ Ask(decky, Step("inventory"))

(* Mutant: the inventory is compared by its names only. *)
InventoryNames ==
    /\ run.step = "inventory"
    /\ Read(decky.up /\ decky.known = IF run.goal = "sync" THEN Wanted ELSE Known, Step("disabled"))

Inventory ==
    /\ run.step = "inventory"
    /\ Read(/\ decky.up
            /\ decky.known = IF run.goal = "sync" THEN Wanted ELSE Known
            /\ decky.live = IF run.goal = "original" THEN Known \ plan.orig ELSE {}, Step("disabled"))

ReadDisabled ==
    /\ run.step = "disabled"
    /\ Read(/\ decky.up
            /\ CASE run.goal = "quiesce"  -> Known \subseteq decky.list
                 [] run.goal = "sync"     -> Wanted \subseteq decky.list
                 [] run.goal = "original" -> decky.list = plan.orig, Succeeded)

-----------------------------------------------------------------------------
(* Installation and removal *)

(* Mutant: the messages of a call that was given up stay. *)
ClosedUnread == [conn EXCEPT !.of = None, !.prompt = None, !.finished = FALSE]

Closed == [conn EXCEPT !.of = None, !.wire = <<>>, !.prompt = None, !.finished = FALSE]

Job == IF run.goal = "change" THEN "action" ELSE "rollback"

Check ==
    /\ run.step = "change"
    /\ Read(target = Was, run' = [run EXCEPT !.item = TRUE,
                                             !.step = IF plan.op = "remove" THEN "uninstall" ELSE "request"])

(* A call whose answer is waited for: Decky has it, or it is lost, or only    *)
(* the wait is.                                                               *)
Send(reachable, phase, step) ==
    /\ \/ reachable /\ jobs' = [jobs EXCEPT ![Job] = phase] /\ Calm
          /\ conn' = [conn EXCEPT !.of = Job] /\ Step(step)
       \/ reachable /\ jobs' \in {jobs, [jobs EXCEPT ![Job] = phase]} /\ Fault
          /\ conn' = Closed /\ Failed
       \/ ~reachable /\ jobs' = jobs /\ Calm /\ conn' = Closed /\ Failed
    /\ UNCHANGED <<plan, decky, target, seen>>

Request   == run.step = "request" /\ Send(decky.up, "asking", "prompt") /\ UNCHANGED confirmed
Uninstall == run.step = "uninstall" /\ Send(decky.up, "drop", "await") /\ UNCHANGED confirmed

Receive(message) ==
    /\ conn.of = Job /\ conn.wire # <<>> /\ Head(conn.wire) = message
    /\ Calm /\ UNCHANGED <<plan, decky, jobs, target, confirmed, seen>>

Rest == [conn EXCEPT !.wire = Tail(@)]

(* Mutant: the prompt is not compared with the request. *)
PromptAny ==
    /\ run.step = "prompt"
    /\ \E message \in {"own", "theirs", "theirsFinished", "reply"} :
        /\ Receive(message)
        /\ IF message = "reply" THEN conn' = Rest /\ Step("confirm")
           ELSE conn' = [Rest EXCEPT !.prompt = message] /\ run' = run

(* The first call is answered by exactly one prompt, for the request that was *)
(* approved, before its reply.                                                *)
Prompt ==
    /\ run.step = "prompt"
    /\ \E message \in {"own", "theirs", "theirsFinished", "reply"} :
        /\ Receive(message)
        /\ \/ message = "own" /\ conn.prompt = None
              /\ conn' = [Rest EXCEPT !.prompt = message] /\ run' = run
           \/ message = "reply" /\ conn.prompt # None /\ conn' = Rest /\ Step("confirm")
           \/ message # (IF conn.prompt = None THEN "own" ELSE "reply") /\ conn' = Closed /\ Failed

Confirm ==
    /\ run.step = "confirm"
    /\ Send(conn.of = Job, "remove", "await")
    /\ confirmed' = confirmed \cup ({conn.prompt} \ {None})

(* An installation passes over other events, but not over the completion of   *)
(* another plugin; a removal passes over all.                                 *)
Await ==
    /\ run.step = "await"
    /\ \E message \in {"theirs", "theirsFinished", "finished", "reply", "error"} :
        /\ Receive(message)
        /\ \/ message = "finished" /\ conn' = [Rest EXCEPT !.finished = TRUE] /\ run' = run
           \/ message = "theirs" /\ conn' = Rest /\ run' = run
           \/ message = "theirsFinished" /\ Result(Job) = None /\ conn' = Rest /\ run' = run
           \/ message = "theirsFinished" /\ Result(Job) # None /\ conn' = Closed /\ Failed
           \/ message = "reply" /\ conn' = Closed
              /\ IF conn.finished \/ Result(Job) = None THEN Step("inspect") ELSE Failed
           \/ message = "error" /\ conn' = Closed /\ Failed

(* Mutant: the wait for the confirmed installation has no limit. *)
GiveUpPrompt ==
    /\ run.step = "prompt"
    /\ conn' = Closed /\ Failed /\ Calm
    /\ UNCHANGED <<plan, decky, jobs, target, confirmed, seen>>

(* A call waits ten minutes and for 2048 messages, and its connection may     *)
(* break.                                                                     *)
GiveUp ==
    /\ run.step \in {"prompt", "await"}
    /\ conn' = Closed /\ Failed /\ Calm
    /\ UNCHANGED <<plan, decky, jobs, target, confirmed, seen>>

Inspect == run.step = "inspect" /\ Read(target = Result(Job), Succeeded)

-----------------------------------------------------------------------------
(* Rollback and settings *)

(* What the action left decides: nothing to undo, Decky's own removal or      *)
(* reinstallation, or a tree that nobody knows.                               *)
Undo ==
    /\ run.step = "undo"
    /\ IF target = Was THEN Read(TRUE, Succeeded)
       ELSE IF plan.op = "create" THEN Read(target = "new", Step("uninstall"))
       ELSE Read(target \in IF plan.op = "replace" THEN {None, "new"} ELSE {None}, Step("request"))

(* The settings file is put back behind Decky, on success as in the rollback. *)
Put ==
    /\ run.step \in {"commit", "settings"}
    /\ \/ decky' = [decky EXCEPT !.list = plan.orig] /\ Calm
          /\ IF run.step = "commit" THEN Step("later") ELSE Succeeded
       \/ decky' \in {decky, [decky EXCEPT !.list = plan.orig]} /\ Failed /\ Fault
    /\ UNCHANGED <<plan, conn, jobs, target, confirmed, seen>>

(* The rest of the restore completes, or fails.                               *)
Later ==
    /\ run.step = "later"
    /\ Step("end") \/ Failed
    /\ Calm /\ UNCHANGED <<plan, conn, decky, jobs, target, confirmed, seen>>

Revalidate ==
    /\ run.step = "revalidate"
    /\ Read(decky.up /\ target = Was /\ decky.list = plan.orig, Succeeded)

Report ==
    /\ run.step = "report"
    /\ run' = [run EXCEPT !.step = "end", !.undone = IF run.failed THEN "failed" ELSE "undone"]
    /\ Calm /\ UNCHANGED <<plan, conn, decky, jobs, target, confirmed, seen>>

-----------------------------------------------------------------------------
(* Decky *)

Tell(job, message) ==
    conn' = IF conn.of = job THEN [conn EXCEPT !.wire = Append(@, message)] ELSE conn

(* An uninstalled plugin may lose its place in the list of the disabled.      *)
Gone ==
    /\ target' = None
    /\ \E list \in {decky.list, IF target = None THEN decky.list ELSE decky.list \ {"this"}} :
        decky' = [decky EXCEPT !.list = list, !.known = @ \ {"this"}, !.live = @ \ {"this"}]

Phase(job, from, to) == jobs[job] = from /\ jobs' = [jobs EXCEPT ![job] = to] /\ Calm

Prompts(job) ==
    /\ \/ Phase(job, "asking", "asked") /\ Tell(job, "own")
       \/ Phase(job, "asked", None) /\ Tell(job, "reply")
       \/ Phase(job, "answer", None) /\ Tell(job, "reply")
    /\ UNCHANGED <<decky, target>>

Removes(job) ==
    /\ Phase(job, "remove", "unpack") \/ Phase(job, "drop", "answer")
    /\ Gone /\ conn' = conn

Unpacks(job) ==
    /\ Phase(job, "unpack", "load")
    /\ target' = "partial" /\ UNCHANGED <<conn, decky>>

Loads(job) ==
    /\ Phase(job, "load", "answer")
    /\ target' = Result(job) /\ Tell(job, "finished")
    /\ decky' = [decky EXCEPT !.known = Plugins,
                              !.live = @ \cup ({"this"} \ decky.list)]

(* A job may fail without saying so.                                          *)
JobFails(job) ==
    /\ jobs[job] \in {"remove", "unpack", "load", "drop"}
    /\ jobs' = [jobs EXCEPT ![job] = None] /\ Fault
    /\ Tell(job, "error") \/ Tell(job, "reply")
    /\ UNCHANGED <<decky, target>>

(* A restart that was asked for, or a crash.                                  *)
Stops ==
    /\ decky.up
    /\ IF decky.due THEN Calm ELSE Fault
    /\ decky' = [decky EXCEPT !.up = FALSE, !.due = FALSE, !.live = {}]
    /\ jobs' = [job \in DOMAIN jobs |-> None]
    /\ conn' = Closed /\ target' = target

Starts ==
    /\ ~decky.up
    /\ LET known == {"other"} \cup IF target \in {None, "partial"} THEN {} ELSE {"this"}
       IN  decky' = [decky EXCEPT !.up = TRUE, !.known = known, !.live = known \ decky.list]
    /\ Calm /\ UNCHANGED <<conn, jobs, target>>

Service ==
    /\ \/ \E job \in DOMAIN jobs :
            Prompts(job) \/ Removes(job) \/ Unpacks(job) \/ Loads(job) \/ JobFails(job)
       \/ Stops \/ Starts
    /\ UNCHANGED <<plan, run, confirmed, seen>>

-----------------------------------------------------------------------------
(* Others *)

Change ==
    /\ target' \in {None, "theirs"} \ {target}
    /\ seen' = [seen EXCEPT !.taken = TRUE] /\ UNCHANGED <<conn, decky>>

(* Another client enables a plugin or disables it.                            *)
Toggle ==
    /\ decky.up
    /\ \E plugin \in decky.known :
        decky' = IF plugin \in decky.list
                 THEN [decky EXCEPT !.list = @ \ {plugin}, !.live = @ \cup {plugin}]
                 ELSE [decky EXCEPT !.list = @ \cup {plugin}, !.live = @ \ {plugin}]
    /\ seen' = [seen EXCEPT !.touched = TRUE] /\ UNCHANGED <<conn, target>>

(* Decky sends the prompt and the completion of another client's request over *)
(* the connection that was opened last.                                       *)
Intrude ==
    /\ conn.of # None
    /\ \E message \in {"theirs", "theirsFinished"} : Tell(conn.of, message)
    /\ UNCHANGED <<decky, target, seen>>

Others ==
    /\ left.changes > 0 /\ left' = [left EXCEPT !.changes = @ - 1]
    /\ Change \/ Toggle \/ Intrude
    /\ UNCHANGED <<plan, run, jobs, confirmed>>

-----------------------------------------------------------------------------
Init ==
    /\ plan \in [op : {"create", "replace", "remove"}, orig : SUBSET Plugins]
    /\ plan.orig \subseteq Known
    /\ run = [goal |-> "quiesce", step |-> "set", item |-> FALSE, outcome |-> None,
              failed |-> FALSE, undone |-> None]
    /\ conn = [of |-> None, wire |-> <<>>, prompt |-> None, finished |-> FALSE, offline |-> FALSE]
    /\ decky = [up |-> TRUE, due |-> FALSE, list |-> plan.orig, known |-> Known,
                live |-> Known \ plan.orig]
    /\ jobs = [job \in {"action", "rollback"} |-> None]
    /\ target = Was /\ confirmed = {}
    /\ seen = [taken |-> FALSE, touched |-> FALSE, mistaken |-> FALSE]
    /\ left = [faults |-> MaxFaults, changes |-> MaxChanges]

Client ==
    \/ Set \/ ReadBack \/ Restart \/ Poll \/ Deadline \/ Reconnect \/ Inventory \/ ReadDisabled
    \/ Check \/ Request \/ Uninstall \/ Prompt \/ Confirm \/ Await \/ GiveUp \/ Inspect
    \/ Undo \/ Put \/ Later \/ Revalidate \/ Report

Next == Client \/ Service \/ Others

(* The process that restores goes on; neither Decky nor anybody else need.    *)
Spec == Init /\ [][Next]_vars /\ WF_vars(Client)

-----------------------------------------------------------------------------
(* Properties *)

TypeOK ==
    /\ plan \in [op : {"create", "replace", "remove"}, orig : SUBSET Plugins]
    /\ run.outcome \in {None, "unquiesced", "refused", "failed", "installed"}
    /\ run.undone \in {None, "undone", "failed"}
    /\ conn.of \in {None, "action", "rollback"} /\ Len(conn.wire) <= 3 + MaxChanges
    /\ decky \in [up : BOOLEAN, due : BOOLEAN, list : SUBSET Plugins,
                  known : SUBSET Plugins, live : SUBSET Plugins]
    /\ decky.live \subseteq decky.known /\ (~decky.up => decky.live = {})
    /\ \A job \in DOMAIN jobs :
        jobs[job] \in {None, "asking", "asked", "remove", "drop", "unpack", "load", "answer"}
    /\ target \in Trees

(* Decky installs nothing in the restore's name but what was approved.        *)
ConfirmsOnlyOwn == confirmed \subseteq {"own"}

(* No other plugin runs while Decky changes this one, and none runs when the  *)
(* action is recorded as applied, which it then is: also when a probe failed  *)
(* that took a running Decky for a restarted one.                             *)
AppliedQuietly ==
    /\ run.goal \in {"keep", "change", "sync"} /\ ~seen.touched => "other" \notin decky.live
    /\ run.step = "commit" /\ ~seen.taken =>
        target = Result("action") /\ (~seen.touched => decky.live = {})

(* A rollback that reports success has put back the tree, the list and the    *)
(* plugins that run, and nothing that was asked for is still to come: unless  *)
(* its wait for the restart was mistaken about a Decky with a job left.       *)
UndoneIsOriginal ==
    run.undone = "undone" /\ seen = [taken |-> FALSE, touched |-> FALSE, mistaken |-> FALSE] =>
        /\ target = Was /\ decky.list = plan.orig
        /\ \A job \in DOMAIN jobs : jobs[job] = None
        /\ decky.up => decky.known = Known /\ decky.live = Known \ plan.orig

(* Every call ends, whatever Decky does.                                      *)
Ends == <>(run.step = "end")

=============================================================================
