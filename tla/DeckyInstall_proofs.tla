------------------------- MODULE DeckyInstall_proofs -------------------------
(***************************************************************************)
(* The safety of the installation by Decky, for any number of faults and of *)
(* changes by others.  The invariant says which jobs and messages can be    *)
(* left at which step, and what each step of the rollback has seen.         *)
(***************************************************************************)
EXTENDS DeckyInstall, TLAPS, SequenceTheorems

Phases   == {None, "asking", "asked", "remove", "drop", "unpack", "load", "answer"}
Messages == {"own", "theirs", "theirsFinished", "finished", "reply", "error"}
Goals    == {"quiesce", "keep", "change", "sync", "commit", "undo", "settings", "original",
             "revalidate", "report"}
RestartSteps == {"set", "readBack", "restart", "poll", "reconnect", "inventory", "disabled"}
JobSteps     == {"request", "uninstall", "prompt", "confirm", "await", "inspect"}
WaitSteps    == {"prompt", "confirm", "await"}
Steps    == RestartSteps \cup JobSteps \cup
            {"change", "commit", "later", "undo", "settings", "revalidate", "report", "end"}

Runs   == [goal : Goals, step : Steps, item : BOOLEAN,
           outcome : {None, "unquiesced", "refused", "failed", "installed"},
           failed : BOOLEAN, undone : {None, "undone", "failed"}]
Conns  == [of : {None, "action", "rollback"}, wire : Seq(Messages), prompt : {None, "own"},
           finished : BOOLEAN, offline : BOOLEAN]
Deckys == [up : BOOLEAN, due : BOOLEAN, list : SUBSET Plugins,
           known : SUBSET Plugins, live : SUBSET Plugins]
Seen   == [taken : BOOLEAN, touched : BOOLEAN, mistaken : BOOLEAN]
Left   == [faults : 0 .. MaxFaults, changes : 0 .. MaxChanges]

(* The type of everything but the run, and that only own prompts are confirmed. *)
Typed ==
    /\ plan \in [op : {"create", "replace", "remove"}, orig : SUBSET Plugins]
    /\ conn \in Conns /\ decky \in Deckys
    /\ jobs \in [{"action", "rollback"} -> Phases]
    /\ target \in Trees /\ confirmed \subseteq {"own"}
    /\ seen \in Seen /\ left \in Left

(* Which steps a goal has, and what is settled with a goal.                   *)
Control ==
    /\ run \in Runs
    /\ run.goal \in {"quiesce", "original"} => run.step \in RestartSteps
    /\ run.goal = "keep" => run.step \in {"set", "readBack"}
    /\ run.goal = "change" => run.step \in JobSteps \cup {"change"}
    /\ run.goal = "sync" => run.step \in {"inventory", "disabled"}
    /\ run.goal = "commit" => run.step \in {"commit", "later", "end"}
    /\ run.goal = "undo" => run.step \in JobSteps \cup {"undo"}
    /\ run.goal \in {"settings", "revalidate"} => run.step = run.goal
    /\ run.goal = "report" => run.step \in {"report", "end"}
    /\ run.outcome = "unquiesced" => run.goal \in {"original", "report"}
    /\ run.undone = "undone" => run.goal = "report" /\ run.step = "end" /\ ~run.failed

(* How many messages a job has still to send, and how many of those of the    *)
(* current call can be on the wire or to come.                                *)
ToCome(phase) == CASE phase = None -> 0 [] phase \in {"asked", "answer", "drop"} -> 1 [] OTHER -> 2
Expected == CASE run.step = "confirm" -> 0
              [] run.step = "prompt" /\ conn.prompt # None -> 1
              [] OTHER -> 2

(* Only a waiting call has messages, and only a Decky that runs has jobs.     *)
Idle == conn.of = None /\ conn.wire = <<>> /\ conn.prompt = None
Waits ==
    /\ conn.of = Job /\ run.step \in WaitSteps /\ decky.up
    /\ Len(conn.wire) + ToCome(jobs[Job]) <= Expected + MaxChanges - left.changes
    /\ \A i \in 1 .. Len(conn.wire) : conn.wire[i] = "reply" =>
        jobs[Job] = None /\ run.step # "confirm"
    /\ \A i, j \in 1 .. Len(conn.wire) : conn.wire[i] = "reply" /\ conn.wire[j] = "reply" => i = j
    /\ run.step = "confirm" => jobs[Job] = None
Loaded ==
    /\ ~decky.up => decky.live = {} /\ jobs["action"] = None /\ jobs["rollback"] = None
    /\ decky.live \subseteq decky.known
Waiting ==
    /\ run.step # "poll" => ~conn.offline
    /\ Idle \/ Waits
    /\ Loaded

(* No job outlasts what it belongs to, but those of an action that is undone. *)
JobsEnd ==
    /\ run.goal \in {"quiesce", "keep", "change", "sync", "commit"} \/ run.outcome = "unquiesced"
       => jobs["rollback"] = None
    /\ run.goal \in {"quiesce", "keep", "sync", "commit"} \/ run.outcome = "unquiesced"
       => jobs["action"] = None
    /\ run.goal = "change" /\ run.step \in {"change", "request", "uninstall", "confirm", "inspect"}
       => jobs["action"] = None

(* While the plugins are to be quiet the other one is disabled or runs, and   *)
(* an inventory shows which.                                                  *)
Quiet ==
    /\ run.goal \in {"quiesce", "keep", "change", "sync"} /\ decky.up =>
        "other" \in decky.live \cup decky.list
    /\ ~seen.touched /\ (\/ run.goal \in {"keep", "change", "sync"}
                         \/ run.goal = "quiesce" /\ run.step = "disabled") =>
        "other" \in decky.list /\ "other" \notin decky.live

(* What is recorded as applied is.                                            *)
Applied ==
    /\ (run.goal = "sync" \/ run.step = "commit") /\ ~seen.taken => target = Result("action")
    /\ run.goal = "sync" /\ run.step = "disabled" /\ ~seen.taken /\ ~seen.touched =>
        decky.live \cap decky.list = {} /\ (decky.up => decky.known = Wanted)
    /\ run.step = "commit" /\ ~seen.taken /\ ~seen.touched => decky.live = {} /\ Wanted \subseteq decky.list

Undisturbed == ~seen.taken /\ ~seen.touched /\ ~seen.mistaken

(* What a rollback that has not failed has seen.                              *)
Ended  == {"revalidate", "report"}
Restarted ==
    /\ run.goal = "original"
    /\ \/ run.step \in {"reconnect", "inventory", "disabled"}
       \/ run.step = "poll" /\ conn.offline
Undone ==
    /\ (run.goal = "quiesce" \/ run.outcome = "unquiesced") /\ ~seen.taken => target = Was
    /\ ~run.failed /\ ~seen.mistaken /\ (Restarted \/ run.goal \in Ended) =>
        jobs["action"] = None /\ jobs["rollback"] = None
    /\ ~run.failed /\ Undisturbed =>
        /\ (run.goal = "original" /\ run.step = "disabled") \/ run.goal \in Ended =>
            (decky.up /\ target = Was /\ decky.list = plan.orig =>
                decky.known = Known /\ decky.live = Known \ plan.orig)
        /\ run.goal \in Ended => decky.list = plan.orig
        /\ run.goal = "report" => target = Was

IInv == Typed /\ Control /\ Waiting /\ JobsEnd /\ Quiet /\ Applied /\ Undone

-----------------------------------------------------------------------------
(* Facts about the run *)

(* After a failure nothing is awaited, and the run goes to its rollback or on in it. *)
LEMMA FailedFacts ==
    ASSUME Control, Failed, run.step # "end"
    PROVE  /\ Control'
           /\ run'.goal \in {"original", "undo", "settings", "revalidate", "report"}
           /\ run'.step \notin WaitSteps \cup {"poll", "commit", "end", "reconnect", "disabled"}
           /\ run'.goal = "original" /\ run'.step = "inventory" => run'.failed
           /\ run'.goal \in Ended => run'.failed
           /\ run'.outcome = "unquiesced" => run.goal = "quiesce" \/ run.outcome = "unquiesced"
<1> USE DEF None, Goals, RestartSteps, JobSteps, WaitSteps, Steps, Runs, Ended
<1>0. run \in Runs
  BY DEF Control
<1>1. CASE run.goal = "quiesce"
  <2>1. run' = [run EXCEPT !.goal = "original", !.step = "set", !.outcome = "unquiesced"]
    BY <1>1, <1>0 DEF Failed, At, First, AfterOriginal
  <2> QED
    BY <1>1, <2>1, <1>0 DEF Control
<1>2. CASE run.goal \in {"keep", "change", "sync"} /\ ~run.item
  <2>1. run' = [run EXCEPT !.goal = "original", !.step = "set", !.outcome = "refused"]
    BY <1>2, <1>0 DEF Failed, At, First, AfterOriginal
  <2> QED
    BY <1>2, <2>1, <1>0 DEF Control
<1>3. CASE run.goal \in {"change", "sync"} /\ run.item
  <2>1. run' = [run EXCEPT !.goal = "undo", !.step = "undo", !.outcome = "failed"]
    BY <1>3, <1>0 DEF Failed, At, First, AfterOriginal
  <2> QED
    BY <1>3, <2>1, <1>0 DEF Control
<1>4. CASE run.goal = "commit"
  <2>1. run' = [run EXCEPT !.goal = "undo", !.step = "undo"]
    BY <1>4, <1>0 DEF Failed, At, First, AfterOriginal
  <2> QED
    BY <1>4, <2>1, <1>0 DEF Control
<1>5. CASE run.goal = "undo"
  <2>1. run' = [run EXCEPT !.goal = "settings", !.step = "settings", !.failed = TRUE]
    BY <1>5, <1>0 DEF Failed, At, First, AfterOriginal
  <2> QED
    BY <1>5, <2>1, <1>0 DEF Control
<1>6. CASE run.goal = "settings"
  <2>1. run' = [run EXCEPT !.goal = "original", !.step = "set", !.failed = TRUE]
    BY <1>6, <1>0 DEF Failed, At, First, AfterOriginal
  <2> QED
    BY <1>6, <2>1, <1>0 DEF Control
<1>7. CASE run.goal = "original" /\ run.step \in {"set", "readBack"}
  <2>1. run' = [run EXCEPT !.step = "restart", !.failed = TRUE]
    BY <1>7, <1>0 DEF Failed, At, First, AfterOriginal
  <2> QED
    BY <1>7, <2>1, <1>0 DEF Control
<1>8. CASE run.goal = "original" /\ run.step \in {"restart", "poll", "reconnect"}
  <2>1. run' = [run EXCEPT !.step = "inventory", !.failed = TRUE]
    BY <1>8, <1>0 DEF Failed, At, First, AfterOriginal
  <2> QED
    BY <1>8, <2>1, <1>0 DEF Control
<1>9. CASE run.goal = "original" /\ run.step \in {"inventory", "disabled"} /\ run.outcome = "unquiesced"
  <2>1. run' = [run EXCEPT !.goal = "report", !.step = "report", !.failed = TRUE]
    BY <1>9, <1>0 DEF Failed, At, First, AfterOriginal
  <2> QED
    BY <1>9, <2>1, <1>0 DEF Control
<1>10. CASE run.goal = "original" /\ run.step \in {"inventory", "disabled"} /\ run.outcome # "unquiesced"
  <2>1. run' = [run EXCEPT !.goal = "revalidate", !.step = "revalidate", !.failed = TRUE]
    BY <1>10, <1>0 DEF Failed, At, First, AfterOriginal
  <2> QED
    BY <1>10, <2>1, <1>0 DEF Control
<1>11. CASE run.goal \in {"revalidate", "report"} \/ (run.goal = "keep" /\ run.item)
  <2>1. run' = [run EXCEPT !.goal = "report", !.step = "report", !.failed = TRUE]
    BY <1>11, <1>0 DEF Failed, At, First, AfterOriginal
  <2> QED
    BY <1>11, <2>1, <1>0 DEF Control
<1> QED
  BY <1>0, <1>1, <1>2, <1>3, <1>4, <1>5, <1>6, <1>7, <1>8, <1>9, <1>10, <1>11 DEF Control

(* What the run is about after each success. *)
LEMMA SucceededFacts ==
    ASSUME Control, Succeeded, plan.op \in {"create", "replace", "remove"},
           run.goal \in Goals \ {"commit", "report"}
    PROVE  /\ Control'
           /\ run'.failed = run.failed /\ run'.undone = run.undone
           /\ run.goal = "quiesce" => IF plan.op = "remove" THEN run'.goal = "change" /\ run'.step = "change"
                                      ELSE run'.goal = "keep" /\ run'.step = "set"
           /\ run.goal = "keep" => run'.goal = "change" /\ run'.step = "change"
           /\ run.goal = "change" => run'.goal = "sync" /\ run'.step = "inventory"
           /\ run.goal = "sync" => run'.goal = "commit" /\ run'.step = "commit"
           /\ run.goal = "undo" => run'.goal = "settings" /\ run'.step = "settings"
           /\ run.goal = "settings" => run'.goal = "original" /\ run'.step = "set"
           /\ run.goal = "original" =>
                IF run.outcome = "unquiesced" THEN run'.goal = "report" /\ run'.step = "report"
                ELSE run'.goal = "revalidate" /\ run'.step = "revalidate"
           /\ run.goal = "revalidate" => run'.goal = "report" /\ run'.step = "report"
           /\ run'.outcome = "unquiesced" => run.outcome = "unquiesced"
<1> USE DEF None, Goals, RestartSteps, JobSteps, WaitSteps, Steps, Runs, Ended
<1>0. run \in Runs
  BY DEF Control
<1>1. CASE run.goal = "quiesce" /\ plan.op = "remove"
  <2>1. run' = [run EXCEPT !.goal = "change", !.step = "change"]
    BY <1>1, <1>0 DEF Succeeded, At, First, AfterOriginal
  <2> QED
    BY <1>1, <2>1, <1>0 DEF Control
<1>2. CASE run.goal = "quiesce" /\ plan.op # "remove"
  <2>1. run' = [run EXCEPT !.goal = "keep", !.step = "set"]
    BY <1>2, <1>0 DEF Succeeded, At, First, AfterOriginal
  <2> QED
    BY <1>2, <2>1, <1>0 DEF Control
<1>3. CASE run.goal = "keep"
  <2>1. run' = [run EXCEPT !.goal = "change", !.step = "change"]
    BY <1>3, <1>0 DEF Succeeded, At, First, AfterOriginal
  <2> QED
    BY <1>3, <2>1, <1>0 DEF Control
<1>4. CASE run.goal = "change"
  <2>1. run' = [run EXCEPT !.goal = "sync", !.step = "inventory"]
    BY <1>4, <1>0 DEF Succeeded, At, First, AfterOriginal
  <2> QED
    BY <1>4, <2>1, <1>0 DEF Control
<1>5. CASE run.goal = "sync"
  <2>1. run' = [run EXCEPT !.goal = "commit", !.step = "commit", !.outcome = "installed"]
    BY <1>5, <1>0 DEF Succeeded, At, First, AfterOriginal
  <2> QED
    BY <1>5, <2>1, <1>0 DEF Control
<1>6. CASE run.goal = "undo"
  <2>1. run' = [run EXCEPT !.goal = "settings", !.step = "settings"]
    BY <1>6, <1>0 DEF Succeeded, At, First, AfterOriginal
  <2> QED
    BY <1>6, <2>1, <1>0 DEF Control
<1>7. CASE run.goal = "settings"
  <2>1. run' = [run EXCEPT !.goal = "original", !.step = "set"]
    BY <1>7, <1>0 DEF Succeeded, At, First, AfterOriginal
  <2> QED
    BY <1>7, <2>1, <1>0 DEF Control
<1>8. CASE run.goal = "original" /\ run.outcome = "unquiesced"
  <2>1. run' = [run EXCEPT !.goal = "report", !.step = "report"]
    BY <1>8, <1>0 DEF Succeeded, At, First, AfterOriginal
  <2> QED
    BY <1>8, <2>1, <1>0 DEF Control
<1>9. CASE run.goal = "original" /\ run.outcome # "unquiesced"
  <2>1. run' = [run EXCEPT !.goal = "revalidate", !.step = "revalidate"]
    BY <1>9, <1>0 DEF Succeeded, At, First, AfterOriginal
  <2> QED
    BY <1>9, <2>1, <1>0 DEF Control
<1>10. CASE run.goal = "revalidate"
  <2>1. run' = [run EXCEPT !.goal = "report", !.step = "report"]
    BY <1>10, <1>0 DEF Succeeded, At, First, AfterOriginal
  <2> QED
    BY <1>10, <2>1, <1>0 DEF Control
<1> QED
  BY <1>0, <1>1, <1>2, <1>3, <1>4, <1>5, <1>6, <1>7, <1>8, <1>9, <1>10 DEF Control

(* A step within a goal. *)
LEMMA StepFacts ==
    ASSUME Control, NEW s \in Steps, Step(s)
    PROVE  /\ run' \in Runs /\ run'.goal = run.goal /\ run'.step = s
           /\ run'.item = run.item /\ run'.outcome = run.outcome
           /\ run'.failed = run.failed /\ run'.undone = run.undone
BY DEF Control, Step, Runs

(* A step of the client or of Decky takes no change from the others. *)
LEMMA BudgetFacts ==
    ASSUME left \in Left, Fault \/ Calm
    PROVE  left' \in Left /\ left'.changes = left.changes
BY InstallAssumption DEF Left, Fault, Calm

(* After a failure it is enough that the tree is as it was. *)
LEMMA AfterFailure ==
    ASSUME IInv, Failed, run.step # "end", UNCHANGED <<plan, target>>,
           seen.taken => seen'.taken,
           jobs' = jobs \/ run.goal \in {"change", "undo"}
    PROVE  Control' /\ JobsEnd' /\ Quiet' /\ Applied' /\ Undone'
<1>1. Control /\ Control'
  BY FailedFacts DEF IInv
<1>2. JobsEnd'
  BY FailedFacts, <1>1 DEF IInv, JobsEnd, Control
<1>3. Quiet' /\ Applied'
  BY FailedFacts, <1>1 DEF Quiet, Applied
<1>4. Undone'
  BY FailedFacts, <1>1 DEF IInv, Undone, Restarted, Was, WaitSteps, Ended
<1> QED
  BY <1>1, <1>2, <1>3, <1>4

(* What a call that waits for no message leaves as it is. *)
LEMMA CallFacts ==
    ASSUME IInv, run.step \notin WaitSteps \cup {"poll", "end"},
           UNCHANGED <<plan, conn, jobs, target, confirmed>>, Fault \/ Calm,
           decky' \in Deckys, decky'.up = decky.up, decky'.known = decky.known, decky'.live = decky.live,
           seen' \in Seen, seen.taken => seen'.taken
    PROVE  Typed' /\ Waiting' /\ (Failed => IInv')
<1>1. Typed'
  BY BudgetFacts DEF IInv, Typed, Left, Seen
<1>2. Waiting'
  BY DEF IInv, Waiting, Idle, Waits, Loaded
<1>3. Failed => IInv'
  BY <1>1, <1>2, AfterFailure DEF IInv, WaitSteps
<1> QED
  BY <1>1, <1>2, <1>3

-----------------------------------------------------------------------------
(* Calls that wait for no message *)

(* The disabled list is sent. *)
LEMMA SetStep == ASSUME IInv, Set PROVE IInv'
<1> USE DEF Steps, RestartSteps, JobSteps, WaitSteps
<1>1. /\ run.step = "set" /\ UNCHANGED <<plan, conn, jobs, target, confirmed, seen>>
      /\ Fault \/ Calm
      /\ decky' \in {decky, [decky EXCEPT !.list = List]}
      /\ Failed \/ (Step("readBack") /\ decky.up /\ decky' = [decky EXCEPT !.list = List])
  BY DEF Set, Ask
<1>2. run.goal \in {"quiesce", "keep", "original"}
  BY <1>1 DEF IInv, Control, Runs, Goals
<1>3. /\ plan \in [op : {"create", "replace", "remove"}, orig : SUBSET Plugins]
      /\ decky \in Deckys /\ seen \in Seen
  BY DEF IInv, Typed
<1>4. List \in SUBSET Plugins
  BY <1>3 DEF List, Disabled, Known, Plugins
<1>5. decky' \in Deckys /\ decky'.up = decky.up /\ decky'.known = decky.known /\ decky'.live = decky.live
  BY <1>1, <1>3, <1>4 DEF Deckys
<1>6. Typed' /\ Waiting' /\ (Failed => IInv')
  BY <1>1, <1>3, <1>5, CallFacts DEF Seen
<1>7. CASE Step("readBack") /\ decky.up /\ decky' = [decky EXCEPT !.list = List]
  <2>1. /\ run' \in Runs /\ run'.goal = run.goal /\ run'.step = "readBack"
        /\ run'.outcome = run.outcome /\ run'.failed = run.failed /\ run'.undone = run.undone
    BY <1>7, StepFacts DEF IInv
  <2>2. Control'
    BY <2>1, <1>1, <1>2 DEF IInv, Control
  <2>3. JobsEnd'
    BY <2>1, <1>1, <1>2 DEF IInv, JobsEnd
  <2>4. Quiet'
    <3>1. "other" \in List \/ run.goal = "original"
      BY <1>1, <1>2 DEF List, Disabled, Known, Plugins
    <3> QED
      BY <2>1, <1>1, <1>2, <1>3, <1>5, <3>1, <1>7 DEF IInv, Quiet, Deckys
  <2>5. Applied'
    BY <2>1, <1>1, <1>2 DEF Applied
  <2>6. Undone'
    BY <2>1, <1>1, <1>2 DEF IInv, Undone, Restarted, Ended, Was
  <2> QED
    BY <1>6, <2>2, <2>3, <2>4, <2>5, <2>6 DEF IInv
<1> QED
  BY <1>1, <1>6, <1>7

(* The list is read back. *)
LEMMA ReadBackStep == ASSUME IInv, ReadBack PROVE IInv'
<1> USE DEF Steps, RestartSteps, JobSteps, WaitSteps
<1>1. /\ run.step = "readBack" /\ UNCHANGED <<plan, conn, decky, jobs, target, confirmed>>
      /\ Fault \/ Calm
      /\ seen' = [seen EXCEPT !.touched = @ /\ run.step # "inventory"]
      /\ Failed \/ ((decky.up /\ decky.list = List)
                    /\ (IF run.goal = "keep" THEN Succeeded ELSE Step("restart")))
  BY DEF ReadBack, Read
<1>2. run.goal \in {"quiesce", "keep", "original"}
  BY <1>1 DEF IInv, Control, Runs, Goals
<1>3. /\ plan \in [op : {"create", "replace", "remove"}, orig : SUBSET Plugins]
      /\ decky \in Deckys /\ seen \in Seen
  BY DEF IInv, Typed
<1>4. /\ seen' \in Seen /\ seen'.taken = seen.taken /\ seen'.mistaken = seen.mistaken
      /\ seen'.touched = (seen.touched /\ run.step # "inventory")
  BY <1>1, <1>3 DEF Seen
<1>5. Typed' /\ Waiting' /\ (Failed => IInv')
  BY <1>1, <1>3, <1>4, CallFacts
<1>6. CASE (decky.up /\ decky.list = List)
           /\ (IF run.goal = "keep" THEN Succeeded ELSE Step("restart"))
  <2>1. /\ run' \in Runs
        /\ IF run.goal = "keep" THEN run'.goal = "change" /\ run'.step = "change"
           ELSE run'.goal = run.goal /\ run'.step = "restart"
        /\ run'.failed = run.failed /\ run'.undone = run.undone
        /\ run'.outcome = "unquiesced" => run.outcome = "unquiesced"
        /\ Control'
    <3>1. CASE run.goal = "keep"
      BY <1>3, <1>6, <3>1, SucceededFacts DEF IInv, Control, Goals
    <3>2. CASE run.goal # "keep"
      <4>1. Step("restart")
        BY <1>6, <3>2
      <4>2. /\ run' \in Runs /\ run'.goal = run.goal /\ run'.step = "restart"
            /\ run'.outcome = run.outcome /\ run'.failed = run.failed /\ run'.undone = run.undone
        BY <4>1, StepFacts DEF IInv
      <4> QED
        BY <4>2, <3>2, <1>1, <1>2 DEF IInv, Control
    <3> QED
      BY <3>1, <3>2
  <2>2. Control'
    BY <2>1
  <2>3. JobsEnd'
    BY <2>1, <1>1, <1>2 DEF IInv, JobsEnd
  <2>4. Quiet'
    BY <2>1, <1>1, <1>2, <1>3, <1>4, <1>6 DEF IInv, Quiet
  <2>5. Applied'
    BY <2>1, <1>1, <1>2, <1>3, <1>4, <1>6 DEF IInv, Applied, Result, Wanted
  <2>6. Undone'
    BY <2>1, <1>1, <1>2, <1>3, <1>4, <1>6 DEF IInv, Undone, Restarted, Ended, Was, Known, Undisturbed
  <2> QED
    BY <1>5, <2>2, <2>3, <2>4, <2>5, <2>6 DEF IInv
<1> QED
  BY <1>1, <1>5, <1>6

(* Decky's restart is requested. *)
LEMMA RestartStep == ASSUME IInv, Restart PROVE IInv'
<1> USE DEF Steps, RestartSteps, JobSteps, WaitSteps
<1>1. /\ run.step = "restart" /\ UNCHANGED <<plan, conn, jobs, target, confirmed, seen>>
      /\ Fault \/ Calm
      /\ decky' \in {decky, [decky EXCEPT !.due = TRUE]}
      /\ Failed \/ Step("poll")
  BY DEF Restart, Ask
<1>2. run.goal \in {"quiesce", "original"}
  BY <1>1 DEF IInv, Control, Runs, Goals
<1>3. decky \in Deckys /\ seen \in Seen
  BY DEF IInv, Typed
<1>4. /\ decky' \in Deckys /\ decky'.up = decky.up /\ decky'.list = decky.list
      /\ decky'.known = decky.known /\ decky'.live = decky.live
  BY <1>1, <1>3 DEF Deckys
<1>5. Typed' /\ Waiting' /\ (Failed => IInv')
  BY <1>1, <1>3, <1>4, CallFacts
<1>6. CASE Step("poll")
  <2>1. /\ run' \in Runs /\ run'.goal = run.goal /\ run'.step = "poll" /\ ~conn'.offline
        /\ run'.outcome = run.outcome /\ run'.failed = run.failed /\ run'.undone = run.undone
    BY <1>6, <1>1, StepFacts DEF IInv, Waiting
  <2>2. Control'
    BY <2>1, <1>1, <1>2 DEF IInv, Control
  <2>3. JobsEnd'
    BY <2>1, <1>1, <1>2 DEF IInv, JobsEnd
  <2>4. Quiet' /\ Applied'
    BY <2>1, <1>1, <1>2, <1>4 DEF IInv, Quiet, Applied
  <2>5. Undone'
    BY <2>1, <1>1, <1>2 DEF IInv, Undone, Restarted, Ended, Was
  <2> QED
    BY <1>5, <2>2, <2>3, <2>4, <2>5 DEF IInv
<1> QED
  BY <1>1, <1>5, <1>6

(* A probe takes the loader for gone, or for back. *)
LEMMA PollStep == ASSUME IInv, Poll PROVE IInv'
<1> USE DEF Steps, RestartSteps, JobSteps, WaitSteps
<1>1. /\ run.step = "poll" /\ UNCHANGED <<plan, decky, jobs, target, confirmed>>
      /\ Fault \/ Calm
      /\ \/ ~conn.offline /\ conn' = [conn EXCEPT !.offline = TRUE] /\ run' = run
            /\ seen' = [seen EXCEPT !.mistaken = @ \/ Mistaken]
         \/ conn.offline /\ decky.up /\ conn' = [conn EXCEPT !.offline = FALSE] /\ Step("reconnect")
            /\ seen' = seen
  BY DEF Poll
<1>2. run.goal \in {"quiesce", "original"}
  BY <1>1 DEF IInv, Control, Runs, Goals
<1>3. conn \in Conns /\ decky \in Deckys /\ seen \in Seen /\ Idle
  BY <1>1 DEF IInv, Typed, Seen, Waiting, Waits
<1>4. seen' \in Seen /\ seen'.taken = seen.taken /\ seen'.touched = seen.touched
  BY <1>1, <1>3 DEF Seen, Deckys, Mistaken
<1>5. conn' \in Conns /\ Idle'
  BY <1>1, <1>3 DEF Conns, Idle
<1>6. Typed'
  BY <1>1, <1>4, <1>5, BudgetFacts DEF IInv, Typed, Left, Seen
<1>7. /\ run' \in Runs /\ run'.goal = run.goal
      /\ run'.outcome = run.outcome /\ run'.failed = run.failed /\ run'.undone = run.undone
      /\ \/ run'.step = "poll" /\ conn'.offline /\ seen'.mistaken = (seen.mistaken \/ Mistaken)
         \/ run'.step = "reconnect" /\ conn.offline /\ ~conn'.offline /\ seen' = seen
  <2>1. CASE run' = run
    BY <2>1, <1>1, <1>3, StepFacts DEF IInv, Control, Conns, Seen
  <2>2. CASE Step("reconnect")
    BY <2>2, <1>1, <1>3, StepFacts DEF IInv, Conns, Seen, Control
  <2> QED
    BY <2>1, <2>2, <1>1
<1>8. Control' /\ Waiting'
  BY <1>1, <1>2, <1>5, <1>7 DEF IInv, Control, Waiting, Loaded
<1>9. JobsEnd' /\ Quiet' /\ Applied'
  BY <1>1, <1>2, <1>4, <1>7 DEF IInv, JobsEnd, Quiet, Applied
<1>10. run.goal = "original" /\ ~Mistaken => jobs["action"] = None /\ jobs["rollback"] = None
  <2>1. jobs \in [{"action", "rollback"} -> Phases]
    BY DEF IInv, Typed
  <2> QED
    BY <2>1 DEF Mistaken, IInv, Waiting, Loaded
<1>11. Undone'
  BY <1>1, <1>2, <1>4, <1>7, <1>10 DEF IInv, Undone, Restarted, Ended, Was, Known, Undisturbed
<1> QED
  BY <1>6, <1>8, <1>9, <1>11 DEF IInv

(* The restart is given up. *)
LEMMA DeadlineStep == ASSUME IInv, Deadline PROVE IInv'
<1> USE DEF Steps, RestartSteps, JobSteps, WaitSteps
<1>1. /\ run.step = "poll" /\ UNCHANGED <<plan, decky, jobs, target, confirmed, seen>>
      /\ Calm /\ Failed /\ conn' = [conn EXCEPT !.offline = FALSE]
  BY DEF Deadline
<1>2. conn \in Conns /\ Idle
  BY <1>1 DEF IInv, Typed, Waiting, Waits
<1>3. conn' \in Conns /\ Idle' /\ ~conn'.offline
  BY <1>1, <1>2 DEF Conns, Idle
<1>4. Typed' /\ Waiting'
  BY <1>1, <1>3, BudgetFacts DEF IInv, Typed, Left, Waiting, Loaded
<1> QED
  BY <1>1, <1>4, AfterFailure DEF IInv

(* The web helper is reconnected. *)
LEMMA ReconnectStep == ASSUME IInv, Reconnect PROVE IInv'
<1> USE DEF Steps, RestartSteps, JobSteps, WaitSteps
<1>1. /\ run.step = "reconnect" /\ UNCHANGED <<plan, conn, decky, jobs, target, confirmed, seen>>
      /\ Fault \/ Calm
      /\ Failed \/ Step("inventory")
  BY DEF Reconnect, Ask
<1>2. run.goal \in {"quiesce", "original"}
  BY <1>1 DEF IInv, Control, Runs, Goals
<1>3. decky \in Deckys /\ seen \in Seen
  BY DEF IInv, Typed
<1>4. Typed' /\ Waiting' /\ (Failed => IInv')
  BY <1>1, <1>3, CallFacts
<1>5. CASE Step("inventory")
  <2>1. /\ run' \in Runs /\ run'.goal = run.goal /\ run'.step = "inventory"
        /\ run'.outcome = run.outcome /\ run'.failed = run.failed /\ run'.undone = run.undone
    BY <1>5, StepFacts DEF IInv
  <2>2. Control'
    BY <2>1, <1>1, <1>2 DEF IInv, Control
  <2>3. JobsEnd' /\ Quiet' /\ Applied'
    BY <2>1, <1>1, <1>2 DEF IInv, JobsEnd, Quiet, Applied
  <2>4. Undone'
    BY <2>1, <1>1, <1>2 DEF IInv, Undone, Restarted, Ended, Was
  <2> QED
    BY <1>4, <2>2, <2>3, <2>4 DEF IInv
<1> QED
  BY <1>1, <1>4, <1>5

(* The inventory is what the goal wants. *)
LEMMA InventoryStep == ASSUME IInv, Inventory PROVE IInv'
<1> USE DEF Steps, RestartSteps, JobSteps, WaitSteps
<1>1. /\ run.step = "inventory" /\ UNCHANGED <<plan, conn, decky, jobs, target, confirmed>>
      /\ Fault \/ Calm
      /\ seen' = [seen EXCEPT !.touched = @ /\ run.step # "inventory"]
      /\ Failed \/ ((decky.up /\ decky.known = (IF run.goal = "sync" THEN Wanted ELSE Known)
                         /\ decky.live = (IF run.goal = "original" THEN Known \ plan.orig ELSE {}))
                    /\ Step("disabled"))
  BY DEF Inventory, Read
<1>2. run.goal \in {"quiesce", "sync", "original"}
  BY <1>1 DEF IInv, Control, Runs, Goals
<1>3. /\ plan \in [op : {"create", "replace", "remove"}, orig : SUBSET Plugins]
      /\ decky \in Deckys /\ seen \in Seen
  BY DEF IInv, Typed
<1>4. /\ seen' \in Seen /\ seen'.taken = seen.taken /\ seen'.mistaken = seen.mistaken
      /\ seen'.touched = (seen.touched /\ run.step # "inventory")
  BY <1>1, <1>3 DEF Seen
<1>5. Typed' /\ Waiting' /\ (Failed => IInv')
  BY <1>1, <1>3, <1>4, CallFacts
<1>6. CASE (decky.up /\ decky.known = (IF run.goal = "sync" THEN Wanted ELSE Known)
                         /\ decky.live = (IF run.goal = "original" THEN Known \ plan.orig ELSE {}))
           /\ Step("disabled")
  <2>1. /\ run' \in Runs /\ run'.goal = run.goal /\ run'.step = "disabled"
        /\ run'.outcome = run.outcome /\ run'.failed = run.failed /\ run'.undone = run.undone
    BY <1>6, StepFacts DEF IInv
  <2>2. Control'
    BY <2>1, <1>1, <1>2 DEF IInv, Control
  <2>3. JobsEnd'
    BY <2>1, <1>1, <1>2 DEF IInv, JobsEnd
  <2>4. Quiet'
    BY <2>1, <1>1, <1>2, <1>3, <1>4, <1>6 DEF IInv, Quiet
  <2>5. Applied'
    BY <2>1, <1>1, <1>2, <1>3, <1>4, <1>6 DEF IInv, Applied, Result, Wanted
  <2>6. Undone'
    BY <2>1, <1>1, <1>2, <1>3, <1>4, <1>6 DEF IInv, Undone, Restarted, Ended, Was, Known, Undisturbed
  <2> QED
    BY <1>5, <2>2, <2>3, <2>4, <2>5, <2>6 DEF IInv
<1> QED
  BY <1>1, <1>5, <1>6

(* The disabled list is what the goal wants. *)
LEMMA ReadDisabledStep == ASSUME IInv, ReadDisabled PROVE IInv'
<1> USE DEF Steps, RestartSteps, JobSteps, WaitSteps
<1>1. /\ run.step = "disabled" /\ UNCHANGED <<plan, conn, decky, jobs, target, confirmed>>
      /\ Fault \/ Calm
      /\ seen' = [seen EXCEPT !.touched = @ /\ run.step # "inventory"]
      /\ Failed \/ ((decky.up /\ (run.goal = "quiesce" => Known \subseteq decky.list)
                         /\ (run.goal = "sync" => Wanted \subseteq decky.list)
                         /\ (run.goal = "original" => decky.list = plan.orig))
                    /\ Succeeded)
  BY DEF ReadDisabled, Read
<1>2. run.goal \in {"quiesce", "sync", "original"}
  BY <1>1 DEF IInv, Control, Runs, Goals
<1>3. /\ plan \in [op : {"create", "replace", "remove"}, orig : SUBSET Plugins]
      /\ decky \in Deckys /\ seen \in Seen
  BY DEF IInv, Typed
<1>4. /\ seen' \in Seen /\ seen'.taken = seen.taken /\ seen'.mistaken = seen.mistaken
      /\ seen'.touched = (seen.touched /\ run.step # "inventory")
  BY <1>1, <1>3 DEF Seen
<1>5. Typed' /\ Waiting' /\ (Failed => IInv')
  BY <1>1, <1>3, <1>4, CallFacts
<1>6. CASE (decky.up /\ (run.goal = "quiesce" => Known \subseteq decky.list)
                         /\ (run.goal = "sync" => Wanted \subseteq decky.list)
                         /\ (run.goal = "original" => decky.list = plan.orig))
           /\ Succeeded
  <2>1. /\ run' \in Runs
        /\ /\ run.goal = "quiesce" => (IF plan.op = "remove" THEN run'.goal = "change" /\ run'.step = "change"
                                    ELSE run'.goal = "keep" /\ run'.step = "set")
           /\ run.goal = "sync" => run'.goal = "commit" /\ run'.step = "commit"
           /\ run.goal = "original" => (IF run.outcome = "unquiesced" THEN run'.goal = "report" /\ run'.step = "report"
                                     ELSE run'.goal = "revalidate" /\ run'.step = "revalidate")
        /\ run'.failed = run.failed /\ run'.undone = run.undone
        /\ run'.outcome = "unquiesced" => run.outcome = "unquiesced"
    BY <1>2, <1>3, <1>6, SucceededFacts DEF IInv, Control, Goals
  <2>2. Control'
    BY <1>2, <1>3, <1>6, SucceededFacts DEF IInv, Goals
  <2>3. JobsEnd'
    BY <2>1, <1>1, <1>2 DEF IInv, JobsEnd
  <2>4. Quiet'
    BY <2>1, <1>1, <1>2, <1>3, <1>4, <1>6 DEF IInv, Quiet
  <2>5. Applied'
    BY <2>1, <1>1, <1>2, <1>3, <1>4, <1>6 DEF IInv, Applied, Result, Wanted, Waiting, Loaded
  <2>6. Undone'
    BY <2>1, <1>1, <1>2, <1>3, <1>4, <1>6 DEF IInv, Undone, Restarted, Ended, Was, Known, Undisturbed
  <2> QED
    BY <1>5, <2>2, <2>3, <2>4, <2>5, <2>6 DEF IInv
<1> QED
  BY <1>1, <1>5, <1>6

(* The tree is as it was approved. *)
LEMMA CheckStep == ASSUME IInv, Check PROVE IInv'
<1> USE DEF Steps, RestartSteps, JobSteps, WaitSteps
<1>1. /\ run.step = "change" /\ UNCHANGED <<plan, conn, decky, jobs, target, confirmed>>
      /\ Fault \/ Calm
      /\ seen' = [seen EXCEPT !.touched = @ /\ run.step # "inventory"]
      /\ Failed \/ (target = Was
                    /\ run' = [run EXCEPT !.item = TRUE,
                                    !.step = IF plan.op = "remove" THEN "uninstall" ELSE "request"])
  BY DEF Check, Read
<1>2. run.goal \in {"change"}
  BY <1>1 DEF IInv, Control, Runs, Goals
<1>3. /\ plan \in [op : {"create", "replace", "remove"}, orig : SUBSET Plugins]
      /\ decky \in Deckys /\ seen \in Seen
  BY DEF IInv, Typed
<1>4. /\ seen' \in Seen /\ seen'.taken = seen.taken /\ seen'.mistaken = seen.mistaken
      /\ seen'.touched = (seen.touched /\ run.step # "inventory")
  BY <1>1, <1>3 DEF Seen
<1>5. Typed' /\ Waiting' /\ (Failed => IInv')
  BY <1>1, <1>3, <1>4, CallFacts
<1>6. CASE target = Was
           /\ run' = [run EXCEPT !.item = TRUE,
                                    !.step = IF plan.op = "remove" THEN "uninstall" ELSE "request"]
  <2>1. /\ run' \in Runs /\ run'.goal = run.goal
        /\ run'.step = (IF plan.op = "remove" THEN "uninstall" ELSE "request")
        /\ run'.outcome = run.outcome /\ run'.failed = run.failed /\ run'.undone = run.undone
    BY <1>6 DEF IInv, Control, Runs
  <2>2. Control'
    BY <2>1, <1>1, <1>2 DEF IInv, Control
  <2>3. JobsEnd'
    BY <2>1, <1>1, <1>2 DEF IInv, JobsEnd
  <2>4. Quiet'
    BY <2>1, <1>1, <1>2, <1>3, <1>4, <1>6 DEF IInv, Quiet
  <2>5. Applied'
    BY <2>1, <1>1, <1>2, <1>3, <1>4, <1>6 DEF IInv, Applied, Result, Wanted
  <2>6. Undone'
    BY <2>1, <1>1, <1>2, <1>3, <1>4, <1>6 DEF IInv, Undone, Restarted, Ended, Was, Known, Undisturbed
  <2> QED
    BY <1>5, <2>2, <2>3, <2>4, <2>5, <2>6 DEF IInv
<1> QED
  BY <1>1, <1>5, <1>6

(* The tree is what was asked for. *)
LEMMA InspectStep == ASSUME IInv, Inspect PROVE IInv'
<1> USE DEF Steps, RestartSteps, JobSteps, WaitSteps
<1>1. /\ run.step = "inspect" /\ UNCHANGED <<plan, conn, decky, jobs, target, confirmed>>
      /\ Fault \/ Calm
      /\ seen' = [seen EXCEPT !.touched = @ /\ run.step # "inventory"]
      /\ Failed \/ (target = Result(Job)
                    /\ Succeeded)
  BY DEF Inspect, Read
<1>2. run.goal \in {"change", "undo"}
  BY <1>1 DEF IInv, Control, Runs, Goals
<1>3. /\ plan \in [op : {"create", "replace", "remove"}, orig : SUBSET Plugins]
      /\ decky \in Deckys /\ seen \in Seen
  BY DEF IInv, Typed
<1>4. /\ seen' \in Seen /\ seen'.taken = seen.taken /\ seen'.mistaken = seen.mistaken
      /\ seen'.touched = (seen.touched /\ run.step # "inventory")
  BY <1>1, <1>3 DEF Seen
<1>5. Typed' /\ Waiting' /\ (Failed => IInv')
  BY <1>1, <1>3, <1>4, CallFacts
<1>6. CASE target = Result(Job)
           /\ Succeeded
  <2>1. /\ run' \in Runs
        /\ /\ run.goal = "change" => run'.goal = "sync" /\ run'.step = "inventory"
           /\ run.goal = "undo" => run'.goal = "settings" /\ run'.step = "settings"
        /\ run'.failed = run.failed /\ run'.undone = run.undone
        /\ run'.outcome = "unquiesced" => run.outcome = "unquiesced"
    BY <1>2, <1>3, <1>6, SucceededFacts DEF IInv, Control, Goals
  <2>2. Control'
    BY <1>2, <1>3, <1>6, SucceededFacts DEF IInv, Goals
  <2>3. JobsEnd'
    BY <2>1, <1>1, <1>2 DEF IInv, JobsEnd
  <2>4. Quiet'
    BY <2>1, <1>1, <1>2, <1>3, <1>4, <1>6 DEF IInv, Quiet
  <2>5. Applied'
    BY <2>1, <1>1, <1>2, <1>3, <1>4, <1>6 DEF IInv, Applied, Result, Wanted, Job
  <2>6. Undone'
    BY <2>1, <1>1, <1>2, <1>3, <1>4, <1>6 DEF IInv, Undone, Restarted, Ended, Was, Known, Undisturbed
  <2> QED
    BY <1>5, <2>2, <2>3, <2>4, <2>5, <2>6 DEF IInv
<1> QED
  BY <1>1, <1>5, <1>6

(* The rollback chooses what to ask Decky for. *)
LEMMA UndoStep == ASSUME IInv, Undo PROVE IInv'
<1> USE DEF Steps, RestartSteps, JobSteps, WaitSteps
<1>1. /\ run.step = "undo" /\ UNCHANGED <<plan, conn, decky, jobs, target, confirmed>>
      /\ Fault \/ Calm
      /\ seen' = [seen EXCEPT !.touched = @ /\ run.step # "inventory"]
      /\ Failed \/ Succeeded \/ Step("uninstall") \/ Step("request")
  BY DEF Undo, Read
<1>2. run.goal = "undo"
  BY <1>1 DEF IInv, Control, Runs, Goals
<1>3. /\ plan \in [op : {"create", "replace", "remove"}, orig : SUBSET Plugins]
      /\ decky \in Deckys /\ seen \in Seen
  BY DEF IInv, Typed
<1>4. seen' \in Seen /\ seen' = seen
  BY <1>1, <1>3 DEF Seen
<1>5. Typed' /\ Waiting' /\ (Failed => IInv')
  BY <1>1, <1>3, <1>4, CallFacts
<1>6. CASE Succeeded \/ Step("uninstall") \/ Step("request")
  <2>1. /\ Control' /\ run'.goal \in {"undo", "settings"} /\ run'.step \in {"uninstall", "request", "settings"}
        /\ run'.outcome = "unquiesced" => run.outcome = "unquiesced"
    <3>1. CASE Succeeded
      BY <1>2, <1>3, <3>1, SucceededFacts DEF IInv, Goals
    <3>2. ASSUME NEW s \in {"uninstall", "request"}, Step(s) PROVE <2>1!:
      <4>1. /\ run' \in Runs /\ run'.goal = run.goal /\ run'.step = s
            /\ run'.outcome = run.outcome /\ run'.failed = run.failed /\ run'.undone = run.undone
        BY <3>2, StepFacts DEF IInv
      <4> QED
        BY <4>1, <1>1, <1>2 DEF IInv, Control
    <3> QED
      BY <1>6, <3>1, <3>2
  <2>2. JobsEnd' /\ Quiet' /\ Applied' /\ Undone'
    BY <2>1, <1>1, <1>2, <1>4 DEF IInv, JobsEnd, Quiet, Applied, Undone, Restarted, Ended, Was
  <2> QED
    BY <1>5, <2>1, <2>2 DEF IInv
<1> QED
  BY <1>1, <1>5, <1>6

(* The settings file is put back. *)
LEMMA PutStep == ASSUME IInv, Put PROVE IInv'
<1> USE DEF Steps, RestartSteps, JobSteps, WaitSteps
<1>1. /\ run.step \in {"commit", "settings"} /\ UNCHANGED <<plan, conn, jobs, target, confirmed, seen>>
      /\ Fault \/ Calm
      /\ decky' \in {decky, [decky EXCEPT !.list = plan.orig]}
      /\ Failed \/ (IF run.step = "commit" THEN Step("later") ELSE Succeeded)
  BY DEF Put
<1>2. IF run.step = "commit" THEN run.goal = "commit" ELSE run.goal = "settings"
  BY <1>1 DEF IInv, Control, Runs, Goals
<1>3. /\ plan \in [op : {"create", "replace", "remove"}, orig : SUBSET Plugins]
      /\ decky \in Deckys /\ seen \in Seen
  BY DEF IInv, Typed
<1>4. decky' \in Deckys /\ decky'.up = decky.up /\ decky'.known = decky.known /\ decky'.live = decky.live
  BY <1>1, <1>3 DEF Deckys
<1>5. Typed' /\ Waiting' /\ (Failed => IInv')
  BY <1>1, <1>3, <1>4, CallFacts
<1>6. CASE IF run.step = "commit" THEN Step("later") ELSE Succeeded
  <2>1. /\ Control'
        /\ IF run.step = "commit" THEN run'.goal = "commit" /\ run'.step = "later"
           ELSE run'.goal = "original" /\ run'.step = "set"
        /\ run'.outcome = "unquiesced" => run.outcome = "unquiesced"
    <3>1. CASE run.step = "commit"
      <4>1. /\ run' \in Runs /\ run'.goal = run.goal /\ run'.step = "later"
            /\ run'.outcome = run.outcome /\ run'.failed = run.failed /\ run'.undone = run.undone
        BY <1>6, <3>1, StepFacts DEF IInv
      <4> QED
        BY <4>1, <3>1, <1>2 DEF IInv, Control
    <3>2. CASE run.step # "commit"
      BY <1>2, <1>3, <1>6, <3>2, SucceededFacts DEF IInv, Goals
    <3> QED
      BY <3>1, <3>2
  <2>2. JobsEnd' /\ Quiet' /\ Applied' /\ Undone'
    BY <2>1, <1>1, <1>2 DEF IInv, JobsEnd, Quiet, Applied, Undone, Restarted, Ended, Was
  <2> QED
    BY <1>5, <2>1, <2>2 DEF IInv
<1> QED
  BY <1>1, <1>5, <1>6

(* The rest of the restore ends. *)
LEMMA LaterStep == ASSUME IInv, Later PROVE IInv'
<1> USE DEF Steps, RestartSteps, JobSteps, WaitSteps
<1>1. /\ run.step = "later" /\ UNCHANGED <<plan, conn, decky, jobs, target, confirmed, seen>>
      /\ Calm /\ (Failed \/ Step("end"))
  BY DEF Later
<1>2. run.goal = "commit"
  BY <1>1 DEF IInv, Control, Runs, Goals
<1>3. decky \in Deckys /\ seen \in Seen
  BY DEF IInv, Typed
<1>4. Typed' /\ Waiting' /\ (Failed => IInv')
  BY <1>1, <1>3, CallFacts
<1>5. CASE Step("end")
  <2>1. /\ run' \in Runs /\ run'.goal = run.goal /\ run'.step = "end"
        /\ run'.outcome = run.outcome /\ run'.failed = run.failed /\ run'.undone = run.undone
    BY <1>5, StepFacts DEF IInv
  <2>2. Control'
    BY <2>1, <1>1, <1>2 DEF IInv, Control
  <2>3. JobsEnd' /\ Quiet' /\ Applied' /\ Undone'
    BY <2>1, <1>1, <1>2 DEF IInv, JobsEnd, Quiet, Applied, Undone, Restarted, Ended, Was
  <2> QED
    BY <1>4, <2>2, <2>3 DEF IInv
<1> QED
  BY <1>1, <1>4, <1>5

(* The rollback is compared once more. *)
LEMMA RevalidateStep == ASSUME IInv, Revalidate PROVE IInv'
<1> USE DEF Steps, RestartSteps, JobSteps, WaitSteps
<1>1. /\ run.step = "revalidate" /\ UNCHANGED <<plan, conn, decky, jobs, target, confirmed>>
      /\ Fault \/ Calm
      /\ seen' = [seen EXCEPT !.touched = @ /\ run.step # "inventory"]
      /\ Failed \/ ((decky.up /\ target = Was /\ decky.list = plan.orig)
                    /\ Succeeded)
  BY DEF Revalidate, Read
<1>2. run.goal \in {"revalidate"}
  BY <1>1 DEF IInv, Control, Runs, Goals
<1>3. /\ plan \in [op : {"create", "replace", "remove"}, orig : SUBSET Plugins]
      /\ decky \in Deckys /\ seen \in Seen
  BY DEF IInv, Typed
<1>4. /\ seen' \in Seen /\ seen'.taken = seen.taken /\ seen'.mistaken = seen.mistaken
      /\ seen'.touched = (seen.touched /\ run.step # "inventory")
  BY <1>1, <1>3 DEF Seen
<1>5. Typed' /\ Waiting' /\ (Failed => IInv')
  BY <1>1, <1>3, <1>4, CallFacts
<1>6. CASE (decky.up /\ target = Was /\ decky.list = plan.orig)
           /\ Succeeded
  <2>1. /\ run' \in Runs
        /\ run'.goal = "report" /\ run'.step = "report"
        /\ run'.failed = run.failed /\ run'.undone = run.undone
        /\ run'.outcome = "unquiesced" => run.outcome = "unquiesced"
    BY <1>2, <1>3, <1>6, SucceededFacts DEF IInv, Control, Goals
  <2>2. Control'
    BY <1>2, <1>3, <1>6, SucceededFacts DEF IInv, Goals
  <2>3. JobsEnd'
    BY <2>1, <1>1, <1>2 DEF IInv, JobsEnd
  <2>4. Quiet'
    BY <2>1, <1>1, <1>2, <1>3, <1>4, <1>6 DEF IInv, Quiet
  <2>5. Applied'
    BY <2>1, <1>1, <1>2, <1>3, <1>4, <1>6 DEF IInv, Applied, Result, Wanted
  <2>6. Undone'
    BY <2>1, <1>1, <1>2, <1>3, <1>4, <1>6 DEF IInv, Undone, Restarted, Ended, Was, Known, Undisturbed
  <2> QED
    BY <1>5, <2>2, <2>3, <2>4, <2>5, <2>6 DEF IInv
<1> QED
  BY <1>1, <1>5, <1>6

(* The rollback reports. *)
LEMMA ReportStep == ASSUME IInv, Report PROVE IInv'
<1> USE DEF Steps, RestartSteps, JobSteps, WaitSteps
<1>1. /\ run.step = "report" /\ UNCHANGED <<plan, conn, decky, jobs, target, confirmed, seen>>
      /\ Calm
      /\ run' = [run EXCEPT !.step = "end", !.undone = IF run.failed THEN "failed" ELSE "undone"]
  BY DEF Report
<1>2. run.goal = "report"
  BY <1>1 DEF IInv, Control, Runs, Goals
<1>3. decky \in Deckys /\ seen \in Seen
  BY DEF IInv, Typed
<1>4. Typed' /\ Waiting'
  BY <1>1, <1>3, CallFacts
<1>5. /\ run' \in Runs /\ run'.goal = run.goal /\ run'.step = "end" /\ run'.failed = run.failed
      /\ run'.outcome = run.outcome /\ run'.undone = IF run.failed THEN "failed" ELSE "undone"
  BY <1>1 DEF IInv, Control, Runs
<1>6. Control'
  BY <1>5, <1>2 DEF IInv, Control
<1>7. JobsEnd' /\ Quiet' /\ Applied'
  BY <1>1, <1>2, <1>5 DEF IInv, JobsEnd, Quiet, Applied
<1>8. Undone'
  BY <1>1, <1>2, <1>5 DEF IInv, Undone, Restarted, Ended, Was, Known, Undisturbed
<1> QED
  BY <1>4, <1>6, <1>7, <1>8 DEF IInv

-----------------------------------------------------------------------------
(* Calls that wait *)

(* The wire of a closed connection. *)
LEMMA EmptyWire == <<>> \in Seq(Messages) /\ Len(<<>>) = 0
OBVIOUS

(* How many messages each phase of a job still sends. *)
LEMMA ToComeFacts ==
    /\ ToCome(None) = 0 /\ ToCome("asking") = 2 /\ ToCome("asked") = 1 /\ ToCome("remove") = 2
    /\ ToCome("drop") = 1 /\ ToCome("unpack") = 2 /\ ToCome("load") = 2 /\ ToCome("answer") = 1
    /\ \A phase \in Phases : ToCome(phase) \in 0 .. 2
BY DEF ToCome, Phases, None

(* What is left on the wire when a message was taken off. *)
LEMMA TailFacts ==
    ASSUME NEW wire \in Seq(Messages), wire # <<>>
    PROVE  /\ Tail(wire) \in Seq(Messages) /\ Len(wire) \in Nat /\ Len(wire) >= 1
           /\ Len(Tail(wire)) = Len(wire) - 1 /\ Head(wire) = wire[1] /\ wire[1] \in Messages
           /\ \A i \in 1 .. Len(Tail(wire)) : i + 1 \in 1 .. Len(wire) /\ Tail(wire)[i] = wire[i + 1]
OBVIOUS

(* A message is put on the wire. *)
LEMMA AppendFacts ==
    ASSUME NEW wire \in Seq(Messages), NEW message \in Messages
    PROVE  /\ Append(wire, message) \in Seq(Messages) /\ Len(wire) \in Nat
           /\ Len(Append(wire, message)) = Len(wire) + 1
           /\ \A i \in 1 .. Len(wire) : Append(wire, message)[i] = wire[i]
           /\ Append(wire, message)[Len(wire) + 1] = message
OBVIOUS

(* A call that is given up leaves its job, and nothing on the wire. *)
LEMMA LostCall ==
    ASSUME IInv, Failed, run.step \in JobSteps, conn' = Closed,
           UNCHANGED <<plan, decky, target, seen>>,
           jobs' = jobs \/ (decky.up /\ jobs' \in [{"action", "rollback"} -> Phases]),
           confirmed' \subseteq {"own"}, Fault \/ Calm
    PROVE  IInv'
<1> USE DEF Steps, RestartSteps, JobSteps, WaitSteps
<1>1. run.goal \in {"change", "undo"}
  BY DEF IInv, Control, Runs, Goals
<1>2. conn \in Conns /\ ~conn.offline /\ jobs \in [{"action", "rollback"} -> Phases]
  BY DEF IInv, Typed, Waiting
<1>3. conn' \in Conns /\ Idle' /\ ~conn'.offline
  BY <1>2, EmptyWire DEF Conns, Idle, Closed
<1>4. Typed' /\ Waiting'
  BY <1>2, <1>3, BudgetFacts DEF IInv, Typed, Left, Waiting, Loaded
<1> QED
  BY <1>1, <1>4, AfterFailure DEF IInv

(* A call that Decky has is waited for. *)
LEMMA Sent ==
    ASSUME IInv, NEW phase \in {"asking", "drop"}, NEW s \in {"prompt", "await"},
           phase = "asking" \/ s = "await",
           run.step \in {"request", "uninstall"}, decky.up,
           jobs' = [jobs EXCEPT ![Job] = phase], conn' = [conn EXCEPT !.of = Job], Step(s), Calm,
           UNCHANGED <<plan, decky, target, seen, confirmed>>
    PROVE  IInv'
<1> USE DEF Steps, RestartSteps, JobSteps, WaitSteps
<1>1. run.goal \in {"change", "undo"}
  BY DEF IInv, Control, Runs, Goals
<1>2. /\ conn \in Conns /\ ~conn.offline /\ Idle /\ jobs \in [{"action", "rollback"} -> Phases]
      /\ left \in Left
  BY DEF IInv, Typed, Waiting, Waits, Left
<1>3. /\ run' \in Runs /\ run'.goal = run.goal /\ run'.step = s
      /\ run'.outcome = run.outcome /\ run'.failed = run.failed /\ run'.undone = run.undone
  BY StepFacts DEF IInv
<1>4. Job' = Job /\ Job \in {"action", "rollback"}
  BY <1>3 DEF Job
<1>5. /\ conn' \in Conns /\ conn'.of = Job /\ conn'.wire = <<>> /\ conn'.prompt = None /\ ~conn'.offline
      /\ jobs' \in [{"action", "rollback"} -> Phases] /\ jobs'[Job] = phase
      /\ \A job \in {"action", "rollback"} : job # Job => jobs'[job] = jobs[job]
  BY <1>2, <1>4 DEF Conns, Idle, Phases
<1>6. Typed'
  BY <1>5 DEF IInv, Typed, Calm
<1>7. Control'
  BY <1>1, <1>3 DEF IInv, Control
<1>8. Waiting'
  <2>1. Len(conn'.wire) + ToCome(jobs'[Job]) <= 2
    BY <1>5, ToComeFacts, EmptyWire
  <2>2. Expected' = 2 /\ MaxChanges - left.changes >= 0
    BY <1>2, <1>3, <1>5, InstallAssumption DEF Expected, Left
  <2>3. Waits'
    <3>1. left' = left /\ left.changes \in 0 .. MaxChanges /\ Job'= Job
      BY <1>2, <1>4 DEF Left, Calm
    <3>2. Len(conn'.wire) + ToCome(jobs'[Job]) <= Expected' + MaxChanges - left'.changes
      BY <2>1, <2>2, <3>1, <1>5, ToComeFacts, EmptyWire, InstallAssumption
    <3>3. \A i \in 1 .. Len(conn'.wire) : FALSE
      BY <1>5, EmptyWire
    <3> QED
      BY <3>1, <3>2, <3>3, <1>3, <1>5 DEF Waits
  <2> QED
    BY <2>3, <1>5 DEF IInv, Waiting, Loaded
<1>9. JobsEnd'
  BY <1>1, <1>3, <1>5 DEF IInv, JobsEnd, Control, Job
<1>10. Quiet' /\ Applied' /\ Undone'
  BY <1>1, <1>3 DEF IInv, Control, Quiet, Applied, Undone, Restarted, Ended
<1> QED
  BY <1>6, <1>7, <1>8, <1>9, <1>10 DEF IInv

(* The installation is requested. *)
LEMMA RequestStep == ASSUME IInv, Request PROVE IInv'
<1>1. confirmed \subseteq {"own"} /\ jobs \in [{"action", "rollback"} -> Phases]
  BY DEF IInv, Typed
<1>2. [jobs EXCEPT ![Job] = "asking"] \in [{"action", "rollback"} -> Phases]
  BY <1>1 DEF Phases
<1>3. CASE Failed
  BY <1>1, <1>2, <1>3, LostCall, Sent DEF Request, Send, JobSteps
<1> QED
  BY <1>1, <1>2, <1>3, Sent DEF Request, Send

(* The removal is requested. *)
LEMMA UninstallStep == ASSUME IInv, Uninstall PROVE IInv'
<1>1. confirmed \subseteq {"own"} /\ jobs \in [{"action", "rollback"} -> Phases]
  BY DEF IInv, Typed
<1>2. [jobs EXCEPT ![Job] = "drop"] \in [{"action", "rollback"} -> Phases]
  BY <1>1 DEF Phases
<1>3. CASE Failed
  BY <1>1, <1>2, <1>3, LostCall, Sent DEF Uninstall, Send, JobSteps
<1> QED
  BY <1>1, <1>2, <1>3, Sent DEF Uninstall, Send

(* A message that is received is one of the waiting call's. *)
LEMMA ReceivedFacts ==
    ASSUME IInv, NEW message, Receive(message)
    PROVE  /\ Waits /\ conn \in Conns /\ left \in Left /\ jobs \in [{"action", "rollback"} -> Phases]
           /\ Job \in {"action", "rollback"}
           /\ Rest \in Conns /\ Rest.of = Job /\ Rest.prompt = conn.prompt /\ Rest.finished = conn.finished
           /\ Rest.offline = conn.offline /\ Rest.wire = Tail(conn.wire)
           /\ message = "reply" => jobs[Job] = None
<1>1. /\ conn \in Conns /\ left \in Left /\ jobs \in [{"action", "rollback"} -> Phases]
      /\ conn.of = Job /\ conn.wire # <<>> /\ Head(conn.wire) = message
  BY DEF IInv, Typed, Receive, Left
<1>2. Job \in {"action", "rollback"}
  BY DEF Job
<1>3. Waits
  BY <1>1, <1>2 DEF IInv, Waiting, Idle, None
<1>4. conn.wire \in Seq(Messages)
  BY <1>1 DEF Conns
<1>5. /\ Rest \in Conns /\ Rest.of = Job /\ Rest.prompt = conn.prompt /\ Rest.finished = conn.finished
      /\ Rest.offline = conn.offline /\ Rest.wire = Tail(conn.wire)
  <2>1. Tail(conn.wire) \in Seq(Messages)
    BY <1>1, <1>4, TailFacts
  <2> QED
    BY <2>1, <1>1 DEF Conns, Rest
<1>6. message = "reply" => jobs[Job] = None
  BY <1>1, <1>3, <1>4, TailFacts DEF Waits
<1> QED
  BY <1>1, <1>2, <1>3, <1>5, <1>6

(* A call that took a message waits on. *)
LEMMA Heard ==
    ASSUME IInv, NEW message, Receive(message), run.step \in {"prompt", "await"},
           conn' \in Conns, conn'.of = Job, conn'.wire = Rest.wire, conn'.offline = conn.offline,
           Control', run'.goal = run.goal, run'.step \in WaitSteps, run'.outcome = run.outcome,
           Expected \in Nat, Expected' \in Nat, Expected' >= Expected - 1,
           run'.step = "confirm" => message = "reply"
    PROVE  IInv'
<1> USE DEF WaitSteps
<1>1. UNCHANGED <<plan, decky, jobs, target, confirmed, seen, left>>
  BY DEF Receive, Calm
<1>2. /\ Waits /\ conn \in Conns /\ left \in Left /\ jobs \in [{"action", "rollback"} -> Phases]
      /\ Job \in {"action", "rollback"} /\ conn'.wire = Tail(conn.wire)
      /\ message = "reply" => jobs[Job] = None
  BY ReceivedFacts
<1>3. Job' = Job
  BY DEF Job
<1>4. conn.wire \in Seq(Messages) /\ conn.wire # <<>> /\ Head(conn.wire) = message
  BY <1>2 DEF Conns, Receive
<1>5. Typed'
  BY <1>1 DEF IInv, Typed
<1>6. Waiting'
  <2>1. Len(conn'.wire) = Len(conn.wire) - 1 /\ Len(conn.wire) \in Nat
    BY <1>2, <1>4, TailFacts
  <2>2. ToCome(jobs[Job]) \in 0 .. 2
    BY <1>2, ToComeFacts
  <2>3. Len(conn'.wire) + ToCome(jobs'[Job']) <= Expected' + MaxChanges - left'.changes
    <3>1. Len(conn.wire) + ToCome(jobs[Job]) <= Expected + MaxChanges - left.changes
      BY <1>2 DEF Waits
    <3>2. left.changes \in Nat
      BY <1>2, InstallAssumption DEF Left
    <3>3. Len(conn'.wire) + ToCome(jobs[Job]) <= Expected' + MaxChanges - left.changes
      BY <2>1, <2>2, <3>1, <3>2, InstallAssumption
    <3> QED
      BY <3>3, <1>1, <1>3
  <2>4. \A i \in 1 .. Len(conn'.wire) : i + 1 \in 1 .. Len(conn.wire) /\ conn'.wire[i] = conn.wire[i + 1]
    BY <1>2, <1>4, TailFacts
  <2>5. \A i \in 1 .. Len(conn'.wire) : conn'.wire[i] = "reply" => jobs[Job] = None
    BY <2>4, <1>2 DEF Waits
  <2>6. \A i, j \in 1 .. Len(conn'.wire) : conn'.wire[i] = "reply" /\ conn'.wire[j] = "reply" => i = j
    BY <2>4, <2>1, <1>2 DEF Waits
  <2>7. run'.step = "confirm" => jobs[Job] = None /\ \A i \in 1 .. Len(conn'.wire) : conn'.wire[i] # "reply"
    <3>1. SUFFICES ASSUME message = "reply", NEW i \in 1 .. Len(conn'.wire), conn'.wire[i] = "reply" PROVE FALSE
      BY <1>2
    <3>2. 1 \in 1 .. Len(conn.wire) /\ conn.wire[1] = "reply"
      BY <3>1, <1>4, TailFacts
    <3>3. i + 1 = 1
      BY <3>1, <3>2, <2>4, <1>2 DEF Waits
    <3> QED
      BY <3>3
  <2>8. Waits'
    BY <2>3, <2>5, <2>6, <2>7, <1>1, <1>2, <1>3 DEF Waits
  <2> QED
    BY <2>8, <1>1 DEF IInv, Waiting, Loaded
<1>7. JobsEnd'
  BY <1>1, <1>2 DEF IInv, JobsEnd, Job
<1>8. Quiet' /\ Applied' /\ Undone'
  <2>1. run.goal \in {"change", "undo"}
    BY DEF IInv, Control, Runs, Goals, RestartSteps
  <2> QED
    BY <2>1, <1>1 DEF IInv, Quiet, Applied, Undone, Restarted, Ended, Was
<1> QED
  BY <1>5, <1>6, <1>7, <1>8 DEF IInv

(* The prompt, and the reply to the request, arrive. *)
LEMMA PromptStep == ASSUME IInv, Prompt PROVE IInv'
<1> USE DEF Steps, RestartSteps, JobSteps, WaitSteps
<1>1. PICK message \in {"own", "theirs", "theirsFinished", "reply"} :
        /\ run.step = "prompt" /\ Receive(message)
        /\ \/ message = "own" /\ conn.prompt = None
              /\ conn' = [Rest EXCEPT !.prompt = message] /\ run' = run
           \/ message = "reply" /\ conn.prompt # None /\ conn' = Rest /\ Step("confirm")
           \/ conn' = Closed /\ Failed
  BY DEF Prompt
<1>2. /\ conn \in Conns /\ Rest \in Conns /\ Rest.of = Job /\ Rest.prompt = conn.prompt
      /\ Rest.offline = conn.offline /\ Control
  BY <1>1, ReceivedFacts DEF IInv
<1>3. CASE message = "own" /\ conn.prompt = None /\ conn' = [Rest EXCEPT !.prompt = message] /\ run' = run
  <2>1. /\ conn' \in Conns /\ conn'.of = Job /\ conn'.wire = Rest.wire /\ conn'.prompt = "own"
        /\ conn'.offline = conn.offline
    BY <1>2, <1>3 DEF Conns
  <2>2. Control' /\ Expected = 2 /\ Expected' = 1
    BY <2>1, <1>1, <1>2, <1>3 DEF Expected, Control, None
  <2> QED
    BY <2>1, <2>2, <1>1, <1>3, Heard
<1>4. CASE message = "reply" /\ conn.prompt # None /\ conn' = Rest /\ Step("confirm")
  <2>1. /\ run' \in Runs /\ run'.goal = run.goal /\ run'.step = "confirm"
        /\ run'.outcome = run.outcome /\ run'.failed = run.failed /\ run'.undone = run.undone
    BY <1>2, <1>4, StepFacts
  <2>2. Control'
    BY <2>1, <1>1, <1>2 DEF Control, Runs, Goals
  <2>3. Expected = 1 /\ Expected' = 0
    BY <2>1, <1>1, <1>4 DEF Expected
  <2> QED
    BY <2>1, <2>2, <2>3, <1>1, <1>2, <1>4, Heard
<1>5. CASE conn' = Closed /\ Failed
  <2>1. /\ UNCHANGED <<plan, decky, jobs, target, confirmed, seen>> /\ Calm /\ confirmed \subseteq {"own"}
    BY <1>1 DEF Receive, IInv, Typed
  <2> QED
    BY <2>1, <1>1, <1>5, LostCall
<1> QED
  BY <1>1, <1>3, <1>4, <1>5

(* The prompt is confirmed. *)
LEMMA ConfirmStep == ASSUME IInv, Confirm PROVE IInv'
<1> USE DEF Steps, RestartSteps, JobSteps, WaitSteps
<1>1. /\ conn \in Conns /\ jobs \in [{"action", "rollback"} -> Phases] /\ confirmed \subseteq {"own"}
      /\ left \in Left /\ Job \in {"action", "rollback"} /\ Control /\ ~conn.offline
  BY DEF IInv, Typed, Left, Job, Waiting, Confirm
<1>2. [jobs EXCEPT ![Job] = "remove"] \in [{"action", "rollback"} -> Phases]
  BY <1>1 DEF Phases
<1>3. confirmed' \subseteq {"own"} /\ run.step = "confirm" /\ UNCHANGED <<plan, decky, target, seen>>
  BY <1>1 DEF Confirm, Send, Conns
<1>4. conn.of = Job => Waits
  BY <1>1 DEF IInv, Waiting, Idle, None
<1>5. CASE /\ Failed /\ conn' = Closed /\ (Fault \/ Calm)
           /\ jobs' = jobs \/ (conn.of = Job /\ jobs' = [jobs EXCEPT ![Job] = "remove"])
  BY <1>1, <1>2, <1>3, <1>4, <1>5, LostCall DEF Waits
<1>6. CASE conn.of = Job /\ jobs' = [jobs EXCEPT ![Job] = "remove"] /\ Calm
           /\ conn' = [conn EXCEPT !.of = Job] /\ Step("await")
  <2>1. /\ run' \in Runs /\ run'.goal = run.goal /\ run'.step = "await"
        /\ run'.outcome = run.outcome /\ run'.failed = run.failed /\ run'.undone = run.undone
    BY <1>1, <1>6, StepFacts
  <2>2. run.goal \in {"change", "undo"}
    BY <1>1, <1>3 DEF Control, Runs, Goals
  <2>3. Control'
    BY <2>1, <2>2, <1>1, <1>3 DEF Control
  <2>4. conn' = conn /\ Job' = Job /\ left' = left
    BY <2>1, <1>1, <1>6 DEF Conns, Job, Calm
  <2>5. jobs'[Job] = "remove" /\ \A job \in {"action", "rollback"} : job # Job => jobs'[job] = jobs[job]
    BY <1>1, <1>6
  <2>6. Typed'
    BY <2>4, <1>2, <1>3, <1>6 DEF IInv, Typed
  <2>7. Waiting'
    <3>1. Len(conn.wire) \in Nat
      BY <1>1 DEF Conns
    <3>2. Expected = 0 /\ Expected' = 2
      BY <2>1, <1>3 DEF Expected
    <3>3. Len(conn.wire) + ToCome(jobs[Job]) <= MaxChanges - left.changes /\ jobs[Job] = None
      BY <3>1, <3>2, <1>1, <1>3, <1>4, <1>6, ToComeFacts, InstallAssumption DEF Waits, Left
    <3>4. Len(conn.wire) + ToCome(jobs'[Job]) <= Expected' + MaxChanges - left.changes
      BY <3>1, <3>2, <3>3, <2>5, <1>1, ToComeFacts, InstallAssumption DEF Left
    <3>5. \A i \in 1 .. Len(conn.wire) : conn.wire[i] # "reply"
      BY <1>3, <1>4, <1>6 DEF Waits
    <3>6. Waits'
      BY <3>4, <3>5, <2>1, <2>4, <1>3, <1>4, <1>6 DEF Waits
    <3> QED
      BY <3>6, <2>1, <2>4, <1>1, <1>3, <1>4, <1>6 DEF IInv, Waiting, Loaded, Waits
  <2>8. JobsEnd'
    BY <2>1, <2>2, <2>5, <1>1 DEF IInv, JobsEnd, Job, Control
  <2>9. Quiet' /\ Applied' /\ Undone'
    BY <2>1, <2>2, <1>1, <1>3 DEF IInv, Control, Quiet, Applied, Undone, Restarted, Ended, Was
  <2> QED
    BY <2>3, <2>6, <2>7, <2>8, <2>9 DEF IInv
<1>7. \/ /\ Failed /\ conn' = Closed /\ (Fault \/ Calm)
         /\ jobs' = jobs \/ (conn.of = Job /\ jobs' = [jobs EXCEPT ![Job] = "remove"])
      \/ conn.of = Job /\ jobs' = [jobs EXCEPT ![Job] = "remove"] /\ Calm
           /\ conn' = [conn EXCEPT !.of = Job] /\ Step("await")
  BY DEF Confirm, Send
<1> QED
  BY <1>5, <1>6, <1>7

(* The messages of the job arrive. *)
LEMMA AwaitStep == ASSUME IInv, Await PROVE IInv'
<1> USE DEF Steps, RestartSteps, JobSteps, WaitSteps
<1>1. PICK message \in {"theirs", "theirsFinished", "finished", "reply", "error"} :
        /\ run.step = "await" /\ Receive(message)
        /\ \/ conn' \in {Rest, [Rest EXCEPT !.finished = TRUE]} /\ run' = run
           \/ message = "reply" /\ conn' = Closed /\ Step("inspect")
           \/ conn' = Closed /\ Failed
  BY DEF Await
<1>2. /\ conn \in Conns /\ Rest \in Conns /\ Rest.of = Job /\ Rest.offline = conn.offline /\ Control
      /\ message = "reply" => jobs[Job] = None
  BY <1>1, ReceivedFacts DEF IInv
<1>3. UNCHANGED <<plan, decky, jobs, target, confirmed, seen>> /\ Calm /\ confirmed \subseteq {"own"}
  BY <1>1 DEF Receive, IInv, Typed
<1>4. CASE conn' \in {Rest, [Rest EXCEPT !.finished = TRUE]} /\ run' = run
  <2>1. /\ conn' \in Conns /\ conn'.of = Job /\ conn'.wire = Rest.wire /\ conn'.offline = conn.offline
    BY <1>2, <1>4 DEF Conns
  <2>2. Control' /\ Expected = 2 /\ Expected' = 2
    BY <1>1, <1>2, <1>4 DEF Expected, Control
  <2> QED
    BY <2>1, <2>2, <1>1, <1>4, Heard
<1>5. CASE message = "reply" /\ conn' = Closed /\ Step("inspect")
  <2>1. /\ run' \in Runs /\ run'.goal = run.goal /\ run'.step = "inspect"
        /\ run'.outcome = run.outcome /\ run'.failed = run.failed /\ run'.undone = run.undone
    BY <1>2, <1>5, StepFacts
  <2>2. run.goal \in {"change", "undo"}
    BY <1>1 DEF IInv, Control, Runs, Goals
  <2>3. Control'
    BY <2>1, <2>2, <1>1, <1>2 DEF Control
  <2>4. conn' \in Conns /\ Idle' /\ ~conn'.offline
    BY <1>1, <1>2, <1>5, EmptyWire DEF Conns, Idle, Closed, IInv, Waiting
  <2>5. Typed' /\ Waiting'
    BY <2>4, <1>3, BudgetFacts DEF IInv, Typed, Left, Waiting, Loaded
  <2>6. JobsEnd'
    BY <2>1, <2>2, <1>2, <1>3, <1>5 DEF IInv, JobsEnd, Job
  <2>7. Quiet' /\ Applied' /\ Undone'
    BY <2>1, <2>2, <1>1, <1>3 DEF IInv, Quiet, Applied, Undone, Restarted, Ended, Was
  <2> QED
    BY <2>3, <2>5, <2>6, <2>7 DEF IInv
<1>6. CASE conn' = Closed /\ Failed
  BY <1>1, <1>3, <1>6, LostCall
<1> QED
  BY <1>1, <1>4, <1>5, <1>6

(* The wait is given up. *)
LEMMA GiveUpStep == ASSUME IInv, GiveUp PROVE IInv'
<1>1. confirmed \subseteq {"own"}
  BY DEF IInv, Typed
<1> QED
  BY <1>1, LostCall DEF GiveUp, JobSteps

-----------------------------------------------------------------------------
(* Decky *)

(* Only an action under way or a rollback leaves a job to Decky. *)
LEMMA WorkFacts ==
    ASSUME IInv, NEW job \in {"action", "rollback"}, jobs[job] # None
    PROVE  /\ decky.up /\ run.step \notin {"commit"} /\ run.outcome # "unquiesced"
           /\ run.goal \notin {"quiesce", "keep", "sync", "commit"}
           /\ ~(~run.failed /\ ~seen.mistaken /\ (Restarted \/ run.goal \in Ended))
           /\ Job = job => run.step # "confirm" \/ Idle
<1>1. decky.up
  BY DEF IInv, Waiting, Loaded
<1>2. run.goal \notin {"quiesce", "keep", "sync", "commit"} /\ run.outcome # "unquiesced"
  BY DEF IInv, JobsEnd
<1>3. run.step # "commit"
  BY <1>2 DEF IInv, Control, Runs, Goals, RestartSteps, JobSteps
<1>4. ~(~run.failed /\ ~seen.mistaken /\ (Restarted \/ run.goal \in Ended))
  BY DEF IInv, Undone
<1>5. Job = job => run.step # "confirm" \/ Idle
  BY DEF IInv, Waiting, Waits
<1> QED
  BY <1>1, <1>2, <1>3, <1>4, <1>5

(* What Decky does for a job moves nothing of the other plugin. *)
LEMMA WorkStep ==
    ASSUME IInv, NEW job \in {"action", "rollback"}, jobs[job] # None, NEW phase \in Phases,
           jobs' = [jobs EXCEPT ![job] = phase],
           UNCHANGED <<plan, run, confirmed, seen>>, Fault \/ Calm,
           conn' \in Conns, conn'.offline = conn.offline, Idle' \/ Waits',
           target' \in Trees, decky' \in Deckys, decky'.up = decky.up,
           decky.live \subseteq decky.known => decky'.live \subseteq decky'.known,
           "other" \in decky'.live <=> "other" \in decky.live,
           "other" \in decky'.list <=> "other" \in decky.list
    PROVE  IInv'
<1>1. jobs \in [{"action", "rollback"} -> Phases] /\ jobs' \in [{"action", "rollback"} -> Phases]
  BY DEF IInv, Typed
<1>2. jobs'[job] = phase /\ \A other \in {"action", "rollback"} : other # job => jobs'[other] = jobs[other]
  BY <1>1
<1>3. Typed' /\ Control'
  BY <1>1, BudgetFacts DEF IInv, Typed, Left, Control
<1>4. Waiting'
  BY <1>1, <1>2, WorkFacts DEF IInv, Waiting, Loaded
<1>5. JobsEnd'
  BY <1>2 DEF IInv, JobsEnd
<1>6. Quiet' /\ Applied'
  BY WorkFacts DEF IInv, Quiet, Applied
<1>7. Undone'
  <2>1. ~(~run'.failed /\ ~seen'.mistaken /\ (Restarted' \/ run'.goal \in Ended))
    BY WorkFacts DEF Restarted
  <2>2. run'.goal # "quiesce" /\ run'.outcome # "unquiesced"
    BY WorkFacts
  <2> QED
    BY <2>1, <2>2 DEF Undone, Undisturbed, Restarted, Ended
<1> QED
  BY <1>3, <1>4, <1>5, <1>6, <1>7 DEF IInv

(* A job goes on without a message. *)
LEMMA SilentFacts ==
    ASSUME IInv, NEW job \in {"action", "rollback"}, jobs[job] # None, NEW phase \in Phases,
           ToCome(phase) <= ToCome(jobs[job]), jobs' = [jobs EXCEPT ![job] = phase],
           conn' = conn, run' = run, left'.changes = left.changes
    PROVE  conn' \in Conns /\ conn'.offline = conn.offline /\ (Idle' \/ Waits' \/ ~decky'.up)
<1>1. /\ conn \in Conns /\ jobs \in [{"action", "rollback"} -> Phases] /\ left \in Left
      /\ Idle \/ Waits
  BY DEF IInv, Typed, Left, Waiting
<1>2. CASE Idle
  BY <1>1, <1>2 DEF Idle
<1>3. CASE Waits /\ decky'.up
  <2>1. Job' = Job /\ Job \in {"action", "rollback"} /\ Expected' = Expected
    BY DEF Job, Expected
  <2>2. jobs'[job] = phase /\ \A other \in {"action", "rollback"} : other # job => jobs'[other] = jobs[other]
    BY <1>1
  <2>3. ToCome(jobs'[Job]) <= ToCome(jobs[Job]) /\ ToCome(jobs'[Job]) \in 0 .. 2 /\ ToCome(jobs[Job]) \in 0 .. 2
    BY <2>1, <2>2, <1>1, ToComeFacts
  <2>4. Len(conn.wire) \in Nat /\ Expected \in Nat /\ left.changes \in Nat
    BY <1>1, InstallAssumption DEF Conns, Expected, Left
  <2>5. Len(conn.wire) + ToCome(jobs'[Job]) <= Expected + MaxChanges - left.changes
    BY <2>3, <2>4, <1>3, InstallAssumption DEF Waits
  <2>6. jobs[Job] = None => jobs'[Job] = None
    BY <2>1, <2>2
  <2> QED
    BY <2>1, <2>5, <2>6, <1>1, <1>3 DEF Waits
<1> QED
  BY <1>1, <1>2, <1>3

(* A job tells the call that waits for it. *)
LEMMA TellFacts ==
    ASSUME IInv, NEW job \in {"action", "rollback"}, jobs[job] # None, NEW phase \in Phases,
           ToCome(phase) + 1 <= ToCome(jobs[job]), jobs' = [jobs EXCEPT ![job] = phase],
           NEW message \in Messages, message = "reply" => phase = None,
           Tell(job, message), run' = run, left'.changes = left.changes, decky'.up = decky.up
    PROVE  conn' \in Conns /\ conn'.offline = conn.offline /\ (Idle' \/ Waits')
<1>1. /\ conn \in Conns /\ jobs \in [{"action", "rollback"} -> Phases] /\ left \in Left
      /\ Idle \/ Waits
  BY DEF IInv, Typed, Left, Waiting
<1>2. ToCome(phase) \in 0 .. 2 /\ ToCome(jobs[job]) \in 0 .. 2
  BY <1>1, ToComeFacts
<1>3. CASE conn.of # job
  <2>1. conn' = conn
    BY <1>3 DEF Tell
  <2>2. ToCome(phase) <= ToCome(jobs[job])
    BY <1>2
  <2>3. decky'.up
    BY WorkFacts
  <2> QED
    BY <2>1, <2>2, <2>3, SilentFacts
<1>4. CASE conn.of = job
  <2>1. Waits /\ Job = job /\ decky.up
    BY <1>1, <1>4 DEF Idle, Waits, None
  <2>2. conn.wire \in Seq(Messages)
    BY <1>1 DEF Conns
  <2>3. /\ conn' \in Conns /\ conn'.of = job /\ conn'.prompt = conn.prompt /\ conn'.offline = conn.offline
        /\ conn'.wire = Append(conn.wire, message)
    <3>1. Append(conn.wire, message) \in Seq(Messages)
      BY <2>2, AppendFacts
    <3> QED
      BY <3>1, <1>1, <1>4 DEF Conns, Tell
  <2>4. Job' = Job /\ Expected' = Expected /\ jobs'[job] = phase
    BY <2>3, <1>1 DEF Job, Expected
  <2>5. Len(conn'.wire) = Len(conn.wire) + 1 /\ Len(conn.wire) \in Nat
    BY <2>2, <2>3, AppendFacts
  <2>6. Len(conn'.wire) + ToCome(jobs'[Job]) <= Expected' + MaxChanges - left'.changes
    <3>1. Expected \in Nat /\ left.changes \in Nat
      BY <1>1, InstallAssumption DEF Expected, Left
    <3>2. Len(conn.wire) + ToCome(jobs[job]) <= Expected + MaxChanges - left.changes
      BY <2>1 DEF Waits
    <3>3. Len(conn.wire) + 1 + ToCome(phase) <= Expected + MaxChanges - left.changes
      BY <3>1, <3>2, <2>5, <1>2, InstallAssumption
    <3> QED
      BY <3>3, <2>1, <2>4, <2>5
  <2>7. \A i \in 1 .. Len(conn'.wire) :
            IF i = Len(conn.wire) + 1 THEN conn'.wire[i] = message
            ELSE i \in 1 .. Len(conn.wire) /\ conn'.wire[i] = conn.wire[i] /\ conn.wire[i] # "reply"
    <3>1. \A i \in 1 .. Len(conn.wire) : conn.wire[i] # "reply"
      BY <2>1 DEF Waits
    <3> QED
      BY <3>1, <2>2, <2>3, <2>5, AppendFacts
  <2>8. run.step # "confirm"
    BY <2>1 DEF Waits
  <2>9. \A i \in 1 .. Len(conn'.wire) : conn'.wire[i] = "reply" => i = Len(conn.wire) + 1 /\ phase = None
    BY <2>7
  <2>10. Waits'
    <3>1. conn'.of = Job' /\ run'.step \in WaitSteps /\ decky'.up
      BY <2>1, <2>3, <2>4 DEF Waits
    <3>2. \A i \in 1 .. Len(conn'.wire) : conn'.wire[i] = "reply" => jobs'[Job'] = None /\ run'.step # "confirm"
      BY <2>9, <2>8, <2>4, <2>1
    <3>3. \A i, j \in 1 .. Len(conn'.wire) : conn'.wire[i] = "reply" /\ conn'.wire[j] = "reply" => i = j
      BY <2>9
    <3>4. run'.step # "confirm"
      BY <2>8
    <3> QED
      BY <3>1, <3>2, <3>3, <3>4, <2>4, <2>6 DEF Waits
  <2> QED
    BY <2>3, <2>10
<1> QED
  BY <1>3, <1>4

(* Decky prompts, or replies. *)
LEMMA PromptsStep == ASSUME IInv, NEW job \in {"action", "rollback"}, Prompts(job),
                            UNCHANGED <<plan, run, confirmed, seen>> PROVE IInv'
<1>1. /\ UNCHANGED <<decky, target>> /\ Calm
      /\ decky \in Deckys /\ target \in Trees /\ left \in Left
  BY DEF IInv, Typed, Prompts, Phase, Left
<1>2. ASSUME NEW from \in {"asking", "asked", "answer"}, NEW phase \in {"asked", None},
             from = "asking" \/ phase = None, NEW message \in {"own", "reply"}, message = "reply" => phase = None,
             Phase(job, from, phase), Tell(job, message)
      PROVE  IInv'
  <2>1. /\ jobs[job] = from /\ jobs[job] # None /\ jobs' = [jobs EXCEPT ![job] = phase]
        /\ phase \in Phases /\ message \in Messages
    BY <1>2 DEF Phase, Phases, Messages, None
  <2>2. ToCome(phase) + 1 <= ToCome(jobs[job])
    BY <1>2, <2>1, ToComeFacts
  <2>3. conn' \in Conns /\ conn'.offline = conn.offline /\ (Idle' \/ Waits')
    BY <1>1, <1>2, <2>1, <2>2, TellFacts DEF Calm
  <2> QED
    BY <1>1, <2>1, <2>3, WorkStep
<1>3. CASE Phase(job, "asking", "asked") /\ Tell(job, "own")
  BY <1>2, <1>3
<1>4. CASE Phase(job, "asked", None) /\ Tell(job, "reply")
  BY <1>2, <1>4
<1>5. CASE Phase(job, "answer", None) /\ Tell(job, "reply")
  BY <1>2, <1>5
<1> QED
  BY <1>3, <1>4, <1>5 DEF Prompts

(* Decky removes the tree. *)
LEMMA RemovesStep == ASSUME IInv, NEW job \in {"action", "rollback"}, Removes(job),
                            UNCHANGED <<plan, run, confirmed, seen>> PROVE IInv'
<1>1. /\ decky \in Deckys /\ left \in Left /\ jobs \in [{"action", "rollback"} -> Phases]
  BY DEF IInv, Typed, Left
<1>2. PICK phase \in {"unpack", "answer"} :
        /\ jobs[job] = IF phase = "unpack" THEN "remove" ELSE "drop"
        /\ jobs' = [jobs EXCEPT ![job] = phase] /\ Calm
  BY DEF Removes, Phase
<1>3. phase \in Phases /\ jobs[job] # None /\ ToCome(phase) <= ToCome(jobs[job])
  BY <1>2, ToComeFacts DEF Phases, None
<1>4. /\ conn' = conn /\ target' \in Trees
      /\ decky' \in Deckys /\ decky'.up = decky.up
      /\ decky.live \subseteq decky.known => decky'.live \subseteq decky'.known
      /\ "other" \in decky'.live <=> "other" \in decky.live
      /\ "other" \in decky'.list <=> "other" \in decky.list
  <2>1. PICK list \in {decky.list, decky.list \ {"this"}} :
          decky' = [decky EXCEPT !.list = list, !.known = @ \ {"this"}, !.live = @ \ {"this"}]
    BY DEF Removes, Gone
  <2> QED
    BY <1>1, <2>1 DEF Removes, Gone, Deckys, Trees
<1>5. conn' \in Conns /\ conn'.offline = conn.offline /\ (Idle' \/ Waits')
  BY <1>1, <1>2, <1>3, <1>4, SilentFacts, WorkFacts DEF Calm
<1> QED
  BY <1>2, <1>3, <1>4, <1>5, WorkStep

(* Decky unpacks the new tree. *)
LEMMA UnpacksStep == ASSUME IInv, NEW job \in {"action", "rollback"}, Unpacks(job),
                            UNCHANGED <<plan, run, confirmed, seen>> PROVE IInv'
<1>1. /\ jobs[job] = "unpack" /\ jobs' = [jobs EXCEPT ![job] = "load"] /\ Calm
      /\ conn' = conn /\ decky' = decky /\ target' \in Trees /\ decky \in Deckys
  BY DEF Unpacks, Phase, Trees, IInv, Typed
<1>2. "load" \in Phases /\ jobs[job] # None /\ ToCome("load") <= ToCome(jobs[job])
  BY <1>1, ToComeFacts DEF Phases, None
<1>3. conn' \in Conns /\ conn'.offline = conn.offline /\ (Idle' \/ Waits')
  BY <1>1, <1>2, SilentFacts, WorkFacts DEF Calm
<1> QED
  BY <1>1, <1>2, <1>3, WorkStep

(* Decky loads the plugin. *)
LEMMA LoadsStep == ASSUME IInv, NEW job \in {"action", "rollback"}, Loads(job),
                          UNCHANGED <<plan, run, confirmed, seen>> PROVE IInv'
<1>1. /\ jobs[job] = "load" /\ jobs' = [jobs EXCEPT ![job] = "answer"] /\ Calm
      /\ Tell(job, "finished") /\ decky \in Deckys
      /\ decky' = [decky EXCEPT !.known = Plugins, !.live = @ \cup ({"this"} \ decky.list)]
  BY DEF Loads, Phase, IInv, Typed
<1>2. /\ "answer" \in Phases /\ "finished" \in Messages /\ jobs[job] # None
      /\ ToCome("answer") + 1 <= ToCome(jobs[job])
  BY <1>1, ToComeFacts DEF Phases, Messages, None
<1>3. target' \in Trees
  BY DEF Loads, Result, Was, Trees
<1>4. /\ decky' \in Deckys /\ decky'.up = decky.up /\ decky'.live \subseteq decky'.known
      /\ "other" \in decky'.live <=> "other" \in decky.live
      /\ "other" \in decky'.list <=> "other" \in decky.list
  BY <1>1 DEF Deckys, Plugins
<1>5. conn' \in Conns /\ conn'.offline = conn.offline /\ (Idle' \/ Waits')
  BY <1>1, <1>2, <1>4, TellFacts DEF Calm
<1> QED
  BY <1>1, <1>2, <1>3, <1>4, <1>5, WorkStep

(* A job fails. *)
LEMMA JobFailsStep == ASSUME IInv, NEW job \in {"action", "rollback"}, JobFails(job),
                             UNCHANGED <<plan, run, confirmed, seen>> PROVE IInv'
<1>1. PICK message \in {"error", "reply"} : Tell(job, message)
  BY DEF JobFails
<1>2. /\ jobs[job] \in {"remove", "unpack", "load", "drop"} /\ jobs' = [jobs EXCEPT ![job] = None] /\ Fault
      /\ UNCHANGED <<decky, target>> /\ decky \in Deckys /\ target \in Trees /\ left \in Left
  BY DEF JobFails, IInv, Typed, Left
<1>3. None \in Phases /\ message \in Messages /\ jobs[job] # None /\ ToCome(None) + 1 <= ToCome(jobs[job])
  BY <1>1, <1>2, ToComeFacts DEF Phases, Messages, None
<1>4. left'.changes = left.changes
  BY <1>2, BudgetFacts
<1>5. conn' \in Conns /\ conn'.offline = conn.offline /\ (Idle' \/ Waits')
  BY <1>1, <1>2, <1>3, <1>4, TellFacts
<1> QED
  BY <1>2, <1>3, <1>5, WorkStep

(* Decky stops. *)
LEMMA StopsStep == ASSUME IInv, Stops, UNCHANGED <<plan, run, confirmed, seen>> PROVE IInv'
<1>1. /\ conn \in Conns /\ decky \in Deckys /\ jobs \in [{"action", "rollback"} -> Phases]
      /\ Fault \/ Calm
      /\ target' = target /\ conn' = Closed
      /\ decky' = [decky EXCEPT !.up = FALSE, !.due = FALSE, !.live = {}]
      /\ jobs' = [job \in DOMAIN jobs |-> None]
  BY DEF IInv, Typed, Stops
<1>2. /\ decky' \in Deckys /\ ~decky'.up /\ decky'.live = {} /\ decky'.list = decky.list
      /\ jobs' \in [{"action", "rollback"} -> Phases] /\ jobs'["action"] = None /\ jobs'["rollback"] = None
  BY <1>1 DEF Deckys, Phases
<1>3. conn' \in Conns /\ Idle' /\ conn'.offline = conn.offline
  BY <1>1, EmptyWire DEF Conns, Idle, Closed
<1>4. Typed' /\ Control'
  BY <1>1, <1>2, <1>3, BudgetFacts DEF IInv, Typed, Left, Control
<1>5. Waiting' /\ JobsEnd'
  BY <1>2, <1>3 DEF IInv, Waiting, Loaded, JobsEnd
<1>6. Quiet' /\ Applied'
  BY <1>1, <1>2 DEF IInv, Quiet, Applied, Result, Was, Wanted
<1>7. Undone'
  BY <1>1, <1>2 DEF IInv, Undone, Undisturbed, Was, Ended
<1> QED
  BY <1>4, <1>5, <1>6, <1>7 DEF IInv

(* Decky starts. *)
LEMMA StartsStep == ASSUME IInv, Starts, UNCHANGED <<plan, run, confirmed, seen>> PROVE IInv'
<1> DEFINE known == {"other"} \cup IF target \in {None, "partial"} THEN {} ELSE {"this"}
<1>1. /\ decky \in Deckys /\ ~decky.up /\ Calm /\ UNCHANGED <<conn, jobs, target>>
      /\ decky' = [decky EXCEPT !.up = TRUE, !.known = known, !.live = known \ decky.list]
      /\ plan \in [op : {"create", "replace", "remove"}, orig : SUBSET Plugins]
  BY DEF IInv, Typed, Starts
<1>2. /\ known \in SUBSET Plugins /\ "other" \in known
      /\ target = Was => known = Known
      /\ target = Result("action") => known = Wanted
  BY <1>1 DEF Plugins, Was, Known, Result, Wanted, None
<1> HIDE DEF known
<1>3. /\ decky' \in Deckys /\ decky'.up /\ decky'.list = decky.list
      /\ decky'.known = known /\ decky'.live = known \ decky.list
  BY <1>1, <1>2 DEF Deckys
<1>4. Typed' /\ Control'
  BY <1>1, <1>3 DEF IInv, Typed, Control, Calm
<1>5. Waiting' /\ JobsEnd'
  BY <1>1, <1>3 DEF IInv, Waiting, Idle, Waits, Loaded, JobsEnd
<1>6. Quiet'
  BY <1>1, <1>2, <1>3 DEF IInv, Quiet
<1>7. Applied'
  BY <1>1, <1>2, <1>3 DEF IInv, Control, Applied, Result, Was, Wanted, RestartSteps, JobSteps
<1>8. Undone'
  BY <1>1, <1>2, <1>3 DEF IInv, Undone, Undisturbed, Was, Known, Ended, Restarted
<1> QED
  BY <1>4, <1>5, <1>6, <1>7, <1>8 DEF IInv

-----------------------------------------------------------------------------
(* Others *)

(* Another program takes the tree. *)
LEMMA ChangeStep == ASSUME IInv, Change, left.changes > 0, left' = [left EXCEPT !.changes = @ - 1],
                           UNCHANGED <<plan, run, jobs, confirmed>> PROVE IInv'
<1>1. /\ UNCHANGED <<conn, decky>> /\ target' \in Trees /\ seen \in Seen /\ left \in Left
      /\ seen' = [seen EXCEPT !.taken = TRUE]
  BY DEF Change, Trees, IInv, Typed, Seen, Left
<1>2. /\ seen' \in Seen /\ seen'.taken /\ seen'.touched = seen.touched /\ seen'.mistaken = seen.mistaken
      /\ left' \in Left /\ left.changes \in Nat /\ left'.changes = left.changes - 1
  <2>1. seen' \in Seen /\ seen'.taken /\ seen'.touched = seen.touched /\ seen'.mistaken = seen.mistaken
    BY <1>1 DEF Seen
  <2>2. left' \in Left /\ left.changes \in Nat /\ left'.changes = left.changes - 1
    BY <1>1, InstallAssumption DEF Left
  <2> QED
    BY <2>1, <2>2
<1>3. Typed' /\ Control'
  BY <1>1, <1>2 DEF IInv, Typed, Seen, Left, Control
<1>4. Waiting'
  <2>1. CASE Idle
    BY <2>1, <1>1 DEF IInv, Waiting, Idle, Loaded
  <2>2. CASE Waits
    <3>1. Len(conn.wire) \in Nat /\ ToCome(jobs[Job]) \in Nat /\ Expected \in Nat
      BY ToComeFacts DEF IInv, Typed, Conns, Expected, Job
    <3>2. Len(conn.wire) + ToCome(jobs[Job]) <= Expected + MaxChanges - left'.changes
      BY <3>1, <2>2, <1>2, InstallAssumption DEF Waits
    <3>3. Expected' = Expected /\ Job' = Job
      BY <1>1 DEF Expected, Job
    <3> QED
      BY <3>2, <3>3, <2>2, <1>1 DEF IInv, Waiting, Waits, Loaded
  <2> QED
    BY <2>1, <2>2 DEF IInv, Waiting
<1>5. JobsEnd' /\ Quiet' /\ Applied'
  BY <1>1, <1>2 DEF IInv, JobsEnd, Quiet, Applied
<1>6. Undone'
  BY <1>1, <1>2 DEF IInv, Undone, Undisturbed, Restarted
<1> QED
  BY <1>3, <1>4, <1>5, <1>6 DEF IInv

(* Another client toggles a plugin. *)
LEMMA ToggleStep == ASSUME IInv, Toggle, left.changes > 0, left' = [left EXCEPT !.changes = @ - 1],
                           UNCHANGED <<plan, run, jobs, confirmed>> PROVE IInv'
<1>1. /\ UNCHANGED <<conn, target>> /\ seen \in Seen /\ left \in Left /\ decky \in Deckys /\ decky.up
      /\ seen' = [seen EXCEPT !.touched = TRUE] /\ decky.live \subseteq decky.known
  BY DEF Toggle, IInv, Typed, Seen, Left, Waiting, Loaded
<1>2. /\ seen' \in Seen /\ seen'.touched /\ seen'.taken = seen.taken /\ seen'.mistaken = seen.mistaken
      /\ left' \in Left /\ left.changes \in Nat /\ left'.changes = left.changes - 1
  <2>1. seen' \in Seen /\ seen'.touched /\ seen'.taken = seen.taken /\ seen'.mistaken = seen.mistaken
    BY <1>1 DEF Seen
  <2>2. left' \in Left /\ left.changes \in Nat /\ left'.changes = left.changes - 1
    BY <1>1, InstallAssumption DEF Left
  <2> QED
    BY <2>1, <2>2
<1>3. PICK plugin \in decky.known :
        decky' = IF plugin \in decky.list
                 THEN [decky EXCEPT !.list = @ \ {plugin}, !.live = @ \cup {plugin}]
                 ELSE [decky EXCEPT !.list = @ \cup {plugin}, !.live = @ \ {plugin}]
  BY DEF Toggle
<1>4. /\ decky' \in Deckys /\ decky'.up /\ decky'.live \subseteq decky'.known
      /\ "other" \in decky.live \cup decky.list => "other" \in decky'.live \cup decky'.list
  <2>1. CASE plugin \in decky.list
    BY <2>1, <1>1, <1>3 DEF Deckys
  <2>2. CASE plugin \notin decky.list
    BY <2>2, <1>1, <1>3 DEF Deckys
  <2> QED
    BY <2>1, <2>2
<1>5. Typed' /\ Control'
  BY <1>1, <1>2, <1>4 DEF IInv, Typed, Seen, Left, Control
<1>6. Waiting'
  <2>1. CASE Idle
    BY <2>1, <1>1, <1>4 DEF IInv, Waiting, Idle, Loaded
  <2>2. CASE Waits
    <3>1. Len(conn.wire) \in Nat /\ ToCome(jobs[Job]) \in Nat /\ Expected \in Nat
      BY ToComeFacts DEF IInv, Typed, Conns, Expected, Job
    <3>2. Len(conn.wire) + ToCome(jobs[Job]) <= Expected + MaxChanges - left'.changes
      BY <3>1, <2>2, <1>2, InstallAssumption DEF Waits
    <3>3. Expected' = Expected /\ Job' = Job
      BY <1>1 DEF Expected, Job
    <3> QED
      BY <3>2, <3>3, <2>2, <1>1, <1>4 DEF IInv, Waiting, Waits, Loaded
  <2> QED
    BY <2>1, <2>2 DEF IInv, Waiting
<1>7. JobsEnd' /\ Quiet' /\ Applied'
  BY <1>1, <1>2, <1>4 DEF IInv, JobsEnd, Quiet, Applied, Result, Was, Wanted
<1>8. Undone'
  BY <1>1, <1>2 DEF IInv, Undone, Undisturbed, Restarted, Was
<1> QED
  BY <1>5, <1>6, <1>7, <1>8 DEF IInv

(* Another client's messages come over the connection. *)
LEMMA IntrudeStep == ASSUME IInv, Intrude, left.changes > 0, left' = [left EXCEPT !.changes = @ - 1],
                            UNCHANGED <<plan, run, jobs, confirmed>> PROVE IInv'
<1>1. /\ UNCHANGED <<decky, target, seen>> /\ left \in Left /\ conn \in Conns /\ conn.of # None
  BY DEF Intrude, IInv, Typed, Left
<1>2. left' \in Left /\ left.changes \in Nat /\ left'.changes = left.changes - 1
  BY <1>1, InstallAssumption DEF Left
<1>3. PICK message \in {"theirs", "theirsFinished"} : conn' = [conn EXCEPT !.wire = Append(@, message)]
  BY DEF Intrude, Tell
<1>4. Waits /\ conn.wire \in Seq(Messages) /\ message \in Messages
  BY <1>1 DEF IInv, Waiting, Idle, Conns, Messages
<1>5. /\ conn' \in Conns /\ conn'.of = conn.of /\ conn'.prompt = conn.prompt /\ conn'.offline = conn.offline
      /\ conn'.wire = Append(conn.wire, message)
  <2>1. Append(conn.wire, message) \in Seq(Messages)
    BY <1>4, AppendFacts
  <2> QED
    BY <2>1, <1>1, <1>3 DEF Conns
<1>6. Typed' /\ Control'
  BY <1>1, <1>2, <1>5 DEF IInv, Typed, Left, Control
<1>7. Waiting'
  <2>1. Len(conn'.wire) = Len(conn.wire) + 1 /\ Len(conn.wire) \in Nat
    BY <1>4, <1>5, AppendFacts
  <2>2. ToCome(jobs[Job]) \in Nat /\ Expected \in Nat
    BY ToComeFacts DEF IInv, Typed, Expected, Job
  <2>3. Len(conn'.wire) + ToCome(jobs[Job]) <= Expected + MaxChanges - left'.changes
    BY <2>1, <2>2, <1>2, <1>4, InstallAssumption DEF Waits
  <2>4. Expected' = Expected /\ Job' = Job
    BY <1>5 DEF Expected, Job
  <2>5. \A i \in 1 .. Len(conn'.wire) : conn'.wire[i] = "reply" =>
            i \in 1 .. Len(conn.wire) /\ conn.wire[i] = "reply"
    BY <2>1, <1>4, <1>5, AppendFacts
  <2>6. Waits'
    BY <2>3, <2>4, <2>5, <1>1, <1>4, <1>5 DEF Waits
  <2> QED
    BY <2>6, <1>1, <1>5 DEF IInv, Waiting, Loaded
<1>8. JobsEnd' /\ Quiet' /\ Applied'
  BY <1>1 DEF IInv, JobsEnd, Quiet, Applied, Result, Was, Wanted
<1>9. Undone'
  BY <1>1, <1>5 DEF IInv, Undone, Undisturbed, Restarted, Was, Known
<1> QED
  BY <1>6, <1>7, <1>8, <1>9 DEF IInv

-----------------------------------------------------------------------------
(* The invariant *)

(* The invariant holds at the start. *)
LEMMA InitIInv == Init => IInv
<1> SUFFICES ASSUME Init PROVE IInv
  OBVIOUS
<1>1. /\ run = [goal |-> "quiesce", step |-> "set", item |-> FALSE, outcome |-> None,
                failed |-> FALSE, undone |-> None]
      /\ conn = [of |-> None, wire |-> <<>>, prompt |-> None, finished |-> FALSE, offline |-> FALSE]
      /\ plan \in [op : {"create", "replace", "remove"}, orig : SUBSET Plugins]
      /\ decky = [up |-> TRUE, due |-> FALSE, list |-> plan.orig, known |-> Known,
                  live |-> Known \ plan.orig]
      /\ jobs = [job \in {"action", "rollback"} |-> None] /\ target = Was
  BY DEF Init
<1>2. Typed
  <2>1. conn \in Conns
    BY <1>1, EmptyWire DEF Conns, None
  <2>2. decky \in Deckys
    BY <1>1 DEF Deckys, Known, Plugins
  <2>3. target \in Trees /\ jobs \in [{"action", "rollback"} -> Phases]
    BY <1>1 DEF Was, Trees, None, Phases
  <2> QED
    BY <2>1, <2>2, <2>3, InstallAssumption DEF Init, Typed, Seen, Left
<1>3. Control
  BY <1>1 DEF Control, Runs, Goals, Steps, RestartSteps, JobSteps, None
<1>4. Waiting /\ JobsEnd
  BY <1>1 DEF Waiting, Idle, Loaded, JobsEnd
<1>5. Quiet /\ Applied /\ Undone
  BY <1>1 DEF Quiet, Applied, Undone, Restarted, Ended, None, Known, Plugins
<1> QED
  BY <1>2, <1>3, <1>4, <1>5 DEF IInv

(* Every step keeps the invariant. *)
LEMMA NextIInv == IInv /\ [Next]_vars => IInv'
<1> SUFFICES ASSUME IInv, [Next]_vars PROVE IInv'
  OBVIOUS
<1>1. CASE Client
  BY <1>1, SetStep, ReadBackStep, RestartStep, PollStep, DeadlineStep, ReconnectStep, InventoryStep,
     ReadDisabledStep, CheckStep, RequestStep, UninstallStep, PromptStep, ConfirmStep, AwaitStep,
     GiveUpStep, InspectStep, UndoStep, PutStep, LaterStep, RevalidateStep, ReportStep
  DEF Client
<1>2. CASE Service
  <2>1. UNCHANGED <<plan, run, confirmed, seen>>
    BY <1>2 DEF Service
  <2>2. DOMAIN jobs = {"action", "rollback"}
    BY DEF IInv, Typed
  <2>3. ASSUME NEW job \in {"action", "rollback"},
               Prompts(job) \/ Removes(job) \/ Unpacks(job) \/ Loads(job) \/ JobFails(job)
        PROVE  IInv'
    BY <2>1, <2>3, PromptsStep, RemovesStep, UnpacksStep, LoadsStep, JobFailsStep
  <2> QED
    BY <2>1, <2>2, <2>3, <1>2, StopsStep, StartsStep DEF Service
<1>3. CASE Others
  BY <1>3, ChangeStep, ToggleStep, IntrudeStep DEF Others
<1>4. CASE UNCHANGED vars
  <2>1. Typed' /\ Control'
    BY <1>4 DEF vars, IInv, Typed, Control
  <2>2. Waiting'
    BY <1>4 DEF vars, IInv, Waiting, Idle, Waits, Loaded, Expected, Job
  <2>3. JobsEnd' /\ Quiet' /\ Applied' /\ Undone'
    BY <1>4 DEF vars, IInv, JobsEnd, Quiet, Applied, Undone, Undisturbed, Restarted, Known, Was, Wanted, Result
  <2> QED
    BY <2>1, <2>2, <2>3 DEF IInv
<1> QED
  BY <1>1, <1>2, <1>3, <1>4 DEF Next

-----------------------------------------------------------------------------
(* Every reachable state satisfies the invariant the other theorems rest on.  *)
THEOREM Invariance == Spec => []IInv
<1>1. Init => IInv
  BY InitIInv
<1>2. IInv /\ [Next]_vars => IInv'
  BY NextIInv
<1> QED
  BY <1>1, <1>2, PTL DEF Spec

(* Type correctness, with the bound on what is on the wire of a call.         *)
THEOREM TypeCorrect == Spec => []TypeOK
<1>1. IInv => TypeOK
  <2> SUFFICES ASSUME IInv PROVE TypeOK
    OBVIOUS
  <2>1. /\ conn \in Conns /\ left \in Left /\ jobs \in [{"action", "rollback"} -> Phases]
    BY DEF IInv, Typed, Left
  <2>2. Len(conn.wire) <= 3 + MaxChanges
    <3>1. CASE Idle
      BY <3>1, EmptyWire, InstallAssumption DEF Idle
    <3>2. CASE Waits
      <4>1. /\ Len(conn.wire) \in Nat /\ ToCome(jobs[Job]) \in Nat /\ Expected \in 0 .. 2
            /\ left.changes \in Nat
        BY <2>1, ToComeFacts, InstallAssumption DEF Conns, Expected, Job, Left
      <4> QED
        BY <4>1, <3>2, InstallAssumption DEF Waits
    <3> QED
      BY <3>1, <3>2 DEF IInv, Waiting
  <2>3. conn.of \in {None, "action", "rollback"}
    BY <2>1 DEF Conns
  <2>4. /\ run.outcome \in {None, "unquiesced", "refused", "failed", "installed"}
        /\ run.undone \in {None, "undone", "failed"}
    BY DEF IInv, Control, Runs
  <2>5. \A job \in DOMAIN jobs :
          jobs[job] \in {None, "asking", "asked", "remove", "drop", "unpack", "load", "answer"}
    BY <2>1 DEF Phases
  <2>6. decky.live \subseteq decky.known /\ (~decky.up => decky.live = {})
    BY DEF IInv, Waiting, Loaded
  <2> QED
    BY <2>2, <2>3, <2>4, <2>5, <2>6 DEF IInv, Typed, Deckys, TypeOK
<1> QED
  BY <1>1, Invariance, PTL

(* No prompt but the one for the approved request is ever confirmed, whatever *)
(* other clients make Decky send over the connection (client.go's handshake). *)
THEOREM OnlyOwnConfirmed == Spec => []ConfirmsOnlyOwn
<1>1. IInv => ConfirmsOnlyOwn
  BY DEF IInv, Typed, ConfirmsOnlyOwn
<1> QED
  BY <1>1, Invariance, PTL

(* While Decky changes the plugin no other one runs, and an action that is    *)
(* recorded as applied is, with every plugin at rest.                         *)
THEOREM QuietlyApplied == Spec => []AppliedQuietly
<1>1. IInv => AppliedQuietly
  BY DEF IInv, Quiet, Applied, AppliedQuietly
<1> QED
  BY <1>1, Invariance, PTL

(* A rollback that reports success has restored the tree, the list and the    *)
(* plugins that run, and no job of Decky's is left.                           *)
THEOREM RollbackIsOriginal == Spec => []UndoneIsOriginal
<1>1. IInv => UndoneIsOriginal
  <2> SUFFICES ASSUME IInv, run.undone = "undone",
                      seen = [taken |-> FALSE, touched |-> FALSE, mistaken |-> FALSE]
               PROVE  /\ target = Was /\ decky.list = plan.orig
                      /\ \A job \in DOMAIN jobs : jobs[job] = None
                      /\ decky.up => decky.known = Known /\ decky.live = Known \ plan.orig
    BY DEF UndoneIsOriginal
  <2>1. run.goal = "report" /\ ~run.failed /\ Undisturbed /\ ~seen.mistaken
    BY DEF IInv, Control, Undisturbed
  <2>2. DOMAIN jobs = {"action", "rollback"}
    BY DEF IInv, Typed
  <2> QED
    BY <2>1, <2>2 DEF IInv, Undone, Ended
<1> QED
  BY <1>1, Invariance, PTL

=============================================================================
