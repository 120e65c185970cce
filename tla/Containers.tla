----------------------------- MODULE Containers -----------------------------
(***************************************************************************)
(* The container manager (internal/container/docker.go) between its caller *)
(* and the Docker daemon.                                                  *)
(*                                                                         *)
(* One goroutine at a time calls the manager; the archive of a build is    *)
(* written by a goroutine of its own, through a pipe.  The daemon is       *)
(* external: it may refuse a request, or carry it out and have its answer  *)
(* lost, and a container may exit by itself.  The caller's context may be  *)
(* cancelled at any moment; what cleans up does not look at it.            *)
(***************************************************************************)
EXTENDS Naturals, FiniteSets

CONSTANTS
  Ids,      \* what the daemon names containers by, each once
  NoId,
  MaxCalls  \* bound: calls of the manager

ASSUME ContainersAssumption == NoId \notin Ids /\ MaxCalls \in Nat

VARIABLES
  docker,     \* the daemon's containers
  image,      \* the tag names an image
  call,       \* the call in progress: what it is, how far, for which container
  calls,      \* calls made
  held,       \* containers whose stop function the caller has not called
  lost,       \* created without an answer, or not removed: the daemon's doing
  cancelled,  \* the caller's context is done
  expired,    \* the deadline of the call in progress has passed
  writer,     \* the goroutine that writes the archive of the build in progress
  leftover    \* such goroutines of builds that have returned

vars == <<docker, image, call, calls, held, lost, cancelled, expired, writer, leftover>>
daemonVars == <<docker, image, lost>>
archiveVars == <<writer, leftover>>
contextVars == <<cancelled, expired>>

Exists(id) == docker[id] \in {"created", "running", "exited"}
Fresh == {id \in Ids : docker[id] = "absent"}

Idle == [op |-> "none", at |-> "idle", id |-> NoId]
At(at) == call.at = at
Goes(at) == call' = [call EXCEPT !.at = at]
Return == call' = Idle /\ expired' = FALSE /\ UNCHANGED cancelled

\* Every request but those that clean up is made under the caller's context, the one of
\* an exec and of a wait under their deadline too.
Live == ~cancelled /\ ~expired

-----------------------------------------------------------------------------
(* The caller.                                                             *)

Init ==
  /\ docker = [id \in Ids |-> "absent"] /\ image = FALSE /\ call = Idle /\ calls = 0
  /\ held = {} /\ lost = {} /\ cancelled = FALSE /\ expired = FALSE
  /\ writer = "none" /\ leftover = 0

Begin(op, at, id) ==
  /\ At("idle") /\ calls < MaxCalls /\ calls' = calls + 1
  /\ call' = [op |-> op, at |-> at, id |-> id]
  /\ UNCHANGED <<daemonVars, contextVars, archiveVars>>

CallBuild == Begin("Build", "tar", NoId) /\ UNCHANGED held
CallStart == \E op \in {"Run", "RunMultiPort", "StartSession"} :
               Begin(op, "create", NoId) /\ UNCHANGED held
CallWait == \E id \in held : Begin("Wait", "probe", id) /\ UNCHANGED held
CallExec == \E id \in held : Begin("Exec", "execCreate", id) /\ UNCHANGED held
CallStop == \E id \in held : Begin("Stop", "stop", id) /\ held' = held \ {id}
CallRemoveImage == Begin("RemoveImage", "removeImage", NoId) /\ UNCHANGED held

Cancel ==
  /\ ~cancelled /\ cancelled' = TRUE
  /\ UNCHANGED <<daemonVars, archiveVars, call, calls, held, expired>>

-----------------------------------------------------------------------------
(* Build.                                                                  *)

OfBuild == call.op = "Build"

\* The directory is none.
TarFails ==
  /\ At("tar") /\ Return /\ UNCHANGED <<daemonVars, archiveVars, calls, held>>
TarStarts ==
  /\ At("tar") /\ Goes("upload") /\ writer' = "writing"
  /\ UNCHANGED <<daemonVars, contextVars, calls, held, leftover>>

\* The pipe has no buffer: what is written is being read.
WriteAll ==
  /\ writer = "writing" /\ OfBuild /\ writer' = "whole"
  /\ UNCHANGED <<daemonVars, contextVars, call, calls, held, leftover>>
WalkFails ==
  /\ writer = "writing" /\ writer' = "failed"
  /\ UNCHANGED <<daemonVars, contextVars, call, calls, held, leftover>>
FindsPipeClosed ==
  /\ leftover > 0 /\ leftover' = leftover - 1
  /\ UNCHANGED <<daemonVars, contextVars, call, calls, held, writer>>

UploadAnswered ==
  /\ At("upload") /\ Live /\ writer # "failed" /\ Goes("log")
  /\ UNCHANGED <<daemonVars, contextVars, archiveVars, calls, held>>

\* Seeded fault: the reader's end of the pipe stays open.
BuildReturnsUnclosed ==
  Return /\ UNCHANGED <<docker, lost, calls, held, archiveVars>>

\* The reader's end is closed, which ends a writer that still has something to write.
BuildReturns ==
  /\ Return /\ writer' = "none"
  /\ leftover' = IF writer = "writing" THEN leftover + 1 ELSE leftover
  /\ UNCHANGED <<docker, lost, calls, held>>

UploadFails == At("upload") /\ BuildReturns /\ UNCHANGED image

\* A log that ends without an error is that of a build.
LogEnds == At("log") /\ Live /\ writer = "whole" /\ image' = TRUE /\ BuildReturns

\* An error event, a broken stream, or a line too long for the scanner: the build itself
\* may have gone on.
LogFails ==
  /\ At("log") /\ BuildReturns
  /\ image' = image \/ (writer = "whole" /\ image' = TRUE)

RemoveImage ==
  /\ At("removeImage") /\ Return
  /\ image' = image \/ (Live /\ image' = FALSE /\ \A id \in Ids : ~Exists(id))
  /\ UNCHANGED <<docker, lost, archiveVars, calls, held>>

-----------------------------------------------------------------------------
(* Run, RunMultiPort and StartSession.                                     *)

Created ==
  /\ At("create") /\ Live /\ image
  /\ \E id \in Fresh :
       /\ docker' = [docker EXCEPT ![id] = "created"]
       /\ call' = [call EXCEPT !.at = "start", !.id = id]
  /\ UNCHANGED <<image, lost, contextVars, archiveVars, calls, held>>

CreateFails ==
  /\ At("create") /\ Return
  /\ \/ UNCHANGED <<docker, lost>>
     \/ \E id \in Fresh :
          /\ Live /\ image
          /\ docker' = [docker EXCEPT ![id] = "created"] /\ lost' = lost \cup {id}
  /\ UNCHANGED <<image, archiveVars, calls, held>>

\* The caller gets a stop function.
Hand ==
  /\ Return /\ held' = held \cup {call.id}
  /\ UNCHANGED <<image, lost, archiveVars, calls>>

Started ==
  /\ At("start") /\ Live
  /\ docker' = [docker EXCEPT ![call.id] = "running"]
  /\ IF call.op = "StartSession"
     THEN Hand
     ELSE Goes("inspect") /\ UNCHANGED <<image, lost, contextVars, archiveVars, calls, held>>

\* Seeded fault: nothing is undone when the start fails.
StartFailsLeaves ==
  /\ At("start") /\ Return
  /\ UNCHANGED <<daemonVars, archiveVars, calls, held>>

\* What is removed by force may be running all the same.
StartFails ==
  /\ At("start") /\ Goes("remove")
  /\ \/ UNCHANGED docker
     \/ Live /\ docker' = [docker EXCEPT ![call.id] = "running"]
  /\ UNCHANGED <<image, lost, contextVars, archiveVars, calls, held>>

\* Ports are bound while the container runs; RunMultiPort makes do with any of them.
Ports == {"http", "extra"}
Suffices(bound) == IF call.op = "Run" THEN "http" \in bound ELSE bound # {}

Inspected ==
  /\ At("inspect") /\ Live
  /\ \E bound \in SUBSET Ports :
       docker[call.id] = "running" /\ Suffices(bound)
  /\ Hand /\ UNCHANGED docker

\* The inspection fails, or there is no port to reach the service by.
InspectFails ==
  /\ At("inspect") /\ Goes("stop")
  /\ UNCHANGED <<daemonVars, contextVars, archiveVars, calls, held>>

-----------------------------------------------------------------------------
(* stopAndRemove, and the removal after a failed start, without the        *)
(* caller's context.                                                       *)

Stop ==
  /\ At("stop") /\ Goes("remove")
  /\ \/ UNCHANGED docker
     \/ docker[call.id] = "running" /\ docker' = [docker EXCEPT ![call.id] = "exited"]
  /\ UNCHANGED <<image, lost, contextVars, archiveVars, calls, held>>

Remove ==
  /\ At("remove") /\ Return
  /\ \/ docker' = [docker EXCEPT ![call.id] = "removed"] /\ UNCHANGED lost
     \/ lost' = lost \cup {call.id} /\ UNCHANGED docker
  /\ UNCHANGED <<image, archiveVars, calls, held>>

-----------------------------------------------------------------------------
(* WaitHealthy and WaitPort: a probe at once, then one a tick.             *)

EndCall == Return /\ UNCHANGED <<daemonVars, archiveVars, calls, held>>
Step(at) == Goes(at) /\ UNCHANGED <<daemonVars, contextVars, archiveVars, calls, held>>

ProbeAnswered == At("probe") /\ Live /\ docker[call.id] = "running" /\ EndCall
ProbeFails == At("probe") /\ Step("wait")

\* select takes either of two that are ready.
Tick == At("wait") /\ Step("probe")
WaitFails == At("wait") /\ ~Live /\ EndCall

Expire ==
  /\ call.op \in {"Wait", "Exec"} /\ ~expired /\ expired' = TRUE
  /\ UNCHANGED <<daemonVars, archiveVars, call, calls, held, cancelled>>

-----------------------------------------------------------------------------
(* Session.Exec and RunTest.                                               *)

ExecCreated == At("execCreate") /\ Live /\ docker[call.id] = "running" /\ Step("attach")
Attached == At("attach") /\ Live /\ Step("read")

\* The input is written, and the output read to its end, with no regard to the deadline.
OutputEnds == At("read") /\ Step("execInspect")
ExecInspected == At("execInspect") /\ Live /\ EndCall
ExecFails == call.at \in {"execCreate", "attach", "read", "execInspect"} /\ EndCall

-----------------------------------------------------------------------------
ContainerExits ==
  /\ \E id \in Ids :
       docker[id] = "running" /\ docker' = [docker EXCEPT ![id] = "exited"]
  /\ UNCHANGED <<image, lost, contextVars, archiveVars, call, calls, held>>

Caller ==
  CallBuild \/ CallStart \/ CallWait \/ CallExec \/ CallStop \/ CallRemoveImage \/ Cancel

\* What goes on inside a call, but for the command of an exec.
Manager ==
  \/ TarFails \/ TarStarts \/ UploadAnswered \/ UploadFails \/ LogEnds \/ LogFails
  \/ RemoveImage \/ Created \/ CreateFails \/ Started \/ StartFails \/ Inspected
  \/ InspectFails \/ Stop \/ Remove \/ ProbeAnswered \/ ProbeFails \/ Tick \/ WaitFails
  \/ ExecCreated \/ Attached \/ ExecInspected \/ (~At("read") /\ ExecFails)

Environment ==
  WriteAll \/ WalkFails \/ Expire \/ ContainerExits \/ OutputEnds \/ (At("read") /\ ExecFails)

Terminating == At("idle") /\ calls = MaxCalls /\ leftover = 0 /\ UNCHANGED vars

Next == Caller \/ Manager \/ Environment \/ FindsPipeClosed \/ Terminating

\* The daemon answers, timers fire and goroutines run.  Once the deadline has passed a
\* tick is a second away and the done context is there.  A caller need not call, an
\* archive may take long, and a command may run for ever.
Spec ==
  /\ Init /\ [][Next]_vars
  /\ WF_vars(Manager) /\ SF_vars(WaitFails) /\ WF_vars(Expire) /\ WF_vars(FindsPipeClosed)

-----------------------------------------------------------------------------
(* Properties.                                                             *)

Ops == {"none", "Build", "Run", "RunMultiPort", "StartSession", "Wait", "Exec", "Stop",
        "RemoveImage"}
Ats == {"idle", "tar", "upload", "log", "create", "start", "inspect", "stop", "remove",
        "probe", "wait", "execCreate", "attach", "read", "execInspect", "removeImage"}

\* Every variable holds a value of its kind.
TypeOK ==
  /\ docker \in [Ids -> {"absent", "created", "running", "exited", "removed"}]
  /\ image \in BOOLEAN /\ calls \in 0..MaxCalls /\ leftover \in Nat
  /\ call \in [op : Ops, at : Ats, id : Ids \cup {NoId}]
  /\ held \subseteq Ids /\ lost \subseteq Ids
  /\ cancelled \in BOOLEAN /\ expired \in BOOLEAN
  /\ writer \in {"none", "writing", "whole", "failed"}

\* A container is made or unmade by the call in progress.
Handling == IF call.at \in {"start", "inspect", "stop", "remove"} THEN {call.id} ELSE {}

\* Every variable has its type, and a container that exists is in the hands of exactly one:
\* the call that makes or unmakes it, the caller with its stop function, or nobody because
\* the daemon did not say that it was created or did not remove it.  So a call that returns
\* an error has left nothing behind, wherever it failed and whatever had been cancelled,
\* and a stop function is for a container that has been started.
ContainersOwned ==
  /\ TypeOK
  /\ \A id \in Ids : Exists(id) => id \in held \cup lost \cup Handling
  /\ held \cap lost = {} /\ Handling \cap (held \cup lost) = {}
  /\ \A id \in held : docker[id] \in {"running", "exited"}

\* A call ends, unless it reads the output of a command that does not; no deadline bounds
\* that.  The goroutine that writes an archive ends with its build.
CallsEnd ==
  /\ call.at \notin {"idle", "read"} ~> call.at \in {"idle", "read"}
  /\ writer = "writing" ~> writer # "writing"
  /\ leftover > 0 ~> leftover = 0
=============================================================================
