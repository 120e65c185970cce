-------------------------- MODULE ContainersProofs --------------------------
(***************************************************************************)
(* Proof that the manager leaves no container without an owner, for any    *)
(* number of containers and calls and any behaviour of the daemon.         *)
(***************************************************************************)
EXTENDS Containers, TLAPS

\* The inductive invariant adds to ContainersOwned that the call in progress is about a
\* container the daemon has named, and that no name comes back: what the daemon left
\* behind, or a call handles, is not absent.
Handles == {"start", "inspect", "stop", "remove"}
Named ==
  /\ call.at \in Handles \cup {"probe", "wait"} => call.id \in Ids
  /\ \A id \in lost \cup Handling : docker[id] # "absent"
IInv == ContainersOwned /\ Named

\* Between calls the call in progress is none.
LEMMA IdleTyped == Idle \in [op : Ops, at : Ats, id : Ids \cup {NoId}] /\ Idle.at = "idle"
BY DEF Idle, Ops, Ats

\* The daemon starts with no container, and nobody has one.
LEMMA InitInv == Init => IInv
<1> SUFFICES ASSUME Init PROVE IInv
  OBVIOUS
<1>1. call = Idle /\ call.at = "idle" /\ held = {} /\ lost = {} /\ Handling = {}
  BY DEF Init, Idle, Handling
<1>2. TypeOK
  <2>1. calls \in 0..MaxCalls /\ leftover \in Nat
    BY ContainersAssumption DEF Init
  <2>2. docker \in [Ids -> {"absent", "created", "running", "exited", "removed"}]
    BY DEF Init
  <2>3. call \in [op : Ops, at : Ats, id : Ids \cup {NoId}]
    BY <1>1, IdleTyped
  <2> QED BY <2>1, <2>2, <2>3 DEF Init, TypeOK
<1>3. ContainersOwned
  BY <1>1, <1>2 DEF Init, ContainersOwned, Exists
<1> QED BY <1>1, <1>3 DEF IInv, Named, Handles

-----------------------------------------------------------------------------
(* Where a call goes.                                                      *)

\* A call that goes on is the same call, about the same container.
LEMMA GoesTyped ==
  ASSUME TypeOK, NEW at \in Ats, Goes(at)
  PROVE  /\ call' \in [op : Ops, at : Ats, id : Ids \cup {NoId}]
         /\ call'.at = at /\ call'.id = call.id /\ call'.op = call.op
BY DEF TypeOK, Goes

\* A call begins where none was in progress.
LEMMA BeginTyped ==
  ASSUME TypeOK, NEW op \in Ops, NEW at \in Ats, NEW id \in Ids \cup {NoId}, Begin(op, at, id)
  PROVE  /\ call' \in [op : Ops, at : Ats, id : Ids \cup {NoId}]
         /\ call'.at = at /\ call'.id = id /\ call.at = "idle"
         /\ calls' \in 0..MaxCalls
         /\ UNCHANGED <<docker, image, lost, writer, leftover, cancelled, expired>>
<1>1. calls' \in 0..MaxCalls
  BY ContainersAssumption DEF TypeOK, Begin
<1> QED BY <1>1 DEF Begin, At, daemonVars, contextVars, archiveVars

\* A step that does not change what exists, nor whose it is.
LEMMA SameOwners ==
  ASSUME IInv, TypeOK', UNCHANGED <<docker, held, lost>>,
         Handling' = Handling, call'.at \in Handles \cup {"probe", "wait"} => call'.id \in Ids
  PROVE  IInv'
BY DEF IInv, ContainersOwned, Named, Exists

-----------------------------------------------------------------------------
(* The caller's calls: a stop function puts its container in the hands of  *)
(* the call.                                                               *)

\* The caller's calls, and its cancellation, preserve the invariant.
LEMMA CallerStep == IInv /\ Caller => IInv'
<1> SUFFICES ASSUME IInv, Caller PROVE IInv'
  OBVIOUS
<1>t. TypeOK
  BY DEF IInv, ContainersOwned
<1>b. ASSUME NEW op \in Ops, NEW at \in Ats \ Handles, NEW id \in Ids \cup {NoId},
             at \in {"probe", "wait"} => id \in Ids,
             Begin(op, at, id), UNCHANGED held
      PROVE  IInv'
  <2>1. /\ call' \in [op : Ops, at : Ats, id : Ids \cup {NoId}]
        /\ call'.at = at /\ call'.id = id /\ call.at = "idle"
        /\ calls' \in 0..MaxCalls
        /\ UNCHANGED <<docker, image, lost, writer, leftover, cancelled, expired>>
    BY <1>t, <1>b, BeginTyped
  <2>2. TypeOK'
    BY <1>t, <1>b, <2>1 DEF TypeOK
  <2>3. Handling = {} /\ Handling' = {}
    BY <1>b, <2>1 DEF Handling, Handles
  <2> QED BY <1>b, <2>1, <2>2, <2>3, SameOwners DEF Handles
<1>1. CASE CallBuild
  BY <1>1, <1>b DEF CallBuild, Ops, Ats, Handles
<1>2. CASE CallStart
  BY <1>2, <1>b DEF CallStart, Ops, Ats, Handles
<1>3. CASE CallWait
  BY <1>3, <1>b, <1>t DEF CallWait, Ops, Ats, Handles, TypeOK
<1>4. CASE CallExec
  BY <1>4, <1>b, <1>t DEF CallExec, Ops, Ats, Handles, TypeOK
<1>5. CASE CallStop
  <2> PICK id \in held : Begin("Stop", "stop", id) /\ held' = held \ {id}
    BY <1>5 DEF CallStop
  <2>1. id \in Ids
    BY <1>t DEF TypeOK
  <2>2. /\ call' \in [op : Ops, at : Ats, id : Ids \cup {NoId}]
        /\ call'.at = "stop" /\ call'.id = id /\ call.at = "idle"
        /\ calls' \in 0..MaxCalls
        /\ UNCHANGED <<docker, image, lost, writer, leftover, cancelled, expired>>
    BY <1>t, <2>1, BeginTyped DEF Ops, Ats
  <2>3. TypeOK'
    BY <1>t, <2>2 DEF TypeOK
  <2>4. Handling = {} /\ Handling' = {id}
    BY <2>2 DEF Handling
  <2> QED BY <2>1, <2>2, <2>3, <2>4 DEF IInv, ContainersOwned, Named, Exists, Handles
<1>6. CASE CallRemoveImage
  BY <1>6, <1>b DEF CallRemoveImage, Ops, Ats, Handles
<1>7. CASE Cancel
  <2>1. UNCHANGED <<docker, held, lost, call>> /\ TypeOK'
    BY <1>7, <1>t DEF Cancel, TypeOK, daemonVars, archiveVars
  <2> QED BY <2>1, SameOwners DEF IInv, Named, Handling
<1> QED BY <1>1, <1>2, <1>3, <1>4, <1>5, <1>6, <1>7 DEF Caller

-----------------------------------------------------------------------------
(* Steps that leave containers and owners alone.                           *)

\* A call that returns handles nothing any more.
LEMMA ReturnTyped ==
  ASSUME TypeOK, Return
  PROVE  /\ call' \in [op : Ops, at : Ats, id : Ids \cup {NoId}]
         /\ call'.at = "idle" /\ Handling' = {}
         /\ expired' \in BOOLEAN /\ cancelled' \in BOOLEAN
<1>1. call' = Idle /\ expired' = FALSE /\ cancelled' = cancelled
  BY DEF Return
<1> QED BY <1>1, IdleTyped DEF TypeOK, Handling

\* A call that handles no container and returns.
LEMMA ReturnsAlone ==
  ASSUME IInv, Return, call.at \notin Handles, UNCHANGED <<docker, held, lost, calls>>,
         image' \in BOOLEAN, writer' \in {"none", "writing", "whole", "failed"},
         leftover' \in Nat
  PROVE  IInv'
<1>t. TypeOK
  BY DEF IInv, ContainersOwned
<1>1. /\ call' \in [op : Ops, at : Ats, id : Ids \cup {NoId}]
      /\ call'.at = "idle" /\ Handling' = {}
      /\ expired' \in BOOLEAN /\ cancelled' \in BOOLEAN
  BY <1>t, ReturnTyped
<1>2. TypeOK'
  BY <1>t, <1>1 DEF TypeOK
<1>3. Handling = {}
  BY DEF Handling, Handles
<1> QED BY <1>1, <1>2, <1>3, SameOwners DEF Handles

\* A call that goes on without a container to handle, or with the one it has.
LEMMA GoesOn ==
  ASSUME IInv, NEW at \in Ats, Goes(at),
         at \in Handles <=> call.at \in Handles,
         at \in {"probe", "wait"} => call.at \in {"probe", "wait"},
         UNCHANGED <<docker, image, held, lost, calls, cancelled, expired, leftover>>,
         writer' \in {"none", "writing", "whole", "failed"}
  PROVE  IInv'
<1>t. TypeOK
  BY DEF IInv, ContainersOwned
<1>1. /\ call' \in [op : Ops, at : Ats, id : Ids \cup {NoId}]
      /\ call'.at = at /\ call'.id = call.id
  BY <1>t, GoesTyped
<1>2. TypeOK'
  BY <1>t, <1>1 DEF TypeOK
<1>3. Handling' = Handling
  BY <1>1 DEF Handling, Handles
<1>4. call'.at \in Handles \cup {"probe", "wait"} => call'.id \in Ids
  BY <1>1 DEF IInv, Named
<1> QED BY <1>2, <1>3, <1>4, SameOwners

\* A container the call handles changes its state, and the call keeps it in hand.
LEMMA ChangesInHand ==
  ASSUME IInv, NEW at \in Handles, Goes(at), call.at \in Handles,
         NEW state \in {"created", "running", "exited"},
         \/ docker' = docker
         \/ docker' = [docker EXCEPT ![call.id] = state],
         UNCHANGED <<image, held, lost, calls, cancelled, expired, leftover, writer>>
  PROVE  IInv'
<1>t. TypeOK /\ call.id \in Ids /\ Handling = {call.id}
  BY DEF IInv, ContainersOwned, Named, Handling, Handles
<1>1. /\ call' \in [op : Ops, at : Ats, id : Ids \cup {NoId}]
      /\ call'.at = at /\ call'.id = call.id
  BY <1>t, GoesTyped DEF Handles, Ats
<1>2. Handling' = {call.id}
  BY <1>1 DEF Handling, Handles
<1>3. docker' \in [Ids -> {"absent", "created", "running", "exited", "removed"}]
  BY <1>t DEF TypeOK
<1>4. TypeOK'
  BY <1>t, <1>1, <1>3 DEF TypeOK
<1>5. \A id \in Ids \ {call.id} : docker'[id] = docker[id]
  BY <1>t DEF TypeOK
<1>6. docker'[call.id] = docker[call.id] \/ docker'[call.id] = state
  BY <1>t DEF TypeOK
<1>7. lost \subseteq Ids /\ held \subseteq Ids /\ call.id \notin held \cup lost
  BY <1>t DEF IInv, ContainersOwned, TypeOK
<1>8. ContainersOwned'
  BY <1>t, <1>2, <1>4, <1>5, <1>6, <1>7 DEF IInv, ContainersOwned, Exists
<1>9. Named'
  BY <1>t, <1>1, <1>2, <1>5, <1>6, <1>7 DEF IInv, Named
<1> QED BY <1>8, <1>9 DEF IInv

-----------------------------------------------------------------------------
(* What goes on inside a call.                                             *)

\* A container that the daemon makes is new: the call has it, or nobody when no answer came.
LEMMA CreateStep == IInv /\ (Created \/ CreateFails) => IInv'
<1> SUFFICES ASSUME IInv, Created \/ CreateFails PROVE IInv'
  OBVIOUS
<1>t. TypeOK /\ call.at = "create" /\ Handling = {}
  BY DEF IInv, ContainersOwned, Created, CreateFails, At, Handling
<1>1. CASE Created
  <2> PICK id \in Fresh : /\ docker' = [docker EXCEPT ![id] = "created"]
                          /\ call' = [call EXCEPT !.at = "start", !.id = id]
    BY <1>1 DEF Created
  <2>u. UNCHANGED <<image, lost, cancelled, expired, writer, leftover, calls, held>>
    BY <1>1 DEF Created, contextVars, archiveVars
  <2>1. id \in Ids /\ docker[id] = "absent"
    BY DEF Fresh
  <2>2. /\ call' \in [op : Ops, at : Ats, id : Ids \cup {NoId}]
        /\ call'.at = "start" /\ call'.id = id
    BY <1>t, <2>1 DEF TypeOK, Ats
  <2>3. docker' \in [Ids -> {"absent", "created", "running", "exited", "removed"}]
    BY <1>t, <2>1 DEF TypeOK
  <2>4. docker'[id] = "created" /\ \A i \in Ids \ {id} : docker'[i] = docker[i]
    BY <1>t, <2>1 DEF TypeOK
  <2>5. TypeOK'
    BY <1>t, <2>u, <2>2, <2>3 DEF TypeOK
  <2>6. Handling' = {id}
    BY <2>2 DEF Handling
  <2>7. id \notin held \cup lost /\ held \subseteq Ids /\ lost \subseteq Ids
    BY <1>t, <2>1 DEF IInv, ContainersOwned, Named, TypeOK
  <2>8. ContainersOwned'
    BY <1>t, <2>u, <2>1, <2>4, <2>5, <2>6, <2>7 DEF IInv, ContainersOwned, Exists
  <2>9. Named'
    BY <2>u, <2>1, <2>2, <2>4, <2>6, <2>7 DEF IInv, Named
  <2> QED BY <2>8, <2>9 DEF IInv
<1>2. CASE CreateFails /\ UNCHANGED <<docker, lost>>
  BY <1>2, <1>t, ReturnsAlone DEF CreateFails, archiveVars, TypeOK, Handles
<1>3. CASE CreateFails /\ ~UNCHANGED <<docker, lost>>
  <2> PICK id \in Fresh : docker' = [docker EXCEPT ![id] = "created"] /\ lost' = lost \cup {id}
    BY <1>3 DEF CreateFails
  <2>u. UNCHANGED <<image, writer, leftover, calls, held>> /\ Return
    BY <1>3 DEF CreateFails, archiveVars
  <2>1. id \in Ids /\ docker[id] = "absent"
    BY DEF Fresh
  <2>2. /\ call' \in [op : Ops, at : Ats, id : Ids \cup {NoId}]
        /\ call'.at = "idle" /\ Handling' = {}
        /\ expired' \in BOOLEAN /\ cancelled' \in BOOLEAN
    BY <1>t, <2>u, ReturnTyped
  <2>3. docker' \in [Ids -> {"absent", "created", "running", "exited", "removed"}]
    BY <1>t, <2>1 DEF TypeOK
  <2>4. docker'[id] = "created" /\ \A i \in Ids \ {id} : docker'[i] = docker[i]
    BY <1>t, <2>1 DEF TypeOK
  <2>5. TypeOK'
    BY <1>t, <2>u, <2>1, <2>2, <2>3 DEF TypeOK
  <2>7. id \notin held \cup lost /\ held \subseteq Ids /\ lost \subseteq Ids
    BY <1>t, <2>1 DEF IInv, ContainersOwned, Named, TypeOK
  <2>8. ContainersOwned'
    BY <1>t, <2>u, <2>1, <2>2, <2>4, <2>5, <2>7 DEF IInv, ContainersOwned, Exists
  <2>9. Named'
    BY <2>u, <2>1, <2>2, <2>4, <2>7 DEF IInv, Named, Handles
  <2> QED BY <2>8, <2>9 DEF IInv
<1> QED BY <1>1, <1>2, <1>3

\* What has started goes to the caller, with its stop function.
LEMMA HandStep ==
  ASSUME IInv, call.at \in Handles, Return, held' = held \cup {call.id},
         UNCHANGED <<image, lost, writer, leftover, calls>>,
         \/ docker' = docker /\ docker[call.id] = "running"
         \/ docker' = [docker EXCEPT ![call.id] = "running"]
  PROVE  IInv'
<1>t. TypeOK /\ call.id \in Ids /\ Handling = {call.id}
  BY DEF IInv, ContainersOwned, Named, Handling, Handles
<1>1. /\ call' \in [op : Ops, at : Ats, id : Ids \cup {NoId}]
      /\ call'.at = "idle" /\ Handling' = {}
      /\ expired' \in BOOLEAN /\ cancelled' \in BOOLEAN
  BY <1>t, ReturnTyped
<1>2. /\ docker' \in [Ids -> {"absent", "created", "running", "exited", "removed"}]
      /\ docker'[call.id] = "running" /\ \A i \in Ids \ {call.id} : docker'[i] = docker[i]
  BY <1>t DEF TypeOK
<1>3. TypeOK'
  BY <1>t, <1>1, <1>2 DEF TypeOK
<1>4. call.id \notin held \cup lost /\ held \subseteq Ids /\ lost \subseteq Ids
  BY <1>t DEF IInv, ContainersOwned, TypeOK
<1>5. ContainersOwned'
  BY <1>t, <1>1, <1>2, <1>3, <1>4 DEF IInv, ContainersOwned, Exists
<1>6. Named'
  BY <1>1, <1>2, <1>4 DEF IInv, Named, Handles
<1> QED BY <1>5, <1>6 DEF IInv

\* A container that is removed no longer exists; one the daemon keeps is lost.
LEMMA RemoveStep == IInv /\ Remove => IInv'
<1> SUFFICES ASSUME IInv, Remove PROVE IInv'
  OBVIOUS
<1>u. UNCHANGED <<image, writer, leftover, calls, held>> /\ Return /\ call.at = "remove"
  BY DEF Remove, archiveVars, At
<1>t. TypeOK /\ call.id \in Ids /\ Handling = {call.id}
  BY <1>u DEF IInv, ContainersOwned, Named, Handling, Handles
<1>1. /\ call' \in [op : Ops, at : Ats, id : Ids \cup {NoId}]
      /\ call'.at = "idle" /\ Handling' = {}
      /\ expired' \in BOOLEAN /\ cancelled' \in BOOLEAN
  BY <1>t, <1>u, ReturnTyped
<1>2. \/ /\ docker' \in [Ids -> {"absent", "created", "running", "exited", "removed"}]
         /\ docker'[call.id] = "removed" /\ lost' = lost
         /\ \A i \in Ids \ {call.id} : docker'[i] = docker[i]
      \/ lost' = lost \cup {call.id} /\ docker' = docker
  BY <1>t DEF Remove, TypeOK
<1>3. TypeOK'
  BY <1>t, <1>u, <1>1, <1>2 DEF TypeOK
<1>4. call.id \notin held \cup lost /\ held \subseteq Ids /\ lost \subseteq Ids
  BY <1>t DEF IInv, ContainersOwned, TypeOK
<1>5. ContainersOwned'
  BY <1>t, <1>u, <1>1, <1>2, <1>3, <1>4 DEF IInv, ContainersOwned, Exists
<1>6. docker[call.id] # "absent"
  BY <1>t DEF IInv, Named
<1>7. Named'
  BY <1>u, <1>1, <1>2, <1>4, <1>6 DEF IInv, Named, Handles
<1> QED BY <1>5, <1>7 DEF IInv

\* A build, and the removal of its image, touch no container.
LEMMA BuildStep ==
  ASSUME IInv,
         \/ TarFails \/ TarStarts \/ UploadAnswered \/ UploadFails \/ LogEnds \/ LogFails
         \/ RemoveImage
  PROVE  IInv'
<1>t. TypeOK
  BY DEF IInv, ContainersOwned
<1>r. ASSUME BuildReturns, call.at \notin Handles, image' \in BOOLEAN PROVE IInv'
  <2>1. /\ Return /\ UNCHANGED <<docker, lost, calls, held>>
        /\ writer' = "none" /\ leftover' \in Nat
    BY <1>r, <1>t DEF BuildReturns, TypeOK
  <2> QED BY <1>r, <2>1, ReturnsAlone
<1>1. CASE TarFails
  BY <1>1, <1>t, ReturnsAlone DEF TarFails, At, Handles, daemonVars, archiveVars, TypeOK
<1>2. CASE TarStarts
  <2>1. /\ Goes("upload") /\ call.at = "tar" /\ writer' = "writing"
        /\ UNCHANGED <<docker, image, held, lost, calls, cancelled, expired, leftover>>
    BY <1>2 DEF TarStarts, At, daemonVars, contextVars
  <2> QED BY <2>1, GoesOn DEF Handles, Ats
<1>3. CASE UploadAnswered
  <2>1. /\ Goes("log") /\ call.at = "upload" /\ writer' = writer
        /\ UNCHANGED <<docker, image, held, lost, calls, cancelled, expired, leftover>>
    BY <1>3 DEF UploadAnswered, At, daemonVars, contextVars, archiveVars
  <2> QED BY <2>1, <1>t, GoesOn DEF Handles, Ats, TypeOK
<1>4. CASE UploadFails
  BY <1>4, <1>t, <1>r DEF UploadFails, At, Handles, TypeOK
<1>5. CASE LogEnds
  BY <1>5, <1>r DEF LogEnds, At, Handles
<1>6. CASE LogFails
  <2>1. image' = image \/ image' = TRUE
    BY <1>6 DEF LogFails
  <2>2. image' \in BOOLEAN
    BY <2>1, <1>t DEF TypeOK
  <2> QED BY <1>6, <2>2, <1>r DEF LogFails, At, Handles
<1>7. CASE RemoveImage
  <2>1. image' = image \/ image' = FALSE
    BY <1>7 DEF RemoveImage
  <2>2. image' \in BOOLEAN
    BY <2>1, <1>t DEF TypeOK
  <2>3. /\ Return /\ call.at = "removeImage"
        /\ UNCHANGED <<docker, lost, calls, held, writer, leftover>>
    BY <1>7 DEF RemoveImage, At, archiveVars
  <2> QED BY <2>2, <2>3, <1>t, ReturnsAlone DEF Handles, TypeOK
<1> QED BY <1>1, <1>2, <1>3, <1>4, <1>5, <1>6, <1>7

\* A start or inspection that fails leaves the container in the hands of the call.
LEMMA RunStep ==
  ASSUME IInv,
         Started \/ StartFails \/ Inspected \/ InspectFails \/ Stop
  PROVE  IInv'
<1>1. CASE Started /\ call.op = "StartSession"
  <2>1. /\ call.at = "start" /\ Return /\ held' = held \cup {call.id}
        /\ docker' = [docker EXCEPT ![call.id] = "running"]
        /\ UNCHANGED <<image, lost, writer, leftover, calls>>
    BY <1>1 DEF Started, At, Hand, archiveVars
  <2> QED BY <2>1, HandStep DEF Handles
<1>2. CASE Started /\ call.op # "StartSession"
  <2>1. /\ call.at = "start" /\ Goes("inspect")
        /\ docker' = [docker EXCEPT ![call.id] = "running"]
        /\ UNCHANGED <<image, lost, cancelled, expired, writer, leftover, calls, held>>
    BY <1>2 DEF Started, At, contextVars, archiveVars
  <2> QED BY <2>1, ChangesInHand DEF Handles
<1>3. CASE StartFails
  <2>1. /\ call.at = "start" /\ Goes("remove")
        /\ \/ docker' = docker
           \/ docker' = [docker EXCEPT ![call.id] = "running"]
        /\ UNCHANGED <<image, lost, cancelled, expired, writer, leftover, calls, held>>
    BY <1>3 DEF StartFails, At, contextVars, archiveVars
  <2> QED BY <2>1, ChangesInHand DEF Handles
<1>4. CASE Inspected
  <2>1. /\ call.at = "inspect" /\ Return /\ held' = held \cup {call.id}
        /\ docker' = docker /\ docker[call.id] = "running"
        /\ UNCHANGED <<image, lost, writer, leftover, calls>>
    BY <1>4 DEF Inspected, At, Hand, archiveVars
  <2> QED BY <2>1, HandStep DEF Handles
<1>5. CASE InspectFails
  <2>1. /\ call.at = "inspect" /\ Goes("stop") /\ writer' = writer
        /\ UNCHANGED <<docker, image, held, lost, calls, cancelled, expired, leftover>>
    BY <1>5 DEF InspectFails, At, daemonVars, contextVars, archiveVars
  <2> QED BY <2>1, ChangesInHand DEF Handles
<1>6. CASE Stop
  <2>1. /\ call.at = "stop" /\ Goes("remove")
        /\ \/ docker' = docker
           \/ docker' = [docker EXCEPT ![call.id] = "exited"]
        /\ UNCHANGED <<image, lost, cancelled, expired, writer, leftover, calls, held>>
    BY <1>6 DEF Stop, At, contextVars, archiveVars
  <2> QED BY <2>1, ChangesInHand DEF Handles
<1> QED BY <1>1, <1>2, <1>3, <1>4, <1>5, <1>6

\* A wait or an exec, step by step.
LEMMA UseStep ==
  ASSUME IInv,
         \/ ProbeAnswered \/ ProbeFails \/ Tick \/ WaitFails
         \/ ExecCreated \/ Attached \/ OutputEnds \/ ExecInspected \/ ExecFails
  PROVE  IInv'
<1>t. TypeOK
  BY DEF IInv, ContainersOwned
<1>e. ASSUME EndCall, call.at \notin Handles PROVE IInv'
  BY <1>e, <1>t, ReturnsAlone DEF EndCall, daemonVars, archiveVars, TypeOK
<1>s. ASSUME NEW at \in Ats \ Handles, Step(at), call.at \notin Handles,
             at \in {"probe", "wait"} => call.at \in {"probe", "wait"}
      PROVE  IInv'
  <2>1. /\ Goes(at) /\ writer' = writer
        /\ UNCHANGED <<docker, image, held, lost, calls, cancelled, expired, leftover>>
    BY <1>s DEF Step, daemonVars, contextVars, archiveVars
  <2> QED BY <2>1, <1>s, <1>t, GoesOn DEF TypeOK
<1>1. CASE ProbeAnswered \/ WaitFails
  BY <1>1, <1>e DEF ProbeAnswered, WaitFails, At, Handles
<1>2. CASE ExecInspected \/ ExecFails
  BY <1>2, <1>e DEF ExecInspected, ExecFails, At, Handles
<1>3. CASE ProbeFails
  BY <1>3, <1>s DEF ProbeFails, At, Handles, Ats
<1>4. CASE Tick
  BY <1>4, <1>s DEF Tick, At, Handles, Ats
<1>5. CASE ExecCreated
  BY <1>5, <1>s DEF ExecCreated, At, Handles, Ats
<1>6. CASE Attached
  BY <1>6, <1>s DEF Attached, At, Handles, Ats
<1>7. CASE OutputEnds
  BY <1>7, <1>s DEF OutputEnds, At, Handles, Ats
<1> QED BY <1>1, <1>2, <1>3, <1>4, <1>5, <1>6, <1>7

-----------------------------------------------------------------------------
(* What happens around the calls.                                          *)

\* Archive writers, deadlines and exiting containers change no owner.
LEMMA AroundStep ==
  ASSUME IInv, WriteAll \/ WalkFails \/ Expire \/ ContainerExits \/ FindsPipeClosed
  PROVE  IInv'
<1>t. TypeOK
  BY DEF IInv, ContainersOwned
<1>1. CASE ContainerExits
  <2> PICK id \in Ids : docker[id] = "running" /\ docker' = [docker EXCEPT ![id] = "exited"]
    BY <1>1 DEF ContainerExits
  <2>u. UNCHANGED <<image, lost, cancelled, expired, writer, leftover, call, calls, held>>
    BY <1>1 DEF ContainerExits, contextVars, archiveVars
  <2>1. /\ docker' \in [Ids -> {"absent", "created", "running", "exited", "removed"}]
        /\ docker'[id] = "exited" /\ \A i \in Ids \ {id} : docker'[i] = docker[i]
    BY <1>t DEF TypeOK
  <2>2. TypeOK'
    BY <1>t, <2>u, <2>1 DEF TypeOK
  <2>3. Handling' = Handling /\ Handling \subseteq Ids /\ lost \subseteq Ids /\ held \subseteq Ids
    BY <1>t, <2>u DEF Handling, IInv, Named, Handles, TypeOK
  <2>4. ContainersOwned'
    BY <2>u, <2>1, <2>2, <2>3 DEF IInv, ContainersOwned, Exists
  <2>5. Named'
    BY <2>u, <2>1, <2>3 DEF IInv, Named
  <2> QED BY <2>4, <2>5 DEF IInv
<1>2. CASE WriteAll \/ WalkFails \/ Expire \/ FindsPipeClosed
  <2>1. UNCHANGED <<docker, held, lost, call, calls, image>>
    BY <1>2 DEF WriteAll, WalkFails, Expire, FindsPipeClosed, daemonVars, archiveVars,
                contextVars
  <2>2. /\ writer' \in {"none", "writing", "whole", "failed"} /\ leftover' \in Nat
        /\ cancelled' \in BOOLEAN /\ expired' \in BOOLEAN
    <3>1. CASE WriteAll \/ WalkFails
      BY <3>1, <1>t DEF WriteAll, WalkFails, contextVars, TypeOK
    <3>2. CASE Expire
      BY <3>2, <1>t DEF Expire, archiveVars, TypeOK
    <3>3. CASE FindsPipeClosed
      <4>1. leftover' \in Nat
        BY <3>3, <1>t DEF FindsPipeClosed, TypeOK
      <4> QED BY <3>3, <4>1, <1>t DEF FindsPipeClosed, contextVars, TypeOK
    <3> QED BY <1>2, <3>1, <3>2, <3>3
  <2>3. TypeOK'
    BY <1>t, <2>1, <2>2 DEF TypeOK
  <2> QED BY <2>1, <2>3, SameOwners DEF IInv, Named, Handling
<1> QED BY <1>1, <1>2

\* Every step preserves the invariant.
LEMMA Inductive == IInv /\ [Next]_vars => IInv'
<1> SUFFICES ASSUME IInv, [Next]_vars PROVE IInv'
  OBVIOUS
<1>1. CASE Caller BY <1>1, CallerStep
<1>2. CASE Manager
  BY <1>2, BuildStep, CreateStep, RunStep, RemoveStep, UseStep DEF Manager
<1>3. CASE Environment BY <1>3, AroundStep, UseStep DEF Environment
<1>4. CASE FindsPipeClosed BY <1>4, AroundStep
<1>5. CASE UNCHANGED vars
  BY <1>5 DEF vars, IInv, ContainersOwned, Named, TypeOK, Handling, Exists
<1> QED BY <1>1, <1>2, <1>3, <1>4, <1>5 DEF Next, Terminating

\* Run, RunMultiPort and StartSession give the container to the caller or take it away
\* themselves, wherever they fail and whatever is cancelled: none that exists is without
\* an owner, but those of which the daemon did not say that it made or kept them.
THEOREM Owned == Spec => []ContainersOwned
<1>1. IInv => ContainersOwned BY DEF IInv
<1> QED BY InitInv, Inductive, <1>1, PTL DEF Spec
=============================================================================
