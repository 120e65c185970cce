------------------------------- MODULE Runner -------------------------------
(***************************************************************************)
(* Runner.Run (internal/scenario/runner.go): one scenario, from its file   *)
(* (loader.go) through its setup steps, which must all succeed, and its    *)
(* judged steps, whose failures are recorded, with retries, captures and   *)
(* the substitution of what was captured (http.go, exec.go, browser.go).   *)
(*                                                                         *)
(* A step fails "by itself" for what stands in the file, or as the system  *)
(* under test makes it, which is open.  How long durations are is left out:*)
(* one that parses may be enough.  What the executors keep open between    *)
(* steps is in Streams.                                                    *)
(***************************************************************************)
EXTENDS Lint

CONSTANTS
  Files,           \* the scenario files
  DefaultAttempts, \* defaultRetryAttempts
  AutoIds          \* the IDs that background streams without one are given, in order

\* The lists of a file that a run walks through are sequences.
IsSequence(s) == s \in Seq({s[i] : i \in DOMAIN s})

ASSUME RunnerAssumption ==
  /\ DefaultAttempts \in Nat \ {0}
  /\ \A f \in Files :
       /\ IsSequence(ItemsAt(f, "setup")) /\ IsSequence(ItemsAt(f, "steps"))
       /\ \A i \in DOMAIN AllSteps(f) : IsSequence(ItemsAt(AllSteps(f)[i], "capture"))

VARIABLES
  file,      \* the scenario, the same throughout
  lint,      \* what the linter says of it
  pc,        \* "load", "step", "attempt", "wait", "capture", "done" or "failed"
  step,      \* the step that runs, setup first
  attempt,   \* attempts begun for it
  expired,   \* the deadline of its retries has passed
  fatal,     \* what made the run fail, if it did
  bound,     \* names captured so far
  results,   \* how each judged step ended
  literal,   \* <<i, name>>: step i was executed with {name} left as it is
  uncaught   \* <<i, name>>: step i ended without capturing name

vars == <<file, lint, pc, step, attempt, expired, bound, fatal, results, literal, uncaught>>

-----------------------------------------------------------------------------
(* Load: the file as the typed structures of types.go.                     *)

\* The types of the fields, by the structure they stand in; what stands under no known
\* name is ignored.
FieldTypes == [
  file |-> [id |-> "string", type |-> "string", weight |-> "number", tier |-> "number",
            description |-> "string", component |-> "string",
            satisfaction_criteria |-> "string", setup |-> "list", steps |-> "list"],
  step |-> [delay |-> "string", description |-> "string", expect |-> "string",
            request |-> "mapping", exec |-> "mapping", browser |-> "mapping", grpc |-> "mapping",
            ws |-> "mapping", tui |-> "mapping", retry |-> "mapping", capture |-> "list"],
  request |-> [method |-> "string", path |-> "string", headers |-> "strings"],
  exec |-> [command |-> "string", stdin |-> "string", timeout |-> "string",
            env |-> "strings", files |-> "strings"],
  browser |-> [action |-> "string", url |-> "string", selector |-> "string", value |-> "string",
               text |-> "string", text_absent |-> "string", count |-> "number",
               timeout |-> "string"],
  grpc |-> [service |-> "string", method |-> "string", body |-> "string", timeout |-> "string",
            headers |-> "strings", stream |-> "mapping"],
  stream |-> [id |-> "string", messages |-> "texts", receive |-> "mapping"],
  ws |-> [url |-> "string", id |-> "string", send |-> "string", receive |-> "mapping"],
  grpcReceive |-> [timeout |-> "string", count |-> "number", background |-> "number"],
  wsReceive |-> [timeout |-> "string", count |-> "number"],
  tui |-> [f \in TUIActions \cup {"command", "timeout"} |-> "string"],
  retry |-> [attempts |-> "number", interval |-> "string", timeout |-> "string"],
  capture |-> [name |-> "string", jsonpath |-> "string", source |-> "string"]]

\* A null, which every field takes.
Null(n) == n.kind = "scalar" /\ n.text \in {"", "null"}

Fits(n, type) ==
  \/ Null(n)
  \/ type = "string" /\ n.kind = "scalar"
  \/ type = "number" /\ n.kind = "scalar" /\ n.text # "bad"
  \/ type \in {"mapping", "list"} /\ n.kind = type
  \/ type = "strings" /\ n.kind = "mapping" /\ \A f \in DOMAIN n.fields : n.fields[f].kind = "scalar"
  \/ type = "texts" /\ n.kind = "list" /\ \A i \in DOMAIN n.items : n.items[i].kind = "scalar"

Decodes(n, structure) ==
  LET types == FieldTypes[structure]
  IN  /\ Fits(n, "mapping")
      /\ \A f \in DOMAIN types \cap DOMAIN Fields(n) : Fits(At(n, f), types[f])
DecodesAt(n, f, structure) == Has(n, f) => Decodes(At(n, f), structure)

BodyLoads(n, t) ==
  /\ Decodes(n, t)
  /\ t = "grpc" => /\ DecodesAt(n, "stream", "stream")
                    /\ Has(n, "stream") => DecodesAt(At(n, "stream"), "receive", "grpcReceive")
  /\ t = "ws" => DecodesAt(n, "receive", "wsReceive")

StepLoads(s) ==
  /\ Decodes(s, "step") /\ DecodesAt(s, "retry", "retry")
  /\ \A t \in TypesOf(s) : BodyLoads(At(s, t), t)
  /\ \A i \in DOMAIN ItemsAt(s, "capture") : Decodes(ItemsAt(s, "capture")[i], "capture")

\* The string a field is read as.
Read(n, f) == IF ValueAt(n, f) = "null" THEN "" ELSE ValueAt(n, f)
Given(n, f) == Read(n, f) # ""

\* parseScenario
Loads ==
  /\ Decodes(file, "file") /\ Given(file, "id")
  /\ \A i \in DOMAIN AllSteps(file) : StepLoads(AllSteps(file)[i])

-----------------------------------------------------------------------------
(* What a step does.                                                       *)

StepAt(sc, i) == AllSteps(sc)[i]
Current == StepAt(file, step)
IsSetup == step <= SetupSteps(file)

\* StepType: the first of the types a step has.
Precedence == <<"request", "exec", "browser", "grpc", "ws", "tui">>
Present(s) == {i \in DOMAIN Precedence : Has(s, Precedence[i]) /\ ~Null(At(s, Precedence[i]))}
Typed(s) == Present(s) # {}
StepType(s) == Precedence[CHOOSE i \in Present(s) : \A j \in Present(s) : i <= j]
Body(s) == At(s, StepType(s))

\* The messages of a gRPC step's stream.
Messages(n) == IF Has(n, "stream") THEN ItemsAt(At(n, "stream"), "messages") ELSE <<>>

\* The references a step's execution replaces: those of a JSON body too.
Substituted(s) ==
  LET n == Body(s)
  IN  CASE StepType(s) = "request" ->
             RefsAt(n, {"path", "body"}) \cup RefsUnder(n, "headers") \cup RefsUnder(n, "body")
        [] StepType(s) = "exec" ->
             RefsAt(n, {"command", "stdin"}) \cup RefsUnder(n, "env") \cup RefsUnder(n, "files")
        [] StepType(s) = "browser" ->
             RefsAt(n, {"url", "selector", "value", "text", "text_absent"})
        [] StepType(s) = "grpc" ->
             RefsAt(n, {"service", "method", "body"}) \cup RefsUnder(n, "headers")
             \cup UNION {Refs(Messages(n)[i]) : i \in DOMAIN Messages(n)}
        [] StepType(s) = "ws" -> RefsAt(n, {"url", "id", "send"})
        [] StepType(s) = "tui" -> RefsAt(n, TUIActions \cup {"command"})

\* validateBrowserRequest
ActionNeeds == [navigate |-> {"url"}, click |-> {"selector"}, fill |-> {"selector", "value"},
                assert |-> {"selector"}]
BrowserIncomplete(n) ==
  \/ ValueAt(n, "timeout") = "bad" \/ Read(n, "action") \notin DOMAIN ActionNeeds
  \/ \E f \in ActionNeeds[Read(n, "action")] : ~Given(n, f)

\* A gRPC step without a service collects from the background stream it names.
Collects(n) == ~Given(n, "service") /\ Has(n, "stream") /\ Given(At(n, "stream"), "id")
GRPCIncomplete(n) ==
  ~Collects(n) /\ (~Given(n, "service") \/ ~Given(n, "method") \/ ValueAt(n, "timeout") = "bad")

Retried(s) == Has(s, "retry") /\ ~Null(At(s, "retry"))
Attempts(s) ==
  IF ~Retried(s) THEN 1
  ELSE IF ValueAt(At(s, "retry"), "attempts") = "ok" THEN 2 ELSE DefaultAttempts
RetryInvalid(s) ==
  Retried(s) /\ \E f \in {"interval", "timeout"} : ValueAt(At(s, "retry"), f) = "bad"
HasDeadline(s) == Retried(s) /\ ValueAt(At(s, "retry"), "timeout") = "ok"

\* What applyDelay, resolveExecutor and executeWithRetry refuse before an attempt.
Invalid(s) == ValueAt(s, "delay") = "bad" \/ ~Typed(s) \/ RetryInvalid(s)

\* What an executor refuses of the step alone.  A receive timeout that does not parse
\* only warns, a count below one is one.
Incomplete(s) ==
  LET n == Body(s)
  IN  CASE StepType(s) \in {"exec", "tui"} -> ValueAt(n, "timeout") = "bad"
        [] StepType(s) = "browser" -> BrowserIncomplete(n)
        [] StepType(s) = "grpc" -> GRPCIncomplete(n)
        [] StepType(s) \in {"request", "ws"} -> FALSE

\* A text that its field does not take, whatever the known names stand for.
Unfit(n, known) ==
  n.kind = "scalar" /\ (n.text = "bad" \/ (n.text = "raw" /\ ~(n.refs \subseteq known)))
UnfitAt(n, fs, known) == \E f \in fs \cap DOMAIN Fields(n) : Unfit(At(n, f), known)
\* In a mapping, of headers or for a JSON body, a key may be "illegal" too.
UnfitUnder(n, f, known) ==
  Has(n, f) /\ LET m == At(n, f)
               IN  "illegal" \in DOMAIN Fields(m) \/ UnfitAt(m, DOMAIN Fields(m), known)

\* A gRPC step sends its messages, or else its body.
MessagesUnfit(n, known) ==
  IF Messages(n) = <<>> THEN UnfitAt(n, {"body"}, known)
  ELSE \E i \in DOMAIN Messages(n) : Null(Messages(n)[i]) \/ Unfit(Messages(n)[i], known)

\* What nothing takes that the executor hands it to: no URL, no JSON for the message, no
\* selector, a file where a directory is, a key that mapKey does not know.
Misformed(s, known) ==
  LET n == Body(s)
  IN  CASE StepType(s) = "request" ->
             \/ UnfitAt(n, {"method", "path", "body"}, known)
             \/ UnfitUnder(n, "headers", known) \/ UnfitUnder(n, "body", known)
        [] StepType(s) = "exec" ->
             Has(n, "files") /\ "directory" \in DOMAIN Fields(At(n, "files"))
        [] StepType(s) = "browser" ->
             UnfitAt(n, IF Read(n, "action") = "navigate" THEN {"url"} ELSE {"selector"}, known)
        [] StepType(s) = "grpc" ->
             /\ ~Collects(n)
             /\ \/ UnfitAt(n, {"service", "method"}, known) \/ UnfitUnder(n, "headers", known)
                \/ MessagesUnfit(n, known)
        [] StepType(s) = "ws" -> FALSE
        [] StepType(s) = "tui" -> UnfitAt(n, {"send_key"}, known)

\* launchProcess: the step leaves a process behind for later ones.
Launches(s) ==
  ~Invalid(s) /\ StepType(s) = "tui" /\ ~Incomplete(s) /\ Given(Body(s), "command")

\* connect: the connection a step dials or uses, and whether two may be the same.
Dials(s) == ~Invalid(s) /\ StepType(s) = "ws" /\ Given(Body(s), "url")
ConnectionId(n) == IF Given(n, "id") THEN At(n, "id") ELSE Scalar("default", {})
MayBeSame(a, b) == a = b \/ Refs(a) \cup Refs(b) # {}

\* startBackgroundStream: the earlier steps that start one, and the IDs these have.
Starts(sc, i) ==
  LET s == StepAt(sc, i)
      stream == At(Body(s), "stream")
  IN  /\ ~Invalid(s) /\ StepType(s) = "grpc" /\ ~Collects(Body(s))
      /\ ~Incomplete(s) /\ ~Misformed(s, BoundAt(sc, i))
      /\ Messages(Body(s)) = <<>> /\ Has(Body(s), "stream") /\ Has(stream, "receive")
      /\ ValueAt(At(stream, "receive"), "background") = "true"
StreamIds(sc, starting) ==
  LET Id(i) == Read(At(Body(StepAt(sc, i)), "stream"), "id")
      unnamed == {i \in starting : Id(i) = ""}
  IN  {Id(i) : i \in starting \ unnamed} \cup {AutoIds[k] : k \in 1..Cardinality(unnamed)}

\* What no earlier step can have got ready: the process that a tui step talks to, the
\* connection a ws step without a URL uses, the stream that a gRPC step collects from.
Unready(sc, i) ==
  LET n == Body(StepAt(sc, i))
      earlier == 1..(i - 1)
  IN  CASE StepType(StepAt(sc, i)) = "tui" ->
             /\ ~Given(n, "command") /\ \E f \in {"send_key", "send_text", "wait_for"} : Given(n, f)
             /\ ~\E j \in earlier : Launches(StepAt(sc, j))
        [] StepType(StepAt(sc, i)) = "ws" ->
             /\ ~Given(n, "url")
             /\ ~\E j \in earlier :
                  Dials(StepAt(sc, j)) /\ MayBeSame(ConnectionId(Body(StepAt(sc, j))), ConnectionId(n))
        [] StepType(StepAt(sc, i)) = "grpc" ->
             Collects(n) /\ Read(At(n, "stream"), "id") \notin StreamIds(sc, {j \in earlier : Starts(sc, j)})
        [] OTHER -> FALSE

\* What makes every attempt of a step fail, whatever the system under test does.
FailsByItself(sc, i) ==
  Incomplete(StepAt(sc, i)) \/ Misformed(StepAt(sc, i), BoundAt(sc, i)) \/ Unready(sc, i)

\* What an executor gives up when the deadline of the retries passes.  What comes of a
\* command that is killed or a gRPC call that is cut off is a result; the others do not
\* look at the context.
CutOff(s) ==
  \/ StepType(s) \in {"request", "browser"}
  \/ StepType(s) = "ws" /\ (Given(Body(s), "url") \/ Given(Body(s), "send"))

Captures(s) == ItemsAt(s, "capture")

\* A capture that cannot be made: neither source nor path, or a path that is none.
CaptureInvalid(c) ==
  IF ValueAt(c, "jsonpath") # "" THEN ValueAt(c, "jsonpath") = "bad"
  ELSE ValueAt(c, "source") = ""

-----------------------------------------------------------------------------
(* Run.                                                                    *)

Init ==
  /\ file \in Files /\ lint = LintScenario(file)
  /\ pc = "load" /\ step = 1 /\ attempt = 0 /\ expired = FALSE
  /\ fatal = "none" /\ bound = {} /\ results = <<>> /\ literal = {} /\ uncaught = {}

Load ==
  /\ pc = "load"
  /\ IF Loads THEN pc' = "step" /\ UNCHANGED fatal ELSE pc' = "failed" /\ fatal' = "load"
  /\ UNCHANGED <<file, lint, step, attempt, expired, bound, results, literal, uncaught>>

Missing(captures, from) ==
  {<<step, v>> : v \in CaptureNames(SubSeq(captures, from, Len(captures)))}

\* The step is over: a failed setup step ends the run, a judged one is recorded.
EndStep(how) ==
  /\ IF IsSetup /\ how # "ok"
     THEN pc' = "failed" /\ fatal' = how /\ UNCHANGED <<step, results>>
     ELSE /\ pc' = "step" /\ step' = step + 1 /\ UNCHANGED fatal
          /\ results' = IF IsSetup THEN results ELSE Append(results, how)
  /\ attempt' = 0 /\ expired' = FALSE

StepError(how) ==
  /\ EndStep(how) /\ uncaught' = uncaught \cup Missing(Captures(Current), 1)
  /\ UNCHANGED <<file, lint, bound, literal>>

\* applyDelay, resolveExecutor and what executeWithRetry reads first.
StartStep ==
  /\ pc = "step" /\ step <= Len(AllSteps(file))
  /\ \/ Invalid(Current) /\ StepError("itself")
     \/ /\ ~Invalid(Current) /\ pc' = "attempt"
        /\ UNCHANGED <<file, lint, step, attempt, expired, bound, fatal, results, literal,
                       uncaught>>

Deadline ==
  /\ pc \in {"attempt", "wait"} /\ HasDeadline(Current) /\ ~expired /\ expired' = TRUE
  /\ UNCHANGED <<file, lint, pc, step, attempt, bound, fatal, results, literal, uncaught>>

Literal == literal \cup {<<step, v>> : v \in Substituted(Current) \ bound}

\* Seeded fault: an attempt that is not counted.
ExecutedUncounted == literal' = Literal /\ UNCHANGED attempt

Executed == literal' = Literal /\ attempt' = attempt + 1

\* An attempt may succeed unless its step fails by itself or holds a placeholder, left for
\* want of a capture, that nothing takes.  Attempts begun after the deadline and those it
\* cuts off are not told apart.
AttemptSucceeds ==
  /\ pc = "attempt" /\ ~FailsByItself(file, step) /\ ~Misformed(Current, bound)
  /\ ~(expired /\ CutOff(Current))
  /\ Executed /\ pc' = "capture"
  /\ UNCHANGED <<file, lint, step, expired, bound, fatal, results, uncaught>>

\* Seeded fault: one attempt too many.
MoreAttemptsLate == attempt < Attempts(Current)

MoreAttempts == attempt + 1 < Attempts(Current)

Failure(otherwise) == IF FailsByItself(file, step) THEN "itself" ELSE otherwise

AttemptFails ==
  /\ pc = "attempt" /\ MoreAttempts
  /\ Executed /\ pc' = "wait"
  /\ UNCHANGED <<file, lint, step, expired, bound, fatal, results, uncaught>>

LastAttemptFails ==
  /\ pc = "attempt" /\ ~MoreAttempts
  /\ literal' = Literal /\ EndStep(Failure("system"))
  /\ uncaught' = uncaught \cup Missing(Captures(Current), 1)
  /\ UNCHANGED <<file, lint, bound>>

\* Both may be ready at once.
WaitOver ==
  /\ pc = "wait" /\ pc' = "attempt"
  /\ UNCHANGED <<file, lint, step, attempt, expired, bound, fatal, results, literal, uncaught>>
WaitExpires == pc = "wait" /\ expired /\ StepError(Failure("deadline"))

\* applyCaptures stops at the first that fails.  A judged step stays a success.
Capture ==
  /\ pc = "capture"
  /\ LET captures == Captures(Current)
     IN  \E made \in 0..Len(captures) :
           /\ \A i \in 1..made : ~CaptureInvalid(captures[i])
           /\ made < Len(captures) =>
                \/ CaptureInvalid(captures[made + 1])
                \/ ValueAt(captures[made + 1], "jsonpath") # ""
           /\ bound' = bound \cup CaptureNames(SubSeq(captures, 1, made))
           /\ uncaught' = uncaught \cup Missing(captures, made + 1)
           /\ EndStep(IF made = Len(captures) \/ ~IsSetup THEN "ok" ELSE "system")
  /\ UNCHANGED <<file, lint, literal>>

Finish ==
  /\ pc = "step" /\ step > Len(AllSteps(file)) /\ pc' = "done"
  /\ UNCHANGED <<file, lint, step, attempt, expired, bound, fatal, results, literal, uncaught>>

Terminating == pc \in {"done", "failed"} /\ UNCHANGED vars

Next ==
  \/ Load \/ StartStep \/ Deadline \/ AttemptSucceeds \/ AttemptFails \/ LastAttemptFails
  \/ WaitOver \/ WaitExpires \/ Capture \/ Finish \/ Terminating

\* Attempts that nothing need end: Session.Exec writes its input and reads the output with
\* no regard to a deadline, Chrome and a background stream are started under contexts that
\* have none, dialling and writing to a connection end only at the deadline of the retries,
\* and a process may leave what is typed unread.  HTTP requests, gRPC calls and waiting for
\* messages or a screen have timeouts.
Unbounded(s) ==
  CASE StepType(s) = "request" -> FALSE
    [] StepType(s) \in {"exec", "browser"} -> TRUE
    [] StepType(s) = "grpc" -> Starts(file, step)
    [] StepType(s) = "ws" -> ~expired /\ CutOff(s)
    [] StepType(s) = "tui" -> Given(Body(s), "send_key") \/ Given(Body(s), "send_text")

AttemptEnds ==
  /\ pc = "attempt" /\ ~Unbounded(Current)
  /\ AttemptSucceeds \/ AttemptFails \/ LastAttemptFails

\* Timers fire, attempts under a timeout end, and the runner goes on.
Fairness ==
  /\ WF_vars(Load \/ StartStep \/ AttemptEnds \/ WaitOver \/ WaitExpires \/ Capture \/ Finish)
  /\ WF_vars(Deadline)

Spec == Init /\ [][Next]_vars /\ Fairness

-----------------------------------------------------------------------------
(* Properties.                                                             *)

\* What the linter does not look for.  A null that is written is a text to it, and nothing
\* to the loader; a gRPC step with a stream and no service collects, though the stream may
\* have no ID; and it looks neither into texts, for what their field takes, nor for what an
\* earlier step has to get ready.
Blank(s) ==
  \E f \in CASE StepType(s) = "browser" -> ActionNeeds[Read(Body(s), "action")]
             [] StepType(s) = "grpc" -> {"service", "method"}
             [] OTHER -> {} :
    ValueAt(Body(s), f) = "null"
Anonymous(s) ==
  StepType(s) = "grpc" /\ ~Has(Body(s), "service") /\ ~Given(At(Body(s), "stream"), "id")
Overlooked(sc, i) ==
  LET s == StepAt(sc, i)
  IN  Typed(s) /\ (Misformed(s, BoundAt(sc, i)) \/ Unready(sc, i) \/ Blank(s) \/ Anonymous(s))

\* In a file that the linter finds no error in, and that loads, a step fails for what
\* stands in it only where the linter is known not to look: its delay, its type, its retry,
\* its timeout and the fields its executor cannot do without, which runner and executors
\* check again, are all in order.
CleanNeverFailsItself ==
  ~HasErrors(lint) =>
    /\ \A i \in DOMAIN results : results[i] = "itself" => Overlooked(file, SetupSteps(file) + i)
    /\ fatal = "itself" => Overlooked(file, step)

\* What the linter does not look at: the values of a request body written as a mapping,
\* which are substituted all the same, and those of fields a step has no use for.
Unlinted(s) ==
  CASE StepType(s) = "request" -> RefsUnder(Body(s), "body")
    [] StepType(s) = "browser" ->
         RefsAt(Body(s), {"url", "selector", "value"} \ ActionNeeds[ValueAt(Body(s), "action")])
    [] StepType(s) = "grpc" -> IF Has(Body(s), "service") THEN {} ELSE RefsAt(Body(s), {"method"})
    [] OTHER -> {}

\* A step is given a literal {name} that an earlier step should have captured only when
\* an earlier judged step has failed to: failures of setup steps end the run.  And a
\* name no earlier step captures does not come up in a file that the linter has found
\* neither errors nor unbound references in, but where it does not look.
LiteralOnlyAfterFailure ==
  \A l \in literal :
    IF l[2] \in BoundAt(file, l[1])
    THEN \E j \in (SetupSteps(file) + 1)..(l[1] - 1) : <<j, l[2]>> \in uncaught
    ELSE ~HasErrors(lint) /\ (\A d \in lint : d.what[1] # "unbound") =>
           l[2] \in Unlinted(AllSteps(file)[l[1]])

\* The places of a step in their order; attempts and the waits between them are one.
Stage ==
  [load |-> 1, step |-> 2, attempt |-> 3, wait |-> 3, capture |-> 4, done |-> 5, failed |-> 5]

\* What an action may do: it starts the next step of the file, goes on within the one at
\* hand, makes one of its attempts, ends the wait before one, or is the deadline, which
\* comes once; and no step has more attempts than its retry asks for.
Moves ==
  /\ \/ step' = step + 1 /\ step' <= Len(AllSteps(file)) + 1
     \/ /\ step' = step
        /\ \/ Stage[pc'] > Stage[pc]
           \/ pc = "attempt" /\ pc' = "wait" /\ attempt' = attempt + 1 /\ expired' = expired
           \/ pc = "wait" /\ pc' = "attempt" /\ attempt' = attempt /\ expired' = expired
           \/ pc' = pc /\ attempt' = attempt /\ ~expired /\ expired'
  /\ attempt' > 0 => attempt' <= Attempts(Current)

\* Why a run whose attempts end is over at last: every action uses up steps, places,
\* attempts or the deadline, whatever the system under test answers (executeWithRetry).
MovesOn == [][Moves]_vars

\* Every run of a scenario ends, unless an attempt that nothing need end never does: no
\* retry, no wait and no other step keeps it going.
RunEnds == <>(pc \in {"done", "failed"}) \/ <>[](pc = "attempt" /\ Unbounded(Current))

=============================================================================
