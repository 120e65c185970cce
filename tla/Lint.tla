-------------------------------- MODULE Lint --------------------------------
(***************************************************************************)
(* A scenario file as the linter reads it (internal/lint/scenario.go and   *)
(* varcheck.go): a tree of YAML nodes, and the diagnostics of each check.  *)
(*                                                                         *)
(* A scalar's text is "" when it is empty, "null" for a null that is       *)
(* written, "bad" when it is nothing its field takes (a duration that does *)
(* not parse, a count that is no number, a body that is no JSON), "raw"    *)
(* when it is something only once its references are replaced, "zero" for  *)
(* a number too small, and otherwise "ok" or the word that matters.  Its   *)
(* references are the {names} in it; those in the keys of a mapping are    *)
(* left out, as are the duplicate IDs of a directory.                      *)
(***************************************************************************)
EXTENDS Naturals, Sequences, FiniteSets

CONSTANT Names   \* names of variables: what captureNamePat matches

Scalar(text, refs) == [kind |-> "scalar", text |-> text, refs |-> refs]
Mapping(fields) == [kind |-> "mapping", fields |-> fields]
List(items) == [kind |-> "list", items |-> items]

StepTypes == {"request", "exec", "browser", "grpc", "ws", "tui"}

\* What each executor can be asked for by a capture's "source".
ValidCaptureSources == [t \in {"exec", "browser", "grpc", "tui"} |->
  CASE t = "exec" -> {"stdout", "stderr", "exitcode"}
    [] t = "browser" -> {"text", "html", "count", "location", "value"}
    [] t = "grpc" -> {"status", "headers"}
    [] t = "tui" -> {"screen", "exit_code"}]

-----------------------------------------------------------------------------
(* Reading nodes.  A node that is no scalar has an empty value.            *)

Fields(n) == IF n.kind = "mapping" THEN n.fields ELSE <<>>
Items(n) == IF n.kind = "list" THEN n.items ELSE <<>>
Has(n, f) == f \in DOMAIN Fields(n)
At(n, f) == Fields(n)[f]
Value(n) == IF n.kind = "scalar" THEN n.text ELSE ""
ValueAt(n, f) == IF Has(n, f) THEN Value(At(n, f)) ELSE ""
Refs(n) == IF n.kind = "scalar" THEN n.refs ELSE {}
RefsAt(n, fs) == UNION {Refs(At(n, f)) : f \in fs \cap DOMAIN Fields(n)}
RefsUnder(n, f) ==
  IF Has(n, f) THEN RefsAt(At(n, f), DOMAIN Fields(At(n, f))) ELSE {}
ItemsAt(n, f) == IF Has(n, f) THEN Items(At(n, f)) ELSE <<>>

Error(what) == {[level |-> "error", what |-> <<what>>]}
Warning(what) == {[level |-> "warning", what |-> <<what>>]}
When(condition, diagnostics) == IF condition THEN diagnostics ELSE {}

\* checkVarRefs: a name that no capture before has bound.
Unbound(refs, bound) == {[level |-> "warning", what |-> <<"unbound", v>>] : v \in refs \ bound}

Required(n, f, bound) ==
  When(ValueAt(n, f) = "", Error(f)) \cup Unbound(RefsAt(n, {f}), bound)
Durations(n, fs) ==
  When(\E f \in fs : ValueAt(n, f) \in {"bad", "null"}, Error("duration"))

\* A field that is read as a number: it may be none, or not a positive one.
NoNumber(n, f) == Has(n, f) /\ (At(n, f).kind # "scalar" \/ ValueAt(n, f) = "bad")
NotPositive(n, f) ==
  Has(n, f) /\ At(n, f).kind = "scalar" /\ ValueAt(n, f) \in {"", "null", "zero"}


MustBeMapping(n) == When(n.kind # "mapping", Error("mapping"))

-----------------------------------------------------------------------------
(* The body of a step, by its type.                                        *)

LintExec(n, bound) ==
  Required(n, "command", bound)
  \cup Unbound(RefsAt(n, {"stdin"}) \cup RefsUnder(n, "env") \cup RefsUnder(n, "files"), bound)
  \cup When(Has(n, "env"), MustBeMapping(At(n, "env")))
  \cup Durations(n, {"timeout"})
  \cup When(Has(n, "files"),
            MustBeMapping(At(n, "files"))
            \cup When("relative" \in DOMAIN Fields(At(n, "files")), Error("files")))

LintRequest(n, bound) ==
  When(ValueAt(n, "method") # "ok", Error("method"))
  \cup When(~Has(n, "path"), Error("path"))
  \cup Unbound(RefsAt(n, {"path", "body"}) \cup RefsUnder(n, "headers"), bound)

\* Seeded fault: the value of a fill is not asked for.
BrowserNeedsSelector(action) == IF action = "navigate" THEN {"url"} ELSE {"selector"}

\* requireBrowserField
BrowserNeeds(action) ==
  CASE action = "navigate" -> {"url"}
    [] action = "click" -> {"selector"}
    [] action = "fill" -> {"selector", "value"}
    [] action = "assert" -> {"selector"}

LintBrowser(n, bound) ==
  LET action == ValueAt(n, "action")
  IN  IF action \notin {"navigate", "click", "fill", "assert"} THEN Error("action")
      ELSE (UNION {Required(n, f, bound) : f \in BrowserNeeds(action)})
           \cup When(action = "assert" /\ ~\E f \in {"text", "text_absent", "count"} : Has(n, f),
                     Warning("assert"))
           \cup Unbound(RefsAt(n, {"text", "text_absent"}), bound)
           \cup Durations(n, {"timeout"})

LintGRPCStream(n, bound) ==
  When(Has(n, "messages") /\ At(n, "messages").kind # "list", Error("messages"))
  \cup Unbound(UNION {Refs(m) : m \in {ItemsAt(n, "messages")[i] :
                                       i \in DOMAIN ItemsAt(n, "messages")}}, bound)
  \cup When(Has(n, "receive"), Durations(At(n, "receive"), {"timeout"}))

\* A step with a stream and no service collects from an earlier one.
LintGRPC(n, bound) ==
  When(Has(n, "service") \/ ~Has(n, "stream"),
       Required(n, "service", bound) \cup Required(n, "method", bound))
  \cup Unbound(RefsAt(n, {"body"}) \cup RefsUnder(n, "headers"), bound)
  \cup Durations(n, {"timeout"})
  \cup When(Has(n, "stream"), LintGRPCStream(At(n, "stream"), bound))

LintWS(n, bound) ==
  When(ValueAt(n, "url") = "", Warning("url"))
  \cup Unbound(RefsAt(n, {"url", "id", "send"}), bound)
  \cup When(Has(n, "receive"),
            Durations(At(n, "receive"), {"timeout"})
            \cup When(NoNumber(At(n, "receive"), "count") \/ NotPositive(At(n, "receive"), "count"),
                     Error("count")))

TUIActions == {"send_key", "send_text", "wait_for", "assert_screen", "assert_absent"}

LintTUI(n, bound) ==
  When(Has(n, "command"), Required(n, "command", bound))
  \cup When(~Has(n, "command") /\ ~\E f \in TUIActions : Has(n, f), Error("tui"))
  \cup Unbound(RefsAt(n, TUIActions), bound)
  \cup Durations(n, {"timeout"})

TypesOf(step) == StepTypes \cap DOMAIN Fields(step)

LintBody(step, bound) ==
  IF Cardinality(TypesOf(step)) # 1 THEN Error("type")
  ELSE LET t == CHOOSE t \in TypesOf(step) : TRUE
           n == At(step, t)
       IN  IF n.kind # "mapping" THEN Error("mapping")
           ELSE CASE t = "exec" -> LintExec(n, bound)
                  [] t = "request" -> LintRequest(n, bound)
                  [] t = "browser" -> LintBrowser(n, bound)
                  [] t = "grpc" -> LintGRPC(n, bound)
                  [] t = "ws" -> LintWS(n, bound)
                  [] t = "tui" -> LintTUI(n, bound)

-----------------------------------------------------------------------------
(* Captures, retries, steps and the file.                                  *)

CaptureNames(captures) == {ValueAt(captures[i], "name") : i \in DOMAIN captures} \cap Names

LintCapture(c, types, bound) ==
  IF c.kind # "mapping" THEN Error("mapping")
  ELSE When(ValueAt(c, "name") \notin Names, Error("name"))
       \cup When(ValueAt(c, "name") \in bound, Warning("shadow"))
       \cup When(~Has(c, "jsonpath") /\ ~Has(c, "source"), Error("capture"))
       \cup When(Has(c, "jsonpath") /\ ValueAt(c, "jsonpath") # "ok", Error("jsonpath"))
       \cup When(Has(c, "source") /\ ~\E t \in types \cap DOMAIN ValidCaptureSources :
                   types = {t} /\ ValueAt(c, "source") \in ValidCaptureSources[t],
                 Error("source"))

LintCaptures(step, bound) ==
  IF ~Has(step, "capture") THEN {}
  ELSE When(At(step, "capture").kind # "list", Error("list"))
       \cup LET captures == ItemsAt(step, "capture")
            IN  UNION {LintCapture(captures[i], TypesOf(step),
                                   bound \cup CaptureNames(SubSeq(captures, 1, i - 1))) :
                         i \in DOMAIN captures}

LintRetry(n) ==
  IF n.kind # "mapping" THEN Error("mapping")
  ELSE When(NoNumber(n, "attempts"), Error("attempts"))
       \cup When(NotPositive(n, "attempts"), Warning("attempts"))
       \cup Durations(n, {"interval", "timeout"})

LintStep(step, bound, isSetup) ==
  IF step.kind # "mapping" THEN Error("mapping")
  ELSE LintBody(step, bound)
       \cup When(~isSetup /\ \E f \in {"expect", "description"} : ~Has(step, f), Warning("field"))
       \cup Durations(step, {"delay"})
       \cup When(Has(step, "retry"), LintRetry(At(step, "retry")))
       \cup LintCaptures(step, bound)

AllSteps(file) == ItemsAt(file, "setup") \o ItemsAt(file, "steps")
SetupSteps(file) == Len(ItemsAt(file, "setup"))

\* Seeded fault: a step's own captures count as made before it.
BoundAtOwn(file, i) == UNION {CaptureNames(ItemsAt(AllSteps(file)[j], "capture")) : j \in 1..i}

\* What earlier steps capture, setup before the judged ones.
BoundAt(file, i) ==
  UNION {CaptureNames(ItemsAt(AllSteps(file)[j], "capture")) : j \in 1..(i - 1)}

LintScenario(file) ==
  When(ValueAt(file, "id") \in {"", "bad"}, Error("id"))
  \cup When(Has(file, "type") /\ ValueAt(file, "type") # "ok", Warning("type"))
  \cup When(NoNumber(file, "weight") \/ NotPositive(file, "weight"), Warning("weight"))
  \cup When(NoNumber(file, "tier") \/ NotPositive(file, "tier"), Warning("tier"))
  \cup When(ItemsAt(file, "steps") = <<>>, Error("steps"))
  \cup When(Has(file, "setup") /\ At(file, "setup").kind # "list", Error("setup"))
  \cup UNION {LintStep(AllSteps(file)[i], BoundAt(file, i), i <= SetupSteps(file)) :
                i \in DOMAIN AllSteps(file)}

HasErrors(diagnostics) == \E d \in diagnostics : d.level = "error"
=============================================================================
