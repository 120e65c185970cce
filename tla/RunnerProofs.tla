---------------------------- MODULE RunnerProofs ----------------------------
(***************************************************************************)
(* Proofs that what the linter promises of a scenario file is kept when the*)
(* file is run, for every file, every retry limit and whatever the system  *)
(* under test answers.                                                     *)
(***************************************************************************)
EXTENDS Runner, FiniteSetTheorems, SequenceTheorems, TLAPS

\* The linter has found no error, nor a reference that nothing binds.
Clean == ~HasErrors(LintScenario(file))
Bound == \A d \in LintScenario(file) : d.what[1] # "unbound"

\* Where the run is in the file, and what it has recorded of the steps before.
Running == {"attempt", "wait", "capture"}
Placed ==
  /\ file \in Files /\ lint = LintScenario(file)
  /\ step \in Nat \ {0} /\ results \in Seq({"ok", "itself", "system", "deadline"})
  /\ pc \in {"load", "step", "done", "failed"} \cup Running
  /\ pc # "failed" => fatal = "none"
  /\ pc \in Running => step \in DOMAIN AllSteps(file)
  /\ Len(results) = IF step <= SetupSteps(file) THEN 0 ELSE step - 1 - SetupSteps(file)

\* A clean file's steps fail by themselves only where the linter does not look.
Sound ==
  Clean =>
    /\ \A i \in DOMAIN results : results[i] = "itself" => Overlooked(file, SetupSteps(file) + i)
    /\ fatal = "itself" => Overlooked(file, step)

\* What the steps before were to capture is bound, or a judged one failed to.
Supplied ==
  \A j \in DOMAIN AllSteps(file) : j < step =>
    \A v \in CaptureNames(Captures(StepAt(file, j))) :
      v \in bound \/ (j > SetupSteps(file) /\ <<j, v>> \in uncaught)

\* A name left as it is stands in its step; what earlier steps capture, one of them
\* failed to.
Literals ==
  \A l \in literal :
    /\ l[1] \in DOMAIN AllSteps(file) /\ l[1] <= step /\ l[2] \in Substituted(StepAt(file, l[1]))
    /\ l[2] \in BoundAt(file, l[1]) =>
         \E j \in (SetupSteps(file) + 1)..(l[1] - 1) : <<j, l[2]>> \in uncaught

\* The inductive invariant.
IInv == Placed /\ Sound /\ Supplied /\ Literals

-----------------------------------------------------------------------------
(* Diagnostics.                                                            *)

\* What is found in a part is found in the whole.
LEMMA PartClean ==
  ASSUME NEW D, NEW E, E \subseteq D, ~HasErrors(D) PROVE ~HasErrors(E)
BY DEF HasErrors

\* An error under a condition, in diagnostics without one.
LEMMA NoError ==
  ASSUME NEW D, NEW c, NEW what, ~HasErrors(D), When(c, Error(what)) \subseteq D PROVE ~c
<1> DEFINE d == [level |-> "error", what |-> <<what>>]
<1>1. d \in Error(what) /\ d.level = "error"
  BY DEF Error
<1>2. d \notin D
  BY <1>1 DEF HasErrors
<1> QED BY <1>1, <1>2 DEF When

LEMMA NotOnlyError == ASSUME NEW what PROVE HasErrors(Error(what))
<1> DEFINE d == [level |-> "error", what |-> <<what>>]
<1>1. d \in Error(what) /\ d.level = "error"
  BY DEF Error
<1> QED BY <1>1 DEF HasErrors

\* References that are looked at and not reported are bound.
LEMMA AllBound ==
  ASSUME NEW D, NEW refs, NEW bound0, \A d \in D : d.what[1] # "unbound",
         Unbound(refs, bound0) \subseteq D
  PROVE  refs \subseteq bound0
<1> SUFFICES ASSUME NEW v \in refs, v \notin bound0 PROVE FALSE
  OBVIOUS
<1> DEFINE d == [level |-> "warning", what |-> <<"unbound", v>>]
<1>1. d \in Unbound(refs, bound0)
  BY DEF Unbound
<1>2. d.what[1] = "unbound"
  OBVIOUS
<1> QED BY <1>1, <1>2

\* A duration that is read is one that parses.
LEMMA DurationsParse ==
  ASSUME NEW D, NEW n, NEW fs, ~HasErrors(D), Durations(n, fs) \subseteq D
  PROVE  \A f \in fs : ValueAt(n, f) # "bad"
BY NoError, Zenon DEF Durations

-----------------------------------------------------------------------------
(* A step the linter finds nothing wrong with.                             *)

\* A step of the file, and its diagnostics.
LEMMA StepDiagnostics ==
  ASSUME NEW i \in DOMAIN AllSteps(file)
  PROVE  LintStep(StepAt(file, i), BoundAt(file, i), i <= SetupSteps(file)) \subseteq LintScenario(file)
BY DEF LintScenario, StepAt

\* A step without errors has one type and a body that is a mapping.
LEMMA OneType ==
  ASSUME NEW s, NEW b, NEW isSetup, ~HasErrors(LintStep(s, b, isSetup))
  PROVE  /\ s.kind = "mapping" /\ \E t \in StepTypes : TypesOf(s) = {t}
         /\ Typed(s) /\ TypesOf(s) = {StepType(s)} /\ StepType(s) \in StepTypes
         /\ Has(s, StepType(s)) /\ Body(s).kind = "mapping"
         /\ ~HasErrors(LintBody(s, b))
<1>1. s.kind = "mapping" /\ LintBody(s, b) \subseteq LintStep(s, b, isSetup)
  BY NotOnlyError DEF LintStep
<1>2. ~HasErrors(LintBody(s, b))
  BY <1>1, PartClean
<1>3. Cardinality(TypesOf(s)) = 1
  BY <1>2, NotOnlyError DEF LintBody
<1>4. IsFiniteSet(TypesOf(s))
  <2>1. IsFiniteSet(({"request"} \cup {"exec"}))
    BY FS_Singleton, FS_AddElement
  <2>2. IsFiniteSet(({"request"} \cup {"exec"}) \cup {"browser"} \cup {"grpc"})
    BY <2>1, FS_AddElement
  <2>3. IsFiniteSet((({"request"} \cup {"exec"}) \cup {"browser"} \cup {"grpc"}) \cup {"ws"} \cup {"tui"})
    BY <2>2, FS_AddElement
  <2>4. TypesOf(s) \subseteq (({"request"} \cup {"exec"}) \cup {"browser"} \cup {"grpc"}) \cup {"ws"} \cup {"tui"}
    BY DEF TypesOf, StepTypes
  <2> QED BY <2>3, <2>4, FS_Subset
<1>5. PICK t \in StepTypes : TypesOf(s) = {t}
  BY <1>3, <1>4, FS_Singleton DEF TypesOf
<1>6. At(s, t).kind = "mapping"
  <2>1. (CHOOSE u \in TypesOf(s) : TRUE) = t
    BY <1>5
  <2> QED BY <1>2, <1>3, <2>1, NotOnlyError DEF LintBody
<1>7. Has(s, t) /\ ~Null(At(s, t)) /\ \A u \in StepTypes : Has(s, u) => u = t
  BY <1>5, <1>6 DEF TypesOf, Has, Null
<1>8. PICK k \in DOMAIN Precedence : Precedence[k] = t
  BY DEF Precedence, StepTypes
<1>9. Present(s) = {k}
  <2>1. \A j \in DOMAIN Precedence : Precedence[j] \in StepTypes /\ (Precedence[j] = t => j = k)
    BY <1>8 DEF Precedence, StepTypes
  <2> QED BY <1>7, <1>8, <2>1 DEF Present
<1>10. StepType(s) = t
  <2>1. k <= k
    BY DEF Precedence
  <2> QED BY <1>8, <1>9, <2>1 DEF StepType
<1> QED BY <1>1, <1>2, <1>5, <1>6, <1>7, <1>9, <1>10 DEF Typed, Body

\* The body's diagnostics, type by type.
LEMMA BodyDiagnostics ==
  ASSUME NEW s, NEW b, NEW isSetup, ~HasErrors(LintStep(s, b, isSetup))
  PROVE  LET D == LintBody(s, b)
             n == Body(s)
             t == StepType(s)
         IN  /\ t = "exec" => D = LintExec(n, b)
             /\ t = "request" => D = LintRequest(n, b)
             /\ t = "browser" => D = LintBrowser(n, b)
             /\ t = "grpc" => D = LintGRPC(n, b)
             /\ t = "ws" => D = LintWS(n, b)
             /\ t = "tui" => D = LintTUI(n, b)
<1>1. TypesOf(s) = {StepType(s)} /\ Body(s).kind = "mapping"
  BY OneType
<1>2. Cardinality(TypesOf(s)) = 1 /\ (CHOOSE u \in TypesOf(s) : TRUE) = StepType(s)
  BY <1>1, FS_Singleton
<1> QED BY <1>1, <1>2 DEF LintBody, Body

\* An empty field that is required is an error.
LEMMA RequiredGiven ==
  ASSUME NEW D, NEW n, NEW f, NEW b, ~HasErrors(D), Required(n, f, b) \subseteq D
  PROVE  ValueAt(n, f) # ""
<1>1. When(ValueAt(n, f) = "", Error(f)) \subseteq D
  BY DEF Required
<1> QED BY <1>1, NoError, Zenon

\* What is looked at in a browser step.
LEMMA BrowserParts ==
  ASSUME NEW n, NEW b, ValueAt(n, "action") \in {"navigate", "click", "fill", "assert"}
  PROVE  /\ Durations(n, {"timeout"}) \subseteq LintBrowser(n, b)
         /\ Unbound(RefsAt(n, {"text", "text_absent"}), b) \subseteq LintBrowser(n, b)
         /\ \A f \in BrowserNeeds(ValueAt(n, "action")) : Required(n, f, b) \subseteq LintBrowser(n, b)
<1> DEFINE action == ValueAt(n, "action")
           required == UNION {Required(n, f, b) : f \in BrowserNeeds(action)}
<1>1. LintBrowser(n, b) =
        required
        \cup When(action = "assert" /\ ~\E f \in {"text", "text_absent", "count"} : Has(n, f),
                  Warning("assert"))
        \cup Unbound(RefsAt(n, {"text", "text_absent"}), b) \cup Durations(n, {"timeout"})
  BY DEF LintBrowser
<1>2. \A f \in BrowserNeeds(action) : Required(n, f, b) \subseteq required
  OBVIOUS
<1> HIDE DEF required, action
<1> QED BY <1>1, <1>2 DEF action

\* A required field is either given or a null that the linter takes for a text.
LEMMA RequiredRead ==
  ASSUME NEW n, NEW f, ValueAt(n, f) # "", ~Given(n, f)
  PROVE  ValueAt(n, f) = "null"
BY DEF Given, Read

\* What the linter asks for is what the executors need of a step alone.
LEMMA CleanComplete ==
  ASSUME NEW s, NEW b, NEW isSetup, ~HasErrors(LintStep(s, b, isSetup)), Incomplete(s)
  PROVE  Blank(s) \/ Anonymous(s)
<1> DEFINE n == Body(s)
           D == LintBody(s, b)
<1>1. Typed(s) /\ StepType(s) \in StepTypes /\ ~HasErrors(D)
  BY OneType
<1>2. CASE StepType(s) \in {"request", "ws"}
  BY <1>2 DEF Incomplete
<1>4. CASE StepType(s) \in {"exec", "tui"}
  <2>1. (StepType(s) = "exec" => D = LintExec(n, b)) /\ (StepType(s) = "tui" => D = LintTUI(n, b))
    BY BodyDiagnostics
  <2>2. Durations(n, {"timeout"}) \subseteq LintExec(n, b)
    BY DEF LintExec
  <2>3. Durations(n, {"timeout"}) \subseteq LintTUI(n, b)
    BY DEF LintTUI
  <2> HIDE DEF n, D
  <2>4. ValueAt(n, "timeout") # "bad"
    BY <1>1, <1>4, <2>1, <2>2, <2>3, DurationsParse
  <2> QED BY <1>4, <2>4 DEF Incomplete, n
<1>5. CASE StepType(s) = "browser"
  <2> DEFINE action == ValueAt(n, "action")
  <2>1. D = LintBrowser(n, b)
    BY <1>5, BodyDiagnostics
  <2>2. action \in {"navigate", "click", "fill", "assert"}
    BY <1>1, <2>1, NotOnlyError DEF LintBrowser
  <2> HIDE DEF n, D
  <2>3. Durations(n, {"timeout"}) \subseteq D
        /\ \A f \in BrowserNeeds(action) : Required(n, f, b) \subseteq D
    BY <2>1, <2>2, BrowserParts
  <2>4. action \in DOMAIN ActionNeeds /\ ActionNeeds[action] \subseteq BrowserNeeds(action)
    BY <2>2 DEF ActionNeeds, BrowserNeeds
  <2>5. \A f \in ActionNeeds[action] : ValueAt(n, f) # ""
    BY <1>1, <2>3, <2>4, RequiredGiven
  <2>6. ValueAt(n, "timeout") # "bad"
    BY <1>1, <2>3, DurationsParse
  <2>7. Read(n, "action") = action
    BY <2>2 DEF Read
  <2> HIDE DEF action
  <2>8. PICK f \in ActionNeeds[action] : ~Given(n, f)
    BY <1>5, <2>4, <2>6, <2>7 DEF Incomplete, BrowserIncomplete, n
  <2>9. ValueAt(n, f) = "null"
    BY <2>5, <2>8, RequiredRead
  <2> QED BY <1>5, <2>7, <2>9 DEF Blank, n
<1>6. CASE StepType(s) = "grpc"
  <2>1. D = LintGRPC(n, b)
    BY <1>6, BodyDiagnostics
  <2>2. ~Collects(n) /\ (~Given(n, "service") \/ ~Given(n, "method"))
    <3>1. Durations(n, {"timeout"}) \subseteq D
      BY <2>1 DEF LintGRPC
    <3>2. ValueAt(n, "timeout") # "bad"
      BY <1>1, <3>1, DurationsParse
    <3>3. GRPCIncomplete(n)
      BY <1>6 DEF Incomplete
    <3> QED BY <3>2, <3>3 DEF GRPCIncomplete
  <2>3. CASE Has(n, "service") \/ ~Has(n, "stream")
    <3>1. Required(n, "service", b) \subseteq D /\ Required(n, "method", b) \subseteq D
      BY <2>1, <2>3 DEF LintGRPC, When
    <3>2. ValueAt(n, "service") # "" /\ ValueAt(n, "method") # ""
      BY <1>1, <3>1, RequiredGiven
    <3>3. ValueAt(n, "service") = "null" \/ ValueAt(n, "method") = "null"
      BY <2>2, <3>2, RequiredRead
    <3> QED BY <1>6, <3>3 DEF Blank
  <2>4. CASE ~Has(n, "service") /\ Has(n, "stream")
    <3>1. ~Given(n, "service")
      BY <2>4 DEF Given, Read, ValueAt
    <3> QED BY <1>6, <2>2, <2>4, <3>1 DEF Collects, Anonymous
  <2> QED BY <2>3, <2>4
<1> QED BY <1>1, <1>2, <1>4, <1>5, <1>6 DEF StepTypes

LEMMA CleanSucceeds ==
  ASSUME NEW i, NEW b, NEW isSetup, ~HasErrors(LintStep(StepAt(file, i), b, isSetup)), FailsByItself(file, i)
  PROVE  Overlooked(file, i)
<1>1. Typed(StepAt(file, i))
  BY OneType
<1>2. Incomplete(StepAt(file, i)) => Blank(StepAt(file, i)) \/ Anonymous(StepAt(file, i))
  BY CleanComplete
<1> QED BY <1>1, <1>2, Zenon DEF FailsByItself, Overlooked

\* A step without errors starts.
LEMMA CleanStarts ==
  ASSUME NEW s, NEW b, NEW isSetup, ~HasErrors(LintStep(s, b, isSetup))
  PROVE  ~Invalid(s)
<1> DEFINE D == LintStep(s, b, isSetup)
<1>1. Typed(s) /\ s.kind = "mapping"
  BY OneType
<1>2. Durations(s, {"delay"}) \subseteq D
  BY <1>1 DEF LintStep
<1>3. ASSUME Has(s, "retry") PROVE LintRetry(At(s, "retry")) \subseteq D
  BY <1>1, <1>3 DEF LintStep, When
<1> HIDE DEF D
<1>4. ValueAt(s, "delay") # "bad"
  BY <1>2, DurationsParse DEF D
<1>5. ASSUME Has(s, "retry")
      PROVE  \A f \in {"interval", "timeout"} : ValueAt(At(s, "retry"), f) # "bad"
  <2>1. ~HasErrors(LintRetry(At(s, "retry")))
    BY <1>3, <1>5, PartClean DEF D
  <2>2. Durations(At(s, "retry"), {"interval", "timeout"}) \subseteq LintRetry(At(s, "retry"))
    BY <2>1, NotOnlyError DEF LintRetry
  <2> QED BY <2>1, <2>2, DurationsParse
<1> QED BY <1>1, <1>4, <1>5 DEF Invalid, RetryInvalid, Retried

-----------------------------------------------------------------------------
(* The run.                                                                *)

\* The steps of a file are a sequence, setup first.
LEMMA FileSteps ==
  ASSUME NEW f \in Files
  PROVE  /\ SetupSteps(f) \in Nat /\ Len(AllSteps(f)) \in Nat
         /\ DOMAIN AllSteps(f) = 1..Len(AllSteps(f))
         /\ \A i \in DOMAIN AllSteps(f) :
              /\ Len(Captures(AllSteps(f)[i])) \in Nat
              /\ DOMAIN Captures(AllSteps(f)[i]) = 1..Len(Captures(AllSteps(f)[i]))
<1> DEFINE a == ItemsAt(f, "setup")
           b == ItemsAt(f, "steps")
           A == {a[i] : i \in DOMAIN a}
           B == {b[i] : i \in DOMAIN b}
<1>1. a \in Seq(A) /\ b \in Seq(B)
  BY RunnerAssumption DEF IsSequence
<1>2. AllSteps(f) = a \o b /\ SetupSteps(f) = Len(a)
  BY DEF AllSteps, SetupSteps
<1> HIDE DEF a, b, A, B
<1>3. a \in Seq(A \cup B) /\ b \in Seq(A \cup B)
  BY <1>1
<1>4. AllSteps(f) \in Seq(A \cup B) /\ SetupSteps(f) \in Nat
  BY <1>2, <1>3
<1>5. ASSUME NEW i \in DOMAIN AllSteps(f)
      PROVE  /\ Len(Captures(AllSteps(f)[i])) \in Nat
             /\ DOMAIN Captures(AllSteps(f)[i]) = 1..Len(Captures(AllSteps(f)[i]))
  <2> DEFINE c == Captures(AllSteps(f)[i])
  <2>1. c \in Seq({c[k] : k \in DOMAIN c})
    BY RunnerAssumption DEF IsSequence, Captures
  <2> HIDE DEF c
  <2>2. Len(c) \in Nat /\ DOMAIN c = 1..Len(c)
    BY <2>1
  <2> QED BY <2>2 DEF c
<1> QED BY <1>4, <1>5

LEMMA InitInv == Init => IInv
<1> SUFFICES ASSUME Init PROVE IInv
  OBVIOUS
<1>1. Placed /\ Sound
  BY FileSteps DEF Init, Placed, Sound, Running
<1>2. Supplied /\ Literals
  BY FileSteps DEF Init, Supplied, Literals
<1> QED BY <1>1, <1>2 DEF IInv

\* How a step ends.
LEMMA EndPlaced ==
  ASSUME Placed, step \in DOMAIN AllSteps(file), fatal = "none", UNCHANGED <<file, lint>>,
         NEW how \in {"ok", "itself", "system", "deadline"}, EndStep(how),
         Sound, Clean /\ how = "itself" => Overlooked(file, step)
  PROVE  Placed' /\ Sound'
<1> USE FileSteps DEF Placed
<1>1. SetupSteps(file) \in Nat /\ SetupSteps(file)' = SetupSteps(file)
      /\ AllSteps(file)' = AllSteps(file) /\ Clean' = Clean
  BY DEF Clean
<1>2. CASE IsSetup /\ how # "ok"
  <2>1. pc' = "failed" /\ fatal' = how /\ step' = step /\ results' = results
    BY <1>2 DEF EndStep
  <2>2. Placed'
    BY <1>1, <2>1 DEF Running
  <2>3. Sound'
    BY <1>1, <2>1 DEF Sound, StepAt, Current
  <2> QED BY <2>2, <2>3
<1>3. CASE ~(IsSetup /\ how # "ok")
  <2>1. pc' = "step" /\ fatal' = fatal /\ step' = step + 1
        /\ results' = IF IsSetup THEN results ELSE Append(results, how)
    BY <1>3 DEF EndStep
  <2>2. Placed'
    <3>1. Append(results, how) \in Seq({"ok", "itself", "system", "deadline"})
          /\ Len(Append(results, how)) = Len(results) + 1 /\ Len(results) \in Nat
      OBVIOUS
    <3>2. results' \in Seq({"ok", "itself", "system", "deadline"})
          /\ Len(results') = IF step' <= SetupSteps(file) THEN 0 ELSE step' - 1 - SetupSteps(file)
      BY <1>1, <2>1, <3>1 DEF IsSetup
    <3> QED BY <1>1, <2>1, <3>2 DEF Running
  <2>3. CASE IsSetup
    BY <1>1, <2>1, <2>2, <2>3 DEF Sound, StepAt
  <2>4. CASE ~IsSetup
    <3>1. SetupSteps(file) + Len(results) + 1 = step
      BY <1>1, <2>4 DEF IsSetup
    <3>2. ASSUME NEW i \in DOMAIN results', results'[i] = "itself", Clean
          PROVE  Overlooked(file, SetupSteps(file) + i)
      <4>1. CASE i = Len(results) + 1
        <5>1. results'[i] = how
          BY <2>1, <2>4, <4>1
        <5>2. SetupSteps(file) + i = step
          BY <3>1, <4>1, <1>1
        <5> QED BY <3>2, <5>1, <5>2 DEF StepAt, Current
      <4>2. CASE i # Len(results) + 1
        <5>1. i \in DOMAIN results /\ results'[i] = results[i]
          BY <2>1, <2>4, <4>2
        <5> QED BY <3>2, <5>1 DEF Sound
      <4> QED BY <4>1, <4>2
    <3> QED BY <1>1, <2>1, <2>2, <3>2 DEF Sound, StepAt
  <2> QED BY <2>2, <2>3, <2>4
<1> QED BY <1>2, <1>3

\* A list's names are those of its front and those of its rest.
LEMMA SplitCaptures ==
  ASSUME NEW c, Len(c) \in Nat, DOMAIN c = 1..Len(c), NEW m \in 0..Len(c)
  PROVE  CaptureNames(c) \subseteq
           CaptureNames(SubSeq(c, 1, m)) \cup CaptureNames(SubSeq(c, m + 1, Len(c)))
<1> SUFFICES ASSUME NEW i \in DOMAIN c, ValueAt(c[i], "name") \in Names
             PROVE  ValueAt(c[i], "name") \in
                      CaptureNames(SubSeq(c, 1, m)) \cup CaptureNames(SubSeq(c, m + 1, Len(c)))
  BY DEF CaptureNames
<1>1. CASE i <= m
  <2> DEFINE front == SubSeq(c, 1, m)
  <2>1. i \in DOMAIN front /\ front[i] = c[i]
    BY <1>1 DEF SubSeq
  <2> HIDE DEF front
  <2>2. ValueAt(front[i], "name") \in CaptureNames(front)
    BY <2>1 DEF CaptureNames
  <2> QED BY <2>1, <2>2 DEF front
<1>2. CASE i > m
  <2> DEFINE rest == SubSeq(c, m + 1, Len(c))
  <2>1. i - m \in DOMAIN rest /\ rest[i - m] = c[i]
    BY <1>2 DEF SubSeq
  <2> HIDE DEF rest
  <2>2. ValueAt(rest[i - m], "name") \in CaptureNames(rest)
    BY <2>1 DEF CaptureNames
  <2> QED BY <2>1, <2>2 DEF rest
<1> QED BY <1>1, <1>2

\* A step that ends adds what it captured, and what it failed to.
LEMMA EndSupplied ==
  ASSUME Placed, Supplied, step \in DOMAIN AllSteps(file), UNCHANGED <<file, lint>>,
         NEW how, EndStep(how), bound \subseteq bound', uncaught \subseteq uncaught',
         \A v \in CaptureNames(Captures(Current)) :
           v \in bound' \/ (~IsSetup /\ <<step, v>> \in uncaught') \/ (IsSetup /\ how # "ok")
  PROVE  Supplied'
<1> USE FileSteps DEF Placed
<1>1. SetupSteps(file) \in Nat /\ file' = file /\ DOMAIN AllSteps(file) \subseteq Nat
  OBVIOUS
<1>2. CASE IsSetup /\ how # "ok"
  BY <1>1, <1>2 DEF EndStep, Supplied, StepAt
<1>3. CASE ~(IsSetup /\ how # "ok")
  <2>1. step' = step + 1
    BY <1>3 DEF EndStep
  <2>2. ASSUME NEW j \in DOMAIN AllSteps(file), j < step + 1,
               NEW v \in CaptureNames(Captures(StepAt(file, j)))
        PROVE  v \in bound' \/ (j > SetupSteps(file) /\ <<j, v>> \in uncaught')
    <3>1. CASE j = step
      BY <1>1, <1>3, <2>2, <3>1 DEF StepAt, Current, IsSetup
    <3>2. CASE j < step
      BY <1>1, <2>2, <3>2 DEF Supplied
    <3> QED BY <1>1, <2>2, <3>1, <3>2
  <2> QED BY <1>1, <2>1, <2>2 DEF Supplied, StepAt
<1> QED BY <1>2, <1>3

\* A step that is executed leaves as they are the names not bound by then.
LEMMA LiteralsGrow ==
  ASSUME Placed, Supplied, Literals, step \in DOMAIN AllSteps(file), UNCHANGED file,
         uncaught \subseteq uncaught', step' \in {step, step + 1},
         literal' \in {literal, Literal}
  PROVE  Literals'
<1> USE FileSteps DEF Placed
<1>1. SetupSteps(file) \in Nat /\ file' = file /\ DOMAIN AllSteps(file) \subseteq Nat
      /\ step \in Nat
  OBVIOUS
<1>2. ASSUME NEW l \in literal
      PROVE  /\ l[1] \in DOMAIN AllSteps(file) /\ l[1] <= step' /\ l[2] \in Substituted(StepAt(file, l[1]))
             /\ l[2] \in BoundAt(file, l[1]) =>
                  \E j \in (SetupSteps(file) + 1)..(l[1] - 1) : <<j, l[2]>> \in uncaught'
  BY <1>1, <1>2 DEF Literals
<1>3. ASSUME NEW v \in Substituted(Current) \ bound, v \in BoundAt(file, step)
      PROVE  \E j \in (SetupSteps(file) + 1)..(step - 1) : <<j, v>> \in uncaught'
  <2>1. PICK j \in 1..(step - 1) : v \in CaptureNames(Captures(StepAt(file, j)))
    BY <1>3 DEF BoundAt, Captures, StepAt
  <2>2. j \in DOMAIN AllSteps(file) /\ j < step
    BY <1>1
  <2>3. j > SetupSteps(file) /\ <<j, v>> \in uncaught
    BY <1>3, <2>1, <2>2 DEF Supplied
  <2>4. j \in (SetupSteps(file) + 1)..(step - 1)
    BY <1>1, <2>2, <2>3
  <2>5. <<j, v>> \in uncaught'
    BY <2>3
  <2> QED BY <2>4, <2>5, Zenon
<1>4. ASSUME NEW l \in literal'
      PROVE  /\ l[1] \in DOMAIN AllSteps(file) /\ l[1] <= step' /\ l[2] \in Substituted(StepAt(file, l[1]))
             /\ l[2] \in BoundAt(file, l[1]) =>
                  \E j \in (SetupSteps(file) + 1)..(l[1] - 1) : <<j, l[2]>> \in uncaught'
  <2>1. CASE l \in literal
    BY <1>2, <2>1
  <2>2. CASE l \notin literal
    <3>1. PICK v \in Substituted(Current) \ bound : l = <<step, v>>
      BY <1>4, <2>2 DEF Literal
    <3>2. l[1] = step /\ l[2] = v
      BY <3>1
    <3> QED BY <1>1, <1>3, <3>1, <3>2 DEF Current, StepAt
  <2> QED BY <2>1, <2>2
<1> QED BY <1>1, <1>4 DEF Literals, StepAt

\* Missing with a list from its first entry on: all its names.
LEMMA AllMissing ==
  ASSUME NEW c, Len(c) \in Nat, DOMAIN c = 1..Len(c)
  PROVE  \A v \in CaptureNames(c) : <<step, v>> \in Missing(c, 1)
<1>1. SubSeq(c, 1, 0) = <<>>
  BY DEF SubSeq
<1>2. CaptureNames(SubSeq(c, 1, 0)) = {}
  BY <1>1 DEF CaptureNames
<1>3. CaptureNames(c) \subseteq CaptureNames(SubSeq(c, 1, Len(c)))
  BY <1>2, SplitCaptures
<1> QED BY <1>3 DEF Missing

\* A step that ends without capturing anything.
LEMMA FailInv ==
  ASSUME IInv, step \in DOMAIN AllSteps(file), fatal = "none", UNCHANGED <<file, lint, bound>>,
         NEW how \in {"itself", "system", "deadline"}, EndStep(how),
         uncaught' = uncaught \cup Missing(Captures(Current), 1),
         literal' \in {literal, Literal}, Clean /\ how = "itself" => Overlooked(file, step)
  PROVE  IInv'
<1> USE DEF IInv
<1>1. Placed' /\ Sound'
  BY EndPlaced
<1>2. \A v \in CaptureNames(Captures(Current)) : <<step, v>> \in uncaught'
  BY FileSteps, AllMissing DEF Placed, Current
<1>3. Supplied'
  BY <1>2, EndSupplied
<1>4. step' \in {step, step + 1}
  BY DEF EndStep
<1>5. Literals'
  BY <1>4, LiteralsGrow
<1> QED BY <1>1, <1>3, <1>5

\* A clean file's steps, at the place of the run.
LEMMA CleanCurrent ==
  ASSUME Placed, step \in DOMAIN AllSteps(file), Clean
  PROVE  ~Invalid(Current) /\ (FailsByItself(file, step) => Overlooked(file, step))
<1>1. ~HasErrors(LintStep(StepAt(file, step), BoundAt(file, step), step <= SetupSteps(file)))
  BY StepDiagnostics, PartClean DEF Clean
<1> QED BY <1>1, CleanStarts, CleanSucceeds DEF StepAt, Current

\* A step that leaves its place and the records of earlier ones alone.
LEMMA StaysInv ==
  ASSUME IInv, UNCHANGED <<file, lint, step, results, bound, uncaught>>,
         pc' \in {"load", "step", "done", "failed"} \cup Running,
         pc' # "failed" => fatal' = "none", fatal' \in {fatal, "load"},
         pc' \in Running => step \in DOMAIN AllSteps(file),
         \/ literal' = literal
         \/ step \in DOMAIN AllSteps(file) /\ literal' = Literal
  PROVE  IInv'
<1> USE DEF IInv
<1>1. Placed' /\ Sound' /\ Supplied'
  BY DEF Placed, Sound, Supplied, Clean, StepAt
<1>2. CASE literal' = literal
  BY <1>1, <1>2 DEF Literals, StepAt
<1>3. CASE step \in DOMAIN AllSteps(file) /\ literal' = Literal
  <2>1. UNCHANGED file /\ uncaught \subseteq uncaught' /\ step' \in {step, step + 1}
    OBVIOUS
  <2>2. Literals'
    BY <1>3, <2>1, LiteralsGrow
  <2> QED BY <1>1, <2>2
<1> QED BY <1>1, <1>2, <1>3

\* The step of each action.
LEMMA NextInv == IInv /\ [Next]_vars => IInv'
<1> SUFFICES ASSUME IInv, [Next]_vars PROVE IInv'
  OBVIOUS
<1> USE DEF IInv
<1>0. Placed /\ DOMAIN AllSteps(file) = 1..Len(AllSteps(file)) /\ Len(AllSteps(file)) \in Nat
  BY FileSteps DEF Placed
<1>1. CASE Load
  BY <1>1, StaysInv DEF Load, Placed, Running
<1>2. CASE StartStep
  <2>1. step \in DOMAIN AllSteps(file) /\ fatal = "none"
    BY <1>0, <1>2 DEF StartStep, Placed
  <2>2. CASE StepError("itself")
    <3>1. ~Clean
      BY <1>0, <1>2, <2>1, <2>2, CleanCurrent DEF StartStep, StepError, EndStep
    <3> QED BY <2>1, <2>2, <3>1, FailInv DEF StepError
  <2>3. CASE pc' = "attempt" /\ UNCHANGED <<file, lint, step, attempt, expired, bound, fatal, results, literal, uncaught>>
    BY <2>1, <2>3, StaysInv DEF Running
  <2> QED BY <1>2, <2>2, <2>3 DEF StartStep
<1>3. CASE Deadline
  BY <1>3, StaysInv DEF Deadline, Placed, Running
<1>4. CASE AttemptSucceeds
  BY <1>4, StaysInv DEF AttemptSucceeds, Executed, Placed, Running
<1>5. CASE AttemptFails
  BY <1>5, StaysInv DEF AttemptFails, Executed, Placed, Running
<1>6. CASE LastAttemptFails
  <2>1. step \in DOMAIN AllSteps(file) /\ fatal = "none"
    BY <1>6 DEF LastAttemptFails, Placed, Running
  <2>2. /\ Failure("system") \in {"itself", "system"}
        /\ Failure("system") = "itself" => FailsByItself(file, step)
    BY DEF Failure
  <2>3. Clean /\ Failure("system") = "itself" => Overlooked(file, step)
    BY <1>0, <2>1, <2>2, CleanCurrent
  <2> QED BY <1>6, <2>1, <2>2, <2>3, FailInv DEF LastAttemptFails
<1>7. CASE WaitOver
  BY <1>7, StaysInv DEF WaitOver, Placed, Running
<1>8. CASE WaitExpires
  <2>1. step \in DOMAIN AllSteps(file) /\ fatal = "none"
    BY <1>8 DEF WaitExpires, Placed, Running
  <2>2. /\ Failure("deadline") \in {"itself", "deadline"}
        /\ Failure("deadline") = "itself" => FailsByItself(file, step)
    BY DEF Failure
  <2>3. Clean /\ Failure("deadline") = "itself" => Overlooked(file, step)
    BY <1>0, <2>1, <2>2, CleanCurrent
  <2> QED BY <1>8, <2>1, <2>2, <2>3, FailInv DEF WaitExpires, StepError
<1>9. CASE Capture
  <2>1. step \in DOMAIN AllSteps(file) /\ fatal = "none"
    BY <1>9 DEF Capture, Placed, Running
  <2> DEFINE c == Captures(Current)
  <2>2. Len(c) \in Nat /\ DOMAIN c = 1..Len(c)
    BY <1>0, <2>1, FileSteps DEF Placed, Current
  <2>3. PICK made \in 0..Len(c) :
          /\ bound' = bound \cup CaptureNames(SubSeq(c, 1, made))
          /\ uncaught' = uncaught \cup Missing(c, made + 1)
          /\ EndStep(IF made = Len(c) \/ ~IsSetup THEN "ok" ELSE "system")
    BY <1>9 DEF Capture
  <2> DEFINE how == IF made = Len(c) \/ ~IsSetup THEN "ok" ELSE "system"
  <2>4. UNCHANGED <<file, lint, literal>>
    BY <1>9 DEF Capture
  <2> HIDE DEF c
  <2>5. how \in {"ok", "system"} /\ EndStep(how)
    BY <2>3
  <2>6. \A v \in CaptureNames(c) : v \in bound' \/ <<step, v>> \in uncaught'
    BY <2>2, <2>3, SplitCaptures DEF Missing
  <2>7. ASSUME how = "ok", IsSetup PROVE CaptureNames(c) \subseteq bound'
    <3>1. made = Len(c)
      BY <2>7
    <3>2. SubSeq(c, Len(c) + 1, Len(c)) = <<>>
      BY <2>2 DEF SubSeq
    <3>3. CaptureNames(SubSeq(c, made + 1, Len(c))) = {}
      BY <3>1, <3>2 DEF CaptureNames
    <3> QED BY <2>2, <2>3, <3>3, SplitCaptures
  <2> HIDE DEF how
  <2>8. Placed' /\ Sound'
    BY <2>1, <2>4, <2>5, EndPlaced
  <2>9. Supplied'
    <3>1. \A v \in CaptureNames(Captures(Current)) :
            v \in bound' \/ (~IsSetup /\ <<step, v>> \in uncaught') \/ (IsSetup /\ how # "ok")
      BY <2>6, <2>7 DEF c
    <3> QED BY <2>1, <2>3, <2>4, <2>5, <3>1, EndSupplied
  <2>10. step' \in {step, step + 1}
    BY <2>5 DEF EndStep
  <2>11. Literals'
    BY <2>1, <2>3, <2>4, <2>10, LiteralsGrow
  <2> QED BY <2>8, <2>9, <2>11
<1>10. CASE Finish
  BY <1>10, StaysInv DEF Finish, Placed, Running
<1>11. CASE UNCHANGED vars
  BY <1>11, StaysInv DEF vars, Placed
<1> QED
  BY <1>1, <1>2, <1>3, <1>4, <1>5, <1>6, <1>7, <1>8, <1>9, <1>10, <1>11 DEF Next, Terminating

LEMMA Invariant == Spec => []IInv
BY InitInv, NextInv, PTL DEF Spec

-----------------------------------------------------------------------------
(* What a clean file refers to.                                            *)

\* The references of some fields are bound if those of each are.
LEMMA RefsSplit ==
  ASSUME NEW n, NEW fs, NEW b, \A f \in fs : RefsAt(n, {f}) \subseteq b
  PROVE  RefsAt(n, fs) \subseteq b
BY DEF RefsAt

LEMMA RefsOf ==
  ASSUME NEW n, NEW fs, NEW f \in fs PROVE RefsAt(n, {f}) \subseteq RefsAt(n, fs)
BY DEF RefsAt

\* The references of a required field are looked at.
LEMMA RequiredBound ==
  ASSUME NEW D, NEW n, NEW f, NEW b, \A d \in D : d.what[1] # "unbound",
         Required(n, f, b) \subseteq D
  PROVE  RefsAt(n, {f}) \subseteq b
<1>1. Unbound(RefsAt(n, {f}), b) \subseteq D
  BY DEF Required
<1> QED BY <1>1, AllBound, Zenon

\* What a clean step's execution replaces is bound before it, but where the linter does
\* not look.
LEMMA CleanRefers ==
  ASSUME NEW s, NEW b, NEW isSetup, ~HasErrors(LintStep(s, b, isSetup)),
         \A d \in LintStep(s, b, isSetup) : d.what[1] # "unbound"
  PROVE  Substituted(s) \subseteq b \cup Unlinted(s)
<1> DEFINE n == Body(s)
           D == LintBody(s, b)
<1>1. /\ ~HasErrors(D) /\ \A d \in D : d.what[1] # "unbound"
      /\ StepType(s) \in StepTypes /\ n.kind = "mapping"
  <2>1. LintBody(s, b) \subseteq LintStep(s, b, isSetup)
    BY OneType DEF LintStep
  <2> QED BY <2>1, OneType
<1>2. CASE StepType(s) = "request"
  <2>1. D = LintRequest(n, b)
    BY <1>2, BodyDiagnostics
  <2> HIDE DEF D, n
  <2>2. Unbound(RefsAt(n, {"path", "body"}) \cup RefsUnder(n, "headers"), b) \subseteq D
    BY <2>1 DEF LintRequest
  <2>3. RefsAt(n, {"path", "body"}) \cup RefsUnder(n, "headers") \subseteq b
    BY <1>1, <2>2, AllBound, Zenon
  <2>4. /\ Substituted(s) = RefsAt(n, {"path", "body"}) \cup RefsUnder(n, "headers")
                            \cup RefsUnder(n, "body")
        /\ Unlinted(s) = RefsUnder(n, "body")
    BY <1>2 DEF Substituted, Unlinted, n
  <2> QED BY <2>3, <2>4
<1>3. CASE StepType(s) = "exec"
  <2>1. D = LintExec(n, b)
    BY <1>3, BodyDiagnostics
  <2>2. Substituted(s) = RefsAt(n, {"command", "stdin"}) \cup RefsUnder(n, "env")
                         \cup RefsUnder(n, "files")
    BY <1>3 DEF Substituted
  <2> HIDE DEF D, n
  <2>3. /\ Required(n, "command", b) \subseteq D
        /\ Unbound(RefsAt(n, {"stdin"}) \cup RefsUnder(n, "env") \cup RefsUnder(n, "files"), b)
             \subseteq D
    BY <2>1 DEF LintExec
  <2>4. RefsAt(n, {"stdin"}) \cup RefsUnder(n, "env") \cup RefsUnder(n, "files") \subseteq b
    BY <1>1, <2>3, AllBound, Zenon
  <2>5. RefsAt(n, {"command"}) \subseteq b
    BY <1>1, <2>3, RequiredBound
  <2>6. \A f \in {"command", "stdin"} : RefsAt(n, {f}) \subseteq b
    BY <2>4, <2>5
  <2>7. RefsAt(n, {"command", "stdin"}) \subseteq b
    BY <2>6, RefsSplit, Zenon
  <2> QED BY <2>2, <2>4, <2>7
<1>4. CASE StepType(s) = "browser"
  <2> DEFINE action == ValueAt(n, "action")
             unused == {"url", "selector", "value"} \ ActionNeeds[action]
  <2>1. D = LintBrowser(n, b) /\ action \in {"navigate", "click", "fill", "assert"}
    BY <1>1, <1>4, BodyDiagnostics, NotOnlyError DEF LintBrowser
  <2>2. Unlinted(s) = RefsAt(n, unused)
        /\ Substituted(s) = RefsAt(n, {"url", "selector", "value", "text", "text_absent"})
    BY <1>4 DEF Unlinted, Substituted
  <2> HIDE DEF D, n
  <2>3. /\ Unbound(RefsAt(n, {"text", "text_absent"}), b) \subseteq D
        /\ \A f \in BrowserNeeds(action) : Required(n, f, b) \subseteq D
    BY <2>1, BrowserParts
  <2>4. RefsAt(n, {"text", "text_absent"}) \subseteq b
    BY <1>1, <2>3, AllBound, Zenon
  <2>5. ActionNeeds[action] \subseteq BrowserNeeds(action)
    BY <2>1 DEF ActionNeeds, BrowserNeeds
  <2>6. \A f \in ActionNeeds[action] : RefsAt(n, {f}) \subseteq b
    BY <1>1, <2>3, <2>5, RequiredBound
  <2>7. \A f \in {"url", "selector", "value", "text", "text_absent"} :
          RefsAt(n, {f}) \subseteq b \cup RefsAt(n, unused)
    <3> SUFFICES ASSUME NEW f \in {"url", "selector", "value", "text", "text_absent"}
                 PROVE  RefsAt(n, {f}) \subseteq b \cup RefsAt(n, unused)
      OBVIOUS
    <3>1. CASE f \in {"text", "text_absent"}
      BY <2>4, <3>1, RefsOf
    <3>2. CASE f \in ActionNeeds[action]
      BY <2>6, <3>2
    <3>3. CASE f \in unused
      BY <3>3, RefsOf
    <3> QED BY <3>1, <3>2, <3>3
  <2>8. RefsAt(n, {"url", "selector", "value", "text", "text_absent"})
          \subseteq b \cup RefsAt(n, unused)
    BY <2>7, RefsSplit, Zenon
  <2> QED BY <2>2, <2>8
<1>5. CASE StepType(s) = "grpc"
  <2>1. D = LintGRPC(n, b)
    BY <1>5, BodyDiagnostics
  <2> DEFINE messages == Messages(n)
             sent == UNION {Refs(messages[i]) : i \in DOMAIN messages}
  <2>2. Substituted(s) = RefsAt(n, {"service", "method", "body"}) \cup RefsUnder(n, "headers")
                         \cup sent
    BY <1>5 DEF Substituted
  <2>3. Unlinted(s) = IF Has(n, "service") THEN {} ELSE RefsAt(n, {"method"})
    BY <1>5 DEF Unlinted
  <2> HIDE DEF D, n
  <2>4. RefsAt(n, {"body"}) \cup RefsUnder(n, "headers") \subseteq b
    <3>1. Unbound(RefsAt(n, {"body"}) \cup RefsUnder(n, "headers"), b) \subseteq D
      BY <2>1 DEF LintGRPC
    <3> QED BY <1>1, <3>1, AllBound, Zenon
  <2>5. sent \subseteq b
    <3>1. CASE Has(n, "stream")
      <4>1. LintGRPCStream(At(n, "stream"), b) \subseteq D
        BY <2>1, <3>1 DEF LintGRPC, When
      <4>2. UNION {Refs(m) : m \in {messages[i] : i \in DOMAIN messages}} \subseteq b
        <5> DEFINE refs == UNION {Refs(m) : m \in {messages[i] : i \in DOMAIN messages}}
        <5>1. Unbound(refs, b) \subseteq LintGRPCStream(At(n, "stream"), b)
          BY <3>1 DEF LintGRPCStream, Messages
        <5> HIDE DEF refs
        <5>2. refs \subseteq b
          BY <1>1, <4>1, <5>1, AllBound
        <5> QED BY <5>2 DEF refs
      <4> HIDE DEF messages
      <4> QED BY <4>2
    <3>2. CASE ~Has(n, "stream")
      BY <3>2 DEF Messages
    <3> QED BY <3>1, <3>2
  <2>6. CASE Has(n, "service")
    <3>1. Required(n, "service", b) \subseteq D /\ Required(n, "method", b) \subseteq D
      BY <2>1, <2>6 DEF LintGRPC, When
    <3>2. RefsAt(n, {"service"}) \subseteq b /\ RefsAt(n, {"method"}) \subseteq b
      BY <1>1, <3>1, RequiredBound
    <3>3. \A f \in {"service", "method", "body"} : RefsAt(n, {f}) \subseteq b
      BY <2>4, <3>2
    <3>4. RefsAt(n, {"service", "method", "body"}) \subseteq b
      BY <3>3, RefsSplit, Zenon
    <3> HIDE DEF sent
    <3> QED BY <2>2, <2>4, <2>5, <3>4
  <2>7. CASE ~Has(n, "service")
    <3>1. RefsAt(n, {"service"}) = {}
      BY <2>7 DEF RefsAt, Has
    <3>2. \A f \in {"service", "method", "body"} : RefsAt(n, {f}) \subseteq b \cup RefsAt(n, {"method"})
      BY <2>4, <3>1
    <3>3. RefsAt(n, {"service", "method", "body"}) \subseteq b \cup RefsAt(n, {"method"})
      BY <3>2, RefsSplit, Zenon
    <3> HIDE DEF sent
    <3> QED BY <2>2, <2>3, <2>4, <2>5, <2>7, <3>3
  <2> QED BY <2>6, <2>7
<1>6. CASE StepType(s) = "ws"
  <2>1. D = LintWS(n, b) /\ Substituted(s) = RefsAt(n, {"url", "id", "send"})
    BY <1>6, BodyDiagnostics DEF Substituted
  <2> HIDE DEF D, n
  <2>2. Unbound(RefsAt(n, {"url", "id", "send"}), b) \subseteq D
    BY <2>1 DEF LintWS
  <2> QED BY <1>1, <2>1, <2>2, AllBound
<1>7. CASE StepType(s) = "tui"
  <2>1. D = LintTUI(n, b) /\ Substituted(s) = RefsAt(n, TUIActions \cup {"command"})
    BY <1>7, BodyDiagnostics DEF Substituted
  <2> HIDE DEF D, n
  <2>2. /\ Unbound(RefsAt(n, TUIActions), b) \subseteq D
        /\ Has(n, "command") => Required(n, "command", b) \subseteq D
    BY <2>1 DEF LintTUI, When
  <2>3. RefsAt(n, TUIActions) \subseteq b
    BY <1>1, <2>2, AllBound, Zenon
  <2>4. RefsAt(n, {"command"}) \subseteq b
    <3>1. CASE Has(n, "command")
      BY <1>1, <2>2, <3>1, RequiredBound
    <3>2. CASE ~Has(n, "command")
      BY <3>2 DEF RefsAt, Has
    <3> QED BY <3>1, <3>2
  <2>5. \A f \in TUIActions \cup {"command"} : RefsAt(n, {f}) \subseteq b
    BY <2>3, <2>4, RefsOf
  <2>6. RefsAt(n, TUIActions \cup {"command"}) \subseteq b
    BY <2>5, RefsSplit, Zenon
  <2> QED BY <2>1, <2>6
<1> QED BY <1>1, <1>2, <1>3, <1>4, <1>5, <1>6, <1>7 DEF StepTypes

-----------------------------------------------------------------------------
(* The theorems.                                                           *)

\* A step of a file that the linter finds no error in fails for what stands in the file only
\* where the linter does not look, whatever the file, and whether the loader was asked or not
\* (lint/scenario.go against runner.go and the executors).
THEOREM NeverItself == Spec => []CleanNeverFailsItself
<1>1. IInv => CleanNeverFailsItself
  BY DEF IInv, Placed, Sound, Clean, StepAt, Current, CleanNeverFailsItself
<1> QED BY <1>1, Invariant, PTL

\* A literal {name} is handed to a step only when an earlier judged step has failed to
\* capture it, or where the linter has warned or does not look (varcheck.go against
\* the substitution of captured variables in runner.go).
THEOREM Literally == Spec => []LiteralOnlyAfterFailure
<1>1. IInv => LiteralOnlyAfterFailure
  <2> SUFFICES ASSUME IInv, NEW l \in literal
               PROVE  IF l[2] \in BoundAt(file, l[1])
                      THEN \E j \in (SetupSteps(file) + 1)..(l[1] - 1) : <<j, l[2]>> \in uncaught
                      ELSE Clean /\ Bound => l[2] \in Unlinted(StepAt(file, l[1]))
    BY DEF IInv, Placed, Clean, Bound, StepAt, LiteralOnlyAfterFailure
  <2> DEFINE i == l[1]
             D == LintStep(StepAt(file, i), BoundAt(file, i), i <= SetupSteps(file))
  <2>1. /\ i \in DOMAIN AllSteps(file) /\ l[2] \in Substituted(StepAt(file, i))
        /\ l[2] \in BoundAt(file, i) =>
             \E j \in (SetupSteps(file) + 1)..(i - 1) : <<j, l[2]>> \in uncaught
    BY DEF IInv, Literals
  <2>2. ASSUME Clean, Bound PROVE l[2] \in BoundAt(file, i) \cup Unlinted(StepAt(file, i))
    <3>1. D \subseteq LintScenario(file)
      BY <2>1, StepDiagnostics
    <3>2. ~HasErrors(D) /\ \A d \in D : d.what[1] # "unbound"
      BY <2>2, <3>1, PartClean DEF Clean, Bound
    <3> QED BY <2>1, <3>2, CleanRefers
  <2> QED BY <2>1, <2>2
<1> QED BY <1>1, Invariant, PTL

-----------------------------------------------------------------------------
(* The end of a run.                                                       *)

\* How often the step at hand has been tried.
Tried ==
  /\ attempt \in Nat
  /\ pc \notin Running => attempt = 0
  /\ pc \in {"attempt", "wait"} => attempt < Attempts(Current)
  /\ pc = "capture" => attempt <= Attempts(Current)

LEMMA AttemptsPositive == Attempts(Current) \in Nat /\ Attempts(Current) > 0
BY RunnerAssumption DEF Attempts

\* The step of a file that ends is the last thing an action does.
LEMMA EndMoves ==
  ASSUME Placed, pc \in {"step"} \cup Running, NEW how, EndStep(how), step \in DOMAIN AllSteps(file)
  PROVE  Moves /\ Tried'
<1>1. step \in Nat /\ Len(AllSteps(file)) \in Nat /\ step <= Len(AllSteps(file))
  BY FileSteps DEF Placed
<1>2. /\ attempt' = 0 /\ expired' = FALSE /\ pc' \in {"step", "failed"}
      /\ \/ pc' = "failed" /\ step' = step
         \/ step' = step + 1
  BY DEF EndStep
<1>3. Tried'
  BY <1>2 DEF Tried, Running
<1>4. Moves
  BY <1>1, <1>2 DEF Moves, Stage, Running
<1> QED BY <1>3, <1>4

\* Every action goes on in the file, within a step, or to the next of its attempts.
LEMMA NextMoves == IInv /\ Tried /\ [Next]_vars => Tried' /\ [Moves]_vars
<1> SUFFICES ASSUME IInv, Tried, [Next]_vars PROVE Tried' /\ [Moves]_vars
  OBVIOUS
<1>0. /\ Placed /\ (pc \in Running => step \in DOMAIN AllSteps(file))
      /\ step \in Nat /\ Len(AllSteps(file)) \in Nat /\ DOMAIN AllSteps(file) = 1..Len(AllSteps(file))
      /\ Attempts(Current) \in Nat /\ Attempts(Current) > 0
  BY FileSteps, AttemptsPositive DEF IInv, Placed
<1>1. ASSUME UNCHANGED <<file, step>> PROVE Attempts(Current)' = Attempts(Current)
  BY <1>1 DEF Current, Attempts, Retried
<1>2. CASE Load \/ Finish
  BY <1>0, <1>1, <1>2 DEF Load, Finish, Tried, Moves, Stage, Running
<1>3. CASE StartStep
  <2>1. step \in DOMAIN AllSteps(file) /\ pc = "step" /\ step >= 1
    BY <1>0, <1>3 DEF StartStep, Placed
  <2>2. CASE StepError("itself")
    BY <1>0, <2>1, <2>2, EndMoves DEF StepError
  <2>3. CASE pc' = "attempt" /\ UNCHANGED <<file, lint, step, attempt, expired, bound, fatal, results, literal, uncaught>>
    BY <1>0, <1>1, <2>1, <2>3 DEF Tried, Moves, Stage, Running
  <2> QED BY <1>3, <2>2, <2>3 DEF StartStep
<1>4. CASE Deadline
  <2>1. pc' = pc /\ ~expired /\ expired' /\ UNCHANGED <<file, step, attempt>>
    BY <1>4, Zenon DEF Deadline
  <2>2. pc \in {"attempt", "wait"}
    BY <1>4, Zenon DEF Deadline
  <2>3. attempt' <= Attempts(Current) /\ Tried'
    BY <1>0, <1>1, <2>1, <2>2 DEF Tried, Running
  <2> QED BY <2>1, <2>3, Zenon DEF Moves
<1>5. CASE WaitOver
  BY <1>0, <1>1, <1>5 DEF WaitOver, Tried, Moves, Stage, Running
<1>6. CASE AttemptSucceeds \/ AttemptFails
  BY <1>0, <1>1, <1>6 DEF AttemptSucceeds, AttemptFails, Executed, MoreAttempts, Tried, Moves, Stage,
    Running
<1>7. CASE LastAttemptFails \/ WaitExpires \/ Capture
  <2>1. pc \in Running /\ \E how \in {"ok", "itself", "system", "deadline"} : EndStep(how)
    BY <1>7 DEF LastAttemptFails, WaitExpires, StepError, Capture, Failure, Running
  <2> QED BY <1>0, <2>1, EndMoves
<1>8. CASE UNCHANGED vars
  BY <1>1, <1>8 DEF vars, Tried, Running
<1> QED BY <1>2, <1>3, <1>4, <1>5, <1>6, <1>7, <1>8 DEF Next, Terminating

\* Every action uses up steps of the file, places of a step, attempts or the deadline,
\* whatever the file and the system under test: a run whose attempts end is over at last, and
\* makes no more attempts than a retry asks for (executeWithRetry).
THEOREM RunStops == Spec => MovesOn
<1>1. Init => Tried
  BY DEF Init, Tried, Running
<1> QED BY <1>1, Invariant, NextMoves, PTL DEF Spec, MovesOn
=============================================================================
