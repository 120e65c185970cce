# OctopusGarden in TLA+

A verification development for `octog`: TLA+ models of its core logic, TLC
configurations that check them on small instances, and TLAPS proofs of what
matters most for every instance. Paths below are relative to the repository.

## The system

`octog run` turns a specification into a program. An LLM generates files, Docker
builds and starts them, and hidden scenarios are run against the container and
scored by an LLM judge; the loop repeats with the failures as feedback until the
weighted score reaches a threshold, or the run stalls or runs out of budget or
iterations. Around it are commands that validate, lint, interview and extract
"genes" (coding guides) from other repositories.

| component | state | operations | correct when |
|---|---|---|---|
| convergence loop (`internal/attractor/attractor.go`) | `runState`: tier, stall count, best files and score, last outcome, patch mode, per-scenario scores, costs; containers and handles on the stack of `buildRunValidate` | `Run`, `iterate`, `generateStandard`, `generateAgentic`, `wonderReflect`, `buildRunValidate`, `startServiceContainer`, `processValidation`, `advanceTierIfNeeded` | it ends; a status is given only where it is true; nothing is left running; the best never gets worse; budget and stall limit are kept |
| escalation (`escalation.go`) | tier, failures and improvements in a row | `recordOutcome`, `currentModel` | the better model is tried before the run stalls |
| regression detection (`regression.go`) | scores of the last validation | `detectRegressions` | a blocked convergence is one with a regression and the reverse |
| composed convergence (`attractor.go`) | per-component loop state, accepted files and interfaces, shared `runState` | `tryComposed`, `runComposed`, `convergeComponent`, `validateComposed` | dependencies first; what converges is whole; every failure is contained |
| component lists (`gene/gene.go`, `attractor/toposort.go`) | DFS colours, Kahn's counters | `validateComponents`, `topoSort` | the order is dependency-first; the two agree on what is a cycle and what is known |
| `octog validate` (`cmd/octog/main.go`) | options; the container under test, `currentStop`, target URL; a result slot for each scenario | `setupValidateContainer`, its restart closure and cleanup, `runAndScoreSequential`, `runAndScoreParallel`, `outputValidation` | each scenario runs against the container that is up; a report is of the scenarios' own making; nothing is left behind |
| validation closure (`cmd/octog/main.go`, `scenario/judge.go`) | session pointer and gRPC target shared with the loop | `buildValidateFn`, `runAndScore`, `Aggregate` | scenarios run against what the loop started; the mean is weighted right |
| agentic tools (`tools.go`, `llm/anthropic.go`) | file map under a mutex, message list | `AgentLoop`, parallel `Handle` | each result answers its call; what was written can be read; disk and map agree; no handler outlives the loop; turns are bounded |
| scenario linter and loader (`lint/scenario.go`, `lint/varcheck.go`, `scenario/loader.go`) | names bound so far | `lintScenarioContent`, a check per step type, `parseScenario` | what lints clean does not fail for what stands in the file |
| scenario runner (`scenario/runner.go`) | captured variables; attempts and deadline of a step | `Run`, `executeWithRetry`, `resolveCapture` | it ends; setup failures end it and judged ones do not; a name is used once it is bound |
| streaming executors (`scenario/ws.go`, `grpc.go`, `tui.go`) | per-scenario connections, streams and a terminal process, each with a reader goroutine and a buffer | `Execute`, the receiving loops, `Close` | messages in order, none twice, none lost while there is room; no reader outlives its connection; `Close` ends |
| container manager (`container/docker.go`) | none of its own; stop functions in its callers' hands, the goroutine that writes a build's archive | `Build`, `Run`, `RunMultiPort`, `StartSession`, `WaitHealthy`, `WaitPort`, `Exec`, `RunTest`, `RemoveImage` | partial failures undo what was done; calls end |
| store (`store/db.go`) | SQLite tables | `RecordRun`, `RecordIteration` | rows match the run |
| interview (`interview/interview.go`, `scenarios.go`) | message history, lines collected so far; the goroutine that scans the input | `Run`, `readMessage`, `processAnswer`, `Generate` | an answer is the lines typed for it; only a finished interview leaves a spec; it ends by limit, input or interrupt |
| the rest: spec linter, spec parser, gene extraction, preflight, observability, UI | - | pure functions and wrappers | - |

How they interact. The CLI builds closures for the loop: a session provider and a
gRPC target provider that write variables, and a validation closure that reads
them. The loop calls the LLM client and the container manager, hands the
validation a URL and (HTTP only) a restart function that shares the reference to
the container with the deferred stop, and reports each iteration to a progress
callback that writes the store. A validation, of the loop or of `octog validate`,
gives each scenario executors of its own, runs its steps, closes the executors and
asks the judge. Before the loop, the composed attempt works the
gene's component list; its cost seeds the loop's budget.

What is hard. Failure at every external call with resources held by defers; two
places that count stalls in one iteration; state that must be reset between
tiers, iterations and components; costs checked in some places and spent in
others; scores compared after a round trip through text; names compared in two
ways; and, in the executors, agent tools and interview, goroutines. The list with
lines is `hazards` in `PROJECT.json`.

## Modules

| module | models | kind |
|---|---|---|
| `Attractor` | `Run` from the monolithic loop on | one goroutine against an environment of LLM, Docker, judge and disk |
| `RunContract` | what `Run` promises its caller | abstract specification, implemented by `Attractor` |
| `AttractorProofs` | theorems about `Attractor` | TLAPS |
| `Components` | gene validation and topological sort | sequential, DFS roots in any order |
| `Composed` | the composed attempt; extends `Components`, whose sort is its first part | one goroutine against the environment |
| `ComposedProofs` | theorems about `Components`, and about `Composed` from them | TLAPS |
| `AgentLoop` | `generateAgentic` and the LLM client's `AgentLoop` | one goroutine, and one for each tool call of a turn |
| `AgentLoopProofs` | theorems about `AgentLoop`: its turns, its files | TLAPS |
| `Streams` | the WebSocket, gRPC and terminal executors | the scenario's goroutine, a reader for each stream, and the peer |
| `Channel` | what a stream promises the steps that collect from it | abstract specification, implemented by `Streams` |
| `StreamsProofs` | theorems about `Streams` | TLAPS |
| `Lint` | the scenario linter | operators over a tree of YAML nodes |
| `Runner` | loading and running a scenario; extends `Lint` | one goroutine against the system under test |
| `RunnerProofs` | theorems about `Lint` and `Runner` together | TLAPS |
| `Containers` | the container manager | one goroutine and archive writers against the Docker daemon |
| `ContainersProofs` | a theorem about `Containers` | TLAPS |
| `Validate` | `octog validate` | a goroutine for each scenario, a user who interrupts |
| `ValidateProofs` | theorems about `Validate` | TLAPS |
| `Interview` | `octog interview` | the loop, the goroutine that scans the input, and a user who types and interrupts |
| `InterviewProofs` | theorems about `Interview` | TLAPS |
| `MCAttractor`, `MCComponents`, `MCComposed`, `MCAgentLoop`, `MCStreams`, `MCRunner`, `MCInterview` | instances for TLC | |

Each takes as one step what another opens. `Attractor` and `Composed` see a call
of the manager as one that succeeds or fails and then leaves nothing: that is
`ContainersOwned`. They and `Validate` see a scenario as one step that ends: that
is `RunEnds`, with the exception it makes of attempts that nothing need end, and `AllStop` for
the executors' `Close`.

### Attractor

`pc` is the place in `Run` and `iterate`; every external call is an action per
outcome that the code tells apart.

| code | place | actions |
|---|---|---|
| head of the loop in `Run` | `loop` | `StartIteration`, `BudgetStop`, `MaxIterationsReached` |
| `generateContent`: triage, `wonderReflect`, single call | `triage`, `wonder`, `reflect`, `generate` | `Triage`, `Wonder`, `Reflect`, `Generate`, `GenerationError` |
| `generateStandard`, `generateAgentic` | `parse`, `agent` | `ParseFails`, `WriteFiles`, `AgentWritesFiles`, `AgentWritesNothing` |
| `buildRunValidate`, `startHTTPContainer`, `startGRPCContainer` | `build`, `session`, `service`, `health` | `Build`, `StartSession`, `NoService`, `ServiceStarts`, `ServiceFails`, `ServiceHealthy`, `HTTPUnhealthy`, `GRPCUnhealthy` |
| `runTestCommand` | `test` | `RunTestCommand` |
| validation closure, `restartFn` | `validate`, `restart`, `rehealth` | `ScoreScenario`, `ScenarioError`, `Restart`, `RestartHealth`, `ValidateReturns` |
| `processValidation` | `process` | `Converge`, `Improve`, `NotBetter`, `WriteBestFails` |
| the defers, and the end of the iteration in `Run` | `cleanup`, `report` | `Cleanup`, `AdvanceTier`, `FinishIteration` |

Data is abstracted to what the properties tell apart: generated files are the
number of the iteration they come from, failures likewise, containers are
numbered within an iteration, and scores are tenths of a point so that `Shown`
can round them as `%.0f` does. Two things are exact on purpose: the unhealthy
gRPC container that is kept below the stall limit, and the double stall of an
iteration whose container did not start.

### Components

`Names` are spellings and `Norm` is `normalizeName`. The DFS is unfolded into
steps over an explicit stack, the set on it being `inStack`; its roots are taken
in any order, as the Go map's range may. Kahn's counters count mentions, so that
a dependency listed twice counts twice on both sides.

### Composed

It extends `Components`, whose own specification is `GeneInit`, `GeneNext` and
`GeneSpec`, and takes a step of `GeneNext` while the list is being sorted; so a
converged attempt is traced from the raw list to the merged files. `Build` to
`Release` serve a component and the integration alike, as `startComposedContainer`
does in the code; `EvaluateComponent` and `EvaluateComposed` are what differs.
`Release` is all the defers of one `buildAndValidateComponent` or
`validateComposed`.

### AgentLoop

`Attractor` sees agentic generation as one call; this module opens it.
`generateAgentic` seeds the directory and the handler's map (`Seed`), the loop
streams turns (`EndTurn`, `OtherStop`, `ToolUse`; `StreamBreaks` and `Backoff` are
the retries of `streamMessage`), and each call of a turn is a goroutine at
`handlers[i]`. A write takes three steps, since `os.WriteFile` truncates before it
writes and the map is entered last, under its lock (`OpenFile`, `WriteContent`,
`RecordFile`); two writes of one path interleave at each of them, and may leave
parts of both (`Mixed`). A handler that fails does not stop its siblings: none of
them looks at the context, and `Wait` waits for all. A content is the turn and
the call it comes from; paths have a spelling, the key of the map, and a place on
disk. The retry counter starts again with each turn.

Two things are as in the code and worth knowing. A turn that ends for a reason
other than tool use, `max_tokens` for one, is taken for the end of the work, and
the calls in it are not handled (`OtherStop`). And if one path is written twice in
a turn, or under two spellings, the map and the disk may disagree: `FilesMatchDisk`
exempts just that.

### Streams and Channel

One executor of the three kinds at a time, over streams numbered as they are
opened. A step is `Begin...` and then a walk over `pc`: `dial`, `hangup` and `await`
(the old connection under an ID is closed and its reader waited for), `lookup`,
`send`, `take` and `poll` (the two halves of the receiving loop: take what is in
the buffer under the lock, then select on ticker and deadline), `status` (gRPC
reads it under a second lock). `Reader(s)` is the goroutine of a stream: it takes
the next message (`ReadMessage`), keeps it while the buffer has room (`Kept`), and
records an error when the stream is over (`ReaderStops`). `Close` cancels, kills
what does not end within its grace and waits. The peer sends, ends and breaks
streams whenever it likes.

`Channel` is what a test would assume: messages in the order they were sent, each
once, and one missing only if the buffer was full when it came. `Streams`
implements it for each stream (`ImplementsChannel`), with a capacity of
`BufferCap` for WebSockets and none for gRPC.

### Lint and Runner

`Lint` is the linter as operators over a tree of nodes: a scalar has a text (empty,
fitting, not fitting, or a word that matters) and the names it refers to. `Runner`
takes the same tree, loads it (`Loads`: what the YAML decoder accepts into the
structures of `types.go`, listed in `FieldTypes`) and runs it: `StartStep`, attempts that
succeed or fail, the wait between them with its deadline, `Capture`. A failure is the file's own
or the system's, which is open. It is the file's own (`FailsByItself`) when

- the step alone will not do (`Incomplete`: a field the executor cannot do without, a timeout that
  does not parse; `Invalid`, before an attempt: delay, type, retry);
- a text is nothing its field takes (`Misformed`: a URL, a header, a selector, the JSON of a gRPC
  message, a file where a directory is, a key `mapKey` does not know), or would be only with a
  `{name}` replaced that nothing captures;
- no earlier step can have got ready what it uses (`Unready`: the process a terminal step types to,
  the connection a WebSocket step without a URL goes on with, the background stream a gRPC step
  collects from; `Launches`, `Dials` and `Starts` are the steps that can).

So the two readings of one file that the repository has, the linter's and the executors', meet
in one state. How long a duration is, is left out: a timeout that parses may be enough.

Where the two differ, the properties say so. The linter looks neither into texts nor at what
an earlier step has to get ready (it warns of a WebSocket step without a URL, whether or not
there is a connection), it takes a `null` for the text it is written with (`Blank`), and a gRPC
step without a service whose stream has no ID, which always fails, lints clean (`Anonymous`).
Files like these load and run, and `CleanNeverFailsItself` names each of them (`Overlooked`): what
it holds the linter to is the rest, the fields each action needs, the durations, types and
retries that linter and executors check one by one in two places. Some references are
substituted and not linted (`Unlinted`): those in a request body written as a
mapping, in browser fields the action has no use for, in the method of a gRPC step
that collects from a stream and has no service. A value of the
wrong YAML kind passes the linter and is refused by the loader, and some errors
of the linter (two step types in a step, a count of zero) are accepted at run time.
To capture a source that the step does not produce gives the empty string.

### Containers

A call is at one place (`call.at`) between two requests to the daemon, which may
answer, refuse, or do what it is asked and have its answer lost. `held` are the
containers whose stop function the caller has, `lost` those of which the daemon
did not say that it made them or did not remove them. `Run`, `RunMultiPort` and
`StartSession` share `Created`, `Started`, `StartFails`; the first two go on to the
inspection. The archive of a build has a `writer`; `BuildReturns` closes the pipe,
and the writer then finds it closed (`FindsPipeClosed`).

Two things are as in the code and worth knowing. The input of an exec is
written and its output read to the end with no regard to the deadline (one step, `OutputEnds`), so
a command that never ends, or that leaves its input unread, is one that never returns,
whatever timeout its step has: `CallsEnd` excepts just that. And a build that reports a failure may have tagged its image
(`LogFails`).

### Validate

`setupValidateContainer` (`Build`, `Run`, `WaitHealthy`), the sequential scorer with
its restart closure (`RestartStops` to `RestartUnhealthy`), the parallel one
(`Launch`, `GroupEnds`), a scenario either way (`ScoredZero` to `JudgeFails`), the
exit by `--threshold` (`Output`) and the deferred `Cleanup`. The containers are
numbered; `target` is the one a scenario's executors were built for. `interrupted`
is the user's signal, which cancels the context of all. An interrupt during the
last scenario, or of a parallel group, shows as failed steps and thus as scores of
zero in a report without an error: `ReportIsOwn` is about the reports of commands
that were not interrupted.

### Interview

`startScanner`'s goroutine is at `reader`: it scans (`ReaderScans`), offers the line on
the unbuffered channel, and gives up when the context is done (`ReaderQuits`). The loop
is at `pc`: it asks the LLM (`Ask`, and `flying` until `Opened`, `Answered`,
`SpecGenerated`, `ScenariosGenerated` or `CallFails`), collects lines into an answer
(`ReceiveLine`, `ReceiveSubmit` after two blank ones, `ReceiveDone`, `ReceiveEOF`), and
writes what it was given (`WriteSpec`, `StoreScenario`). A line is its position in the
script the user types, a text the set of its positions, and a scenario file a name, the
path it came under and whether it loads.

The user may interrupt at any place, and `interruptedAt` remembers which. A call begun
before the interrupt may still answer, and where a line and the interrupt are both
there the `select` takes either. `SubmitPoints` and `Answer` read the script as a whole, as a
user would: groups of lines between pairs of blank ones. `readMessage` reads it line by
line, and `TranscriptIsTyped` says the two come to the same.

An LLM may give two scenario files of one base name. The code keeps the first of a walk
over a map, so that either may be kept (`ScenariosGenerated`).

## Runs

| run | asks | instance |
|---|---|---|
| `attractor_loop` | do all runs keep the nine properties of the loop? | seven option sets, one of which blocks convergence on a regression at a threshold of 70; two scenarios in tiers 1 and 3 with weights 1 and 3; scores 0, 60, 94.8, 96; costs 1 and 2 |
| `components` | is every small list judged and ordered right? | all lists of three with up to 2, 2 and 1 dependencies over four spellings, and all lists of one or two over six spellings, blanks included |
| `composed` | does the attempt contain every failure? | a chain, a diamond, an unknown and a cyclic list; eight option sets |
| `agent_loop` | do tools, map and disk stay together? | two files, one with a second spelling; three turns of up to three calls: two writes, a write and a look, two writes under two spellings beside a look, an unknown tool; three seeds; two stream retries |
| `streams` | do the executors keep their streams in order and end? | the three kinds; two streams, three steps, two messages each, a buffer of one |
| `runner` | do linter, loader and executors agree on every file? | a setup step or none and one or two judged ones from a menu of 30, in which every check has something to find; 13 steps that lint clean and must fail, alone, after steps that bind the names they use, and after nine that open, or seem to open, what they need; three attempts |
| `containers` | is every container in somebody's hands, and does every call end? | three containers, five calls of any kind |
| `validate` | does each scenario have its container, and each report its results? | three scenarios of four types, two at a time or one by one, with and without `--code`, `--grpc-target`, `--threshold` |
| `interview` | is the conversation what was typed, and does it end? | all inputs of up to six lines, and of seven that use up both rounds, that end, break or wait; drafts with names that collide or are unsafe, and files that do not load |
| `validates_running` | violated: a validation always has a running service | one HTTP option set |
| `gene_names` | violated: an accepted list can be sorted | lists with a second spelling |
| `validate_panics` | violated: each step is executed | two scenarios, HTTP and exec |

The violated ones are the findings of `PROJECT.json`; each states what a comment,
a document or the help of the program says. Everything else holds.

Some departures from the repository's own words are described here rather than
run, since they are seen from one line of the model. Patch mode "is disabled for
the remainder of the run" after two regressions (`attractor.go:1571`), and
`resetForTierAdvancement` enables it with the next tier (1656). The failures of a
report "are only populated after the validation phase" (`main.go:599`), and
`iterate` resets them at 1033, after the files are parsed, so that a parse failure is stored
with those of the validation before. A score that falls from 96 to 94.8 is shown
as 95, and `--block-on-regression` (`main.go:205`) compares the shown ones. The composed
attempt falls back "if any component fails to converge" (`gene-transfusion.md:178`),
and `convergeComponent` (740) takes the best files of one that used up its
attempts. `AgentLoop` "is sequential" (`tools.go:22`), and it handles the calls of a
turn in parallel (`anthropic.go:442`). `Close` says "Wait for all background streams to
finish" (`grpc.go:132`), and `startBackgroundStream` (459) puts a stream under an ID in
use over the old one, whose goroutine nobody waits for: `ReadersOwned` claims only that it
has been cancelled by then. A collision of scenario names is
logged as "keeping first" (`scenarios.go:79`), where first is the order of a map.

Why the bounds are enough. Scores lie on both sides of every comparison the code
makes: the pass threshold (80), the convergence threshold (95), and the rounding
between them (94.8 is shown as 95). With a threshold of 70, which scenario 2 reaches alone, an
iteration gets there while scenario 1 falls, is held back, and one with a lower score converges
later. Iteration limits (3 to 8) are above the stall
limits (2 to 4), above the two failures of an escalation and, in the command line
configuration, above the five improvements of a downgrade; six iterations climb
three tiers. Budgets (2 to 8 against costs of 1 and 2) run out in each phase.
`OverspendCap` (4 in the loop, 3 in the composed attempt) is above the bound the
property states. Costs stop counting at the budget, since the code only asks
whether it is reached. Five attempts with a stall limit of two need two scores
below the threshold to be used up, and a sixth attempt, were there one, a third. Three components make every shape of
dependency there is between two, a diamond and a cycle with a tail.

Two streams are a connection and the one that replaces it, or two under different
IDs; with a buffer of one the second message finds it full, and the third step
collects what is left. A container, its replacement after a restart and a third
that another call starts are all that the manager's actions can relate; five
calls are a build, a start, a wait or an exec, a stop and one more. Three scenarios
are two restarts, or, two at a time, one that waits for a place. Six lines are an answer with a
blank line in it, submitted, and another cut short by "done" or the end of the input; a seventh
comes after the last of two rounds.

Three agent turns are a write, a second write of the same file and a look at it, or
a failure after either. Two calls of a turn are the fewest that interleave, and a third sees the
two in either order; the number of calls is not bounded in the proofs.

Deadlock is checked in every run: `Terminating` stutters where the code has
returned.

## Fairness

`WF_vars(Next)` in `Attractor`, `Composed` and `AgentLoop`, and
`WF_geneVars(GeneNext)` in `Components`. In
`AgentLoop` it says that some goroutine takes a step as long as one can, the weakest there
is; every turn has finitely many
steps, so nothing more is needed. The loop, the composed attempt and the
sort are single goroutines that never wait for another, so the assumption is
that every external call returns. Readiness waits and the LLM's HTTP client have
timeouts; a Docker build or a scenario step without a timeout returns only as
Docker or the program under test lets it. `Attractor` and `Composed` assume that it does, or that
the user's cancellation ends it, and `Terminates` holds for runs in which it does; that
there are calls without any deadline is what `Containers` and `Runner` say.

`Runner` is fair to the runner, to the timer, and to attempts under a timeout (`AttemptEnds`): an HTTP
request has the client's, a gRPC call that of its step, and waiting for messages or a screen ends by
itself. It is not fair to the rest (`Unbounded`). `Session.Exec` writes its input and reads
the output whatever the deadline (`docker.go:521-537`). Chrome starts under a context without one
(`browser.go:160`), and so does a background stream (`grpc.go:440`). A WebSocket is dialled and
written to under no deadline but that of the step's retries, if it has one (`ws.go:130,78`). What is
typed into a terminal may stay unread (`tui.go:239,248`). So `RunEnds` says that a run ends, or stays in one attempt of such a step for
ever: no retry, wait, capture or other step keeps it going.

`Streams` is fair to the scenario, to each reader and, strongly, to the timer: the
receiving loop comes back to a `select` with a timer that stays ready once it has
fired, and takes it in the end. Nothing is assumed of the peer. `Containers` is fair
to the manager's own steps, to deadlines and to writers, and strongly to
`WaitFails`, for the same reason; not to a command's output, a build's archive or
the caller. `Validate` is fair to its steps, not to the user. `Interview` is fair to the loop and
to its reader: the LLM answers or fails, and a line that will be typed is typed; a
user may also fall silent, and need not interrupt.

## Proofs

About `Attractor`, for all options, scenarios, tiers, weights, scores and costs
(`ConstantsAssumption`):

| theorem | property | argument |
|---|---|---|
| `TypeCorrect` | `TypeOK` | inductive as it stands, from `Spending` and `SatisfactionNat` |
| `StallLimit` | `StallLimitStops` | `StallInv`: an iteration starts below the limit, so at most one of its two stalls can reach it, and whoever reaches it ends the run |
| `Owned` | `ResourcesOwned` | `ContainersInv`: what runs, by place; a restart replaces the container the deferred stop names |
| `Converged` | `ConvergedMeans` | `ResultInv`: a converged result stands only between `Converge` and the end of the run, and a tier advance clears it |
| `BestRises` | `BestNeverDrops` | the same invariant, on the step |
| `Implements` | `ImplementsContract` | every step maps to a step of `RunContract` or stutters (`ContractStep`) |
| `Overspend` | `OverspendBounded` | `OverspendInv`: how many paid phases an iteration can still begin from each place |
| `Escalates` | `EscalatesBeforeStalling` | `EscalationInv` ties the failures in a row to the stall count where an iteration stalls once |
| `Returns` | `MovesOn` | action by action (`StepMoves`): a later iteration, a later stage, or a scenario fewer to score |

None of the safety properties is inductive: each speaks of a few places, and the
invariant says what holds at the places in between. The constants need only be
of their types; no bound on them is assumed.

About `Components`, for all spellings, normalizations and lists of any length
(`NamesAssumption`, `GenesAssumption`):

| theorem | property | argument |
|---|---|---|
| `GeneTypeCorrect` | `GeneTypeOK` | an in-degree is the number of mentions still waited for (`PopCounts`), so it stays a natural number |
| `DependenciesPrecede` | `DependenciesFirst` | `KahnInv`: sorted names and queue are one line of distinct names, those without an in-degree; a pop moves the head across and extends the line (`LineMoves`) |
| `LoopsFound` | `LoopMeansCycle` | `DfsInv`: the finished names are closed under dependencies and contain no cycle (`DfsFinish`), so an accepted list has none; the names the search is in form a path, which a dependency on one of them closes (`PathCloses`) |
| `Agreement` | `ChecksAgree` | names left unsorted wait for each other, and would lie on a cycle the search has excluded (`AllSorted`); the sorted ones are as many as the list (`SortedWhole`) |
| `ListEnds` | `ListMovesOn` | the top of the stack is not yet finished, so its end adds a name to `visited` (`DfsInv`); distinct names within the list are no more than the list has (`NoLonger`, `WithinList`), which bounds the stack and the sorted part |

The two walks compare names differently, so `Agreement` needs `GeneInv` as well: in
an accepted list no two names have one normalized form, which makes every
dependency `topoSort` sees an edge of the search (`SpelledEdges`). `Edges` and
`DepsOf` state both graphs as sets, and no recursion is involved: the search is
proved step by step over its stack.

About `Composed`, for any lists, options, scores and costs (`OptionsAssumption`,
`AmountsAssumption`, and what `Components` assumes):

| theorem | property | argument |
|---|---|---|
| `TypeCorrect` | `TypeOK` | `Placed` and `Counted`: an attempt starts only while some are left, and the position in the list moves only when a component is taken |
| `Ready` | `DependenciesReady` | `Taken`: those taken are the sorted names before the one at hand, and `SortedFirst` of `Components` finds its dependencies among them |
| `Owned` | `ResourcesOwned` | `Held`: what runs and which handles are set, place by place |
| `Whole` | `ConvergedIsWhole` | the run ends as converged only at the end of the list, which is whole (`AllSorted`, `SortedWhole` of `Components`); `Placed` adds that what is built has a validator |
| `Bounded` | `OverspendBounded` | `Paid`: an attempt begins with money left (`Allowed`), so its validation is the first that may not; the integration validation is the second |
| `Ends` | `MovesOn` | `Counted` bounds attempts and components; the steps of the sort are those of `ListEnds` (`AttemptMoves`) |

The sort need not be proved again for `Composed`: a step of it is a step of `GeneNext` or
leaves the list alone, and the inductive invariant of `Components` (`Inv`) is kept by both
(`ListedStep`).

About `AgentLoop`, for any files and spellings, any calls of the model and any number of
turns and broken streams (`AgentAssumption`):

| theorem | property | argument |
|---|---|---|
| `TypeCorrect` | `TypeOK` | an iteration starts with `turn < MaxTurns`; a turn has as many handlers and results as calls |
| `Answers` | `AnswersMatchCalls` | `Handlers`: a handler that has ended has its result under its own index; `Turns` counts the exchanges against the turns |
| `NoneLeft` | `NoHandlerLeft` | `Handlers`: outside the place where tools run every handler has ended or failed |
| `Looks` | `LooksSeeEarlierTurns` | `Running`: a path no call of the turn writes keeps what the turns before left there (`Left`); `Looking` holds each result to that until it goes into the exchanges (`Seen`) |
| `SameFiles` | `FilesMatchDisk` | `Runs`: a path's writers go through disk and map in step, and when all have ended the two agree or the path had two writers or two spellings (`RunsEnd`) |
| `LoopEnds` | `MovesOn` | `Turns` bounds the turns and retries; a handler's step moves it alone (`GoesOn`) |

The invariant about the files (`FilesInv`) speaks of the last turn that wrote a path.
That a new exchange moves this turn only for the paths it writes (`MorePast`) needs no
induction over the exchanges: the new turn is the greatest of its own past.

About `Streams`, for any IDs, counts and buffer and any number of steps, streams and messages
(`StreamsAssumption`):

| theorem | property | argument |
|---|---|---|
| `Implements` | `ImplementsChannel` | most steps leave all messages alone (`Quiet`); the four that do not are a `Send`, a `Receive` or `Drop`, a `Collect`, a `Pass` of one stream (`SendsPromise` to `PassesPromise`), and stutters of the others (`OneStream`) |
| `Honest` | `ShortMeansOver` | `Answers`: a failed collection's stream has no reader at work, so nothing is added to the buffer it left empty |
| `Owned` | `ReadersOwned` | `Placed` and `Owners`: a step dials only when its ID is free, and forgets an ID only when its reader is done |

`Buffers` says that a stream without a reader has an empty buffer, which makes a step that reads
a stream itself a `Pass`. `FrontMoves` is the fact about sequences it all rests on: to move the
front of what waits to what was collected changes nothing in the whole.

About `Containers`, for any number of containers and calls (`ContainersAssumption`):

| theorem | property | argument |
|---|---|---|
| `Owned` | `ContainersOwned` | `IInv` adds that the call in progress handles a container the daemon has named, and that what is lost or handled is not absent, so that a new name is nobody's yet; the steps fall into those that leave owners alone (`SameOwners`, `GoesOn`, `ReturnsAlone`), change a container in hand (`ChangesInHand`), or hand one over (`CreateStep`, `HandStep`, `RemoveStep`) |

About `Validate`, for any number of scenarios of any types, any parallelism and any
interruption (`ValidateAssumption`):

| theorem | property | argument |
|---|---|---|
| `Apart` | `ScenariosApart` | `Workers`: one at a time, only the scenario at `next` is busy; in parallel, those below it. `Served`: a container is replaced only at places where no scenario is open, and the new one has served nobody |
| `OwnReports` | `ReportIsOwn` | `Results`: a scenario that has ended has a result of its own unless the run was interrupted, failed in parallel, or left with an error; a report is printed only when all have ended |

One invariant (`IInv`) serves both. The steps of a busy scenario are told apart from
those of the command (`Command`), which end no scenario; `BusyPlace` says where the
command is while one is busy.

About `Runner`, for any files, any number of attempts and whatever the system under test
answers (`RunnerAssumption`: a file's step and capture lists are sequences; nothing is assumed of
`AutoIds`, the names that background streams are numbered with):

| theorem | property | argument |
|---|---|---|
| `NeverItself` | `CleanNeverFailsItself` | `Sound`, from two facts about the operators: a step in which the linter finds no error starts (`CleanStarts`), and fails by itself only where it is `Overlooked` (`CleanSucceeds`), since what executors require and the linter sees is there (`CleanComplete`) |
| `Literally` | `LiteralOnlyAfterFailure` | `Supplied`: what earlier steps were to capture is bound, or is in `uncaught`; `Literals`: a name left as it is stands in its step and was in `uncaught` before. `CleanRefers`: what a clean step refers to is captured earlier, unless `Unlinted` |
| `RunStops` | `MovesOn` | `Tried`: a step is tried again only while its retry has attempts left, and the next starts from none |

The first two need nothing of what the loader checks: whatever it refuses and they could trip on,
the linter refuses too. `AllSteps` joins setup and judged steps, and `FileSteps` says which of the two
lists a step is in.

About `Interview`, for inputs of any length, any number of rounds and any drafts, interrupted
anywhere (`InterviewAssumption`):

| theorem | property | argument |
|---|---|---|
| `Transcribes` | `TranscriptIsTyped` | `Reading`: what is collected is what the user has typed since the last pair of blank lines, from its first text on; `Spoken` and `Counted`: each message of the user is the answer of its group, and there are as many as groups were submitted |
| `WritesWhole` | `WrittenIsWhole` | `Called` and `Concluded`: nothing is written unless the conversation came to its end uninterrupted; `Stored`: the scenarios on disk are among those kept, and at the end all of them |

`SubmitPoints` speaks of the script as a whole and the loop of one line at a time. `LineOn` joins
them: a line more extends what is collected, or completes a pair and closes the group, and
`TrimIsAnswer` says that what is then trimmed is the group's `Answer`. Where one would use induction
over the lines, the least counterexample serves (`LeastOf`, from the well-foundedness of finite
sets): the first "done", the last submit point, the first text of a group.

Every safety property and every action property of the runs is stated by a theorem; the type
invariants are conjuncts of the resource properties, of `DependenciesFirst` and of `NoHandlerLeft`. Only
model-checked is what holds under fairness (`Terminates` of `Attractor` and `AgentLoop`,
`AllStop`, `RunEnds`, `CallsEnd`, `EndsClean`, `InterviewEnds`), which is out of the
prover's reach. Where a goroutine runs by itself the half of termination that the code is
responsible for is proved all the same: `MovesOn` (`ListMovesOn` in `Components`) says that every
step that changes anything descends in an order without infinite descents, read lexicographically
(iterations before stages before scenarios, and so on), so that no retry, restart, mini-loop or
cyclic list can keep a run going, for any limits. What is left for `Terminates` and `RunEnds` to
show is that a run is never stuck before its end, or only in an attempt without a timeout; for the composed attempt and the lists, where
no other goroutine takes part, the check for deadlocks shows it. That the order is well-founded is plain from
its parts, all of which are finite and bounded in the property, and not itself a theorem.
`Streams`, `Containers`, `Validate` and `Interview` have no such
order: the peer, the daemon and the user act as often as they like, and what ends depends on who
is treated fairly.
The assumptions about constants are evaluated by TLC on every instance.

## Plan

Done: `Attractor` with its contract, `Components` and `Composed`, `AgentLoop`, `Streams` with
`Channel`, `Lint` and `Runner`, `Containers`, `Validate` and `Interview`, each with the proofs of its
safety properties, and the descent of `Attractor`, `Components`, `Composed`, `AgentLoop` and `Runner`.

1. Proofs: what a theorem says of one component and another takes as one step, stated between
   them; the descent of one scenario within `Validate`, whose steps only the user interrupts.
2. The store's rows beside the run that writes them.

## Not modelled

Prompts, parsing of LLM answers, feedback text and its fidelity, oscillation
steering, summaries and the context budget: they change what the LLM is asked,
never what the loop may do. What HTTP, exec and browser steps send and receive:
`Runner` has which of them fail by themselves and takes the rest as the system's
choice. How long delays, timeouts and intervals are. The spec linter, the walk over a directory of scenarios, preflight, gene
scanning, store, observability and UI: pure functions or single I/O calls. The
completeness score of an interview (`interview/scoring.go`): a pure function that no
command calls.
Cancellation of `octog run` by the user: it surfaces as the error of the call in
progress, which is modelled. File contents: the overlay of an earlier best
directory, whose stale files stay, is not seen by the model. Platforms without a
pseudo-terminal, where terminal steps are skipped with a warning and then fail.
