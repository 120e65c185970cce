----------------------------- MODULE Interview -----------------------------
(***************************************************************************)
(* `octog interview`: a conversation in rounds, from which the LLM drafts  *)
(* a spec and, on request, scenarios (internal/interview/interview.go and  *)
(* scenarios.go, cmd/octog/main.go).                                       *)
(*                                                                         *)
(* A goroutine scans the user's lines and offers them, one by one, to the  *)
(* loop that collects them into answers; either may be waiting when the    *)
(* user interrupts.  A line is its position in what the user types, and a  *)
(* text the set of its lines.                                              *)
(***************************************************************************)
EXTENDS Integers, Sequences, FiniteSets

CONSTANTS
  Scripts,      \* what a user may type, and how the input ends
  MaxRounds,    \* maxRounds
  Drafts,       \* the sets of files an LLM may answer with
  UnsafeNames   \* base names that are no file names

Kinds == {"text", "blank", "done"}
Endings == {"eof", "error", "silent"}  \* "error": a line too long for the scanner

ASSUME InterviewAssumption ==
  /\ MaxRounds \in Nat \ {0}
  /\ \A s \in Scripts : s.lines \in Seq(Kinds) /\ s.end \in Endings
  /\ \A d \in Drafts : \A f \in d : f.loads \in BOOLEAN

VARIABLES
  script, scenarios,   \* what will be typed; --scenarios
  pc, flying,          \* place; a request is on its way to the LLM
  interruptedAt,       \* the place the user's interrupt found, or "none"
  reader, scanned,     \* the scanning goroutine, and how many lines it has scanned
  collected, prevBlank,  \* readMessage's
  ended,               \* the user is done
  messages, round,
  spec,                \* the spec is on disk, whole
  kept,                \* the scenario files to write, by name
  disk                 \* those written

inputVars == <<reader, scanned, collected, prevBlank>>
talkVars == <<ended, messages, round>>
outVars == <<spec, kept, disk>>
vars == <<script, scenarios, pc, flying, interruptedAt, inputVars, talkVars, outVars>>

-----------------------------------------------------------------------------

Line == script.lines[scanned]
Cancelled == interruptedAt # "none"
Over == pc \in {"done", "failed"}

\* TrimSpace of the lines joined: they begin with a text.
Trimmed(lines) == {i \in lines : \E j \in lines : j >= i /\ script.lines[j] = "text"}

Message(role, lines) == [role |-> role, lines |-> lines]
Reply == Message("assistant", {})

Init ==
  /\ script \in Scripts /\ scenarios \in BOOLEAN
  /\ pc = "open" /\ flying = FALSE /\ interruptedAt = "none"
  /\ reader = "none" /\ scanned = 0 /\ collected = {} /\ prevBlank = FALSE
  /\ ended = FALSE /\ messages = <<Message("user", {})>> /\ round = 0
  /\ spec = FALSE /\ kept = [n \in {} |-> {}] /\ disk = {}

-----------------------------------------------------------------------------
(* The LLM's calls.                                                        *)

Fail == pc' = "failed" /\ flying' = FALSE
Calling == {"open", "answer", "final", "scenarios"}

\* A call is not begun with a context that is done, and may end either way if
\* the interrupt comes while it is on its way.
Ask ==
  /\ pc \in Calling /\ ~flying
  /\ IF Cancelled THEN Fail ELSE flying' = TRUE /\ UNCHANGED pc
  /\ UNCHANGED <<script, scenarios, interruptedAt, inputVars, talkVars, outVars>>

\* The call fails, or the files in its answer cannot be parsed.
CallFails ==
  /\ flying /\ Fail
  /\ UNCHANGED <<script, scenarios, interruptedAt, inputVars, talkVars, outVars>>

\* The first question is shown, and startScanner called.
Opened ==
  /\ pc = "open" /\ flying
  /\ pc' = "read" /\ flying' = FALSE /\ reader' = "scan"
  /\ messages' = Append(messages, Reply)
  /\ UNCHANGED <<script, scenarios, interruptedAt, scanned, collected, prevBlank, ended, round,
                 outVars>>

\* The end of processAnswer and of a turn of the loop.
Answered ==
  /\ pc = "answer" /\ flying
  /\ flying' = FALSE /\ round' = round + 1 /\ messages' = Append(messages, Reply)
  /\ pc' = IF ended \/ round' >= MaxRounds THEN "final" ELSE "read"
  /\ UNCHANGED <<script, scenarios, interruptedAt, inputVars, ended, outVars>>

SpecGenerated ==
  /\ pc = "final" /\ flying
  /\ pc' = "write" /\ flying' = FALSE
  /\ UNCHANGED <<script, scenarios, interruptedAt, inputVars, talkVars, outVars>>

-----------------------------------------------------------------------------
(* The user and the scanner.                                               *)

Interrupt ==
  /\ ~Cancelled /\ ~Over
  /\ interruptedAt' = pc
  /\ UNCHANGED <<script, scenarios, pc, flying, inputVars, talkVars, outVars>>

ReaderScans ==
  /\ reader = "scan" /\ scanned < Len(script.lines)
  /\ reader' = "offer" /\ scanned' = scanned + 1
  /\ UNCHANGED <<script, scenarios, pc, flying, interruptedAt, collected, prevBlank, talkVars,
                 outVars>>

\* The scanner's error, if any, is left in scanDone before lines is closed.
ReaderCloses ==
  /\ reader = "scan" /\ scanned = Len(script.lines) /\ script.end # "silent"
  /\ reader' = "closed"
  /\ UNCHANGED <<script, scenarios, pc, flying, interruptedAt, scanned, collected, prevBlank,
                 talkVars, outVars>>

\* Nobody takes the line.  A reader in Scan does not see the interrupt.
ReaderQuits ==
  /\ reader = "offer" /\ Cancelled
  /\ reader' = "quit"
  /\ UNCHANGED <<script, scenarios, pc, flying, interruptedAt, scanned, collected, prevBlank,
                 talkVars, outVars>>

-----------------------------------------------------------------------------
(* readMessage.                                                            *)

\* readMessage returns the text and whether the user is done; run goes on.
Take(done) ==
  LET text == Trimmed(collected)
      asks == text # {} /\ round < MaxRounds
  IN  /\ collected' = {} /\ prevBlank' = FALSE /\ ended' = done
      /\ messages' = IF asks THEN Append(messages, Message("user", text)) ELSE messages
      /\ pc' = IF asks THEN "answer" ELSE IF done \/ round >= MaxRounds THEN "final" ELSE "read"

Received == pc = "read" /\ reader = "offer" /\ reader' = "scan"

ReceiveDone ==
  /\ Received /\ Line = "done" /\ Take(TRUE)
  /\ UNCHANGED <<script, scenarios, flying, interruptedAt, scanned, round, outVars>>

Submits == Line = "blank" /\ prevBlank /\ collected # {}

ReceiveSubmit ==
  /\ Received /\ Submits /\ Take(FALSE)
  /\ UNCHANGED <<script, scenarios, flying, interruptedAt, scanned, round, outVars>>

\* Seeded fault: a text does not interrupt a pair of blank lines.
ReceiveLineBlanksAdd ==
  /\ Received /\ Line # "done" /\ ~Submits
  /\ collected' = IF Line = "text" \/ collected # {} THEN collected \cup {scanned} ELSE collected
  /\ prevBlank' = (prevBlank \/ (Line = "blank" /\ collected # {}))
  /\ UNCHANGED <<script, scenarios, pc, flying, interruptedAt, scanned, talkVars, outVars>>

\* Blank lines before the first text are not kept.
ReceiveLine ==
  /\ Received /\ Line # "done" /\ ~Submits
  /\ collected' = IF Line = "text" \/ collected # {} THEN collected \cup {scanned} ELSE collected
  /\ prevBlank' = (Line = "blank" /\ collected # {})
  /\ UNCHANGED <<script, scenarios, pc, flying, interruptedAt, scanned, talkVars, outVars>>

\* Seeded fault: the scanner's error is not read.
ReceiveEOFAlways ==
  /\ pc = "read" /\ reader = "closed"
  /\ Take(TRUE) /\ UNCHANGED flying
  /\ UNCHANGED <<script, scenarios, interruptedAt, reader, scanned, round, outVars>>

\* handleEOF: the end of the input is as good as "done".
ReceiveEOF ==
  /\ pc = "read" /\ reader = "closed"
  /\ IF script.end = "error"
     THEN Fail /\ UNCHANGED <<collected, prevBlank, ended, messages>>
     ELSE Take(TRUE) /\ UNCHANGED flying
  /\ UNCHANGED <<script, scenarios, interruptedAt, reader, scanned, round, outVars>>

\* Seeded fault: the context is looked at with a line in hand only.
ReadInterruptedLate ==
  /\ pc = "read" /\ Cancelled /\ reader = "offer" /\ Fail
  /\ UNCHANGED <<script, scenarios, interruptedAt, inputVars, talkVars, outVars>>

\* The select may take this case or, if a line is offered too, the line.
ReadInterrupted ==
  /\ pc = "read" /\ Cancelled /\ Fail
  /\ UNCHANGED <<script, scenarios, interruptedAt, inputVars, talkVars, outVars>>

-----------------------------------------------------------------------------
(* interviewRun and the scenario generator.                                *)

WriteSpec ==
  /\ pc = "write"
  /\ spec' = TRUE /\ pc' = IF scenarios THEN "scenarios" ELSE "done"
  /\ UNCHANGED <<script, scenarios, flying, interruptedAt, inputVars, talkVars, kept, disk>>

\* A file cannot be written, or there is no scenario in a blank spec.
WriteFails ==
  /\ pc \in {"write", "scenarios", "store"} /\ ~flying /\ Fail
  /\ UNCHANGED <<script, scenarios, interruptedAt, inputVars, talkVars, outVars>>

Usable(draft) == {f \in draft : f.name \notin UnsafeNames /\ f.loads}

\* Of two files with one base name the first is kept; the files are a map, so
\* that either may be the first.
ScenariosGenerated ==
  /\ pc = "scenarios" /\ flying /\ flying' = FALSE
  /\ \E draft \in Drafts :
       \E files \in [{f.name : f \in Usable(draft)} -> Usable(draft)] :
         /\ \A n \in DOMAIN files : files[n].name = n
         /\ kept' = files
  /\ pc' = IF DOMAIN kept' = {} THEN "failed" ELSE "store"
  /\ UNCHANGED <<script, scenarios, interruptedAt, inputVars, talkVars, spec, disk>>

\* The map of kept files is written in any order.
StoreScenario ==
  /\ pc = "store"
  /\ \E n \in DOMAIN kept \ {f.name : f \in disk} :
       /\ disk' = disk \cup {kept[n]}
       /\ pc' = IF \A m \in DOMAIN kept : kept[m] \in disk' THEN "done" ELSE "store"
  /\ UNCHANGED <<script, scenarios, flying, interruptedAt, inputVars, talkVars, spec, kept>>

Terminating == Over /\ UNCHANGED vars

Converse == \/ Ask \/ CallFails \/ Opened \/ Answered \/ SpecGenerated
            \/ ReceiveDone \/ ReceiveSubmit \/ ReceiveLine \/ ReceiveEOF \/ ReadInterrupted
            \/ WriteSpec \/ WriteFails \/ ScenariosGenerated \/ StoreScenario
Reader == ReaderScans \/ ReaderCloses \/ ReaderQuits

Next == Converse \/ Reader \/ Interrupt \/ Terminating

\* The LLM answers or fails, and the user types what there is to type; whether
\* there is an interrupt is open.
Spec == Init /\ [][Next]_vars /\ WF_vars(Converse) /\ WF_vars(Reader)

-----------------------------------------------------------------------------
(* What was typed, read as a whole.                                        *)

Positions == DOMAIN script.lines
Last == IF \E i \in Positions : script.lines[i] = "done"
        THEN CHOOSE i \in Positions : script.lines[i] = "done" /\
               \A j \in 1..(i - 1) : script.lines[j] # "done"
        ELSE Len(script.lines) + 1

\* A text and then two blank lines.
SubmitPoints ==
  {i \in 3..(Last - 1) : script.lines[i] = "blank" /\ script.lines[i - 1] = "blank"
                         /\ script.lines[i - 2] = "text"}

\* The texts that follow k - 1 submitted answers, and the lines between them.
Texts(k) ==
  {i \in 1..(Last - 1) : script.lines[i] = "text"
                         /\ Cardinality({p \in SubmitPoints : p < i}) = k - 1}
Answer(k) ==
  {i \in Positions : (\E j \in Texts(k) : j <= i) /\ (\E j \in Texts(k) : i <= j)}
AnswersTyped == Cardinality({k \in 1..(Cardinality(SubmitPoints) + 1) : Texts(k) # {}})

Given == {k \in DOMAIN messages : messages[k].role = "user"}

-----------------------------------------------------------------------------
(* Properties.                                                             *)

\* The conversation is what the user typed: roles alternate, the k-th answer is
\* the k-th group of lines between pairs of blank ones, whole, however the scanner
\* and the loop take turns; and when the spec is asked for no answer is missing,
\* but those after the last round (readMessage and run).
TranscriptIsTyped ==
  /\ \A k \in DOMAIN messages : messages[k].role = IF k % 2 = 1 THEN "user" ELSE "assistant"
  /\ \A k \in Given \ {1} : messages[k].lines = Answer((k - 1) \div 2)
  /\ pc \in Calling => Len(messages) % 2 = IF pc \in {"open", "answer"} THEN 1 ELSE 0
  /\ pc \in {"final", "write", "scenarios", "store", "done"} =>
       Cardinality(Given) = 1 + (IF AnswersTyped < MaxRounds THEN AnswersTyped ELSE MaxRounds)

\* A spec is written only if the user finished the interview: an interrupt while
\* the user was asked, or an input that broke before the last round, leaves none.
\* Scenarios are written beside a spec, all of them loadable, one for a name, and a
\* command that succeeds has written every one it kept (interviewRun, Generate).
WrittenIsWhole ==
  /\ spec => /\ interruptedAt \notin {"open", "read", "answer"}
             /\ ended \/ round = MaxRounds
             /\ reader = "closed" => script.end = "eof" \/ round = MaxRounds \/ scanned >= Last
  /\ disk # {} => spec
  /\ \A f \in disk : f.loads /\ f.name \notin UnsafeNames
  /\ \A f, g \in disk : f.name = g.name => f = g
  /\ pc = "done" => spec /\ (scenarios => disk # {} /\ disk = {kept[n] : n \in DOMAIN kept})

\* The interview ends, unless it waits for a user who neither types nor
\* interrupts; and an interrupt frees the reader of a line nobody will take
\* (the two selects with ctx.Done).
InterviewEnds ==
  <>[](/\ \/ Over
          \/ /\ pc = "read" /\ reader = "scan" /\ ~Cancelled
             /\ scanned = Len(script.lines) /\ script.end = "silent"
       /\ Cancelled => reader # "offer")
=============================================================================
