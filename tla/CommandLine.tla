----------------------------- MODULE CommandLine -----------------------------
(***************************************************************************)
(* One process of the command line that runs without a chat: -p, --loop or *)
(* --chain, from its options to its exit code, with the end of every run   *)
(* of AgentRunner it makes.  The deadline, Ctrl-C, a worker that uses up   *)
(* the budget and a forget of another process fall between any two awaits. *)
(***************************************************************************)
EXTENDS Naturals, Sequences, SequencesExt

CONSTANTS
  MaxRounds       \* bound: iterations of a plan or phases of a chain

Modes == {"prompt", "loop", "chain"}
NoError == "no error"

VARIABLES
  options,        \* the options that were given
  cpc,            \* where the process is
  rounds,         \* iterations or phases begun
  stop,           \* stop_reason of the last run, or of the plan loop
  thrown,         \* the exception that ended the event loop
  exhausted,      \* BudgetedProvider.error is set
  forgotten,      \* the memory generation is not that of the last request
  unaccounted,    \* a call ended without its usage
  unclosed,       \* what the teardown has still to close, in order
  runStopped,     \* the run_stopped events of the session
  verdict         \* [reason, code, incomplete]: the JSON object and the exit code

commandVars == <<options, cpc, rounds, stop, thrown, exhausted, forgotten,
                 unaccounted, unclosed, runStopped, verdict>>

NoVerdict == [reason |-> "startup_error", code |-> 0, incomplete |-> TRUE]

CommandInit ==
  /\ options \in [asked : SUBSET Modes, json : BOOLEAN, capped : BOOLEAN, timed : BOOLEAN]
  /\ cpc = "parse" /\ rounds = 0 /\ stop = "done" /\ thrown = NoError
  /\ exhausted = FALSE /\ forgotten = FALSE /\ unaccounted = FALSE
  /\ unclosed = <<>> /\ runStopped = <<>> /\ verdict = NoVerdict

Mode == CHOOSE m \in options.asked : TRUE
Capped == options.capped

-----------------------------------------------------------------------------
\* The exit codes (EXIT_OK .. EXIT_TIMEOUT).
ProviderCodes == [authentication |-> 4, budget |-> 5, model_not_found |-> 6,
                  rate_limit |-> 7, upstream |-> 8, stream |-> 9, other |-> 1]
ReasonCodes == [done |-> 0, empty |-> 0, max_turns |-> 3, max_iterations |-> 3,
                error |-> 1, context_overflow |-> 10, cost_limit |-> 11, timeout |-> 12]

\* _RunOutput.emit: a run that failed does not know what it used.
Failures == {"error", "interrupted", "startup_error", "timeout"}
Verdict(why, exit) ==
  [reason |-> why, code |-> exit, incomplete |-> why \in Failures \/ unaccounted]

\* callback: JSON needs a run, limits need a prompt, and one run is one mode.
OptionsRefused ==
  \/ options.json /\ options.asked = {}
  \/ (Capped \/ options.timed) /\ options.asked # {"prompt"}
  \/ \E m, n \in options.asked : m # n

Parse ==
  /\ cpc = "parse"
  /\ \/ OptionsRefused /\ cpc' = "ended" /\ verdict' = Verdict("startup_error", 2)
     \/ ~OptionsRefused /\ options.asked = {} /\ cpc' = "chat" /\ UNCHANGED verdict
     \/ ~OptionsRefused /\ options.asked # {} /\ cpc' = "start" /\ UNCHANGED verdict
  /\ UNCHANGED <<options, rounds, stop, thrown, exhausted, forgotten,
                 unaccounted, unclosed, runStopped>>

\* The order in which AsyncExitStack, or the finally of the loops, closes.
Teardown == IF Mode = "prompt" THEN <<"workers", "provider", "background", "mcp", "runtime">>
                               ELSE <<"background", "workers", "provider", "runtime">>

Go(place) == cpc' = place

\* No dependency, no provider, an empty prompt, or Ctrl-C.
StartupFails ==
  /\ cpc = "start" /\ Go("ended")
  /\ verdict' \in {Verdict("startup_error", 2), Verdict("startup_error", 1),
                   Verdict("interrupted", 1)}
  /\ UNCHANGED <<options, rounds, stop, thrown, exhausted, forgotten, unaccounted,
                 unclosed, runStopped>>

\* run_headless asks the UserPromptSubmit hook before it records the prompt.
StartPrompt ==
  /\ cpc = "start" /\ Mode = "prompt"
  /\ \/ Go("attaching") /\ unclosed' = Teardown /\ UNCHANGED verdict
     \/ Go("ended") /\ verdict' = Verdict("blocked", 1) /\ UNCHANGED unclosed
  /\ UNCHANGED <<options, rounds, stop, thrown, exhausted, forgotten, unaccounted, runStopped>>

\* run_loop_mode and run_chain_mode ask no hook.
StartLoop ==
  /\ cpc = "start" /\ Mode = "loop" /\ Go("planning")
  /\ unclosed' = Teardown
  /\ UNCHANGED <<options, rounds, stop, thrown, exhausted, forgotten, unaccounted,
                 runStopped, verdict>>

StartChain ==
  /\ cpc = "start" /\ Mode = "chain" /\ Go("phase")
  /\ unclosed' = Teardown
  /\ UNCHANGED <<options, rounds, stop, thrown, exhausted, forgotten, unaccounted,
                 runStopped, verdict>>

BeginRun(place) == Go(place) /\ rounds' = rounds + 1 /\ forgotten' = FALSE

\* The price of the model is checked, then the MCP servers are attached.
Attach ==
  /\ cpc = "attaching" /\ BeginRun("running")
  /\ UNCHANGED <<options, stop, thrown, exhausted, unaccounted, unclosed, runStopped, verdict>>

\* run_plan_loop, before each iteration: the file decides.
ReadPlan ==
  /\ cpc = "planning"
  /\ \/ /\ stop' \in {"error", "done"} \cup
                      IF rounds = MaxRounds THEN {"max_iterations"} ELSE {}
        /\ Go("closing")
        /\ UNCHANGED <<rounds, forgotten>>
     \/ rounds < MaxRounds /\ BeginRun("running") /\ UNCHANGED stop
  /\ UNCHANGED <<options, thrown, exhausted, unaccounted, unclosed, runStopped, verdict>>

\* run_chain: a phase runs as long as the memory is the one the chain began
\* with; there is no check of how the phase ended but for its context.
NextPhase ==
  /\ cpc = "phase"
  /\ IF rounds = MaxRounds THEN Go("closing") /\ UNCHANGED <<rounds, forgotten>>
                           ELSE BeginRun("running")
  /\ UNCHANGED <<options, stop, thrown, exhausted, unaccounted, unclosed, runStopped, verdict>>

-----------------------------------------------------------------------------
\* finish: the event comes before the observers and the Stop hook.
RecordEnd(why) ==
  /\ runStopped' = IF why = "done" THEN runStopped ELSE Append(runStopped, why)
  /\ Go("stopHook")

\* The loop of run ends.  With a budget finish waits for the review.
RunStops(why) ==
  /\ cpc = "running"
  /\ stop' = IF Capped /\ exhausted THEN "cost_limit" ELSE why
  /\ IF Capped THEN Go("review") /\ UNCHANGED runStopped ELSE RecordEnd(stop')
  /\ UNCHANGED <<options, rounds, thrown, exhausted, forgotten, unaccounted, unclosed, verdict>>

\* What was forgotten meanwhile is not answered, whatever the review said.
ReviewEnds ==
  /\ cpc = "review"
  /\ stop' = CASE Capped /\ exhausted -> "cost_limit"
               [] forgotten -> "context_overflow"
               [] OTHER -> stop
  /\ IF Capped THEN RecordEnd(stop') ELSE Go("returned") /\ UNCHANGED runStopped
  /\ UNCHANGED <<options, rounds, thrown, exhausted, forgotten, unaccounted, unclosed, verdict>>

StopHookEnds ==
  /\ cpc = "stopHook"
  /\ Go(IF Capped THEN "returned" ELSE "review")
  /\ UNCHANGED <<options, rounds, stop, thrown, exhausted, forgotten, unaccounted,
                 unclosed, runStopped, verdict>>

\* Back from run: the prompt is done, the plan is read again, the chain goes on.
RunReturns ==
  /\ cpc = "returned"
  /\ LET paused == Mode = "chain" /\ stop = "context_overflow"
     IN /\ thrown' = IF paused THEN "other" ELSE thrown
        /\ Go(IF paused THEN "closing"
              ELSE [prompt |-> "closing", loop |-> "planning", chain |-> "phase"][Mode])
  /\ UNCHANGED <<options, rounds, stop, exhausted, forgotten, unaccounted, unclosed,
                 runStopped, verdict>>

Awaiting == cpc \in {"attaching", "running", "review", "stopHook"}

SpendRunsOut ==
  /\ Capped /\ ~exhausted /\ cpc \in {"running", "review", "stopHook", "closing"}
  /\ exhausted' = TRUE
  /\ UNCHANGED <<options, cpc, rounds, stop, thrown, forgotten, unaccounted, unclosed,
                 runStopped, verdict>>

Forget ==
  /\ ~forgotten /\ cpc \in {"running", "review", "stopHook"}
  /\ forgotten' = TRUE
  /\ UNCHANGED <<options, cpc, rounds, stop, thrown, exhausted, unaccounted, unclosed,
                 runStopped, verdict>>

UsageIsMissing ==
  /\ ~unaccounted /\ cpc \in {"running", "review"}
  /\ unaccounted' = TRUE
  /\ UNCHANGED <<options, cpc, rounds, stop, thrown, exhausted, forgotten, unclosed,
                 runStopped, verdict>>

\* A provider error, the deadline, Ctrl-C or a bug cancels what is awaited.
Raise(error) ==
  /\ Awaiting
  /\ thrown' = error
  /\ Go("closing")
  /\ UNCHANGED <<options, rounds, stop, exhausted, forgotten, unaccounted, unclosed,
                 runStopped, verdict>>

Errors == {"crash", "interrupt"} \cup DOMAIN ProviderCodes
            \cup IF options.timed THEN {"timeout"} ELSE {}

\* BudgetedProvider.check rejects a model whose price is not known.
PriceUnknown ==
  /\ cpc = "attaching" /\ Capped
  /\ exhausted' = TRUE /\ thrown' = "other"
  /\ Go("closing")
  /\ UNCHANGED <<options, rounds, stop, forgotten, unaccounted, unclosed, runStopped, verdict>>

-----------------------------------------------------------------------------
Close ==
  /\ cpc = "closing" /\ unclosed # <<>>
  /\ unclosed' = Tail(unclosed)
  /\ UNCHANGED <<options, cpc, rounds, stop, thrown, exhausted, forgotten, unaccounted,
                 runStopped, verdict>>

CloseSkips == thrown' = "crash" /\ cpc' = "judging" /\ UNCHANGED unclosed

\* A shutdown raises.  The exit stack of a prompt closes the others all the
\* same; the finally block of a loop or a chain is left.
CloseFails ==
  /\ cpc = "closing" /\ unclosed # <<>>
  /\ IF Mode = "prompt" THEN /\ thrown' = "crash" /\ unclosed' = Tail(unclosed)
                             /\ UNCHANGED cpc
                        ELSE CloseSkips
  /\ UNCHANGED <<options, rounds, stop, exhausted, forgotten, unaccounted, runStopped, verdict>>

Closed ==
  /\ cpc = "closing" /\ unclosed = <<>>
  /\ Go("judging")
  /\ UNCHANGED <<options, rounds, stop, thrown, exhausted, forgotten, unaccounted,
                 unclosed, runStopped, verdict>>

\* The limit that ended a prompt: a budget that was used up after the run is one.
Limit == CASE thrown = "timeout" -> "timeout"
           [] exhausted /\ thrown \in {NoError} \cup DOMAIN ProviderCodes -> "cost_limit"
           [] OTHER -> NoError

LimitRecordedIfLost == Limit # NoError /\ thrown # NoError

\* The run has recorded the limit when it returned with it.
LimitUnrecorded == Limit # NoError /\ (thrown # NoError \/ stop # Limit)

Judged(outcome) ==
  /\ Go("ended")
  /\ verdict' = outcome
  /\ UNCHANGED <<options, rounds, stop, thrown, exhausted, forgotten, unaccounted, unclosed>>

\* What every mode makes of an exception.
Thrown == CASE thrown = "interrupt" -> Verdict("interrupted", 1)
            [] thrown = "crash" -> Verdict("error", 1)
            [] OTHER -> Verdict("error", ProviderCodes[thrown])

JudgePrompt ==
  /\ cpc = "judging" /\ Mode = "prompt"
  /\ Judged(CASE Limit # NoError -> Verdict(Limit, ReasonCodes[Limit])
              [] Limit = NoError /\ thrown # NoError -> Thrown
              [] OTHER -> Verdict(stop, ReasonCodes[stop]))
  /\ runStopped' = IF LimitUnrecorded THEN Append(runStopped, Limit) ELSE runStopped

JudgeLoop ==
  /\ cpc = "judging" /\ Mode = "loop"
  /\ Judged(IF thrown # NoError THEN Thrown ELSE Verdict(stop, ReasonCodes[stop]))
  /\ UNCHANGED runStopped

\* A chain whose phases ended early is done all the same.
JudgeChain ==
  /\ cpc = "judging" /\ Mode = "chain"
  /\ Judged(IF thrown # NoError THEN Thrown ELSE Verdict("done", 0))
  /\ UNCHANGED runStopped

CommandNext ==
  \/ Parse \/ StartupFails \/ StartPrompt \/ StartLoop \/ StartChain
  \/ Attach \/ ReadPlan \/ NextPhase
  \/ \E why \in {"done", "empty", "max_turns", "context_overflow"} : RunStops(why)
  \/ ReviewEnds \/ StopHookEnds \/ RunReturns
  \/ SpendRunsOut \/ Forget \/ UsageIsMissing
  \/ \E error \in Errors : Raise(error)
  \/ PriceUnknown \/ Close \/ CloseFails \/ Closed
  \/ JudgePrompt \/ JudgeLoop \/ JudgeChain

CommandSpec == CommandInit /\ [][CommandNext]_commandVars

-----------------------------------------------------------------------------
\* The session tells of a run what the process told its caller: the limit or
\* the reason in the JSON object is the last run_stopped record, a run that
\* is reported done has none, and everything it opened was shut down - with
\* the deadline, Ctrl-C, a worker's spending or a failing shutdown at any
\* moment.  A run without a budget records its end before the review: when
\* the memory changes after that, the record is missing.
PromptEndIsRecorded ==
  cpc = "ended" /\ options.asked = {"prompt"} =>
    /\ unclosed = <<>>
    /\ verdict.reason \in {"timeout", "cost_limit"} => Last(runStopped) = verdict.reason
    /\ Capped /\ verdict.reason \in {"empty", "max_turns", "context_overflow"} =>
         Last(runStopped) = verdict.reason
    /\ verdict.reason = "done" => runStopped = <<>>
=============================================================================
