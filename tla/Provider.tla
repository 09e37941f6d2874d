-------------------------------- MODULE Provider --------------------------------
(***************************************************************************)
(* Concurrent model calls of a headless run under one cost limit           *)
(* (providers/budget.py), retried with backoff (providers/retry.py) over   *)
(* streams that end, fail or are cancelled (providers/openai_compat.py).   *)
(* An action is the code of one call between two suspension points; costs  *)
(* are small integers.                                                     *)
(***************************************************************************)
EXTENDS Naturals, FiniteSets

CONSTANTS
  ModelCalls,     \* calls that may be in flight together
  MaxCost,        \* max_cost
  MaxCallCost,    \* bound: what one request is billed
  MaxAttempts,    \* max_attempts of retry_async
  MaxSent         \* bound: requests sent to the provider

ASSUME CostAssumption ==
  /\ MaxCost \in Nat \ {0} /\ MaxAttempts \in Nat \ {0}
  /\ MaxCallCost \in Nat /\ MaxSent \in Nat /\ IsFiniteSet(ModelCalls)

VARIABLES
  call,           \* where a call is suspended
  attempt,        \* how often its request was tried
  reported,       \* the usage the current stream has yielded
  failure,        \* how the current stream ended
  spent,          \* cost_usd
  stopped,        \* error is set: no further admission
  incomplete,     \* usage_incomplete
  sent,           \* requests sent to the provider so far
  budgeted        \* fixed: the run has a cost limit

providerVars == <<call, attempt, reported, failure, spent, stopped, incomplete, sent,
                  budgeted>>
ledger == <<spent, stopped, incomplete>>

Unreported == MaxCallCost + 1

ProviderInit ==
  /\ call = [c \in ModelCalls |-> "idle"]
  /\ attempt = [c \in ModelCalls |-> 0]
  /\ reported = [c \in ModelCalls |-> Unreported]
  /\ failure = [c \in ModelCalls |-> "none"]
  /\ spent = 0 /\ stopped = FALSE /\ incomplete = FALSE
  /\ sent = 0
  /\ budgeted \in BOOLEAN

Place(c, place) == call' = [call EXCEPT ![c] = place]

EndCall(c, how) ==
  /\ Place(c, "idle")
  /\ attempt' = [attempt EXCEPT ![c] = 0]
  /\ failure' = [failure EXCEPT ![c] = how]

\* The runner sends a request through retry_async.
StartModelCall(c) ==
  /\ call[c] = "idle"
  /\ Place(c, "admission")
  /\ attempt' = [attempt EXCEPT ![c] = 1]
  /\ failure' = [failure EXCEPT ![c] = "none"]
  /\ UNCHANGED <<reported, ledger, sent, budgeted>>

SendRequest(c) ==
  /\ Place(c, "streaming")
  /\ sent < MaxSent /\ sent' = sent + 1
  /\ reported' = [reported EXCEPT ![c] = Unreported]
  /\ UNCHANGED <<attempt, failure>>

\* A retry that trusts the check of the first attempt.
AdmitOnce(c) ==
  /\ call[c] = "admission"
  /\ IF budgeted /\ stopped /\ attempt[c] = 1
     THEN EndCall(c, "limit") /\ UNCHANGED <<reported, sent>>
     ELSE SendRequest(c)
  /\ UNCHANGED <<ledger, budgeted>>

\* check: refused once the limit is reached, spend is unknown or, for a model
\* without a price, for ever.
Admit(c) ==
  /\ call[c] = "admission"
  /\ \/ ~(budgeted /\ stopped) /\ SendRequest(c) /\ UNCHANGED stopped
     \/ budgeted /\ stopped /\ EndCall(c, "limit") /\ UNCHANGED <<stopped, reported, sent>>
     \/ /\ budgeted /\ ~stopped /\ stopped' = TRUE
        /\ EndCall(c, "limit") /\ UNCHANGED <<reported, sent>>
  /\ UNCHANGED <<spent, incomplete, budgeted>>

\* The provider bills the request, and may or may not say so in the stream.
UsageArrives(c) ==
  /\ call[c] = "streaming" /\ reported[c] = Unreported
  /\ \E cost \in 0..MaxCallCost :
       reported' = [reported EXCEPT ![c] = cost]
  /\ UNCHANGED <<call, attempt, failure, ledger, sent, budgeted>>

\* _settle: synchronous, whichever way the stream ended.
Settle(c) ==
  IF ~budgeted THEN UNCHANGED ledger
  ELSE IF reported[c] = Unreported
  THEN /\ incomplete' = TRUE /\ stopped' = TRUE /\ UNCHANGED spent
  ELSE /\ spent' = spent + reported[c]
       /\ stopped' = (stopped \/ spent + reported[c] >= MaxCost)
       /\ UNCHANGED incomplete

\* Known structured codes (0: none), and the statuses of responses that fail.
SymbolicStatuses == {0, 401, 402, 404, 408, 429, 500, 502, 503}
HttpStatuses == {400, 401, 402, 404, 409, 429, 500, 504}
RetryableStatuses == {408, 409, 429, 500, 502, 503, 504}

CategoryOf(status) ==
  CASE status = 401 -> "authentication"
    [] status = 402 -> "budget"
    [] status = 404 -> "model_not_found"
    [] status = 429 -> "rate_limit"
    [] status \in {408, 409} \cup 500..599 -> "upstream"
    [] OTHER -> "none"

\* The numeric status decides on a retry, the structured code on the category,
\* and an exhausted balance is never retried.
ProviderError(status, semantic) ==
  LET effective == IF semantic # 0 THEN semantic ELSE status IN
  IF status \in RetryableStatuses /\ CategoryOf(effective) # "budget"
  THEN "retryable" ELSE "fatal"

\* A response's own status counts; an error event has its code, else what its
\* structured code stands for.
ResponseErrors == {ProviderError(s, sem) : s \in HttpStatuses, sem \in SymbolicStatuses}
EventErrors ==
  {ProviderError(code, sem) : code \in HttpStatuses, sem \in SymbolicStatuses} \cup
  {ProviderError(sem, sem) : sem \in SymbolicStatuses}

\* How stream_chat leaves: a failed response comes before any usage, a transport
\* error is retryable, a malformed or encoded event is not.
StreamOutcomes(c) ==
  {"done", "cancelled"} \cup EventErrors \cup {"retryable", "fatal"} \cup
  (IF reported[c] = Unreported THEN ResponseErrors ELSE {})

\* The stream is over: exhausted, failed, or its consumer was cancelled.
StreamEnds(c) ==
  /\ call[c] = "streaming"
  /\ \E how \in StreamOutcomes(c) :
       failure' = [failure EXCEPT ![c] = IF budgeted /\ how # "cancelled"
                                            /\ reported[c] = Unreported
                                         THEN "limit" ELSE how]
  /\ Settle(c)
  /\ Place(c, "closing")
  /\ UNCHANGED <<attempt, reported, sent, budgeted>>

\* The connection is closed; retry_async looks at the error.
StreamClosed(c) ==
  /\ call[c] = "closing"
  /\ reported' = [reported EXCEPT ![c] = Unreported]
  /\ IF failure[c] = "retryable" /\ attempt[c] < MaxAttempts
     THEN Place(c, "backoff") /\ UNCHANGED <<attempt, failure>>
     ELSE EndCall(c, failure[c])
  /\ UNCHANGED <<ledger, sent, budgeted>>

\* The delay is over, or the call is cancelled while it sleeps.
BackoffEnds(c) ==
  /\ call[c] = "backoff"
  /\ \/ Place(c, "admission") /\ attempt' = [attempt EXCEPT ![c] = @ + 1]
        /\ UNCHANGED failure
     \/ EndCall(c, "cancelled")
  /\ UNCHANGED <<reported, ledger, sent, budgeted>>

ModelCallStep(c) ==
  Admit(c) \/ UsageArrives(c) \/ StreamEnds(c) \/ StreamClosed(c) \/ BackoffEnds(c)

ProviderNext == \E c \in ModelCalls : StartModelCall(c) \/ ModelCallStep(c)

ProviderSpec == ProviderInit /\ [][ProviderNext]_providerVars
-----------------------------------------------------------------------------
\* "Calls already admitted may exceed the threshold": by no more than what was
\* in flight when it was reached, however many retries and cancellations there
\* were.
OvershootIsBounded ==
  budgeted => spent <= MaxCost - 1 + Cardinality(ModelCalls) * MaxCallCost
=============================================================================
