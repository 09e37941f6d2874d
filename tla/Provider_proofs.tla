------------------------------ MODULE Provider_proofs ------------------------------
(***************************************************************************)
(* The cost limit of a headless run, for every limit, price and number of  *)
(* concurrent calls: the requests in flight are the only ones that can     *)
(* still be billed once the limit has been reached.                        *)
(***************************************************************************)
EXTENDS Provider, FiniteSetTheorems, TLAPS

CallPlaces == {"idle", "admission", "streaming", "closing", "backoff"}
CallEnds == {"none", "limit", "done", "cancelled", "retryable", "fatal"}

\* No request is tried more often than retry_async's max_attempts, and one that
\* is to be tried again has an attempt left.
ProviderTypeOK ==
  /\ call \in [ModelCalls -> CallPlaces]
  /\ attempt \in [ModelCalls -> 0..MaxAttempts]
  /\ reported \in [ModelCalls -> 0..Unreported]
  /\ failure \in [ModelCalls -> CallEnds]
  /\ spent \in Nat /\ sent \in 0..MaxSent
  /\ stopped \in BOOLEAN /\ incomplete \in BOOLEAN /\ budgeted \in BOOLEAN
  /\ \A c \in ModelCalls : call[c] = "backoff" => attempt[c] < MaxAttempts

Streaming == {c \in ModelCalls : call[c] = "streaming"}

\* What is spent and what the streams may still add.
Exposure == spent + Cardinality(Streaming) * MaxCallCost

\* A run that still admits is below its limit; a stopped one sends nothing, so a
\* stream that settles only turns exposure into spend.
BudgetInv ==
  /\ ~stopped => spent <= MaxCost - 1
  /\ Exposure <= MaxCost - 1 + Cardinality(ModelCalls) * MaxCallCost

ProviderInv == ProviderTypeOK /\ (budgeted => BudgetInv)

\* A set of calls is finite, and no larger than all calls.
LEMMA CallSets ==
  ASSUME NEW S \in SUBSET ModelCalls, NEW c \in ModelCalls
  PROVE  /\ Cardinality(S) \in Nat /\ Cardinality(ModelCalls) \in Nat
         /\ Cardinality(S) <= Cardinality(ModelCalls)
         /\ c \notin S => Cardinality(S \cup {c}) = Cardinality(S) + 1
         /\ c \in S => Cardinality(S \ {c}) = Cardinality(S) - 1
<1>1. IsFiniteSet(S) /\ IsFiniteSet(ModelCalls)
  BY CostAssumption, FS_Subset
<1> QED
  BY <1>1, CostAssumption, FS_Subset, FS_CardinalityType, FS_AddElement, FS_RemoveElement

\* However a stream ends, its outcome is one of the ends of a call.
LEMMA OutcomesAreEnds ==
  ASSUME NEW c \in ModelCalls
  PROVE  StreamOutcomes(c) \subseteq {"done", "cancelled", "retryable", "fatal"}
BY DEF StreamOutcomes, EventErrors, ResponseErrors, ProviderError

LEMMA ProviderTypeInit == ProviderInit => ProviderTypeOK
<1> SUFFICES ASSUME ProviderInit
             PROVE  ProviderTypeOK
  OBVIOUS
<1>1. 0 \in 0..MaxAttempts /\ Unreported \in 0..Unreported /\ 0 \in 0..MaxSent
  BY CostAssumption DEF Unreported
<1>2. \A c \in ModelCalls : call[c] = "idle"
  BY DEF ProviderInit
<1> QED
  BY <1>1, <1>2 DEF ProviderInit, ProviderTypeOK, CallPlaces, CallEnds

LEMMA ProviderTypeNext ==
  ASSUME ProviderTypeOK, [ProviderNext]_providerVars
  PROVE  ProviderTypeOK'
<1> USE CostAssumption DEF ProviderTypeOK, CallPlaces, CallEnds, Unreported
<1>1. ASSUME NEW c \in ModelCalls, StartModelCall(c)
      PROVE  ProviderTypeOK'
  BY <1>1 DEF StartModelCall, Place, ledger
<1>2. ASSUME NEW c \in ModelCalls, Admit(c)
      PROVE  ProviderTypeOK'
  <2>1. CASE SendRequest(c) /\ UNCHANGED stopped
    BY <1>2, <2>1 DEF Admit, SendRequest, Place
  <2>2. CASE EndCall(c, "limit") /\ UNCHANGED <<reported, sent>> /\ stopped' = TRUE
    BY <1>2, <2>2 DEF Admit, EndCall, Place
  <2> QED
    BY <1>2, <2>1, <2>2 DEF Admit
<1>3. ASSUME NEW c \in ModelCalls, UsageArrives(c)
      PROVE  ProviderTypeOK'
  BY <1>3 DEF UsageArrives, ledger
<1>4. ASSUME NEW c \in ModelCalls, StreamEnds(c)
      PROVE  ProviderTypeOK'
  <2>1. spent' \in Nat /\ stopped' \in BOOLEAN /\ incomplete' \in BOOLEAN
    <3>1. Settle(c)
      BY <1>4 DEF StreamEnds
    <3>2. CASE ~budgeted
      BY <3>1, <3>2 DEF Settle, ledger
    <3>3. CASE budgeted /\ reported[c] = Unreported
      BY <3>1, <3>3 DEF Settle
    <3>4. CASE budgeted /\ reported[c] # Unreported
      <4>1. /\ spent' = spent + reported[c] /\ incomplete' = incomplete
            /\ stopped' = (stopped \/ spent + reported[c] >= MaxCost)
        BY <3>1, <3>4, Zenon DEF Settle
      <4>2. reported[c] \in Nat
        OBVIOUS
      <4>3. stopped' \in BOOLEAN
        BY <4>1, Zenon
      <4> QED
        BY <4>1, <4>2, <4>3
    <3> QED
      BY <3>2, <3>3, <3>4
  <2>2. failure' \in [ModelCalls -> CallEnds]
    BY <1>4, OutcomesAreEnds DEF StreamEnds
  <2> QED
    BY <1>4, <2>1, <2>2 DEF StreamEnds, Place
<1>5. ASSUME NEW c \in ModelCalls, StreamClosed(c)
      PROVE  ProviderTypeOK'
  BY <1>5 DEF StreamClosed, EndCall, Place, ledger
<1>6. ASSUME NEW c \in ModelCalls, BackoffEnds(c)
      PROVE  ProviderTypeOK'
  BY <1>6 DEF BackoffEnds, EndCall, Place, ledger
<1>7. CASE UNCHANGED providerVars
  BY <1>7 DEF providerVars
<1> QED
  BY <1>1, <1>2, <1>3, <1>4, <1>5, <1>6, <1>7 DEF ProviderNext, ModelCallStep

\* Steps that neither settle a stream nor open one leave what is at stake.
LEMMA BudgetStays ==
  ASSUME BudgetInv, Streaming' = Streaming, spent' = spent, stopped => stopped'
  PROVE  BudgetInv'
BY DEF BudgetInv, Exposure

LEMMA BudgetNext ==
  ASSUME ProviderInv, [ProviderNext]_providerVars, budgeted
  PROVE  BudgetInv'
<1> USE DEF ProviderInv
<1>1. BudgetInv /\ ProviderTypeOK
  OBVIOUS
<1>2. MaxCost \in Nat /\ MaxCallCost \in Nat /\ spent \in Nat /\ stopped \in BOOLEAN
  BY CostAssumption DEF ProviderTypeOK
<1>3. ASSUME NEW c \in ModelCalls, StartModelCall(c)
      PROVE  BudgetInv'
  BY <1>1, <1>3, BudgetStays DEF StartModelCall, Place, ledger, Streaming, ProviderTypeOK
<1>4. ASSUME NEW c \in ModelCalls, Admit(c)
      PROVE  BudgetInv'
  <2>1. CASE ~stopped /\ SendRequest(c) /\ UNCHANGED <<stopped, spent>>
    <3>1. Cardinality(Streaming') \in Nat /\ Cardinality(Streaming') <= Cardinality(ModelCalls)
      BY <1>4, CallSets DEF Streaming
    <3>2. Cardinality(ModelCalls) \in Nat
      BY <1>4, CallSets
    <3>3. Cardinality(Streaming') * MaxCallCost <= Cardinality(ModelCalls) * MaxCallCost
      BY <1>2, <3>1, <3>2
    <3> QED
      BY <1>1, <1>2, <2>1, <3>1, <3>2, <3>3 DEF BudgetInv, Exposure
  <2>2. CASE EndCall(c, "limit") /\ UNCHANGED spent /\ stopped' = TRUE
    <3>1. Streaming' = Streaming
      BY <1>1, <1>4, <2>2 DEF Admit, EndCall, Place, Streaming, ProviderTypeOK
    <3> QED
      BY <1>1, <2>2, <3>1, BudgetStays
  <2> QED
    BY <1>4, <2>1, <2>2 DEF Admit
<1>5. ASSUME NEW c \in ModelCalls, UsageArrives(c)
      PROVE  BudgetInv'
  BY <1>1, <1>5, BudgetStays DEF UsageArrives, ledger, Streaming
<1>6. ASSUME NEW c \in ModelCalls, StreamEnds(c)
      PROVE  BudgetInv'
  <2>1. c \in Streaming /\ Streaming' = Streaming \ {c}
    BY <1>1, <1>6 DEF StreamEnds, Place, Streaming, ProviderTypeOK
  <2>2. /\ Cardinality(Streaming) \in Nat /\ Cardinality(ModelCalls) \in Nat
        /\ Cardinality(Streaming') = Cardinality(Streaming) - 1
    BY <2>1, CallSets DEF Streaming
  <2>3. Cardinality(Streaming') * MaxCallCost
          = Cardinality(Streaming) * MaxCallCost - MaxCallCost
    BY <1>2, <2>2
  <2>4. Cardinality(Streaming) * MaxCallCost \in Nat
        /\ Cardinality(ModelCalls) * MaxCallCost \in Nat
    BY <1>2, <2>2
  <2>5. CASE reported[c] = Unreported
    BY <1>1, <1>2, <1>6, <2>3, <2>4, <2>5 DEF StreamEnds, Settle, BudgetInv, Exposure
  <2>6. CASE reported[c] # Unreported
    <3>1. reported[c] \in 0..MaxCallCost
      BY <1>1, <1>2, <1>6, <2>6 DEF ProviderTypeOK, Unreported
    <3>2. /\ spent' = spent + reported[c]
          /\ ~stopped' => spent' < MaxCost
      <4>1. Settle(c)
        BY <1>6 DEF StreamEnds
      <4>2. /\ spent' = spent + reported[c]
            /\ stopped' = (stopped \/ spent + reported[c] >= MaxCost)
        BY <2>6, <4>1, Zenon DEF Settle
      <4>3. ~stopped' => ~(spent + reported[c] >= MaxCost)
        BY <4>2, Zenon
      <4> QED
        BY <1>2, <3>1, <4>2, <4>3
    <3>3. Exposure' <= Exposure
      BY <1>2, <2>3, <2>4, <3>1, <3>2 DEF Exposure
    <3>4. Exposure' \in Int /\ Exposure \in Int /\ spent' \in Int
      BY <1>2, <2>3, <2>4, <3>1, <3>2 DEF Exposure
    <3> QED
      BY <1>1, <1>2, <2>4, <3>2, <3>3, <3>4 DEF BudgetInv
  <2> QED
    BY <2>5, <2>6
<1>7. ASSUME NEW c \in ModelCalls, StreamClosed(c)
      PROVE  BudgetInv'
  BY <1>1, <1>7, BudgetStays
  DEF StreamClosed, EndCall, Place, ledger, Streaming, ProviderTypeOK
<1>8. ASSUME NEW c \in ModelCalls, BackoffEnds(c)
      PROVE  BudgetInv'
  BY <1>1, <1>8, BudgetStays
  DEF BackoffEnds, EndCall, Place, ledger, Streaming, ProviderTypeOK
<1>9. CASE UNCHANGED providerVars
  BY <1>1, <1>9, BudgetStays DEF providerVars, Streaming
<1> QED
  BY <1>3, <1>4, <1>5, <1>6, <1>7, <1>8, <1>9 DEF ProviderNext, ModelCallStep

LEMMA ProviderInvInit == ProviderInit => ProviderInv
<1> SUFFICES ASSUME ProviderInit
             PROVE  ProviderInv
  OBVIOUS
<1>1. Streaming = {}
  BY DEF ProviderInit, Streaming
<1>2. Cardinality(Streaming) = 0 /\ Cardinality(ModelCalls) \in Nat
  BY <1>1, CostAssumption, FS_EmptySet, FS_CardinalityType
<1>3. Cardinality(ModelCalls) * MaxCallCost \in Nat
  BY <1>2, CostAssumption
<1> QED
  BY <1>2, <1>3, ProviderTypeInit, CostAssumption
  DEF ProviderInit, ProviderInv, BudgetInv, Exposure

LEMMA ProviderInvAlways == ProviderSpec => []ProviderInv
<1>1. ProviderInv /\ [ProviderNext]_providerVars => ProviderInv'
  <2> SUFFICES ASSUME ProviderInv, [ProviderNext]_providerVars
               PROVE  ProviderInv'
    OBVIOUS
  <2>1. ProviderTypeOK'
    BY ProviderTypeNext DEF ProviderInv
  <2>2. budgeted' = budgeted
    BY DEF ProviderNext, ModelCallStep, StartModelCall, Admit, UsageArrives, StreamEnds,
           StreamClosed, BackoffEnds, providerVars
  <2> QED
    BY <2>1, <2>2, BudgetNext DEF ProviderInv
<1> QED
  BY <1>1, ProviderInvInit, PTL DEF ProviderSpec

\* The values every variable of the ledger and of a call can have; in particular
\* retry_async never tries a request more than max_attempts times.
THEOREM ProviderTypeCorrect == ProviderSpec => []ProviderTypeOK
<1>1. ProviderInv => ProviderTypeOK
  BY DEF ProviderInv
<1> QED
  BY <1>1, ProviderInvAlways, PTL

\* A run overshoots its limit by at most what its concurrent calls are billed for
\* the request each had in flight, whatever the retries, the cancellations and the
\* usage that never arrived (RunBudget.check and _settle).
THEOREM OvershootBounded == ProviderSpec => []OvershootIsBounded
<1>1. ProviderInv => OvershootIsBounded
  <2> SUFFICES ASSUME ProviderInv, budgeted
               PROVE  spent <= MaxCost - 1 + Cardinality(ModelCalls) * MaxCallCost
    BY DEF OvershootIsBounded
  <2>1. IsFiniteSet(Streaming)
    BY CostAssumption, FS_Subset DEF Streaming
  <2>2. Cardinality(Streaming) \in Nat /\ Cardinality(ModelCalls) \in Nat
    BY <2>1, CostAssumption, FS_CardinalityType
  <2>3. /\ Cardinality(Streaming) * MaxCallCost \in Nat
        /\ Cardinality(ModelCalls) * MaxCallCost \in Nat
        /\ spent \in Nat /\ MaxCost \in Nat
    BY <2>2, CostAssumption DEF ProviderInv, ProviderTypeOK
  <2> QED
    BY <2>3 DEF ProviderInv, BudgetInv, Exposure
<1> QED
  BY <1>1, ProviderInvAlways, PTL
=============================================================================
