---------------------------- MODULE Permissions_proofs ----------------------------
(***************************************************************************)
(* The permission gate, for any set of commands, rules and calls in flight:*)
(* what runs was allowed or approved for that very call, no deny rule and  *)
(* no read-only worker is ever bypassed, and the prompt lists exactly the  *)
(* calls that wait for a human.                                            *)
(***************************************************************************)
EXTENDS Permissions, SequenceTheorems, TLAPS

Gates == {"idle", "asking", "hook", "asking again", "run", "unwinding"}

Distinct(q) == \A i, j \in 1..Len(q) : q[i] = q[j] => i = j

PermissionsTypeOK ==
  /\ gate \in [CallSlots -> Gates]
  /\ DOMAIN args = CallSlots /\ DOMAIN cleared = CallSlots
  /\ answers \in [CallSlots -> {"none"} \cup ApprovalKeys]
  /\ prompts \in Seq(CallSlots)
  /\ DOMAIN grants = Callers /\ DOMAIN doom = Callers
  /\ permissionMode \in Modes /\ setting.readonly \in BOOLEAN

\* No deny rule matches the command, and a read-only worker only reads.
Permitted(c, cmd) ==
  /\ cmd \notin Denied
  /\ CallerOf(c) = "worker" /\ setting.readonly => cmd \in Reads

\* A call past its check is permitted, and cleared unless a human has still to
\* answer; an answer is only there while it is awaited.
GateInv ==
  \A c \in CallSlots :
    /\ gate[c] \in {"asking", "asking again", "hook", "run"} => Permitted(c, args[c])
    /\ gate[c] \in {"hook", "run"} => args[c] \in cleared[c]
    /\ Waiting(c) /\ answers[c] \in {"once", "always"} => args[c] \in cleared[c]
    /\ gate[c] \in {"idle", "hook", "run"} => answers[c] = "none"

PermissionsInv == PermissionsTypeOK /\ GateInv /\ PromptIsTheWaiters
-----------------------------------------------------------------------------
\* A queue of distinct entries gets one more.
LEMMA AppendDistinct ==
  ASSUME NEW S, NEW q \in Seq(S), Distinct(q), NEW e \in S, e \notin ToSet(q),
         NEW r, r = Append(q, e)
  PROVE  /\ r \in Seq(S) /\ Distinct(r)
         /\ \A x : x \in ToSet(r) <=> x \in ToSet(q) \/ x = e
<1>1. /\ Len(q) \in Nat /\ DOMAIN q = 1..Len(q)
      /\ r \in Seq(S) /\ Len(r) = Len(q) + 1 /\ DOMAIN r = 1..Len(r)
      /\ \A i \in 1..Len(q) : r[i] = q[i]
      /\ r[Len(q) + 1] = e
  BY AppendProperties, LenProperties
<1>2. 1..Len(r) = 1..Len(q) \cup {Len(q) + 1}
  BY <1>1
<1>3. \A i \in 1..Len(q) : q[i] # e
  BY <1>1 DEF ToSet
<1>4. ToSet(r) = ToSet(q) \cup {e}
  BY <1>1, <1>2 DEF ToSet
<1>5. Distinct(r)
  BY <1>1, <1>2, <1>3 DEF Distinct
<1> QED
  BY <1>1, <1>4, <1>5

\* Its head leaves.
LEMMA TailDistinct ==
  ASSUME NEW S, NEW q \in Seq(S), Distinct(q), q # <<>>
  PROVE  /\ Head(q) \in S /\ Head(q) \in ToSet(q)
         /\ Tail(q) \in Seq(S) /\ Distinct(Tail(q))
         /\ ToSet(Tail(q)) = ToSet(q) \ {Head(q)}
<1> DEFINE r == Tail(q)
<1>1. /\ Len(q) \in Nat \ {0} /\ DOMAIN q = 1..Len(q) /\ Head(q) \in S
      /\ r \in Seq(S) /\ Len(r) = Len(q) - 1 /\ DOMAIN r = 1..Len(r)
      /\ \A i \in 1..Len(r) : r[i] = q[i + 1]
  BY HeadTailProperties, LenProperties, EmptySeq
<1>2. Head(q) = q[1]
  BY <1>1
<1> HIDE DEF r
<1>3. \A i \in 1..Len(q) : i = 1 \/ (i - 1 \in 1..Len(r) /\ r[i - 1] = q[i])
  BY <1>1
<1>4. \A i \in 1..Len(r) : q[i + 1] # q[1]
  BY <1>1 DEF Distinct
<1>5. ToSet(r) = ToSet(q) \ {q[1]}
  <2>1. \A i \in DOMAIN r : r[i] \in ToSet(q) \ {q[1]}
    BY <1>1, <1>4 DEF ToSet
  <2>2. \A i \in DOMAIN q : q[i] # q[1] => q[i] \in ToSet(r)
    BY <1>1, <1>3 DEF ToSet
  <2> QED
    BY <2>1, <2>2 DEF ToSet
<1>6. Distinct(r)
  BY <1>1 DEF Distinct
<1>7. q[1] \in ToSet(q)
  <2>1. 1 \in DOMAIN q
    BY <1>1
  <2> QED
    BY <2>1 DEF ToSet
<1> QED
  BY <1>1, <1>2, <1>5, <1>6, <1>7 DEF r

\* The entry at k leaves.
LEMMA RemoveAtDistinct ==
  ASSUME NEW S, NEW q \in Seq(S), Distinct(q), NEW k \in 1..Len(q)
  PROVE  /\ RemoveAt(q, k) \in Seq(S) /\ Distinct(RemoveAt(q, k))
         /\ ToSet(RemoveAt(q, k)) = ToSet(q) \ {q[k]}
<1> DEFINE left == SubSeq(q, 1, k - 1)
           right == SubSeq(q, k + 1, Len(q))
           r == left \o right
<1>1. /\ Len(q) \in Nat /\ DOMAIN q = 1..Len(q) /\ k \in Nat
      /\ \A i \in 1..Len(q) : q[i] \in S
  BY LenProperties, ElementOfSeq
<1>2. /\ left \in Seq(S) /\ Len(left) = k - 1
      /\ \A i \in 1..k - 1 : left[i] = q[i]
  <2>1. 1 \in Int /\ k - 1 \in Int /\ \A i \in 1..k - 1 : q[i] \in S
    BY <1>1
  <2>2. /\ left \in Seq(S)
        /\ Len(left) = IF 1 <= k - 1 THEN k - 1 - 1 + 1 ELSE 0
        /\ \A i \in 1..k - 1 - 1 + 1 : left[i] = q[1 + i - 1]
    BY <2>1, SubSeqProperties
  <2>3. Len(left) = k - 1
    BY <1>1, <2>2
  <2>4. \A i \in 1..k - 1 : left[i] = q[i]
    <3>1. k - 1 - 1 + 1 = k - 1 /\ \A i \in 1..k - 1 : 1 + i - 1 = i
      BY <1>1
    <3> HIDE DEF left
    <3> QED
      BY <2>2, <3>1
  <2> QED
    BY <2>2, <2>3, <2>4
<1>3. /\ right \in Seq(S) /\ Len(right) = Len(q) - k
      /\ \A i \in 1..Len(q) - k : right[i] = q[k + i]
  <2>1. k + 1 \in Int /\ Len(q) \in Int /\ \A i \in k + 1..Len(q) : q[i] \in S
    BY <1>1
  <2>2. /\ right \in Seq(S)
        /\ Len(right) = IF k + 1 <= Len(q) THEN Len(q) - (k + 1) + 1 ELSE 0
        /\ \A i \in 1..Len(q) - (k + 1) + 1 : right[i] = q[k + 1 + i - 1]
    BY <2>1, SubSeqProperties
  <2>3. Len(right) = Len(q) - k
    <3>1. k <= Len(q)
      BY <1>1
    <3>2. CASE k + 1 <= Len(q)
      BY <1>1, <2>2, <3>2
    <3>3. CASE k = Len(q)
      BY <1>1, <2>2, <3>3
    <3>4. k + 1 <= Len(q) \/ k = Len(q)
      <4>1. \A m, n \in Nat : n <= m => n + 1 <= m \/ n = m
        OBVIOUS
      <4> QED
        BY <1>1, <3>1, <4>1
    <3> QED
      BY <3>2, <3>3, <3>4
  <2>4. \A i \in 1..Len(q) - k : right[i] = q[k + i]
    <3>1. /\ Len(q) - (k + 1) + 1 = Len(q) - k
          /\ \A i \in 1..Len(q) - k : k + 1 + i - 1 = k + i
      BY <1>1
    <3> HIDE DEF right
    <3> QED
      BY <2>2, <3>1
  <2> QED
    BY <2>2, <2>3, <2>4
<1> HIDE DEF left, right
<1>4. /\ r \in Seq(S) /\ Len(r) = Len(left) + Len(right)
      /\ \A i \in 1..Len(left) + Len(right) :
           r[i] = IF i <= Len(left) THEN left[i] ELSE right[i - Len(left)]
  BY <1>2, <1>3, ConcatProperties
<1>5. DOMAIN r = 1..Len(r)
  BY <1>4, LenProperties
<1> HIDE DEF r
<1>6. Len(r) = Len(q) - 1
  BY <1>1, <1>2, <1>3, <1>4
<1>7. ASSUME NEW i \in 1..Len(r)
      PROVE  r[i] = q[IF i < k THEN i ELSE i + 1]
  <2>1. CASE i < k
    BY <1>1, <1>2, <1>3, <1>4, <2>1
  <2>2. CASE ~(i < k)
    <3>1. i - Len(left) \in 1..Len(q) - k /\ k + (i - Len(left)) = i + 1
      BY <1>1, <1>2, <1>6, <2>2
    <3>2. r[i] = right[i - Len(left)]
      BY <1>1, <1>2, <1>3, <1>4, <2>2
    <3> QED
      BY <1>3, <2>2, <3>1, <3>2
  <2> QED
    BY <2>1, <2>2
<1>8. Distinct(r)
  BY <1>1, <1>6, <1>7 DEF Distinct
<1>9. ToSet(r) = ToSet(q) \ {q[k]}
  <2>1. ASSUME NEW i \in 1..Len(r)
        PROVE  r[i] \in ToSet(q) \ {q[k]}
    <3>1. /\ (IF i < k THEN i ELSE i + 1) \in 1..Len(q)
          /\ (IF i < k THEN i ELSE i + 1) # k
      BY <1>1, <1>6
    <3> QED
      BY <1>1, <1>7, <3>1 DEF ToSet, Distinct
  <2>2. ASSUME NEW i \in 1..Len(q), q[i] # q[k]
        PROVE  q[i] \in ToSet(r)
    <3>1. CASE i < k
      BY <1>1, <1>5, <1>6, <1>7, <3>1 DEF ToSet
    <3>2. CASE i > k
      <4>1. i - 1 \in 1..Len(r) /\ r[i - 1] = q[i]
        BY <1>1, <1>6, <1>7, <3>2
      <4> QED
        BY <1>5, <4>1 DEF ToSet
    <3> QED
      BY <1>1, <2>2, <3>1, <3>2
  <2> QED
    BY <1>1, <1>5, <2>1, <2>2 DEF ToSet
<1>10. r = RemoveAt(q, k)
  BY DEF r, left, right, RemoveAt
<1> QED
  BY <1>4, <1>8, <1>9, <1>10

\* Exactly the entry c leaves, if it is there.
LEMMA RemoveFirstDistinct ==
  ASSUME NEW S, NEW q \in Seq(S), Distinct(q), NEW c
  PROVE  /\ RemoveFirst(q, c) \in Seq(S) /\ Distinct(RemoveFirst(q, c))
         /\ ToSet(RemoveFirst(q, c)) = ToSet(q) \ {c}
<1>0. Len(q) \in Nat /\ DOMAIN q = 1..Len(q)
  BY LenProperties
<1>1. CASE ~\E i \in 1..Len(q) : q[i] = c
  <2>1. RemoveFirst(q, c) = q
    BY <1>1 DEF RemoveFirst
  <2> QED
    BY <1>0, <1>1, <2>1 DEF ToSet
<1>2. ASSUME NEW k \in 1..Len(q), q[k] = c
      PROVE  RemoveFirst(q, c) = RemoveAt(q, k)
  <2>1. {i \in 1..Len(q) : q[i] = c} = {k}
    BY <1>2 DEF Distinct
  <2>2. Min({k}) = k
    BY <1>0 DEF Min
  <2>3. SelectInSeq(q, LAMBDA v : v = c) = k
    BY <2>1, <2>2 DEF SelectInSeq
  <2> QED
    BY <1>2, <2>3 DEF RemoveFirst
<1> QED
  BY <1>1, <1>2, RemoveAtDistinct
-----------------------------------------------------------------------------
\* One layer that denies decides.
LEMMA DenyWins ==
  ASSUME NEW verdicts, verdicts \subseteq DOMAIN Severity, "deny" \in verdicts
  PROVE  Strictest(verdicts) = "deny"
<1>1. Severity["deny"] = 2 /\ \A u \in DOMAIN Severity : Severity[u] <= 2
  BY DEF Severity
<1>2. \A v \in DOMAIN Severity : 2 <= Severity[v] => v = "deny"
  BY DEF Severity
<1> HIDE DEF Severity
<1>3. \A u \in verdicts : Severity[u] <= Severity["deny"]
  BY <1>1
<1>4. Strictest(verdicts) \in verdicts
      /\ \A u \in verdicts : Severity[u] <= Severity[Strictest(verdicts)]
  BY <1>3 DEF Strictest
<1> QED
  BY <1>1, <1>2, <1>4

\* A deny rule and a read-only policy are final in the layer that has them.
LEMMA BaseDecisionIsSafe ==
  ASSUME NEW cmd, NEW fallback, NEW readonly \in BOOLEAN, NEW extra, NEW granted
  PROVE  LET d == BaseDecision(cmd, fallback, readonly, extra, granted) IN
         /\ d \in DOMAIN Severity
         /\ cmd \in Denied => d = "deny"
         /\ readonly /\ cmd \notin Reads => d = "deny"
BY DEF BaseDecision, Severity

\* What the check lets through is permitted, whatever the grants, the overlay,
\* the modes and the count of repeated calls are.
LEMMA CheckIsSafe ==
  ASSUME NEW c \in CallSlots, NEW cmd, PermissionsTypeOK,
         CheckOf(CallerOf(c), cmd) # "deny"
  PROVE  Permitted(c, cmd)
<1> DEFINE a == CallerOf(c)
           Layer(extra) == BaseDecision(cmd, setting.copied, setting.readonly,
                                        extra, grants[a])
<1>1. PolicyDecision(a, cmd) # "deny"
  BY DEF CheckOf, ApplyDoomLoop
<1>2. a \in {"main", "worker"} /\ setting.readonly \in BOOLEAN
  BY DEF CallerOf, PermissionsTypeOK
<1>3. /\ MainPolicy(cmd) \in DOMAIN Severity
      /\ cmd \in Denied => MainPolicy(cmd) = "deny"
  BY BaseDecisionIsSafe DEF MainPolicy
<1>4. /\ Layer({}) \in DOMAIN Severity /\ Layer(setting.overlay) \in DOMAIN Severity
      /\ cmd \in Denied => Layer({}) = "deny"
      /\ setting.readonly /\ cmd \notin Reads => Layer({}) = "deny"
  BY <1>2, BaseDecisionIsSafe
<1>5. CASE a = "main"
  BY <1>1, <1>3, <1>5 DEF PolicyDecision, Permitted
<1>6. CASE a = "worker"
  <2> DEFINE layers == {MainPolicy(cmd)} \cup
                         {Layer(extra) : extra \in {{}, setting.overlay}}
  <2>1. PolicyDecision(a, cmd) = Strictest(layers)
    BY <1>6 DEF PolicyDecision
  <2>2. layers \subseteq DOMAIN Severity /\ Layer({}) \in layers
    BY <1>3, <1>4
  <2>3. Layer({}) # "deny"
    BY <1>1, <2>1, <2>2, DenyWins
  <2> QED
    BY <1>4, <2>3 DEF Permitted
<1> QED
  BY <1>2, <1>5, <1>6
-----------------------------------------------------------------------------
\* The first part of PromptIsTheWaiters says that the entries are distinct.
LEMMA DistinctEntries ==
  ASSUME NEW q \in Seq(CallSlots)
  PROVE  Distinct(q) <=> \A c \in CallSlots : \A i, j \in DOMAIN q :
                            q[i] = c /\ q[j] = c => i = j
BY LenProperties, ElementOfSeq DEF Distinct

LEMMA EntriesOf ==
  ASSUME NEW S, NEW q \in Seq(S)
  PROVE  ToSet(q) \subseteq S
<1>1. DOMAIN q = 1..Len(q) /\ \A i \in 1..Len(q) : q[i] \in S
  BY LenProperties, ElementOfSeq
<1> QED
  BY <1>1 DEF ToSet

\* The calls whose fields an action on c leaves alone.
OthersKeep(c) ==
  \A d \in CallSlots \ {c} :
    /\ gate'[d] = gate[d] /\ args'[d] = args[d]
    /\ cleared'[d] = cleared[d] /\ answers'[d] = answers[d]

\* What an action that changes one call has to show.
LEMMA OneCallChanges ==
  ASSUME PermissionsInv, NEW c \in CallSlots, OthersKeep(c), UNCHANGED setting,
         gate'[c] \in {"asking", "asking again", "hook", "run"}
           => Permitted(c, args'[c]),
         gate'[c] \in {"hook", "run"} => args'[c] \in cleared'[c],
         gate'[c] \in {"asking", "asking again"} /\ answers'[c] \in {"once", "always"}
           => args'[c] \in cleared'[c],
         gate'[c] \in {"idle", "hook", "run"} => answers'[c] = "none",
         prompts' \in Seq(CallSlots), Distinct(prompts'),
         ToSet(prompts') \ {c} = ToSet(prompts) \ {c},
         gate'[c] \in {"asking", "asking again"} /\ answers'[c] = "none"
           => c \in ToSet(prompts'),
         c \in ToSet(prompts') =>
           \/ gate'[c] = "unwinding"
           \/ gate'[c] \in {"asking", "asking again"} /\ answers'[c] = "none"
  PROVE  GateInv' /\ PromptIsTheWaiters'
<1>1. GateInv'
  <2> SUFFICES ASSUME NEW d \in CallSlots
               PROVE  (/\ gate[d] \in {"asking", "asking again", "hook", "run"}
                            => Permitted(d, args[d])
                       /\ gate[d] \in {"hook", "run"} => args[d] \in cleared[d]
                       /\ Waiting(d) /\ answers[d] \in {"once", "always"}
                            => args[d] \in cleared[d]
                       /\ gate[d] \in {"idle", "hook", "run"} => answers[d] = "none")'
    BY DEF GateInv
  <2>1. CASE d = c
    BY <2>1 DEF Waiting, Permitted, CallerOf
  <2>2. CASE d # c
    BY <2>2 DEF OthersKeep, PermissionsInv, GateInv, Waiting, Permitted, CallerOf
  <2> QED
    BY <2>1, <2>2
<1>2. PromptIsTheWaiters'
  <2>1. (\A d \in CallSlots : \A i, j \in DOMAIN prompts :
           prompts[i] = d /\ prompts[j] = d => i = j)'
    BY DistinctEntries
  <2>2. ASSUME NEW d \in CallSlots, Waiting(d)' /\ answers'[d] = "none"
        PROVE  d \in ToSet(prompts')
    BY <2>2 DEF Waiting, OthersKeep, PermissionsInv, PromptIsTheWaiters
  <2>3. ASSUME NEW d \in ToSet(prompts')
        PROVE  gate'[d] = "unwinding" \/ (Waiting(d)' /\ answers'[d] = "none")
    <3>1. d \in CallSlots
      BY EntriesOf
    <3> QED
      BY <3>1 DEF Waiting, OthersKeep, PermissionsInv, PromptIsTheWaiters
  <2> QED
    BY <2>1, <2>2, <2>3 DEF PromptIsTheWaiters
<1> QED
  BY <1>1, <1>2

\* A call that has no entry in the queue leaves.
LEMMA LeaveKeeps ==
  ASSUME PermissionsInv, NEW c \in CallSlots, Leave(c), UNCHANGED setting,
         prompts' \in Seq(CallSlots), Distinct(prompts'),
         ToSet(prompts') = ToSet(prompts) \ {c}
  PROVE  /\ gate' \in [CallSlots -> Gates]
         /\ DOMAIN args' = CallSlots /\ DOMAIN cleared' = CallSlots
         /\ answers' \in [CallSlots -> {"none"} \cup ApprovalKeys]
         /\ GateInv' /\ PromptIsTheWaiters'
<1> USE DEF Leave, MoveTo, PermissionsInv, PermissionsTypeOK, Gates, ApprovalKeys
<1>1. /\ gate' \in [CallSlots -> Gates]
      /\ DOMAIN args' = CallSlots /\ DOMAIN cleared' = CallSlots
      /\ answers' \in [CallSlots -> {"none"} \cup ApprovalKeys]
  OBVIOUS
<1>2. gate'[c] = "idle" /\ answers'[c] = "none" /\ OthersKeep(c)
  BY DEF OthersKeep
<1>3. GateInv' /\ PromptIsTheWaiters'
  BY <1>2, OneCallChanges
<1> QED
  BY <1>1, <1>3

\* authorize_tool, for a call that its check lets through only when permitted.
LEMMA AuthorizeKeeps ==
  ASSUME PermissionsInv, NEW c \in CallSlots, gate[c] \in {"idle", "hook"},
         NEW cmd, NEW verdict, verdict # "deny" => Permitted(c, cmd),
         NEW asking \in {"asking", "asking again"}, NEW next \in {"hook", "run"},
         Authorize(c, cmd, verdict, asking, next), UNCHANGED setting
  PROVE  /\ gate' \in [CallSlots -> Gates]
         /\ DOMAIN args' = CallSlots /\ DOMAIN cleared' = CallSlots
         /\ answers' \in [CallSlots -> {"none"} \cup ApprovalKeys]
         /\ prompts' \in Seq(CallSlots)
         /\ GateInv' /\ PromptIsTheWaiters'
<1>1. /\ prompts \in Seq(CallSlots) /\ Distinct(prompts)
      /\ c \notin ToSet(prompts) /\ answers[c] = "none"
  BY DistinctEntries
     DEF PermissionsInv, PermissionsTypeOK, PromptIsTheWaiters, GateInv, Waiting
<1>2. CASE verdict = "deny" \/ (verdict = "ask" /\ setting.approver = "nobody")
  <2>1. Leave(c) /\ UNCHANGED prompts
    BY <1>2 DEF Authorize
  <2> QED
    BY <1>1, <2>1, LeaveKeeps
<1>3. CASE verdict # "deny" /\ verdict = "ask" /\ setting.approver = "user"
  <2>1. /\ args' = [args EXCEPT ![c] = cmd] /\ UNCHANGED <<answers, cleared>>
        /\ gate' = [gate EXCEPT ![c] = asking] /\ prompts' = Append(prompts, c)
    BY <1>3 DEF Authorize, MoveTo
  <2>2. /\ prompts' \in Seq(CallSlots) /\ Distinct(prompts')
        /\ \A d : d \in ToSet(prompts') <=> d \in ToSet(prompts) \/ d = c
    BY <1>1, <2>1, AppendDistinct
  <2>3. /\ gate'[c] = asking /\ answers'[c] = "none" /\ args'[c] = cmd
        /\ OthersKeep(c)
    BY <1>1, <2>1 DEF OthersKeep, PermissionsInv, PermissionsTypeOK
  <2>4. GateInv' /\ PromptIsTheWaiters'
    BY <1>3, <2>2, <2>3, OneCallChanges
  <2> QED
    BY <2>1, <2>2, <2>4 DEF PermissionsInv, PermissionsTypeOK, Gates
<1>4. CASE verdict # "deny" /\ ~(verdict = "ask" /\ setting.approver \in {"user", "nobody"})
  <2>1. /\ args' = [args EXCEPT ![c] = cmd] /\ UNCHANGED <<answers, prompts>>
        /\ gate' = [gate EXCEPT ![c] = next]
        /\ cleared' = [cleared EXCEPT ![c] = @ \cup {cmd}]
    BY <1>4 DEF Authorize, MoveTo
  <2>2. /\ gate'[c] = next /\ answers'[c] = "none" /\ args'[c] = cmd
        /\ cmd \in cleared'[c] /\ OthersKeep(c)
    BY <1>1, <2>1 DEF OthersKeep, PermissionsInv, PermissionsTypeOK
  <2>3. GateInv' /\ PromptIsTheWaiters'
    BY <1>1, <1>4, <2>1, <2>2, OneCallChanges
  <2> QED
    BY <1>1, <2>1, <2>3 DEF PermissionsInv, PermissionsTypeOK, Gates
<1> QED
  BY <1>2, <1>3, <1>4
-----------------------------------------------------------------------------
LEMMA DispatchKeeps ==
  ASSUME PermissionsInv, NEW c \in CallSlots, Dispatch(c)
  PROVE  PermissionsInv'
<1>1. PICK cmd \in Commands :
        /\ doom' = [doom EXCEPT ![CallerOf(c)] = DoomAfter(CallerOf(c), cmd)]
        /\ Authorize(c, cmd, CheckOf(CallerOf(c), cmd), "asking", "hook")
  BY DEF Dispatch
<1>2. gate[c] = "idle" /\ UNCHANGED <<grants, permissionMode, setting>>
  BY DEF Dispatch
<1>3. CheckOf(CallerOf(c), cmd) # "deny" => Permitted(c, cmd)
  BY CheckIsSafe DEF PermissionsInv
<1>4. /\ gate' \in [CallSlots -> Gates]
      /\ DOMAIN args' = CallSlots /\ DOMAIN cleared' = CallSlots
      /\ answers' \in [CallSlots -> {"none"} \cup ApprovalKeys]
      /\ prompts' \in Seq(CallSlots)
      /\ GateInv' /\ PromptIsTheWaiters'
  BY <1>1, <1>2, <1>3, AuthorizeKeeps
<1> QED
  BY <1>1, <1>2, <1>4 DEF PermissionsInv, PermissionsTypeOK

\* A rewrite is checked as a call of its own, the same arguments were checked.
LEMMA HookKeeps ==
  ASSUME PermissionsInv, NEW c \in CallSlots, Hook(c)
  PROVE  PermissionsInv'
<1>1. gate[c] = "hook" /\ UNCHANGED <<grants, permissionMode, setting>>
  BY DEF Hook
<1>2. PICK pre \in PreToolUse :
       LET cmd == IF pre.rewrite = NoCommand THEN args[c] ELSE pre.rewrite
           fresh == cmd # args[c]
           check == IF fresh THEN CheckOf(CallerOf(c), cmd) ELSE "allow"
           verdict == IF pre.verdict = "ask" /\ check = "allow" THEN "ask" ELSE check
       IN IF pre.verdict = "deny"
          THEN Leave(c) /\ UNCHANGED <<prompts, doom>>
          ELSE /\ doom' = IF fresh
                          THEN [doom EXCEPT ![CallerOf(c)] = DoomAfter(CallerOf(c), cmd)]
                          ELSE doom
               /\ Authorize(c, cmd, verdict, "asking again", "run")
  BY DEF Hook
<1> DEFINE cmd == IF pre.rewrite = NoCommand THEN args[c] ELSE pre.rewrite
           check == IF cmd # args[c] THEN CheckOf(CallerOf(c), cmd) ELSE "allow"
           verdict == IF pre.verdict = "ask" /\ check = "allow" THEN "ask" ELSE check
<1>3. CASE pre.verdict = "deny"
  <2>1. Leave(c) /\ UNCHANGED <<prompts, doom, grants, permissionMode, setting>>
    BY <1>1, <1>2, <1>3
  <2>2. /\ prompts \in Seq(CallSlots) /\ Distinct(prompts)
        /\ ToSet(prompts) = ToSet(prompts) \ {c}
    BY <1>1, DistinctEntries
       DEF PermissionsInv, PermissionsTypeOK, PromptIsTheWaiters, Waiting
  <2>3. /\ gate' \in [CallSlots -> Gates]
        /\ DOMAIN args' = CallSlots /\ DOMAIN cleared' = CallSlots
        /\ answers' \in [CallSlots -> {"none"} \cup ApprovalKeys]
        /\ GateInv' /\ PromptIsTheWaiters'
    BY <2>1, <2>2, LeaveKeeps
  <2> QED
    BY <2>1, <2>3 DEF PermissionsInv, PermissionsTypeOK
<1>4. CASE pre.verdict # "deny"
  <2>1. /\ Authorize(c, cmd, verdict, "asking again", "run")
        /\ DOMAIN doom' = DOMAIN doom
    BY <1>2, <1>4
  <2>2. verdict # "deny" => Permitted(c, cmd)
    <3>1. CASE cmd = args[c]
      BY <1>1, <3>1 DEF PermissionsInv, GateInv
    <3>2. CASE cmd # args[c]
      BY <3>2, CheckIsSafe DEF PermissionsInv
    <3> QED
      BY <3>1, <3>2
  <2> HIDE DEF verdict, cmd
  <2>3. /\ gate' \in [CallSlots -> Gates]
        /\ DOMAIN args' = CallSlots /\ DOMAIN cleared' = CallSlots
        /\ answers' \in [CallSlots -> {"none"} \cup ApprovalKeys]
        /\ prompts' \in Seq(CallSlots)
        /\ GateInv' /\ PromptIsTheWaiters'
    BY <1>1, <2>1, <2>2, AuthorizeKeeps
  <2> QED
    BY <1>1, <2>1, <2>3 DEF PermissionsInv, PermissionsTypeOK
<1> QED
  BY <1>3, <1>4

\* A key resolves the head of the queue, which is the call that waits for it.
LEMMA PressKeeps ==
  ASSUME PermissionsInv, NEW decision \in ApprovalKeys, Press(decision)
  PROVE  PermissionsInv'
<1> DEFINE c == Head(prompts)
<1>1. /\ prompts # <<>> /\ Waiting(c) /\ prompts' = Tail(prompts)
      /\ answers' = [answers EXCEPT ![c] = decision]
      /\ cleared' = [cleared EXCEPT ![c] = IF decision = "deny" THEN @ ELSE @ \cup {args[c]}]
      /\ UNCHANGED <<gate, args, grants, doom, permissionMode, setting>>
  BY DEF Press
<1>2. prompts \in Seq(CallSlots) /\ Distinct(prompts)
  BY DistinctEntries DEF PermissionsInv, PermissionsTypeOK, PromptIsTheWaiters
<1>3. /\ c \in CallSlots
      /\ Tail(prompts) \in Seq(CallSlots) /\ Distinct(Tail(prompts))
      /\ ToSet(Tail(prompts)) = ToSet(prompts) \ {c}
  BY <1>1, <1>2, TailDistinct
<1> HIDE DEF c
<1>4. /\ answers'[c] = decision /\ decision # "none" /\ OthersKeep(c)
      /\ decision \in {"once", "always"} => args[c] \in cleared'[c]
      /\ gate'[c] = gate[c] /\ gate[c] \in {"asking", "asking again"}
      /\ args'[c] = args[c]
  BY <1>1, <1>3
     DEF OthersKeep, PermissionsInv, PermissionsTypeOK, ApprovalKeys, Waiting
<1>5. Permitted(c, args[c])
  BY <1>3, <1>4 DEF PermissionsInv, GateInv
<1>6. /\ prompts' \in Seq(CallSlots) /\ Distinct(prompts')
      /\ ToSet(prompts') = ToSet(prompts) \ {c}
  BY <1>1, <1>3
<1>7. GateInv' /\ PromptIsTheWaiters'
  BY <1>1, <1>3, <1>4, <1>5, <1>6, OneCallChanges
<1>8. PermissionsTypeOK'
  BY <1>1, <1>3, <1>6 DEF PermissionsInv, PermissionsTypeOK
<1> QED
  BY <1>7, <1>8 DEF PermissionsInv
-----------------------------------------------------------------------------
LEMMA AnswerArrivesKeeps ==
  ASSUME PermissionsInv, NEW c \in CallSlots, AnswerArrives(c)
  PROVE  PermissionsInv'
<1>1. /\ Waiting(c) /\ answers[c] # "none"
      /\ UNCHANGED <<prompts, doom, permissionMode, setting>>
      /\ DOMAIN grants' = DOMAIN grants
  BY DEF AnswerArrives
<1>2. /\ prompts \in Seq(CallSlots) /\ Distinct(prompts) /\ c \notin ToSet(prompts)
  BY <1>1, DistinctEntries
     DEF PermissionsInv, PermissionsTypeOK, PromptIsTheWaiters, Waiting
<1>3. /\ gate' \in [CallSlots -> Gates]
      /\ DOMAIN args' = CallSlots /\ DOMAIN cleared' = CallSlots
      /\ answers' \in [CallSlots -> {"none"} \cup ApprovalKeys]
      /\ GateInv' /\ PromptIsTheWaiters'
  <2>1. CASE answers[c] = "deny"
    <3>1. Leave(c) /\ ToSet(prompts) = ToSet(prompts) \ {c}
      BY <1>2, <2>1 DEF AnswerArrives
    <3> QED
      BY <1>1, <1>2, <3>1, LeaveKeeps
  <2>2. CASE answers[c] # "deny"
    <3> DEFINE next == IF gate[c] = "asking" THEN "hook" ELSE "run"
    <3>1. /\ gate' = [gate EXCEPT ![c] = next]
          /\ answers' = [answers EXCEPT ![c] = "none"] /\ UNCHANGED <<args, cleared>>
      BY <2>2 DEF AnswerArrives, MoveTo
    <3>2. answers[c] \in {"once", "always"}
      BY <1>1, <2>2 DEF PermissionsInv, PermissionsTypeOK, ApprovalKeys
    <3>3. Permitted(c, args[c]) /\ args[c] \in cleared[c]
      BY <1>1, <3>2 DEF PermissionsInv, GateInv, Waiting
    <3>4. /\ gate'[c] \in {"hook", "run"} /\ answers'[c] = "none" /\ args'[c] = args[c]
          /\ cleared'[c] = cleared[c] /\ OthersKeep(c)
      BY <3>1 DEF OthersKeep, PermissionsInv, PermissionsTypeOK
    <3>5. GateInv' /\ PromptIsTheWaiters'
      BY <1>1, <1>2, <3>3, <3>4, OneCallChanges
    <3> QED
      BY <3>1, <3>5 DEF PermissionsInv, PermissionsTypeOK, Gates
  <2> QED
    BY <2>1, <2>2
<1> QED
  BY <1>1, <1>3 DEF PermissionsInv, PermissionsTypeOK

\* A call leaves: after its tool ran, or cancelled, or unwound with its entry.
LEMMA DepartureKeeps ==
  ASSUME PermissionsInv, NEW c \in CallSlots, RunTool(c) \/ CancelCall(c) \/ Unwind(c)
  PROVE  PermissionsInv'
<1>1. UNCHANGED <<grants, doom, permissionMode, setting>>
  BY DEF RunTool, CancelCall, Unwind
<1>2. prompts \in Seq(CallSlots) /\ Distinct(prompts)
  BY DistinctEntries DEF PermissionsInv, PermissionsTypeOK, PromptIsTheWaiters
<1>3. ASSUME Leave(c), prompts' \in Seq(CallSlots), Distinct(prompts'),
             ToSet(prompts') = ToSet(prompts) \ {c}
      PROVE  PermissionsInv'
  <2>1. /\ gate' \in [CallSlots -> Gates]
        /\ DOMAIN args' = CallSlots /\ DOMAIN cleared' = CallSlots
        /\ answers' \in [CallSlots -> {"none"} \cup ApprovalKeys]
        /\ GateInv' /\ PromptIsTheWaiters'
    BY <1>1, <1>3, LeaveKeeps
  <2> QED
    BY <1>1, <1>3, <2>1 DEF PermissionsInv, PermissionsTypeOK
<1>4. CASE UNCHANGED prompts /\ gate[c] \in {"hook", "run"} /\ Leave(c)
  <2>1. c \notin ToSet(prompts)
    BY <1>4 DEF PermissionsInv, PromptIsTheWaiters, Waiting
  <2> QED
    BY <1>2, <1>3, <1>4, <2>1
<1>5. CASE UNCHANGED <<prompts, args, cleared, answers>> /\ Waiting(c)
           /\ MoveTo(c, "unwinding")
  <2>1. /\ gate'[c] = "unwinding" /\ OthersKeep(c)
        /\ gate' \in [CallSlots -> Gates]
    BY <1>5 DEF MoveTo, OthersKeep, PermissionsInv, PermissionsTypeOK, Gates
  <2>2. GateInv' /\ PromptIsTheWaiters'
    BY <1>1, <1>2, <1>5, <2>1, OneCallChanges
  <2> QED
    BY <1>1, <1>5, <2>1, <2>2 DEF PermissionsInv, PermissionsTypeOK
<1>6. CASE Unwind(c)
  <2>1. /\ RemoveFirst(prompts, c) \in Seq(CallSlots) /\ Distinct(RemoveFirst(prompts, c))
        /\ ToSet(RemoveFirst(prompts, c)) = ToSet(prompts) \ {c}
    BY <1>2, RemoveFirstDistinct
  <2>2. prompts' = RemoveFirst(prompts, c) /\ Leave(c)
    BY <1>6 DEF Unwind
  <2> QED
    BY <1>3, <2>1, <2>2
<1>7. gate[c] \in Gates
  BY DEF PermissionsInv, PermissionsTypeOK
<1>8. CASE RunTool(c)
  BY <1>4, <1>8 DEF RunTool
<1>9. CASE CancelCall(c)
  BY <1>4, <1>5, <1>7, <1>9 DEF CancelCall, Gates, Waiting
<1> QED
  BY <1>6, <1>8, <1>9
-----------------------------------------------------------------------------
LEMMA PermissionsInit_Inv == PermissionsInit => PermissionsInv
<1> SUFFICES ASSUME PermissionsInit
             PROVE  PermissionsInv
  OBVIOUS
<1>1. PermissionsTypeOK
  <2>1. setting.readonly \in BOOLEAN
    <3>1. PICK w \in WorkerPolicies, p \in {"user", "auto", "nobody"} :
            setting = [copied |-> w[1], readonly |-> w[2], overlay |-> w[3], approver |-> p]
      BY DEF PermissionsInit
    <3>2. \/ w = <<"yolo", FALSE, {}>> \/ w = <<"yolo", TRUE, Commands>>
          \/ w = <<"readonly", FALSE, Commands>>
      BY DEF WorkerPolicies
    <3>3. w[2] = FALSE \/ w[2] = TRUE
      <4>1. CASE w = <<"yolo", FALSE, {}>>
        BY <4>1
      <4>2. CASE w = <<"yolo", TRUE, Commands>>
        BY <4>2
      <4>3. CASE w = <<"readonly", FALSE, Commands>>
        BY <4>3
      <4> QED
        BY <3>2, <4>1, <4>2, <4>3
    <3> QED
      BY <3>1, <3>3
  <2> QED
    BY <2>1 DEF PermissionsInit, PermissionsTypeOK, Gates
<1>2. GateInv
  BY DEF PermissionsInit, GateInv, Waiting
<1>3. PromptIsTheWaiters
  <2>1. prompts = <<>> /\ DOMAIN prompts = {} /\ ToSet(prompts) = {}
    BY DEF PermissionsInit, ToSet
  <2> QED
    BY <2>1 DEF PermissionsInit, PromptIsTheWaiters, Waiting
<1> QED
  BY <1>1, <1>2, <1>3 DEF PermissionsInv

LEMMA PermissionsNext_Inv ==
  PermissionsInv /\ [PermissionsNext]_gateVars => PermissionsInv'
<1> SUFFICES ASSUME PermissionsInv, [PermissionsNext]_gateVars
             PROVE  PermissionsInv'
  OBVIOUS
<1>1. ASSUME NEW c \in CallSlots, CallStepOf(c)
      PROVE  PermissionsInv'
  BY <1>1, DispatchKeeps, HookKeeps, AnswerArrivesKeeps, DepartureKeeps DEF CallStepOf
<1>2. ASSUME NEW d \in ApprovalKeys, Press(d)
      PROVE  PermissionsInv'
  BY <1>2, PressKeeps
<1>3. CASE SetPermissionMode
  BY <1>3
     DEF SetPermissionMode, PermissionsInv, PermissionsTypeOK, GateInv,
         PromptIsTheWaiters, Waiting, Permitted, Modes
<1>4. CASE UNCHANGED gateVars
  BY <1>4
     DEF gateVars, PermissionsInv, PermissionsTypeOK, GateInv,
         PromptIsTheWaiters, Waiting, Permitted
<1> QED
  BY <1>1, <1>2, <1>3, <1>4 DEF PermissionsNext

LEMMA PermissionsInvHolds == PermissionsSpec => []PermissionsInv
BY PermissionsInit_Inv, PermissionsNext_Inv, PTL DEF PermissionsSpec

\* The variables of the gate keep their types.
THEOREM PermissionsTypeCorrect == PermissionsSpec => []PermissionsTypeOK
<1>1. PermissionsInv => PermissionsTypeOK
  BY DEF PermissionsInv
<1> QED
  BY PermissionsInvHolds, <1>1, PTL

\* A tool runs only with arguments cleared for this very call, none a deny rule
\* matches, and a read-only worker only reads, for any commands, rules and calls
\* in flight (permission/checker.py, agent/tools/base.py).
THEOREM OnlyAllowed == PermissionsSpec => []OnlyAllowedRuns
<1>1. PermissionsInv => OnlyAllowedRuns
  BY DEF PermissionsInv, GateInv, OnlyAllowedRuns, Permitted
<1> QED
  BY PermissionsInvHolds, <1>1, PTL

\* The approval prompt lists exactly the calls that wait for a human, each once,
\* for any number of calls in flight (tui/permission.py).
THEOREM PromptExact == PermissionsSpec => []PromptIsTheWaiters
<1>1. PermissionsInv => PromptIsTheWaiters
  BY DEF PermissionsInv
<1> QED
  BY PermissionsInvHolds, <1>1, PTL
=============================================================================
