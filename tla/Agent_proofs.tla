------------------------------ MODULE Agent_proofs ------------------------------
(***************************************************************************)
(* What agents tell each other and are billed, what a forget promises, and *)
(* where the lines of the chat are, for any number of messages,            *)
(* dispatches, crashes, sessions, processes, lines and tasks:              *)
(* WorkerDelivery, MemoryFacts and ChatApp.                                *)
(***************************************************************************)
EXTENDS WorkerDelivery, MemoryFacts, ChatApp, FiniteSetTheorems, FunctionTheorems,
        WellFoundedInduction, TLAPS

-----------------------------------------------------------------------------
(* Deliveries and bills. *)

LEMMA LeastExists ==
  ASSUME NEW S \in SUBSET Nat, S # {}
  PROVE  \E m \in S : \A k \in S : m <= k
<1>1. PICK m \in S : \A k \in S : ~(<<k, m>> \in OpToRel(<, Nat))
  BY NatLessThanWellFounded, WFMin
<1>2. \A k \in S : ~(k < m)
  BY <1>1 DEF OpToRel
<1> QED
  BY <1>2

\* f holds the sums of the first entries of q, up to the n-th.
SumsTo(q, n, f) ==
  f = [k \in 0 .. n |-> IF k = 0 THEN 0 ELSE f[k - 1] + q[k]]

LEMMA SumsExist ==
  ASSUME NEW q \in Seq(Int), NEW n \in 0 .. Len(q)
  PROVE  \E f \in [0 .. n -> Int] : SumsTo(q, n, f)
<1>. DEFINE Missing == {m \in Nat : m <= Len(q) /\ ~\E f \in [0 .. m -> Int] : SumsTo(q, m, f)}
<1>1. SUFFICES ASSUME Missing # {} PROVE FALSE
  OBVIOUS
<1>2. PICK m \in Missing : \A k \in Missing : m <= k
  BY <1>1, LeastExists
<1>3. m # 0
  <2>1. PICK f : f = [k \in 0 .. 0 |-> 0]
    OBVIOUS
  <2>2. f \in [0 .. 0 -> Int] /\ SumsTo(q, 0, f)
    BY <2>1 DEF SumsTo
  <2>. QED  BY <2>2
<1>4. m \in Nat /\ m - 1 \in Nat /\ m - 1 <= Len(q) /\ m <= Len(q) /\ Len(q) \in Nat
  BY <1>3
<1>5. m - 1 \notin Missing
  <2>1. m - 1 \in Missing => m <= m - 1
    BY <1>2
  <2>2. ~(m <= m - 1)
    BY <1>4
  <2>. QED  BY <2>1, <2>2
<1>6. PICK f \in [0 .. (m - 1) -> Int] : SumsTo(q, m - 1, f)
  BY <1>4, <1>5
<1>7. PICK g : g = [k \in 0 .. m |-> IF k = m THEN f[m - 1] + q[m] ELSE f[k]]
  OBVIOUS
<1>8. g \in [0 .. m -> Int]
  BY <1>3, <1>4, <1>6, <1>7
<1>9. ASSUME NEW k \in 0 .. m PROVE g[k] = IF k = 0 THEN 0 ELSE g[k - 1] + q[k]
  <2>1. CASE k = m
    BY <2>1, <1>3, <1>4, <1>7
  <2>2. CASE k # m
    <3>1. k \in 0 .. (m - 1) /\ g[k] = f[k]
      BY <2>2, <1>4, <1>7
    <3>2. f[k] = IF k = 0 THEN 0 ELSE f[k - 1] + q[k]
      BY <1>6, <3>1 DEF SumsTo
    <3>3. k # 0 => k - 1 \in 0 .. m /\ g[k - 1] = f[k - 1]
      BY <3>1, <1>4, <1>7
    <3>. QED  BY <3>1, <3>2, <3>3
  <2>. QED  BY <2>1, <2>2
<1>10. SumsTo(q, m, g)
  BY <1>7, <1>9 DEF SumsTo
<1>. QED  BY <1>8, <1>10, <1>2

SameUpTo(q, r, n) == \A k \in 1 .. n : q[k] = r[k]

\* The sums of a sequence and of one that goes on agree as far as both go.
LEMMA SumsAgree ==
  ASSUME NEW q, NEW r, NEW n \in Nat, NEW l \in Nat, l <= n, NEW f, NEW g,
         SumsTo(q, l, f), SumsTo(r, n, g), SameUpTo(q, r, l)
  PROVE  \A k \in 0 .. l : f[k] = g[k]
<1>. DEFINE Differ == {m \in Nat : m <= l /\ f[m] # g[m]}
<1>1. SUFFICES ASSUME Differ # {} PROVE FALSE
  OBVIOUS
<1>2. PICK m \in Differ : \A k \in Differ : m <= k
  BY <1>1, LeastExists
<1>3. m \in 0 .. l /\ m \in 0 .. n
  BY <1>2
<1>4. f[m] = IF m = 0 THEN 0 ELSE f[m - 1] + q[m]
  BY <1>3 DEF SumsTo
<1>5. g[m] = IF m = 0 THEN 0 ELSE g[m - 1] + r[m]
  BY <1>3 DEF SumsTo
<1>6. m # 0
  BY <1>2, <1>4, <1>5
<1>7. m - 1 \in Nat /\ m - 1 <= l /\ m - 1 \notin Differ /\ m \in 1 .. l
  BY <1>2, <1>3, <1>6
<1>8. q[m] = r[m] /\ f[m - 1] = g[m - 1]
  BY <1>7 DEF SameUpTo
<1>. QED  BY <1>2, <1>4, <1>5, <1>6, <1>8

LEMMA SumIs ==
  ASSUME NEW q \in Seq(Int), NEW f, SumsTo(q, Len(q), f)
  PROVE  Sum(q) = f[Len(q)] /\ Sum(q) \in Int
<1>. DEFINE n == Len(q)
            u == CHOOSE g : g = [k \in 0 .. n |-> IF k = 0 THEN 0 ELSE g[k - 1] + q[k]]
<1>1. n \in Nat /\ n \in 0 .. n
  OBVIOUS
<1>2. Sum(q) = u[n]
  BY DEF Sum
<1>3. \E g : SumsTo(q, n, g)
  OBVIOUS
<1>4. SumsTo(q, n, u)
  BY <1>3 DEF SumsTo
<1>5. PICK g \in [0 .. n -> Int] : SumsTo(q, n, g)
  BY <1>1, SumsExist
<1>. HIDE DEF u
<1>0. SameUpTo(q, q, n)
  BY DEF SameUpTo
<1>6. u[n] = f[n]
  BY <1>0, <1>1, <1>4, SumsAgree
<1>7. g[n] = f[n]
  BY <1>0, <1>1, <1>5, SumsAgree
<1>. QED  BY <1>1, <1>2, <1>5, <1>6, <1>7

LEMMA SumFacts ==
  /\ Sum(<<>>) = 0
  /\ \A q \in Seq(Int) : Sum(q) \in Int
  /\ \A q \in Seq(Int), c \in Int : Sum(Append(q, c)) = Sum(q) + c
<1>1. Sum(<<>>) = 0
  <2>1. <<>> \in Seq(Int) /\ Len(<<>>) = 0
    OBVIOUS
  <2>2. PICK f \in [0 .. 0 -> Int] : SumsTo(<<>>, 0, f)
    <3>1. PICK q \in Seq(Int) : q = <<>>
      BY <2>1
    <3>2. Len(q) = 0 /\ 0 \in 0 .. Len(q)
      BY <3>1
    <3>. QED  BY <3>1, <3>2, SumsExist
  <2>3. f[0] = 0
    BY <2>2 DEF SumsTo
  <2>. QED  BY <2>1, <2>2, <2>3, SumIs
<1>2. ASSUME NEW q \in Seq(Int) PROVE Sum(q) \in Int
  <2>1. PICK f \in [0 .. Len(q) -> Int] : SumsTo(q, Len(q), f)
    BY SumsExist
  <2>. QED  BY <2>1, SumIs
<1>3. ASSUME NEW q \in Seq(Int), NEW c \in Int PROVE Sum(Append(q, c)) = Sum(q) + c
  <2>1. PICK r : r = Append(q, c)
    OBVIOUS
  <2>2. PICK n : n = Len(q)
    OBVIOUS
  <2>3. /\ r \in Seq(Int) /\ n \in Nat /\ Len(r) = n + 1 /\ r[n + 1] = c
        /\ \A k \in 1 .. n : q[k] = r[k]
    BY <2>1, <2>2
  <2>4. PICK f : SumsTo(q, n, f)
    <3>1. n \in 0 .. Len(q)
      BY <2>2, <2>3
    <3>. QED  BY <3>1, SumsExist
  <2>5. PICK g : SumsTo(r, n + 1, g)
    BY <2>3, SumsExist
  <2>6. \A k \in 0 .. n : f[k] = g[k]
    <3>1. n <= n + 1 /\ n + 1 \in Nat
      BY <2>3
    <3>2. PICK m : m = n + 1
      OBVIOUS
    <3>3. m \in Nat /\ n \in Nat /\ n <= m
      BY <3>1, <3>2, <2>3
    <3>4. SumsTo(q, n, f) /\ SumsTo(r, m, g)
      BY <2>4, <2>5, <3>2
    <3>5. SameUpTo(q, r, n)
      BY <2>3 DEF SameUpTo
    <3>. QED  BY <3>3, <3>4, <3>5, SumsAgree
  <2>7. n + 1 \in 0 .. (n + 1) /\ n + 1 # 0 /\ (n + 1) - 1 = n /\ n \in 0 .. n
    BY <2>3
  <2>8. g[n + 1] = g[(n + 1) - 1] + r[n + 1]
    BY <2>5, <2>7 DEF SumsTo
  <2>9. Sum(q) = f[n] /\ Sum(r) = g[n + 1]
    BY <2>2, <2>3, <2>4, <2>5, SumIs
  <2>. QED  BY <2>1, <2>3, <2>6, <2>7, <2>8, <2>9
<1>. QED  BY <1>1, <1>2, <1>3

Notices == [kind : {"done", "question"}, of : Delegates, n : Nat]
DelegateModes == {"absent", "idle", "running", "ending"}

DeliveryTypeOK ==
  /\ mode \in [Delegates -> DelegateModes]
  /\ dispatch \in [Delegates -> Nat]
  /\ DOMAIN mail = Delegates
  /\ \A w \in Delegates : \A x \in mail[w] : x.kind = "mail" /\ x.of = w
  /\ notes \subseteq Notices
  /\ shown = [a \in Agent |-> shown[a]]
  /\ calling \in [Agent -> {"none", "tool", "lost"} \cup Delegates]
  /\ result \in [Agent -> {NoNote} \cup Notices]
  /\ up \in BOOLEAN

\* A completion that was announced is that of a dispatch that is over.
PastOnly(x) ==
  /\ x.n <= dispatch[x.of]
  /\ Occupied(x.of) => x.n < dispatch[x.of]
Unseen(x) == \A b \in Agent : x \notin shown[b]

NotesInv == \A x \in notes : x.kind = "done" => PastOnly(x)
\* A transcript holds the agent's own mail, and completions that were announced.
ShownInv ==
  \A a \in Agent : \A x \in shown[a] :
    \/ x.kind = "mail" /\ a \in Delegates /\ x.of = a
    \/ x \in Notices /\ (x.kind = "done" => PastOnly(x))
Completion(w, n) == [kind |-> "done", of |-> w, n |-> n]

\* An agent that waits for a child, or is about to record what its wait returned,
\* is the only one that can be told of that child.
CallOK(a) ==
  /\ calling[a] \in Delegates =>
       /\ Supervisor[calling[a]] = a /\ Runs(a)
       /\ Unseen(Completion(calling[a], dispatch[calling[a]]))
  /\ result[a] # NoNote =>
       /\ result[a].kind = "done" /\ Supervisor[result[a].of] = a
       /\ calling[a] = "tool" /\ Runs(a)
       /\ PastOnly(result[a]) /\ Unseen(result[a])
CallInv == \A a \in Agent : CallOK(a)
DeliveryInv == DeliveryTypeOK /\ NotesInv /\ ShownInv /\ CallInv /\ DeliveredOnce

\* Dispatches are only added, and only a dispatch makes a worker active.
DispatchesGrow ==
  \A w \in Delegates :
    /\ dispatch[w] <= dispatch'[w]
    /\ Occupied(w)' => Occupied(w) \/ dispatch[w] < dispatch'[w]

LEMMA PastStays ==
  ASSUME DeliveryTypeOK, DeliveryTypeOK', DispatchesGrow, NEW x \in Notices, PastOnly(x)
  PROVE  PastOnly(x)'
<1>1. x.of \in Delegates /\ x.n \in Nat
  BY DEF Notices
<1>2. dispatch[x.of] \in Nat /\ dispatch'[x.of] \in Nat
  BY <1>1 DEF DeliveryTypeOK
<1>3. x.n <= dispatch[x.of] /\ (Occupied(x.of) => x.n < dispatch[x.of])
  BY DEF PastOnly
<1>4. dispatch[x.of] <= dispatch'[x.of] /\ (Occupied(x.of)' => Occupied(x.of) \/ dispatch[x.of] < dispatch'[x.of])
  BY <1>1 DEF DispatchesGrow
<1>5. x.n <= dispatch'[x.of]
  BY <1>1, <1>2, <1>3, <1>4
<1>6. Occupied(x.of)' => x.n < dispatch'[x.of]
  BY <1>1, <1>2, <1>3, <1>4
<1>. QED  BY <1>5, <1>6 DEF PastOnly

LEMMA GrowWhenCalm ==
  ASSUME DeliveryTypeOK, dispatch' = dispatch, \A w \in Delegates : Occupied(w)' => Occupied(w)
  PROVE  DispatchesGrow
BY DEF DispatchesGrow, DeliveryTypeOK

LEMMA GrowWhenRun ==
  ASSUME DeliveryTypeOK, NEW w \in Delegates, dispatch' = [dispatch EXCEPT ![w] = @ + 1],
         mode' = [mode EXCEPT ![w] = "running"]
  PROVE  DispatchesGrow
BY DEF DispatchesGrow, DeliveryTypeOK, Occupied

\* What a step adds to the transcripts that is not of the children of b.
NotOf(b) ==
  \A c \in Agent : \A x \in shown'[c] : x \in shown[c] \/ x.kind # "done" \/ Supervisor[x.of] # b

LEMMA UnseenStays ==
  ASSUME NEW b, NotOf(b), NEW x, x.kind = "done", Supervisor[x.of] = b, Unseen(x)
  PROVE  Unseen(x)'
BY DEF NotOf, Unseen

LEMMA NewUnseen ==
  ASSUME DeliveryInv, NEW w \in Delegates, NEW n \in Nat, dispatch[w] < n
  PROVE  Unseen(Completion(w, n))
<1>. SUFFICES ASSUME NEW b \in Agent, Completion(w, n) \in shown[b] PROVE FALSE
  BY DEF Unseen
<1>1. PastOnly(Completion(w, n))
  BY DEF DeliveryInv, ShownInv, Completion
<1>2. n <= dispatch[w] /\ dispatch[w] \in Nat
  BY <1>1 DEF PastOnly, Completion, DeliveryInv, DeliveryTypeOK
<1>. QED  BY <1>2

LEMMA CallStays ==
  ASSUME DeliveryInv, DeliveryTypeOK', DispatchesGrow, NEW b \in Agent,
         calling'[b] = calling[b], result'[b] = result[b], Runs(b) => Runs(b)',
         Runs(b) /\ calling[b] # "none" => NotOf(b)
  PROVE  CallOK(b)'
<1>1. CallOK(b) /\ DeliveryTypeOK
  BY DEF DeliveryInv, CallInv
<1>2. ASSUME calling[b] \in Delegates
      PROVE  Supervisor[calling[b]] = b /\ Runs(b)' /\ Unseen(Completion(calling[b], dispatch[calling[b]]))'
  <2>1. PICK w \in Delegates : w = calling[b] /\ w = calling'[b]
    BY <1>2
  <2>2. Supervisor[w] = b /\ Runs(b) /\ Unseen(Completion(w, dispatch[w]))
    BY <1>1, <2>1 DEF CallOK
  <2>3. w # "none"
    BY DEF Delegates
  <2>4. NotOf(b)
    BY <2>1, <2>2, <2>3
  <2>5. PICK n \in Nat : n = dispatch'[w]
    BY DEF DeliveryTypeOK
  <2>6. dispatch[w] \in Nat /\ dispatch[w] <= n
    BY <1>1, <2>5 DEF DeliveryTypeOK, DispatchesGrow
  <2>7. dispatch[w] = n \/ dispatch[w] < n
    BY <2>5, <2>6
  <2>8. Unseen(Completion(w, n))
    BY <2>2, <2>7, NewUnseen
  <2>9. PICK x : x = Completion(w, n)
    OBVIOUS
  <2>10. x.kind = "done" /\ Supervisor[x.of] = b /\ Unseen(x)
    BY <2>2, <2>8, <2>9 DEF Completion
  <2>11. Unseen(x)'
    BY <2>4, <2>10, UnseenStays
  <2>12. Unseen(Completion(w, n))'
    BY <2>9, <2>11
  <2>. QED  BY <2>1, <2>2, <2>5, <2>12
<1>3. ASSUME result[b] # NoNote
      PROVE  /\ result[b].kind = "done" /\ Supervisor[result[b].of] = b
             /\ calling[b] = "tool" /\ Runs(b)' /\ PastOnly(result[b])' /\ Unseen(result[b])'
  <2>1. PICK x : x = result[b] /\ x = result'[b]
    OBVIOUS
  <2>2. x.kind = "done" /\ Supervisor[x.of] = b /\ calling[b] = "tool" /\ Runs(b) /\ PastOnly(x) /\ Unseen(x)
    BY <1>1, <1>3, <2>1 DEF CallOK
  <2>3. x \in Notices
    BY <1>1, <1>3, <2>1 DEF DeliveryTypeOK
  <2>4. Unseen(x)'
    BY <2>2, UnseenStays
  <2>5. PastOnly(x)'
    BY <1>1, <2>2, <2>3, PastStays
  <2>. QED  BY <2>1, <2>2, <2>4, <2>5 DEF Unseen, PastOnly
<1>. QED  BY <1>2, <1>3 DEF CallOK

\* A step that writes no transcript.
LEMMA DeliverySilent ==
  ASSUME DeliveryInv, DeliveryTypeOK', DispatchesGrow, shown' = shown, repeated' = repeated,
         \A x \in notes' : x \in notes \/ (x.kind = "done" => PastOnly(x)'), CallInv'
  PROVE  DeliveryInv'
<1>1. DeliveryTypeOK /\ NotesInv /\ ShownInv /\ DeliveredOnce
  BY DEF DeliveryInv
<1>2. NotesInv'
  <2>. SUFFICES ASSUME NEW x \in notes', x.kind = "done" PROVE PastOnly(x)'
    BY DEF NotesInv
  <2>1. CASE x \in notes
    BY <1>1, <2>1, PastStays DEF NotesInv, DeliveryTypeOK
  <2>. QED  BY <2>1
<1>3. ShownInv'
  BY <1>1, PastStays DEF ShownInv
<1>4. DeliveredOnce'
  BY <1>1 DEF DeliveredOnce
<1>. QED  BY <1>2, <1>3, <1>4 DEF DeliveryInv

\* What may be appended to the transcript of a.
MayShow(a, x) ==
  \/ x.kind = "mail" /\ a \in Delegates /\ x.of = a /\ x \notin shown[a]
  \/ x \in Notices /\ x.kind = "question"
  \/ x \in Notices /\ x.kind = "done" /\ PastOnly(x) /\ Unseen(x)

LEMMA DeliveryShows ==
  ASSUME DeliveryInv, DeliveryTypeOK', DispatchesGrow, NEW a \in Agent, NEW items,
         Show(a, items), \A x \in items : MayShow(a, x),
         notes' = notes, CallInv'
  PROVE  DeliveryInv'
<1>1. DeliveryTypeOK /\ NotesInv /\ ShownInv /\ DeliveredOnce
  BY DEF DeliveryInv
<1>2. NotesInv'
  BY <1>1, PastStays DEF NotesInv, DeliveryTypeOK
<1>3. /\ shown' = [shown EXCEPT ![a] = @ \cup items]
      /\ repeated' = repeated \cup {x \in items : x.kind # "question" /\ x \in ShownAnywhere}
      /\ DOMAIN shown = Agent
  BY <1>1 DEF Show, DeliveryTypeOK
<1>4. ShownInv'
  <2>. SUFFICES ASSUME NEW b \in Agent, NEW x \in shown'[b]
                PROVE  \/ x.kind = "mail" /\ b \in Delegates /\ x.of = b
                       \/ x \in Notices /\ (x.kind = "done" => PastOnly(x)')
    BY DEF ShownInv
  <2>1. CASE x \in shown[b]
    BY <2>1, <1>1, PastStays DEF ShownInv
  <2>2. CASE x \notin shown[b]
    <3>1. b = a /\ x \in items
      BY <2>2, <1>3
    <3>2. MayShow(a, x)
      BY <3>1
    <3>3. CASE x.kind = "mail"
      BY <3>1, <3>2, <3>3 DEF MayShow
    <3>4. CASE x.kind = "question" /\ x \in Notices
      BY <3>4
    <3>5. CASE x.kind = "done" /\ x \in Notices /\ PastOnly(x)
      BY <3>5, <1>1, PastStays
    <3>. QED  BY <3>2, <3>3, <3>4, <3>5 DEF MayShow
  <2>. QED  BY <2>1, <2>2
<1>5. ASSUME NEW x \in items, x.kind # "question" PROVE x \notin ShownAnywhere
  <2>1. CASE x.kind = "mail" /\ a \in Delegates /\ x.of = a /\ x \notin shown[a]
    <3>1. ASSUME NEW b \in Agent, x \in shown[b] PROVE FALSE
      BY <2>1, <3>1, <1>1 DEF ShownInv, Notices
    <3>. QED  BY <3>1 DEF ShownAnywhere
  <2>2. CASE Unseen(x)
    BY <2>2 DEF Unseen, ShownAnywhere
  <2>. QED  BY <1>5, <2>1, <2>2 DEF MayShow
<1>6. DeliveredOnce'
  BY <1>1, <1>3, <1>5 DEF DeliveredOnce
<1>. QED  BY <1>2, <1>4, <1>6 DEF DeliveryInv

LEMMA BranchFacts ==
  /\ Agent = {"main"} \cup Delegates /\ Delegates = {"lead", "hand"}
  /\ Supervisor["lead"] = "main" /\ Supervisor["hand"] = "lead"
  /\ \A w \in Delegates : Supervisor[w] \in Agent /\ Supervisor[w] # w
  /\ NoNote.kind = "none"
BY DEF Agent, Delegates, Supervisor, NoNote

\* The result of a wait, as what PersistResult or EndRun may record.
LEMMA ResultFresh ==
  ASSUME DeliveryInv, NEW a \in Agent, result[a] # NoNote
  PROVE  /\ MayShow(a, result[a]) /\ result[a].kind = "done" /\ Supervisor[result[a].of] = a
BY DEF DeliveryInv, CallInv, CallOK, MayShow, DeliveryTypeOK

LEMMA PendingFresh ==
  ASSUME DeliveryInv, NEW a \in Agent, Runs(a), calling[a] = "none", NEW x \in PendingFor(a)
  PROVE  /\ MayShow(a, x)
         /\ \A b \in Agent : Runs(b) /\ b # a => x.kind # "done" \/ Supervisor[x.of] # b
<1>1. DeliveryTypeOK /\ NotesInv
  BY DEF DeliveryInv
<1>2. CASE a # "main" /\ x \in mail[a] \ shown[a]
  BY <1>1, <1>2, BranchFacts DEF MayShow, DeliveryTypeOK
<1>3. CASE x \in PendingNotes(a)
  <2>1. x \in Notices /\ Recipient(x) = a /\ (x.kind # "question" => x \notin ShownAnywhere)
    BY <1>1, <1>3 DEF PendingNotes, DeliveryTypeOK
  <2>2. x.kind = "done" => PastOnly(x) /\ Unseen(x)
    BY <1>1, <1>3, <2>1 DEF NotesInv, Unseen, ShownAnywhere, PendingNotes
  <2>3. MayShow(a, x)
    BY <2>1, <2>2 DEF MayShow, Notices
  <2>4. ASSUME NEW b \in Agent, Runs(b), Supervisor[x.of] = b PROVE a = b
    BY <2>1, <2>4, BranchFacts DEF Recipient, Runs, Occupied
  <2>. QED  BY <2>3, <2>4
<1>. QED  BY <1>2, <1>3 DEF PendingFor

LEMMA NoneShown ==
  ASSUME shown' = shown
  PROVE  \A b \in Agent : NotOf(b)
BY DEF NotOf

LEMMA DelegateKeeps ==
  ASSUME DeliveryInv, NEW a \in Agent, NEW foreground \in BOOLEAN, Delegate(a, foreground)
  PROVE  DeliveryInv'
<1>1. PICK w \in Delegates :
       /\ Supervisor[w] = a /\ mode[w] = "absent" /\ Run(w) /\ Mail(w)
       /\ calling' = [calling EXCEPT ![a] = IF foreground THEN w ELSE "none"]
  BY DEF Delegate
<1>2. /\ Runs(a) /\ calling[a] = "none" /\ notes' = notes /\ shown' = shown /\ repeated' = repeated
      /\ result' = result /\ up' = up
  BY DEF Delegate
<1>3. DeliveryTypeOK
  BY DEF DeliveryInv
<1>4. dispatch' = [dispatch EXCEPT ![w] = @ + 1] /\ mode' = [mode EXCEPT ![w] = "running"]
  BY <1>1 DEF Run
<1>5. \A v \in Delegates : \A x \in mail'[v] : x.kind = "mail" /\ x.of = v
  BY <1>1, <1>3 DEF Mail, DeliveryTypeOK
<1>6. DeliveryTypeOK'
  BY <1>1, <1>2, <1>3, <1>4, <1>5 DEF Mail, DeliveryTypeOK, DelegateModes
<1>7. DispatchesGrow
  BY <1>3, <1>4 DEF DispatchesGrow, DeliveryTypeOK, Occupied
<1>8. \A b \in Agent : Runs(b) => Runs(b)'
  BY <1>1, <1>2, <1>3, <1>4 DEF Runs, DeliveryTypeOK
<1>9. ASSUME NEW b \in Agent, b # a PROVE CallOK(b)'
  <2>1. calling'[b] = calling[b] /\ result'[b] = result[b]
    BY <1>1, <1>2, <1>3, <1>9 DEF DeliveryTypeOK
  <2>. QED  BY <1>2, <1>6, <1>7, <1>8, <2>1, NoneShown, CallStays
<1>10. CallOK(a)'
  <2>1. result[a] = NoNote
    BY <1>2 DEF DeliveryInv, CallInv, CallOK
  <2>2. calling'[a] = w \/ calling'[a] = "none"
    BY <1>1, <1>3 DEF DeliveryTypeOK
  <2>3. PICK n \in Nat : n = dispatch'[w]
    BY <1>6 DEF DeliveryTypeOK
  <2>4. dispatch[w] < n
    BY <1>3, <1>4, <2>3 DEF DeliveryTypeOK
  <2>5. Unseen(Completion(w, n))
    BY <2>4, NewUnseen
  <2>6. Unseen(Completion(w, n))'
    BY <1>2, <2>5 DEF Unseen
  <2>7. Runs(a)' /\ "none" \notin Delegates
    BY <1>2, <1>8 DEF Delegates
  <2>. QED  BY <1>1, <1>2, <2>1, <2>2, <2>3, <2>6, <2>7 DEF CallOK
<1>11. CallInv'
  BY <1>9, <1>10 DEF CallInv
<1>. QED  BY <1>2, <1>6, <1>7, <1>11, DeliverySilent

\* Steps that leave what the agents are calling alone.
LEMMA CallsStay ==
  ASSUME DeliveryInv, DeliveryTypeOK', DispatchesGrow, calling' = calling, result' = result, shown' = shown,
         \A b \in Agent : Runs(b) => Runs(b)'
  PROVE  CallInv'
BY NoneShown, CallStays DEF CallInv

LEMMA SendMailKeeps ==
  ASSUME DeliveryInv, NEW w \in Delegates, SendMail(w)
  PROVE  DeliveryInv'
<1>1. /\ notes' = notes /\ shown' = shown /\ repeated' = repeated /\ calling' = calling
      /\ result' = result /\ up' = up /\ Mail(w)
      /\ IF mode[w] = "idle" THEN Run(w) ELSE UNCHANGED <<mode, dispatch>>
  BY DEF SendMail
<1>2. DeliveryTypeOK
  BY DEF DeliveryInv
<1>3. \/ mode' = mode /\ dispatch' = dispatch
      \/ dispatch' = [dispatch EXCEPT ![w] = @ + 1] /\ mode' = [mode EXCEPT ![w] = "running"]
  BY <1>1 DEF Run
<1>4. \A v \in Delegates : \A x \in mail'[v] : x.kind = "mail" /\ x.of = v
  BY <1>1, <1>2 DEF Mail, DeliveryTypeOK
<1>5. DeliveryTypeOK'
  BY <1>1, <1>2, <1>3, <1>4 DEF Mail, DeliveryTypeOK, DelegateModes
<1>6. DispatchesGrow
  BY <1>2, <1>3 DEF DispatchesGrow, DeliveryTypeOK, Occupied
<1>7. \A b \in Agent : Runs(b) => Runs(b)'
  BY <1>1, <1>2, <1>3 DEF Runs, DeliveryTypeOK
<1>8. CallInv'
  BY <1>1, <1>5, <1>6, <1>7, CallsStay
<1>. QED  BY <1>1, <1>5, <1>6, <1>8, DeliverySilent

LEMMA BillKeeps ==
  ASSUME DeliveryInv, NEW w \in Delegates, Bill(w)
  PROVE  DeliveryInv'
<1>1. /\ mode' = mode /\ dispatch' = dispatch /\ mail' = mail /\ notes' = notes /\ shown' = shown
      /\ repeated' = repeated /\ calling' = calling /\ result' = result /\ up' = up
  BY DEF Bill, told, deliveryBounds
<1>2. DeliveryTypeOK' /\ DispatchesGrow
  BY <1>1 DEF DeliveryInv, DeliveryTypeOK, DispatchesGrow, Occupied
<1>3. CallInv'
  BY <1>1, <1>2, CallsStay DEF Runs
<1>. QED  BY <1>1, <1>2, <1>3, DeliverySilent

LEMMA NoteCompletionKeeps ==
  ASSUME DeliveryInv, NEW w \in Delegates, NoteCompletion(w)
  PROVE  DeliveryInv'
<1>1. /\ dispatch' = dispatch /\ mail' = mail /\ shown' = shown
      /\ repeated' = repeated /\ calling' = calling /\ result' = result /\ up' = up
      /\ notes' = notes \cup {Completion(w, dispatch[w])} /\ mode' = [mode EXCEPT ![w] = "idle"]
      /\ mode[w] = "ending"
  BY DEF NoteCompletion, deliveryBounds, Completion
<1>2. DeliveryTypeOK
  BY DEF DeliveryInv
<1>3. Completion(w, dispatch[w]) \in Notices
  BY <1>2 DEF Completion, Notices, DeliveryTypeOK
<1>4. DeliveryTypeOK' /\ DispatchesGrow
  BY <1>1, <1>2, <1>3 DEF DeliveryTypeOK, DispatchesGrow, Occupied, DelegateModes
<1>5. \A b \in Agent : Runs(b) => Runs(b)'
  BY <1>1, <1>2 DEF Runs, DeliveryTypeOK
<1>6. CallInv'
  BY <1>1, <1>4, <1>5, CallsStay
<1>7. ASSUME NEW x \in notes', x \notin notes PROVE PastOnly(x)'
  BY <1>1, <1>2, <1>7 DEF PastOnly, Completion, Occupied, DeliveryTypeOK
<1>. QED  BY <1>1, <1>4, <1>6, <1>7, DeliverySilent

LEMMA CallSettled ==
  ASSUME NEW b \in Agent, result'[b] = NoNote, calling'[b] \notin Delegates
  PROVE  CallOK(b)'
BY DEF CallOK

LEMMA ResumeKeeps ==
  ASSUME DeliveryInv, NEW w \in Delegates, ResumeDelegate(w)
  PROVE  DeliveryInv'
<1>1. /\ mail' = mail /\ notes' = notes /\ shown' = shown /\ repeated' = repeated /\ up' = up
      /\ calling' = [calling EXCEPT ![w] = "none"] /\ result' = [result EXCEPT ![w] = NoNote]
      /\ dispatch' = [dispatch EXCEPT ![w] = @ + 1] /\ mode' = [mode EXCEPT ![w] = "running"]
  BY DEF ResumeDelegate, Run, told, deliveryBounds
<1>2. DeliveryTypeOK
  BY DEF DeliveryInv
<1>0. w \in Agent
  BY BranchFacts
<1>3. DeliveryTypeOK'
  <2>1. mode' \in [Delegates -> DelegateModes] /\ dispatch' \in [Delegates -> Nat]
    BY <1>1, <1>2 DEF DeliveryTypeOK, DelegateModes
  <2>2. calling' \in [Agent -> {"none", "tool", "lost"} \cup Delegates] /\ result' \in [Agent -> {NoNote} \cup Notices]
    BY <1>0, <1>1, <1>2 DEF DeliveryTypeOK
  <2>. QED  BY <2>1, <2>2, <1>1, <1>2 DEF DeliveryTypeOK
<1>4. DispatchesGrow
  BY <1>1, <1>2, GrowWhenRun
<1>5. \A b \in Agent : Runs(b) => Runs(b)'
  BY <1>1, <1>2 DEF Runs, DeliveryTypeOK
<1>6. w \in Agent /\ "none" \notin Delegates
  BY BranchFacts
<1>7. ASSUME NEW b \in Agent PROVE CallOK(b)'
  <2>1. CASE b = w
    BY <2>1, <1>1, <1>2, <1>6, CallSettled DEF DeliveryTypeOK
  <2>2. CASE b # w
    BY <2>2, <1>1, <1>2, <1>3, <1>4, <1>5, NoneShown, CallStays DEF DeliveryTypeOK
  <2>. QED  BY <2>1, <2>2
<1>8. CallInv'
  BY <1>7 DEF CallInv
<1>. QED  BY <1>1, <1>3, <1>4, <1>8, DeliverySilent

LEMMA RepairMainKeeps ==
  ASSUME DeliveryInv, RepairMain
  PROVE  DeliveryInv'
<1>1. /\ mode' = mode /\ dispatch' = dispatch /\ mail' = mail /\ notes' = notes /\ shown' = shown
      /\ repeated' = repeated /\ up' = up /\ result' = result
      /\ calling' = [calling EXCEPT !["main"] = "none"] /\ calling["main"] = "lost"
  BY DEF RepairMain, told, deliveryBounds
<1>2. DeliveryTypeOK
  BY DEF DeliveryInv
<1>3. DeliveryTypeOK' /\ DispatchesGrow
  <2>1. calling' \in [Agent -> {"none", "tool", "lost"} \cup Delegates]
    BY <1>1, <1>2 DEF DeliveryTypeOK
  <2>2. DeliveryTypeOK'
    BY <2>1, <1>1, <1>2 DEF DeliveryTypeOK
  <2>. QED  BY <2>2, <1>1, <1>2, GrowWhenCalm DEF Occupied
<1>4. "main" \in Agent /\ "none" \notin Delegates
  BY BranchFacts
<1>5. result["main"] = NoNote
  BY <1>1, <1>4 DEF DeliveryInv, CallInv, CallOK
<1>6. ASSUME NEW b \in Agent PROVE CallOK(b)'
  <2>1. CASE b = "main"
    BY <2>1, <1>1, <1>2, <1>4, <1>5, CallSettled DEF DeliveryTypeOK
  <2>2. CASE b # "main"
    BY <2>2, <1>1, <1>2, <1>3, NoneShown, CallStays DEF DeliveryTypeOK, Runs
  <2>. QED  BY <2>1, <2>2
<1>7. CallInv'
  BY <1>6 DEF CallInv
<1>. QED  BY <1>1, <1>3, <1>7, DeliverySilent

LEMMA AskParentKeeps ==
  ASSUME DeliveryInv, NEW w \in Delegates, AskParent(w)
  PROVE  DeliveryInv'
<1>1. /\ mode' = mode /\ dispatch' = dispatch /\ mail' = mail /\ shown' = shown
      /\ repeated' = repeated /\ up' = up /\ result' = result
      /\ calling' = [calling EXCEPT ![w] = "tool"] /\ calling[w] = "none"
      /\ notes' = notes \cup {[kind |-> "question", of |-> w, n |-> dispatch[w]]}
  BY DEF AskParent, deliveryBounds
<1>2. DeliveryTypeOK
  BY DEF DeliveryInv
<1>3. [kind |-> "question", of |-> w, n |-> dispatch[w]] \in Notices
  BY <1>2 DEF Notices, DeliveryTypeOK
<1>4. DeliveryTypeOK' /\ DispatchesGrow
  <2>1. calling' \in [Agent -> {"none", "tool", "lost"} \cup Delegates]
    BY <1>1, <1>2 DEF DeliveryTypeOK
  <2>2. DeliveryTypeOK'
    BY <2>1, <1>1, <1>2, <1>3 DEF DeliveryTypeOK
  <2>. QED  BY <2>2, <1>1, <1>2, GrowWhenCalm DEF Occupied
<1>5. w \in Agent /\ "tool" \notin Delegates
  BY BranchFacts
<1>6. result[w] = NoNote
  BY <1>1, <1>5 DEF DeliveryInv, CallInv, CallOK
<1>7. ASSUME NEW b \in Agent PROVE CallOK(b)'
  <2>1. CASE b = w
    BY <2>1, <1>1, <1>2, <1>5, <1>6, CallSettled DEF DeliveryTypeOK
  <2>2. CASE b # w
    BY <2>2, <1>1, <1>2, <1>4, NoneShown, CallStays DEF DeliveryTypeOK, Runs
  <2>. QED  BY <2>1, <2>2
<1>8. CallInv'
  BY <1>7 DEF CallInv
<1>9. \A x \in notes' : x \in notes \/ x.kind # "done"
  BY <1>1
<1>. QED  BY <1>1, <1>4, <1>8, <1>9, DeliverySilent

LEMMA WaitReturnsKeeps ==
  ASSUME DeliveryInv, NEW a \in Agent, WaitReturns(a)
  PROVE  DeliveryInv'
<1>1. /\ mode' = mode /\ dispatch' = dispatch /\ mail' = mail /\ notes' = notes /\ shown' = shown
      /\ repeated' = repeated /\ up' = up /\ calling' = [calling EXCEPT ![a] = "tool"]
      /\ calling[a] \in Delegates /\ Runs(a)
  BY DEF WaitReturns, told, deliveryBounds
<1>2. PICK w \in Delegates : w = calling[a]
  BY <1>1
<1>3. PICK note : note = Completion(w, dispatch[w])
  OBVIOUS
<1>4. result' = result \/ (~Occupied(w) /\ result' = [result EXCEPT ![a] = note])
  BY <1>2, <1>3 DEF WaitReturns, Completion
<1>5. DeliveryTypeOK
  BY DEF DeliveryInv
<1>6. note \in Notices /\ note.kind = "done" /\ note.of = w /\ note.n = dispatch[w]
  BY <1>3, <1>5 DEF Completion, Notices, DeliveryTypeOK
<1>7. DeliveryTypeOK' /\ DispatchesGrow
  BY <1>1, <1>4, <1>5, <1>6 DEF DeliveryTypeOK, DispatchesGrow, Occupied
<1>8. Supervisor[w] = a /\ Unseen(note) /\ result[a] = NoNote
  BY <1>1, <1>2, <1>3 DEF DeliveryInv, CallInv, CallOK, Delegates
<1>9. Unseen(note)' /\ Runs(a)'
  BY <1>1, <1>8 DEF Unseen, Runs
<1>10. ~Occupied(w) => PastOnly(note)'
  BY <1>1, <1>5, <1>6 DEF PastOnly, Occupied, DeliveryTypeOK
<1>11. "tool" \notin Delegates
  BY BranchFacts
<1>12. ASSUME NEW b \in Agent PROVE CallOK(b)'
  <2>1. CASE b = a /\ result' = result
    BY <2>1, <1>1, <1>5, <1>8, <1>11, CallSettled DEF DeliveryTypeOK
  <2>2. CASE b = a /\ ~Occupied(w) /\ result' = [result EXCEPT ![a] = note]
    <3>1. result'[a] = note /\ calling'[a] = "tool"
      BY <2>2, <1>1, <1>5 DEF DeliveryTypeOK
    <3>2. PastOnly(result[a])' /\ Unseen(result[a])'
      BY <3>1, <2>2, <1>9, <1>10 DEF PastOnly, Unseen
    <3>. QED  BY <2>2, <3>1, <3>2, <1>6, <1>8, <1>9, <1>11 DEF CallOK
  <2>3. CASE b # a
    BY <2>3, <1>1, <1>4, <1>5, <1>7, NoneShown, CallStays DEF DeliveryTypeOK, Runs
  <2>. QED  BY <2>1, <2>2, <2>3, <1>4
<1>13. CallInv'
  BY <1>12 DEF CallInv
<1>. QED  BY <1>1, <1>7, <1>13, DeliverySilent

LEMMA StopsKeeps ==
  ASSUME DeliveryInv, ProcessStops
  PROVE  DeliveryInv'
<1>1. /\ mode' = mode /\ dispatch' = dispatch /\ mail' = mail /\ notes' = notes /\ shown' = shown
      /\ repeated' = repeated /\ up' = FALSE /\ result' = [a \in Agent |-> NoNote]
      /\ calling' = [a \in Agent |-> IF calling[a] = "none" THEN "none" ELSE "lost"]
  BY DEF ProcessStops, Die
<1>0. DeliveryTypeOK
  BY DEF DeliveryInv
<1>2. DeliveryTypeOK' /\ DispatchesGrow
  <2>1. /\ calling' \in [Agent -> {"none", "tool", "lost"} \cup Delegates]
        /\ result' \in [Agent -> {NoNote} \cup Notices]
    BY <1>1
  <2>2. DeliveryTypeOK'
    BY <2>1, <1>0, <1>1 DEF DeliveryTypeOK
  <2>. QED  BY <2>2, <1>0, <1>1, GrowWhenCalm DEF Occupied
<1>3. CallInv'
  BY <1>1, CallSettled DEF CallInv, Delegates
<1>. QED  BY <1>1, <1>2, <1>3, DeliverySilent

LEMMA LoadKeeps ==
  ASSUME DeliveryInv, Load
  PROVE  DeliveryInv'
<1>1. /\ dispatch' = dispatch /\ mail' = mail /\ notes' = notes /\ shown' = shown /\ repeated' = repeated
      /\ ~up /\ up' = TRUE /\ result' = result /\ calling' = calling
      /\ mode' = [w \in Delegates |-> IF mode[w] = "absent" THEN "absent" ELSE "idle"]
  BY DEF Load, told
<1>2. DeliveryTypeOK' /\ DispatchesGrow
  BY <1>1 DEF DeliveryInv, DeliveryTypeOK, DispatchesGrow, Occupied, DelegateModes
<1>3. \A b \in Agent : Runs(b) => Runs(b)'
  BY <1>1 DEF Runs
<1>4. CallInv'
  BY <1>1, <1>2, <1>3, CallsStay
<1>. QED  BY <1>1, <1>2, <1>4, DeliverySilent

\* The four steps that write a transcript.
LEMMA ShowTypes ==
  ASSUME DeliveryTypeOK, NEW a \in Agent, NEW items, Show(a, items), dispatch' = dispatch,
         mail' = mail, notes' = notes,
         mode' \in [Delegates -> DelegateModes],
         calling' \in [Agent -> {"none", "tool", "lost"} \cup Delegates],
         result' \in [Agent -> {NoNote} \cup Notices], up' \in BOOLEAN,
         \A w \in Delegates : mode'[w] = mode[w] \/ (mode[w] = "running" /\ mode'[w] = "ending")
  PROVE  DeliveryTypeOK' /\ DispatchesGrow
<1>1. shown' = [c \in Agent |-> shown'[c]]
  BY DEF Show, DeliveryTypeOK
<1>2. DeliveryTypeOK'
  BY <1>1 DEF DeliveryTypeOK
<1>3. DispatchesGrow
  BY DEF DispatchesGrow, Occupied, DeliveryTypeOK
<1>. QED  BY <1>2, <1>3

LEMMA PersistKeeps ==
  ASSUME DeliveryInv, NEW a \in Agent, PersistResult(a)
  PROVE  DeliveryInv'
<1>1. /\ mode' = mode /\ dispatch' = dispatch /\ mail' = mail /\ notes' = notes /\ up' = up
      /\ calling' = [calling EXCEPT ![a] = "none"] /\ result' = [result EXCEPT ![a] = NoNote]
      /\ Show(a, {result[a]} \ {NoNote})
  BY DEF PersistResult, deliveryBounds
<1>2. DeliveryTypeOK
  BY DEF DeliveryInv
<1>3. DeliveryTypeOK' /\ DispatchesGrow
  BY <1>1, <1>2, ShowTypes DEF DeliveryTypeOK
<1>4. \A x \in {result[a]} \ {NoNote} : MayShow(a, x) /\ x.kind = "done" /\ Supervisor[x.of] = a
  BY ResultFresh
<1>5. ASSUME NEW b \in Agent PROVE CallOK(b)'
  <2>1. CASE b = a
    BY <2>1, <1>1, <1>2, CallSettled, BranchFacts DEF DeliveryTypeOK
  <2>2. CASE b # a
    <3>1. NotOf(b)
      BY <2>2, <1>1, <1>2, <1>4 DEF NotOf, Show, DeliveryTypeOK
    <3>. QED  BY <2>2, <3>1, <1>1, <1>2, <1>3, CallStays DEF DeliveryTypeOK, Runs
  <2>. QED  BY <2>1, <2>2
<1>6. CallInv'
  BY <1>5 DEF CallInv
<1>. QED  BY <1>1, <1>3, <1>4, <1>6, DeliveryShows

LEMMA ConsumeKeeps ==
  ASSUME DeliveryInv, NEW a \in Agent, Consume(a)
  PROVE  DeliveryInv'
<1>1. /\ mode' = mode /\ dispatch' = dispatch /\ mail' = mail /\ notes' = notes /\ up' = up
      /\ calling' = calling /\ result' = result
      /\ Show(a, PendingFor(a)) /\ Runs(a) /\ calling[a] = "none"
  BY DEF Consume, deliveryBounds
<1>2. DeliveryTypeOK
  BY DEF DeliveryInv
<1>3. DeliveryTypeOK' /\ DispatchesGrow
  BY <1>1, <1>2, ShowTypes DEF DeliveryTypeOK
<1>4. \A x \in PendingFor(a) : MayShow(a, x)
  BY <1>1, PendingFresh
<1>5. ASSUME NEW b \in Agent PROVE CallOK(b)'
  <2>1. Runs(b) /\ calling[b] # "none" => NotOf(b)
    BY <1>1, <1>2, PendingFresh DEF NotOf, Show, DeliveryTypeOK
  <2>. QED  BY <2>1, <1>1, <1>3, CallStays DEF Runs
<1>6. CallInv'
  BY <1>5 DEF CallInv
<1>. QED  BY <1>1, <1>3, <1>4, <1>6, DeliveryShows

LEMMA DiesInConsumeKeeps ==
  ASSUME DeliveryInv, NEW a \in Agent, DiesInConsume(a)
  PROVE  DeliveryInv'
<1>1. /\ mode' = mode /\ dispatch' = dispatch /\ mail' = mail /\ notes' = notes /\ up' = FALSE
      /\ result' = [b \in Agent |-> NoNote]
      /\ calling' = [b \in Agent |-> IF calling[b] = "none" THEN "none" ELSE "lost"]
      /\ Runs(a) /\ calling[a] = "none"
  BY DEF DiesInConsume, Die
<1>2. PICK part \in SUBSET PendingFor(a) : Show(a, part)
  BY DEF DiesInConsume
<1>3. DeliveryTypeOK
  BY DEF DeliveryInv
<1>4. DeliveryTypeOK' /\ DispatchesGrow
  <2>1. calling' \in [Agent -> {"none", "tool", "lost"} \cup Delegates] /\ result' \in [Agent -> {NoNote} \cup Notices]
    BY <1>1
  <2>. QED  BY <2>1, <1>1, <1>2, <1>3, ShowTypes DEF DeliveryTypeOK
<1>5. \A x \in part : MayShow(a, x)
  BY <1>1, PendingFresh
<1>6. CallInv'
  BY <1>1, CallSettled DEF CallInv, Delegates
<1>. QED  BY <1>1, <1>2, <1>4, <1>5, <1>6, DeliveryShows

LEMMA EndRunKeeps ==
  ASSUME DeliveryInv, NEW w \in Delegates, EndRun(w)
  PROVE  DeliveryInv'
<1>1. /\ dispatch' = dispatch /\ mail' = mail /\ notes' = notes /\ up' = up
      /\ mode' = [mode EXCEPT ![w] = "ending"] /\ Runs(w)
      /\ calling' = [calling EXCEPT ![w] = "none"] /\ result' = [result EXCEPT ![w] = NoNote]
  BY DEF EndRun, deliveryBounds
<1>2. DeliveryTypeOK
  BY DEF DeliveryInv
<1>3. w \in Agent /\ w # "main" /\ "none" \notin Delegates
  BY BranchFacts DEF Delegates
<1>4. mode[w] = "running"
  BY <1>1, <1>3 DEF Runs
<1>5. PICK items : /\ items \subseteq {result[w]} \ {NoNote}
                   /\ Show(w, items)
  <2>1. CASE UNCHANGED <<shown, repeated>>
    <3>1. PICK z : z = {}
      OBVIOUS
    <3>2. shown[w] \cup z = shown[w]
      BY <3>1
    <3>3. shown = [a \in Agent |-> shown[a]]
      BY <1>2 DEF DeliveryTypeOK
    <3>4. shown' = [shown EXCEPT ![w] = @ \cup z]
      BY <2>1, <3>2, <3>3
    <3>5. repeated' = repeated \cup {item \in z : item.kind # "question" /\ item \in ShownAnywhere}
      BY <2>1, <3>1
    <3>6. Show(w, z)
      BY <3>4, <3>5 DEF Show
    <3>. QED  BY <3>1, <3>6
  <2>2. CASE \E persisted \in {{}, {result[w]} \ {NoNote}} : Show(w, persisted)
    BY <2>2
  <2>. QED  BY <2>1, <2>2 DEF EndRun
<1>6. DeliveryTypeOK' /\ DispatchesGrow
  <2>1. mode' \in [Delegates -> DelegateModes]
    BY <1>1, <1>2 DEF DeliveryTypeOK, DelegateModes
  <2>2. calling' \in [Agent -> {"none", "tool", "lost"} \cup Delegates] /\ result' \in [Agent -> {NoNote} \cup Notices]
    BY <1>1, <1>2 DEF DeliveryTypeOK
  <2>3. \A v \in Delegates : mode'[v] = mode[v] \/ (mode[v] = "running" /\ mode'[v] = "ending")
    BY <1>1, <1>2, <1>4 DEF DeliveryTypeOK
  <2>. QED  BY <2>1, <2>2, <2>3, <1>1, <1>2, <1>3, <1>5, ShowTypes DEF DeliveryTypeOK
<1>7. \A x \in items : MayShow(w, x) /\ x.kind = "done" /\ Supervisor[x.of] = w
  BY <1>3, <1>5, ResultFresh
<1>8. ASSUME NEW b \in Agent PROVE CallOK(b)'
  <2>1. CASE b = w
    BY <2>1, <1>1, <1>2, <1>3, CallSettled DEF DeliveryTypeOK
  <2>2. CASE b # w
    <3>1. NotOf(b)
      BY <2>2, <1>2, <1>3, <1>5, <1>7 DEF NotOf, Show, DeliveryTypeOK
    <3>2. Runs(b) => Runs(b)'
      BY <2>2, <1>1, <1>2 DEF Runs, DeliveryTypeOK
    <3>. QED  BY <2>2, <3>1, <3>2, <1>1, <1>2, <1>6, CallStays DEF DeliveryTypeOK
  <2>. QED  BY <2>1, <2>2
<1>9. CallInv'
  BY <1>8 DEF CallInv
<1>. QED  BY <1>1, <1>3, <1>5, <1>6, <1>7, <1>9, DeliveryShows

LEMMA DeliveryInitHolds == DeliveryInit => DeliveryInv
<1>. SUFFICES ASSUME DeliveryInit PROVE DeliveryInv
  OBVIOUS
<1>1. DeliveryTypeOK
  BY DEF DeliveryInit, DeliveryTypeOK, DelegateModes
<1>2. NotesInv /\ ShownInv /\ DeliveredOnce
  BY DEF DeliveryInit, NotesInv, ShownInv, DeliveredOnce
<1>3. CallInv
  BY DEF DeliveryInit, CallInv, CallOK, Delegates
<1>. QED  BY <1>1, <1>2, <1>3 DEF DeliveryInv

LEMMA DeliveryStutters == DeliveryInv /\ UNCHANGED deliveryVars => DeliveryInv'
<1>. SUFFICES ASSUME DeliveryInv, UNCHANGED deliveryVars PROVE DeliveryInv'
  OBVIOUS
<1>1. /\ mode' = mode /\ dispatch' = dispatch /\ mail' = mail /\ notes' = notes /\ shown' = shown
      /\ repeated' = repeated /\ calling' = calling /\ result' = result /\ up' = up
  BY DEF deliveryVars
<1>2. DeliveryTypeOK' /\ DispatchesGrow
  BY <1>1 DEF DeliveryInv, DeliveryTypeOK, DispatchesGrow, Occupied
<1>3. CallInv'
  BY <1>1, <1>2, CallsStay DEF Runs
<1>. QED  BY <1>1, <1>2, <1>3, DeliverySilent

LEMMA DeliveryStep == DeliveryInv /\ [DeliveryNext]_deliveryVars => DeliveryInv'
<1>. SUFFICES ASSUME DeliveryInv, [DeliveryNext]_deliveryVars PROVE DeliveryInv'
  OBVIOUS
<1>1. ASSUME NEW a \in Agent,
       \/ \E foreground \in BOOLEAN : Delegate(a, foreground)
       \/ WaitReturns(a) \/ PersistResult(a) \/ Consume(a) \/ DiesInConsume(a)
      PROVE  DeliveryInv'
  BY <1>1, DelegateKeeps, WaitReturnsKeeps, PersistKeeps, ConsumeKeeps, DiesInConsumeKeeps
<1>2. ASSUME NEW w \in Delegates,
       SendMail(w) \/ ResumeDelegate(w) \/ AskParent(w) \/ Bill(w) \/ EndRun(w) \/ NoteCompletion(w)
      PROVE  DeliveryInv'
  BY <1>2, SendMailKeeps, ResumeKeeps, AskParentKeeps, BillKeeps, EndRunKeeps, NoteCompletionKeeps
<1>. QED  BY <1>1, <1>2, RepairMainKeeps, StopsKeeps, LoadKeeps, DeliveryStutters DEF DeliveryNext

\* A message or the note of a completion enters one transcript, once.
THEOREM NothingRepeated == DeliverySpec => []DeliveredOnce
<1>1. DeliveryInv => DeliveredOnce
  BY DEF DeliveryInv
<1>. QED  BY <1>1, DeliveryInitHolds, DeliveryStep, PTL DEF DeliverySpec
-----------------------------------------------------------------------------
\* The exactness of the ledger is inductive with the types it is about.
LedgerInv ==
  /\ total \in [Delegates -> Nat]
  /\ ledger \in [Delegates -> Seq(Int)]
  /\ mode \in [Delegates -> DelegateModes]
  /\ LedgerIsExact

\* A settled ledger is exact, and stays typed.
LEMMA SettledExact ==
  ASSUME NEW L \in [Delegates -> Seq(Int)], NEW T \in [Delegates -> Nat], NEW w \in Delegates
  PROVE  RecordUsage(L, T, w) \in Seq(Int) /\ Sum(RecordUsage(L, T, w)) = T[w]
<1>1. L[w] \in Seq(Int) /\ T[w] \in Nat /\ Sum(L[w]) \in Int
  BY SumFacts
<1>2. CASE T[w] = Sum(L[w])
  BY <1>1, <1>2 DEF RecordUsage
<1>3. CASE T[w] # Sum(L[w])
  <2>1. PICK c \in Int : c = T[w] - Sum(L[w])
    BY <1>1
  <2>2. RecordUsage(L, T, w) = Append(L[w], c)
    BY <1>3, <2>1 DEF RecordUsage
  <2>3. Append(L[w], c) \in Seq(Int) /\ Sum(Append(L[w], c)) = Sum(L[w]) + c
    BY <1>1, SumFacts
  <2>. QED  BY <1>1, <2>1, <2>2, <2>3
<1>. QED  BY <1>2, <1>3

\* Nothing is billed and nothing recorded, and no worker comes to rest.
LEMMA LedgerStays ==
  ASSUME LedgerInv, total' = total, ledger' = ledger, mode' \in [Delegates -> DelegateModes],
         up' => up,
         \A w \in Delegates : mode'[w] \in {"idle", "ending"} => mode[w] \in {"idle", "ending"}
  PROVE  LedgerInv'
BY DEF LedgerInv, LedgerIsExact

LEMMA LedgerStep == LedgerInv /\ [DeliveryNext]_deliveryVars => LedgerInv'
<1>. SUFFICES ASSUME LedgerInv, [DeliveryNext]_deliveryVars PROVE LedgerInv'
  OBVIOUS
<1>0. mode \in [Delegates -> DelegateModes] /\ total \in [Delegates -> Nat] /\ ledger \in [Delegates -> Seq(Int)]
  BY DEF LedgerInv
<1>1. ASSUME NEW w \in Delegates, Run(w)
      PROVE  mode' \in [Delegates -> DelegateModes] /\ \A v \in Delegates : mode'[v] = mode[v] \/ mode'[v] = "running"
  BY <1>0, <1>1 DEF Run, DelegateModes
<1>2. ASSUME NEW a \in Agent, NEW foreground \in BOOLEAN, Delegate(a, foreground) PROVE LedgerInv'
  <2>1. total' = total /\ ledger' = ledger /\ up' = up
    BY <1>2 DEF Delegate, usage
  <2>2. PICK w \in Delegates : Run(w)
    BY <1>2 DEF Delegate
  <2>. QED  BY <2>1, <2>2, <1>1, LedgerStays
<1>3. ASSUME NEW a \in Agent, WaitReturns(a) \/ PersistResult(a) \/ Consume(a) \/ DiesInConsume(a) PROVE LedgerInv'
  <2>1. total' = total /\ ledger' = ledger /\ mode' = mode
    BY <1>3 DEF WaitReturns, PersistResult, Consume, DiesInConsume, Die, usage
  <2>2. up' => up
    BY <1>3 DEF WaitReturns, PersistResult, Consume, DiesInConsume, Die, deliveryBounds
  <2>. QED  BY <2>1, <2>2, <1>0, LedgerStays
<1>4. ASSUME NEW w \in Delegates, SendMail(w) \/ ResumeDelegate(w) PROVE LedgerInv'
  <2>1. total' = total /\ ledger' = ledger /\ up' = up
    BY <1>4 DEF SendMail, ResumeDelegate, usage, deliveryBounds
  <2>2. mode' = mode \/ Run(w)
    BY <1>4 DEF SendMail, ResumeDelegate
  <2>. QED  BY <2>1, <2>2, <1>0, <1>1, LedgerStays
<1>5. ASSUME NEW w \in Delegates, AskParent(w) PROVE LedgerInv'
  BY <1>0, <1>5, LedgerStays DEF AskParent, usage, deliveryBounds
<1>6. ASSUME NEW w \in Delegates, NoteCompletion(w) PROVE LedgerInv'
  <2>1. total' = total /\ ledger' = ledger /\ up' = up /\ mode' = [mode EXCEPT ![w] = "idle"] /\ mode[w] = "ending"
    BY <1>6 DEF NoteCompletion, usage, deliveryBounds
  <2>2. mode' \in [Delegates -> DelegateModes]
    BY <1>0, <2>1 DEF DelegateModes
  <2>3. \A v \in Delegates : mode'[v] \in {"idle", "ending"} => mode[v] \in {"idle", "ending"}
    BY <1>0, <2>1
  <2>. QED  BY <2>1, <2>2, <2>3, LedgerStays
<1>7. CASE RepairMain \/ ProcessStops
  <2>1. total' = total /\ ledger' = ledger /\ mode' = mode
    BY <1>7 DEF RepairMain, ProcessStops, Die, usage
  <2>2. up' => up
    BY <1>7 DEF RepairMain, ProcessStops, Die, deliveryBounds
  <2>. QED  BY <2>1, <2>2, <1>0, LedgerStays
<1>8. ASSUME NEW w \in Delegates, Bill(w) PROVE LedgerInv'
  <2>1. /\ total' = [total EXCEPT ![w] = @ + 1] /\ ledger' = ledger /\ mode' = mode /\ up' = up /\ Runs(w)
    BY <1>8 DEF Bill, deliveryBounds
  <2>2. mode[w] = "running"
    BY <2>1 DEF Runs, Delegates
  <2>3. total' \in [Delegates -> Nat] /\ \A v \in Delegates : total[v] <= total'[v] /\ (v # w => total'[v] = total[v])
    BY <1>0, <2>1
  <2>4. \A v \in Delegates : Sum(ledger[v]) \in Int
    BY <1>0, SumFacts
  <2>5. LedgerIsExact'
    <3>. SUFFICES ASSUME NEW v \in Delegates
                  PROVE  Sum(ledger[v]) <= total'[v] /\ (up /\ mode[v] \in {"idle", "ending"} => Sum(ledger[v]) = total'[v])
      BY <2>1 DEF LedgerIsExact
    <3>1. Sum(ledger[v]) <= total[v] /\ (up /\ mode[v] \in {"idle", "ending"} => Sum(ledger[v]) = total[v])
      BY DEF LedgerInv, LedgerIsExact
    <3>2. Sum(ledger[v]) \in Int /\ total[v] \in Nat /\ total'[v] \in Nat /\ total[v] <= total'[v]
      BY <1>0, <2>3, <2>4
    <3>. QED  BY <2>2, <2>3, <3>1, <3>2
  <2>. QED  BY <1>0, <2>1, <2>3, <2>5 DEF LedgerInv
<1>9. ASSUME NEW w \in Delegates, EndRun(w) PROVE LedgerInv'
  <2>1. /\ total' = total /\ ledger' = [ledger EXCEPT ![w] = RecordUsage(ledger, total, w)]
        /\ mode' = [mode EXCEPT ![w] = "ending"] /\ up' = up
    BY <1>9 DEF EndRun, deliveryBounds
  <2>2. RecordUsage(ledger, total, w) \in Seq(Int) /\ Sum(RecordUsage(ledger, total, w)) = total[w]
    BY <1>0, SettledExact
  <2>3. ledger' \in [Delegates -> Seq(Int)] /\ mode' \in [Delegates -> DelegateModes]
    BY <1>0, <2>1, <2>2 DEF DelegateModes
  <2>4. LedgerIsExact'
    <3>. SUFFICES ASSUME NEW v \in Delegates
                  PROVE  Sum(ledger'[v]) <= total[v] /\ (up /\ mode'[v] \in {"idle", "ending"} => Sum(ledger'[v]) = total[v])
      BY <2>1 DEF LedgerIsExact
    <3>1. CASE v = w
      <4>1. Sum(ledger'[v]) = total[v] /\ total[v] \in Nat
        BY <3>1, <1>0, <2>1, <2>2
      <4>. QED  BY <4>1
    <3>2. CASE v # w
      BY <3>2, <1>0, <2>1 DEF LedgerInv, LedgerIsExact
    <3>. QED  BY <3>1, <3>2
  <2>. QED  BY <1>0, <2>1, <2>3, <2>4 DEF LedgerInv
<1>10. CASE Load
  <2>1. /\ total' = total /\ ledger' = [w \in Delegates |-> RecordUsage(ledger, total, w)]
        /\ mode' = [w \in Delegates |-> IF mode[w] = "absent" THEN "absent" ELSE "idle"]
    BY <1>10 DEF Load
  <2>2. \A w \in Delegates : ledger'[w] \in Seq(Int) /\ Sum(ledger'[w]) = total[w] /\ total[w] \in Nat
    BY <1>0, <2>1, SettledExact
  <2>3. ledger' \in [Delegates -> Seq(Int)] /\ mode' \in [Delegates -> DelegateModes]
    BY <2>1, <2>2 DEF DelegateModes
  <2>4. LedgerIsExact'
    BY <2>1, <2>2 DEF LedgerIsExact
  <2>. QED  BY <1>0, <2>1, <2>3, <2>4 DEF LedgerInv
<1>11. CASE UNCHANGED deliveryVars
  BY <1>0, <1>11, LedgerStays DEF deliveryVars
<1>. QED  BY <1>2, <1>3, <1>4, <1>5, <1>6, <1>7, <1>8, <1>9, <1>10, <1>11 DEF DeliveryNext

\* The ledger of the root holds exactly what a worker that does not run was billed.
THEOREM LedgerExact == DeliverySpec => []LedgerIsExact
<1>1. DeliveryInit => LedgerInv
  <2>. SUFFICES ASSUME DeliveryInit PROVE LedgerInv
    OBVIOUS
  <2>1. \A w \in Delegates : ledger[w] = <<>> /\ Sum(ledger[w]) = 0 /\ total[w] = 0
    BY SumFacts DEF DeliveryInit
  <2>. QED  BY <2>1 DEF DeliveryInit, LedgerInv, LedgerIsExact, DelegateModes
<1>2. LedgerInv => LedgerIsExact
  BY DEF LedgerInv
<1>. QED  BY <1>1, <1>2, LedgerStep, PTL DEF DeliverySpec
-----------------------------------------------------------------------------
(* Facts and what a forget owes. *)

\* The line that marks a fact as forgotten, and what a session file is made of.
MarkLine(f) == Line("forget", {f})
LineKinds == {"undo", "redo", "memory_usage", "forget"}
MemoryLines == [kind : LineKinds, ids : SUBSET Said]

\* A fact that is there rests on the message it was first learned from.
FactsOK ==
  /\ fact \in [Said -> Seq(Said)]
  /\ \A f \in Said : fact[f] # <<>> => f \in Elements(fact[f])
  /\ forgotten \subseteq Said /\ excluded \subseteq Said
  /\ generation \in Nat
  /\ queued \subseteq [id : Said, log : Logs]
\* A line that names a fact is its marker, and no more of a file is on disk than
\* was written.
FilesOK ==
  /\ file \in [Logs -> Seq(MemoryLines)]
  /\ \A l \in Logs : \A i \in 1 .. Len(file[l]) :
       \A f \in file[l][i].ids : file[l][i] = MarkLine(f)
  /\ synced \in [Logs -> Nat]
  /\ \A l \in Logs : synced[l] <= Len(file[l])

\* The marker of f is among the first n lines.
HasMark(l, n, f) == \E i \in 1 .. n : file[l][i] = MarkLine(f)
\* What a flush is about to sync is in its file, and what it is about to
\* acknowledge is on disk.
FlushOK ==
  /\ flush \in [Owners -> {Idle} \cup
       [phase : {"next", "sync", "owed"}, log : Logs, keep : BOOLEAN,
        ids : SUBSET Said, todo : SUBSET Said]]
  /\ \A p \in Owners :
       /\ flush[p].phase = "sync" => \A f \in flush[p].ids : HasMark(flush[p].log, Len(file[flush[p].log]), f)
       /\ flush[p].phase = "owed" => \A f \in flush[p].ids : HasMark(flush[p].log, synced[flush[p].log], f)
\* A learner stores only what it was supplied with.
LearnerFields == {"phase", "log", "gen", "version", "supplied", "existing"}
LearnerEntry(e) ==
  \/ e = Idle
  \/ /\ DOMAIN e = LearnerFields
     /\ e.phase \in {"model", "store", "bill"}
     /\ e.log \in Logs
     /\ e.supplied \subseteq Said
LearnersOK == learner = [p \in Owners |-> learner[p]] /\ \A p \in Owners : LearnerEntry(learner[p])
\* A turn whose generation is current was shown nothing that is excluded: a forget
\* since would have raised the generation.
AskedOK ==
  /\ asked \in [Owners -> {Idle} \cup [phase : {"turn"}, gen : Nat, from : SUBSET Said]]
  /\ \A p \in Owners : asked[p] # Idle =>
       /\ asked[p].gen <= generation
       /\ asked[p].gen = generation => asked[p].from \cap excluded = {}
OutboxOK == outbox \in [Owners -> SUBSET Logs]
MemoryInv ==
  FactsOK /\ FilesOK /\ FlushOK /\ OutboxOK /\ LearnersOK /\ AskedOK /\ ForgetReachesSessions

\* Session files as a live process sees them: they only grow.
FilesGrow ==
  \A l \in Logs :
    /\ Len(file[l]) <= Len(file'[l])
    /\ \A i \in 1 .. Len(file[l]) : file'[l][i] = file[l][i]
    /\ synced[l] <= synced'[l]

FlushType == {Idle} \cup
       [phase : {"next", "sync", "owed"}, log : Logs, keep : BOOLEAN,
        ids : SUBSET Said, todo : SUBSET Said]

LEMMA ElementsFinite ==
  ASSUME NEW q \in Seq(Said)
  PROVE  IsFiniteSet(Elements(q)) /\ Elements(q) \subseteq Said
<1>. DEFINE n == Len(q)
<1>1. DOMAIN q = 1 .. n /\ n \in Nat /\ \A i \in 1 .. n : q[i] \in Said
  OBVIOUS
<1>2. IsFiniteSet(1 .. n)
  BY <1>1, FS_Interval
<1>. DEFINE g == [i \in 1 .. n |-> q[i]]
<1>3. g \in Surjection(1 .. n, Elements(q))
  BY <1>1 DEF Surjection, Elements
<1>4. IsFiniteSet(Elements(q))
  BY <1>2, <1>3, FS_Surjection
<1>. QED  BY <1>1, <1>4 DEF Elements

LEMMA LinesOK ==
  /\ \A kind \in LineKinds : Line(kind, {}) \in MemoryLines
  /\ \A f \in Said : MarkLine(f) \in MemoryLines /\ MarkLine(f).ids = {f}
BY DEF MemoryLines, LineKinds, MarkLine, Line

LEMMA FilesStay ==
  ASSUME FilesOK, file' = file, \A l \in Logs : synced'[l] = synced[l] \/ synced'[l] = Len(file[l]), synced' \in [Logs -> Nat]
  PROVE  FilesOK' /\ FilesGrow
<1>1. \A l \in Logs : Len(file[l]) \in Nat /\ synced[l] \in Nat
  BY DEF FilesOK
<1>. QED  BY <1>1 DEF FilesOK, FilesGrow

LEMMA FilesExtend ==
  ASSUME FilesOK, NEW l \in Logs, NEW entry \in MemoryLines,
         \A f \in entry.ids : entry = MarkLine(f),
         Extend(l, entry),
         synced' = synced \/ synced' = [synced EXCEPT ![l] = Len(file'[l])]
  PROVE  FilesOK' /\ FilesGrow
<1>1. file' = [file EXCEPT ![l] = Append(@, entry)]
  BY DEF Extend
<1>2. file \in [Logs -> Seq(MemoryLines)] /\ synced \in [Logs -> Nat]
  BY DEF FilesOK
<1>3. \A k \in Logs : file[k] \in Seq(MemoryLines) /\ Len(file[k]) \in Nat /\ synced[k] \in Nat /\ synced[k] <= Len(file[k])
  BY <1>2 DEF FilesOK
<1>4. /\ Append(file[l], entry) \in Seq(MemoryLines)
      /\ Len(Append(file[l], entry)) = Len(file[l]) + 1
      /\ \A i \in 1 .. Len(file[l]) : Append(file[l], entry)[i] = file[l][i]
      /\ Append(file[l], entry)[Len(file[l]) + 1] = entry
  BY <1>3
<1>5. file'[l] = Append(file[l], entry) /\ \A k \in Logs \ {l} : file'[k] = file[k]
  BY <1>1, <1>2
<1>6. file' \in [Logs -> Seq(MemoryLines)]
  BY <1>1, <1>2, <1>4
<1>7. synced' \in [Logs -> Nat]
  BY <1>2, <1>3, <1>4, <1>5
<1>8. \A k \in Logs : synced'[k] <= Len(file'[k]) /\ synced[k] <= synced'[k]
  <2>. SUFFICES ASSUME NEW k \in Logs PROVE synced'[k] <= Len(file'[k]) /\ synced[k] <= synced'[k]
    OBVIOUS
  <2>1. CASE k = l  BY <2>1, <1>2, <1>3, <1>4, <1>5
  <2>2. CASE k # l  BY <2>2, <1>2, <1>3, <1>5
  <2>. QED  BY <2>1, <2>2
<1>9. \A k \in Logs : Len(file[k]) <= Len(file'[k]) /\ \A i \in 1 .. Len(file[k]) : file'[k][i] = file[k][i]
  <2>. SUFFICES ASSUME NEW k \in Logs PROVE Len(file[k]) <= Len(file'[k]) /\ \A i \in 1 .. Len(file[k]) : file'[k][i] = file[k][i]
    OBVIOUS
  <2>1. CASE k = l  BY <2>1, <1>3, <1>4, <1>5
  <2>2. CASE k # l  BY <2>2, <1>3, <1>5
  <2>. QED  BY <2>1, <2>2
<1>10. ASSUME NEW k \in Logs, NEW i \in 1 .. Len(file'[k]), NEW f \in file'[k][i].ids
       PROVE  file'[k][i] = MarkLine(f)
  <2>1. CASE k # l
    BY <2>1, <1>5, <1>10 DEF FilesOK
  <2>2. CASE k = l /\ i <= Len(file[l])
    <3>1. i \in 1 .. Len(file[l])
      BY <2>2, <1>3, <1>10, <1>5, <1>4
    <3>2. file'[k][i] = file[l][i]
      BY <2>2, <3>1, <1>4, <1>5
    <3>. QED  BY <3>1, <3>2, <1>10 DEF FilesOK
  <2>3. CASE k = l /\ ~(i <= Len(file[l]))
    <3>1. i = Len(file[l]) + 1
      BY <2>3, <1>3, <1>10, <1>5, <1>4
    <3>2. file'[k][i] = entry
      BY <2>3, <3>1, <1>4, <1>5
    <3>. QED  BY <3>2, <1>10
  <2>. QED  BY <2>1, <2>2, <2>3
<1>11. FilesOK'
  BY <1>6, <1>7, <1>8, <1>10 DEF FilesOK
<1>12. FilesGrow
  BY <1>8, <1>9 DEF FilesGrow
<1>. QED  BY <1>11, <1>12

LEMMA MarksStay ==
  ASSUME FilesOK, FilesOK', FilesGrow, NEW l \in Logs, NEW f
  PROVE  /\ HasMark(l, Len(file[l]), f) => HasMark(l, Len(file[l]), f)'
         /\ HasMark(l, synced[l], f) => HasMark(l, synced[l], f)'
<1>1. /\ Len(file[l]) \in Nat /\ synced[l] \in Nat /\ synced[l] <= Len(file[l])
      /\ Len(file'[l]) \in Nat /\ synced'[l] \in Nat
  BY DEF FilesOK
<1>2. /\ Len(file[l]) <= Len(file'[l]) /\ synced[l] <= synced'[l]
      /\ \A i \in 1 .. Len(file[l]) : file'[l][i] = file[l][i]
  BY DEF FilesGrow
<1>3. HasMark(l, Len(file[l]), f) => HasMark(l, Len(file[l]), f)'
  BY <1>1, <1>2 DEF HasMark, MarkLine, Line
<1>4. HasMark(l, synced[l], f) => HasMark(l, synced[l], f)'
  BY <1>1, <1>2 DEF HasMark, MarkLine, Line
<1>. QED  BY <1>3, <1>4

\* What a flush has put in a file stays there, while other processes append.
FlushEntry(e) ==
  /\ e \in FlushType
  /\ e.phase = "sync" => \A f \in e.ids : HasMark(e.log, Len(file[e.log]), f)
  /\ e.phase = "owed" => \A f \in e.ids : HasMark(e.log, synced[e.log], f)

LEMMA EntryStays ==
  ASSUME FilesOK, FilesOK', FilesGrow, NEW e, FlushEntry(e)
  PROVE  FlushEntry(e)'
<1>1. e \in FlushType
  BY DEF FlushEntry
<1>2. CASE e = Idle
  BY <1>1, <1>2 DEF FlushEntry, Idle
<1>3. CASE e # Idle
  <2>1. e.log \in Logs
    BY <1>1, <1>3 DEF FlushType
  <2>. QED  BY <1>1, <2>1, MarksStay DEF FlushEntry
<1>. QED  BY <1>2, <1>3

LEMMA FlushIsEntries ==
  FlushOK <=> DOMAIN flush = Owners /\ flush = [p \in Owners |-> flush[p]] /\ \A p \in Owners : FlushEntry(flush[p])
<1>1. FlushOK <=> flush \in [Owners -> FlushType] /\ \A p \in Owners : FlushEntry(flush[p])
  BY DEF FlushOK, FlushEntry, FlushType
<1>2. flush \in [Owners -> FlushType] <=> DOMAIN flush = Owners /\ flush = [p \in Owners |-> flush[p]] /\ \A p \in Owners : flush[p] \in FlushType
  OBVIOUS
<1>3. \A p \in Owners : FlushEntry(flush[p]) => flush[p] \in FlushType
  BY DEF FlushEntry
<1>. QED  BY <1>1, <1>2, <1>3

LEMMA FlushKept ==
  ASSUME FilesOK, FilesOK', FilesGrow, FlushOK, NEW p \in Owners, NEW e,
         FlushEntry(e)',
         flush' = flush \/ flush' = [flush EXCEPT ![p] = e]
  PROVE  FlushOK'
<1>1. flush \in [Owners -> FlushType] /\ \A q \in Owners : FlushEntry(flush[q])
  BY FlushIsEntries DEF FlushEntry
<1>2. ASSUME NEW q \in Owners PROVE FlushEntry(flush[q])'
  <2>1. CASE flush'[q] = flush[q]
    <3>1. PICK w : w = flush[q] /\ w = flush'[q]
      BY <2>1
    <3>2. FlushEntry(w)
      BY <1>1, <3>1
    <3>3. FlushEntry(w)'
      BY <3>2, EntryStays
    <3>. QED  BY <3>1, <3>3 DEF FlushEntry
  <2>2. CASE flush'[q] = e
    BY <2>2 DEF FlushEntry
  <2>. QED  BY <2>1, <2>2, <1>1
<1>3. DOMAIN flush' = Owners /\ flush' = [q \in Owners |-> flush'[q]]
  BY <1>1
<1>4. flush' \in [Owners -> FlushType]
  BY <1>2, <1>3 DEF FlushEntry
<1>. QED  BY <1>2, <1>4 DEF FlushEntry, FlushOK, FlushType

LEMMA ForgetKept ==
  ASSUME FilesOK, FilesOK', FilesGrow, ForgetReachesSessions, FactsOK,
         forgotten' = forgotten, queued \subseteq queued'
  PROVE  ForgetReachesSessions'
<1>. SUFFICES ASSUME NEW f \in forgotten, [id |-> f, log |-> f.log] \notin queued
              PROVE  \E i \in 1 .. synced'[f.log] : file'[f.log][i] = Line("forget", {f})
  BY DEF ForgetReachesSessions
<1>1. HasMark(f.log, synced[f.log], f)
  BY DEF ForgetReachesSessions, HasMark, MarkLine
<1>2. f.log \in Logs
  BY SaidAssumption DEF FactsOK
<1>3. HasMark(f.log, synced[f.log], f)'
  BY <1>1, <1>2, MarksStay
<1>. QED  BY <1>3 DEF HasMark, MarkLine

LEMMA FactsStay ==
  ASSUME FactsOK, UNCHANGED database
  PROVE  FactsOK'
BY DEF FactsOK, database

LEMMA AskedStays ==
  ASSUME AskedOK, NEW p \in Owners, generation' = generation, excluded' = excluded,
         asked' = asked \/ asked' = [asked EXCEPT ![p] = Idle]
  PROVE  AskedOK'
<1>1. asked' \in [Owners -> {Idle} \cup [phase : {"turn"}, gen : Nat, from : SUBSET Said]]
  BY DEF AskedOK
<1>2. ASSUME NEW q \in Owners PROVE asked'[q] = asked[q] \/ asked'[q] = Idle
  BY DEF AskedOK
<1>. QED  BY <1>1, <1>2 DEF AskedOK

LEMMA LearnersStay ==
  ASSUME LearnersOK, NEW p \in Owners, NEW e,
         LearnerEntry(e),
         learner' = learner \/ learner' = [learner EXCEPT ![p] = e]
  PROVE  LearnersOK'
<1>1. learner' = [q \in Owners |-> learner'[q]]
  BY DEF LearnersOK
<1>2. ASSUME NEW q \in Owners PROVE learner'[q] = learner[q] \/ learner'[q] = e
  BY DEF LearnersOK
<1>. QED  BY <1>1, <1>2 DEF LearnersOK

LEMMA IdleFits ==
  FlushEntry(Idle) /\ FlushEntry(Idle)' /\ LearnerEntry(Idle)
BY DEF FlushEntry, FlushType, LearnerEntry, Idle

LEMMA NextFits ==
  ASSUME NEW l \in Logs, NEW k \in BOOLEAN, NEW todo \in SUBSET Said, NEW ids \in SUBSET Said
  PROVE  FlushEntry([phase |-> "next", log |-> l, keep |-> k, ids |-> ids, todo |-> todo])'
BY DEF FlushEntry, FlushType, Idle

LEMMA MemoryRest ==
  ASSUME MemoryInv, NEW p \in Owners, UNCHANGED database, FilesOK', FilesGrow, OutboxOK',
         NEW fe, FlushEntry(fe)', flush' = flush \/ flush' = [flush EXCEPT ![p] = fe],
         NEW le, LearnerEntry(le),
         learner' = learner \/ learner' = [learner EXCEPT ![p] = le],
         asked' = asked \/ asked' = [asked EXCEPT ![p] = Idle]
  PROVE  MemoryInv'
<1>1. FactsOK /\ FilesOK /\ FlushOK /\ LearnersOK /\ AskedOK /\ ForgetReachesSessions
  BY DEF MemoryInv
<1>2. generation' = generation /\ excluded' = excluded /\ forgotten' = forgotten /\ queued' = queued
  BY DEF database
<1>3. FactsOK'
  BY <1>1, FactsStay
<1>4. FlushOK'
  BY <1>1, FlushKept
<1>5. LearnersOK'
  BY <1>1, LearnersStay
<1>6. AskedOK'
  BY <1>1, <1>2, AskedStays
<1>7. ForgetReachesSessions'
  BY <1>1, <1>2, ForgetKept
<1>. QED  BY <1>3, <1>4, <1>5, <1>6, <1>7 DEF MemoryInv

\* A step of a process that leaves the facts and the files alone.
LEMMA MemoryStill ==
  ASSUME MemoryInv, NEW p \in Owners, UNCHANGED database, file' = file, synced' = synced, OutboxOK',
         NEW fe, FlushEntry(fe)', flush' = flush \/ flush' = [flush EXCEPT ![p] = fe],
         NEW le, LearnerEntry(le),
         learner' = learner \/ learner' = [learner EXCEPT ![p] = le],
         asked' = asked \/ asked' = [asked EXCEPT ![p] = Idle]
  PROVE  MemoryInv'
<1>1. FilesOK
  BY DEF MemoryInv
<1>2. synced' \in [Logs -> Nat]
  BY <1>1 DEF FilesOK
<1>3. FilesOK' /\ FilesGrow
  BY <1>1, <1>2, FilesStay
<1>. QED  BY <1>3, MemoryRest

LEMMA OutboxStays ==
  ASSUME MemoryInv, outbox' = outbox
  PROVE  OutboxOK'
BY DEF MemoryInv, OutboxOK

LEMMA QueuedIds ==
  ASSUME FactsOK, NEW l
  PROVE  {q.id : q \in {r \in queued : r.log = l}} \in SUBSET Said
BY DEF FactsOK

LEMMA AttachKeeps ==
  ASSUME MemoryInv, NEW p \in Owners, Attach(p)
  PROVE  MemoryInv'
<1>1. PICK l \in Logs : flush' = [flush EXCEPT ![p] =
            [phase |-> "next", log |-> l, keep |-> TRUE, ids |-> {},
             todo |-> {q.id : q \in {r \in queued : r.log = l}}]]
  BY DEF Attach
<1>2. PICK todo \in SUBSET Said : todo = {q.id : q \in {r \in queued : r.log = l}}
  BY QueuedIds DEF MemoryInv
<1>3. PICK ids \in SUBSET Said : ids = {}
  OBVIOUS
<1>4. UNCHANGED database /\ UNCHANGED disk /\ learner' = learner /\ asked' = asked
  BY DEF Attach
<1>5. file' = file /\ synced' = synced
  BY <1>4 DEF disk
<1>. DEFINE e == [phase |-> "next", log |-> l, keep |-> TRUE, ids |-> ids, todo |-> todo]
<1>6. flush' = [flush EXCEPT ![p] = e]
  BY <1>1, <1>2, <1>3
<1>7. FlushEntry(e)'
  BY NextFits
<1>8. OutboxOK'
  BY OutboxStays DEF Attach
<1>. HIDE DEF e
<1>. QED  BY <1>4, <1>5, <1>6, <1>7, <1>8, MemoryStill, IdleFits

LEMMA DetachKeeps ==
  ASSUME MemoryInv, NEW p \in Owners, Detach(p)
  PROVE  MemoryInv'
<1>1. OutboxOK'
  BY OutboxStays DEF Detach
<1>. QED  BY <1>1, MemoryStill, IdleFits DEF Detach, disk

LEMMA HideKeeps ==
  ASSUME MemoryInv, NEW p \in Owners, Hide(p)
  PROVE  MemoryInv'
<1>1. PICK l \in Logs : Extend(l, Line(IF Hidden(l) THEN "redo" ELSE "undo", {}))
  BY DEF Hide
<1>2. PICK entry \in MemoryLines : entry.ids = {} /\ Extend(l, entry)
  <2>1. PICK k \in LineKinds : k = IF Hidden(l) THEN "redo" ELSE "undo"
    BY DEF LineKinds
  <2>2. Line(k, {}) \in MemoryLines /\ Line(k, {}).ids = {}
    BY LinesOK DEF Line
  <2>. QED  BY <1>1, <2>1, <2>2
<1>3. FilesOK
  BY DEF MemoryInv
<1>4. synced' = synced /\ UNCHANGED database /\ flush' = flush /\ learner' = learner /\ asked' = asked
  BY DEF Hide
<1>5. FilesOK' /\ FilesGrow
  BY <1>2, <1>3, <1>4, FilesExtend
<1>6. OutboxOK'
  BY OutboxStays DEF Hide
<1>. QED  BY <1>4, <1>5, <1>6, IdleFits, MemoryRest

LEMMA DiesKeeps ==
  ASSUME MemoryInv, NEW p \in Owners, Dies(p)
  PROVE  MemoryInv'
<1>1. OutboxOK'
  BY DEF Dies, MemoryInv, OutboxOK
<1>. QED  BY <1>1, MemoryStill, IdleFits DEF Dies, disk

LEMMA VisitKeeps ==
  ASSUME MemoryInv, NEW p \in Owners, Visit(p)
  PROVE  MemoryInv'
<1>1. UNCHANGED database /\ UNCHANGED disk /\ learner' = learner /\ asked' = asked
  BY DEF Visit
<1>2. file' = file /\ synced' = synced
  BY <1>1 DEF disk
<1>3. OutboxOK'
  BY DEF Visit, MemoryInv, OutboxOK
<1>4. CASE flush' = flush
  BY <1>1, <1>2, <1>3, <1>4, IdleFits, MemoryStill
<1>5. ASSUME NEW l \in outbox[p], flush' = [flush EXCEPT ![p] =
                  [phase |-> "next", log |-> l, keep |-> holder[l] = {p}, ids |-> {},
                   todo |-> {q.id : q \in {r \in queued : r.log = l}}]]
      PROVE  MemoryInv'
  <2>1. l \in Logs
    BY DEF MemoryInv, OutboxOK
  <2>2. PICK todo \in SUBSET Said : todo = {q.id : q \in {r \in queued : r.log = l}}
    BY QueuedIds DEF MemoryInv
  <2>3. PICK ids \in SUBSET Said : ids = {}
    OBVIOUS
  <2>4. PICK k \in BOOLEAN : k = (holder[l] = {p})
    OBVIOUS
  <2>. DEFINE e == [phase |-> "next", log |-> l, keep |-> k, ids |-> ids, todo |-> todo]
  <2>5. flush' = [flush EXCEPT ![p] = e]
    BY <1>5, <2>2, <2>3, <2>4
  <2>6. FlushEntry(e)'
    BY <2>1, NextFits
  <2>. HIDE DEF e
  <2>. QED  BY <1>1, <1>2, <1>3, <2>5, <2>6, MemoryStill, IdleFits
<1>. QED  BY <1>4, <1>5 DEF Visit

LEMMA MarkKeeps ==
  ASSUME MemoryInv, NEW p \in Owners, Mark(p)
  PROVE  MemoryInv'
<1>1. UNCHANGED database /\ synced' = synced /\ learner' = learner /\ asked' = asked
  BY DEF Mark
<1>2. OutboxOK'
  BY OutboxStays DEF Mark
<1>3. FilesOK /\ FlushOK
  BY DEF MemoryInv
<1>4. CASE file' = file /\ FlushEnds(p)
  BY <1>1, <1>2, <1>4, IdleFits, MemoryStill DEF FlushEnds
<1>5. ASSUME NEW f \in flush[p].todo,
             IF f \in Marked(flush[p].log) THEN UNCHANGED file
             ELSE Extend(flush[p].log, Line("forget", {f})),
             flush' = [flush EXCEPT ![p].phase = "sync", ![p].ids = {f}]
      PROVE  MemoryInv'
  <2>1. flush[p] \in FlushType /\ flush[p].phase = "next"
    BY <1>3 DEF FlushOK, FlushType, Mark
  <2>2. flush[p] # Idle
    BY <2>1 DEF Idle
  <2>3. flush[p] \in [phase : {"next", "sync", "owed"}, log : Logs, keep : BOOLEAN,
                      ids : SUBSET Said, todo : SUBSET Said]
    BY <2>1, <2>2 DEF FlushType
  <2>4. f \in Said /\ flush[p].log \in Logs
    BY <2>3
  <2>5. PICK l \in Logs : l = flush[p].log
    BY <2>4
  <2>6. PICK e : e = [phase |-> "sync", log |-> l, keep |-> flush[p].keep, ids |-> {f}, todo |-> flush[p].todo]
    OBVIOUS
  <2>7. flush' = [flush EXCEPT ![p] = e]
    <3>1. PICK r : r = flush[p]
      OBVIOUS
    <3>2. [r EXCEPT !.phase = "sync", !.ids = {f}] = e
      <4>1. PICK a, k, i, t : a = r.phase /\ k = r.keep /\ i = r.ids /\ t = r.todo
        OBVIOUS
      <4>2. r = [phase |-> a, log |-> l, keep |-> k, ids |-> i, todo |-> t]
        BY <2>3, <2>5, <3>1, <4>1
      <4>3. e = [phase |-> "sync", log |-> l, keep |-> k, ids |-> {f}, todo |-> t]
        BY <2>6, <3>1, <4>1
      <4>4. PICK m : m = [phase |-> "sync", log |-> l, keep |-> k, ids |-> i, todo |-> t]
        OBVIOUS
      <4>5. [r EXCEPT !.phase = "sync"] = m
        BY <4>2, <4>4
      <4>6. [m EXCEPT !.ids = {f}] = e
        BY <4>3, <4>4
      <4>7. [r EXCEPT !.phase = "sync", !.ids = {f}] = [[r EXCEPT !.phase = "sync"] EXCEPT !.ids = {f}]
        OBVIOUS
      <4>. QED  BY <4>5, <4>6, <4>7
    <3>3. flush' = [flush EXCEPT ![p] = [r EXCEPT !.phase = "sync", !.ids = {f}]]
      BY <1>5, <3>1, <1>3 DEF FlushOK
    <3>. QED  BY <3>2, <3>3
  <2>8. e \in FlushType /\ e.phase = "sync" /\ e.ids = {f} /\ e.log = l
    BY <2>3, <2>4, <2>6 DEF FlushType
  <2>9. FilesOK' /\ FilesGrow /\ HasMark(l, Len(file[l]), f)'
    <3>1. CASE f \in Marked(l) /\ file' = file
      <4>1. FilesOK' /\ FilesGrow
        BY <3>1, <1>1, <1>3, FilesStay DEF FilesOK
      <4>2. PICK i \in 1 .. Len(file[l]) : f \in file[l][i].ids
        BY <3>1, <1>3 DEF Marked, FilesOK
      <4>3. file[l][i] = MarkLine(f)
        BY <4>2, <1>3 DEF FilesOK
      <4>. QED  BY <3>1, <4>1, <4>2, <4>3 DEF HasMark, MarkLine
    <3>2. CASE Extend(l, Line("forget", {f}))
      <4>. DEFINE entry == MarkLine(f)
      <4>1. entry \in MemoryLines /\ entry.ids = {f} /\ entry = Line("forget", {f})
        BY <2>4, LinesOK DEF MarkLine
      <4>2. Extend(l, entry) /\ \A g \in entry.ids : entry = MarkLine(g)
        BY <4>1, <3>2
      <4>. HIDE DEF entry
      <4>3. FilesOK' /\ FilesGrow
        BY <4>1, <4>2, <1>1, <1>3, FilesExtend
      <4>4. file' = [file EXCEPT ![l] = Append(@, entry)]
        BY <4>2 DEF Extend
      <4>5. Len(file'[l]) \in 1 .. Len(file'[l]) /\ file'[l][Len(file'[l])] = entry
        BY <4>1, <4>4, <1>3 DEF FilesOK
      <4>6. HasMark(l, Len(file[l]), f)'
        BY <4>5, <4>1 DEF HasMark, MarkLine
      <4>. QED  BY <4>3, <4>6
    <3>. QED  BY <2>5, <3>1, <3>2, <1>5
  <2>10. FlushEntry(e)'
    BY <2>8, <2>9 DEF FlushEntry
  <2>. QED  BY <1>1, <1>2, <2>7, <2>9, <2>10, MemoryRest, IdleFits
<1>. QED  BY <1>4, <1>5 DEF Mark

LEMMA SyncMarkKeeps ==
  ASSUME MemoryInv, NEW p \in Owners, SyncMark(p)
  PROVE  MemoryInv'
<1>1. UNCHANGED database /\ file' = file /\ learner' = learner /\ asked' = asked
  BY DEF SyncMark
<1>2. OutboxOK'
  BY OutboxStays DEF SyncMark
<1>3. FilesOK /\ FlushOK
  BY DEF MemoryInv
<1>4. flush[p] \in FlushType /\ flush[p].phase = "sync"
  BY <1>3 DEF FlushOK, FlushType, SyncMark
<1>5. CASE FlushEnds(p) /\ synced' = synced
  BY <1>1, <1>2, <1>5, IdleFits, MemoryStill DEF FlushEnds
<1>6. CASE /\ synced' = [synced EXCEPT ![flush[p].log] = Len(file[flush[p].log])]
           /\ flush' = [flush EXCEPT ![p].phase = "owed"]
  <2>1. flush[p] \in [phase : {"next", "sync", "owed"}, log : Logs, keep : BOOLEAN,
                      ids : SUBSET Said, todo : SUBSET Said]
    BY <1>4 DEF FlushType, Idle
  <2>2. PICK r : r = flush[p]
    OBVIOUS
  <2>3. PICK l \in Logs : l = flush[p].log
    BY <2>1
  <2>4. PICK e : e = [phase |-> "owed", log |-> l, keep |-> r.keep, ids |-> r.ids, todo |-> r.todo]
    OBVIOUS
  <2>5. r = [phase |-> r.phase, log |-> l, keep |-> r.keep, ids |-> r.ids, todo |-> r.todo]
    BY <2>1, <2>2, <2>3
  <2>6. flush' = [flush EXCEPT ![p] = e]
    <3>1. [r EXCEPT !.phase = "owed"] = e
      BY <2>4, <2>5
    <3>2. flush' = [flush EXCEPT ![p] = [r EXCEPT !.phase = "owed"]]
      BY <1>6, <2>2, <1>3 DEF FlushOK
    <3>. QED  BY <3>1, <3>2
  <2>7. e \in FlushType /\ e.phase = "owed" /\ e.ids = r.ids /\ e.log = l
    BY <2>1, <2>2, <2>4 DEF FlushType
  <2>8. \A f \in r.ids : HasMark(l, Len(file[l]), f)
    BY <1>3, <1>4, <2>2, <2>3 DEF FlushOK
  <2>9. synced' \in [Logs -> Nat] /\ synced'[l] = Len(file[l]) /\ \A k \in Logs : synced'[k] = synced[k] \/ synced'[k] = Len(file[k])
    BY <1>3, <1>6, <2>3 DEF FilesOK
  <2>10. FilesOK' /\ FilesGrow
    BY <1>1, <1>3, <2>9, FilesStay
  <2>11. \A f \in r.ids : HasMark(l, synced[l], f)'
    BY <1>1, <2>8, <2>9 DEF HasMark, MarkLine
  <2>12. FlushEntry(e)'
    BY <2>7, <2>11 DEF FlushEntry
  <2>. QED  BY <1>1, <1>2, <2>6, <2>10, <2>12, MemoryRest, IdleFits
<1>. QED  BY <1>5, <1>6 DEF SyncMark

LEMMA AcknowledgeKeeps ==
  ASSUME MemoryInv, NEW p \in Owners, Acknowledge(p)
  PROVE  MemoryInv'
<1>1. /\ fact' = fact /\ forgotten' = forgotten /\ excluded' = excluded /\ generation' = generation
      /\ file' = file /\ synced' = synced /\ learner' = learner /\ asked' = asked
      /\ queued' = queued \ {[id |-> f, log |-> flush[p].log] : f \in flush[p].ids}
  BY DEF Acknowledge, disk
<1>2. OutboxOK'
  BY OutboxStays DEF Acknowledge
<1>3. FactsOK /\ FilesOK /\ FlushOK /\ LearnersOK /\ AskedOK /\ ForgetReachesSessions
  BY DEF MemoryInv
<1>4. flush[p] \in FlushType /\ flush[p].phase = "owed"
  BY <1>3 DEF FlushOK, FlushType, Acknowledge
<1>5. flush[p] \in [phase : {"next", "sync", "owed"}, log : Logs, keep : BOOLEAN,
                    ids : SUBSET Said, todo : SUBSET Said]
  BY <1>4 DEF FlushType, Idle
<1>6. FactsOK'
  BY <1>1, <1>3 DEF FactsOK
<1>7. FilesOK' /\ FilesGrow
  BY <1>1, <1>3, FilesStay DEF FilesOK
<1>8. FlushOK'
  <2>1. PICK r : r = flush[p]
    OBVIOUS
  <2>2. PICK e : e = [phase |-> "next", log |-> r.log, keep |-> r.keep, ids |-> r.ids, todo |-> r.todo \ r.ids]
    OBVIOUS
  <2>3. r = [phase |-> r.phase, log |-> r.log, keep |-> r.keep, ids |-> r.ids, todo |-> r.todo]
    BY <1>5, <2>1
  <2>4. flush' = [flush EXCEPT ![p] = e]
    <3>1. [r EXCEPT !.phase = "next", !.todo = @ \ r.ids] = e
      <4>1. PICK a, l, k, i, t : a = r.phase /\ l = r.log /\ k = r.keep /\ i = r.ids /\ t = r.todo
        OBVIOUS
      <4>2. r = [phase |-> a, log |-> l, keep |-> k, ids |-> i, todo |-> t]
        BY <2>3, <4>1
      <4>3. e = [phase |-> "next", log |-> l, keep |-> k, ids |-> i, todo |-> t \ i]
        BY <2>2, <4>1
      <4>4. PICK m : m = [phase |-> "next", log |-> l, keep |-> k, ids |-> i, todo |-> t]
        OBVIOUS
      <4>5. [r EXCEPT !.phase = "next"] = m
        BY <4>2, <4>4
      <4>6. [m EXCEPT !.todo = t \ i] = e
        BY <4>3, <4>4
      <4>7. [r EXCEPT !.phase = "next", !.todo = @ \ i] = [[r EXCEPT !.phase = "next"] EXCEPT !.todo = t \ i]
        BY <4>2
      <4>. QED  BY <4>1, <4>5, <4>6, <4>7
    <3>2. flush' = [flush EXCEPT ![p] = [r EXCEPT !.phase = "next", !.todo = @ \ r.ids]]
      BY <1>3, <2>1 DEF FlushOK, Acknowledge
    <3>. QED  BY <3>1, <3>2
  <2>5. FlushEntry(e)'
    BY <1>5, <2>1, <2>2 DEF FlushEntry, FlushType
  <2>. QED  BY <1>3, <1>7, <2>4, <2>5, FlushKept
<1>9. LearnersOK'
  BY <1>1, <1>3 DEF LearnersOK
<1>10. AskedOK'
  BY <1>1, <1>3 DEF AskedOK
<1>11. ForgetReachesSessions'
  <2>. SUFFICES ASSUME NEW f \in forgotten, [id |-> f, log |-> f.log] \notin queued'
                PROVE  \E i \in 1 .. synced'[f.log] : file'[f.log][i] = Line("forget", {f})
    BY <1>1 DEF ForgetReachesSessions
  <2>1. CASE [id |-> f, log |-> f.log] \notin queued
    BY <2>1, <1>1, <1>3 DEF ForgetReachesSessions
  <2>2. CASE f \in flush[p].ids /\ f.log = flush[p].log
    BY <2>2, <1>1, <1>3, <1>4 DEF FlushOK, HasMark, MarkLine
  <2>3. [id |-> f, log |-> f.log] \in queued => \E g \in flush[p].ids : [id |-> f, log |-> f.log] = [id |-> g, log |-> flush[p].log]
    BY <1>1
  <2>4. [id |-> f, log |-> f.log] \in queued => f \in flush[p].ids /\ f.log = flush[p].log
    BY <2>3
  <2>. QED  BY <2>1, <2>2, <2>4
<1>. QED  BY <1>2, <1>6, <1>7, <1>8, <1>9, <1>10, <1>11 DEF MemoryInv

LEMMA PowerFailsKeeps ==
  ASSUME MemoryInv, PowerFails
  PROVE  MemoryInv'
<1>1. /\ file' = [l \in Logs |-> SubSeq(file[l], 1, synced[l])]
      /\ flush' = [p \in Owners |-> Idle] /\ outbox' = [p \in Owners |-> {}]
      /\ learner' = [p \in Owners |-> Idle] /\ asked' = [p \in Owners |-> Idle]
      /\ synced' = synced
      /\ fact' = fact /\ forgotten' = forgotten /\ excluded' = excluded /\ generation' = generation /\ queued' = queued
  BY DEF PowerFails, database
<1>2. FactsOK /\ FilesOK /\ ForgetReachesSessions
  BY DEF MemoryInv
<1>3. ASSUME NEW l \in Logs
      PROVE  /\ file'[l] \in Seq(MemoryLines) /\ Len(file'[l]) = synced[l] /\ synced[l] \in Nat
             /\ \A i \in 1 .. synced[l] : i \in 1 .. Len(file[l]) /\ file'[l][i] = file[l][i]
  <2>1. file[l] \in Seq(MemoryLines) /\ synced[l] \in Nat /\ synced[l] <= Len(file[l])
    BY <1>2 DEF FilesOK
  <2>2. file'[l] = SubSeq(file[l], 1, synced[l])
    BY <1>1
  <2>. QED  BY <2>1, <2>2
<1>4. FilesOK'
  <2>1. file' \in [Logs -> Seq(MemoryLines)]
    BY <1>1, <1>3
  <2>2. \A l \in Logs : \A i \in 1 .. Len(file'[l]) : \A f \in file'[l][i].ids : file'[l][i] = MarkLine(f)
    BY <1>2, <1>3 DEF FilesOK
  <2>3. synced' \in [Logs -> Nat] /\ \A l \in Logs : synced'[l] <= Len(file'[l])
    BY <1>1, <1>2, <1>3 DEF FilesOK
  <2>. QED  BY <2>1, <2>2, <2>3 DEF FilesOK
<1>5. FlushOK' /\ OutboxOK' /\ LearnersOK' /\ AskedOK'
  BY <1>1 DEF FlushOK, OutboxOK, LearnersOK, LearnerEntry, AskedOK, Idle
<1>6. ForgetReachesSessions'
  <2>. SUFFICES ASSUME NEW f \in forgotten, [id |-> f, log |-> f.log] \notin queued
                PROVE  \E i \in 1 .. synced'[f.log] : file'[f.log][i] = Line("forget", {f})
    BY <1>1 DEF ForgetReachesSessions
  <2>1. PICK i \in 1 .. synced[f.log] : file[f.log][i] = Line("forget", {f})
    BY <1>2 DEF ForgetReachesSessions
  <2>2. f.log \in Logs
    BY <1>2, SaidAssumption DEF FactsOK
  <2>. QED  BY <1>1, <1>3, <2>1, <2>2
<1>7. FactsOK'
  BY <1>1, <1>2 DEF FactsOK
<1>. QED  BY <1>4, <1>5, <1>6, <1>7 DEF MemoryInv

LEMMA LearnBeginsKeeps ==
  ASSUME MemoryInv, NEW p \in Owners, LearnBegins(p)
  PROVE  MemoryInv'
<1>1. UNCHANGED database /\ file' = file /\ flush' = flush /\ asked' = asked
  BY DEF LearnBegins
<1>2. OutboxOK'
  BY OutboxStays DEF LearnBegins
<1>3. FilesOK
  BY DEF MemoryInv
<1>4. PICK l \in Logs :
        /\ learner' = [learner EXCEPT ![p] =
            [phase |-> "model", log |-> l, gen |-> generation, version |-> Len(file[l]),
             supplied |-> {m \in Said : m.log = l /\ Valid(m)},
             existing |-> [f \in Shown |-> Len(fact[f])]]]
        /\ synced' = [synced EXCEPT ![l] = Len(file[l])]
  BY DEF LearnBegins
<1>5. PICK le : le = [phase |-> "model", log |-> l, gen |-> generation, version |-> Len(file[l]),
             supplied |-> {m \in Said : m.log = l /\ Valid(m)},
             existing |-> [f \in Shown |-> Len(fact[f])]]
  OBVIOUS
<1>6. LearnerEntry(le)
  BY <1>5 DEF LearnerEntry, LearnerFields
<1>7. synced' \in [Logs -> Nat] /\ \A k \in Logs : synced'[k] = synced[k] \/ synced'[k] = Len(file[k])
  BY <1>3, <1>4 DEF FilesOK
<1>8. FilesOK' /\ FilesGrow
  BY <1>1, <1>3, <1>7, FilesStay
<1>9. learner' = [learner EXCEPT ![p] = le]
  BY <1>4, <1>5
<1>. QED  BY <1>1, <1>2, <1>6, <1>8, <1>9, IdleFits, MemoryRest

LEMMA CandidateKeeps ==
  ASSUME MemoryInv, NEW p \in Owners, Candidate(p)
  PROVE  MemoryInv'
<1>1. UNCHANGED database /\ file' = file /\ synced' = synced /\ flush' = flush /\ asked' = asked
  BY DEF Candidate, disk
<1>2. OutboxOK'
  BY OutboxStays DEF Candidate
<1>3. PICK r : r = learner[p]
  OBVIOUS
<1>4. DOMAIN r = LearnerFields /\ r.phase = "model" /\ r.log \in Logs /\ r.supplied \subseteq Said
  <2>1. LearnerEntry(r)
    BY <1>3 DEF MemoryInv, LearnersOK
  <2>2. r.phase = "model"
    BY <1>3 DEF Candidate
  <2>. QED  BY <2>1, <2>2 DEF LearnerEntry, Idle
<1>5. learner = [q \in Owners |-> learner[q]]
  BY DEF MemoryInv, LearnersOK
<1>6. ASSUME NEW m \in r.supplied,
             learner' = [learner EXCEPT ![p].phase = "store", ![p].supplied = {m}]
      PROVE  MemoryInv'
  <2>1. PICK e : e = [[r EXCEPT !.phase = "store"] EXCEPT !.supplied = {m}]
    OBVIOUS
  <2>2. learner' = [learner EXCEPT ![p] = e]
    BY <1>3, <1>5, <1>6, <2>1
  <2>3. LearnerEntry(e)
    BY <1>4, <2>1 DEF LearnerEntry, LearnerFields
  <2>. QED  BY <1>1, <1>2, <2>2, <2>3, IdleFits, MemoryStill
<1>7. CASE learner' = [learner EXCEPT ![p].phase = "bill"]
  <2>1. PICK e : e = [r EXCEPT !.phase = "bill"]
    OBVIOUS
  <2>2. learner' = [learner EXCEPT ![p] = e]
    BY <1>3, <1>5, <1>7, <2>1
  <2>3. LearnerEntry(e)
    BY <1>4, <2>1 DEF LearnerEntry, LearnerFields
  <2>. QED  BY <1>1, <1>2, <2>2, <2>3, IdleFits, MemoryStill
<1>. QED  BY <1>3, <1>6, <1>7 DEF Candidate

LEMMA LearnEndsKeeps ==
  ASSUME MemoryInv, NEW p \in Owners, LearnEnds(p)
  PROVE  MemoryInv'
<1>1. UNCHANGED database /\ flush' = flush /\ asked' = asked /\ learner' = [learner EXCEPT ![p] = Idle]
  BY DEF LearnEnds
<1>2. OutboxOK'
  BY OutboxStays DEF LearnEnds
<1>3. FilesOK
  BY DEF MemoryInv
<1>4. learner[p].log \in Logs
  BY DEF LearnEnds, MemoryInv, LearnersOK, LearnerEntry, Idle
<1>5. PICK l \in Logs : l = learner[p].log
  BY <1>4
<1>6. Extend(l, Line("memory_usage", {})) /\ synced' = [synced EXCEPT ![l] = Len(file'[l])]
  BY <1>5 DEF LearnEnds
<1>7. PICK entry \in MemoryLines : entry.ids = {} /\ entry = Line("memory_usage", {})
  BY LinesOK DEF LineKinds, Line
<1>8. FilesOK' /\ FilesGrow
  BY <1>3, <1>6, <1>7, FilesExtend
<1>. QED  BY <1>1, <1>2, <1>8, IdleFits, MemoryRest

LEMMA AnsweredKeeps ==
  ASSUME MemoryInv, NEW p \in Owners, Answered(p)
  PROVE  MemoryInv'
<1>1. OutboxOK'
  BY OutboxStays DEF Answered
<1>. QED  BY <1>1, MemoryStill, IdleFits DEF Answered, disk

LEMMA WriteMarkdownKeeps ==
  ASSUME MemoryInv, NEW p \in Owners, WriteMarkdown(p)
  PROVE  MemoryInv'
<1>1. OutboxOK'
  BY OutboxStays DEF WriteMarkdown
<1>. QED  BY <1>1, MemoryStill, IdleFits DEF WriteMarkdown, disk

\* A turn that begins, or that is shown more, is shown nothing that is excluded.
LEMMA TurnKeeps ==
  ASSUME MemoryInv, NEW p \in Owners, Ask(p) \/ Recall(p)
  PROVE  MemoryInv'
<1>1. UNCHANGED database /\ UNCHANGED disk /\ flush' = flush /\ learner' = learner /\ outbox' = outbox
  BY DEF Ask, Recall
<1>2. FactsOK /\ FilesOK /\ FlushOK /\ OutboxOK /\ LearnersOK /\ AskedOK /\ ForgetReachesSessions
  BY DEF MemoryInv
<1>3. Quotable \subseteq Said /\ Quotable \cap excluded = {}
  BY DEF Quotable, Valid
<1>4. generation' = generation /\ excluded' = excluded /\ generation \in Nat
  BY <1>1, <1>2 DEF database, FactsOK
<1>5. \E e \in [phase : {"turn"}, gen : Nat, from : SUBSET Said] :
        /\ asked' = [asked EXCEPT ![p] = e]
        /\ e.gen <= generation
        /\ e.gen = generation => e.from \cap excluded = {}
  <2>1. CASE Ask(p)
    <3>1. asked' = [asked EXCEPT ![p] = [phase |-> "turn", gen |-> generation, from |-> Quotable]]
      BY <2>1 DEF Ask
    <3>2. [phase |-> "turn", gen |-> generation, from |-> Quotable] \in [phase : {"turn"}, gen : Nat, from : SUBSET Said]
      BY <1>3, <1>4
    <3>. WITNESS [phase |-> "turn", gen |-> generation, from |-> Quotable] \in [phase : {"turn"}, gen : Nat, from : SUBSET Said]
    <3>. QED  BY <3>1, <3>2, <1>3, <1>4
  <2>2. CASE Recall(p)
    <3>1. asked[p] # Idle /\ asked' = [asked EXCEPT ![p].from = @ \cup Quotable]
      BY <2>2 DEF Recall, Idle
    <3>2. asked[p] \in [phase : {"turn"}, gen : Nat, from : SUBSET Said]
      BY <1>2, <3>1 DEF AskedOK
    <3>3. PICK r : r = [asked[p] EXCEPT !.from = @ \cup Quotable]
      OBVIOUS
    <3>4. asked' = [asked EXCEPT ![p] = r]
      BY <1>2, <3>1, <3>3 DEF AskedOK
    <3>5. r \in [phase : {"turn"}, gen : Nat, from : SUBSET Said] /\ r.gen = asked[p].gen /\ r.from = asked[p].from \cup Quotable
      BY <1>3, <3>2, <3>3
    <3>6. asked[p].gen <= generation /\ (asked[p].gen = generation => asked[p].from \cap excluded = {})
      BY <1>2, <3>1 DEF AskedOK
    <3>. QED  BY <1>3, <3>4, <3>5, <3>6
  <2>. QED  BY <2>1, <2>2
<1>6. AskedOK'
  <2>1. PICK e \in [phase : {"turn"}, gen : Nat, from : SUBSET Said] :
        /\ asked' = [asked EXCEPT ![p] = e]
        /\ e.gen <= generation
        /\ e.gen = generation => e.from \cap excluded = {}
    BY <1>5
  <2>2. asked' \in [Owners -> {Idle} \cup [phase : {"turn"}, gen : Nat, from : SUBSET Said]]
    BY <1>2, <2>1 DEF AskedOK
  <2>3. \A q \in Owners : asked'[q] = asked[q] \/ asked'[q] = e
    BY <1>2, <2>1 DEF AskedOK
  <2>. QED  BY <1>2, <1>4, <2>1, <2>2, <2>3 DEF AskedOK
<1>7. FactsOK'
  BY <1>1, <1>2, FactsStay
<1>8. FilesOK' /\ FilesGrow
  BY <1>1, <1>2, FilesStay DEF disk, FilesOK
<1>9. FlushOK'
  BY <1>1, <1>2, <1>8, IdleFits, FlushKept
<1>10. OutboxOK' /\ LearnersOK'
  BY <1>1, <1>2 DEF OutboxOK, LearnersOK, LearnerEntry
<1>11. ForgetReachesSessions'
  BY <1>1, <1>2, <1>8, ForgetKept DEF database
<1>. QED  BY <1>6, <1>7, <1>8, <1>9, <1>10, <1>11 DEF MemoryInv

LEMMA OwedSessions ==
  ASSUME MemoryInv, NEW f
  PROVE  OwedFor(f) \subseteq Logs
BY DEF MemoryInv, FactsOK, OwedFor

\* A forget raises the generation: whatever was asked before is out of date.
LEMMA PurgeKeeps ==
  ASSUME MemoryInv, NEW f \in Said, fact[f] # <<>>, Purge(f),
         file' = file, synced' = synced, flush' = flush, learner' = learner, asked' = asked, OutboxOK'
  PROVE  MemoryInv'
<1>1. FactsOK /\ FilesOK /\ FlushOK /\ OutboxOK /\ LearnersOK /\ AskedOK /\ ForgetReachesSessions
  BY DEF MemoryInv
<1>2. PICK sources : sources = Elements(fact[f])
  OBVIOUS
<1>3. /\ excluded' = excluded \cup sources
      /\ forgotten' = forgotten \cup {f}
      /\ generation' = generation + 1 + Cardinality(sources \ excluded)
      /\ queued' = queued \cup {[id |-> f, log |-> m.log] : m \in sources}
      /\ fact' = [fact EXCEPT ![f] = <<>>]
  BY <1>2 DEF Purge
<1>4. fact[f] \in Seq(Said)
  BY <1>1 DEF FactsOK
<1>5. IsFiniteSet(sources) /\ sources \subseteq Said /\ f \in sources
  BY <1>1, <1>2, <1>4, ElementsFinite DEF FactsOK
<1>6. Cardinality(sources \ excluded) \in Nat
  BY <1>5, FS_Difference, FS_CardinalityType
<1>7. generation \in Nat /\ generation' \in Nat /\ generation < generation'
  BY <1>1, <1>3, <1>6 DEF FactsOK
<1>8. FactsOK'
  <2>1. fact' \in [Said -> Seq(Said)]
    BY <1>1, <1>3 DEF FactsOK
  <2>2. \A g \in Said : fact'[g] # <<>> => g \in Elements(fact'[g])
    BY <1>1, <1>3 DEF FactsOK
  <2>3. queued' \subseteq [id : Said, log : Logs]
    BY <1>1, <1>3, <1>5, SaidAssumption DEF FactsOK
  <2>4. forgotten' \subseteq Said /\ excluded' \subseteq Said
    BY <1>1, <1>3, <1>5 DEF FactsOK
  <2>. QED  BY <1>7, <2>1, <2>2, <2>3, <2>4 DEF FactsOK
<1>9. FilesOK' /\ FilesGrow
  BY <1>1, FilesStay DEF FilesOK
<1>10. FlushOK'
  <2>1. \E p : p \in Owners \/ Owners = {}
    OBVIOUS
  <2>2. CASE Owners = {}
    BY <2>2, <1>1 DEF FlushOK
  <2>3. CASE Owners # {}
    BY <2>3, <1>1, <1>9, IdleFits, FlushKept
  <2>. QED  BY <2>2, <2>3
<1>11. LearnersOK'
  BY <1>1 DEF LearnersOK, LearnerEntry
<1>12. AskedOK'
  <2>1. \A p \in Owners : asked[p] # Idle => asked[p].gen \in Nat
    BY <1>1 DEF AskedOK
  <2>2. \A p \in Owners : asked[p] # Idle => asked[p].gen <= generation
    BY <1>1 DEF AskedOK
  <2>3. \A p \in Owners : asked[p] # Idle => asked[p].gen <= generation' /\ asked[p].gen # generation'
    BY <1>7, <2>1, <2>2
  <2>. QED  BY <1>1, <2>3 DEF AskedOK
<1>13. ForgetReachesSessions'
  <2>. SUFFICES ASSUME NEW g \in forgotten', [id |-> g, log |-> g.log] \notin queued'
                PROVE  \E i \in 1 .. synced'[g.log] : file'[g.log][i] = Line("forget", {g})
    BY DEF ForgetReachesSessions
  <2>1. g # f
    BY <1>3, <1>5
  <2>2. g \in forgotten /\ [id |-> g, log |-> g.log] \notin queued
    BY <1>3, <2>1
  <2>. QED  BY <1>1, <2>2 DEF ForgetReachesSessions
<1>. QED  BY <1>8, <1>9, <1>10, <1>11, <1>12, <1>13 DEF MemoryInv

LEMMA ForgetKeeps ==
  ASSUME MemoryInv, NEW p \in Owners, Forget(p)
  PROVE  MemoryInv'
<1>1. file' = file /\ synced' = synced /\ flush' = flush /\ learner' = learner /\ asked' = asked
  BY DEF Forget, disk
<1>2. PICK f \in Said :
       \/ /\ fact[f] # <<>>
          /\ Purge(f)
          /\ outbox' = [outbox EXCEPT ![p] = {m.log : m \in Elements(fact[f])}]
       \/ /\ f \in forgotten /\ OwedFor(f) # {}
          /\ outbox' = [outbox EXCEPT ![p] = OwedFor(f)]
          /\ UNCHANGED database
  BY DEF Forget
<1>3. fact[f] \in Seq(Said)
  BY DEF MemoryInv, FactsOK
<1>4. {m.log : m \in Elements(fact[f])} \subseteq Logs
  BY <1>3, ElementsFinite, SaidAssumption
<1>5. OutboxOK'
  <2>1. OwedFor(f) \subseteq Logs
    BY OwedSessions
  <2>2. PICK s \in SUBSET Logs : outbox' = [outbox EXCEPT ![p] = s]
    BY <1>2, <1>4, <2>1
  <2>. QED  BY <2>2 DEF OutboxOK, MemoryInv
<1>. QED  BY <1>1, <1>2, <1>5, PurgeKeeps, MemoryStill, IdleFits

\* A revision that is stored rests on evidence that is not excluded.
LEMMA RevisionKeeps ==
  ASSUME MemoryInv, NEW f \in Said, NEW m \in Said, NEW q \in Seq(Said),
         q # <<>>, f \in Elements(q), fact' = [fact EXCEPT ![f] = q],
         UNCHANGED <<forgotten, excluded, generation, queued>>,
         file' = file, synced' = synced, flush' = flush, OutboxOK', LearnersOK', asked' = asked
  PROVE  MemoryInv'
<1>1. FactsOK /\ FilesOK /\ FlushOK /\ OutboxOK /\ LearnersOK /\ AskedOK /\ ForgetReachesSessions
  BY DEF MemoryInv
<1>2. FactsOK'
  BY <1>1 DEF FactsOK
<1>3. FilesOK' /\ FilesGrow
  BY <1>1, FilesStay DEF FilesOK
<1>4. FlushOK'
  BY <1>1 DEF FlushOK, HasMark, MarkLine
<1>5. AskedOK'
  BY <1>1 DEF AskedOK
<1>6. ForgetReachesSessions'
  BY <1>1, <1>3, ForgetKept
<1>. QED  BY <1>2, <1>3, <1>4, <1>5, <1>6 DEF MemoryInv

LEMMA SingletonHolds ==
  ASSUME NEW m \in Said
  PROVE  <<m>> \in Seq(Said) /\ <<m>> # <<>> /\ Elements(<<m>>) = {m}
BY DEF Elements

LEMMA AppendHolds ==
  ASSUME NEW m \in Said, NEW q \in Seq(Said)
  PROVE  Append(q, m) \in Seq(Said) /\ Append(q, m) # <<>> /\ Elements(Append(q, m)) = Elements(q) \cup {m}
<1>1. /\ Append(q, m) \in Seq(Said) /\ Len(Append(q, m)) = Len(q) + 1 /\ Append(q, m)[Len(q) + 1] = m
      /\ DOMAIN Append(q, m) = 1 .. (Len(q) + 1) /\ DOMAIN q = 1 .. Len(q) /\ Len(q) \in Nat
      /\ \A i \in 1 .. Len(q) : Append(q, m)[i] = q[i]
  OBVIOUS
<1>2. Append(q, m) # <<>>
  BY <1>1
<1>3. ASSUME NEW x PROVE x \in Elements(Append(q, m)) <=> x \in Elements(q) \cup {m}
  <2>1. ASSUME NEW i \in 1 .. (Len(q) + 1) PROVE i \in 1 .. Len(q) \/ i = Len(q) + 1
    BY <1>1
  <2>2. x \in Elements(Append(q, m)) <=> \E i \in 1 .. (Len(q) + 1) : x = Append(q, m)[i]
    BY <1>1 DEF Elements
  <2>3. x \in Elements(q) <=> \E i \in 1 .. Len(q) : x = q[i]
    BY <1>1 DEF Elements
  <2>4. \A i \in 1 .. Len(q) : i \in 1 .. (Len(q) + 1)
    BY <1>1
  <2>5. Len(q) + 1 \in 1 .. (Len(q) + 1)
    BY <1>1
  <2>. QED  BY <1>1, <2>1, <2>2, <2>3, <2>4, <2>5
<1>. QED  BY <1>1, <1>2, <1>3

\* What a learner and a correction do to the facts: nothing, or one revision more,
\* of evidence that can be attached.
LearnedFrom(f, m) ==
  /\ Attachable(f, m)
  /\ \/ f = m /\ fact' = [fact EXCEPT ![f] = <<m>>]
     \/ fact[f] # <<>> /\ fact' = [fact EXCEPT ![f] = Append(fact[f], m)]

LEMMA LearnStoresOneRevision ==
  ASSUME MemoryInv, NEW p \in Owners, LearnStores(p)
  PROVE  fact' = fact \/ \E f \in Said, m \in Said : LearnedFrom(f, m)
<1>1. PICK m \in learner[p].supplied :
         Remember(m, learner[p].gen, learner[p].log, learner[p].version)
  BY DEF LearnStores
<1>2. learner[p].phase = "store" /\ LearnerEntry(learner[p])
  BY DEF LearnStores, MemoryInv, LearnersOK
<1>3. m \in Said
  BY <1>1, <1>2 DEF LearnerEntry, Idle
<1>4. CASE fact' = fact
  BY <1>4
<1>5. CASE Attachable(m, m) /\ fact' = Added(m)
  BY <1>3, <1>5 DEF LearnedFrom, Added
<1>. QED  BY <1>1, <1>4, <1>5 DEF Remember

LEMMA CorrectStoresOneRevision ==
  ASSUME MemoryInv, NEW p \in Owners, Correct(p)
  PROVE  \E f \in Said, m \in Said : LearnedFrom(f, m)
<1>1. PICK f \in Said, m \in Said : fact[f] # <<>> /\ Attachable(f, m) /\ fact' = Revised(f, m)
  BY DEF Correct
<1>2. fact' = [fact EXCEPT ![f] = Append(fact[f], m)]
  BY <1>1 DEF Revised, MemoryInv, FactsOK
<1>. QED  BY <1>1, <1>2 DEF LearnedFrom

LEMMA OneRevisionKeeps ==
  ASSUME MemoryInv, NEW f \in Said, NEW m \in Said, LearnedFrom(f, m),
         UNCHANGED <<forgotten, excluded, generation, queued>>,
         file' = file, synced' = synced, flush' = flush, OutboxOK', LearnersOK', asked' = asked
  PROVE  MemoryInv'
<1>1. fact[f] \in Seq(Said) /\ (fact[f] # <<>> => f \in Elements(fact[f]))
  BY DEF MemoryInv, FactsOK
<1>2. CASE f = m /\ fact' = [fact EXCEPT ![f] = <<m>>]
  BY <1>2, SingletonHolds, RevisionKeeps
<1>3. CASE fact[f] # <<>> /\ fact' = [fact EXCEPT ![f] = Append(fact[f], m)]
  <2>1. PICK q : q = Append(fact[f], m)
    OBVIOUS
  <2>2. q \in Seq(Said) /\ q # <<>> /\ Elements(q) = Elements(fact[f]) \cup {m}
    BY <1>1, <2>1, AppendHolds
  <2>3. f \in Elements(q) /\ fact' = [fact EXCEPT ![f] = q]
    BY <1>1, <1>3, <2>1, <2>2
  <2>. QED  BY <2>2, <2>3, RevisionKeeps
<1>. QED  BY <1>2, <1>3 DEF LearnedFrom

LEMMA OneRevisionIsClean ==
  ASSUME MemoryInv, NEW f \in Said, NEW m \in Said, LearnedFrom(f, m)
  PROVE  \A g \in Said : (Elements(fact'[g]) \ Elements(fact[g])) \cap excluded = {}
<1>1. fact \in [Said -> Seq(Said)] /\ fact[f] \in Seq(Said) /\ m \notin excluded
  BY DEF MemoryInv, FactsOK, LearnedFrom, Attachable, Valid
<1>2. ASSUME NEW g \in Said, g # f PROVE fact'[g] = fact[g]
  BY <1>1, <1>2 DEF LearnedFrom
<1>3. Elements(fact'[f]) \subseteq Elements(fact[f]) \cup {m}
  <2>1. CASE fact' = [fact EXCEPT ![f] = <<m>>]
    BY <2>1, <1>1, SingletonHolds
  <2>2. CASE fact' = [fact EXCEPT ![f] = Append(fact[f], m)]
    BY <2>2, <1>1, AppendHolds
  <2>. QED  BY <2>1, <2>2 DEF LearnedFrom
<1>4. \A x : x \notin {m} \/ x \notin excluded
  BY <1>1
<1>. QED  BY <1>2, <1>3, <1>4

LEMMA LearnStoresKeeps ==
  ASSUME MemoryInv, NEW p \in Owners, LearnStores(p)
  PROVE  MemoryInv'
<1>1. /\ UNCHANGED <<forgotten, excluded, generation, queued>> /\ file' = file /\ synced' = synced
      /\ flush' = flush /\ asked' = asked /\ learner' = [learner EXCEPT ![p].phase = "bill"]
  BY DEF LearnStores, disk
<1>2. OutboxOK'
  BY OutboxStays DEF LearnStores
<1>3. PICK r : r = learner[p]
  OBVIOUS
<1>4. LearnerEntry(r) /\ r.phase = "store"
  BY <1>3 DEF LearnStores, MemoryInv, LearnersOK
<1>5. DOMAIN r = LearnerFields /\ r.log \in Logs /\ r.supplied \subseteq Said
  BY <1>4 DEF LearnerEntry, Idle
<1>6. PICK e : e = [r EXCEPT !.phase = "bill"]
  OBVIOUS
<1>7. LearnerEntry(e)
  BY <1>5, <1>6 DEF LearnerEntry, LearnerFields
<1>8. learner' = [learner EXCEPT ![p] = e]
  BY <1>1, <1>3, <1>6 DEF MemoryInv, LearnersOK
<1>9. LearnersOK'
  BY <1>7, <1>8, LearnersStay DEF MemoryInv
<1>10. CASE fact' = fact
  BY <1>1, <1>2, <1>7, <1>8, <1>10, MemoryStill, IdleFits DEF database
<1>11. CASE \E f \in Said, m \in Said : LearnedFrom(f, m)
  BY <1>1, <1>2, <1>9, <1>11, OneRevisionKeeps
<1>. QED  BY <1>10, <1>11, LearnStoresOneRevision

LEMMA CorrectKeeps ==
  ASSUME MemoryInv, NEW p \in Owners, Correct(p)
  PROVE  MemoryInv'
<1>1. /\ UNCHANGED <<forgotten, excluded, generation, queued>> /\ file' = file /\ synced' = synced
      /\ flush' = flush /\ asked' = asked /\ learner' = learner
  BY DEF Correct, disk
<1>2. OutboxOK'
  BY OutboxStays DEF Correct
<1>3. LearnersOK'
  BY <1>1 DEF MemoryInv, LearnersOK, LearnerEntry
<1>. QED  BY <1>1, <1>2, <1>3, CorrectStoresOneRevision, OneRevisionKeeps

LEMMA MemoryInitHolds == MemoryInit => MemoryInv
<1>. SUFFICES ASSUME MemoryInit PROVE MemoryInv
  OBVIOUS
<1>1. FactsOK
  BY DEF MemoryInit, FactsOK
<1>2. FilesOK
  BY DEF MemoryInit, FilesOK
<1>3. FlushOK
  BY DEF MemoryInit, FlushOK, Idle
<1>4. OutboxOK /\ LearnersOK /\ AskedOK
  BY DEF MemoryInit, OutboxOK, LearnersOK, LearnerEntry, AskedOK
<1>5. ForgetReachesSessions
  BY DEF MemoryInit, ForgetReachesSessions
<1>. QED  BY <1>1, <1>2, <1>3, <1>4, <1>5 DEF MemoryInv

LEMMA MemoryStutters == MemoryInv /\ UNCHANGED memoryVars => MemoryInv'
<1>. SUFFICES ASSUME MemoryInv, UNCHANGED memoryVars PROVE MemoryInv'
  OBVIOUS
<1>1. UNCHANGED <<fact, forgotten, excluded, generation, queued>> /\ UNCHANGED <<file, synced, holder, flush, outbox, learner, asked>>
  BY DEF memoryVars, database
<1>2. FactsOK'
  BY <1>1 DEF MemoryInv, FactsOK
<1>3. FilesOK'
  BY <1>1 DEF MemoryInv, FilesOK
<1>4. FlushOK'
  BY <1>1 DEF MemoryInv, FlushOK, HasMark
<1>5. OutboxOK' /\ LearnersOK' /\ AskedOK'
  BY <1>1 DEF MemoryInv, OutboxOK, LearnersOK, AskedOK
<1>6. ForgetReachesSessions'
  BY <1>1 DEF MemoryInv, ForgetReachesSessions
<1>. QED  BY <1>2, <1>3, <1>4, <1>5, <1>6 DEF MemoryInv

LEMMA MemoryStep == MemoryInv /\ [MemoryNext]_memoryVars => MemoryInv'
<1>1. ASSUME MemoryInv, NEW p \in Owners,
             \/ Attach(p) \/ Detach(p) \/ Hide(p) \/ Dies(p)
             \/ Forget(p) \/ Visit(p) \/ Mark(p) \/ SyncMark(p) \/ Acknowledge(p)
             \/ LearnBegins(p) \/ Candidate(p) \/ LearnStores(p) \/ LearnEnds(p)
             \/ Ask(p) \/ Answered(p) \/ Recall(p) \/ Correct(p) \/ WriteMarkdown(p)
      PROVE  MemoryInv'
  BY <1>1, AttachKeeps, DetachKeeps, HideKeeps, DiesKeeps, ForgetKeeps, VisitKeeps, MarkKeeps,
     SyncMarkKeeps, AcknowledgeKeeps, LearnBeginsKeeps, CandidateKeeps, LearnStoresKeeps,
     LearnEndsKeeps, TurnKeeps, AnsweredKeeps, CorrectKeeps, WriteMarkdownKeeps
<1>. QED  BY <1>1, PowerFailsKeeps, MemoryStutters DEF MemoryNext

LEMMA MemoryAlways == MemorySpec => []MemoryInv
BY MemoryInitHolds, MemoryStep, PTL DEF MemorySpec

\* A forgotten fact is gone from its session for good, or its marker is still owed,
\* whatever process dies and whenever the power fails.
THEOREM ForgetsReachSessions == MemorySpec => []ForgetReachesSessions
<1>1. MemoryInv => ForgetReachesSessions
  BY DEF MemoryInv
<1>. QED  BY <1>1, MemoryAlways, PTL

CleanStore ==
  /\ \A f \in Said : (Elements(fact'[f]) \ Elements(fact[f])) \cap excluded = {}
  /\ (markdown' \ markdown) \cap excluded = {}

LEMMA QuietStore == fact' = fact /\ markdown' = markdown => CleanStore
BY DEF CleanStore

LEMMA ForgetStoresNothing ==
  ASSUME MemoryInv, NEW p \in Owners, Forget(p)
  PROVE  CleanStore
<1>1. markdown' = markdown
  BY DEF Forget
<1>2. PICK f \in Said : (fact[f] # <<>> /\ Purge(f)) \/ UNCHANGED database
  BY DEF Forget
<1>3. CASE UNCHANGED database
  BY <1>1, <1>3, QuietStore DEF database
<1>4. CASE Purge(f)
  <2>1. fact' = [fact EXCEPT ![f] = <<>>] /\ fact \in [Said -> Seq(Said)]
    BY <1>4 DEF Purge, MemoryInv, FactsOK
  <2>2. ASSUME NEW g \in Said PROVE Elements(fact'[g]) \subseteq Elements(fact[g])
    BY <2>1 DEF Elements
  <2>. QED  BY <1>1, <2>2 DEF CleanStore
<1>. QED  BY <1>2, <1>3, <1>4

LEMMA WritesAreClean ==
  ASSUME MemoryInv, NEW p \in Owners, WriteMarkdown(p)
  PROVE  CleanStore
<1>1. fact' = fact /\ generation = asked[p].gen /\ markdown' = markdown \cup asked[p].from
  BY DEF WriteMarkdown, WriteGuarded, database
<1>2. asked[p] # Idle
  BY DEF WriteMarkdown, Idle
<1>3. asked[p].from \cap excluded = {}
  BY <1>1, <1>2 DEF MemoryInv, AskedOK
<1>. QED  BY <1>1, <1>3 DEF CleanStore

LEMMA StoresAreClean == MemoryInv /\ [MemoryNext]_memoryVars => CleanStore
<1>. SUFFICES ASSUME MemoryInv, [MemoryNext]_memoryVars PROVE CleanStore
  OBVIOUS
<1>1. CASE UNCHANGED memoryVars \/ PowerFails
  BY <1>1, QuietStore DEF memoryVars, PowerFails, database
<1>2. ASSUME NEW p \in Owners,
             \/ Attach(p) \/ Detach(p) \/ Hide(p) \/ Dies(p)
             \/ Visit(p) \/ Mark(p) \/ SyncMark(p) \/ Acknowledge(p)
             \/ LearnBegins(p) \/ Candidate(p) \/ LearnEnds(p)
             \/ Ask(p) \/ Answered(p) \/ Recall(p)
      PROVE  CleanStore
  <2>1. markdown' = markdown
    BY <1>2 DEF Attach, Detach, Hide, Dies, Visit, Mark, SyncMark, Acknowledge, LearnBegins,
         Candidate, LearnEnds, Ask, Answered, Recall
  <2>2. fact' = fact
    BY <1>2 DEF Attach, Detach, Hide, Dies, Visit, Mark, SyncMark, Acknowledge, LearnBegins,
         Candidate, LearnEnds, Ask, Answered, Recall, database
  <2>. QED  BY <2>1, <2>2, QuietStore
<1>3. ASSUME NEW p \in Owners, LearnStores(p) \/ Correct(p) PROVE CleanStore
  <2>1. markdown' = markdown
    BY <1>3 DEF LearnStores, Correct
  <2>2. CASE fact' = fact
    BY <2>1, <2>2, QuietStore
  <2>3. CASE \E f \in Said, m \in Said : LearnedFrom(f, m)
    BY <2>1, <2>3, OneRevisionIsClean DEF CleanStore
  <2>. QED  BY <1>3, <2>2, <2>3, LearnStoresOneRevision, CorrectStoresOneRevision
<1>. QED  BY <1>1, <1>2, <1>3, ForgetStoresNothing, WritesAreClean DEF MemoryNext

\* No learner, correction or Markdown write that was under way when a forget
\* committed stores what is excluded by then.
THEOREM ForgottenNotStored == MemorySpec => NothingForgottenStored
<1>1. MemoryInv /\ [MemoryNext]_memoryVars => [CleanStore]_memoryVars
  BY StoresAreClean
<1>. QED  BY <1>1, MemoryAlways, PTL DEF MemorySpec, NothingForgottenStored, CleanStore

-----------------------------------------------------------------------------
(* The chat's lines. *)

Distinct(x) == \A i, j \in 1 .. Len(x) : x[i] = x[j] => i = j

\* The entries of x are in the order e gives them.
InOrder(x, e) ==
  \A i, j \in 1 .. Len(e) :
    i < j => \A m, n \in 1 .. Len(x) : x[m] = e[i] /\ x[n] = e[j] => m < n

\* What x holds comes before what y holds, in e.
Precedes(x, y, e) ==
  \A i, j \in 1 .. Len(e) : e[i] \in LinesOf(x) /\ e[j] \in LinesOf(y) => i < j

IsTail(x, e) ==
  /\ Len(x) <= Len(e)
  /\ \A i \in 1 .. Len(x) : x[i] = e[Len(e) - Len(x) + i]

TaskKinds == {"turn", "loop", "chain", "worker"}
TaskPhases == {"boot", "model", "batch", "final", "gather"}
Drivers == {"turn", "loop"}
TaskRecords ==
  [kind : TaskKinds, phase : TaskPhases, line : Lines \cup {NoLine}, rounds : Int,
   got : [Queues -> Seq(Lines)], cancelled : BOOLEAN]

\* What a task has in its hands: fetched lines, and a prompt it has not begun.
Fetched(t, q) == IF t = NoTask THEN {} ELSE LinesOf(t.got[q])
Booted(t) == IF t # NoTask /\ t.phase = "boot" THEN {t.line} \ {NoLine} ELSE {}

ProperTask(t) ==
  \/ t = NoTask
  \/ /\ t \in TaskRecords
     /\ t.phase \notin {"final", "gather"} => t.got = Nothing
     /\ t.phase \in {"final", "gather"} => t.kind \in Drivers
     /\ t.phase = "batch" => t.kind # "worker"
     /\ \A q \in Queues : Len(t.got[q]) <= 1
     /\ t.kind # "turn" => t.line = NoLine

PlaceNames ==
  {"none", "guard", "mention", "refused", "given", "queued", "taken", "recorded",
   "cancelled"}

ChatTypes ==
  /\ line \in [Lines -> [at : PlaceNames, queue : Queues]]
  /\ waiting \in [Queues -> Seq(Lines)]
  /\ entered \in [Queues -> Seq(Lines)]
  /\ recorded \in Seq(Lines)
  /\ tasks = [s \in TaskSlots |-> tasks[s]]
  /\ \A s \in TaskSlots : ProperTask(tasks[s])
  /\ overlapped \in BOOLEAN
  /\ turnTask \in TaskSlots \cup {0} /\ loopTask \in TaskSlots \cup {0}

Queued(q) == [at |-> "queued", queue |-> q]

WaitingPlaced ==
  \A q \in Queues :
    /\ \A l \in LinesOf(waiting[q]) : line[l] = Queued(q)
    /\ Distinct(waiting[q])
RecordedPlaced ==
  /\ \A l \in LinesOf(recorded) : line[l].at = "recorded"
  /\ Distinct(recorded)
FetchedPlaced ==
  \A s \in TaskSlots : \A q \in Queues : \A l \in Fetched(tasks[s], q) :
    line[l] = Queued(q) /\ l \notin LinesOf(waiting[q])
BootedPlaced ==
  \A s \in TaskSlots : \A l \in Booted(tasks[s]) : line[l].at = "taken"
HandsApart ==
  \A s \in TaskSlots : \A r \in TaskSlots \ {s} :
    /\ \A q \in Queues : Fetched(tasks[s], q) \cap Fetched(tasks[r], q) = {}
    /\ Booted(tasks[s]) \cap Booted(tasks[r]) = {}
Placed ==
  WaitingPlaced /\ RecordedPlaced /\ FetchedPlaced /\ BootedPlaced /\ HandsApart

EnteredOnce ==
  \A q \in Queues :
    /\ Distinct(entered[q])
    /\ \A l \in LinesOf(entered[q]) :
         /\ line[l].at \in {"queued", "taken", "recorded", "cancelled"}
         /\ line[l].queue = q
WaitingIsTail == \A q \in Queues : IsTail(waiting[q], entered[q])
OneDriver ==
  ~overlapped => \A s, r \in TaskSlots :
                   tasks[s].kind \in Drivers /\ tasks[r].kind \in Drivers => s = r
HandsFollow ==
  ~overlapped => \A q \in Queues : \A i, j \in 1 .. Len(entered[q]) :
    /\ entered[q][i] \in LinesOf(recorded)
    /\ \E s \in TaskSlots : entered[q][j] \in Fetched(tasks[s], q) \cup Booted(tasks[s])
    => i < j
RecordedInOrder == ~overlapped => \A q \in Queues : InOrder(recorded, entered[q])

ChatInv ==
  /\ ChatTypes /\ Placed /\ EnteredOnce /\ WaitingIsTail
  /\ OneDriver /\ HandsFollow /\ RecordedInOrder

LEMMA JoinLines ==
  ASSUME NEW S, NEW x \in Seq(S), NEW y \in Seq(S)
  PROVE  x \o y \in Seq(S) /\ LinesOf(x \o y) = LinesOf(x) \cup LinesOf(y)
<1>1. x \o y \in Seq(S) /\ Len(x \o y) = Len(x) + Len(y)
  OBVIOUS
<1>2. ASSUME NEW l \in LinesOf(x \o y) PROVE l \in LinesOf(x) \cup LinesOf(y)
  <2>1. PICK i \in 1 .. Len(x \o y) : l = (x \o y)[i]
    BY <1>1 DEF LinesOf
  <2>2. CASE i <= Len(x)
    BY <2>1, <2>2 DEF LinesOf
  <2>3. CASE i > Len(x)
    <3>1. i - Len(x) \in 1 .. Len(y) /\ l = y[i - Len(x)]
      BY <1>1, <2>1, <2>3
    <3> QED
      BY <3>1 DEF LinesOf
  <2> QED
    BY <1>1, <2>2, <2>3
<1>3. ASSUME NEW l \in LinesOf(x) PROVE l \in LinesOf(x \o y)
  <2>1. PICK i \in 1 .. Len(x) : l = x[i]
    BY DEF LinesOf
  <2>2. i \in 1 .. Len(x \o y) /\ l = (x \o y)[i]
    BY <1>1, <2>1
  <2> QED
    BY <1>1, <2>2 DEF LinesOf
<1>4. ASSUME NEW l \in LinesOf(y) PROVE l \in LinesOf(x \o y)
  <2>1. PICK i \in 1 .. Len(y) : l = y[i]
    BY DEF LinesOf
  <2>2. Len(x) + i \in 1 .. Len(x \o y) /\ l = (x \o y)[Len(x) + i]
    BY <1>1, <2>1
  <2> QED
    BY <1>1, <2>2 DEF LinesOf
<1> QED
  BY <1>1, <1>2, <1>3, <1>4

LEMMA JoinDistinct ==
  ASSUME NEW S, NEW x \in Seq(S), NEW y \in Seq(S), Distinct(x), Distinct(y),
         LinesOf(x) \cap LinesOf(y) = {}
  PROVE  Distinct(x \o y)
<1>. DEFINE z == x \o y
<1>1. z \in Seq(S) /\ Len(z) = Len(x) + Len(y)
  OBVIOUS
<1>2. ASSUME NEW i \in 1 .. Len(z)
      PROVE  \/ i \in 1 .. Len(x) /\ z[i] = x[i] /\ z[i] \in LinesOf(x)
             \/ /\ i - Len(x) \in 1 .. Len(y) /\ z[i] = y[i - Len(x)]
                /\ z[i] \in LinesOf(y)
  <2>1. CASE i <= Len(x)
    BY <1>1, <2>1 DEF LinesOf
  <2>2. CASE i > Len(x)
    <3>1. i - Len(x) \in 1 .. Len(y) /\ z[i] = y[i - Len(x)]
      BY <1>1, <2>2
    <3> QED
      BY <3>1 DEF LinesOf
  <2> QED
    BY <1>1, <2>1, <2>2
<1>3. ASSUME NEW i \in 1 .. Len(z), NEW j \in 1 .. Len(z), z[i] = z[j] PROVE i = j
  <2>. HIDE DEF z
  <2>1. CASE i \in 1 .. Len(x) /\ z[i] = x[i] /\ z[i] \in LinesOf(x)
    <3>1. j \in 1 .. Len(x) /\ z[j] = x[j]
      BY <1>2, <1>3, <2>1
    <3> QED
      BY <1>3, <2>1, <3>1 DEF Distinct
  <2>2. CASE i - Len(x) \in 1 .. Len(y) /\ z[i] = y[i - Len(x)] /\ z[i] \in LinesOf(y)
    <3>1. j - Len(x) \in 1 .. Len(y) /\ z[j] = y[j - Len(x)]
      BY <1>2, <1>3, <2>2
    <3>2. i - Len(x) = j - Len(x)
      BY <1>3, <2>2, <3>1 DEF Distinct
    <3> QED
      BY <1>1, <3>2
  <2> QED
    BY <1>2, <2>1, <2>2
<1> QED
  BY <1>3 DEF Distinct

LEMMA JoinInOrder ==
  ASSUME NEW S, NEW x \in Seq(S), NEW y \in Seq(S), NEW e \in Seq(S),
         InOrder(x, e), InOrder(y, e), Precedes(x, y, e)
  PROVE  InOrder(x \o y, e)
<1>. DEFINE z == x \o y
<1>1. z \in Seq(S) /\ Len(z) = Len(x) + Len(y)
  OBVIOUS
<1>2. ASSUME NEW i \in 1 .. Len(z)
      PROVE  \/ i \in 1 .. Len(x) /\ z[i] = x[i] /\ z[i] \in LinesOf(x)
             \/ /\ i - Len(x) \in 1 .. Len(y) /\ z[i] = y[i - Len(x)]
                /\ z[i] \in LinesOf(y)
  <2>1. CASE i <= Len(x)
    BY <1>1, <2>1 DEF LinesOf
  <2>2. CASE i > Len(x)
    <3>1. i - Len(x) \in 1 .. Len(y) /\ z[i] = y[i - Len(x)]
      BY <1>1, <2>2
    <3> QED
      BY <3>1 DEF LinesOf
  <2> QED
    BY <1>1, <2>1, <2>2
<1>3. ASSUME NEW i \in 1 .. Len(e), NEW j \in 1 .. Len(e), i < j,
             NEW m \in 1 .. Len(z), NEW n \in 1 .. Len(z), z[m] = e[i], z[n] = e[j]
      PROVE  m < n
  <2>. HIDE DEF z
  <2>1. CASE m \in 1 .. Len(x) /\ z[m] = x[m]
    <3>1. CASE n \in 1 .. Len(x) /\ z[n] = x[n]
      BY <1>3, <2>1, <3>1 DEF InOrder
    <3>2. CASE n - Len(x) \in 1 .. Len(y)
      BY <2>1, <3>2
    <3> QED
      BY <1>2, <3>1, <3>2
  <2>2. CASE m - Len(x) \in 1 .. Len(y) /\ z[m] = y[m - Len(x)] /\ z[m] \in LinesOf(y)
    <3>1. CASE z[n] \in LinesOf(x)
      <4>1. j < i
        BY <1>3, <2>2, <3>1 DEF Precedes
      <4> QED
        BY <1>3, <4>1
    <3>2. CASE n - Len(x) \in 1 .. Len(y) /\ z[n] = y[n - Len(x)]
      <4>1. m - Len(x) < n - Len(x)
        BY <1>3, <2>2, <3>2 DEF InOrder
      <4> QED
        BY <1>1, <4>1
    <3> QED
      BY <1>2, <3>1, <3>2
  <2> QED
    BY <1>2, <2>1, <2>2
<1> QED
  BY <1>3 DEF InOrder

LEMMA EmptyFacts ==
  /\ LinesOf(<<>>) = {} /\ Distinct(<<>>)
  /\ \A e : InOrder(<<>>, e)
  BY DEF LinesOf, Distinct, InOrder

LEMMA OneFacts ==
  ASSUME NEW S, NEW x \in Seq(S), Len(x) <= 1
  PROVE  /\ Distinct(x)
         /\ \A e \in Seq(S) : Distinct(e) => InOrder(x, e)
<1>1. \A i, j \in 1 .. Len(x) : i = 1 /\ j = 1
  OBVIOUS
<1>2. Distinct(x)
  BY <1>1 DEF Distinct
<1>3. ASSUME NEW e \in Seq(S), Distinct(e) PROVE InOrder(x, e)
  BY <1>1, <1>3 DEF InOrder, Distinct
<1> QED
  BY <1>2, <1>3

LEMMA TailFacts ==
  ASSUME NEW S, NEW x \in Seq(S), x # <<>>
  PROVE  /\ Head(x) \in LinesOf(x) /\ Head(x) \in S
         /\ Tail(x) \in Seq(S) /\ LinesOf(Tail(x)) \subseteq LinesOf(x)
         /\ Distinct(x) => Distinct(Tail(x)) /\ Head(x) \notin LinesOf(Tail(x))
         /\ \A e \in Seq(S) : IsTail(x, e) => IsTail(Tail(x), e)
<1>. DEFINE z == Tail(x)
<1>1. /\ z \in Seq(S) /\ Len(z) = Len(x) - 1 /\ Len(x) >= 1
      /\ \A i \in 1 .. Len(z) : i + 1 \in 1 .. Len(x) /\ z[i] = x[i + 1]
      /\ Head(x) = x[1] /\ Head(x) \in S
  OBVIOUS
<1>. HIDE DEF z
<1>2. Head(x) \in LinesOf(x)
  BY <1>1 DEF LinesOf
<1>3. LinesOf(z) \subseteq LinesOf(x)
  BY <1>1 DEF LinesOf
<1>4. ASSUME Distinct(x) PROVE Distinct(z)
  <2>1. ASSUME NEW i \in 1 .. Len(z), NEW j \in 1 .. Len(z), z[i] = z[j] PROVE i = j
    <3>1. i + 1 = j + 1
      BY <1>1, <1>4, <2>1 DEF Distinct
    <3> QED
      BY <3>1
  <2> QED
    BY <2>1 DEF Distinct
<1>5. ASSUME Distinct(x), Head(x) \in LinesOf(z) PROVE FALSE
  <2>1. PICK i \in 1 .. Len(z) : z[i] = x[1]
    BY <1>1, <1>5 DEF LinesOf
  <2>2. i + 1 = 1
    BY <1>1, <1>5, <2>1 DEF Distinct
  <2> QED
    BY <2>2
<1>6. ASSUME NEW e \in Seq(S), IsTail(x, e) PROVE IsTail(z, e)
  <2>1. ASSUME NEW i \in 1 .. Len(z) PROVE z[i] = e[Len(e) - Len(z) + i]
    <3>1. x[i + 1] = e[Len(e) - Len(x) + (i + 1)]
      BY <1>1, <1>6 DEF IsTail
    <3>2. Len(e) - Len(x) + (i + 1) = Len(e) - Len(z) + i
      BY <1>1
    <3> QED
      BY <1>1, <3>1, <3>2
  <2> QED
    BY <1>1, <1>6, <2>1 DEF IsTail
<1> QED
  BY <1>1, <1>2, <1>3, <1>4, <1>5, <1>6 DEF z

LEMMA AppendFacts ==
  ASSUME NEW S, NEW x \in Seq(S), NEW l \in S
  PROVE  /\ Append(x, l) \in Seq(S) /\ LinesOf(Append(x, l)) = LinesOf(x) \cup {l}
         /\ Distinct(x) /\ l \notin LinesOf(x) => Distinct(Append(x, l))
         /\ \A e \in Seq(S) : IsTail(x, e) => IsTail(Append(x, l), Append(e, l))
<1>. DEFINE z == Append(x, l)
<1>1. /\ z \in Seq(S) /\ Len(z) = Len(x) + 1 /\ z[Len(z)] = l
      /\ \A i \in 1 .. Len(x) : i \in 1 .. Len(z) /\ z[i] = x[i]
      /\ \A i \in 1 .. Len(z) : i \in 1 .. Len(x) \/ i = Len(z)
      /\ Len(z) \in 1 .. Len(z)
  OBVIOUS
<1>. HIDE DEF z
<1>2. LinesOf(z) = LinesOf(x) \cup {l}
  <2>1. DOMAIN z = 1 .. Len(z) /\ DOMAIN x = 1 .. Len(x)
    BY <1>1
  <2>2. LinesOf(z) \subseteq LinesOf(x) \cup {l}
    BY <1>1, <2>1 DEF LinesOf
  <2>3. LinesOf(x) \subseteq LinesOf(z)
    BY <1>1, <2>1 DEF LinesOf
  <2>4. l \in LinesOf(z)
    BY <1>1, <2>1 DEF LinesOf
  <2> QED
    BY <2>2, <2>3, <2>4
<1>3. ASSUME Distinct(x), l \notin LinesOf(x) PROVE Distinct(z)
  <2>1. \A i \in 1 .. Len(x) : x[i] # l
    BY <1>3 DEF LinesOf
  <2> QED
    BY <1>1, <1>3, <2>1 DEF Distinct
<1>4. ASSUME NEW e \in Seq(S), IsTail(x, e) PROVE IsTail(z, Append(e, l))
  <2>. DEFINE f == Append(e, l)
  <2>1. /\ f \in Seq(S) /\ Len(f) = Len(e) + 1 /\ f[Len(f)] = l
        /\ \A i \in 1 .. Len(e) : f[i] = e[i]
    OBVIOUS
  <2>. HIDE DEF f
  <2>2. ASSUME NEW i \in 1 .. Len(z) PROVE z[i] = f[Len(f) - Len(z) + i]
    <3>1. CASE i = Len(z)
      <4>1. Len(f) - Len(z) + i = Len(f)
        BY <1>1, <2>1, <3>1
      <4> QED
        BY <1>1, <2>1, <3>1, <4>1
    <3>2. CASE i \in 1 .. Len(x)
      <4>1. /\ Len(f) - Len(z) + i = Len(e) - Len(x) + i
            /\ Len(e) - Len(x) + i \in 1 .. Len(e)
        BY <1>1, <1>4, <2>1, <3>2 DEF IsTail
      <4>2. x[i] = e[Len(e) - Len(x) + i]
        BY <1>4, <3>2 DEF IsTail
      <4> QED
        BY <1>1, <2>1, <3>2, <4>1, <4>2
    <3> QED
      BY <1>1, <3>1, <3>2
  <2>3. Len(z) <= Len(f)
    BY <1>1, <1>4, <2>1 DEF IsTail
  <2> QED
    BY <2>2, <2>3 DEF IsTail, f
<1> QED
  BY <1>1, <1>2, <1>3, <1>4 DEF z

\* What still waits comes last among what entered.
LEMMA TailOrder ==
  ASSUME NEW S, NEW x \in Seq(S), NEW e \in Seq(S), IsTail(x, e), Distinct(e)
  PROVE  /\ InOrder(x, e)
         /\ \A i, j \in 1 .. Len(e) :
              e[i] \notin LinesOf(x) /\ e[j] \in LinesOf(x) => i < j
<1>1. ASSUME NEW m \in 1 .. Len(x)
      PROVE  /\ Len(e) - Len(x) + m \in 1 .. Len(e)
             /\ x[m] = e[Len(e) - Len(x) + m]
  BY DEF IsTail
<1>2. ASSUME NEW i \in 1 .. Len(e), NEW m \in 1 .. Len(x), x[m] = e[i]
      PROVE  i = Len(e) - Len(x) + m
  BY <1>1, <1>2 DEF Distinct
<1>3. InOrder(x, e)
  BY <1>2 DEF InOrder
<1>4. ASSUME NEW i \in 1 .. Len(e), NEW j \in 1 .. Len(e),
             e[i] \notin LinesOf(x), e[j] \in LinesOf(x)
      PROVE  i < j
  <2>1. PICK n \in 1 .. Len(x) : x[n] = e[j]
    BY <1>4 DEF LinesOf
  <2>2. j = Len(e) - Len(x) + n
    BY <1>2, <2>1
  <2>3. ASSUME i > Len(e) - Len(x) PROVE FALSE
    <3>. DEFINE m == i - (Len(e) - Len(x))
    <3>1. m \in 1 .. Len(x) /\ i = Len(e) - Len(x) + m
      BY <2>3 DEF IsTail
    <3>2. x[m] = e[i]
      BY <1>1, <3>1
    <3> QED
      BY <1>4, <3>1, <3>2 DEF LinesOf
  <2> QED
    BY <2>2, <2>3 DEF IsTail
<1> QED
  BY <1>3, <1>4

LEMMA SingleDriver ==
  ASSUME ChatAssumption, NEW t, ~(Cardinality(Runners(t)) > 1),
         NEW s \in TaskSlots, NEW r \in TaskSlots,
         t[s].kind \in Drivers, t[r].kind \in Drivers
  PROVE  s = r
<1>1. IsFiniteSet(TaskSlots)
  BY FS_Interval DEF TaskSlots, ChatAssumption
<1>2. IsFiniteSet(Runners(t)) /\ Runners(t) \subseteq TaskSlots
  BY <1>1, FS_Subset DEF Runners
<1>3. {s, r} \subseteq Runners(t)
  BY DEF Runners, Drivers
<1>4. IsFiniteSet({s, r}) /\ Cardinality({s, r}) <= Cardinality(Runners(t))
  BY <1>2, <1>3, FS_Subset
<1>5. Cardinality({s}) = 1 /\ IsFiniteSet({s})
  BY FS_Singleton
<1>6. ASSUME s # r PROVE FALSE
  <2>1. Cardinality({s} \cup {r}) = Cardinality({s}) + 1
    BY <1>5, <1>6, FS_AddElement
  <2>2. {s} \cup {r} = {s, r}
    OBVIOUS
  <2>3. Cardinality(Runners(t)) \in Nat
    BY <1>2, FS_CardinalityType
  <2> QED
    BY <1>4, <1>5, <2>1, <2>2, <2>3
<1> QED
  BY <1>6

LEMMA SlotSet ==
  ASSUME ChatAssumption, ChatTypes, NEW s \in TaskSlots, NEW u, ProperTask(u),
         SetTasks([tasks EXCEPT ![s] = u])
  PROVE  /\ tasks' = [r \in TaskSlots |-> tasks'[r]]
         /\ tasks'[s] = u /\ \A r \in TaskSlots \ {s} : tasks'[r] = tasks[r]
         /\ \A r \in TaskSlots : ProperTask(tasks'[r])
         /\ overlapped' \in BOOLEAN /\ (overlapped => overlapped')
         /\ OneDriver'
<1>1. tasks' = [tasks EXCEPT ![s] = u] /\ tasks = [r \in TaskSlots |-> tasks[r]]
  BY DEF SetTasks, ChatTypes
<1>2. /\ tasks' = [r \in TaskSlots |-> tasks'[r]]
      /\ tasks'[s] = u /\ \A r \in TaskSlots \ {s} : tasks'[r] = tasks[r]
  BY <1>1
<1>3. \A r \in TaskSlots : ProperTask(tasks'[r])
  BY <1>2 DEF ChatTypes
<1>4. overlapped' = (overlapped \/ Cardinality(Runners(tasks')) > 1)
  BY <1>1 DEF SetTasks
<1>5. overlapped' \in BOOLEAN /\ (overlapped => overlapped')
  BY <1>4 DEF ChatTypes
<1>6. OneDriver'
  <2>1. ASSUME ~overlapped', NEW r \in TaskSlots, NEW p \in TaskSlots,
               tasks'[r].kind \in Drivers, tasks'[p].kind \in Drivers
        PROVE  r = p
    BY <1>4, <2>1, SingleDriver
  <2> QED
    BY <2>1 DEF OneDriver
<1> QED
  BY <1>2, <1>3, <1>5, <1>6

Fresh == {"none", "guard", "mention"}

\* Slots whose task changes keep at most what they had in hand.
HandsShrink ==
  \A s \in TaskSlots :
    /\ Booted(tasks'[s]) \subseteq Booted(tasks[s])
    /\ \A q \in Queues : Fetched(tasks'[s], q) \subseteq Fetched(tasks[s], q)

InHand(l) ==
  \E s \in TaskSlots : l \in Booted(tasks[s]) \/ \E q \in Queues : l \in Fetched(tasks[s], q)

\* Nothing is taken, queued or recorded; lines may start, be refused or be cancelled.
Loosened ==
  /\ waiting' = waiting /\ entered' = entered /\ recorded' = recorded
  /\ HandsShrink
  /\ \A l \in Lines :
       \/ line'[l] = line[l]
       \/ line[l].at \in Fresh
       \/ /\ line'[l].at = "cancelled" /\ line'[l].queue = line[l].queue
          /\ line[l].at \in {"queued", "taken"}
          /\ \A q \in Queues : l \notin LinesOf(waiting[q])
          /\ ~InHand(l)'

TypesMove ==
  ChatTypes' /\ OneDriver' /\ (overlapped => overlapped')

LEMMA QueuedIs == \A q : Queued(q).at = "queued" /\ Queued(q).queue = q
  BY DEF Queued

LEMMA LinesTyped ==
  ASSUME ChatTypes
  PROVE  /\ \A q \in Queues : LinesOf(waiting[q]) \subseteq Lines
         /\ \A q \in Queues : LinesOf(entered[q]) \subseteq Lines
         /\ LinesOf(recorded) \subseteq Lines
         /\ \A s \in TaskSlots : Booted(tasks[s]) \subseteq Lines
         /\ \A s \in TaskSlots : \A q \in Queues : Fetched(tasks[s], q) \subseteq Lines
<1>1. \A x \in Seq(Lines) : LinesOf(x) \subseteq Lines
  BY DEF LinesOf
<1>2. ASSUME NEW s \in TaskSlots
      PROVE  Booted(tasks[s]) \subseteq Lines /\ \A q \in Queues : Fetched(tasks[s], q) \subseteq Lines
  <2>1. CASE tasks[s] = NoTask
    BY <2>1 DEF Booted, Fetched
  <2>2. CASE tasks[s] \in TaskRecords
    <3>1. tasks[s].line \in Lines \cup {NoLine} /\ tasks[s].got \in [Queues -> Seq(Lines)]
      BY <2>2 DEF TaskRecords
    <3> QED
      BY <1>1, <3>1 DEF Booted, Fetched
  <2> QED
    BY <2>1, <2>2 DEF ChatTypes, ProperTask
<1> QED
  BY <1>1, <1>2 DEF ChatTypes

LEMMA LoosenedKeeps ==
  ASSUME ChatInv, TypesMove, Loosened
  PROVE  ChatInv'
<1>. USE LinesTyped, QueuedIs
<1>0. ChatTypes /\ Placed /\ EnteredOnce /\ WaitingIsTail /\ HandsFollow /\ RecordedInOrder
  BY DEF ChatInv
<1>1. WaitingPlaced'
  <2>1. ASSUME NEW q \in Queues, NEW l \in LinesOf(waiting[q]) PROVE line'[l] = line[l]
    BY <1>0, <2>1 DEF Loosened, Placed, WaitingPlaced, Fresh
  <2> QED
    BY <1>0, <2>1 DEF Loosened, Placed, WaitingPlaced
<1>2. RecordedPlaced'
  <2>1. ASSUME NEW l \in LinesOf(recorded) PROVE line'[l] = line[l]
    BY <1>0, <2>1 DEF Loosened, Placed, RecordedPlaced, Fresh
  <2> QED
    BY <1>0, <2>1 DEF Loosened, Placed, RecordedPlaced
<1>3. ASSUME NEW s \in TaskSlots, NEW l \in Booted(tasks'[s])
      PROVE  l \in Lines /\ l \in Booted(tasks[s]) /\ line'[l] = line[l]
  <2>1. l \in Booted(tasks[s]) /\ l \in Lines /\ line[l].at = "taken"
    BY <1>0, <1>3 DEF Loosened, HandsShrink, Placed, BootedPlaced
  <2>2. InHand(l)'
    BY <1>3 DEF InHand
  <2> QED
    BY <2>1, <2>2 DEF Loosened, Fresh
<1>4. ASSUME NEW s \in TaskSlots, NEW q \in Queues, NEW l \in Fetched(tasks'[s], q)
      PROVE  l \in Lines /\ l \in Fetched(tasks[s], q) /\ line'[l] = line[l]
  <2>1. l \in Fetched(tasks[s], q) /\ l \in Lines /\ line[l].at = "queued"
    BY <1>0, <1>4 DEF Loosened, HandsShrink, Placed, FetchedPlaced
  <2>2. InHand(l)'
    BY <1>4 DEF InHand
  <2> QED
    BY <2>1, <2>2 DEF Loosened, Fresh
<1>5. FetchedPlaced'
  BY <1>0, <1>4 DEF Loosened, Placed, FetchedPlaced
<1>6. BootedPlaced'
  BY <1>0, <1>3 DEF Placed, BootedPlaced
<1>7. HandsApart'
  BY <1>0, <1>3, <1>4 DEF Placed, HandsApart
<1>8. EnteredOnce'
  <2>1. ASSUME NEW q \in Queues, NEW l \in LinesOf(entered[q])
        PROVE  /\ line'[l].at \in {"queued", "taken", "recorded", "cancelled"}
               /\ line'[l].queue = q
    <3>1. l \in Lines /\ line[l].queue = q
          /\ line[l].at \in {"queued", "taken", "recorded", "cancelled"}
      BY <1>0, <2>1 DEF EnteredOnce
    <3> QED
      BY <3>1 DEF Loosened, Fresh
  <2> QED
    BY <1>0, <2>1 DEF Loosened, EnteredOnce
<1>9. WaitingIsTail'
  BY <1>0 DEF Loosened, WaitingIsTail
<1>10. HandsFollow'
  <2>1. ASSUME ~overlapped', NEW q \in Queues,
               NEW i \in 1 .. Len(entered[q]), NEW j \in 1 .. Len(entered[q]),
               entered[q][i] \in LinesOf(recorded), NEW s \in TaskSlots,
               entered[q][j] \in Fetched(tasks'[s], q) \cup Booted(tasks'[s])
        PROVE  i < j
    <3>1. entered[q][j] \in Fetched(tasks[s], q) \cup Booted(tasks[s])
      BY <1>3, <1>4, <2>1
    <3> QED
      BY <1>0, <2>1, <3>1 DEF HandsFollow, TypesMove
  <2>2. entered' = entered /\ recorded' = recorded
    BY DEF Loosened
  <2> QED
    BY <2>1, <2>2 DEF HandsFollow
<1>11. RecordedInOrder'
  BY <1>0 DEF Loosened, RecordedInOrder, TypesMove
<1> QED
  BY <1>1, <1>2, <1>5, <1>6, <1>7, <1>8, <1>9, <1>10, <1>11 DEF ChatInv, Placed, TypesMove

\* A line becomes the prompt of a turn in slot s: from the guard, or from the
\* head of a queue.
Takes(s, l) ==
  /\ entered' = entered /\ recorded' = recorded
  /\ \A r \in TaskSlots \ {s} : tasks'[r] = tasks[r]
  /\ Booted(tasks'[s]) \subseteq {l}
  /\ \A q \in Queues : Fetched(tasks'[s], q) = {}
  /\ line' = [line EXCEPT ![l].at = "taken"]
  /\ \/ line[l].at = "guard" /\ waiting' = waiting
     \/ \E q \in Queues :
          /\ waiting[q] # <<>> /\ l = Head(waiting[q])
          /\ waiting' = [waiting EXCEPT ![q] = Tail(@)]

LEMMA TakesKeeps ==
  ASSUME ChatInv, TypesMove, NEW s \in TaskSlots, NEW l \in Lines, Takes(s, l)
  PROVE  ChatInv'
<1>. USE LinesTyped, QueuedIs
<1>0. ChatTypes /\ Placed /\ EnteredOnce /\ WaitingIsTail /\ HandsFollow /\ RecordedInOrder
  BY DEF ChatInv
<1>1. /\ \A k \in Lines \ {l} : line'[k] = line[k]
      /\ line'[l].at = "taken" /\ line'[l].queue = line[l].queue
  BY <1>0 DEF Takes, ChatTypes
\* What is left of the queues.
<1>2. ASSUME NEW q \in Queues
      PROVE  /\ LinesOf(waiting'[q]) \subseteq LinesOf(waiting[q])
             /\ l \notin LinesOf(waiting'[q])
             /\ Distinct(waiting'[q]) /\ IsTail(waiting'[q], entered[q])
  <2>1. /\ Distinct(waiting[q]) /\ IsTail(waiting[q], entered[q])
        /\ waiting[q] \in Seq(Lines) /\ entered[q] \in Seq(Lines)
    BY <1>0 DEF Placed, WaitingPlaced, WaitingIsTail, ChatTypes
  <2>2. CASE line[l].at = "guard" /\ waiting' = waiting
    BY <1>0, <2>1, <2>2 DEF Placed, WaitingPlaced
  <2>3. ASSUME NEW p \in Queues, waiting[p] # <<>>, l = Head(waiting[p]),
               waiting' = [waiting EXCEPT ![p] = Tail(@)]
        PROVE  <1>2!2
    <3>0. waiting[p] \in Seq(Lines)
      BY <1>0 DEF ChatTypes
    <3>1. line[l] = Queued(p)
      <4>1. l \in LinesOf(waiting[p])
        BY <2>3, <3>0, TailFacts
      <4> QED
        BY <1>0, <4>1 DEF Placed, WaitingPlaced
    <3>2. CASE p = q
      <4>1. waiting'[q] = Tail(waiting[q])
        BY <1>0, <2>3, <3>2 DEF ChatTypes
      <4> QED
        BY <2>1, <2>3, <3>2, <4>1, TailFacts
    <3>3. CASE p # q
      <4>1. waiting'[q] = waiting[q]
        BY <1>0, <2>3, <3>3 DEF ChatTypes
      <4>2. l \notin LinesOf(waiting[q])
        BY <1>0, <3>1, <3>3 DEF Placed, WaitingPlaced
      <4> QED
        BY <2>1, <4>1, <4>2
    <3> QED
      BY <3>2, <3>3
  <2> QED
    BY <2>2, <2>3 DEF Takes
\* The line that is taken was nowhere else.
<1>3. /\ l \notin LinesOf(recorded)
      /\ \A r \in TaskSlots : l \notin Booted(tasks[r])
      /\ \A r \in TaskSlots : \A q \in Queues : l \notin Fetched(tasks[r], q)
  <2>1. line[l].at \in {"guard", "queued"}
    <3>1. ASSUME NEW p \in Queues, waiting[p] # <<>>, l = Head(waiting[p]) PROVE line[l].at = "queued"
      <4>1. l \in LinesOf(waiting[p])
        BY <1>0, <3>1, TailFacts DEF ChatTypes
      <4> QED
        BY <1>0, <4>1 DEF Placed, WaitingPlaced
    <3> QED
      BY <3>1 DEF Takes
  <2>2. ASSUME NEW r \in TaskSlots, NEW q \in Queues, l \in Fetched(tasks[r], q) PROVE FALSE
    <3>1. line[l] = Queued(q) /\ l \notin LinesOf(waiting[q])
      BY <1>0, <2>2 DEF Placed, FetchedPlaced
    <3>2. ASSUME NEW p \in Queues, waiting[p] # <<>>, l = Head(waiting[p]) PROVE FALSE
      <4>1. l \in LinesOf(waiting[p])
        BY <1>0, <3>2, TailFacts DEF ChatTypes
      <4>2. line[l] = Queued(p)
        BY <1>0, <4>1 DEF Placed, WaitingPlaced
      <4> QED
        BY <3>1, <4>1, <4>2 
    <3> QED
      BY <3>1, <3>2 DEF Takes
  <2> QED
    BY <1>0, <2>1, <2>2 DEF Placed, RecordedPlaced, BootedPlaced
<1>4. WaitingPlaced'
  <2>1. ASSUME NEW q \in Queues, NEW k \in LinesOf(waiting'[q]) PROVE line'[k] = Queued(q)
    BY <1>0, <1>1, <1>2, <2>1 DEF Placed, WaitingPlaced
  <2> QED
    BY <1>2, <2>1 DEF WaitingPlaced
<1>5. RecordedPlaced'
  BY <1>0, <1>1, <1>3 DEF Takes, Placed, RecordedPlaced
<1>6. FetchedPlaced'
  <2>1. ASSUME NEW r \in TaskSlots, NEW q \in Queues, NEW k \in Fetched(tasks'[r], q)
        PROVE  line'[k] = Queued(q) /\ k \notin LinesOf(waiting'[q])
    <3>1. k \in Fetched(tasks[r], q)
      BY <2>1 DEF Takes
    <3> QED
      BY <1>0, <1>1, <1>2, <1>3, <3>1 DEF Placed, FetchedPlaced
  <2> QED
    BY <2>1 DEF FetchedPlaced
<1>7. BootedPlaced'
  <2>1. ASSUME NEW r \in TaskSlots, NEW k \in Booted(tasks'[r]) PROVE line'[k].at = "taken"
    <3>1. k = l \/ k \in Booted(tasks[r])
      BY <2>1 DEF Takes
    <3> QED
      BY <1>0, <1>1, <3>1 DEF Placed, BootedPlaced
  <2> QED
    BY <2>1 DEF BootedPlaced
<1>8. HandsApart'
  <2>1. ASSUME NEW r \in TaskSlots, NEW p \in TaskSlots \ {r}
        PROVE  /\ \A q \in Queues : Fetched(tasks'[r], q) \cap Fetched(tasks'[p], q) = {}
               /\ Booted(tasks'[r]) \cap Booted(tasks'[p]) = {}
    <3>1. CASE r # s /\ p # s
      BY <1>0, <3>1 DEF Takes, Placed, HandsApart
    <3>2. CASE r = s
      BY <1>3, <3>2 DEF Takes
    <3>3. CASE p = s
      BY <1>3, <3>3 DEF Takes
    <3> QED
      BY <3>1, <3>2, <3>3
  <2> QED
    BY <2>1 DEF HandsApart
<1>9. EnteredOnce'
  <2>1. ASSUME NEW q \in Queues, NEW k \in LinesOf(entered[q])
        PROVE  /\ line'[k].at \in {"queued", "taken", "recorded", "cancelled"}
               /\ line'[k].queue = q
    BY <1>0, <1>1, <2>1 DEF EnteredOnce
  <2> QED
    BY <1>0, <2>1 DEF Takes, EnteredOnce
<1>10. WaitingIsTail'
  BY <1>2 DEF WaitingIsTail, Takes
<1>11. HandsFollow'
  <2>1. ASSUME ~overlapped', NEW q \in Queues,
               NEW i \in 1 .. Len(entered[q]), NEW j \in 1 .. Len(entered[q]),
               entered[q][i] \in LinesOf(recorded), NEW r \in TaskSlots,
               entered[q][j] \in Fetched(tasks'[r], q) \cup Booted(tasks'[r])
        PROVE  i < j
    <3>1. CASE entered[q][j] \in Fetched(tasks[r], q) \cup Booted(tasks[r])
      BY <1>0, <2>1, <3>1 DEF HandsFollow, TypesMove
    <3>2. CASE entered[q][j] = l
      <4>1. entered[q][j] \in LinesOf(entered[q]) /\ line[l].at # "guard" /\ line[l].queue = q
        <5>1. entered[q][j] \in LinesOf(entered[q])
          BY <1>0 DEF LinesOf, ChatTypes
        <5> QED
          BY <1>0, <3>2, <5>1 DEF EnteredOnce
      <4>2. PICK p \in Queues : waiting[p] # <<>> /\ l = Head(waiting[p])
        BY <4>1 DEF Takes
      <4>3. l \in LinesOf(waiting[p])
        BY <1>0, <4>2, TailFacts DEF ChatTypes
      <4>4. p = q
        BY <1>0, <4>1, <4>3 DEF Placed, WaitingPlaced
      <4>5. entered[q][i] \notin LinesOf(waiting[q])
        BY <1>0, <2>1 DEF Placed, WaitingPlaced, RecordedPlaced
      <4>6. /\ waiting[q] \in Seq(Lines) /\ entered[q] \in Seq(Lines)
            /\ IsTail(waiting[q], entered[q]) /\ Distinct(entered[q])
        BY <1>0 DEF ChatTypes, WaitingIsTail, EnteredOnce
      <4> QED
        BY <3>2, <4>3, <4>4, <4>5, <4>6, TailOrder
    <3> QED
      BY <2>1, <3>1, <3>2 DEF Takes
  <2>2. entered' = entered /\ recorded' = recorded
    BY DEF Takes
  <2> QED
    BY <2>1, <2>2 DEF HandsFollow
<1>12. RecordedInOrder'
  BY <1>0 DEF Takes, RecordedInOrder, TypesMove
<1> QED
  BY <1>4, <1>5, <1>6, <1>7, <1>8, <1>9, <1>10, <1>11, <1>12 DEF ChatInv, Placed, TypesMove

\* A guarded line waits in its queue.
Enqueues(l, q) ==
  /\ recorded' = recorded
  /\ \A s \in TaskSlots : tasks'[s] = tasks[s]
  /\ line[l].at = "guard" /\ line[l].queue = q
  /\ line' = [line EXCEPT ![l].at = "queued"]
  /\ waiting' = [waiting EXCEPT ![q] = Append(@, l)]
  /\ entered' = [entered EXCEPT ![q] = Append(@, l)]

LEMMA EnqueuesKeeps ==
  ASSUME ChatInv, TypesMove, NEW l \in Lines, NEW q \in Queues, Enqueues(l, q)
  PROVE  ChatInv'
<1>. USE LinesTyped, QueuedIs
<1>0. ChatTypes /\ Placed /\ EnteredOnce /\ WaitingIsTail /\ HandsFollow /\ RecordedInOrder
  BY DEF ChatInv
<1>1. /\ \A k \in Lines \ {l} : line'[k] = line[k]
      /\ line'[l] = Queued(q)
  <2>1. line[l] \in [at : PlaceNames, queue : Queues]
    BY <1>0 DEF ChatTypes
  <2>2. line'[l] = [line[l] EXCEPT !.at = "queued"]
    BY <1>0 DEF Enqueues, ChatTypes
  <2> QED
    BY <1>0, <2>1, <2>2 DEF Enqueues, ChatTypes, Queued
<1>2. ASSUME NEW p \in Queues
      PROVE  /\ LinesOf(waiting'[p]) = LinesOf(waiting[p]) \cup (IF p = q THEN {l} ELSE {})
             /\ LinesOf(entered'[p]) = LinesOf(entered[p]) \cup (IF p = q THEN {l} ELSE {})
             /\ Distinct(waiting'[p]) /\ Distinct(entered'[p])
             /\ IsTail(waiting'[p], entered'[p])
  <2>1. /\ waiting[p] \in Seq(Lines) /\ entered[p] \in Seq(Lines)
        /\ Distinct(waiting[p]) /\ Distinct(entered[p]) /\ IsTail(waiting[p], entered[p])
    BY <1>0 DEF ChatTypes, Placed, WaitingPlaced, EnteredOnce, WaitingIsTail
  <2>2. l \notin LinesOf(waiting[p]) /\ l \notin LinesOf(entered[p])
    BY <1>0 DEF Enqueues, Placed, WaitingPlaced, EnteredOnce
  <2>3. CASE p = q
    <3>1. waiting'[p] = Append(waiting[p], l) /\ entered'[p] = Append(entered[p], l)
      BY <1>0, <2>3 DEF Enqueues, ChatTypes
    <3> QED
      BY <2>1, <2>2, <2>3, <3>1, AppendFacts
  <2>4. CASE p # q
    <3>1. waiting'[p] = waiting[p] /\ entered'[p] = entered[p]
      BY <1>0, <2>4 DEF Enqueues, ChatTypes
    <3> QED
      BY <2>1, <2>4, <3>1
  <2> QED
    BY <2>3, <2>4
<1>3. /\ l \notin LinesOf(recorded)
      /\ \A r \in TaskSlots : l \notin Booted(tasks[r])
      /\ \A r \in TaskSlots : \A p \in Queues : l \notin Fetched(tasks[r], p)
      /\ \A p \in Queues : l \notin LinesOf(waiting[p]) /\ l \notin LinesOf(entered[p])
  <2>1. line[l].at = "guard"
    BY DEF Enqueues
  <2> QED
    BY <1>0, <2>1 DEF Placed, WaitingPlaced, RecordedPlaced, BootedPlaced, FetchedPlaced,
                      EnteredOnce
<1>4. WaitingPlaced'
  <2>1. ASSUME NEW p \in Queues, NEW k \in LinesOf(waiting'[p]) PROVE line'[k] = Queued(p)
    <3>0. k \in LinesOf(waiting[p]) \/ (p = q /\ k = l)
      BY <1>2, <2>1
    <3>1. (k = l /\ p = q) \/ (k \in LinesOf(waiting[p]) /\ k # l)
      BY <1>3, <3>0
    <3> QED
      BY <1>0, <1>1, <3>1 DEF Placed, WaitingPlaced
  <2> QED
    BY <1>2, <2>1 DEF WaitingPlaced
<1>5. RecordedPlaced'
  BY <1>0, <1>1, <1>3 DEF Enqueues, Placed, RecordedPlaced
<1>6. FetchedPlaced'
  <2>1. ASSUME NEW r \in TaskSlots, NEW p \in Queues, NEW k \in Fetched(tasks'[r], p)
        PROVE  line'[k] = Queued(p) /\ k \notin LinesOf(waiting'[p])
    <3>1. k \in Fetched(tasks[r], p) /\ k # l
      BY <1>3, <2>1 DEF Enqueues
    <3> QED
      BY <1>0, <1>1, <1>2, <3>1 DEF Placed, FetchedPlaced
  <2> QED
    BY <2>1 DEF FetchedPlaced
<1>7. BootedPlaced'
  <2>1. ASSUME NEW r \in TaskSlots, NEW k \in Booted(tasks'[r]) PROVE line'[k].at = "taken"
    <3>1. k \in Booted(tasks[r]) /\ k # l
      BY <1>3, <2>1 DEF Enqueues
    <3> QED
      BY <1>0, <1>1, <3>1 DEF Placed, BootedPlaced
  <2> QED
    BY <2>1 DEF BootedPlaced
<1>8. HandsApart'
  BY <1>0 DEF Enqueues, Placed, HandsApart
<1>9. EnteredOnce'
  <2>1. ASSUME NEW p \in Queues, NEW k \in LinesOf(entered'[p])
        PROVE  /\ line'[k].at \in {"queued", "taken", "recorded", "cancelled"}
               /\ line'[k].queue = p
    <3>0. k \in LinesOf(entered[p]) \/ (p = q /\ k = l)
      BY <1>2, <2>1
    <3>1. (k = l /\ p = q) \/ (k \in LinesOf(entered[p]) /\ k # l)
      BY <1>3, <3>0
    <3> QED
      BY <1>0, <1>1, <3>1 DEF EnteredOnce
  <2> QED
    BY <1>2, <2>1 DEF EnteredOnce
<1>10. WaitingIsTail'
  BY <1>2 DEF WaitingIsTail
\* The places of the lines that had entered before.
<1>11. ASSUME NEW p \in Queues
       PROVE  \A i \in 1 .. Len(entered'[p]) :
                \/ i \in 1 .. Len(entered[p]) /\ entered'[p][i] = entered[p][i]
                \/ entered'[p][i] = l
  <2>1. CASE p = q
    <3>1. entered'[p] = Append(entered[p], l)
      BY <1>0, <2>1 DEF Enqueues, ChatTypes
    <3> QED
      BY <1>0, <3>1 DEF ChatTypes
  <2>2. CASE p # q
    <3>1. entered'[p] = entered[p]
      BY <1>0, <2>2 DEF Enqueues, ChatTypes
    <3> QED
      BY <3>1
  <2> QED
    BY <2>1, <2>2
<1>12. HandsFollow'
  <2>1. ASSUME ~overlapped', NEW p \in Queues,
               NEW i \in 1 .. Len(entered'[p]), NEW j \in 1 .. Len(entered'[p]),
               entered'[p][i] \in LinesOf(recorded), NEW r \in TaskSlots,
               entered'[p][j] \in Fetched(tasks[r], p) \cup Booted(tasks[r])
        PROVE  i < j
    <3>1. entered'[p][i] # l /\ entered'[p][j] # l
      BY <1>3, <2>1
    <3>2. i \in 1 .. Len(entered[p]) /\ entered'[p][i] = entered[p][i]
      BY <1>11, <3>1
    <3>3. j \in 1 .. Len(entered[p]) /\ entered'[p][j] = entered[p][j]
      BY <1>11, <3>1
    <3> QED
      BY <1>0, <2>1, <3>2, <3>3 DEF HandsFollow, TypesMove
  <2> QED
    BY <2>1 DEF HandsFollow, Enqueues
<1>13. RecordedInOrder'
  <2>1. ASSUME ~overlapped', NEW p \in Queues,
               NEW i \in 1 .. Len(entered'[p]), NEW j \in 1 .. Len(entered'[p]), i < j,
               NEW m \in 1 .. Len(recorded), NEW n \in 1 .. Len(recorded),
               recorded[m] = entered'[p][i], recorded[n] = entered'[p][j]
        PROVE  m < n
    <3>1. entered'[p][i] # l /\ entered'[p][j] # l
      <4>1. recorded[m] \in LinesOf(recorded) /\ recorded[n] \in LinesOf(recorded)
        <5>1. DOMAIN recorded = 1 .. Len(recorded)
          BY <1>0 DEF ChatTypes
        <5> QED
          BY <2>1, <5>1 DEF LinesOf
      <4> QED
        BY <1>3, <2>1, <4>1
    <3>2. i \in 1 .. Len(entered[p]) /\ entered'[p][i] = entered[p][i]
      BY <1>11, <3>1
    <3>3. j \in 1 .. Len(entered[p]) /\ entered'[p][j] = entered[p][j]
      BY <1>11, <3>1
    <3>4. InOrder(recorded, entered[p])
      BY <1>0, <2>1 DEF RecordedInOrder, TypesMove
    <3> QED
      BY <2>1, <3>2, <3>3, <3>4 DEF InOrder
  <2>2. recorded' = recorded
    BY DEF Enqueues
  <2> QED
    BY <2>1, <2>2 DEF RecordedInOrder, InOrder
<1> QED
  BY <1>4, <1>5, <1>6, <1>7, <1>8, <1>9, <1>10, <1>12, <1>13 DEF ChatInv, Placed, TypesMove

\* A getter of slot s obtains the head of queue q.
Fetches(s, q) ==
  /\ line' = line /\ entered' = entered /\ recorded' = recorded
  /\ \A r \in TaskSlots \ {s} : tasks'[r] = tasks[r]
  /\ Booted(tasks'[s]) = {}
  /\ \A p \in Queues : Fetched(tasks'[s], p) \subseteq
                         Fetched(tasks[s], p) \cup (IF p = q THEN {Head(waiting[q])} ELSE {})
  /\ waiting[q] # <<>>
  /\ waiting' = [waiting EXCEPT ![q] = Tail(@)]

LEMMA FetchesKeeps ==
  ASSUME ChatInv, TypesMove, NEW s \in TaskSlots, NEW q \in Queues, Fetches(s, q)
  PROVE  ChatInv'
<1>. USE LinesTyped, QueuedIs
<1>0. ChatTypes /\ Placed /\ EnteredOnce /\ WaitingIsTail /\ HandsFollow /\ RecordedInOrder
  BY DEF ChatInv
<1>. DEFINE l == Head(waiting[q])
<1>1. l \in LinesOf(waiting[q]) /\ line[l] = Queued(q)
  <2>1. l \in LinesOf(waiting[q])
    BY <1>0, TailFacts DEF Fetches, ChatTypes
  <2> QED
    BY <1>0, <2>1 DEF Placed, WaitingPlaced
<1>2. ASSUME NEW p \in Queues
      PROVE  /\ LinesOf(waiting'[p]) \subseteq LinesOf(waiting[p])
             /\ l \notin LinesOf(waiting'[p])
             /\ Distinct(waiting'[p]) /\ IsTail(waiting'[p], entered[p])
  <2>1. /\ waiting[p] \in Seq(Lines) /\ entered[p] \in Seq(Lines)
        /\ Distinct(waiting[p]) /\ IsTail(waiting[p], entered[p])
    BY <1>0 DEF ChatTypes, Placed, WaitingPlaced, WaitingIsTail
  <2>2. CASE p = q
    <3>1. waiting'[p] = Tail(waiting[p])
      BY <1>0, <2>2 DEF Fetches, ChatTypes
    <3>2. waiting[p] # <<>>
      BY <2>2 DEF Fetches
    <3> QED
      BY <2>1, <2>2, <3>1, <3>2, TailFacts
  <2>3. CASE p # q
    <3>1. waiting'[p] = waiting[p]
      BY <1>0, <2>3 DEF Fetches, ChatTypes
    <3>2. l \notin LinesOf(waiting[p])
      BY <1>0, <1>1, <2>3 DEF Placed, WaitingPlaced
    <3> QED
      BY <2>1, <3>1, <3>2
  <2> QED
    BY <2>2, <2>3
<1>. HIDE DEF l
<1>3. ASSUME NEW r \in TaskSlots, NEW p \in Queues, NEW k \in Fetched(tasks'[r], p)
      PROVE  k \in Fetched(tasks[r], p) \/ (r = s /\ p = q /\ k = l)
  BY <1>3 DEF Fetches, l
<1>4. ASSUME NEW r \in TaskSlots PROVE Booted(tasks'[r]) \subseteq Booted(tasks[r])
  BY DEF Fetches
<1>5. WaitingPlaced'
  <2>1. line' = line
    BY DEF Fetches
  <2> QED
    BY <1>0, <1>2, <2>1 DEF Placed, WaitingPlaced
<1>6. RecordedPlaced'
  BY <1>0 DEF Fetches, Placed, RecordedPlaced
<1>7. FetchedPlaced'
  <2>1. line' = line
    BY DEF Fetches
  <2>2. ASSUME NEW r \in TaskSlots, NEW p \in Queues, NEW k \in Fetched(tasks'[r], p)
        PROVE  line[k] = Queued(p) /\ k \notin LinesOf(waiting'[p])
    BY <1>0, <1>1, <1>2, <1>3, <2>2 DEF Placed, FetchedPlaced
  <2> QED
    BY <2>1, <2>2 DEF FetchedPlaced
<1>8. BootedPlaced'
  BY <1>0, <1>4 DEF Placed, BootedPlaced, Fetches
<1>9. HandsApart'
  <2>1. ASSUME NEW r \in TaskSlots, NEW x \in TaskSlots \ {r}
        PROVE  /\ \A p \in Queues : Fetched(tasks'[r], p) \cap Fetched(tasks'[x], p) = {}
               /\ Booted(tasks'[r]) \cap Booted(tasks'[x]) = {}
    <3>1. \A p \in Queues : l \notin Fetched(tasks[r], p) /\ l \notin Fetched(tasks[x], p)
      BY <1>0, <1>1 DEF Placed, FetchedPlaced
    <3>2. ASSUME NEW p \in Queues PROVE Fetched(tasks'[r], p) \cap Fetched(tasks'[x], p) = {}
      BY <1>0, <1>3, <3>1 DEF Placed, HandsApart
    <3>3. Booted(tasks[r]) \cap Booted(tasks[x]) = {}
      BY <1>0 DEF Placed, HandsApart
    <3> QED
      BY <1>4, <3>2, <3>3
  <2> QED
    BY <2>1 DEF HandsApart
<1>10. EnteredOnce'
  BY <1>0 DEF Fetches, EnteredOnce
<1>11. WaitingIsTail'
  BY <1>2 DEF WaitingIsTail, Fetches
<1>12. HandsFollow'
  <2>1. ASSUME ~overlapped', NEW p \in Queues,
               NEW i \in 1 .. Len(entered[p]), NEW j \in 1 .. Len(entered[p]),
               entered[p][i] \in LinesOf(recorded), NEW r \in TaskSlots,
               entered[p][j] \in Fetched(tasks'[r], p) \cup Booted(tasks'[r])
        PROVE  i < j
    <3>1. CASE entered[p][j] \in Fetched(tasks[r], p) \cup Booted(tasks[r])
      BY <1>0, <2>1, <3>1 DEF HandsFollow, TypesMove
    <3>2. CASE p = q /\ entered[p][j] = l
      <4>1. entered[p][i] \notin LinesOf(waiting[p])
        BY <1>0, <2>1 DEF Placed, WaitingPlaced, RecordedPlaced
      <4>2. /\ waiting[p] \in Seq(Lines) /\ entered[p] \in Seq(Lines)
            /\ IsTail(waiting[p], entered[p]) /\ Distinct(entered[p])
        BY <1>0 DEF ChatTypes, WaitingIsTail, EnteredOnce
      <4> QED
        BY <1>1, <3>2, <4>1, <4>2, TailOrder
    <3> QED
      BY <1>3, <1>4, <2>1, <3>1, <3>2
  <2>2. entered' = entered /\ recorded' = recorded
    BY DEF Fetches
  <2> QED
    BY <2>1, <2>2 DEF HandsFollow
<1>13. RecordedInOrder'
  BY <1>0 DEF Fetches, RecordedInOrder, TypesMove
<1> QED
  BY <1>5, <1>6, <1>7, <1>8, <1>9, <1>10, <1>11, <1>12, <1>13 DEF ChatInv, Placed, TypesMove

EmptyHanded(t) == Booted(t) = {} /\ \A q \in Queues : Fetched(t, q) = {}

\* The lines ls, which slot s had in hand or which waited, are recorded.
Records(s, ls) ==
  /\ recorded' = recorded \o ls
  /\ entered' = entered
  /\ \A q \in Queues : \/ waiting'[q] = <<>>
                       \/ /\ waiting'[q] = waiting[q]
                          /\ LinesOf(ls) \cap LinesOf(waiting[q]) = {}
  /\ \A l \in Lines : IF l \in LinesOf(ls)
                      THEN line'[l].at = "recorded" /\ line'[l].queue = line[l].queue
                      ELSE line'[l] = line[l]
  /\ \A r \in TaskSlots \ {s} : tasks'[r] = tasks[r]
  /\ EmptyHanded(tasks'[s])

Recordable(s, ls) ==
  /\ Distinct(ls)
  /\ \A l \in LinesOf(ls) : line[l].at \in {"queued", "taken"}
  /\ \A r \in TaskSlots \ {s} :
       /\ LinesOf(ls) \cap Booted(tasks[r]) = {}
       /\ \A q \in Queues : LinesOf(ls) \cap Fetched(tasks[r], q) = {}
  /\ ~overlapped =>
       /\ \A r \in TaskSlots \ {s} : EmptyHanded(tasks[r])
       /\ \A q \in Queues : InOrder(ls, entered[q]) /\ Precedes(recorded, ls, entered[q])

LEMMA RecordsKeeps ==
  ASSUME ChatInv, TypesMove, NEW s \in TaskSlots, NEW ls \in Seq(Lines),
         Records(s, ls), Recordable(s, ls)
  PROVE  ChatInv'
<1>. USE LinesTyped, QueuedIs
<1>0. ChatTypes /\ Placed /\ EnteredOnce /\ WaitingIsTail /\ HandsFollow /\ RecordedInOrder
  BY DEF ChatInv
<1>1. /\ \A l \in Lines \ LinesOf(ls) : line'[l] = line[l]
      /\ \A l \in LinesOf(ls) : line'[l].at = "recorded" /\ line'[l].queue = line[l].queue
      /\ LinesOf(ls) \subseteq Lines
  BY DEF Records, LinesOf
<1>2. LinesOf(recorded \o ls) = LinesOf(recorded) \cup LinesOf(ls)
  BY <1>0, JoinLines DEF ChatTypes
<1>3. LinesOf(recorded) \cap LinesOf(ls) = {}
  BY <1>0 DEF Placed, RecordedPlaced, Recordable
<1>4. Distinct(recorded \o ls)
  BY <1>0, <1>3, JoinDistinct DEF ChatTypes, Placed, RecordedPlaced, Recordable
<1>5. WaitingPlaced'
  <2>1. ASSUME NEW q \in Queues
        PROVE  Distinct(waiting'[q]) /\ \A l \in LinesOf(waiting'[q]) : line'[l] = Queued(q)
    <3>1. CASE waiting'[q] = <<>>
      BY <3>1, EmptyFacts
    <3>2. CASE waiting'[q] = waiting[q] /\ LinesOf(ls) \cap LinesOf(waiting[q]) = {}
      BY <1>0, <1>1, <3>2 DEF Placed, WaitingPlaced
    <3> QED
      BY <3>1, <3>2 DEF Records
  <2> QED
    BY <2>1 DEF WaitingPlaced
<1>6. RecordedPlaced'
  <2>1. ASSUME NEW l \in LinesOf(recorded) PROVE line'[l].at = "recorded"
    BY <1>0, <1>1, <1>3, <2>1 DEF Placed, RecordedPlaced
  <2>2. recorded' = recorded \o ls
    BY DEF Records
  <2> QED
    BY <1>1, <1>2, <1>4, <2>1, <2>2 DEF RecordedPlaced
<1>7. ASSUME NEW r \in TaskSlots, NEW q \in Queues, NEW l \in Fetched(tasks'[r], q)
      PROVE  r # s /\ l \in Fetched(tasks[r], q) /\ line'[l] = line[l]
  <2>1. r # s
    BY <1>7 DEF Records, EmptyHanded
  <2>2. l \in Fetched(tasks[r], q) /\ l \in Lines
    BY <1>0, <1>7, <2>1 DEF Records
  <2> QED
    BY <1>1, <2>1, <2>2 DEF Recordable
<1>8. ASSUME NEW r \in TaskSlots, NEW l \in Booted(tasks'[r])
      PROVE  r # s /\ l \in Booted(tasks[r]) /\ line'[l] = line[l]
  <2>1. r # s
    BY <1>8 DEF Records, EmptyHanded
  <2>2. l \in Booted(tasks[r]) /\ l \in Lines
    BY <1>0, <1>8, <2>1 DEF Records
  <2> QED
    BY <1>1, <2>1, <2>2 DEF Recordable
<1>9. ASSUME NEW q \in Queues PROVE LinesOf(waiting'[q]) \subseteq LinesOf(waiting[q])
  BY EmptyFacts DEF Records
<1>10. FetchedPlaced'
  <2>1. ASSUME NEW r \in TaskSlots, NEW q \in Queues, NEW l \in Fetched(tasks'[r], q)
        PROVE  line'[l] = Queued(q) /\ l \notin LinesOf(waiting'[q])
    BY <1>0, <1>7, <1>9, <2>1 DEF Placed, FetchedPlaced
  <2> QED
    BY <2>1 DEF FetchedPlaced
<1>11. BootedPlaced'
  BY <1>0, <1>8 DEF Placed, BootedPlaced
<1>12. HandsApart'
  BY <1>0, <1>7, <1>8 DEF Placed, HandsApart
<1>13. EnteredOnce'
  <2>1. ASSUME NEW q \in Queues, NEW l \in LinesOf(entered[q])
        PROVE  /\ line'[l].at \in {"queued", "taken", "recorded", "cancelled"}
               /\ line'[l].queue = q
    <3>1. l \in Lines /\ line[l].queue = q
          /\ line[l].at \in {"queued", "taken", "recorded", "cancelled"}
      BY <1>0, <2>1 DEF EnteredOnce
    <3> QED
      BY <1>1, <3>1
  <2> QED
    BY <1>0, <2>1 DEF Records, EnteredOnce
<1>14. WaitingIsTail'
  <2>1. ASSUME NEW q \in Queues PROVE IsTail(waiting'[q], entered[q])
    <3>1. Len(entered[q]) \in Nat
      BY <1>0 DEF ChatTypes
    <3>2. IsTail(<<>>, entered[q])
      BY <3>1 DEF IsTail
    <3> QED
      BY <1>0, <3>2 DEF Records, WaitingIsTail
  <2> QED
    BY <2>1 DEF WaitingIsTail, Records
<1>15. ASSUME ~overlapped', NEW r \in TaskSlots PROVE EmptyHanded(tasks'[r])
  BY <1>15 DEF Records, Recordable, TypesMove
<1>16. HandsFollow'
  BY <1>15 DEF HandsFollow, EmptyHanded
<1>17. RecordedInOrder'
  <2>1. ASSUME ~overlapped', NEW q \in Queues PROVE InOrder(recorded \o ls, entered[q])
    <3>1. InOrder(recorded, entered[q])
      BY <1>0, <2>1 DEF RecordedInOrder, TypesMove
    <3>2. InOrder(ls, entered[q]) /\ Precedes(recorded, ls, entered[q])
      BY <2>1 DEF Recordable, TypesMove
    <3>3. recorded \in Seq(Lines) /\ entered[q] \in Seq(Lines)
      BY <1>0 DEF ChatTypes
    <3> QED
      BY <3>1, <3>2, <3>3, JoinInOrder
  <2> QED
    BY <2>1 DEF RecordedInOrder, Records
<1> QED
  BY <1>5, <1>6, <1>10, <1>11, <1>12, <1>13, <1>14, <1>16, <1>17
  DEF ChatInv, Placed, TypesMove

\* Only tasks that drive the runner have lines in hand.
LEMMA HandsOfDrivers ==
  ASSUME ChatInv, ~overlapped, NEW s \in TaskSlots, tasks[s].kind \in Drivers,
         NEW r \in TaskSlots \ {s}
  PROVE  EmptyHanded(tasks[r])
<1>1. tasks[r].kind \notin Drivers
  BY DEF ChatInv, OneDriver
<1>2. ProperTask(tasks[r])
  BY DEF ChatInv, ChatTypes
<1>3. CASE tasks[r] = NoTask
  BY <1>3 DEF EmptyHanded, Booted, Fetched
<1>4. CASE tasks[r] # NoTask
  <2>1. tasks[r].got = Nothing /\ tasks[r].line = NoLine
    BY <1>1, <1>2, <1>4 DEF ProperTask, Drivers
  <2>2. \A q \in Queues : Nothing[q] = <<>>
    BY DEF Nothing
  <2> QED
    BY <2>1, <2>2, EmptyFacts DEF EmptyHanded, Booted, Fetched
<1> QED
  BY <1>3, <1>4

\* A prompt that a task begins with.
LEMMA PromptRecordable ==
  ASSUME ChatInv, NEW s \in TaskSlots, NEW l \in Booted(tasks[s]),
         tasks[s].kind \in Drivers
  PROVE  Recordable(s, <<l>>)
<1>. USE LinesTyped, QueuedIs
<1>0. ChatTypes /\ Placed /\ EnteredOnce /\ HandsFollow
  BY DEF ChatInv
<1>1. /\ l \in Lines /\ <<l>> \in Seq(Lines) /\ Len(<<l>>) <= 1
      /\ LinesOf(<<l>>) = {l} /\ line[l].at = "taken"
  <2>1. l \in Lines /\ line[l].at = "taken"
    BY <1>0 DEF Placed, BootedPlaced
  <2> QED
    BY <2>1 DEF LinesOf
<1>2. Distinct(<<l>>) /\ \A q \in Queues : InOrder(<<l>>, entered[q])
  BY <1>0, <1>1, OneFacts DEF ChatTypes, EnteredOnce
<1>3. ASSUME NEW r \in TaskSlots \ {s}
      PROVE  /\ LinesOf(<<l>>) \cap Booted(tasks[r]) = {}
             /\ \A q \in Queues : LinesOf(<<l>>) \cap Fetched(tasks[r], q) = {}
  BY <1>0, <1>1 DEF Placed, HandsApart, FetchedPlaced
<1>4. ASSUME ~overlapped, NEW q \in Queues PROVE Precedes(recorded, <<l>>, entered[q])
  BY <1>0, <1>1, <1>4 DEF Precedes, HandsFollow
<1> QED
  BY <1>1, <1>2, <1>3, <1>4, HandsOfDrivers DEF Recordable

LEMMA FourJoined ==
  ASSUME NEW S, NEW a \in Seq(S), NEW b \in Seq(S), NEW c \in Seq(S), NEW d \in Seq(S)
  PROVE  /\ a \o b \o c \o d \in Seq(S)
         /\ LinesOf(a \o b \o c \o d) = LinesOf(a) \cup LinesOf(b) \cup LinesOf(c) \cup LinesOf(d)
<1>. DEFINE x == a \o b
<1>1. x \in Seq(S) /\ LinesOf(x) = LinesOf(a) \cup LinesOf(b)
  BY JoinLines
<1>. HIDE DEF x
<1>. DEFINE y == x \o c
<1>2. y \in Seq(S) /\ LinesOf(y) = LinesOf(x) \cup LinesOf(c)
  BY <1>1, JoinLines
<1>. HIDE DEF y
<1>3. y \o d \in Seq(S) /\ LinesOf(y \o d) = LinesOf(y) \cup LinesOf(d)
  BY <1>2, JoinLines
<1> QED
  BY <1>1, <1>2, <1>3 DEF x, y

LEMMA FourDistinct ==
  ASSUME NEW S, NEW a \in Seq(S), NEW b \in Seq(S), NEW c \in Seq(S), NEW d \in Seq(S),
         Distinct(a), Distinct(b), Distinct(c), Distinct(d),
         LinesOf(a) \cap LinesOf(b) = {}, LinesOf(a) \cap LinesOf(c) = {},
         LinesOf(a) \cap LinesOf(d) = {}, LinesOf(b) \cap LinesOf(c) = {},
         LinesOf(b) \cap LinesOf(d) = {}, LinesOf(c) \cap LinesOf(d) = {}
  PROVE  Distinct(a \o b \o c \o d)
<1>. DEFINE x == a \o b
<1>1. /\ x \in Seq(S) /\ LinesOf(x) = LinesOf(a) \cup LinesOf(b)
      /\ Distinct(x)
  BY JoinLines, JoinDistinct
<1>. HIDE DEF x
<1>. DEFINE y == x \o c
<1>2. /\ y \in Seq(S) /\ LinesOf(y) = LinesOf(x) \cup LinesOf(c)
      /\ Distinct(y)
  <2>1. LinesOf(x) \cap LinesOf(c) = {}
    BY <1>1
  <2> QED
    BY <1>1, <2>1, JoinLines, JoinDistinct
<1>. HIDE DEF y
<1>3. Distinct(y \o d)
  <2>1. LinesOf(y) \cap LinesOf(d) = {}
    BY <1>1, <1>2
  <2> QED
    BY <1>2, <2>1, JoinDistinct
<1> QED
  BY <1>3 DEF x, y

LEMMA FourInOrder ==
  ASSUME NEW S, NEW a \in Seq(S), NEW b \in Seq(S), NEW c \in Seq(S), NEW d \in Seq(S),
         NEW e \in Seq(S),
         InOrder(a, e), InOrder(b, e), InOrder(c, e), InOrder(d, e),
         Precedes(a, b, e), Precedes(a, c, e), Precedes(a, d, e), Precedes(b, c, e),
         Precedes(b, d, e), Precedes(c, d, e)
  PROVE  InOrder(a \o b \o c \o d, e)
<1>. DEFINE x == a \o b
<1>1. /\ x \in Seq(S) /\ LinesOf(x) = LinesOf(a) \cup LinesOf(b)
      /\ InOrder(x, e)
  BY JoinLines, JoinInOrder
<1>. HIDE DEF x
<1>. DEFINE y == x \o c
<1>2. /\ y \in Seq(S) /\ LinesOf(y) = LinesOf(x) \cup LinesOf(c)
      /\ InOrder(y, e)
  <2>1. Precedes(x, c, e)
    BY <1>1 DEF Precedes
  <2> QED
    BY <1>1, <2>1, JoinLines, JoinInOrder
<1>. HIDE DEF y
<1>3. InOrder(y \o d, e)
  <2>1. Precedes(y, d, e)
    BY <1>1, <1>2 DEF Precedes
  <2> QED
    BY <1>2, <2>1, JoinInOrder
<1> QED
  BY <1>3 DEF x, y

LEMMA ApartPrecede ==
  ASSUME NEW x, NEW y, NEW e,
         (\A i \in 1 .. Len(e) : e[i] \notin LinesOf(x))
           \/ (\A i \in 1 .. Len(e) : e[i] \notin LinesOf(y))
  PROVE  Precedes(x, y, e)
  BY DEF Precedes

\* Everything that waits, after what a driver has fetched.
LEMMA DrainedRecordable ==
  ASSUME ChatInv, NEW s \in TaskSlots, tasks[s].kind \in Drivers
  PROVE  /\ Drained(tasks[s].got) \in Seq(Lines)
         /\ LinesOf(Drained(tasks[s].got)) =
              UNION {Fetched(tasks[s], q) \cup LinesOf(waiting[q]) : q \in Queues}
         /\ Recordable(s, Drained(tasks[s].got))
<1>. USE LinesTyped, QueuedIs
<1>0. ChatTypes /\ Placed /\ EnteredOnce /\ WaitingIsTail /\ HandsFollow
  BY DEF ChatInv
<1>. DEFINE got == tasks[s].got
            ls == Drained(got)
<1>1. /\ tasks[s] # NoTask /\ got \in [Queues -> Seq(Lines)]
      /\ \A q \in Queues : Len(got[q]) <= 1
  <2>1. tasks[s] # NoTask
    BY DEF NoTask, Drivers
  <2>2. tasks[s] \in TaskRecords /\ \A q \in Queues : Len(got[q]) <= 1
    BY <1>0, <2>1 DEF ChatTypes, ProperTask
  <2> QED
    BY <2>1, <2>2 DEF TaskRecords
<1>2. \A q \in Queues : Fetched(tasks[s], q) = LinesOf(got[q])
  BY <1>1 DEF Fetched
<1>. HIDE DEF got
<1>3. \A q \in Queues : got[q] \in Seq(Lines) /\ waiting[q] \in Seq(Lines)
  BY <1>0, <1>1 DEF ChatTypes
<1>4. "steer" \in Queues /\ "input" \in Queues /\ \A q \in Queues : q \in {"steer", "input"}
  BY DEF Queues
<1>5. ls = got["steer"] \o waiting["steer"] \o got["input"] \o waiting["input"]
  BY DEF Drained
<1>. HIDE DEF ls
<1>6. /\ ls \in Seq(Lines)
      /\ LinesOf(ls) = LinesOf(got["steer"]) \cup LinesOf(waiting["steer"])
                         \cup LinesOf(got["input"]) \cup LinesOf(waiting["input"])
  BY <1>3, <1>4, <1>5, FourJoined
<1>7. LinesOf(ls) = UNION {Fetched(tasks[s], q) \cup LinesOf(waiting[q]) : q \in Queues}
  BY <1>2, <1>4, <1>6
\* Where each part is.
<1>8. ASSUME NEW q \in Queues
      PROVE  /\ \A l \in LinesOf(got[q]) : line[l] = Queued(q)
             /\ \A l \in LinesOf(waiting[q]) : line[l] = Queued(q)
             /\ LinesOf(got[q]) \cap LinesOf(waiting[q]) = {}
             /\ Distinct(got[q]) /\ Distinct(waiting[q])
  <2>1. Distinct(got[q])
    BY <1>1, <1>3, OneFacts
  <2> QED
    BY <1>0, <1>2, <2>1 DEF Placed, WaitingPlaced, FetchedPlaced
<1>9. ASSUME NEW l \in LinesOf(ls) PROVE line[l].at = "queued"
  BY <1>4, <1>6, <1>8, <1>9
<1>10. \A k, l : line[k] = Queued("steer") /\ line[l] = Queued("input") => k # l
  OBVIOUS
<1>11. Distinct(ls)
  <2>1. /\ LinesOf(got["steer"]) \cap LinesOf(got["input"]) = {}
        /\ LinesOf(got["steer"]) \cap LinesOf(waiting["input"]) = {}
        /\ LinesOf(waiting["steer"]) \cap LinesOf(got["input"]) = {}
        /\ LinesOf(waiting["steer"]) \cap LinesOf(waiting["input"]) = {}
    BY <1>4, <1>8, <1>10
  <2> QED
    BY <1>3, <1>4, <1>5, <1>8, <2>1, FourDistinct
<1>12. ASSUME NEW r \in TaskSlots \ {s}
       PROVE  /\ LinesOf(ls) \cap Booted(tasks[r]) = {}
              /\ \A q \in Queues : LinesOf(ls) \cap Fetched(tasks[r], q) = {}
  <2>1. LinesOf(ls) \cap Booted(tasks[r]) = {}
    BY <1>0, <1>9 DEF Placed, BootedPlaced
  <2>2. ASSUME NEW q \in Queues, NEW l \in LinesOf(ls), l \in Fetched(tasks[r], q) PROVE FALSE
    <3>1. line[l] = Queued(q) /\ l \notin LinesOf(waiting[q])
      BY <1>0, <2>2 DEF Placed, FetchedPlaced
    <3>2. PICK p \in Queues : l \in LinesOf(got[p]) \/ l \in LinesOf(waiting[p])
      BY <1>4, <1>6, <2>2
    <3>3. p = q
      BY <1>8, <3>1, <3>2
    <3>4. l \in Fetched(tasks[s], q)
      BY <1>2, <3>1, <3>2, <3>3
    <3> QED
      BY <1>0, <2>2, <3>4 DEF Placed, HandsApart
  <2> QED
    BY <2>1, <2>2
<1>13. ASSUME ~overlapped, NEW q \in Queues
       PROVE  InOrder(ls, entered[q]) /\ Precedes(recorded, ls, entered[q])
  <2>. DEFINE e == entered[q]
  <2>1. e \in Seq(Lines) /\ Distinct(e) /\ IsTail(waiting[q], e)
    BY <1>0 DEF ChatTypes, EnteredOnce, WaitingIsTail
  <2>2. ASSUME NEW i \in 1 .. Len(e) PROVE line[e[i]].queue = q
    <3>1. e[i] \in LinesOf(e)
      BY <2>1 DEF LinesOf
    <3> QED
      BY <1>0, <3>1 DEF EnteredOnce
  <2>3. InOrder(got[q], e) /\ InOrder(waiting[q], e)
    BY <1>1, <1>3, <2>1, OneFacts, TailOrder
  <2>4. Precedes(got[q], waiting[q], e)
    <3>1. \A i, j \in 1 .. Len(e) :
            e[i] \notin LinesOf(waiting[q]) /\ e[j] \in LinesOf(waiting[q]) => i < j
      BY <1>3, <2>1, TailOrder
    <3> QED
      BY <1>8, <3>1 DEF Precedes
  <2>5. Precedes(recorded, got[q], e)
    BY <1>0, <1>2, <1>13 DEF HandsFollow, Precedes
  <2>6. Precedes(recorded, waiting[q], e)
    <3>1. \A i, j \in 1 .. Len(e) :
            e[i] \notin LinesOf(waiting[q]) /\ e[j] \in LinesOf(waiting[q]) => i < j
      BY <1>3, <2>1, TailOrder
    <3>2. LinesOf(recorded) \cap LinesOf(waiting[q]) = {}
      BY <1>0 DEF Placed, RecordedPlaced, WaitingPlaced
    <3> QED
      BY <3>1, <3>2 DEF Precedes
  <2>7. ASSUME NEW p \in Queues, p # q
        PROVE  /\ \A i \in 1 .. Len(e) : e[i] \notin LinesOf(got[p])
               /\ \A i \in 1 .. Len(e) : e[i] \notin LinesOf(waiting[p])
               /\ InOrder(got[p], e) /\ InOrder(waiting[p], e)
    <3>1. /\ \A i \in 1 .. Len(e) : e[i] \notin LinesOf(got[p])
          /\ \A i \in 1 .. Len(e) : e[i] \notin LinesOf(waiting[p])
      BY <1>8, <2>2, <2>7
    <3>2. \A x \in Seq(Lines) : (\A i \in 1 .. Len(e) : e[i] \notin LinesOf(x)) => InOrder(x, e)
      <4>1. ASSUME NEW x \in Seq(Lines), NEW m \in 1 .. Len(x) PROVE x[m] \in LinesOf(x)
        BY DEF LinesOf
      <4> QED
        BY <4>1 DEF InOrder
    <3> QED
      BY <1>3, <3>1, <3>2
  <2>. HIDE DEF e
  <2>8. InOrder(got["steer"], e) /\ InOrder(waiting["steer"], e)
        /\ InOrder(got["input"], e) /\ InOrder(waiting["input"], e)
    BY <1>4, <2>3, <2>7
  <2>9. /\ Precedes(got["steer"], waiting["steer"], e)
        /\ Precedes(got["steer"], got["input"], e)
        /\ Precedes(got["steer"], waiting["input"], e)
        /\ Precedes(waiting["steer"], got["input"], e)
        /\ Precedes(waiting["steer"], waiting["input"], e)
        /\ Precedes(got["input"], waiting["input"], e)
    <3>1. CASE q = "steer"
      <4>1. /\ \A i \in 1 .. Len(e) : e[i] \notin LinesOf(got["input"])
            /\ \A i \in 1 .. Len(e) : e[i] \notin LinesOf(waiting["input"])
        BY <1>4, <2>7, <3>1
      <4> QED
        BY <2>4, <3>1, <4>1, ApartPrecede
    <3>2. CASE q = "input"
      <4>1. /\ \A i \in 1 .. Len(e) : e[i] \notin LinesOf(got["steer"])
            /\ \A i \in 1 .. Len(e) : e[i] \notin LinesOf(waiting["steer"])
        BY <1>4, <2>7, <3>2
      <4> QED
        BY <2>4, <3>2, <4>1, ApartPrecede
    <3> QED
      BY <1>4, <3>1, <3>2
  <2>10. InOrder(ls, e)
    BY <1>3, <1>4, <1>5, <2>1, <2>8, <2>9, FourInOrder
  <2>11. \A p \in Queues : Precedes(recorded, got[p], e) /\ Precedes(recorded, waiting[p], e)
    BY <2>5, <2>6, <2>7, ApartPrecede
  <2>12. Precedes(recorded, ls, e)
    BY <1>4, <1>6, <2>11 DEF Precedes
  <2> QED
    BY <2>10, <2>12 DEF e
<1> QED
  BY <1>6, <1>7, <1>9, <1>11, <1>12, <1>13, HandsOfDrivers DEF Recordable, ls, got

DataTypes ==
  /\ line \in [Lines -> [at : PlaceNames, queue : Queues]]
  /\ waiting \in [Queues -> Seq(Lines)]
  /\ entered \in [Queues -> Seq(Lines)]
  /\ recorded \in Seq(Lines)
  /\ turnTask \in TaskSlots \cup {0} /\ loopTask \in TaskSlots \cup {0}

LEMMA DataTyped == ASSUME ChatTypes PROVE DataTypes
  BY DEF ChatTypes, DataTypes

LEMMA TypesStay ==
  ASSUME ChatInv, DataTypes', tasks' = tasks, overlapped' = overlapped
  PROVE  TypesMove
<1>1. ChatTypes /\ OneDriver
  BY DEF ChatInv
<1>2. ChatTypes'
  BY <1>1 DEF ChatTypes, DataTypes
<1>3. OneDriver'
  BY <1>1 DEF OneDriver
<1> QED
  BY <1>2, <1>3 DEF TypesMove

LEMMA TypesOfSlot ==
  ASSUME ChatAssumption, ChatInv, DataTypes', NEW s \in TaskSlots, NEW u, ProperTask(u),
         SetTasks([tasks EXCEPT ![s] = u])
  PROVE  /\ TypesMove
         /\ tasks'[s] = u /\ \A r \in TaskSlots \ {s} : tasks'[r] = tasks[r]
<1>1. ChatTypes
  BY DEF ChatInv
<1>2. /\ tasks' = [r \in TaskSlots |-> tasks'[r]]
      /\ tasks'[s] = u /\ \A r \in TaskSlots \ {s} : tasks'[r] = tasks[r]
      /\ \A r \in TaskSlots : ProperTask(tasks'[r])
      /\ overlapped' \in BOOLEAN /\ (overlapped => overlapped')
      /\ OneDriver'
  BY <1>1, SlotSet
<1>3. ChatTypes'
  BY <1>2 DEF ChatTypes, DataTypes
<1> QED
  BY <1>2, <1>3 DEF TypesMove

LEMMA TaskFacts ==
  ASSUME NEW kind \in TaskKinds, NEW l \in Lines \cup {NoLine}, kind # "turn" => l = NoLine
  PROVE  /\ ProperTask(Task(kind, l))
         /\ Booted(Task(kind, l)) \subseteq {l} \ {NoLine}
         /\ \A q \in Queues : Fetched(Task(kind, l), q) = {}
<1>1. Nothing \in [Queues -> Seq(Lines)] /\ \A q \in Queues : Nothing[q] = <<>>
  BY DEF Nothing
<1>. DEFINE t == Task(kind, l)
<1>2. /\ t.kind = kind /\ t.phase = "boot" /\ t.line = l /\ t.rounds = 0
      /\ t.got = Nothing /\ t.cancelled = FALSE
  BY DEF Task
<1>3. t \in TaskRecords
  BY <1>1 DEF Task, TaskRecords, TaskPhases
<1>. HIDE DEF t
<1>4. \A q \in Queues : Len(t.got[q]) <= 1
  BY <1>1, <1>2
<1>5. ProperTask(t)
  BY <1>2, <1>3, <1>4 DEF ProperTask
<1>6. Booted(t) \subseteq {l} \ {NoLine}
  BY <1>2 DEF Booted
<1>7. \A q \in Queues : Fetched(t, q) = {}
  BY <1>1, <1>2, EmptyFacts DEF Fetched
<1> QED
  BY <1>5, <1>6, <1>7 DEF t

LEMMA NoTaskFacts ==
  ProperTask(NoTask) /\ Booted(NoTask) = {} /\ \A q \in Queues : Fetched(NoTask, q) = {}
  BY DEF ProperTask, Booted, Fetched

\* A slot whose task has let everything go.
LEMMA SlotEmptied ==
  ASSUME ChatAssumption, ChatInv, DataTypes', NEW s \in TaskSlots, NEW u, ProperTask(u),
         Booted(u) \subseteq Booted(tasks[s]),
         \A q \in Queues : Fetched(u, q) \subseteq Fetched(tasks[s], q),
         SetTasks([tasks EXCEPT ![s] = u])
  PROVE  TypesMove /\ HandsShrink
<1>1. /\ TypesMove
      /\ tasks'[s] = u /\ \A r \in TaskSlots \ {s} : tasks'[r] = tasks[r]
  BY TypesOfSlot
<1>2. HandsShrink
  BY <1>1 DEF HandsShrink
<1> QED
  BY <1>1, <1>2

LEMMA LinePut ==
  ASSUME DataTypes, NEW l \in Lines, NEW where \in PlaceNames, Put(l, where)
  PROVE  /\ line' \in [Lines -> [at : PlaceNames, queue : Queues]]
         /\ line'[l].at = where /\ line'[l].queue = line[l].queue
         /\ \A k \in Lines \ {l} : line'[k] = line[k]
<1>1. line[l] \in [at : PlaceNames, queue : Queues]
  BY DEF DataTypes
<1>2. line' = [line EXCEPT ![l] = [line[l] EXCEPT !.at = where]]
  BY DEF DataTypes, Put
<1>3. [line[l] EXCEPT !.at = where] \in [at : PlaceNames, queue : Queues]
  BY <1>1
<1>4. line' \in [Lines -> [at : PlaceNames, queue : Queues]]
  BY <1>2, <1>3 DEF DataTypes
<1>5. line'[l] = [line[l] EXCEPT !.at = where] /\ \A k \in Lines \ {l} : line'[k] = line[k]
  BY <1>2 DEF DataTypes
<1> QED
  BY <1>1, <1>4, <1>5

LEMMA StartTurnFacts ==
  ASSUME ChatAssumption, ChatInv, NEW kind \in TaskKinds, NEW l \in Lines \cup {NoLine},
         kind # "turn" => l = NoLine, StartTurn(kind, l),
         line' \in [Lines -> [at : PlaceNames, queue : Queues]],
         UNCHANGED <<waiting, entered, recorded, loopTask>>
  PROVE  /\ TypesMove
         /\ l = NoLine => HandsShrink
         /\ \E s \in TaskSlots :
              /\ \A r \in TaskSlots \ {s} : tasks'[r] = tasks[r]
              /\ Booted(tasks'[s]) \subseteq {l} \ {NoLine}
              /\ \A q \in Queues : Fetched(tasks'[s], q) = {}
<1>0. ChatTypes /\ DataTypes
  BY DataTyped DEF ChatInv
<1>1. PICK s \in TaskSlots :
        /\ SetTasks([tasks EXCEPT ![s] = Task(kind, l)])
        /\ turnTask' = s
  BY DEF StartTurn, FreeSlots
<1>2. DataTypes'
  BY <1>0, <1>1 DEF DataTypes
<1>3. /\ ProperTask(Task(kind, l))
      /\ Booted(Task(kind, l)) \subseteq {l} \ {NoLine}
      /\ \A q \in Queues : Fetched(Task(kind, l), q) = {}
  BY TaskFacts
<1>4. /\ TypesMove
      /\ tasks'[s] = Task(kind, l) /\ \A r \in TaskSlots \ {s} : tasks'[r] = tasks[r]
  BY <1>1, <1>2, <1>3, TypesOfSlot
<1>5. ASSUME l = NoLine PROVE HandsShrink
  BY <1>3, <1>4, <1>5 DEF HandsShrink
<1> QED
  BY <1>3, <1>4, <1>5

LEMMA StartTurnKeeps ==
  ASSUME ChatAssumption, ChatInv, NEW kind \in TaskKinds, StartTurn(kind, NoLine),
         UNCHANGED <<line, waiting, entered, recorded, loopTask>>
  PROVE  ChatInv'
<1>1. line \in [Lines -> [at : PlaceNames, queue : Queues]]
  BY DEF ChatInv, ChatTypes
<1>2. TypesMove /\ HandsShrink
  BY <1>1, StartTurnFacts
<1> QED
  BY <1>2, LoosenedKeeps DEF Loosened

LEMMA EnterKeeps == ASSUME ChatInv, Enter PROVE ChatInv'
<1>0. DataTypes
  BY DataTyped DEF ChatInv
<1>1. UNCHANGED <<waiting, entered, recorded, tasks, turnTask, loopTask, overlapped>>
  BY DEF Enter
<1>. DEFINE Place(route) == CASE route = "shell" -> "guard"
                              [] LoopRunning -> "refused"
                              [] route = "mention" /\ ~TurnRunning -> "mention"
                              [] OTHER -> "guard"
<1>2. PICK l \in Lines, q \in Queues, place \in {"guard", "refused", "mention"} :
        line[l].at = "none" /\ line' = [line EXCEPT ![l] = [at |-> place, queue |-> q]]
  <2>1. PICK l \in Lines, q \in Queues, route \in {"prompt", "shell", "mention"} :
          /\ line[l].at = "none"
          /\ line' = [line EXCEPT ![l] = [at |-> Place(route), queue |-> q]]
    BY Zenon DEF Enter
  <2>2. Place(route) \in {"guard", "refused", "mention"}
    OBVIOUS
  <2>. HIDE DEF Place
  <2> QED
    BY <2>1, <2>2
<1>3. line' \in [Lines -> [at : PlaceNames, queue : Queues]]
  <2>1. [at |-> place, queue |-> q] \in [at : PlaceNames, queue : Queues]
    BY DEF PlaceNames
  <2> QED
    BY <1>0, <1>2, <2>1 DEF DataTypes
<1>4. TypesMove
  BY <1>0, <1>1, <1>3, TypesStay DEF DataTypes
<1>5. \A k \in Lines : line'[k] = line[k] \/ line[k].at \in Fresh
  BY <1>0, <1>2 DEF DataTypes, Fresh
<1> QED
  BY <1>1, <1>4, <1>5, LoosenedKeeps DEF Loosened, HandsShrink

LEMMA GuardedKeeps == ASSUME ChatAssumption, ChatInv, Guarded PROVE ChatInv'
<1>0. DataTypes /\ ChatTypes
  BY DataTyped DEF ChatInv
<1>1. PICK l \in Lines :
        /\ line[l].at = "guard"
        /\ \/ /\ Put(l, "refused")
              /\ UNCHANGED <<waiting, entered, tasks, turnTask, overlapped>>
           \/ EnqueueOrStart(l)
  BY DEF Guarded
<1>2. UNCHANGED <<recorded, loopTask>>
  BY DEF Guarded
<1>. DEFINE q == line[l].queue
<1>3. q \in Queues
  BY <1>0 DEF DataTypes
<1>4. CASE Put(l, "refused") /\ UNCHANGED <<waiting, entered, tasks, turnTask, overlapped>>
  <2>1. /\ line' \in [Lines -> [at : PlaceNames, queue : Queues]]
        /\ \A k \in Lines \ {l} : line'[k] = line[k]
    BY <1>0, <1>4, LinePut DEF PlaceNames
  <2>2. TypesMove
    BY <1>0, <1>2, <1>4, <2>1, TypesStay DEF DataTypes
  <2>3. \A k \in Lines : line'[k] = line[k] \/ line[k].at \in Fresh
    BY <1>1, <2>1 DEF Fresh
  <2> QED
    BY <1>2, <1>4, <2>2, <2>3, LoosenedKeeps DEF Loosened, HandsShrink
<1>5. CASE /\ waiting' = [waiting EXCEPT ![q] = Append(@, l)]
           /\ entered' = [entered EXCEPT ![q] = Append(@, l)]
           /\ Put(l, "queued")
           /\ UNCHANGED <<tasks, turnTask, overlapped>>
  <2>1. line' \in [Lines -> [at : PlaceNames, queue : Queues]]
    BY <1>0, <1>5, LinePut DEF PlaceNames
  <2>2. Append(waiting[q], l) \in Seq(Lines) /\ Append(entered[q], l) \in Seq(Lines)
    BY <1>0, <1>3 DEF DataTypes
  <2>3. waiting' \in [Queues -> Seq(Lines)] /\ entered' \in [Queues -> Seq(Lines)]
    BY <1>0, <1>3, <1>5, <2>2 DEF DataTypes
  <2>4. TypesMove
    BY <1>0, <1>2, <1>5, <2>1, <2>3, TypesStay DEF DataTypes
  <2>5. Enqueues(l, q)
    BY <1>1, <1>2, <1>5 DEF Enqueues, Put
  <2> QED
    BY <1>3, <2>4, <2>5, EnqueuesKeeps
<1>6. CASE /\ StartTurn("turn", l) /\ Put(l, "taken")
           /\ UNCHANGED <<waiting, entered>>
  <2>1. line' \in [Lines -> [at : PlaceNames, queue : Queues]]
    BY <1>0, <1>6, LinePut DEF PlaceNames
  <2>2. /\ TypesMove
        /\ \E s \in TaskSlots :
             /\ \A r \in TaskSlots \ {s} : tasks'[r] = tasks[r]
             /\ Booted(tasks'[s]) \subseteq {l} \ {NoLine}
             /\ \A p \in Queues : Fetched(tasks'[s], p) = {}
    BY <1>2, <1>6, <2>1, StartTurnFacts DEF TaskKinds
  <2>3. PICK s \in TaskSlots : Takes(s, l)
    BY <1>1, <1>2, <1>6, <2>2 DEF Takes, Put
  <2> QED
    BY <2>2, <2>3, TakesKeeps
<1> QED
  BY <1>1, <1>4, <1>5, <1>6 DEF EnqueueOrStart

LEMMA MentionedKeeps == ASSUME ChatAssumption, ChatInv, Mentioned PROVE ChatInv'
<1>0. DataTypes /\ ChatTypes
  BY DataTyped DEF ChatInv
<1>1. PICK l \in Lines :
        /\ line[l].at = "mention"
        /\ \/ Put(l, "refused") /\ UNCHANGED <<tasks, turnTask, workers, overlapped>>
           \/ Put(l, "given") /\ StartTurn("worker", NoLine) /\ workers' = TRUE
  BY DEF Mentioned
<1>2. UNCHANGED <<waiting, entered, recorded, loopTask>>
  BY DEF Mentioned
<1>3. /\ line' \in [Lines -> [at : PlaceNames, queue : Queues]]
      /\ \A k \in Lines \ {l} : line'[k] = line[k]
  BY <1>0, <1>1, LinePut DEF PlaceNames
<1>4. \A k \in Lines : line'[k] = line[k] \/ line[k].at \in Fresh
  BY <1>1, <1>3 DEF Fresh
<1>5. TypesMove /\ HandsShrink
  <2>1. CASE UNCHANGED <<tasks, turnTask, overlapped>>
    BY <1>0, <1>2, <1>3, <2>1, TypesStay DEF DataTypes, HandsShrink
  <2>2. CASE StartTurn("worker", NoLine)
    BY <1>2, <1>3, <2>2, StartTurnFacts DEF TaskKinds
  <2> QED
    BY <1>1, <2>1, <2>2
<1> QED
  BY <1>2, <1>4, <1>5, LoosenedKeeps DEF Loosened

LEMMA NothingMoves ==
  ASSUME ChatInv, UNCHANGED <<line, waiting, entered, recorded, tasks, turnTask, loopTask,
                              overlapped>>
  PROVE  ChatInv'
<1>1. TypesMove
  BY DataTyped, TypesStay DEF DataTypes, ChatInv
<1> QED
  BY <1>1, LoosenedKeeps DEF Loosened, HandsShrink

LEMMA WorkersChangeKeeps == ASSUME ChatAssumption, ChatInv, WorkersChange PROVE ChatInv'
<1>1. UNCHANGED <<line, waiting, entered, recorded, loopTask>>
  BY DEF WorkersChange
<1>2. CASE UNCHANGED <<tasks, turnTask, overlapped>>
  BY <1>1, <1>2, NothingMoves
<1>3. CASE StartTurn("turn", NoLine)
  BY <1>1, <1>3, StartTurnKeeps DEF TaskKinds
<1> QED
  BY <1>2, <1>3 DEF WorkersChange

\* The task of slot s becomes u, which holds no more than before.
LEMMA SlotKeeps ==
  ASSUME ChatAssumption, ChatInv, NEW s \in TaskSlots, NEW u, ProperTask(u),
         Booted(u) \subseteq Booted(tasks[s]),
         \A q \in Queues : Fetched(u, q) \subseteq Fetched(tasks[s], q),
         SetTasks([tasks EXCEPT ![s] = u]),
         UNCHANGED <<line, waiting, entered, recorded>>,
         turnTask' \in TaskSlots \cup {0}, loopTask' \in TaskSlots \cup {0}
  PROVE  ChatInv'
<1>1. DataTypes'
  BY DataTyped DEF DataTypes, ChatInv
<1>2. TypesMove /\ HandsShrink
  BY <1>1, SlotEmptied
<1> QED
  BY <1>2, LoosenedKeeps DEF Loosened

LEMMA StartLoopKeeps == ASSUME ChatAssumption, ChatInv, StartLoop PROVE ChatInv'
<1>0. DataTypes
  BY DataTyped DEF ChatInv
<1>1. PICK s \in TaskSlots :
        SetTasks([tasks EXCEPT ![s] = Task("loop", NoLine)]) /\ loopTask' = s
  BY DEF StartLoop, FreeSlots
<1>2. UNCHANGED <<line, waiting, entered, recorded, turnTask>>
  BY DEF StartLoop
<1>3. /\ ProperTask(Task("loop", NoLine)) /\ Booted(Task("loop", NoLine)) = {}
      /\ \A q \in Queues : Fetched(Task("loop", NoLine), q) = {}
  <2>1. "loop" \in TaskKinds /\ "loop" # "turn"
    BY DEF TaskKinds
  <2> QED
    BY <2>1, TaskFacts
<1> QED
  BY <1>0, <1>1, <1>2, <1>3, SlotKeeps DEF DataTypes

LEMMA StartChainKeeps == ASSUME ChatAssumption, ChatInv, StartChain PROVE ChatInv'
  BY StartTurnKeeps DEF StartChain, TaskKinds

\* What a task that goes on keeps.
LEMMA NextPhase ==
  ASSUME ChatTypes, NEW s \in TaskSlots, tasks[s] # NoTask
  PROVE  /\ tasks[s] \in TaskRecords /\ ProperTask(tasks[s])
         /\ Nothing \in [Queues -> Seq(Lines)] /\ \A q \in Queues : Nothing[q] = <<>>
         /\ \A q \in Queues : Fetched(tasks[s], q) = LinesOf(tasks[s].got[q])
         /\ tasks[s].phase \notin {"final", "gather"} =>
              tasks[s].got = Nothing /\ \A q \in Queues : Fetched(tasks[s], q) = {}
         /\ tasks[s].phase # "boot" => Booted(tasks[s]) = {}
<1>1. tasks[s] \in TaskRecords /\ ProperTask(tasks[s])
  BY DEF ChatTypes, ProperTask
<1>2. Nothing \in [Queues -> Seq(Lines)] /\ \A q \in Queues : Nothing[q] = <<>>
  BY DEF Nothing
<1>3. \A q \in Queues : Fetched(tasks[s], q) = LinesOf(tasks[s].got[q])
  BY DEF Fetched
<1>4. tasks[s].phase # "boot" => Booted(tasks[s]) = {}
  BY DEF Booted
<1>5. ASSUME tasks[s].phase \notin {"final", "gather"}
      PROVE  tasks[s].got = Nothing /\ \A q \in Queues : Fetched(tasks[s], q) = {}
  <2>1. tasks[s].got = Nothing
    BY <1>1, <1>5 DEF ProperTask
  <2> QED
    BY <1>2, <1>3, <2>1, EmptyFacts
<1> QED
  BY <1>1, <1>2, <1>3, <1>4, <1>5

\* A record of a task in a phase where it may have nothing in hand.
LEMMA PhaseRecord ==
  ASSUME NEW u \in TaskRecords, u.phase \in {"model", "batch"}, u.got = Nothing,
         u.kind # "turn" => u.line = NoLine,
         u.phase = "batch" => u.kind # "worker"
  PROVE  /\ ProperTask(u) /\ EmptyHanded(u)
<1>1. Nothing \in [Queues -> Seq(Lines)] /\ \A q \in Queues : Nothing[q] = <<>>
  BY DEF Nothing
<1>2. \A q \in Queues : Len(u.got[q]) <= 1 /\ LinesOf(u.got[q]) = {}
  BY <1>1, EmptyFacts
<1>3. ProperTask(u)
  BY <1>2 DEF ProperTask
<1>4. EmptyHanded(u)
  BY <1>2 DEF EmptyHanded, Booted, Fetched
<1> QED
  BY <1>3, <1>4

LEMMA BeginKeeps ==
  ASSUME ChatAssumption, ChatInv, NEW s \in TaskSlots, Begin(s)
  PROVE  ChatInv'
<1>0. ChatTypes /\ DataTypes
  BY DataTyped DEF ChatInv
<1>1. /\ tasks[s] # NoTask /\ tasks[s].phase = "boot"
      /\ UNCHANGED <<waiting, entered, turnTask, loopTask>>
      /\ SetTasks([tasks EXCEPT ![s].phase = "model"])
  BY DEF Begin, InPhase, Live
<1>. DEFINE u == [tasks[s] EXCEPT !.phase = "model"]
            l == tasks[s].line
<1>2. tasks[s] \in TaskRecords /\ tasks[s].got = Nothing
      /\ (tasks[s].kind # "turn" => l = NoLine) /\ l \in Lines \cup {NoLine}
  <2>1. tasks[s] \in TaskRecords /\ tasks[s].got = Nothing
        /\ (tasks[s].kind # "turn" => l = NoLine)
    BY <1>0, <1>1, NextPhase DEF ProperTask
  <2> QED
    BY <2>1 DEF TaskRecords
<1>3. /\ u \in TaskRecords /\ u.phase = "model" /\ u.got = Nothing /\ u.kind = tasks[s].kind
      /\ u.line = l
  BY <1>2 DEF TaskRecords, TaskPhases
<1>4. SetTasks([tasks EXCEPT ![s] = u])
  BY <1>1
<1>. HIDE DEF u
<1>5. ProperTask(u) /\ EmptyHanded(u)
  BY <1>2, <1>3, PhaseRecord
<1>6. CASE l = NoLine
  <2>1. UNCHANGED <<line, recorded>>
    BY <1>6 DEF Begin
  <2> QED
    BY <1>0, <1>1, <1>4, <1>5, <2>1, SlotKeeps DEF DataTypes, EmptyHanded
<1>7. CASE l # NoLine
  <2>1. Put(l, "recorded") /\ recorded' = Append(recorded, l) /\ l \in Lines
    BY <1>2, <1>7 DEF Begin
  <2>2. /\ line' \in [Lines -> [at : PlaceNames, queue : Queues]]
        /\ line'[l].at = "recorded" /\ line'[l].queue = line[l].queue
        /\ \A k \in Lines \ {l} : line'[k] = line[k]
    BY <1>0, <2>1, LinePut DEF PlaceNames
  <2>3. recorded' \in Seq(Lines) /\ recorded' = recorded \o <<l>>
    <3>1. recorded \in Seq(Lines)
      BY <1>0 DEF DataTypes
    <3>. DEFINE x == Append(recorded, l)
                y == recorded \o <<l>>
    <3>2. /\ x \in Seq(Lines) /\ y \in Seq(Lines) /\ Len(x) = Len(y)
          /\ \A i \in 1 .. Len(x) : x[i] = y[i]
      BY <2>1, <3>1
    <3>. HIDE DEF x, y
    <3>3. x = y
      BY <3>2
    <3> QED
      BY <2>1, <3>2, <3>3 DEF x, y
  <2>4. DataTypes'
    BY <1>0, <1>1, <2>2, <2>3 DEF DataTypes
  <2>5. /\ TypesMove
        /\ tasks'[s] = u /\ \A r \in TaskSlots \ {s} : tasks'[r] = tasks[r]
    BY <1>4, <1>5, <2>4, TypesOfSlot
  <2>6. tasks[s].kind \in Drivers
    BY <1>2, <1>7 DEF Drivers
  <2>7. l \in Booted(tasks[s])
    BY <1>1, <1>7 DEF Booted
  <2>8. Recordable(s, <<l>>)
    BY <2>6, <2>7, PromptRecordable
  <2>9. LinesOf(<<l>>) = {l} /\ <<l>> \in Seq(Lines)
    BY <2>1 DEF LinesOf
  <2>10. \A q \in Queues : LinesOf(<<l>>) \cap LinesOf(waiting[q]) = {}
    <3>1. line[l].at = "taken"
      BY <2>7 DEF ChatInv, Placed, BootedPlaced
    <3> QED
      BY <2>9, <3>1, QueuedIs DEF ChatInv, Placed, WaitingPlaced
  <2>11. Records(s, <<l>>)
    BY <1>1, <1>5, <2>2, <2>3, <2>5, <2>9, <2>10 DEF Records
  <2> QED
    BY <2>5, <2>8, <2>9, <2>11, RecordsKeeps
<1> QED
  BY <1>6, <1>7

LEMMA BatchKeeps ==
  ASSUME ChatAssumption, ChatInv, NEW s \in TaskSlots, Batch(s)
  PROVE  ChatInv'
<1>0. ChatTypes /\ DataTypes
  BY DataTyped DEF ChatInv
<1>1. /\ tasks[s] # NoTask /\ tasks[s].phase = "model" /\ tasks[s].kind # "worker"
      /\ UNCHANGED <<line, waiting, entered, recorded, turnTask, loopTask>>
      /\ SetTasks([tasks EXCEPT ![s].phase = "batch"])
  BY DEF Batch, InPhase, Live
<1>. DEFINE u == [tasks[s] EXCEPT !.phase = "batch"]
<1>2. /\ tasks[s] \in TaskRecords /\ tasks[s].got = Nothing
      /\ (tasks[s].kind # "turn" => tasks[s].line = NoLine)
  BY <1>0, <1>1, NextPhase DEF ProperTask
<1>3. /\ u \in TaskRecords /\ u.phase = "batch" /\ u.got = Nothing /\ u.kind = tasks[s].kind
      /\ u.line = tasks[s].line
  BY <1>2 DEF TaskRecords, TaskPhases
<1>4. SetTasks([tasks EXCEPT ![s] = u])
  BY <1>1
<1>. HIDE DEF u
<1>5. ProperTask(u) /\ EmptyHanded(u)
  BY <1>1, <1>2, <1>3, PhaseRecord
<1> QED
  BY <1>0, <1>1, <1>4, <1>5, SlotKeeps DEF DataTypes, EmptyHanded

\* A driver records what it has fetched and what waits.
LEMMA DrainKeeps ==
  ASSUME ChatAssumption, ChatInv, NEW s \in TaskSlots, tasks[s].kind \in Drivers,
         RecordAll(Drained(tasks[s].got)), waiting' = Nothing, entered' = entered,
         NEW u, ProperTask(u), EmptyHanded(u), SetTasks([tasks EXCEPT ![s] = u]),
         turnTask' \in TaskSlots \cup {0}, loopTask' \in TaskSlots \cup {0}
  PROVE  ChatInv'
<1>0. ChatTypes /\ DataTypes
  BY DataTyped DEF ChatInv
<1>. DEFINE ls == Drained(tasks[s].got)
<1>1. ls \in Seq(Lines) /\ Recordable(s, ls)
  BY DrainedRecordable
<1>2. /\ recorded' = recorded \o ls
      /\ line' = [l \in Lines |-> IF l \in LinesOf(ls)
                                  THEN [line[l] EXCEPT !.at = "recorded"] ELSE line[l]]
  BY DEF RecordAll
<1>. HIDE DEF ls
<1>3. \A l \in Lines : /\ line[l] \in [at : PlaceNames, queue : Queues]
                       /\ [line[l] EXCEPT !.at = "recorded"] \in [at : PlaceNames, queue : Queues]
                       /\ [line[l] EXCEPT !.at = "recorded"].at = "recorded"
                       /\ [line[l] EXCEPT !.at = "recorded"].queue = line[l].queue
  <2>1. "recorded" \in PlaceNames
    BY DEF PlaceNames
  <2>2. ASSUME NEW x \in [at : PlaceNames, queue : Queues]
        PROVE  /\ [x EXCEPT !.at = "recorded"] \in [at : PlaceNames, queue : Queues]
               /\ [x EXCEPT !.at = "recorded"].at = "recorded"
               /\ [x EXCEPT !.at = "recorded"].queue = x.queue
    BY <2>1
  <2> QED
    BY <1>0, <2>2 DEF DataTypes
<1>4. /\ line' \in [Lines -> [at : PlaceNames, queue : Queues]]
      /\ \A l \in Lines : IF l \in LinesOf(ls)
                          THEN line'[l].at = "recorded" /\ line'[l].queue = line[l].queue
                          ELSE line'[l] = line[l]
  BY <1>2, <1>3
<1>5. recorded' \in Seq(Lines)
  <2>1. recorded \in Seq(Lines)
    BY <1>0 DEF DataTypes
  <2> QED
    BY <1>1, <1>2, <2>1
<1>6. waiting' \in [Queues -> Seq(Lines)] /\ \A q \in Queues : waiting'[q] = <<>>
  BY DEF Nothing
<1>7. DataTypes'
  BY <1>0, <1>4, <1>5, <1>6 DEF DataTypes
<1>8. /\ TypesMove
      /\ tasks'[s] = u /\ \A r \in TaskSlots \ {s} : tasks'[r] = tasks[r]
  BY <1>7, TypesOfSlot
<1>9. Records(s, ls)
  BY <1>2, <1>4, <1>6, <1>8 DEF Records
<1> QED
  BY <1>1, <1>8, <1>9, RecordsKeeps

LEMMA NextRecord ==
  ASSUME NEW t \in TaskRecords, NEW got \in [Queues -> Seq(Lines)]
  PROVE  LET u == [t EXCEPT !.phase = "model", !.rounds = @ + 1, !.got = got]
         IN  /\ u \in TaskRecords /\ u.phase = "model" /\ u.got = got
             /\ u.kind = t.kind /\ u.line = t.line
<1>. DEFINE u == [t EXCEPT !.phase = "model", !.rounds = @ + 1, !.got = got]
<1>1. t.rounds + 1 \in Int /\ "model" \in TaskPhases
  BY DEF TaskRecords, TaskPhases
<1>2. u \in TaskRecords
  BY <1>1 DEF TaskRecords
<1>3. u.phase = "model" /\ u.got = got
  BY DEF TaskRecords
<1>4. u.kind = t.kind
  BY DEF TaskRecords
<1>5. u.line = t.line
  BY DEF TaskRecords
<1> QED
  BY <1>2, <1>3, <1>4, <1>5

LEMMA BatchEndsKeeps ==
  ASSUME ChatAssumption, ChatInv, NEW s \in TaskSlots, BatchEnds(s)
  PROVE  ChatInv'
<1>0. ChatTypes /\ DataTypes
  BY DataTyped DEF ChatInv
<1>1. /\ tasks[s] # NoTask /\ tasks[s].phase = "batch"
      /\ UNCHANGED <<entered, turnTask, loopTask>>
      /\ SetTasks([tasks EXCEPT ![s].phase = "model", ![s].rounds = @ + 1])
  BY DEF BatchEnds, InPhase, Live
<1>. DEFINE u == [tasks[s] EXCEPT !.phase = "model", !.rounds = @ + 1]
<1>2. /\ tasks[s] \in TaskRecords /\ tasks[s].got = Nothing /\ tasks[s].kind # "worker"
      /\ (tasks[s].kind # "turn" => tasks[s].line = NoLine)
  BY <1>0, <1>1, NextPhase DEF ProperTask
<1>3. /\ u \in TaskRecords /\ u.phase = "model" /\ u.got = Nothing /\ u.kind = tasks[s].kind
      /\ u.line = tasks[s].line
  <2>1. Nothing \in [Queues -> Seq(Lines)]
    BY <1>0, <1>1, NextPhase
  <2>2. u = [tasks[s] EXCEPT !.phase = "model", !.rounds = @ + 1, !.got = Nothing]
    BY <1>2 DEF TaskRecords
  <2>3. /\ u \in TaskRecords /\ u.phase = "model" /\ u.got = Nothing
        /\ u.kind = tasks[s].kind /\ u.line = tasks[s].line
    <3>1. tasks[s] \in TaskRecords
      BY <1>2
    <3>2. LET v == [tasks[s] EXCEPT !.phase = "model", !.rounds = @ + 1, !.got = Nothing]
          IN  /\ v \in TaskRecords /\ v.phase = "model" /\ v.got = Nothing
              /\ v.kind = tasks[s].kind /\ v.line = tasks[s].line
      BY <2>1, <3>1, NextRecord
    <3>. HIDE DEF u
    <3> QED
      BY <2>2, <3>2
  <2> QED
    BY <2>3
<1>4. SetTasks([tasks EXCEPT ![s] = u])
  <2>1. [tasks EXCEPT ![s].phase = "model", ![s].rounds = @ + 1] = [tasks EXCEPT ![s] = u]
    BY <1>0 DEF ChatTypes
  <2> QED
    BY <1>1, <2>1
<1>. HIDE DEF u
<1>5. ProperTask(u) /\ EmptyHanded(u)
  BY <1>2, <1>3, PhaseRecord
<1>6. CASE tasks[s].kind = "chain"
  <2>1. UNCHANGED <<line, waiting, recorded>>
    BY <1>6 DEF BatchEnds
  <2> QED
    BY <1>0, <1>1, <1>4, <1>5, <2>1, SlotKeeps DEF DataTypes, EmptyHanded
<1>7. CASE tasks[s].kind # "chain"
  <2>1. tasks[s].kind \in Drivers
    BY <1>2, <1>7 DEF TaskRecords, TaskKinds, Drivers
  <2>2. RecordAll(Drained(tasks[s].got)) /\ waiting' = Nothing
    BY <1>2, <1>7 DEF BatchEnds
  <2> QED
    BY <1>0, <1>1, <1>4, <1>5, <2>1, <2>2, DrainKeeps DEF DataTypes
<1> QED
  BY <1>6, <1>7

\* A task is over.
LEMMA OverFacts ==
  ASSUME DataTypes, NEW s \in TaskSlots, Over(s, tasks)
  PROVE  /\ SetTasks([tasks EXCEPT ![s] = NoTask])
         /\ turnTask' \in TaskSlots \cup {0} /\ loopTask' \in TaskSlots \cup {0}
         /\ ProperTask(NoTask) /\ EmptyHanded(NoTask)
  BY NoTaskFacts DEF Over, DataTypes, EmptyHanded

LEMMA RunReturnsKeeps ==
  ASSUME ChatAssumption, ChatInv, NEW s \in TaskSlots, tasks[s] # NoTask,
         RunReturns(s), UNCHANGED <<entered, recorded>>
  PROVE  ChatInv'
<1>0. ChatTypes /\ DataTypes
  BY DataTyped DEF ChatInv
<1>1. ASSUME Over(s, tasks), UNCHANGED <<line, waiting>> PROVE ChatInv'
  BY <1>0, <1>1, OverFacts, SlotKeeps DEF EmptyHanded
<1>2. CASE FollowUp(s, waiting)
  <2>1. CASE waiting # Nothing
    <3>. DEFINE q == IF waiting["steer"] # <<>> THEN "steer" ELSE "input"
                l == Head(waiting[q])
    <3>1. /\ waiting' = [waiting EXCEPT ![q] = Tail(@)]
          /\ SetTasks([tasks EXCEPT ![s] = Task("turn", l)])
          /\ Put(l, "taken")
          /\ turnTask' = s /\ UNCHANGED loopTask
      BY <1>2, <2>1 DEF FollowUp
    <3>2. q \in Queues /\ waiting[q] # <<>>
      <4>1. ASSUME waiting["steer"] = <<>>, waiting["input"] = <<>> PROVE FALSE
        <5>1. waiting \in [Queues -> Seq(Lines)] /\ \A p \in Queues : waiting[p] = <<>>
          BY <1>0, <4>1 DEF DataTypes, Queues
        <5>2. waiting = [p \in Queues |-> <<>>]
          BY <5>1
        <5> QED
          BY <2>1, <5>2 DEF Nothing
      <4> QED
        BY <4>1 DEF Queues
    <3>. HIDE DEF q
    <3>3. waiting[q] \in Seq(Lines)
      BY <1>0, <3>2 DEF DataTypes
    <3>4. l \in Lines /\ Tail(waiting[q]) \in Seq(Lines)
      BY <3>2, <3>3, TailFacts
    <3>. HIDE DEF l
    <3>5. line' \in [Lines -> [at : PlaceNames, queue : Queues]]
      BY <1>0, <3>1, <3>4, LinePut DEF PlaceNames
    <3>6. waiting' \in [Queues -> Seq(Lines)]
      BY <1>0, <3>1, <3>2, <3>4 DEF DataTypes
    <3>7. DataTypes'
      BY <1>0, <3>1, <3>5, <3>6 DEF DataTypes
    <3>8. /\ ProperTask(Task("turn", l)) /\ Booted(Task("turn", l)) \subseteq {l} \ {NoLine}
          /\ \A p \in Queues : Fetched(Task("turn", l), p) = {}
      <4>1. "turn" \in TaskKinds
        BY DEF TaskKinds
      <4> QED
        BY <3>4, <4>1, TaskFacts
    <3>9. /\ TypesMove
          /\ tasks'[s] = Task("turn", l) /\ \A r \in TaskSlots \ {s} : tasks'[r] = tasks[r]
      BY <3>1, <3>7, <3>8, TypesOfSlot
    <3>10. Takes(s, l)
      <4>1. line' = [line EXCEPT ![l].at = "taken"]
        BY <3>1 DEF Put
      <4>2. \E p \in Queues : /\ waiting[p] # <<>> /\ l = Head(waiting[p])
                              /\ waiting' = [waiting EXCEPT ![p] = Tail(@)]
        BY <3>1, <3>2 DEF l
      <4> QED
        BY <3>8, <3>9, <4>1, <4>2 DEF Takes
    <3> QED
      BY <3>4, <3>9, <3>10, TakesKeeps
  <2>2. CASE waiting = Nothing
    <3>1. Over(s, tasks) /\ UNCHANGED <<line, waiting>>
      BY <1>2, <2>2 DEF FollowUp
    <3> QED
      BY <1>1, <3>1
  <2> QED
    BY <2>1, <2>2
<1>3. CASE /\ tasks[s].kind = "loop"
           /\ SetTasks([tasks EXCEPT ![s].phase = "model", ![s].rounds = @ + 1,
                                     ![s].got = Nothing])
           /\ UNCHANGED <<turnTask, loopTask, line, waiting>>
  <2>. DEFINE u == [tasks[s] EXCEPT !.phase = "model", !.rounds = @ + 1, !.got = Nothing]
  <2>1. /\ tasks[s] \in TaskRecords /\ tasks[s].line = NoLine
        /\ Nothing \in [Queues -> Seq(Lines)]
    BY <1>0, <1>3, NextPhase DEF ProperTask
  <2>2. /\ u \in TaskRecords /\ u.phase = "model" /\ u.got = Nothing /\ u.kind = tasks[s].kind
        /\ u.line = tasks[s].line
    BY <2>1, NextRecord
  <2>3. SetTasks([tasks EXCEPT ![s] = u])
    <3>1. [tasks EXCEPT ![s].phase = "model", ![s].rounds = @ + 1, ![s].got = Nothing]
            = [tasks EXCEPT ![s] = u]
      BY <1>0 DEF ChatTypes
    <3> QED
      BY <1>3, <3>1
  <2>. HIDE DEF u
  <2>4. ProperTask(u) /\ EmptyHanded(u)
    BY <2>1, <2>2, PhaseRecord
  <2> QED
    BY <1>0, <1>3, <2>3, <2>4, SlotKeeps DEF DataTypes, EmptyHanded
<1> QED
  BY <1>1, <1>2, <1>3 DEF RunReturns

\* A task that goes on waiting for its workers, or stops to.
LEMMA WaitRecord ==
  ASSUME NEW t \in TaskRecords, ProperTask(t), t.kind \in Drivers,
         NEW phase \in {"final", "gather"}, NEW c \in BOOLEAN,
         NEW got \in [Queues -> Seq(Lines)], \A q \in Queues : Len(got[q]) <= 1
  PROVE  LET u == [t EXCEPT !.phase = phase, !.cancelled = c, !.got = got]
         IN  ProperTask(u) /\ Booted(u) = {} /\ \A q \in Queues : Fetched(u, q) = LinesOf(got[q])
<1>. DEFINE u == [t EXCEPT !.phase = phase, !.cancelled = c, !.got = got]
<1>1. /\ u \in TaskRecords /\ u.phase = phase /\ u.got = got /\ u.kind = t.kind
      /\ u.line = t.line
  BY DEF TaskRecords, TaskPhases
<1>2. t.kind # "turn" => t.line = NoLine
  <2>1. t # NoTask
    BY DEF NoTask, Drivers
  <2> QED
    BY <2>1 DEF ProperTask
<1>. HIDE DEF u
<1>3. u # NoTask
  BY <1>1 DEF NoTask, Drivers
<1>4. ProperTask(u)
  BY <1>1, <1>2 DEF ProperTask
<1>5. Booted(u) = {}
  BY <1>1 DEF Booted
<1>6. \A q \in Queues : Fetched(u, q) = LinesOf(got[q])
  BY <1>1, <1>3 DEF Fetched
<1> QED
  BY <1>4, <1>5, <1>6 DEF u

LEMMA FinalAnswerKeeps ==
  ASSUME ChatAssumption, ChatInv, NEW s \in TaskSlots, FinalAnswer(s)
  PROVE  ChatInv'
<1>0. ChatTypes /\ DataTypes
  BY DataTyped DEF ChatInv
<1>1. tasks[s] # NoTask /\ tasks[s].phase = "model" /\ UNCHANGED <<entered, recorded>>
  BY DEF FinalAnswer, InPhase, Live
<1>2. CASE RunReturns(s)
  BY <1>1, <1>2, RunReturnsKeeps
<1>3. CASE /\ tasks[s].kind \in {"turn", "loop"}
           /\ SetTasks([tasks EXCEPT ![s].phase = "final"])
           /\ UNCHANGED <<line, waiting, turnTask, loopTask>>
  <2>1. /\ tasks[s] \in TaskRecords /\ ProperTask(tasks[s])
        /\ \A q \in Queues : Fetched(tasks[s], q) = LinesOf(tasks[s].got[q])
    BY <1>0, <1>1, NextPhase
  <2>2. /\ tasks[s].got \in [Queues -> Seq(Lines)] /\ tasks[s].cancelled \in BOOLEAN
        /\ \A q \in Queues : Len(tasks[s].got[q]) <= 1
    BY <1>1, <2>1 DEF TaskRecords, ProperTask
  <2>. DEFINE u == [tasks[s] EXCEPT !.phase = "final", !.cancelled = tasks[s].cancelled,
                                    !.got = tasks[s].got]
  <2>3. /\ ProperTask(u) /\ Booted(u) = {}
        /\ \A q \in Queues : Fetched(u, q) = LinesOf(tasks[s].got[q])
    BY <1>3, <2>1, <2>2, WaitRecord DEF Drivers
  <2>4. SetTasks([tasks EXCEPT ![s] = u])
    <3>1. u = [tasks[s] EXCEPT !.phase = "final"]
      BY <2>1 DEF TaskRecords
    <3>. HIDE DEF u
    <3>2. [tasks EXCEPT ![s].phase = "final"] = [tasks EXCEPT ![s] = u]
      BY <1>0, <3>1 DEF ChatTypes
    <3> QED
      BY <1>3, <3>2
  <2>. HIDE DEF u
  <2>5. \A q \in Queues : Fetched(u, q) \subseteq Fetched(tasks[s], q)
    BY <2>1, <2>3
  <2> QED
    BY <1>0, <1>1, <1>3, <2>3, <2>4, <2>5, SlotKeeps DEF DataTypes
<1> QED
  BY <1>2, <1>3 DEF FinalAnswer

LEMMA FetchKeeps ==
  ASSUME ChatAssumption, ChatInv, NEW s \in TaskSlots, NEW q \in Queues, Fetch(s, q)
  PROVE  ChatInv'
<1>0. ChatTypes /\ DataTypes
  BY DataTyped DEF ChatInv
<1>1. /\ tasks[s] # NoTask /\ tasks[s].phase = "final" /\ waiting[q] # <<>>
      /\ tasks' = [tasks EXCEPT ![s].got[q] = <<Head(waiting[q])>>]
      /\ waiting' = [waiting EXCEPT ![q] = Tail(@)]
      /\ UNCHANGED <<line, entered, recorded, turnTask, loopTask, overlapped>>
  BY DEF Fetch, InPhase, Live
<1>. DEFINE l == Head(waiting[q])
            got == [tasks[s].got EXCEPT ![q] = <<l>>]
<1>2. /\ tasks[s] \in TaskRecords /\ ProperTask(tasks[s]) /\ tasks[s].kind \in Drivers
      /\ \A p \in Queues : Fetched(tasks[s], p) = LinesOf(tasks[s].got[p])
  BY <1>0, <1>1, NextPhase DEF ProperTask
<1>3. l \in Lines /\ Tail(waiting[q]) \in Seq(Lines)
  BY <1>0, <1>1, TailFacts DEF DataTypes
<1>. HIDE DEF l
<1>4. /\ tasks[s].got \in [Queues -> Seq(Lines)] /\ tasks[s].cancelled \in BOOLEAN
      /\ \A p \in Queues : Len(tasks[s].got[p]) <= 1
  BY <1>1, <1>2 DEF TaskRecords, ProperTask
<1>5. /\ got \in [Queues -> Seq(Lines)]
      /\ \A p \in Queues : Len(got[p]) <= 1
      /\ \A p \in Queues : LinesOf(got[p]) \subseteq
                             LinesOf(tasks[s].got[p]) \cup (IF p = q THEN {l} ELSE {})
  <2>1. <<l>> \in Seq(Lines) /\ Len(<<l>>) = 1 /\ LinesOf(<<l>>) = {l}
    BY <1>3 DEF LinesOf
  <2>2. got[q] = <<l>> /\ \A p \in Queues \ {q} : got[p] = tasks[s].got[p]
    BY <1>4
  <2>3. got \in [Queues -> Seq(Lines)]
    BY <1>4, <2>1
  <2>. HIDE DEF got
  <2>4. ASSUME NEW p \in Queues
        PROVE  /\ Len(got[p]) <= 1
               /\ LinesOf(got[p]) \subseteq
                    LinesOf(tasks[s].got[p]) \cup (IF p = q THEN {l} ELSE {})
    <3>1. CASE p = q
      <4>1. got[p] = <<l>>
        BY <2>2, <3>1
      <4> QED
        BY <2>1, <3>1, <4>1
    <3>2. CASE p # q
      <4>1. got[p] = tasks[s].got[p]
        BY <2>2, <3>2
      <4> QED
        BY <1>4, <3>2, <4>1
    <3> QED
      BY <3>1, <3>2
  <2> QED
    BY <2>3, <2>4
<1>. HIDE DEF got
<1>. DEFINE u == [tasks[s] EXCEPT !.phase = "final", !.cancelled = tasks[s].cancelled,
                                  !.got = got]
<1>6. /\ ProperTask(u) /\ Booted(u) = {}
      /\ \A p \in Queues : Fetched(u, p) = LinesOf(got[p])
  BY <1>2, <1>4, <1>5, WaitRecord
<1>7. u = [tasks[s] EXCEPT !.got = got] /\ u.kind = tasks[s].kind
  BY <1>1, <1>2 DEF TaskRecords
<1>. HIDE DEF u
<1>8. tasks' = [tasks EXCEPT ![s] = u] /\ overlapped' = overlapped
  <2>1. [tasks EXCEPT ![s].got[q] = <<Head(waiting[q])>>] = [tasks EXCEPT ![s] = u]
    BY <1>0, <1>7 DEF ChatTypes, l, got
  <2> QED
    BY <1>1, <2>1
<1>9. /\ tasks'[s] = u /\ \A r \in TaskSlots \ {s} : tasks'[r] = tasks[r]
      /\ tasks' = [r \in TaskSlots |-> tasks'[r]]
  BY <1>0, <1>8 DEF ChatTypes
<1>10. TypesMove
  <2>1. waiting' \in [Queues -> Seq(Lines)]
    BY <1>0, <1>1, <1>3 DEF DataTypes
  <2>2. \A r \in TaskSlots : ProperTask(tasks'[r])
    BY <1>0, <1>6, <1>9 DEF ChatTypes
  <2>3. ChatTypes'
    BY <1>0, <1>1, <1>9, <2>1, <2>2 DEF ChatTypes
  <2>4. \A r \in TaskSlots : tasks'[r].kind = tasks[r].kind
    BY <1>7, <1>9
  <2>5. OneDriver'
    BY <1>8, <2>4 DEF ChatInv, OneDriver
  <2> QED
    BY <1>8, <2>3, <2>5 DEF TypesMove
<1>11. Fetches(s, q)
  <2>1. \A p \in Queues : Fetched(tasks'[s], p) \subseteq
                            Fetched(tasks[s], p) \cup (IF p = q THEN {Head(waiting[q])} ELSE {})
    BY <1>2, <1>5, <1>6, <1>9 DEF l
  <2> QED
    BY <1>1, <1>6, <1>9, <2>1 DEF Fetches
<1> QED
  BY <1>10, <1>11, FetchesKeeps

\* A task in its wait turns to gather; c says whether it is cancelled.
LEMMA GatherKeeps ==
  ASSUME ChatAssumption, ChatInv, NEW s \in TaskSlots, tasks[s] # NoTask,
         tasks[s].phase = "final", NEW c \in BOOLEAN,
         SetTasks([tasks EXCEPT ![s].phase = "gather", ![s].cancelled = c]),
         UNCHANGED <<line, waiting, entered, recorded, turnTask, loopTask>>
  PROVE  ChatInv'
<1>0. ChatTypes /\ DataTypes
  BY DataTyped DEF ChatInv
<1>1. /\ tasks[s] \in TaskRecords /\ ProperTask(tasks[s]) /\ tasks[s].kind \in Drivers
      /\ \A q \in Queues : Fetched(tasks[s], q) = LinesOf(tasks[s].got[q])
  BY <1>0, NextPhase DEF ProperTask
<1>2. /\ tasks[s].got \in [Queues -> Seq(Lines)]
      /\ \A q \in Queues : Len(tasks[s].got[q]) <= 1
  BY <1>1 DEF TaskRecords, ProperTask
<1>. DEFINE u == [tasks[s] EXCEPT !.phase = "gather", !.cancelled = c, !.got = tasks[s].got]
<1>3. /\ ProperTask(u) /\ Booted(u) = {}
      /\ \A q \in Queues : Fetched(u, q) = LinesOf(tasks[s].got[q])
  BY <1>1, <1>2, WaitRecord
<1>4. u = [tasks[s] EXCEPT !.phase = "gather", !.cancelled = c]
  BY <1>1 DEF TaskRecords
<1>. HIDE DEF u
<1>5. SetTasks([tasks EXCEPT ![s] = u])
  <2>1. [tasks EXCEPT ![s].phase = "gather", ![s].cancelled = c] = [tasks EXCEPT ![s] = u]
    BY <1>0, <1>4 DEF ChatTypes
  <2> QED
    BY <2>1
<1>6. \A q \in Queues : Fetched(u, q) \subseteq Fetched(tasks[s], q)
  BY <1>1, <1>3
<1> QED
  BY <1>0, <1>3, <1>5, <1>6, SlotKeeps DEF DataTypes

LEMMA BoundaryKeeps ==
  ASSUME ChatAssumption, ChatInv, NEW s \in TaskSlots, BoundaryReturns(s)
  PROVE  ChatInv'
<1>0. ChatTypes
  BY DEF ChatInv
<1>1. /\ tasks[s] # NoTask /\ tasks[s].phase = "final"
      /\ SetTasks([tasks EXCEPT ![s].phase = "gather"])
      /\ UNCHANGED <<line, waiting, entered, recorded, turnTask, loopTask>>
  BY DEF BoundaryReturns, InPhase, Live
<1>2. tasks[s] \in TaskRecords
  BY <1>0, <1>1, NextPhase
<1>. DEFINE c == tasks[s].cancelled
<1>3. c \in BOOLEAN /\ [tasks[s] EXCEPT !.phase = "gather"]
                          = [tasks[s] EXCEPT !.phase = "gather", !.cancelled = c]
  BY <1>2 DEF TaskRecords
<1>4. [tasks EXCEPT ![s].phase = "gather"]
        = [tasks EXCEPT ![s].phase = "gather", ![s].cancelled = c]
  BY <1>0, <1>3 DEF ChatTypes
<1>5. SetTasks([tasks EXCEPT ![s].phase = "gather", ![s].cancelled = c])
  BY <1>1, <1>4
<1>. HIDE DEF c
<1> QED
  BY <1>1, <1>3, <1>5, GatherKeeps

LEMMA GatheredKeeps ==
  ASSUME ChatAssumption, ChatInv, NEW s \in TaskSlots, Gathered(s)
  PROVE  ChatInv'
<1>0. ChatTypes /\ DataTypes
  BY DataTyped DEF ChatInv
<1>1. tasks[s] # NoTask /\ tasks[s].phase = "gather" /\ entered' = entered
  BY DEF Gathered, InPhase, Live
<1>2. /\ tasks[s] \in TaskRecords /\ ProperTask(tasks[s]) /\ tasks[s].kind \in Drivers
      /\ (tasks[s].kind # "turn" => tasks[s].line = NoLine)
      /\ Nothing \in [Queues -> Seq(Lines)]
  BY <1>0, <1>1, NextPhase DEF ProperTask
<1>3. CASE RunReturns(s) /\ recorded' = recorded
  BY <1>1, <1>3, RunReturnsKeeps
<1>4. CASE /\ RecordAll(Drained(tasks[s].got)) /\ waiting' = Nothing
           /\ Over(s, tasks)
  BY <1>0, <1>1, <1>2, <1>4, OverFacts, DrainKeeps
<1>5. CASE /\ RecordAll(Drained(tasks[s].got)) /\ waiting' = Nothing
           /\ SetTasks([tasks EXCEPT ![s].phase = "model", ![s].got = Nothing,
                                     ![s].rounds = @ + 1])
           /\ UNCHANGED <<turnTask, loopTask>>
  <2>. DEFINE u == [tasks[s] EXCEPT !.phase = "model", !.rounds = @ + 1, !.got = Nothing]
  <2>1. /\ u \in TaskRecords /\ u.phase = "model" /\ u.got = Nothing
        /\ u.kind = tasks[s].kind /\ u.line = tasks[s].line
    <3>1. tasks[s] \in TaskRecords /\ Nothing \in [Queues -> Seq(Lines)]
      BY <1>2
    <3> QED
      BY <3>1, NextRecord
  <2>2. SetTasks([tasks EXCEPT ![s] = u])
    <3>1. [tasks EXCEPT ![s].phase = "model", ![s].got = Nothing, ![s].rounds = @ + 1]
            = [tasks EXCEPT ![s] = u]
      BY <1>0 DEF ChatTypes
    <3> QED
      BY <1>5, <3>1
  <2>. HIDE DEF u
  <2>3. ProperTask(u) /\ EmptyHanded(u)
    BY <1>2, <2>1, PhaseRecord
  <2> QED
    BY <1>0, <1>1, <1>2, <1>5, <2>2, <2>3, DrainKeeps DEF DataTypes
<1> QED
  BY <1>3, <1>4, <1>5 DEF Gathered

LEMMA CancelKeeps ==
  ASSUME ChatAssumption, ChatInv, NEW s \in TaskSlots, CancelAt(s),
         UNCHANGED <<waiting, entered, recorded>>
  PROVE  ChatInv'
<1>. USE QueuedIs
<1>0. ChatTypes /\ DataTypes /\ Placed
  BY DataTyped DEF ChatInv
<1>1. CASE /\ InPhase(s, "final")
           /\ SetTasks([tasks EXCEPT ![s].phase = "gather", ![s].cancelled = TRUE])
           /\ UNCHANGED <<line, turnTask, loopTask, questions, shownAsk>>
  BY <1>1, GatherKeeps DEF InPhase, Live
<1>2. ASSUME Live(s), ~InPhase(s, "final"), Over(s, tasks),
             NEW lost,
             lost = LinesOf(tasks[s].got["steer"]) \cup LinesOf(tasks[s].got["input"])
                    \cup (IF InPhase(s, "boot") THEN {tasks[s].line} \ {NoLine} ELSE {}),
             line' = [l \in Lines |-> IF l \in lost THEN [line[l] EXCEPT !.at = "cancelled"]
                                      ELSE line[l]]
      PROVE  ChatInv'
  <2>1. /\ SetTasks([tasks EXCEPT ![s] = NoTask])
        /\ turnTask' \in TaskSlots \cup {0} /\ loopTask' \in TaskSlots \cup {0}
    BY <1>0, <1>2, OverFacts
  <2>2. \A l \in Lines : /\ line[l] \in [at : PlaceNames, queue : Queues]
                         /\ [line[l] EXCEPT !.at = "cancelled"] \in [at : PlaceNames, queue : Queues]
                         /\ [line[l] EXCEPT !.at = "cancelled"].at = "cancelled"
                         /\ [line[l] EXCEPT !.at = "cancelled"].queue = line[l].queue
    <3>1. "cancelled" \in PlaceNames
      BY DEF PlaceNames
    <3>2. ASSUME NEW x \in [at : PlaceNames, queue : Queues]
          PROVE  /\ [x EXCEPT !.at = "cancelled"] \in [at : PlaceNames, queue : Queues]
                 /\ [x EXCEPT !.at = "cancelled"].at = "cancelled"
                 /\ [x EXCEPT !.at = "cancelled"].queue = x.queue
      BY <3>1
    <3> QED
      BY <1>0, <3>2 DEF DataTypes
  <2>3. /\ line' \in [Lines -> [at : PlaceNames, queue : Queues]]
        /\ \A l \in Lines \ lost : line'[l] = line[l]
        /\ \A l \in Lines \cap lost : line'[l].at = "cancelled" /\ line'[l].queue = line[l].queue
    BY <1>2, <2>2
  <2>4. DataTypes'
    BY <1>0, <2>1, <2>3 DEF DataTypes
  <2>5. /\ TypesMove
        /\ tasks'[s] = NoTask /\ \A r \in TaskSlots \ {s} : tasks'[r] = tasks[r]
    BY <2>1, <2>4, NoTaskFacts, TypesOfSlot
  <2>6. HandsShrink
    BY <2>5, NoTaskFacts DEF HandsShrink
  \* What the cancelled task had in hand was nowhere else.
  <2>7. lost = Booted(tasks[s]) \cup Fetched(tasks[s], "steer") \cup Fetched(tasks[s], "input")
    BY <1>2 DEF Booted, Fetched, InPhase, Live
  <2>8. ASSUME NEW l \in lost
        PROVE  /\ line[l].at \in {"queued", "taken"}
               /\ \A q \in Queues : l \notin LinesOf(waiting[q])
               /\ ~InHand(l)'
    <3>1. "steer" \in Queues /\ "input" \in Queues
      BY DEF Queues
    <3>2. CASE l \in Booted(tasks[s])
      <4>1. line[l].at = "taken"
        BY <1>0, <3>2 DEF Placed, BootedPlaced
      <4>2. \A r \in TaskSlots \ {s} : l \notin Booted(tasks[r])
        BY <1>0, <3>2 DEF Placed, HandsApart
      <4>3. \A r \in TaskSlots : \A q \in Queues : l \notin Fetched(tasks[r], q)
        BY <1>0, <4>1 DEF Placed, FetchedPlaced
      <4>4. \A q \in Queues : l \notin LinesOf(waiting[q])
        BY <1>0, <4>1 DEF Placed, WaitingPlaced
      <4> QED
        BY <2>5, <4>1, <4>2, <4>3, <4>4, NoTaskFacts DEF InHand
    <3>3. ASSUME NEW p \in Queues, l \in Fetched(tasks[s], p) PROVE <2>8!2
      <4>1. line[l] = Queued(p) /\ l \notin LinesOf(waiting[p])
        BY <1>0, <3>3 DEF Placed, FetchedPlaced
      <4>2. \A r \in TaskSlots : l \notin Booted(tasks[r])
        BY <1>0, <4>1 DEF Placed, BootedPlaced
      <4>3. ASSUME NEW r \in TaskSlots \ {s}, NEW q \in Queues, l \in Fetched(tasks[r], q)
            PROVE  FALSE
        <5>1. q = p
          BY <1>0, <4>1, <4>3 DEF Placed, FetchedPlaced
        <5> QED
          BY <1>0, <3>3, <4>3, <5>1 DEF Placed, HandsApart
      <4>4. \A q \in Queues : l \notin LinesOf(waiting[q])
        BY <1>0, <4>1 DEF Placed, WaitingPlaced
      <4> QED
        BY <2>5, <4>1, <4>2, <4>3, <4>4, NoTaskFacts DEF InHand
    <3> QED
      BY <2>7, <3>1, <3>2, <3>3
  <2>9. \A l \in Lines :
          \/ line'[l] = line[l]
          \/ /\ line'[l].at = "cancelled" /\ line'[l].queue = line[l].queue
             /\ line[l].at \in {"queued", "taken"}
             /\ \A q \in Queues : l \notin LinesOf(waiting[q])
             /\ ~InHand(l)'
    BY <2>3, <2>8
  <2>10. Loosened
    BY <2>6, <2>9 DEF Loosened
  <2> QED
    BY <2>5, <2>10, LoosenedKeeps
<1>3. CASE /\ Live(s) /\ ~InPhase(s, "final")
           /\ Over(s, tasks)
           /\ LET lost == LinesOf(tasks[s].got["steer"]) \cup LinesOf(tasks[s].got["input"])
                          \cup (IF InPhase(s, "boot") THEN {tasks[s].line} \ {NoLine} ELSE {})
              IN line' = [l \in Lines |-> IF l \in lost THEN [line[l] EXCEPT !.at = "cancelled"]
                                          ELSE line[l]]
  BY <1>2, <1>3
<1> QED
  BY <1>1, <1>3 DEF CancelAt

LEMMA SlotsOfTasks ==
  ASSUME ChatInv
  PROVE  /\ TurnRunning => turnTask \in TaskSlots
         /\ LoopRunning => loopTask \in TaskSlots
  BY DEF ChatInv, ChatTypes, TurnRunning, LoopRunning

LEMMA CtrlCKeeps == ASSUME ChatAssumption, ChatInv, CtrlC PROVE ChatInv'
  BY CancelKeeps, SlotsOfTasks DEF CtrlC

LEMMA StopLoopKeeps == ASSUME ChatAssumption, ChatInv, StopLoop PROVE ChatInv'
  BY CancelKeeps, SlotsOfTasks DEF StopLoop

LEMMA QuitKeeps == ASSUME ChatAssumption, ChatInv, Quit PROVE ChatInv'
<1>1. UNCHANGED <<waiting, entered, recorded>>
  BY DEF Quit
<1>2. CASE TurnRunning /\ CancelAt(turnTask)
  BY <1>1, <1>2, CancelKeeps, SlotsOfTasks
<1>3. CASE UNCHANGED <<line, tasks, turnTask, loopTask, overlapped>>
  BY <1>1, <1>3, NothingMoves
<1> QED
  BY <1>2, <1>3 DEF Quit

LEMMA AskReturnsKeeps ==
  ASSUME ChatAssumption, ChatInv, NEW a \in AskCalls, AskReturns(a)
  PROVE  ChatInv'
<1>1. UNCHANGED <<waiting, entered, recorded>>
  BY DEF AskReturns
<1>2. CASE UNCHANGED <<line, tasks, turnTask, loopTask, shownAsk, overlapped>>
  BY <1>1, <1>2, NothingMoves
<1>3. CASE \E s \in TaskSlots : InPhase(s, "batch") /\ CancelAt(s)
  BY <1>1, <1>3, CancelKeeps
<1> QED
  BY <1>2, <1>3 DEF AskReturns

LEMMA ChatInitHolds == ChatInit => ChatInv
<1>. SUFFICES ASSUME ChatInit PROVE ChatInv
  OBVIOUS
<1>1. /\ Nothing \in [Queues -> Seq(Lines)] /\ \A q \in Queues : Nothing[q] = <<>>
      /\ waiting = Nothing /\ entered = Nothing /\ recorded = <<>> /\ overlapped = FALSE
      /\ turnTask = 0 /\ loopTask = 0
      /\ tasks = [s \in TaskSlots |-> NoTask]
  BY DEF Nothing, ChatInit
<1>2. line \in [Lines -> [at : PlaceNames, queue : Queues]]
  <2>1. [at |-> "none", queue |-> "input"] \in [at : PlaceNames, queue : Queues]
    BY DEF PlaceNames, Queues
  <2> QED
    BY <2>1 DEF ChatInit
<1>3. \A s \in TaskSlots : tasks[s] = NoTask
  BY <1>1
<1>4. ChatTypes
  <2>1. tasks = [s \in TaskSlots |-> tasks[s]]
    BY <1>1
  <2>2. \A s \in TaskSlots : ProperTask(tasks[s])
    BY <1>3, NoTaskFacts
  <2>3. recorded \in Seq(Lines) /\ overlapped \in BOOLEAN
    <3>1. recorded = <<>> /\ overlapped = FALSE
      BY <1>1
    <3>2. recorded \in Seq(Lines)
      BY <3>1
    <3>3. overlapped \in BOOLEAN
      BY <3>1, Zenon
    <3> QED
      BY <3>2, <3>3
  <2>4. waiting \in [Queues -> Seq(Lines)] /\ entered \in [Queues -> Seq(Lines)]
    BY <1>1
  <2> QED
    BY <1>1, <1>2, <2>1, <2>2, <2>3, <2>4 DEF ChatTypes
<1>5. Placed
  <2>1. WaitingPlaced
    BY <1>1, EmptyFacts DEF WaitingPlaced
  <2>2. RecordedPlaced
    BY <1>1, EmptyFacts DEF RecordedPlaced
  <2>3. FetchedPlaced /\ BootedPlaced /\ HandsApart
    BY <1>3, NoTaskFacts DEF FetchedPlaced, BootedPlaced, HandsApart
  <2> QED
    BY <2>1, <2>2, <2>3 DEF Placed
<1>6. EnteredOnce
  BY <1>1, EmptyFacts DEF EnteredOnce
<1>7. WaitingIsTail
  BY <1>1 DEF WaitingIsTail, IsTail
<1>8. OneDriver
  BY <1>3 DEF OneDriver, NoTask, Drivers
<1>9. HandsFollow /\ RecordedInOrder
  BY <1>1, EmptyFacts DEF HandsFollow, RecordedInOrder
<1> QED
  BY <1>4, <1>5, <1>6, <1>7, <1>8, <1>9 DEF ChatInv

LEMMA ChatStep == ChatInv /\ [ChatNext]_chatVars => ChatInv'
<1>. SUFFICES ASSUME ChatInv, [ChatNext]_chatVars PROVE ChatInv'
  OBVIOUS
<1>. USE ChatAssumption
<1>1. CASE UNCHANGED chatVars
  BY <1>1, NothingMoves DEF chatVars
<1>2. CASE Enter \/ Guarded \/ Mentioned \/ WorkersChange
  BY <1>2, EnterKeeps, GuardedKeeps, MentionedKeeps, WorkersChangeKeeps
<1>3. CASE StartLoop \/ StartChain \/ CtrlC \/ StopLoop \/ Quit
  BY <1>3, StartLoopKeeps, StartChainKeeps, CtrlCKeeps, StopLoopKeeps, QuitKeeps
<1>4. CASE AnswerAsk
  BY <1>4, NothingMoves DEF AnswerAsk
<1>5. ASSUME NEW s \in TaskSlots,
             \/ Begin(s) \/ Batch(s) \/ BatchEnds(s) \/ FinalAnswer(s)
             \/ \E q \in Queues : Fetch(s, q)
             \/ BoundaryReturns(s) \/ Gathered(s)
      PROVE  ChatInv'
  BY <1>5, BeginKeeps, BatchKeeps, BatchEndsKeeps, FinalAnswerKeeps, FetchKeeps,
     BoundaryKeeps, GatheredKeeps
<1>6. ASSUME NEW a \in AskCalls, ShowQuestion(a) \/ AskReturns(a) PROVE ChatInv'
  BY <1>6, AskReturnsKeeps, NothingMoves DEF ShowQuestion
<1> QED
  BY <1>1, <1>2, <1>3, <1>4, <1>5, <1>6 DEF ChatNext

\* The lines of what waits, of what is recorded and of what tasks have in hand
\* differ, so no prompt is given to the model twice.
LEMMA InvIsOnce == ChatInv => PromptOnce
<1>. SUFFICES ASSUME ChatInv PROVE PromptOnce
  OBVIOUS
<1>. USE QueuedIs
<1>0. ChatTypes /\ Placed
  BY DEF ChatInv
<1>. DEFINE a == waiting["steer"]
            b == waiting["input"]
            x == a \o b
            y == x \o recorded
<1>1. a \in Seq(Lines) /\ b \in Seq(Lines) /\ recorded \in Seq(Lines)
  BY <1>0 DEF ChatTypes, Queues
<1>2. /\ \A l \in LinesOf(a) : line[l] = Queued("steer")
      /\ \A l \in LinesOf(b) : line[l] = Queued("input")
      /\ \A l \in LinesOf(recorded) : line[l].at = "recorded"
      /\ Distinct(a) /\ Distinct(b) /\ Distinct(recorded)
  BY <1>0 DEF Placed, WaitingPlaced, RecordedPlaced, Queues
<1>3. Everywhere = y
  BY DEF Everywhere
<1>. HIDE DEF a, b
<1>4. x \in Seq(Lines) /\ LinesOf(x) = LinesOf(a) \cup LinesOf(b) /\ Distinct(x)
  <2>1. LinesOf(a) \cap LinesOf(b) = {}
    BY <1>2
  <2> QED
    BY <1>1, <1>2, <2>1, JoinLines, JoinDistinct
<1>. HIDE DEF x
<1>5. LinesOf(y) = LinesOf(x) \cup LinesOf(recorded) /\ Distinct(y)
  <2>1. LinesOf(x) \cap LinesOf(recorded) = {}
    BY <1>2, <1>4
  <2> QED
    BY <1>1, <1>2, <1>4, <2>1, JoinLines, JoinDistinct
<1>. HIDE DEF y
<1>6. ASSUME NEW s \in TaskSlots, Live(s)
      PROVE  LinesOf(Held(s)) = Fetched(tasks[s], "steer") \cup Fetched(tasks[s], "input")
                                  \cup Booted(tasks[s])
  <2>. DEFINE g == tasks[s].got["steer"]
              h == tasks[s].got["input"]
              p == IF InPhase(s, "boot") /\ tasks[s].line # NoLine
                   THEN <<tasks[s].line>> ELSE <<>>
              gh == g \o h
  <2>1. tasks[s] \in TaskRecords
    BY <1>0, <1>6, NextPhase DEF Live
  <2>2. tasks[s].got \in [Queues -> Seq(Lines)] /\ tasks[s].line \in Lines \cup {NoLine}
    BY <2>1 DEF TaskRecords
  <2>3. g \in Seq(Lines) /\ h \in Seq(Lines)
    BY <2>2 DEF Queues
  <2>4. p \in Seq(Lines) /\ LinesOf(p) = Booted(tasks[s])
    <3>1. CASE InPhase(s, "boot") /\ tasks[s].line # NoLine
      <4>1. p = <<tasks[s].line>> /\ Booted(tasks[s]) = {tasks[s].line}
        BY <1>6, <3>1 DEF Booted, InPhase, Live
      <4>2. tasks[s].line \in Lines
        BY <2>2, <3>1
      <4>3. \A l \in Lines : <<l>> \in Seq(Lines) /\ LinesOf(<<l>>) = {l}
        BY DEF LinesOf
      <4> QED
        BY <4>1, <4>2, <4>3
    <3>2. CASE ~(InPhase(s, "boot") /\ tasks[s].line # NoLine)
      <4>1. p = <<>> /\ Booted(tasks[s]) = {}
        BY <1>6, <3>2 DEF Booted, InPhase, Live
      <4> QED
        BY <4>1, EmptyFacts
    <3> QED
      BY <3>1, <3>2
  <2>5. Held(s) = gh \o p
    BY DEF Held
  <2>6. /\ LinesOf(g) = Fetched(tasks[s], "steer") /\ LinesOf(h) = Fetched(tasks[s], "input")
    BY <1>6 DEF Fetched, Live
  <2>. HIDE DEF g, h, p
  <2>7. gh \in Seq(Lines) /\ LinesOf(gh) = LinesOf(g) \cup LinesOf(h)
    BY <2>3, JoinLines
  <2>. HIDE DEF gh
  <2>8. LinesOf(gh \o p) = LinesOf(gh) \cup LinesOf(p)
    BY <2>4, <2>7, JoinLines
  <2> QED
    BY <2>4, <2>5, <2>6, <2>7, <2>8
<1>7. "steer" \in Queues /\ "input" \in Queues
  BY DEF Queues
<1>8. ASSUME NEW s \in TaskSlots, Live(s) PROVE LinesOf(Held(s)) \cap LinesOf(y) = {}
  <2>1. \A l \in Fetched(tasks[s], "steer") : line[l] = Queued("steer") /\ l \notin LinesOf(a)
    BY <1>0, <1>7 DEF Placed, FetchedPlaced, a
  <2>2. \A l \in Fetched(tasks[s], "input") : line[l] = Queued("input") /\ l \notin LinesOf(b)
    BY <1>0, <1>7 DEF Placed, FetchedPlaced, b
  <2>3. \A l \in Booted(tasks[s]) : line[l].at = "taken"
    BY <1>0 DEF Placed, BootedPlaced
  <2> QED
    BY <1>2, <1>4, <1>5, <1>6, <1>8, <2>1, <2>2, <2>3
<1>9. ASSUME NEW s \in TaskSlots, Live(s), NEW r \in TaskSlots \ {s}, Live(r)
      PROVE  LinesOf(Held(s)) \cap LinesOf(Held(r)) = {}
  <2>1. /\ Fetched(tasks[s], "steer") \cap Fetched(tasks[r], "steer") = {}
        /\ Fetched(tasks[s], "input") \cap Fetched(tasks[r], "input") = {}
        /\ Booted(tasks[s]) \cap Booted(tasks[r]) = {}
    BY <1>0, <1>7 DEF Placed, HandsApart
  <2>2. \A t \in {s, r} :
          /\ \A l \in Fetched(tasks[t], "steer") : line[l] = Queued("steer")
          /\ \A l \in Fetched(tasks[t], "input") : line[l] = Queued("input")
          /\ \A l \in Booted(tasks[t]) : line[l].at = "taken"
    BY <1>0, <1>7 DEF Placed, FetchedPlaced, BootedPlaced
  <2> QED
    BY <1>6, <1>9, <2>1, <2>2
<1> QED
  BY <1>3, <1>5, <1>8, <1>9 DEF PromptOnce, Distinct

\* No prompt is given to the model twice, however its queue was emptied and
\* whatever was cancelled, for any number of lines, tasks and model calls.
THEOREM EachPromptOnce == ChatSpec => []PromptOnce
<1>1. ChatInit => ChatInv
  BY ChatInitHolds
<1>2. ChatInv /\ [ChatNext]_chatVars => ChatInv'
  BY ChatStep
<1>3. ChatInv => PromptOnce
  BY InvIsOnce
<1> QED
  BY <1>1, <1>2, <1>3, PTL DEF ChatSpec

\* As long as no two tasks have driven the runner at once, the lines of a queue
\* are recorded in the order in which they entered it.
THEOREM QueuesInOrder == ChatSpec => []QueueOrder
<1>1. ChatInit => ChatInv
  BY ChatInitHolds
<1>2. ChatInv /\ [ChatNext]_chatVars => ChatInv'
  BY ChatStep
<1>3. ChatInv => QueueOrder
  BY DEF ChatInv, RecordedInOrder, InOrder, QueueOrder
<1> QED
  BY <1>1, <1>2, <1>3, PTL DEF ChatSpec
=============================================================================
