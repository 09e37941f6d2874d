----------------------------- MODULE MemoryFacts ------------------------------
(***************************************************************************)
(* The facts of a project (memory/facts.py): one SQLite file that every    *)
(* process of the project shares, and what races a forget: the model call  *)
(* that learns (memory/learning.py), a turn that corrects a fact or writes *)
(* Markdown (memory/tools.py), and the markers a forget owes to the        *)
(* session files it took evidence from (session/storage.py).  A SQLite     *)
(* transaction is one step; between two of them any other process runs.    *)
(***************************************************************************)
EXTENDS Integers, Sequences, FiniteSets

CONSTANTS
  Owners,        \* processes that share the project
  Logs,          \* its session files
  Said,          \* messages a fact can be learned from, as [log, n]
  MaxLines,      \* bound on the lines appended to a session file
  MaxRevisions,  \* bound on the revisions of a fact
  MaxAsks,       \* bound on the turns and the calls that learn
  MaxDeaths      \* bound on the crashes and power failures

ASSUME SaidAssumption == \A m \in Said : m.log \in Logs

VARIABLES
  fact,          \* facts, revisions, source_refs: the evidence of each revision
  forgotten,     \* table forgotten
  excluded,      \* table exclusions
  generation,    \* exclusion_generation, kept by two triggers
  queued,        \* table forget_events: markers that are still owed
  file,          \* the lines of a session file that matter here
  synced,        \* how many of them have reached the disk
  holder,        \* the process that holds a session's lock, {} if none
  flush,         \* _flush_forgets_locked in progress in a process
  outbox,        \* the sessions a forget tool has still to visit
  learner,       \* learn() in progress
  asked,         \* the turn of a process: what its request was made from
  markdown,      \* messages whose text was written to MEMORY.md
  asks,          \* turns and learning calls begun
  deaths         \* crashes and power failures so far

memoryVars == <<fact, forgotten, excluded, generation, queued, file, synced,
                holder, flush, outbox, learner, asked, markdown, asks, deaths>>

bounds == <<asks, deaths>>
database == <<fact, forgotten, excluded, generation, queued>>
disk == <<file, synced>>
Idle == [phase |-> "idle"]
Elements(q) == {q[i] : i \in DOMAIN q}
-----------------------------------------------------------------------------
(* What a reader finds. *)

CountOf(l, kind) == Cardinality({i \in DOMAIN file[l] : file[l][i].kind = kind})

\* load_messages: an /undo hides the messages until it is redone.
Hidden(l) == CountOf(l, "undo") > CountOf(l, "redo")

Marked(l) == UNION {file[l][i].ids : i \in DOMAIN file[l]}

Line(kind, ids) == [kind |-> kind, ids |-> ids]

\* source_snapshot, validate_source: the message is visible and not excluded.
Valid(m) == ~Hidden(m.log) /\ m \notin excluded

\* is_excluded: any contributing revision can invalidate a fact.
IsExcluded(f) == Elements(fact[f]) \cap excluded # {}

\* RecallContext.inspect_fact: only a fact all of whose revisions still have
\* their evidence shows its text.
Shown == {f \in Said : fact[f] # <<>> /\ \A m \in Elements(fact[f]) : Valid(m)}

\* What a request holds (the session, and the facts of injection with their
\* evidence) or a turn is shown (list_facts): evidence that can still be shown.
Quotable == {m \in Said : Valid(m)}

\* add and revise, inside a transaction: a fact and the evidence of each revision.
Added(m) == [fact EXCEPT ![m] = <<m>>]
Revised(f, m) == [fact EXCEPT ![f] = Append(@, m)]

\* attach_source: the evidence must be there, and the fact not be forgotten, in the
\* transaction that stores the revision.
Attachable(f, m) == Valid(m) /\ ~IsExcluded(f)
-----------------------------------------------------------------------------
MemoryInit ==
  /\ fact = [f \in Said |-> <<>>]
  /\ forgotten = {} /\ excluded = {} /\ generation = 0 /\ queued = {}
  /\ file = [l \in Logs |-> <<>>]
  /\ synced = [l \in Logs |-> 0]
  /\ holder = [l \in Logs |-> {}]
  /\ flush = [p \in Owners |-> Idle]
  /\ outbox = [p \in Owners |-> {}]
  /\ learner = [p \in Owners |-> Idle]
  /\ asked = [p \in Owners |-> Idle]
  /\ markdown = {}
  /\ asks = 0 /\ deaths = 0

\* append_event: only the holder of the lock appends.
Extend(l, line) ==
  /\ Len(file[l]) < MaxLines
  /\ file' = [file EXCEPT ![l] = Append(@, line)]

\* The event loop of p is not inside one of its synchronous pieces.
Free(p) == flush[p] = Idle /\ outbox[p] = {}
-----------------------------------------------------------------------------
(* Sessions. *)

\* acquire_lock: the markers that are owed come first.
Attach(p) ==
  /\ Free(p)
  /\ \A l \in Logs : p \notin holder[l]
  /\ \E l \in Logs :
       /\ holder[l] = {}
       /\ holder' = [holder EXCEPT ![l] = {p}]
       /\ flush' = [flush EXCEPT ![p] =
            [phase |-> "next", log |-> l, keep |-> TRUE, ids |-> {},
             todo |-> {q.id : q \in {r \in queued : r.log = l}}]]
  /\ UNCHANGED <<database, disk, outbox, learner, asked, markdown, bounds>>

\* The session is left for another one; nothing of it may be running.
Detach(p) ==
  /\ Free(p)
  /\ learner[p] = Idle /\ asked[p] = Idle
  /\ \E l \in Logs :
       /\ holder[l] = {p}
       /\ holder' = [holder EXCEPT ![l] = {}]
  /\ UNCHANGED <<database, disk, flush, outbox, learner, asked, markdown,
                 bounds>>

\* /undo and /redo; any other line only changes the version of the file.
Hide(p) ==
  /\ Free(p)
  /\ \E l \in Logs :
       /\ holder[l] = {p}
       /\ Extend(l, Line(IF Hidden(l) THEN "redo" ELSE "undo", {}))
  /\ UNCHANGED <<database, synced, holder, flush, outbox, learner, asked,
                 markdown, bounds>>

\* The process dies: its locks are free, what it wrote stays.
Dies(p) ==
  /\ deaths < MaxDeaths /\ deaths' = deaths + 1
  /\ holder' = [l \in Logs |-> holder[l] \ {p}]
  /\ flush' = [flush EXCEPT ![p] = Idle]
  /\ outbox' = [outbox EXCEPT ![p] = {}]
  /\ learner' = [learner EXCEPT ![p] = Idle]
  /\ asked' = [asked EXCEPT ![p] = Idle]
  /\ UNCHANGED <<database, disk, markdown, asks>>

\* Power fails: SQLite has its commits, a session file what was synced.
PowerFails ==
  /\ deaths < MaxDeaths /\ deaths' = deaths + 1
  /\ \E l \in Logs : synced[l] < Len(file[l])
  /\ file' = [l \in Logs |-> SubSeq(file[l], 1, synced[l])]
  /\ holder' = [l \in Logs |-> {}]
  /\ flush' = [p \in Owners |-> Idle]
  /\ outbox' = [p \in Owners |-> {}]
  /\ learner' = [p \in Owners |-> Idle]
  /\ asked' = [p \in Owners |-> Idle]
  /\ UNCHANGED <<database, synced, markdown, asks>>
-----------------------------------------------------------------------------
(* Forgetting. *)

\* FactStore.forget, in one transaction: exclude the evidence of every
\* revision, purge the fact, owe each session file a marker.
Purge(f) ==
  LET sources == Elements(fact[f])
  IN /\ excluded' = excluded \cup sources
     /\ forgotten' = forgotten \cup {f}
     /\ generation' = generation + 1 + Cardinality(sources \ excluded)
     /\ queued' = queued \cup {[id |-> f, log |-> m.log] : m \in sources}
     /\ fact' = [fact EXCEPT ![f] = <<>>]

OwedFor(f) == {q.log : q \in {r \in queued : r.id = f}}

\* memory_forget, by the model or as /memory forget; a retry only delivers.
Forget(p) ==
  /\ Free(p)
  /\ \E l \in Logs : holder[l] = {p}
  /\ \E f \in Said :
       \/ /\ fact[f] # <<>>
          /\ Purge(f)
          /\ outbox' = [outbox EXCEPT ![p] = {m.log : m \in Elements(fact[f])}]
       \/ /\ f \in forgotten /\ OwedFor(f) # {}
          /\ outbox' = [outbox EXCEPT ![p] = OwedFor(f)]
          /\ UNCHANGED database
  /\ UNCHANGED <<disk, holder, flush, learner, asked, markdown, bounds>>

\* flush_forgets: with the lock that is held already, or for a moment with
\* that of a session nobody has open; another holder is left alone.
Visit(p) ==
  /\ flush[p] = Idle
  /\ \E l \in outbox[p] :
       /\ outbox' = [outbox EXCEPT ![p] = @ \ {l}]
       /\ \/ /\ holder[l] \notin {{}, {p}}
             /\ UNCHANGED <<holder, flush>>
          \/ /\ holder[l] \in {{}, {p}}
             /\ holder' = [holder EXCEPT ![l] = {p}]
             /\ flush' = [flush EXCEPT ![p] =
                  [phase |-> "next", log |-> l, keep |-> holder[l] = {p}, ids |-> {},
                   todo |-> {q.id : q \in {r \in queued : r.log = l}}]]
  /\ UNCHANGED <<database, disk, learner, asked, markdown, bounds>>

FlushEnds(p) ==
  /\ flush' = [flush EXCEPT ![p] = Idle]
  /\ holder' = IF flush[p].keep THEN holder
               ELSE [holder EXCEPT ![flush[p].log] = {}]

\* A marker that is on file already is not written again.
Mark(p) ==
  /\ flush[p].phase = "next"
  /\ LET l == flush[p].log
     IN \/ /\ flush[p].todo = {}
           /\ FlushEnds(p)
           /\ UNCHANGED file
        \/ /\ \E f \in flush[p].todo :
                /\ IF f \in Marked(l) THEN UNCHANGED file
                   ELSE Extend(l, Line("forget", {f}))
                /\ flush' = [flush EXCEPT ![p].phase = "sync", ![p].ids = {f}]
           /\ UNCHANGED holder
  /\ UNCHANGED <<database, synced, outbox, learner, asked, markdown, bounds>>

SyncSkipped(p) ==
  /\ flush[p].phase = "sync"
  /\ flush' = [flush EXCEPT ![p].phase = "owed"]
  /\ UNCHANGED <<database, disk, holder, outbox, learner, asked, markdown,
                 bounds>>

\* The fsync of the line, or of the line an earlier attempt left; it may fail.
SyncMark(p) ==
  /\ flush[p].phase = "sync"
  /\ \/ /\ synced' = [synced EXCEPT ![flush[p].log] = Len(file[flush[p].log])]
        /\ flush' = [flush EXCEPT ![p].phase = "owed"]
        /\ UNCHANGED holder
     \/ FlushEnds(p) /\ UNCHANGED synced
  /\ UNCHANGED <<database, file, outbox, learner, asked, markdown, bounds>>

\* acknowledge_forget: "Only after the session marker is durable".
Acknowledge(p) ==
  /\ flush[p].phase = "owed"
  /\ queued' = queued \ {[id |-> f, log |-> flush[p].log] : f \in flush[p].ids}
  /\ flush' = [flush EXCEPT ![p].phase = "next", ![p].todo = @ \ flush[p].ids]
  /\ UNCHANGED <<fact, forgotten, excluded, generation, disk, holder, outbox,
                 learner, asked, markdown, bounds>>
-----------------------------------------------------------------------------
(* Learning. *)

\* Up to the call of the model: what it is given, and the versions of it.
LearnBegins(p) ==
  /\ Free(p) /\ learner[p] = Idle
  /\ asks < MaxAsks /\ asks' = asks + 1
  /\ \E l \in Logs :
       /\ holder[l] = {p}
       /\ ~Hidden(l)
       /\ learner' = [learner EXCEPT ![p] =
            [phase |-> "model", log |-> l, gen |-> generation, version |-> Len(file[l]),
             supplied |-> {m \in Said : m.log = l /\ Valid(m)},
             existing |-> [f \in Shown |-> Len(fact[f])]]]
       /\ synced' = [synced EXCEPT ![l] = Len(file[l])]
  /\ UNCHANGED <<database, file, holder, flush, outbox, asked, markdown,
                 deaths>>

Unchanged(p) ==
  LET n == learner[p]
  IN /\ generation = n.gen
     /\ Len(file[n.log]) = n.version
     /\ \A f \in DOMAIN n.existing : Len(fact[f]) = n.existing[f]

\* A candidate of the answer, checked before it is stored; or no candidate,
\* or a stale one: the call is only accounted for.
Candidate(p) ==
  /\ Free(p) /\ learner[p].phase = "model"
  /\ \/ /\ Unchanged(p)
        /\ \E m \in learner[p].supplied :
             learner' = [learner EXCEPT ![p].phase = "store", ![p].supplied = {m}]
     \/ learner' = [learner EXCEPT ![p].phase = "bill"]
  /\ UNCHANGED <<database, disk, holder, flush, outbox, asked, markdown,
                 bounds>>

RememberBlindly(m, gen, l, version) ==
  fact' = IF fact[m] = <<>> THEN Added(m) ELSE fact

\* FactStore.remember, in one transaction, which looks again.  A text that is
\* known (in any revision) is not added twice.
Remember(m, gen, l, version) ==
  fact' = IF generation = gen /\ Len(file[l]) = version /\ Attachable(m, m) /\ fact[m] = <<>>
          THEN Added(m) ELSE fact

LearnStores(p) ==
  /\ learner[p].phase = "store"
  /\ \E m \in learner[p].supplied :
       Remember(m, learner[p].gen, learner[p].log, learner[p].version)
  /\ learner' = [learner EXCEPT ![p].phase = "bill"]
  /\ UNCHANGED <<forgotten, excluded, generation, queued, disk, holder, flush, outbox,
                 asked, markdown, bounds>>

\* The record of the call, durable.
LearnEnds(p) ==
  /\ learner[p].phase = "bill" /\ Free(p)
  /\ Extend(learner[p].log, Line("memory_usage", {}))
  /\ synced' = [synced EXCEPT ![learner[p].log] = Len(file'[learner[p].log])]
  /\ learner' = [learner EXCEPT ![p] = Idle]
  /\ UNCHANGED <<database, holder, flush, outbox, asked, markdown, bounds>>
-----------------------------------------------------------------------------
(* A turn. *)

\* A request goes out, and remembers the generation it was made from
\* (_request_generation, ctx.memory_generation).
Ask(p) ==
  /\ Free(p)
  /\ asks < MaxAsks
  /\ \E l \in Logs : holder[l] = {p}
  /\ asks' = asks + 1
  /\ asked' = [asked EXCEPT ![p] =
       [phase |-> "turn", gen |-> generation, from |-> Quotable]]
  /\ UNCHANGED <<database, disk, holder, flush, outbox, learner, markdown,
                 deaths>>

\* The answer fails, or its turn ends.
Answered(p) ==
  /\ Free(p) /\ asked[p].phase = "turn"
  /\ asked' = [asked EXCEPT ![p] = Idle]
  /\ UNCHANGED <<database, disk, holder, flush, outbox, learner, markdown,
                 bounds>>

\* memory_recall, of a fact or a range of any session: the turn may use what can
\* be shown by now, under the generation it has.
Recall(p) ==
  /\ Free(p) /\ asked[p].phase = "turn"
  /\ asked' = [asked EXCEPT ![p].from = @ \cup Quotable]
  /\ UNCHANGED <<database, disk, holder, flush, outbox, learner, markdown, bounds>>

\* memory_correct, in one transaction: evidence that is valid now, a fact that
\* is not excluded, and the revision the turn read last (with memory_recall it may
\* always have read the current one).
Correct(p) ==
  /\ Free(p) /\ asked[p].phase = "turn"
  /\ generation = asked[p].gen
  /\ \E f \in {e \in Said : fact[e] # <<>>}, m \in Said :
       /\ Attachable(f, m)
       /\ Len(fact[f]) < MaxRevisions
       /\ fact' = Revised(f, m)
  /\ UNCHANGED <<forgotten, excluded, generation, queued, disk, holder, flush, outbox,
                 learner, asked, markdown, bounds>>

WriteUnguarded(p) == markdown' = markdown \cup asked[p].from

\* guard_generation: inside a transaction, so that no forget commits between
\* the check and the write of the file.
WriteGuarded(p) ==
  generation = asked[p].gen /\ markdown' = markdown \cup asked[p].from

\* memory_write and memory_edit may repeat what the request showed.
WriteMarkdown(p) ==
  /\ Free(p) /\ asked[p].phase = "turn"
  /\ WriteGuarded(p)
  /\ UNCHANGED <<database, disk, holder, flush, outbox, learner, asked, bounds>>

MemoryNext ==
  \/ PowerFails
  \/ \E p \in Owners :
       \/ Attach(p) \/ Detach(p) \/ Hide(p) \/ Dies(p)
       \/ Forget(p) \/ Visit(p) \/ Mark(p) \/ SyncMark(p) \/ Acknowledge(p)
       \/ LearnBegins(p) \/ Candidate(p) \/ LearnStores(p) \/ LearnEnds(p)
       \/ Ask(p) \/ Answered(p) \/ Recall(p) \/ Correct(p) \/ WriteMarkdown(p)

MemorySpec == MemoryInit /\ [][MemoryNext]_memoryVars
-----------------------------------------------------------------------------
(* Properties. *)

\* A forget is final for everything that was under way when it committed: no
\* learner that already had its answer, no correction and no Markdown write of
\* a turn that had seen the fact stores evidence that is excluded by then.
NothingForgottenStored ==
  [][/\ \A f \in Said : (Elements(fact'[f]) \ Elements(fact[f])) \cap excluded = {}
     /\ (markdown' \ markdown) \cap excluded = {}]_memoryVars

\* Each file a forgotten fact took evidence from either has the marker on
\* disk, or it is still owed, whatever process died and whenever the power
\* failed.  The evidence of a forgotten fact is in the exclusions for good.
ForgetReachesSessions ==
  \A f \in forgotten :
    \/ [id |-> f, log |-> f.log] \in queued
    \/ \E i \in 1 .. synced[f.log] : file[f.log][i] = Line("forget", {f})
=============================================================================
