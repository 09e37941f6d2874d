----------------------------- MODULE SessionTurns -----------------------------
(***************************************************************************)
(* Who writes the session file, and when: the turn loop of AgentRunner     *)
(* (agent/runner.py), the slash commands that may run beside it            *)
(* (slash/handlers.py), compaction (session/compaction.py), /memory forget *)
(* and crashes.  asyncio interleaves them only where one of them awaits,   *)
(* so an action is the code between two awaits.                            *)
(***************************************************************************)
EXTENDS SessionLog, SequencesExt

CONSTANTS
  MaxRecords,      \* bound on the length of the file
  MaxNoisy,        \* bound on the length of a file with noise
  MaxNoise,        \* bound on its clears, bookkeeping, other events, torn lines
  MaxGeneration,   \* bound on the number of forgets
  Notes,           \* the kinds of notes that reach the conversation
  NoTurn           \* no turn is running

VARIABLES
  log,         \* the file, in order
  next,        \* next_seq of the attached Session
  mem,         \* FactStore: excluded_seqs and generation
  turn,        \* the runner: [phase, at, gen, ids, base]
  compacting   \* compact_session in flight: "manual" (/compact), "auto"

vars == <<log, next, mem, turn, compacting>>

Compactors == {"manual", "auto"}
Phases == {"start", "ready", "model", "tools"}
NoPlan == [at |-> 0]
-----------------------------------------------------------------------------
(* The writer. *)

Noise == Bookkeeping \cup {"event", "worker", "torn", "clear"}

\* There is room for the records rs.
Room(rs) ==
  /\ Len(log) + Len(rs) <= MaxRecords
  /\ LET all == log \o rs
         noisy == {i \in 1 .. Len(all) : all[i].kind \in Noise}
     IN /\ Cardinality(noisy) <= MaxNoise
        /\ noisy = {} \/ Len(all) <= MaxNoisy

\* append_message, append_event: the sequence number comes from the handle.
Write(r) ==
  /\ Room(<<r>>)
  /\ log' = Appended(log, r)
  /\ next' = r.seq + 1

\* Several appends without an await between them.
WriteAll(rs) ==
  /\ Room(rs)
  /\ log' = IF rs = <<>> THEN log
            ELSE Appended(log, Head(rs)) \o Tail(rs)
  /\ next' = next + Len(rs)

WriteRejectedBehind ==
  /\ Room(<<Event("memory_usage", 0)>>)
  /\ log' = Appended(log, Event("memory_usage", NextSeq(log)))
  /\ next' = next

\* rejected(): the usage of a discarded summary goes through a second handle,
\* then the attached one catches up.
WriteRejected ==
  /\ Room(<<Event("memory_usage", 0)>>)
  /\ log' = Appended(log, Event("memory_usage", NextSeq(log)))
  /\ next' = NextSeq(log) + 1

\* source_version: nothing but records of these kinds was appended since the
\* file had `at` records, and nothing was forgotten since generation gen.
SameSources(at, gen, kinds) ==
  /\ mem.generation = gen
  /\ \A i \in at + 1 .. Len(log) : log[i].kind \in kinds

Running(phases) == turn # NoTurn /\ turn.phase \in phases
EndTurn == turn' = NoTurn
NextRound ==
  turn' = [phase |-> "ready", at |-> 0, gen |-> turn.gen, ids |-> {}, base |-> {}]

\* The results of a set of calls, in some order.
Results(ids, gen, from) ==
  LET order == SetToSeq(ids)
  IN [i \in 1 .. Len(order) |->
        Message("tool", next + i - 1, gen, {order[i]}, from)]
-----------------------------------------------------------------------------
Init ==
  /\ log = <<>> /\ next = 1
  /\ mem = [excluded |-> {}, generation |-> 0]
  /\ turn = NoTurn
  /\ compacting = [k \in Compactors |-> NoPlan]

\* _run_turn appends the prompt; run() then pairs the calls an earlier turn
\* left open, and refuses to start while replay still shows one (consume).
Submit ==
  /\ turn = NoTurn
  /\ Len(log) < MaxRecords
  /\ LET prompt == Message("user", next, None, {}, {})
         open == SetToSeq(Outstanding(log, mem))
         repair == [i \in 1 .. Len(open) |->
                      Message("tool", next + i, None, {open[i]}, {})]
     IN WriteAll(<<prompt>> \o repair)
  /\ turn' = IF Outstanding(log', mem) = {}
             THEN [phase |-> "start", at |-> 0, gen |-> mem.generation,
                   ids |-> {}, base |-> {}]
             ELSE NoTurn
  /\ UNCHANGED <<mem, compacting>>

\* A prompt that was queued while the turn ran (_drain_queues).
Steer ==
  /\ Running({"ready"})
  /\ compacting["auto"] = NoPlan
  /\ Write(Message("user", next, None, {}, {}))
  /\ UNCHANGED <<mem, turn, compacting>>

\* The text of a background task or a worker that a call c started.  Only a
\* background task knows its generation, and only its note is stamped.
Deliver ==
  /\ Running({"start", "ready"})
  /\ compacting["auto"] = NoPlan
  /\ \E c \in OfKind(log, {"call"}) :
       \/ /\ "background" \in Notes
          /\ c.gen = mem.generation
          /\ Write(Message("user", next, turn.gen, {}, c.from))
       \/ /\ "worker" \in Notes
          /\ Outstanding(log, mem) = {}
          /\ Write(Message("user", next, None, {}, c.from))
  /\ UNCHANGED <<mem, turn, compacting>>

\* The boundary refuses to go on with a call that has no result.
Refused ==
  /\ Running({"ready"})
  /\ compacting["auto"] = NoPlan
  /\ Outstanding(log, mem) # {}
  /\ EndTurn
  /\ UNCHANGED <<log, next, mem, compacting>>

\* The request goes out, with the history replay shows.
Request ==
  /\ Running({"start", "ready"})
  /\ compacting["auto"] = NoPlan
  /\ Len(log) < MaxRecords
  /\ Running({"ready"}) => Outstanding(log, mem) = {}
  /\ turn' = [phase |-> "model", at |-> Len(log), gen |-> mem.generation,
              ids |-> {}, base |-> ViewLineage(View(log, mem))]
  /\ UNCHANGED <<log, next, mem, compacting>>

AcceptsIfRemembered == mem.generation = turn.gen

\* The sources are those of the request; bills and the records of the worker
\* supervisor do not count.
Accepts == SameSources(turn.at, turn.gen, {"provider_usage", "worker"})

\* A final text; an empty or truncated one keeps the loop going.
Answer ==
  /\ Running({"model"})
  /\ Accepts
  /\ Write(Message("asst", next, turn.gen, {}, turn.base))
  /\ EndTurn \/ NextRound
  /\ UNCHANGED <<mem, compacting>>

Call ==
  /\ Running({"model"})
  /\ Accepts
  /\ \E ts \in (SUBSET Tools) \ {{}} :
       LET ids == {next} \X ts
       IN /\ Write(Message("call", next, turn.gen, ids, turn.base))
          /\ turn' = [turn EXCEPT !.phase = "tools", !.at = 0, !.ids = ids,
                                  !.base = @ \cup {next}]
  /\ UNCHANGED <<mem, compacting>>

\* ContextPaused: the sources changed under the request.
Discard ==
  /\ Running({"model"})
  /\ ~Accepts
  /\ Write(Event("event", next))
  /\ EndTurn
  /\ UNCHANGED <<mem, compacting>>

\* A failed attempt is billed; then it is retried, or the turn fails.
ProviderFails ==
  /\ Running({"model"})
  /\ Write(Event("provider_usage", next))
  /\ EndTurn \/ UNCHANGED turn
  /\ UNCHANGED <<mem, compacting>>

\* Ctrl-C: of an answer that has begun to stream, calls included, what
\* there is is kept.
CancelModel ==
  /\ Running({"model"})
  /\ \/ UNCHANGED <<log, next>>
     \/ /\ mem.generation = turn.gen
        /\ \E ts \in SUBSET Tools :
             Write(Message("part", next, turn.gen, {next} \X ts, turn.base))
  /\ EndTurn
  /\ UNCHANGED <<mem, compacting>>

ToolsReturn ==
  /\ Running({"tools"})
  /\ WriteAll(Results(turn.ids, turn.gen, turn.base))
  /\ NextRound
  /\ UNCHANGED <<mem, compacting>>

\* Ctrl-C in a batch: the tools that did complete keep their results.
CancelTools ==
  /\ Running({"tools"})
  /\ \E done \in SUBSET turn.ids :
       done # turn.ids /\ WriteAll(Results(done, turn.gen, turn.base))
  /\ EndTurn
  /\ UNCHANGED <<mem, compacting>>

CancelBetween ==
  /\ Running({"start", "ready"})
  /\ compacting["auto"] = NoPlan
  /\ EndTurn
  /\ UNCHANGED <<log, next, mem, compacting>>
-----------------------------------------------------------------------------
(* Commands that run beside a turn. *)

Undo ==
  /\ LET users == {m \in LoadMessages(log) : m.kind = "user"}
     IN /\ users # {}
        /\ Write(Tombstone(next, Largest(SeqsOf(users)) - 1))
  /\ UNCHANGED <<mem, turn, compacting>>

RedoAny ==
  /\ \E t \in ActiveTombstones(log) : Write(RedoOf(next, t.seq))
  /\ UNCHANGED <<mem, turn, compacting>>

Redo ==
  /\ \E t \in Redoable(log) : Write(RedoOf(next, t.seq))
  /\ UNCHANGED <<mem, turn, compacting>>

Rewind ==
  /\ \E m \in LoadMessages(log) :
       WriteAll(<<Event("event", next), Tombstone(next + 1, m.seq)>>)
  /\ UNCHANGED <<mem, turn, compacting>>

Clear ==
  /\ Write(Event("clear", next))
  /\ UNCHANGED <<mem, turn, compacting>>

\* Any other record: an input line, a draft, a rename, a grant; or the worker
\* supervisor's.
Record ==
  /\ \E kind \in {"event", "worker"} : Write(Event(kind, next))
  /\ UNCHANGED <<mem, turn, compacting>>

\* Forgetting a fact excludes its sources in one transaction; the marker in
\* the file is only written when this session is one of them.
Forget ==
  /\ mem.generation < MaxGeneration
  /\ \E S \in {{}} \cup {{m.seq} : m \in Messages(log)} :
       /\ mem' = [excluded |-> mem.excluded \cup S,
                  generation |-> mem.generation + 1]
       /\ IF S = {} THEN UNCHANGED <<log, next>> ELSE Write(Event("forget", next))
  /\ UNCHANGED <<turn, compacting>>
-----------------------------------------------------------------------------
(* Compaction. *)

\* /compact is refused while a turn runs; the automatic one is part of it.
MayCompact(k) ==
  IF k = "manual" THEN turn = NoTurn ELSE Running({"start", "ready"})

CompactBegins(k) ==
  /\ MayCompact(k)
  /\ compacting[k] = NoPlan
  /\ Len(log) < MaxRecords
  /\ \E plan \in Compactions(log, mem) :
       compacting' = [compacting EXCEPT ![k] =
         [at |-> Len(log), gen |-> mem.generation, plan |-> plan]]
  /\ UNCHANGED <<log, next, mem, turn>>

\* An automatic compaction hands back to the loop, which pauses the turn when
\* the sources have changed meanwhile.
HandBack(k, at, gen) ==
  turn' = IF k = "auto" /\ ~SameSources(at, gen, {"memory_usage", "provider_usage", "compact"})
          THEN NoTurn ELSE turn

\* The summary is recorded only over the very file it was computed from.
CompactEnds(k) ==
  /\ compacting[k] # NoPlan
  /\ LET c == compacting[k]
     IN /\ IF SameSources(c.at, c.gen, {})
           THEN Write(CompactRecord(c.plan, NextSeq(log)))
           ELSE WriteRejected
        /\ HandBack(k, c.at, c.gen)
  /\ compacting' = [compacting EXCEPT ![k] = NoPlan]
  /\ UNCHANGED mem

\* The provider failed or its summary was not acceptable, or Ctrl-C.
CompactFails(k) ==
  /\ compacting[k] # NoPlan
  /\ WriteRejected
  /\ \/ HandBack(k, compacting[k].at, compacting[k].gen)
     \/ k = "auto" /\ EndTurn
  /\ compacting' = [compacting EXCEPT ![k] = NoPlan]
  /\ UNCHANGED mem
-----------------------------------------------------------------------------
\* The process dies, perhaps while it writes a line, and the session is
\* opened again.
Crash ==
  /\ \/ UNCHANGED log
     \/ Room(<<Torn>>) /\ log' = Append(log, Torn)
  /\ next' = NextSeq(log')
  /\ turn' = NoTurn
  /\ compacting' = [k \in Compactors |-> NoPlan]
  /\ UNCHANGED mem

TurnStep ==
  \/ Submit \/ Steer \/ Deliver \/ Refused \/ Request \/ Answer \/ Call
  \/ Discard \/ ProviderFails \/ CancelModel \/ ToolsReturn \/ CancelTools
  \/ CancelBetween

Command ==
  \/ Forget
  \/ Len(log) < MaxRecords /\ (Undo \/ Redo \/ Rewind \/ Clear \/ Record)

Next ==
  \/ TurnStep \/ Command \/ Crash
  \/ \E k \in Compactors : CompactBegins(k) \/ CompactEnds(k) \/ CompactFails(k)

Spec == Init /\ [][Next]_vars
-----------------------------------------------------------------------------
(* Properties. *)

GeneratedOK(r) == r.ids \subseteq CallIds /\ r.from \subseteq Nat

RecordOK(r) ==
  /\ r.seq \in Nat
  /\ r.kind \in MessageKinds \cup Bookkeeping \cup
       {"undo", "redo", "compact", "clear", "event", "worker", "torn"}
  /\ r.kind \in MessageKinds => r.gen \in Nat \cup {None} /\ GeneratedOK(r)
  /\ r.kind = "undo" => r.upto \in Nat
  /\ r.kind = "redo" => r.cancels \in Nat
  /\ r.kind = "compact" => /\ {r.keep, r.start, r.end, r.prior} \subseteq Nat
                           /\ r.refs \cup r.from \subseteq Nat

TypeOK ==
  /\ \A i \in 1 .. Len(log) : RecordOK(log[i])
  /\ next \in Nat
  /\ mem.excluded \subseteq Nat /\ mem.generation \in Nat
  /\ \/ turn = NoTurn
     \/ /\ turn.phase \in Phases /\ turn.at \in 0 .. Len(log)
        /\ turn.gen \in Nat /\ turn.ids \subseteq CallIds /\ turn.base \subseteq Nat
  /\ DOMAIN compacting = Compactors
  /\ \A k \in Compactors : compacting[k].at \in 0 .. Len(log)

\* Sequence numbers increase along the file whoever writes and whatever was
\* lost; otherwise every source snapshot of the session is "stale" for ever.
SeqsIncrease ==
  \A i, j \in 1 .. Len(log) :
    i < j /\ Torn \notin {log[i], log[j]} => log[i].seq < log[j].seq

\* A record whose append returned can be read, also when it was the first one
\* after a line that a crash had torn (_append: "Preserve a torn record
\* without swallowing the next append").
AppendReadable == next = 1 \/ next - 1 \in SeqsOf(Records(log))

\* The summary and the raw messages of a replay partition what is visible:
\* nothing is shown twice and nothing falls between them (load_for_model).
SummaryPartition ==
  LET view == View(log, mem)
      covered == UNION {c.refs : c \in view.summary}
  IN /\ covered \cup SeqsOf(view.raw) = SeqsOf(VisibleMessages(log, mem))
     /\ covered \cap SeqsOf(view.raw) = {}

\* A summary never ends between a call and its result (_coverage).
ExchangesWhole ==
  LET covered == UNION {c.refs : c \in WorkingSummary(log, mem)}
  IN \A call, tool \in VisibleMessages(log, mem) :
       call.kind = "call" /\ tool.kind = "tool" /\ tool.ids \subseteq call.ids
       => (call.seq \in covered <=> tool.seq \in covered)

\* No text that was generated from a forgotten message is shown to the model
\* again, however the forget raced the request, its tools, an interrupted
\* answer or a compaction.  docs/memory.md: "Any project forget invalidates
\* older generated messages project-wide".
NoForgottenContent == ViewLineage(View(log, mem)) \cap mem.excluded = {}

\* An answer is recorded only while replay still shows what it answers
\* (AgentRunner.run: "response discarded").
AnswersWhatIsShown ==
  [][Running({"model"}) /\ Len(log') > Len(log)
     /\ log'[Len(log')].kind \in {"asst", "call"}
     => turn.base = ViewLineage(View(log, mem))]_vars

\* /undo hides "the user message and everything after it": the results of a
\* batch that was running when its turn was undone are hidden with it.
ResultsUndoneWithCalls ==
  \A r \in LoadMessages(log) :
    r.kind = "tool" => \E c \in LoadMessages(log) : r.ids \subseteq c.ids /\ c # r

\* repair_interrupted_tools: "Pair persisted calls left by an interrupted run".
\* When a prompt was recorded, replay shows no call without its result.
InterruptedCallsPaired == [][Submit => Outstanding(log', mem) = {}]_vars
=============================================================================
