------------------------------ MODULE SessionLog ------------------------------
(***************************************************************************)
(* The append-only session file of src/lecode/session/storage.py and what  *)
(* replay makes of it.  A log is a sequence of records in file order; every*)
(* operator below is a function of a log and of the project's memory       *)
(* exclusions mem = [excluded, generation], as SessionStore's readers are. *)
(*                                                                         *)
(*   messages  [kind, seq, gen, ids, from]   kind is the role: "user",     *)
(*             "asst" (a final answer), "call" (an assistant message with  *)
(*             tool calls ids), "tool" (the result for ids), "part" (an    *)
(*             incomplete assistant message); gen is memory_generation.    *)
(*   events    [kind, seq] and what each kind carries: "undo" (tombstones, *)
(*             upto), "redo" (cancels), "clear", "compact" (keep, start,   *)
(*             end, refs, prior, from), bookkeeping kinds, "worker" (the   *)
(*             supervisor's), "event" (any other), and "torn", a line that *)
(*             does not parse.                                             *)
(*                                                                         *)
(* `from` is not in the file: it is the set of messages a generated text   *)
(* was computed from, kept to say what forgetting must reach.              *)
(***************************************************************************)
EXTENDS Integers, Sequences, FiniteSets

CONSTANTS
  Tools,      \* the calls of one assistant message
  KeepTail,   \* COMPACT_KEEP_TAIL
  None        \* no memory_generation was recorded

ASSUME SessionLogAssumption ==
  IsFiniteSet(Tools) /\ KeepTail \in Nat \ {0} /\ None \notin Nat

MessageKinds == {"user", "asst", "call", "tool", "part"}
Bookkeeping == {"memory_usage", "provider_usage", "forget"}
CallIds == Nat \X Tools

Message(kind, seq, gen, ids, from) ==
  [kind |-> kind, seq |-> seq, gen |-> gen, ids |-> ids, from |-> from]
Event(kind, seq) == [kind |-> kind, seq |-> seq]
Tombstone(seq, upto) == [kind |-> "undo", seq |-> seq, upto |-> upto]
RedoOf(seq, cancels) == [kind |-> "redo", seq |-> seq, cancels |-> cancels]
Torn == [kind |-> "torn", seq |-> 0]

Largest(S) == CHOOSE x \in S : \A y \in S : y <= x
Smallest(S) == CHOOSE x \in S : \A y \in S : x <= y
SeqsOf(R) == {r.seq : r \in R}
-----------------------------------------------------------------------------
(* Reading the file. *)

Records(log) == {log[i] : i \in 1 .. Len(log)} \ {Torn}
OfKind(log, K) == {log[i] : i \in {j \in 1 .. Len(log) : log[j].kind \in K}}
Messages(log) == OfKind(log, MessageKinds)

NextSeq(log) == 1 + Largest({0} \cup SeqsOf(Records(log)))

AppendedToTail(log, r) ==
  IF log # <<>> /\ log[Len(log)] = Torn THEN log ELSE Append(log, r)

\* _append: a torn tail gets its newline first, so that it stays a line of
\* its own.
Appended(log, r) == Append(log, r)

\* source_snapshot: a line that does not parse, a repeated or a decreasing
\* sequence number make every snapshot of the file "stale".
Intact(log) ==
  /\ \A i \in 1 .. Len(log) : log[i] # Torn
  /\ \A i, j \in 1 .. Len(log) : i < j => log[i].seq < log[j].seq
-----------------------------------------------------------------------------
(* Replay. *)

ActiveTombstones(log) ==
  {t \in OfKind(log, {"undo"}) :
     \A r \in OfKind(log, {"redo"}) : r.cancels # t.seq}

IsHidden(seq, tombstones) == \E t \in tombstones : t.upto < seq /\ seq < t.seq

\* load_messages: tombstones only.
LoadMessages(log) ==
  LET hiding == ActiveTombstones(log)
  IN {m \in Messages(log) : ~IsHidden(m.seq, hiding)}

LastClear(log) == Largest({0} \cup SeqsOf(OfKind(log, {"clear"})))

\* _visible_messages with include_filtered: tombstones and the last clear.
Structure(log) ==
  LET clear == LastClear(log) IN {m \in LoadMessages(log) : m.seq > clear}

Epoch(m) == IF m.gen = None THEN 0 ELSE m.gen

RememberedByRole(m, mem) ==
  m.seq \notin mem.excluded /\ (m.kind = "user" \/ Epoch(m) = mem.generation)

\* What the user wrote stays; generated text lives in its generation only.
Remembered(m, mem) ==
  /\ m.seq \notin mem.excluded
  /\ (m.kind = "user" /\ m.gen = None) \/ Epoch(m) = mem.generation

VisibleMessages(log, mem) == {m \in Structure(log) : Remembered(m, mem)}
-----------------------------------------------------------------------------
(* Compaction. *)

IntersectsTombstone(c, tombstones) ==
  \/ IsHidden(c.seq, tombstones)
  \/ \E t \in tombstones : c.start < t.seq /\ c.end > t.upto

AnySummary(log, mem) ==
  LET compacts == OfKind(log, {"compact"})
  IN {c \in compacts : /\ c.seq = Largest(SeqsOf(compacts))
                       /\ c.seq > LastClear(log)}

\* A summary and those it was built on were not undone.
Chained(compacts, tombstones, n) ==
  LET chain[k \in Nat] ==
        k = 0 \/ \E c \in compacts : /\ c.seq = k /\ c.prior < k
                                    /\ ~IntersectsTombstone(c, tombstones)
                                    /\ chain[c.prior]
  IN chain[n]

\* The compact event replay may use, as a set of at most one: the latest,
\* unless it or a summary it was built on was undone, a source has changed or
\* is no longer visible, or it does not cover what it would replace.
WorkingSummary(log, mem) ==
  LET compacts == OfKind(log, {"compact"})
      tombstones == ActiveTombstones(log)
      visible == SeqsOf(VisibleMessages(log, mem))
  IN {c \in compacts :
        /\ c.seq = Largest(SeqsOf(compacts)) /\ c.seq > LastClear(log)
        /\ Chained(compacts, tombstones, c.seq)
        /\ c.refs # {} /\ Intact(log) /\ c.refs \subseteq visible
        /\ c.refs = {s \in visible : s < c.keep}}

KeepFrom(summary) == Largest({0} \cup {c.keep : c \in summary})

\* load_for_model: the summary, then the raw messages it does not replace.
View(log, mem) ==
  LET summary == WorkingSummary(log, mem)
      keep == KeepFrom(summary)
  IN [summary |-> summary,
      raw |-> {m \in VisibleMessages(log, mem) : m.seq >= keep}]

\* The messages a text depends on that was generated from a view.
Lineage(records) == SeqsOf(records) \cup UNION {r.from : r \in records}
ViewLineage(view) ==
  (UNION {c.from : c \in view.summary}) \cup Lineage(view.raw)

\* Calls that replay shows without a result.
Outstanding(log, mem) ==
  LET raw == View(log, mem).raw
      ids(K) == UNION {m.ids : m \in {x \in raw : x.kind \in K}}
  IN ids({"call", "part"}) \ ids({"tool"})

\* _coverage: where the summarizer's scan of the structure S stops, given the
\* visible messages V.
Blocks(m, S, V) ==
  LET before == {r \in S : r.seq < m.seq}
      ids(K) == UNION {r.ids : r \in {x \in before : x.kind \in K}}
      pending == ids({"call"}) \ ids({"tool"})
      inExchange == \E u \in before :
        u.kind = "user" /\ ~\E a \in before : a.kind = "asst" /\ a.seq > u.seq
  IN \/ m.kind = "part"
     \/ m.kind = "user" /\ inExchange
     \/ m.kind = "tool" /\ ~(m.ids \subseteq pending)
     \/ m.kind \in {"asst", "call"} /\ pending # {}
     \/ m \in V /\ Cardinality({v \in V : v.seq < m.seq}) + KeepTail
                     >= Cardinality(V)

CoveragesAnywhere(S, V) ==
  LET ends == {a \in S : \A r \in S : r.seq <= a.seq => ~Blocks(r, S, V)}
  IN {{v \in V : v.seq <= a.seq} : a \in ends} \ {{}}

\* The prefixes of V a compaction may cover: whole exchanges, and at least
\* KeepTail messages stay raw.  The byte budget may end the scan early.
Coverages(S, V) ==
  LET ends == {a \in S : /\ a.kind = "asst"
                         /\ \A r \in S : r.seq <= a.seq => ~Blocks(r, S, V)}
  IN {{v \in V : v.seq <= a.seq} : a \in ends} \ {{}}

\* What compact_session would record for a prefix of the messages after the
\* previous summary; the sequence number is chosen when it is appended.
Compaction(log, mem, prefix, tail) ==
  LET previous == WorkingSummary(log, mem)
  IN [keep  |-> Smallest(SeqsOf(tail)),
      start |-> Smallest(SeqsOf(prefix)),
      end   |-> Largest(SeqsOf(prefix)),
      refs  |-> SeqsOf(prefix) \cup UNION {c.refs : c \in previous},
      prior |-> Largest({0} \cup SeqsOf(previous)),
      from  |-> Lineage(prefix) \cup UNION {c.from : c \in previous}]

Compactions(log, mem) ==
  LET from == KeepFrom(WorkingSummary(log, mem))
      V == {m \in VisibleMessages(log, mem) : m.seq >= from}
      S == {m \in Structure(log) : m.seq >= from}
  IN IF Intact(log)
     THEN {Compaction(log, mem, prefix, V \ prefix) : prefix \in Coverages(S, V)}
     ELSE {}

CompactRecord(plan, seq) ==
  [kind |-> "compact", seq |-> seq, keep |-> plan.keep, start |-> plan.start,
   end |-> plan.end, refs |-> plan.refs, prior |-> plan.prior, from |-> plan.from]

\* redo: bookkeeping cannot consume it; the tombstone must be the last record.
Redoable(log) ==
  LET kept == {i \in 1 .. Len(log) :
                 log[i] # Torn /\ log[i].kind \notin Bookkeeping}
      last == Largest(kept)
  IN IF kept = {} THEN {} ELSE {log[last]} \cap ActiveTombstones(log)
=============================================================================
