------------------------------ MODULE Session_proofs ------------------------------
(***************************************************************************)
(* The session file, for files, projects and runs of any length: sequence  *)
(* numbers increase whoever writes, what was appended can be read again, a *)
(* summary and the raw tail partition what is visible, nothing generated   *)
(* from a forgotten message is shown, replay implements Conversation, and  *)
(* a summary never ends between a call and its result.                     *)
(***************************************************************************)
EXTENDS SessionConversation, SequenceTheorems, FiniteSetTheorems,
        FunctionTheorems, WellFoundedInduction, TLAPS

\* A nonempty set of natural numbers has a least element, a bounded one a
\* largest.  (Inductions below take the least counterexample.)
LEMMA LeastExists ==
  ASSUME NEW S \in SUBSET Nat, S # {}
  PROVE  \E m \in S : \A k \in S : m <= k
<1>1. PICK m \in S : \A k \in S : ~(<<k, m>> \in OpToRel(<, Nat))
  BY NatLessThanWellFounded, WFMin
<1>2. \A k \in S : ~(k < m)
  BY <1>1 DEF OpToRel
<1> QED
  BY <1>2

LEMMA SmallestExists ==
  ASSUME NEW S \in SUBSET Nat, S # {}
  PROVE  Smallest(S) \in S /\ \A x \in S : Smallest(S) <= x
BY LeastExists DEF Smallest

LEMMA LargestExists ==
  ASSUME NEW S \in SUBSET Nat, NEW n \in Nat, \A x \in S : x <= n, S # {}
  PROVE  Largest(S) \in S /\ \A x \in S : x <= Largest(S)
<1> DEFINE bounds == {b \in Nat : \A x \in S : x <= b}
<1>1. bounds \in SUBSET Nat /\ bounds # {}
  OBVIOUS
<1>2. PICK b \in bounds : \A c \in bounds : b <= c
  BY <1>1, LeastExists
<1>3. b \in S
  <2>1. CASE b = 0
    <3>1. PICK x \in S : x <= 0
      BY <1>2, <2>1
    <3>2. x \in Nat
      OBVIOUS
    <3> QED
      BY <2>1, <3>1, <3>2
  <2>2. CASE b # 0 /\ b \notin S
    <3>1. b - 1 \in Nat /\ \A x \in S : x <= b - 1
      BY <1>2, <2>2
    <3>2. b - 1 \in bounds
      BY <3>1
    <3> QED
      BY <1>2, <3>1, <3>2
  <2> QED
    BY <2>1, <2>2
<1> QED
  BY <1>2, <1>3 DEF Largest

\* A number that no element exceeds is the largest if it is one of them.
LEMMA LargestIs ==
  ASSUME NEW S \in SUBSET Nat, NEW n \in S, \A x \in S : x <= n
  PROVE  Largest(S) = n
<1>1. n \in Nat /\ S # {}
  OBVIOUS
<1>2. Largest(S) \in S /\ n <= Largest(S) /\ Largest(S) <= n
  BY <1>1, LargestExists
<1>3. \A a, b \in Nat : a <= b /\ b <= a => a = b
  OBVIOUS
<1> QED
  BY <1>1, <1>2, <1>3
-----------------------------------------------------------------------------
(* Files as sequences.                                                      *)

IsLog(q) == \E S : q \in Seq(S)

LEMMA LogDomain ==
  ASSUME NEW q, IsLog(q)
  PROVE  Len(q) \in Nat /\ DOMAIN q = 1 .. Len(q)
BY LenProperties DEF IsLog

LEMMA EmptyLog == IsLog(<<>>) /\ Len(<<>>) = 0
BY EmptySeq DEF IsLog

LEMMA OneRecord ==
  ASSUME NEW r
  PROVE  IsLog(<<r>>) /\ Len(<<r>>) = 1 /\ <<r>>[1] = r
<1>1. <<r>> \in Seq({r})
  OBVIOUS
<1> QED
  BY <1>1 DEF IsLog

LEMMA TwoRecords ==
  ASSUME NEW r, NEW s
  PROVE  /\ IsLog(<<r, s>>) /\ Len(<<r, s>>) = 2
         /\ <<r, s>>[1] = r /\ <<r, s>>[2] = s
<1>1. <<r, s>> \in Seq({r, s})
  OBVIOUS
<1> QED
  BY <1>1 DEF IsLog

\* A common element set of two files.
LEMMA CommonSet ==
  ASSUME NEW q, IsLog(q), NEW p, IsLog(p)
  PROVE  \E S : q \in Seq(S) /\ p \in Seq(S)
<1>1. PICK A : q \in Seq(A)
  BY DEF IsLog
<1>2. PICK B : p \in Seq(B)
  BY DEF IsLog
<1>3. q \in Seq(A \cup B) /\ p \in Seq(A \cup B)
  BY <1>1, <1>2, SeqMonotonic
<1> QED
  BY <1>3

IsJoin(l, q, p) ==
  /\ IsLog(l) /\ Len(l) = Len(q) + Len(p)
  /\ \A i \in 1 .. Len(q) : l[i] = q[i]
  /\ \A i \in 1 .. Len(p) : l[Len(q) + i] = p[i]

LEMMA Joined ==
  ASSUME NEW q, NEW p, IsLog(q), IsLog(p)
  PROVE  IsJoin(q \o p, q, p)
<1> DEFINE l == q \o p
<1>1. PICK S : q \in Seq(S) /\ p \in Seq(S)
  BY CommonSet
<1>2. /\ l \in Seq(S) /\ Len(l) = Len(q) + Len(p)
      /\ \A i \in 1 .. Len(q) + Len(p) :
           l[i] = IF i <= Len(q) THEN q[i] ELSE p[i - Len(q)]
  BY <1>1, ConcatProperties
<1>3. Len(q) \in Nat /\ Len(p) \in Nat
  BY LogDomain
<1>4. \A i \in 1 .. Len(q) : l[i] = q[i]
  BY <1>2, <1>3
<1>5. \A i \in 1 .. Len(p) : l[Len(q) + i] = p[i]
  <2> SUFFICES ASSUME NEW i \in 1 .. Len(p)
               PROVE  l[Len(q) + i] = p[i]
    OBVIOUS
  <2>1. /\ Len(q) + i \in 1 .. Len(q) + Len(p) /\ ~(Len(q) + i <= Len(q))
        /\ Len(q) + i - Len(q) = i
    BY <1>3
  <2> QED
    BY <1>2, <2>1
<1>6. IsLog(l)
  BY <1>2 DEF IsLog
<1> QED
  BY <1>2, <1>4, <1>5, <1>6 DEF IsJoin

\* What Write and WriteAll do to the file.
LEMMA AppendedJoins ==
  ASSUME NEW q, IsLog(q), NEW r
  PROVE  Append(q, r) = q \o <<r>>
<1>1. PICK S : q \in Seq(S) /\ <<r>> \in Seq(S)
  BY OneRecord, CommonSet
<1>2. r \in S
  <2>1. 1 \in 1 .. Len(<<r>>) /\ <<r>>[1] = r
    BY OneRecord
  <2> QED
    BY <1>1, <2>1, ElementOfSeq
<1> QED
  BY <1>1, <1>2, AppendIsConcat

LEMMA WriteAllJoins ==
  ASSUME NEW q, IsLog(q), NEW rs, IsLog(rs)
  PROVE  (IF rs = <<>> THEN q ELSE Appended(q, Head(rs)) \o Tail(rs)) = q \o rs
<1>1. PICK S : q \in Seq(S) /\ rs \in Seq(S)
  BY CommonSet
<1>2. CASE rs = <<>>
  BY <1>1, <1>2, ConcatEmptySeq
<1>3. CASE rs # <<>>
  <2>1. /\ Head(rs) \in S /\ Tail(rs) \in Seq(S) /\ Len(rs) \in Nat /\ Len(rs) >= 1
        /\ Len(Tail(rs)) = Len(rs) - 1 /\ Head(rs) = rs[1]
        /\ \A i \in 1 .. Len(Tail(rs)) : Tail(rs)[i] = rs[i + 1]
    BY <1>1, <1>3, HeadTailProperties, LenProperties, EmptySeq
  <2> DEFINE a == Append(q, Head(rs))
             b == Tail(rs)
  <2>2. /\ a \in Seq(S) /\ Len(a) = Len(q) + 1 /\ a[Len(q) + 1] = rs[1]
        /\ \A i \in 1 .. Len(q) : a[i] = q[i]
    BY <1>1, <2>1, AppendProperties
  <2>3. b \in Seq(S) /\ Len(b) = Len(rs) - 1 /\ \A i \in 1 .. Len(b) : b[i] = rs[i + 1]
    BY <2>1
  <2> HIDE DEF a, b
  <2>4. /\ a \o b \in Seq(S) /\ Len(a \o b) = Len(a) + Len(b)
        /\ \A i \in 1 .. Len(a) + Len(b) :
             (a \o b)[i] = IF i <= Len(a) THEN a[i] ELSE b[i - Len(a)]
    BY <2>2, <2>3, ConcatProperties
  <2>5. /\ q \o rs \in Seq(S) /\ Len(q \o rs) = Len(q) + Len(rs)
        /\ \A i \in 1 .. Len(q) + Len(rs) :
             (q \o rs)[i] = IF i <= Len(q) THEN q[i] ELSE rs[i - Len(q)]
    BY <1>1, ConcatProperties
  <2>6. Len(q) \in Nat
    BY <1>1, LenProperties
  <2>7. Len(a \o b) = Len(q \o rs)
    BY <2>1, <2>2, <2>3, <2>4, <2>5, <2>6
  <2>8. ASSUME NEW i \in 1 .. Len(q \o rs)
        PROVE  (a \o b)[i] = (q \o rs)[i]
    <3>1. CASE i <= Len(q)
      BY <2>1, <2>2, <2>3, <2>4, <2>5, <2>6, <3>1
    <3>2. CASE i = Len(q) + 1
      BY <2>1, <2>2, <2>3, <2>4, <2>5, <2>6, <3>2
    <3>3. CASE i > Len(q) + 1
      <4>1. /\ i - Len(a) \in 1 .. Len(b) /\ ~(i <= Len(a)) /\ ~(i <= Len(q))
            /\ i - Len(a) + 1 = i - Len(q) /\ i \in 1 .. Len(a) + Len(b)
        BY <2>1, <2>2, <2>3, <2>5, <2>6, <3>3
      <4>2. (a \o b)[i] = b[i - Len(a)] /\ b[i - Len(a)] = rs[i - Len(a) + 1]
        BY <2>3, <2>4, <4>1
      <4>3. (q \o rs)[i] = rs[i - Len(q)]
        BY <2>5, <4>1
      <4> QED
        BY <4>1, <4>2, <4>3
    <3>4. i \in Nat /\ Len(q) \in Nat /\ (i <= Len(q) \/ i = Len(q) + 1 \/ i > Len(q) + 1)
      BY <1>1, <2>5, <2>6, LenProperties
    <3> QED
      BY <3>1, <3>2, <3>3, <3>4
  <2>9. a \o b = q \o rs
    BY <2>4, <2>5, <2>7, <2>8, SeqEqual
  <2> QED
    BY <1>3, <2>9 DEF a, b, Appended
<1> QED
  BY <1>2, <1>3

\* SetToSeq lists a finite set, each element once.
LEMMA Listed ==
  ASSUME NEW S, IsFiniteSet(S)
  PROVE  /\ SetToSeq(S) \in Seq(S) /\ Len(SetToSeq(S)) = Cardinality(S)
         /\ \A i \in 1 .. Len(SetToSeq(S)) : SetToSeq(S)[i] \in S
         /\ \A i, j \in 1 .. Len(SetToSeq(S)) : SetToSeq(S)[i] = SetToSeq(S)[j] => i = j
<1> DEFINE n == Cardinality(S)
<1>1. n \in Nat /\ \E f \in [1 .. n -> S] : IsInjective(f)
  <2>1. n \in Nat /\ Bijection(1 .. n, S) # {}
    BY FS_CardinalityType DEF ExistsBijection
  <2>2. PICK f : f \in Bijection(1 .. n, S)
    BY <2>1
  <2> QED
    BY <2>1, <2>2 DEF Bijection, Injection, IsInjective
<1>2. SetToSeq(S) \in [1 .. n -> S] /\ IsInjective(SetToSeq(S))
  BY <1>1 DEF SetToSeq
<1>3. SetToSeq(S) \in Seq(S)
  BY <1>1, <1>2, SeqDef
<1>4. Len(SetToSeq(S)) = n
  <2>1. DOMAIN SetToSeq(S) = 1 .. n /\ DOMAIN SetToSeq(S) = 1 .. Len(SetToSeq(S))
        /\ Len(SetToSeq(S)) \in Nat
    BY <1>2, <1>3, LenProperties
  <2> QED
    BY <1>1, <2>1
<1>5. \A i, j \in 1 .. Len(SetToSeq(S)) : SetToSeq(S)[i] = SetToSeq(S)[j] => i = j
  BY <1>2, <1>4 DEF IsInjective
<1> QED
  BY <1>3, <1>4, <1>5, ElementOfSeq
-----------------------------------------------------------------------------
(* The file and its counter: the sequence numbers of the lines that parse   *)
(* increase along the file, and next_seq follows the last one.              *)

FileOK(l, n) ==
  /\ IsLog(l) /\ n \in Nat \ {0}
  /\ \A i \in 1 .. Len(l) : l[i].kind = "torn" => l[i] = Torn
  /\ \A i \in 1 .. Len(l) : l[i] # Torn => l[i].seq \in Nat \ {0} /\ l[i].seq < n
  /\ \A i, j \in 1 .. Len(l) :
       i < j /\ l[i] # Torn /\ l[j] # Torn => l[i].seq < l[j].seq
  /\ n = 1 \/ \E i \in 1 .. Len(l) : l[i] # Torn /\ l[i].seq = n - 1

\* What an operation appends: records that carry the next sequence numbers.
Fresh(rs, n) ==
  /\ IsLog(rs)
  /\ \A i \in 1 .. Len(rs) : rs[i].kind # "torn" /\ rs[i].seq = n + i - 1

LEMMA EmptyFile == FileOK(<<>>, 1)
BY EmptyLog DEF FileOK

LEMMA FileGrows ==
  ASSUME NEW l, NEW n, FileOK(l, n), NEW rs, Fresh(rs, n), NEW k, k = l \o rs
  PROVE  FileOK(k, n + Len(rs))
<1>1. /\ IsLog(k) /\ Len(k) = Len(l) + Len(rs)
      /\ \A i \in 1 .. Len(l) : k[i] = l[i]
      /\ \A i \in 1 .. Len(rs) : k[Len(l) + i] = rs[i]
  <2>1. IsLog(l) /\ IsLog(rs)
    BY DEF FileOK, Fresh
  <2>2. IsJoin(k, l, rs)
    BY <2>1, Joined
  <2> QED
    BY <2>2 DEF IsJoin
<1>2. Len(l) \in Nat /\ Len(rs) \in Nat /\ n \in Nat \ {0}
  BY LogDomain DEF FileOK, Fresh
<1>3. \A i \in 1 .. Len(k) :
        \/ i \in 1 .. Len(l) /\ k[i] = l[i]
        \/ /\ i - Len(l) \in 1 .. Len(rs) /\ k[i] = rs[i - Len(l)]
           /\ k[i].kind # "torn" /\ k[i] # Torn /\ k[i].seq = n + (i - Len(l)) - 1
  <2> SUFFICES ASSUME NEW i \in 1 .. Len(k), i \notin 1 .. Len(l)
               PROVE  /\ i - Len(l) \in 1 .. Len(rs) /\ k[i] = rs[i - Len(l)]
                      /\ k[i].kind # "torn" /\ k[i] # Torn
                      /\ k[i].seq = n + (i - Len(l)) - 1
    BY <1>1
  <2>1. i - Len(l) \in 1 .. Len(rs) /\ Len(l) + (i - Len(l)) = i
    BY <1>1, <1>2
  <2>2. k[i] = rs[i - Len(l)]
    BY <1>1, <2>1
  <2>3. k[i].kind # "torn" /\ k[i].seq = n + (i - Len(l)) - 1
    BY <2>1, <2>2 DEF Fresh
  <2>4. k[i] # Torn
    BY <2>3 DEF Torn
  <2> QED
    BY <2>1, <2>2, <2>3, <2>4
<1>4. \A i \in 1 .. Len(k) : k[i].kind = "torn" => k[i] = Torn
  BY <1>3 DEF FileOK
<1>5. \A i \in 1 .. Len(k) : k[i] # Torn =>
        k[i].seq \in Nat \ {0} /\ k[i].seq < n + Len(rs)
  <2> SUFFICES ASSUME NEW i \in 1 .. Len(k), k[i] # Torn
               PROVE  k[i].seq \in Nat \ {0} /\ k[i].seq < n + Len(rs)
    OBVIOUS
  <2>1. CASE i \in 1 .. Len(l) /\ k[i] = l[i]
    BY <1>2, <2>1 DEF FileOK
  <2>2. CASE i - Len(l) \in 1 .. Len(rs) /\ k[i].seq = n + (i - Len(l)) - 1
    BY <1>2, <2>2
  <2> QED
    BY <1>3, <2>1, <2>2
<1>6. ASSUME NEW i \in 1 .. Len(k), NEW j \in 1 .. Len(k), i < j,
             k[i] # Torn, k[j] # Torn
      PROVE  k[i].seq < k[j].seq
  <2>1. CASE j \in 1 .. Len(l)
    <3>1. i \in 1 .. Len(l)
      BY <1>2, <1>6, <2>1
    <3>2. k[i] = l[i] /\ k[j] = l[j]
      BY <1>1, <2>1, <3>1
    <3> QED
      BY <1>6, <2>1, <3>1, <3>2 DEF FileOK
  <2>2. CASE j \notin 1 .. Len(l)
    <3>1. j - Len(l) \in 1 .. Len(rs) /\ k[j].seq = n + (j - Len(l)) - 1
      BY <1>3, <2>2
    <3>2. CASE i \in 1 .. Len(l) /\ k[i] = l[i]
      <4>1. k[i].seq \in Nat /\ k[i].seq < n
        BY <1>6, <3>2 DEF FileOK
      <4> QED
        BY <1>2, <3>1, <4>1
    <3>3. CASE i - Len(l) \in 1 .. Len(rs) /\ k[i].seq = n + (i - Len(l)) - 1
      BY <1>2, <1>6, <3>1, <3>3
    <3> QED
      BY <1>3, <3>2, <3>3
  <2> QED
    BY <2>1, <2>2
<1>7. n + Len(rs) = 1 \/ \E i \in 1 .. Len(k) : k[i] # Torn /\ k[i].seq = n + Len(rs) - 1
  <2>1. CASE Len(rs) = 0
    <3>1. n + Len(rs) = n
      BY <1>2, <2>1
    <3>2. ASSUME NEW i \in 1 .. Len(l), l[i] # Torn, l[i].seq = n - 1
          PROVE  i \in 1 .. Len(k) /\ k[i] # Torn /\ k[i].seq = n + Len(rs) - 1
      BY <1>1, <1>2, <3>1, <3>2
    <3> QED
      BY <3>1, <3>2 DEF FileOK
  <2>2. CASE Len(rs) # 0
    <3>1. Len(k) \in 1 .. Len(k) /\ Len(k) \notin 1 .. Len(l) /\ Len(k) - Len(l) = Len(rs)
      BY <1>1, <1>2, <2>2
    <3> QED
      BY <1>3, <3>1
  <2> QED
    BY <2>1, <2>2
<1>8. n + Len(rs) \in Nat \ {0}
  BY <1>2
<1> QED
  BY <1>1, <1>4, <1>5, <1>6, <1>7, <1>8 DEF FileOK

\* A line torn by a crash changes neither the order nor the counter.
LEMMA FileTorn ==
  ASSUME NEW l, NEW n, FileOK(l, n), NEW k, k = l \o <<Torn>>
  PROVE  FileOK(k, n)
<1>1. IsLog(<<Torn>>) /\ Len(<<Torn>>) = 1 /\ <<Torn>>[1] = Torn
  BY OneRecord
<1>2. /\ IsLog(k) /\ Len(k) = Len(l) + 1
      /\ \A i \in 1 .. Len(l) : k[i] = l[i]
      /\ k[Len(l) + 1] = Torn
  <2>1. IsLog(l)
    BY DEF FileOK
  <2>2. IsJoin(k, l, <<Torn>>)
    BY <1>1, <2>1, Joined
  <2>3. 1 \in 1 .. Len(<<Torn>>)
    BY <1>1
  <2> QED
    BY <1>1, <2>2, <2>3 DEF IsJoin
<1>3. Len(l) \in Nat /\ n \in Nat \ {0}
  BY LogDomain DEF FileOK
<1>4. \A i \in 1 .. Len(k) : (i \in 1 .. Len(l) /\ k[i] = l[i]) \/ k[i] = Torn
  BY <1>2, <1>3
<1>5. \A i \in 1 .. Len(l) : i \in 1 .. Len(k)
  BY <1>2, <1>3
<1> QED
  BY <1>2, <1>3, <1>4, <1>5 DEF FileOK

\* Opening the file again finds the counter it was closed with.
LEMMA CounterFound ==
  ASSUME NEW l, NEW n, FileOK(l, n)
  PROVE  NextSeq(l) = n
<1> DEFINE seqs == {0} \cup SeqsOf(Records(l))
<1>1. n \in Nat \ {0}
  BY DEF FileOK
<1>2. \A s \in SeqsOf(Records(l)) : s \in Nat \ {0} /\ s < n
  BY DEF SeqsOf, Records, FileOK
<1>3. seqs \in SUBSET Nat /\ \A s \in seqs : s <= n - 1
  BY <1>1, <1>2
<1>4. n - 1 \in seqs
  BY <1>1 DEF FileOK, SeqsOf, Records
<1>5. Largest(seqs) = n - 1
  BY <1>3, <1>4, LargestIs
<1> QED
  BY <1>1, <1>5 DEF NextSeq

LEMMA SequencesIncrease ==
  ASSUME FileOK(log, next)
  PROVE  SeqsIncrease
BY DEF FileOK, SeqsIncrease

LEMMA LastIsReadable ==
  ASSUME FileOK(log, next)
  PROVE  AppendReadable
BY DEF FileOK, AppendReadable, SeqsOf, Records
-----------------------------------------------------------------------------
(* What the records hold.                                                   *)

Kinds == MessageKinds \cup Bookkeeping
           \cup {"undo", "redo", "compact", "clear", "event", "worker", "torn"}

\* A record of a file whose next number is n, after g forgets.
Sound(r, n, g) ==
  /\ r.kind \in Kinds
  /\ r.kind \in MessageKinds =>
       /\ r.ids \subseteq CallIds /\ IsFiniteSet(r.ids) /\ r.from \subseteq Nat
       /\ r.gen = None \/ (r.gen \in Nat /\ r.gen <= g)
  /\ r.kind = "undo" => r.upto \in Nat
  /\ r.kind = "redo" => r.cancels \in Nat /\ r.cancels < n
  /\ r.kind = "compact" =>
       /\ r.keep \in Nat /\ r.start \in Nat /\ r.end \in Nat /\ r.prior \in Nat
       /\ r.refs \subseteq Nat /\ r.from \subseteq Nat

MemOK == mem.excluded \subseteq Nat /\ mem.generation \in Nat

TurnOK ==
  turn # NoTurn =>
    /\ turn.phase \in Phases
    /\ turn.at \in Nat /\ turn.at <= Len(log)
    /\ turn.gen \in Nat /\ turn.gen <= mem.generation
    /\ turn.ids \subseteq CallIds /\ IsFiniteSet(turn.ids) /\ turn.base \subseteq Nat

PlanOK(p) ==
  /\ p.keep \in Nat /\ p.start \in Nat /\ p.end \in Nat /\ p.prior \in Nat
  /\ p.refs \subseteq Nat /\ p.from \subseteq Nat

PlansOK ==
  /\ DOMAIN compacting = Compactors
  /\ \A k \in Compactors :
       \/ compacting[k] = NoPlan
       \/ /\ compacting[k].at \in Nat /\ compacting[k].at <= Len(log)
          /\ PlanOK(compacting[k].plan)

RecordsOK(l, n, g) == \A i \in 1 .. Len(l) : Sound(l[i], n, g)

SessionInv ==
  /\ FileOK(log, next)
  /\ RecordsOK(log, next, mem.generation)
  /\ MemOK /\ TurnOK /\ PlansOK

LEMMA StaysSound ==
  ASSUME NEW r, NEW n \in Nat, NEW g \in Nat, NEW o \in Nat, NEW h \in Nat,
         n <= o, g <= h, Sound(r, n, g)
  PROVE  Sound(r, o, h)
<1>1. \A x \in Nat : (x <= g => x <= h) /\ (x < n => x < o)
  OBVIOUS
<1>2. r.kind \in MessageKinds =>
        /\ r.ids \subseteq CallIds /\ IsFiniteSet(r.ids) /\ r.from \subseteq Nat
        /\ r.gen = None \/ (r.gen \in Nat /\ r.gen <= h)
  BY <1>1 DEF Sound
<1>3. r.kind = "redo" => r.cancels \in Nat /\ r.cancels < o
  BY <1>1 DEF Sound
<1> QED
  BY <1>2, <1>3 DEF Sound

LEMMA RecordsGrow ==
  ASSUME NEW l, NEW n, NEW g \in Nat, NEW h \in Nat, g <= h,
         FileOK(l, n), RecordsOK(l, n, g),
         NEW rs, IsLog(rs), NEW o \in Nat, n <= o,
         \A i \in 1 .. Len(rs) : Sound(rs[i], o, h),
         NEW k, k = l \o rs
  PROVE  RecordsOK(k, o, h)
<1>1. IsLog(l) /\ n \in Nat
  BY DEF FileOK
<1>2. IsJoin(k, l, rs)
  BY <1>1, Joined
<1>3. Len(l) \in Nat /\ Len(rs) \in Nat
  BY <1>1, LogDomain
<1>4. ASSUME NEW i \in 1 .. Len(k)
      PROVE  Sound(k[i], o, h)
  <2>1. CASE i \in 1 .. Len(l)
    <3>1. k[i] = l[i] /\ Sound(l[i], n, g)
      BY <1>2, <2>1 DEF IsJoin, RecordsOK
    <3> QED
      BY <1>1, <3>1, StaysSound
  <2>2. CASE i \notin 1 .. Len(l)
    <3>1. i - Len(l) \in 1 .. Len(rs) /\ Len(l) + (i - Len(l)) = i
      BY <1>2, <1>3, <2>2 DEF IsJoin
    <3>2. k[i] = rs[i - Len(l)]
      BY <1>2, <3>1 DEF IsJoin
    <3> QED
      BY <3>1, <3>2
  <2> QED
    BY <2>1, <2>2
<1> QED
  BY <1>4 DEF RecordsOK

\* A step that appends rs, forgetting or not.
Grows(rs) ==
  /\ Fresh(rs, next) /\ log' = log \o rs /\ next' = next + Len(rs)
  /\ \A i \in 1 .. Len(rs) : Sound(rs[i], next + Len(rs), mem.generation')
  /\ mem.generation' \in Nat /\ mem.generation <= mem.generation'

LEMMA GrowthKeepsFile ==
  ASSUME SessionInv, NEW rs, Grows(rs)
  PROVE  /\ FileOK(log', next') /\ RecordsOK(log', next', mem.generation')
         /\ Len(log') \in Nat /\ Len(log) <= Len(log')
<1>1. FileOK(log', next')
  BY FileGrows DEF SessionInv, Grows
<1>2. next \in Nat /\ Len(rs) \in Nat /\ next + Len(rs) \in Nat /\ next <= next + Len(rs)
  <2>1. next \in Nat /\ Len(rs) \in Nat
    BY LogDomain DEF SessionInv, Grows, FileOK, Fresh
  <2> QED
    BY <2>1
<1>3. RecordsOK(log', next', mem.generation')
  BY <1>2, RecordsGrow DEF SessionInv, Grows, MemOK, Fresh
<1>4. IsLog(log) /\ IsLog(rs) /\ IsLog(log')
  BY <1>1 DEF SessionInv, FileOK, Grows, Fresh
<1>5. IsJoin(log', log, rs)
  BY <1>4, Joined DEF Grows
<1>6. Len(log) \in Nat /\ Len(rs) \in Nat /\ Len(log') = Len(log) + Len(rs)
  BY <1>4, <1>5, LogDomain DEF IsJoin
<1> QED
  BY <1>1, <1>3, <1>6
-----------------------------------------------------------------------------
(* What replay collects is finite.                                          *)

LEMMA FiniteImage ==
  ASSUME NEW I, IsFiniteSet(I), NEW l
  PROVE  IsFiniteSet({l[i] : i \in I})
<1> DEFINE f == [i \in I |-> l[i]]
<1>1. f \in Surjection(I, {l[i] : i \in I})
  BY DEF Surjection
<1> QED
  BY <1>1, FS_Surjection

LEMMA FiniteOfKind ==
  ASSUME NEW l, IsLog(l), NEW K
  PROVE  IsFiniteSet(OfKind(l, K))
<1> DEFINE I == {j \in 1 .. Len(l) : l[j].kind \in K}
<1>1. IsFiniteSet(1 .. Len(l)) /\ I \in SUBSET (1 .. Len(l))
  BY LogDomain, FS_Interval
<1>2. IsFiniteSet(I)
  BY <1>1, FS_Subset
<1> QED
  BY <1>2, FiniteImage DEF OfKind

LEMMA FiniteIds ==
  ASSUME NEW M, IsFiniteSet(M), \A m \in M : IsFiniteSet(m.ids)
  PROVE  IsFiniteSet(UNION {m.ids : m \in M})
<1> DEFINE f == [m \in M |-> m.ids]
           T == {m.ids : m \in M}
<1>1. f \in Surjection(M, T)
  BY DEF Surjection
<1>2. IsFiniteSet(T)
  BY <1>1, FS_Surjection
<1>3. \A t \in T : IsFiniteSet(t)
  OBVIOUS
<1> HIDE DEF T
<1> QED
  BY <1>2, <1>3, FS_UNION DEF T

LEMMA FunctionIsLog ==
  ASSUME NEW n \in Nat, NEW f, DOMAIN f = 1 .. n, f = [i \in 1 .. n |-> f[i]]
  PROVE  IsLog(f) /\ Len(f) = n
<1> DEFINE S == {f[i] : i \in 1 .. n}
<1>1. f \in [1 .. n -> S]
  OBVIOUS
<1>2. f \in Seq(S)
  BY <1>1, SeqDef
<1>3. Len(f) \in Nat /\ DOMAIN f = 1 .. Len(f)
  BY <1>2, LenProperties
<1>4. IsLog(f)
  BY <1>2, Zenon DEF IsLog
<1>5. Len(f) = n
  <2> DEFINE k == Len(f)
  <2>1. k \in Nat /\ 1 .. k = 1 .. n
    BY <1>3
  <2> HIDE DEF k
  <2>2. k = n
    BY <2>1
  <2> QED
    BY <2>2 DEF k
<1> QED
  BY <1>4, <1>5

LEMMA OfKindIs ==
  ASSUME NEW l, NEW K
  PROVE  \A r : r \in OfKind(l, K) <=> \E i \in 1 .. Len(l) : l[i] = r /\ r.kind \in K
BY DEF OfKind

\* What replay shows is in the file.
LEMMA ReplayShows ==
  ASSUME NEW l, NEW m
  PROVE  /\ Structure(l) \subseteq Messages(l)
         /\ VisibleMessages(l, m) \subseteq Structure(l)
         /\ View(l, m).raw \subseteq VisibleMessages(l, m)
         /\ View(l, m).summary = WorkingSummary(l, m)
         /\ WorkingSummary(l, m) \subseteq OfKind(l, {"compact"})
<1>1. Structure(l) \subseteq Messages(l)
  BY DEF Structure, LoadMessages
<1>2. VisibleMessages(l, m) \subseteq Structure(l)
  BY DEF VisibleMessages
<1>3. View(l, m).raw \subseteq VisibleMessages(l, m)
  BY DEF View
<1>4. View(l, m).summary = WorkingSummary(l, m)
  BY DEF View
<1>5. WorkingSummary(l, m) \subseteq OfKind(l, {"compact"})
  BY DEF WorkingSummary
<1> QED
  BY <1>1, <1>2, <1>3, <1>4, <1>5

LEMMA MessageSound ==
  ASSUME NEW l, NEW n, NEW g, FileOK(l, n), RecordsOK(l, n, g), NEW m \in Messages(l)
  PROVE  /\ m.kind \in MessageKinds /\ Sound(m, n, g) /\ m.seq \in Nat \ {0} /\ m.seq < n
         /\ m.ids \subseteq CallIds /\ IsFiniteSet(m.ids) /\ m.from \subseteq Nat
         /\ m.gen = None \/ (m.gen \in Nat /\ m.gen <= g)
<1>1. PICK i \in 1 .. Len(l) : l[i] = m /\ m.kind \in MessageKinds
  BY DEF Messages, OfKind
<1>2. Sound(m, n, g)
  BY <1>1 DEF RecordsOK
<1>3. m # Torn
  BY <1>1 DEF Torn, MessageKinds
<1>4. m.seq \in Nat \ {0} /\ m.seq < n
  BY <1>1, <1>3 DEF FileOK
<1> QED
  BY <1>1, <1>2, <1>4 DEF Sound

LEMMA CompactSound ==
  ASSUME NEW l, NEW n, NEW g, FileOK(l, n), RecordsOK(l, n, g),
         NEW c \in OfKind(l, {"compact"})
  PROVE  /\ c.kind = "compact" /\ c.seq \in Nat \ {0} /\ c.seq < n /\ PlanOK(c)
<1>1. PICK i \in 1 .. Len(l) : l[i] = c /\ c.kind = "compact"
  BY DEF OfKind
<1>2. Sound(c, n, g)
  BY <1>1 DEF RecordsOK
<1>3. c # Torn
  BY <1>1 DEF Torn
<1>4. c.seq \in Nat \ {0} /\ c.seq < n
  BY <1>1, <1>3 DEF FileOK
<1> QED
  BY <1>1, <1>2, <1>4 DEF Sound, PlanOK

LEMMA OutstandingOK ==
  ASSUME NEW l, NEW n, NEW g, FileOK(l, n), RecordsOK(l, n, g), NEW m
  PROVE  Outstanding(l, m) \subseteq CallIds /\ IsFiniteSet(Outstanding(l, m))
<1> DEFINE all == UNION {r.ids : r \in Messages(l)}
<1>1. IsFiniteSet(Messages(l))
  BY FiniteOfKind DEF FileOK, Messages
<1>2. \A r \in Messages(l) : IsFiniteSet(r.ids) /\ r.ids \subseteq CallIds
  BY MessageSound
<1>3. IsFiniteSet(all)
  BY <1>1, <1>2, FiniteIds
<1>4. View(l, m).raw \subseteq Messages(l)
  BY ReplayShows
<1>5. Outstanding(l, m) \in SUBSET all
  BY <1>4 DEF Outstanding
<1>6. IsFiniteSet(Outstanding(l, m))
  BY <1>3, <1>5, FS_Subset
<1> QED
  BY <1>2, <1>5, <1>6
-----------------------------------------------------------------------------
(* What the operations append.                                              *)

LEMMA Basics ==
  ASSUME SessionInv
  PROVE  /\ IsLog(log) /\ Len(log) \in Nat
         /\ next \in Nat \ {0} /\ NextSeq(log) = next
         /\ mem.generation \in Nat /\ mem.excluded \subseteq Nat
BY LogDomain, CounterFound DEF SessionInv, FileOK, MemOK

LEMMA MessageOK ==
  ASSUME NEW kind \in MessageKinds, NEW seq, NEW gen, NEW ids, NEW from, NEW n, NEW g,
         gen = None \/ (gen \in Nat /\ gen <= g),
         ids \subseteq CallIds, IsFiniteSet(ids), from \subseteq Nat
  PROVE  /\ Sound(Message(kind, seq, gen, ids, from), n, g)
         /\ Message(kind, seq, gen, ids, from).kind = kind
         /\ Message(kind, seq, gen, ids, from).seq = seq
<1> DEFINE r == Message(kind, seq, gen, ids, from)
<1>1. /\ r.kind = kind /\ r.seq = seq /\ r.gen = gen /\ r.ids = ids /\ r.from = from
  BY DEF Message
<1>2. /\ kind \in Kinds /\ kind # "undo" /\ kind # "redo" /\ kind # "compact"
  BY DEF Kinds, MessageKinds
<1> HIDE DEF r
<1>3. Sound(r, n, g)
  BY <1>1, <1>2 DEF Sound
<1> QED
  BY <1>1, <1>3 DEF r

LEMMA EventOK ==
  ASSUME NEW kind \in Bookkeeping \cup {"clear", "event", "worker"}, NEW seq, NEW n, NEW g
  PROVE  /\ Sound(Event(kind, seq), n, g) /\ Event(kind, seq).kind # "torn"
         /\ Event(kind, seq).kind = kind /\ Event(kind, seq).seq = seq
BY DEF Event, Sound, Kinds, MessageKinds, Bookkeeping

LEMMA OneIsFresh ==
  ASSUME NEW r, NEW n \in Nat, r.kind # "torn", r.seq = n
  PROVE  Fresh(<<r>>, n) /\ Len(<<r>>) = 1 /\ \A i \in 1 .. Len(<<r>>) : <<r>>[i] = r
<1>1. IsLog(<<r>>) /\ Len(<<r>>) = 1 /\ <<r>>[1] = r
  BY OneRecord
<1>2. \A i \in 1 .. 1 : i = 1 /\ n + i - 1 = n
  OBVIOUS
<1> QED
  BY <1>1, <1>2 DEF Fresh

LEMMA WriteGrows ==
  ASSUME SessionInv, NEW r, r.kind # "torn", r.seq = next, Write(r),
         mem.generation' \in Nat, mem.generation <= mem.generation',
         Sound(r, next + 1, mem.generation')
  PROVE  Grows(<<r>>)
<1>1. Fresh(<<r>>, next) /\ Len(<<r>>) = 1 /\ \A i \in 1 .. Len(<<r>>) : <<r>>[i] = r
  BY Basics, OneIsFresh
<1>2. log' = log \o <<r>>
  BY Basics, AppendedJoins DEF Write, Appended
<1>3. next' = next + Len(<<r>>)
  BY <1>1 DEF Write
<1> QED
  BY <1>1, <1>2, <1>3 DEF Grows

LEMMA WriteAllGrows ==
  ASSUME SessionInv, NEW rs, Fresh(rs, next), WriteAll(rs), UNCHANGED mem,
         \A i \in 1 .. Len(rs) : Sound(rs[i], next + Len(rs), mem.generation)
  PROVE  Grows(rs)
<1>1. log' = log \o rs
  BY Basics, WriteAllJoins DEF WriteAll, Fresh
<1>2. mem.generation' = mem.generation /\ mem.generation \in Nat
  BY Basics
<1>3. mem.generation <= mem.generation'
  BY <1>2
<1> QED
  BY <1>1, <1>2, <1>3 DEF Grows, WriteAll

LEMMA NothingGrows ==
  ASSUME SessionInv, UNCHANGED <<log, next>>,
         mem.generation' \in Nat, mem.generation <= mem.generation'
  PROVE  Grows(<<>>)
<1>1. IsLog(<<>>) /\ Len(<<>>) = 0
  BY EmptyLog
<1>2. Fresh(<<>>, next) /\ next' = next + Len(<<>>)
  BY <1>1, Basics DEF Fresh
<1>3. log' = log \o <<>>
  <2>1. PICK S : log \in Seq(S)
    BY Basics DEF IsLog
  <2> QED
    BY <2>1, ConcatEmptySeq
<1> QED
  BY <1>1, <1>2, <1>3 DEF Grows

\* The classes of steps, by what they append.
Says(rs) ==
  Grows(rs) /\ UNCHANGED mem /\ \A i \in 1 .. Len(rs) : rs[i].kind \in MessageKinds

MarkKinds == {"event", "worker", "provider_usage", "memory_usage", "clear", "compact"}

Marks(e) ==
  /\ Grows(<<e>>) /\ UNCHANGED mem /\ e.seq = next
  /\ e.kind \in MarkKinds

Forgets ==
  /\ Grows(<<>>) \/ Grows(<<Event("forget", next)>>)
  /\ mem.generation' = mem.generation + 1 /\ mem.excluded \subseteq mem.excluded'

CutsBack ==
  /\ UNCHANGED mem
  /\ \E upto \in Nat :
       \/ Grows(<<Tombstone(next, upto)>>)
       \/ Grows(<<Event("event", next), Tombstone(next + 1, upto)>>)

Redoes ==
  UNCHANGED mem /\ \E t \in Redoable(log) : Grows(<<RedoOf(next, t.seq)>>)

Tears ==
  log' = log \o <<Torn>> /\ next' = next /\ UNCHANGED mem

LEMMA Silent ==
  ASSUME SessionInv, UNCHANGED <<log, next, mem>>
  PROVE  Says(<<>>)
<1>1. Grows(<<>>)
  BY NothingGrows, Basics
<1> QED
  BY <1>1, EmptyLog DEF Says

LEMMA WritesMessage ==
  ASSUME SessionInv, UNCHANGED mem, NEW kind \in MessageKinds, NEW gen, NEW ids, NEW from,
         gen = None \/ (gen \in Nat /\ gen <= mem.generation),
         ids \subseteq CallIds, IsFiniteSet(ids), from \subseteq Nat,
         Write(Message(kind, next, gen, ids, from))
  PROVE  Says(<<Message(kind, next, gen, ids, from)>>)
<1> DEFINE r == Message(kind, next, gen, ids, from)
<1>0. mem.generation' = mem.generation /\ mem.generation \in Nat
  BY Basics
<1>1. Sound(r, next + 1, mem.generation) /\ r.kind = kind /\ r.seq = next
  <2>1. Sound(r, next + 1, mem.generation)
    BY MessageOK
  <2>2. r.kind = kind /\ r.seq = next
    BY DEF Message
  <2> QED
    BY <2>1, <2>2
<1>2. r.kind # "torn"
  BY <1>1 DEF MessageKinds
<1>3. Write(r)
  OBVIOUS
<1> HIDE DEF r
<1>4. Grows(<<r>>)
  BY <1>0, <1>1, <1>2, <1>3, WriteGrows
<1>5. \A i \in 1 .. Len(<<r>>) : <<r>>[i].kind \in MessageKinds
  BY <1>1, <1>2, OneIsFresh, Basics
<1> QED
  BY <1>4, <1>5 DEF Says, r

LEMMA WritesMark ==
  ASSUME SessionInv, UNCHANGED mem,
         NEW kind \in {"event", "worker", "provider_usage", "memory_usage", "clear"},
         Write(Event(kind, next))
  PROVE  Marks(Event(kind, next))
<1> DEFINE e == Event(kind, next)
<1>1. kind \in Bookkeeping \cup {"clear", "event", "worker"}
  BY DEF Bookkeeping
<1>2. Sound(e, next + 1, mem.generation') /\ e.kind # "torn" /\ e.kind = kind /\ e.seq = next
  BY <1>1, EventOK
<1>3. Write(e)
  OBVIOUS
<1> HIDE DEF e
<1>4. Grows(<<e>>)
  BY <1>2, <1>3, WriteGrows, Basics
<1> QED
  BY <1>2, <1>4 DEF Marks, MarkKinds, e
-----------------------------------------------------------------------------
(* The class of each operation.                                             *)

LEMMA LineageTyped ==
  ASSUME NEW l, NEW n, NEW g, FileOK(l, n), RecordsOK(l, n, g), NEW m
  PROVE  ViewLineage(View(l, m)) \subseteq Nat
<1>1. /\ View(l, m).raw \subseteq Messages(l)
      /\ View(l, m).summary \subseteq OfKind(l, {"compact"})
  BY ReplayShows
<1>2. \A r \in View(l, m).raw : r.seq \in Nat /\ r.from \subseteq Nat
  BY <1>1, MessageSound
<1>3. \A c \in View(l, m).summary : c.from \subseteq Nat
  BY <1>1, CompactSound DEF PlanOK
<1> DEFINE U == UNION {c.from : c \in View(l, m).summary}
           L == Lineage(View(l, m).raw)
<1>4. L \subseteq Nat
  BY <1>2 DEF Lineage, SeqsOf
<1>5. U \subseteq Nat
  BY <1>3
<1>6. ViewLineage(View(l, m)) = U \cup L
  BY DEF ViewLineage
<1> HIDE DEF U, L
<1> QED
  BY <1>4, <1>5, <1>6

LEMMA SubmitSays ==
  ASSUME SessionInv, Submit
  PROVE  \E rs : Says(rs)
<1> DEFINE prompt == Message("user", next, None, {}, {})
           open == SetToSeq(Outstanding(log, mem))
           repair == [i \in 1 .. Len(open) |->
                        Message("tool", next + i, None, {open[i]}, {})]
           rs == <<prompt>> \o repair
<1>1. WriteAll(rs) /\ UNCHANGED mem
  BY DEF Submit
<1>2. /\ Len(open) \in Nat
      /\ \A i \in 1 .. Len(open) : open[i] \in CallIds
  <2>1. IsFiniteSet(Outstanding(log, mem)) /\ Outstanding(log, mem) \subseteq CallIds
    BY OutstandingOK DEF SessionInv
  <2>2. /\ open \in Seq(Outstanding(log, mem))
        /\ \A i \in 1 .. Len(open) : open[i] \in Outstanding(log, mem)
    BY <2>1, Listed
  <2> QED
    BY <2>1, <2>2, LenProperties
<1>3. /\ Sound(prompt, next + Len(rs), mem.generation)
      /\ prompt.kind = "user" /\ prompt.seq = next
  <2>1. "user" \in MessageKinds /\ {} \subseteq CallIds /\ {} \subseteq Nat /\ IsFiniteSet({})
    BY FS_EmptySet DEF MessageKinds
  <2> QED
    BY <2>1, MessageOK
<1>4. ASSUME NEW i \in 1 .. Len(open)
      PROVE  /\ Sound(repair[i], next + Len(rs), mem.generation)
             /\ repair[i].kind = "tool" /\ repair[i].seq = next + i
  <2>1. /\ "tool" \in MessageKinds /\ {open[i]} \subseteq CallIds /\ {} \subseteq Nat
        /\ IsFiniteSet({open[i]})
    BY <1>2, FS_Singleton DEF MessageKinds
  <2>2. repair[i] = Message("tool", next + i, None, {open[i]}, {})
    OBVIOUS
  <2> QED
    BY <2>1, <2>2, MessageOK
<1>5. IsLog(repair) /\ Len(repair) = Len(open)
  BY <1>2, FunctionIsLog
<1>6. IsLog(<<prompt>>) /\ Len(<<prompt>>) = 1 /\ <<prompt>>[1] = prompt
  BY OneRecord
<1> HIDE DEF prompt, open, repair
<1>7. IsJoin(rs, <<prompt>>, repair)
  BY <1>5, <1>6, Joined
<1>8. /\ IsLog(rs) /\ Len(rs) = 1 + Len(open)
      /\ rs[1] = prompt /\ \A i \in 1 .. Len(open) : rs[1 + i] = repair[i]
  <2>1. 1 \in 1 .. 1
    OBVIOUS
  <2> QED
    BY <1>5, <1>6, <1>7, <2>1 DEF IsJoin
<1> HIDE DEF rs
<1>9. \A i \in 1 .. Len(rs) : i = 1 \/ (i - 1 \in 1 .. Len(open) /\ 1 + (i - 1) = i)
  BY <1>2, <1>8
<1>10. next \in Nat
  BY Basics
<1>11. ASSUME NEW i \in 1 .. Len(rs)
       PROVE  /\ Sound(rs[i], next + Len(rs), mem.generation)
              /\ rs[i].kind \in {"user", "tool"} /\ rs[i].seq = next + i - 1
  <2>1. CASE i = 1
    <3>1. next + i - 1 = next
      BY <1>10, <2>1
    <3> QED
      BY <1>3, <1>8, <2>1, <3>1
  <2>2. CASE i - 1 \in 1 .. Len(open) /\ 1 + (i - 1) = i
    <3>1. rs[i] = repair[i - 1] /\ next + (i - 1) = next + i - 1
      BY <1>8, <1>10, <2>2
    <3>2. repair[i - 1].seq = next + (i - 1)
      BY <1>4, <2>2
    <3> QED
      BY <1>4, <2>2, <3>1, <3>2
  <2> QED
    BY <1>9, <2>1, <2>2
<1>12. Fresh(rs, next)
  BY <1>8, <1>11 DEF Fresh
<1>13. Grows(rs)
  BY <1>1, <1>11, <1>12, WriteAllGrows
<1>14. Says(rs)
  BY <1>1, <1>11, <1>13 DEF Says, MessageKinds
<1> QED
  BY <1>14

LEMMA ResultsSay ==
  ASSUME SessionInv, UNCHANGED mem, NEW ids, IsFiniteSet(ids), ids \subseteq CallIds,
         NEW gen \in Nat, gen <= mem.generation, NEW from, from \subseteq Nat,
         WriteAll(Results(ids, gen, from))
  PROVE  Says(Results(ids, gen, from))
<1> DEFINE order == SetToSeq(ids)
           rs == Results(ids, gen, from)
<1>1. /\ Len(order) \in Nat /\ \A i \in 1 .. Len(order) : order[i] \in CallIds
  <2>1. order \in Seq(ids) /\ \A i \in 1 .. Len(order) : order[i] \in ids
    BY Listed
  <2> QED
    BY <2>1, LenProperties
<1>2. rs = [i \in 1 .. Len(order) |->
              Message("tool", next + i - 1, gen, {order[i]}, from)]
  BY DEF Results
<1>3. IsLog(rs) /\ Len(rs) = Len(order)
  BY <1>1, <1>2, FunctionIsLog
<1> HIDE DEF order
<1>4. ASSUME NEW i \in 1 .. Len(rs)
      PROVE  /\ Sound(rs[i], next + Len(rs), mem.generation)
             /\ rs[i].kind = "tool" /\ rs[i].seq = next + i - 1
  <2>1. i \in 1 .. Len(order)
    BY <1>3
  <2>2. /\ "tool" \in MessageKinds /\ {order[i]} \subseteq CallIds
        /\ IsFiniteSet({order[i]})
    BY <1>1, <2>1, FS_Singleton DEF MessageKinds
  <2>3. rs[i] = Message("tool", next + i - 1, gen, {order[i]}, from)
    BY <1>2, <2>1
  <2>4. Sound(rs[i], next + Len(rs), mem.generation)
    <3> DEFINE q == next + i - 1
               o == next + Len(rs)
               id == {order[i]}
               r == Message("tool", q, gen, id, from)
    <3>1. gen = None \/ (gen \in Nat /\ gen <= mem.generation)
      OBVIOUS
    <3>2. rs[i] = r
      BY <2>3
    <3>3. id \subseteq CallIds /\ IsFiniteSet(id) /\ "tool" \in MessageKinds
      BY <2>2
    <3> HIDE DEF q, o, id, rs
    <3>4. Sound(r, o, mem.generation)
      BY <3>1, <3>3, MessageOK
    <3> QED
      BY <3>2, <3>4 DEF o
  <2>5. rs[i].kind = "tool" /\ rs[i].seq = next + i - 1
    BY <2>3 DEF Message
  <2> QED
    BY <2>4, <2>5
<1>5. WriteAll(rs)
  OBVIOUS
<1> HIDE DEF rs
<1>6. Fresh(rs, next)
  BY <1>3, <1>4 DEF Fresh
<1>7. Grows(rs)
  BY <1>4, <1>5, <1>6, WriteAllGrows
<1>8. Says(rs)
  BY <1>4, <1>7 DEF Says, MessageKinds
<1> QED
  BY <1>8 DEF rs

\* Sequence numbers identify records.
LEMMA SeqsIdentify ==
  ASSUME NEW l, NEW n, FileOK(l, n),
         NEW i \in 1 .. Len(l), NEW j \in 1 .. Len(l),
         l[i] # Torn, l[j] # Torn, l[i].seq = l[j].seq
  PROVE  i = j
<1>1. Len(l) \in Nat
  BY LogDomain DEF FileOK
<1>2. CASE i < j
  <2>1. l[i].seq < l[j].seq /\ l[i].seq \in Nat /\ l[j].seq \in Nat
    BY <1>2 DEF FileOK
  <2> QED
    BY <2>1
<1>3. CASE j < i
  <2>1. l[j].seq < l[i].seq /\ l[i].seq \in Nat /\ l[j].seq \in Nat
    BY <1>3 DEF FileOK
  <2> QED
    BY <2>1
<1>4. \A a, b \in Nat : a < b \/ b < a \/ a = b
  OBVIOUS
<1> QED
  BY <1>1, <1>2, <1>3, <1>4

LEMMA MessagesIdentified ==
  ASSUME NEW l, NEW n, FileOK(l, n), NEW K, "torn" \notin K,
         NEW a \in OfKind(l, K), NEW b \in OfKind(l, K), a.seq = b.seq
  PROVE  a = b
<1>1. PICK i \in 1 .. Len(l) : l[i] = a /\ a.kind \in K
  BY OfKindIs
<1>2. PICK j \in 1 .. Len(l) : l[j] = b /\ b.kind \in K
  BY OfKindIs
<1>3. a # Torn /\ b # Torn
  BY <1>1, <1>2 DEF Torn
<1> QED
  BY <1>1, <1>2, <1>3, SeqsIdentify

\* A compaction leaves KeepTail messages raw, so it has a first raw message.
LEMMA TailIsLeft ==
  ASSUME NEW l, NEW n, FileOK(l, n), NEW S, NEW V, S \subseteq Messages(l),
         V \subseteq S, NEW prefix \in Coverages(S, V)
  PROVE  prefix \subseteq V /\ prefix # {} /\ V \ prefix # {}
<1> DEFINE Free(a) == \A r \in S : r.seq <= a.seq => ~Blocks(r, S, V)
           Pre(a) == {v \in V : v.seq <= a.seq}
<1>1. prefix # {} /\ \E a \in S : Free(a) /\ prefix = Pre(a)
  BY DEF Coverages
<1>2. PICK a \in S : Free(a) /\ prefix = Pre(a)
  BY <1>1
<1>3. prefix \subseteq V
  BY <1>2
<1>4. ASSUME V \subseteq prefix
      PROVE  FALSE
  <2> DEFINE seqs == {v.seq : v \in V}
  <2>1. \A v \in V : v.seq \in Nat /\ v.seq <= n
    <3>1. \A v \in V : v # Torn /\ \E i \in 1 .. Len(l) : l[i] = v
      BY DEF Messages, OfKind, Torn, MessageKinds
    <3>2. n \in Nat
      BY DEF FileOK
    <3> QED
      BY <3>1, <3>2 DEF FileOK
  <2>2. V # {}
    BY <1>1, <1>3
  <2>3. seqs \in SUBSET Nat /\ seqs # {} /\ \A s \in seqs : s <= n
    BY <2>1, <2>2
  <2>4. n \in Nat
    BY DEF FileOK
  <2>5. Largest(seqs) \in seqs /\ \A s \in seqs : s <= Largest(seqs)
    BY <2>3, <2>4, LargestExists
  <2>6. PICK v \in V : \A u \in V : u.seq <= v.seq
    BY <2>5
  <2>7. v \in S /\ ~Blocks(v, S, V)
    BY <1>2, <1>4
  <2> DEFINE before == {u \in V : u.seq < v.seq}
  <2>8. ~(Cardinality(before) + KeepTail >= Cardinality(V))
    BY <2>7 DEF Blocks
  <2>9. before = V \ {v}
    <3>1. \A u \in V : u.seq = v.seq => u = v
      <4>1. "torn" \notin MessageKinds
        BY DEF MessageKinds
      <4> QED
        BY <4>1, MessagesIdentified DEF Messages
    <3>2. \A x, y \in Nat : x <= y => x < y \/ x = y
      OBVIOUS
    <3>3. ~(v.seq < v.seq)
      BY <2>1
    <3> QED
      BY <2>1, <2>6, <3>1, <3>2, <3>3
  <2>10. IsFiniteSet(V)
    <3>1. IsFiniteSet(Messages(l))
      BY FiniteOfKind DEF FileOK, Messages
    <3> QED
      BY <3>1, FS_Subset
  <2>11. Cardinality(V) \in Nat /\ Cardinality(V \ {v}) = Cardinality(V) - 1
    BY <2>10, FS_CardinalityType, FS_RemoveElement
  <2>12. KeepTail \in Nat \ {0}
    BY SessionLogAssumption
  <2> HIDE DEF before
  <2> QED
    BY <2>8, <2>9, <2>11, <2>12
<1> QED
  BY <1>1, <1>3, <1>4

LEMMA PlansTyped ==
  ASSUME NEW l, NEW n, NEW g, FileOK(l, n), RecordsOK(l, n, g), NEW m,
         NEW plan \in Compactions(l, m)
  PROVE  PlanOK(plan)
<1> DEFINE from == KeepFrom(WorkingSummary(l, m))
           V == {x \in VisibleMessages(l, m) : x.seq >= from}
           S == {x \in Structure(l) : x.seq >= from}
<1>1. PICK prefix \in Coverages(S, V) : plan = Compaction(l, m, prefix, V \ prefix)
  BY DEF Compactions
<1>2. S \subseteq Messages(l) /\ V \subseteq S
  BY ReplayShows
<1>3. prefix \subseteq V /\ prefix # {} /\ V \ prefix # {}
  BY <1>1, <1>2, TailIsLeft
<1> DEFINE previous == WorkingSummary(l, m)
           tail == V \ prefix
<1>4. \A x \in V : x.seq \in Nat /\ x.seq <= n /\ x.from \subseteq Nat
  <2>1. n \in Nat
    BY DEF FileOK
  <2>2. \A x \in V : x \in Messages(l)
    BY <1>2
  <2> QED
    BY <2>1, <2>2, MessageSound
<1>5. \A c \in previous : PlanOK(c) /\ c.seq \in Nat /\ c.seq <= n
  <2>1. n \in Nat
    BY DEF FileOK
  <2> QED
    BY <2>1, ReplayShows, CompactSound
<1> HIDE DEF V, S, previous
<1>6. Smallest(SeqsOf(tail)) \in Nat
  <2>1. SeqsOf(tail) \in SUBSET Nat /\ SeqsOf(tail) # {}
    BY <1>3, <1>4 DEF SeqsOf
  <2> QED
    BY <2>1, SmallestExists
<1>7. SeqsOf(prefix) \in SUBSET Nat /\ SeqsOf(prefix) # {} /\ \A s \in SeqsOf(prefix) : s <= n
  BY <1>3, <1>4 DEF SeqsOf
<1>8. Smallest(SeqsOf(prefix)) \in Nat /\ Largest(SeqsOf(prefix)) \in Nat
  <2>1. n \in Nat
    BY DEF FileOK
  <2> QED
    BY <1>7, <2>1, SmallestExists, LargestExists
<1>9. Largest({0} \cup SeqsOf(previous)) \in Nat
  <2> DEFINE T == {0} \cup SeqsOf(previous)
  <2>1. n \in Nat
    BY DEF FileOK
  <2>2. T \in SUBSET Nat /\ T # {} /\ \A s \in T : s <= n
    BY <1>5, <2>1 DEF SeqsOf
  <2> HIDE DEF T
  <2>3. Largest(T) \in T
    BY <2>1, <2>2, LargestExists
  <2>4. Largest(T) \in Nat
    BY <2>2, <2>3
  <2> QED
    BY <2>4 DEF T
<1>10. /\ SeqsOf(prefix) \cup UNION {c.refs : c \in previous} \subseteq Nat
       /\ Lineage(prefix) \cup UNION {c.from : c \in previous} \subseteq Nat
  <2>1. (UNION {c.refs : c \in previous}) \subseteq Nat
    BY <1>5 DEF PlanOK
  <2>2. (UNION {c.from : c \in previous}) \subseteq Nat
    BY <1>5 DEF PlanOK
  <2>3. Lineage(prefix) \subseteq Nat
    BY <1>3, <1>4 DEF Lineage, SeqsOf
  <2> QED
    BY <1>7, <2>1, <2>2, <2>3
<1>11. plan = [keep  |-> Smallest(SeqsOf(tail)),
               start |-> Smallest(SeqsOf(prefix)),
               end   |-> Largest(SeqsOf(prefix)),
               refs  |-> SeqsOf(prefix) \cup UNION {c.refs : c \in previous},
               prior |-> Largest({0} \cup SeqsOf(previous)),
               from  |-> Lineage(prefix) \cup UNION {c.from : c \in previous}]
  BY <1>1 DEF Compaction, previous
<1>12. /\ plan.keep = Smallest(SeqsOf(tail)) /\ plan.start = Smallest(SeqsOf(prefix))
       /\ plan.end = Largest(SeqsOf(prefix)) /\ plan.prior = Largest({0} \cup SeqsOf(previous))
       /\ plan.refs = SeqsOf(prefix) \cup UNION {c.refs : c \in previous}
       /\ plan.from = Lineage(prefix) \cup UNION {c.from : c \in previous}
  BY <1>11
<1> QED
  BY <1>6, <1>8, <1>9, <1>10, <1>12 DEF PlanOK

\* A turn that goes on with a batch of calls, or with the next request.
LEMMA FreshIds ==
  ASSUME SessionInv, NEW ts \in SUBSET Tools
  PROVE  ({next} \X ts) \subseteq CallIds /\ IsFiniteSet({next} \X ts)
<1>1. IsFiniteSet(ts) /\ IsFiniteSet({next}) /\ next \in Nat
  BY SessionLogAssumption, FS_Subset, FS_Singleton, Basics
<1>2. IsFiniteSet({next} \X ts)
  BY <1>1, FS_Product
<1>3. ({next} \X ts) \subseteq CallIds
  BY <1>1 DEF CallIds
<1> QED
  BY <1>2, <1>3

\* The turn's part of the invariant, when it is at its loop's boundary.
AtBoundary(t) ==
  t # NoTurn => /\ t.phase \in Phases /\ t.at = 0 /\ t.gen \in Nat
                /\ t.gen <= mem.generation /\ t.ids = {} /\ t.base = {}

LEMMA BoundaryOK ==
  ASSUME SessionInv, AtBoundary(turn'), Len(log') \in Nat,
         mem.generation \in Nat, mem.generation' \in Nat, mem.generation <= mem.generation'
  PROVE  TurnOK'
<1>1. 0 <= Len(log') /\ 0 \in Nat
  OBVIOUS
<1>2. IsFiniteSet({})
  BY FS_EmptySet
<1>3. \A x \in Nat : x <= mem.generation => x <= mem.generation'
  OBVIOUS
<1>4. turn' # NoTurn =>
        /\ turn'.phase \in Phases /\ turn'.at \in Nat /\ turn'.at <= Len(log')
        /\ turn'.gen \in Nat /\ turn'.gen <= mem.generation'
        /\ turn'.ids \subseteq CallIds /\ IsFiniteSet(turn'.ids) /\ turn'.base \subseteq Nat
  BY <1>1, <1>2, <1>3 DEF AtBoundary
<1> QED
  BY <1>4 DEF TurnOK

LEMMA TurnStays ==
  ASSUME SessionInv, UNCHANGED turn, Len(log') \in Nat, Len(log) <= Len(log'),
         mem.generation' \in Nat, mem.generation <= mem.generation'
  PROVE  TurnOK'
<1>1. Len(log) \in Nat /\ mem.generation \in Nat
  BY Basics
<1>2. \A x \in Nat : /\ x <= Len(log) => x <= Len(log')
                     /\ x <= mem.generation => x <= mem.generation'
  BY <1>1
<1>3. turn # NoTurn =>
        /\ turn.phase \in Phases /\ turn.at \in Nat /\ turn.at <= Len(log')
        /\ turn.gen \in Nat /\ turn.gen <= mem.generation'
        /\ turn.ids \subseteq CallIds /\ IsFiniteSet(turn.ids) /\ turn.base \subseteq Nat
  BY <1>2 DEF SessionInv, TurnOK
<1> QED
  BY <1>3 DEF TurnOK

LEMMA PlansStay ==
  ASSUME SessionInv, Len(log') \in Nat, Len(log) <= Len(log'),
         DOMAIN compacting' = Compactors,
         \A k \in Compactors : compacting'[k] = compacting[k] \/ compacting'[k] = NoPlan
  PROVE  PlansOK'
<1>1. Len(log) \in Nat
  BY Basics
<1>2. \A x \in Nat : x <= Len(log) => x <= Len(log')
  BY <1>1
<1> QED
  BY <1>2 DEF SessionInv, PlansOK

\* The four parts together, for a step that appends.
LEMMA InvKept ==
  ASSUME SessionInv, NEW rs, Grows(rs), MemOK', TurnOK', PlansOK'
  PROVE  SessionInv'
BY GrowthKeepsFile DEF SessionInv

LEMMA GrowthBounds ==
  ASSUME SessionInv, NEW rs, Grows(rs)
  PROVE  /\ Len(log) \in Nat /\ Len(log') \in Nat /\ Len(log) <= Len(log')
         /\ mem.generation \in Nat /\ mem.generation' \in Nat
         /\ mem.generation <= mem.generation'
BY GrowthKeepsFile, Basics DEF Grows

\* Steps of the runner.
LEMMA TurnStepClass ==
  ASSUME SessionInv, TurnStep
  PROVE  /\ (\E rs : Says(rs)) \/ (\E e : Marks(e))
         /\ UNCHANGED <<mem, compacting>>
<1> USE DEF SessionInv, MemOK
<1>0. mem.generation \in Nat /\ IsFiniteSet({}) /\ {} \subseteq CallIds
  BY FS_EmptySet
<1>1. CASE Submit
  BY <1>1, SubmitSays DEF Submit
<1>2. CASE Steer
  <2>1. "user" \in MessageKinds
    BY DEF MessageKinds
  <2>2. Write(Message("user", next, None, {}, {})) /\ UNCHANGED <<mem, compacting>>
    BY <1>2 DEF Steer
  <2> DEFINE ids == {}
  <2>3. ids \subseteq Nat /\ ids \subseteq CallIds /\ IsFiniteSet(ids)
        /\ Write(Message("user", next, None, ids, ids))
    BY <1>0, <2>2
  <2> HIDE DEF ids
  <2> QED
    BY <2>1, <2>2, <2>3, WritesMessage
<1>3. CASE Deliver
  <2>1. "user" \in MessageKinds
    BY DEF MessageKinds
  <2>2. UNCHANGED <<mem, compacting>>
    BY <1>3 DEF Deliver
  <2>3. turn.gen \in Nat /\ turn.gen <= mem.generation
    BY <1>3 DEF Deliver, Running, TurnOK
  <2>4. PICK c \in OfKind(log, {"call"}) :
          \/ Write(Message("user", next, turn.gen, {}, c.from))
          \/ Write(Message("user", next, None, {}, c.from))
    BY <1>3 DEF Deliver
  <2>5. c \in Messages(log)
    BY <2>4 DEF Messages, OfKind, MessageKinds
  <2>6. c.from \subseteq Nat
    BY <2>5, MessageSound
  <2>7. CASE Write(Message("user", next, turn.gen, {}, c.from))
    BY <1>0, <2>1, <2>2, <2>3, <2>6, <2>7, WritesMessage
  <2>8. CASE Write(Message("user", next, None, {}, c.from))
    BY <1>0, <2>1, <2>2, <2>6, <2>8, WritesMessage
  <2> QED
    BY <2>2, <2>4, <2>7, <2>8
<1>4. CASE Refused
  BY <1>4, Silent DEF Refused
<1>5. CASE Request
  BY <1>5, Silent DEF Request
<1>6. CASE Answer
  <2>1. "asst" \in MessageKinds
    BY DEF MessageKinds
  <2>2. turn.gen \in Nat /\ turn.gen <= mem.generation /\ turn.base \subseteq Nat
    BY <1>6 DEF Answer, Running, TurnOK
  <2> QED
    BY <1>0, <1>6, <2>1, <2>2, WritesMessage DEF Answer
<1>7. CASE Call
  <2>1. "call" \in MessageKinds
    BY DEF MessageKinds
  <2>2. turn.gen \in Nat /\ turn.gen <= mem.generation /\ turn.base \subseteq Nat
    BY <1>7 DEF Call, Running, TurnOK
  <2>3. PICK ts \in SUBSET Tools :
          Write(Message("call", next, turn.gen, {next} \X ts, turn.base))
    BY <1>7 DEF Call
  <2>4. ({next} \X ts) \subseteq CallIds /\ IsFiniteSet({next} \X ts)
    BY FreshIds
  <2>5. UNCHANGED <<mem, compacting>>
    BY <1>7 DEF Call
  <2> DEFINE ids == {next} \X ts
  <2>6. ids \subseteq CallIds /\ IsFiniteSet(ids) /\ Write(Message("call", next, turn.gen, ids, turn.base))
    BY <2>3, <2>4
  <2> HIDE DEF ids
  <2> QED
    BY <1>0, <2>1, <2>2, <2>5, <2>6, WritesMessage
<1>8. CASE Discard
  BY <1>8, WritesMark DEF Discard
<1>9. CASE ProviderFails
  BY <1>9, WritesMark DEF ProviderFails
<1>10. CASE CancelModel
  <2>1. CASE UNCHANGED <<log, next>>
    BY <1>10, <2>1, Silent DEF CancelModel
  <2>2. CASE \E ts \in SUBSET Tools :
               Write(Message("part", next, turn.gen, {next} \X ts, turn.base))
    <3>1. "part" \in MessageKinds
      BY DEF MessageKinds
    <3>2. turn.gen \in Nat /\ turn.gen <= mem.generation /\ turn.base \subseteq Nat
      BY <1>10 DEF CancelModel, Running, TurnOK
    <3>3. PICK ts \in SUBSET Tools :
            Write(Message("part", next, turn.gen, {next} \X ts, turn.base))
      BY <2>2
    <3>4. UNCHANGED <<mem, compacting>>
      BY <1>10 DEF CancelModel
    <3> DEFINE ids == {next} \X ts
    <3>5. ids \subseteq CallIds /\ IsFiniteSet(ids) /\ Write(Message("part", next, turn.gen, ids, turn.base))
      BY <3>3, FreshIds
    <3> HIDE DEF ids
    <3> QED
      BY <1>0, <3>1, <3>2, <3>4, <3>5, WritesMessage
  <2> QED
    BY <1>10, <2>1, <2>2 DEF CancelModel
<1>11. CASE ToolsReturn
  <2>1. /\ turn.gen \in Nat /\ turn.gen <= mem.generation /\ turn.base \subseteq Nat
        /\ turn.ids \subseteq CallIds /\ IsFiniteSet(turn.ids)
    BY <1>11 DEF ToolsReturn, Running, TurnOK
  <2> QED
    BY <1>11, <2>1, ResultsSay DEF ToolsReturn
<1>12. CASE CancelTools
  <2>1. /\ turn.gen \in Nat /\ turn.gen <= mem.generation /\ turn.base \subseteq Nat
        /\ turn.ids \subseteq CallIds /\ IsFiniteSet(turn.ids)
    BY <1>12 DEF CancelTools, Running, TurnOK
  <2>2. PICK done \in SUBSET turn.ids : WriteAll(Results(done, turn.gen, turn.base))
    BY <1>12 DEF CancelTools
  <2>3. IsFiniteSet(done) /\ done \subseteq CallIds
    BY <2>1, FS_Subset
  <2> QED
    BY <1>12, <2>1, <2>2, <2>3, ResultsSay DEF CancelTools
<1>13. CASE CancelBetween
  BY <1>13, Silent DEF CancelBetween
<1> QED
  BY <1>1, <1>2, <1>3, <1>4, <1>5, <1>6, <1>7, <1>8, <1>9, <1>10, <1>11, <1>12, <1>13
  DEF TurnStep

LEMMA TurnStepKeepsTurn ==
  ASSUME SessionInv, TurnStep, Len(log') \in Nat, Len(log) <= Len(log'),
         UNCHANGED mem
  PROVE  TurnOK'
<1>0. /\ mem.generation \in Nat /\ mem.generation' = mem.generation
      /\ mem.generation' \in Nat /\ mem.generation <= mem.generation'
      /\ Len(log) \in Nat /\ IsFiniteSet({})
  BY Basics, FS_EmptySet
<1>1. CASE UNCHANGED turn
  BY <1>0, <1>1, TurnStays
<1>2. CASE EndTurn
  BY <1>2 DEF TurnOK, EndTurn
<1>3. CASE Running(Phases) /\ NextRound
  <2>1. turn.gen \in Nat /\ turn.gen <= mem.generation
    BY <1>3 DEF SessionInv, TurnOK, Running
  <2>2. AtBoundary(turn')
    BY <1>3, <2>1 DEF NextRound, AtBoundary, Phases
  <2> QED
    BY <1>0, <2>2, BoundaryOK
<1>4. CASE Submit
  <2>1. turn' = [phase |-> "start", at |-> 0, gen |-> mem.generation, ids |-> {}, base |-> {}]
        \/ turn' = NoTurn
    BY <1>4 DEF Submit
  <2>2. mem.generation <= mem.generation
    BY <1>0
  <2>3. AtBoundary(turn')
    BY <1>0, <2>1, <2>2 DEF AtBoundary, Phases
  <2> QED
    BY <1>0, <2>3, BoundaryOK
<1>5. CASE Request
  <2>1. turn' = [phase |-> "model", at |-> Len(log), gen |-> mem.generation,
                 ids |-> {}, base |-> ViewLineage(View(log, mem))]
    BY <1>5 DEF Request
  <2>2. ViewLineage(View(log, mem)) \subseteq Nat
    BY LineageTyped DEF SessionInv
  <2>3. mem.generation <= mem.generation
    BY <1>0
  <2> QED
    BY <1>0, <2>1, <2>2, <2>3 DEF TurnOK, Phases
<1>6. CASE Call
  <2>1. PICK ts \in SUBSET Tools :
          turn' = [turn EXCEPT !.phase = "tools", !.at = 0, !.ids = {next} \X ts,
                               !.base = @ \cup {next}]
    BY <1>6 DEF Call
  <2>2. ({next} \X ts) \subseteq CallIds /\ IsFiniteSet({next} \X ts)
    BY FreshIds
  <2>3. /\ turn.gen \in Nat /\ turn.gen <= mem.generation /\ turn.base \subseteq Nat
    BY <1>6 DEF Call, Running, SessionInv, TurnOK
  <2>4. next \in Nat
    BY Basics
  <2>5. ASSUME turn' # NoTurn
        PROVE  /\ turn'.phase \in Phases /\ turn'.at = 0 /\ turn'.gen = turn.gen
               /\ turn'.ids = {next} \X ts /\ turn'.base = turn.base \cup {next}
    BY <2>1 DEF Phases
  <2>6. turn.base \cup {next} \subseteq Nat
    BY <2>3, <2>4
  <2>7. ASSUME turn' # NoTurn
        PROVE  /\ turn'.phase \in Phases
               /\ turn'.at \in Nat /\ turn'.at <= Len(log')
               /\ turn'.gen \in Nat /\ turn'.gen <= mem.generation'
    BY <1>0, <2>3, <2>5, <2>7
  <2>8. ASSUME turn' # NoTurn
        PROVE  turn'.ids \subseteq CallIds /\ IsFiniteSet(turn'.ids) /\ turn'.base \subseteq Nat
    BY <2>2, <2>5, <2>6, <2>8
  <2> QED
    BY <2>7, <2>8 DEF TurnOK
<1>7. CASE Steer \/ Deliver \/ Refused \/ CancelBetween
  BY <1>1, <1>2, <1>7 DEF Steer, Deliver, Refused, CancelBetween
<1>8. CASE Answer \/ Discard \/ ProviderFails \/ CancelModel \/ ToolsReturn \/ CancelTools
  <2>1. Running(Phases)
    BY <1>8 DEF Answer, Discard, ProviderFails, CancelModel, ToolsReturn, CancelTools, Running, Phases
  <2> QED
    BY <1>1, <1>2, <1>3, <1>8, <2>1
    DEF Answer, Discard, ProviderFails, CancelModel, ToolsReturn, CancelTools
<1> QED
  BY <1>4, <1>5, <1>6, <1>7, <1>8 DEF TurnStep

\* Commands.
LEMMA TombstoneOK ==
  ASSUME NEW seq, NEW upto \in Nat, NEW n, NEW g
  PROVE  /\ Sound(Tombstone(seq, upto), n, g) /\ Tombstone(seq, upto).kind = "undo"
         /\ Tombstone(seq, upto).seq = seq /\ Tombstone(seq, upto).upto = upto
BY DEF Tombstone, Sound, Kinds, MessageKinds

LEMMA RedoOK ==
  ASSUME NEW seq, NEW cancels \in Nat, NEW n, cancels < n, NEW g
  PROVE  /\ Sound(RedoOf(seq, cancels), n, g) /\ RedoOf(seq, cancels).kind = "redo"
         /\ RedoOf(seq, cancels).seq = seq /\ RedoOf(seq, cancels).cancels = cancels
BY DEF RedoOf, Sound, Kinds, MessageKinds

LEMMA CompactOK ==
  ASSUME NEW p, PlanOK(p), NEW seq, NEW n, NEW g
  PROVE  /\ Sound(CompactRecord(p, seq), n, g) /\ CompactRecord(p, seq).kind = "compact"
         /\ CompactRecord(p, seq).seq = seq
BY DEF CompactRecord, PlanOK, Sound, Kinds, MessageKinds

LEMMA TombstonesSound ==
  ASSUME NEW l, NEW n, NEW g, FileOK(l, n), RecordsOK(l, n, g),
         NEW t \in ActiveTombstones(l)
  PROVE  t.kind = "undo" /\ t.seq \in Nat \ {0} /\ t.seq < n /\ t.upto \in Nat
<1>1. PICK i \in 1 .. Len(l) : l[i] = t /\ t.kind = "undo"
  BY DEF ActiveTombstones, OfKind
<1>2. t # Torn
  BY <1>1 DEF Torn
<1>3. Sound(t, n, g)
  BY <1>1 DEF RecordsOK
<1> QED
  BY <1>1, <1>2, <1>3 DEF Sound, FileOK

LEMMA CommandClass ==
  ASSUME SessionInv, Command
  PROVE  (\E e : Marks(e)) \/ Forgets \/ CutsBack \/ Redoes
<1>0. /\ mem.generation \in Nat /\ next \in Nat \ {0}
      /\ FileOK(log, next) /\ RecordsOK(log, next, mem.generation)
  BY Basics DEF SessionInv
<1>1. CASE Forget
  <2>1. PICK S : /\ mem' = [excluded |-> mem.excluded \cup S,
                            generation |-> mem.generation + 1]
                 /\ IF S = {} THEN UNCHANGED <<log, next>> ELSE Write(Event("forget", next))
    BY <1>1 DEF Forget
  <2>2. mem.generation' = mem.generation + 1 /\ mem.excluded \subseteq mem.excluded'
    BY <2>1
  <2>3. mem.generation' \in Nat /\ mem.generation <= mem.generation'
    BY <1>0, <2>2
  <2>4. CASE UNCHANGED <<log, next>>
    <3>1. Grows(<<>>)
      BY <2>3, <2>4, NothingGrows
    <3> QED
      BY <2>2, <3>1 DEF Forgets
  <2>5. CASE Write(Event("forget", next))
    <3> DEFINE e == Event("forget", next)
    <3>1. Sound(e, next + 1, mem.generation') /\ e.kind # "torn" /\ e.seq = next
      BY EventOK DEF Bookkeeping
    <3>2. Write(e)
      BY <2>5
    <3> HIDE DEF e
    <3>3. Grows(<<e>>)
      BY <2>3, <3>1, <3>2, WriteGrows
    <3> QED
      BY <2>2, <3>3 DEF Forgets, e
  <2> QED
    BY <2>1, <2>4, <2>5
<1>2. CASE Undo
  <2> DEFINE users == {m \in LoadMessages(log) : m.kind = "user"}
             upto == Largest(SeqsOf(users)) - 1
  <2>1. users # {} /\ Write(Tombstone(next, upto)) /\ UNCHANGED mem
    BY <1>2 DEF Undo
  <2>2. \A m \in users : m.seq \in Nat \ {0} /\ m.seq <= next
    <3>1. \A m \in users : m \in Messages(log)
      BY DEF LoadMessages
    <3> QED
      BY <1>0, <3>1, MessageSound
  <2>3. /\ SeqsOf(users) \in SUBSET Nat /\ SeqsOf(users) # {}
        /\ \A s \in SeqsOf(users) : s <= next /\ s # 0
    BY <2>1, <2>2 DEF SeqsOf
  <2>4. Largest(SeqsOf(users)) \in SeqsOf(users)
    BY <1>0, <2>3, LargestExists
  <2>5. upto \in Nat
    BY <2>3, <2>4
  <2> HIDE DEF upto, users
  <2> DEFINE t == Tombstone(next, upto)
  <2>6. Sound(t, next + 1, mem.generation) /\ t.kind = "undo" /\ t.seq = next
    BY <2>5, TombstoneOK
  <2>7. Write(t) /\ mem.generation' = mem.generation /\ mem.generation <= mem.generation'
    BY <1>0, <2>1
  <2> HIDE DEF t
  <2>8. Grows(<<t>>)
    BY <1>0, <2>6, <2>7, WriteGrows
  <2> QED
    BY <2>1, <2>5, <2>8 DEF CutsBack, t
<1>3. CASE Redo
  <2>1. PICK t \in Redoable(log) : Write(RedoOf(next, t.seq)) /\ UNCHANGED mem
    BY <1>3 DEF Redo
  <2>2. t \in ActiveTombstones(log)
    BY <2>1 DEF Redoable
  <2>3. t.seq \in Nat /\ t.seq < next
    BY <1>0, <2>2, TombstonesSound
  <2>4. t.seq < next + 1
    BY <1>0, <2>3
  <2> DEFINE r == RedoOf(next, t.seq)
  <2>5. Sound(r, next + 1, mem.generation) /\ r.kind = "redo" /\ r.seq = next
    BY <2>3, <2>4, RedoOK
  <2>6. Write(r) /\ mem.generation' = mem.generation /\ mem.generation <= mem.generation'
    BY <1>0, <2>1
  <2> HIDE DEF r
  <2>7. Grows(<<r>>)
    BY <1>0, <2>5, <2>6, WriteGrows
  <2> QED
    BY <2>1, <2>7 DEF Redoes, r
<1>4. CASE Rewind
  <2>1. PICK m \in LoadMessages(log) :
          WriteAll(<<Event("event", next), Tombstone(next + 1, m.seq)>>) /\ UNCHANGED mem
    BY <1>4 DEF Rewind
  <2>2. m.seq \in Nat
    BY <1>0, MessageSound DEF LoadMessages
  <2> DEFINE e == Event("event", next)
             t == Tombstone(next + 1, m.seq)
             rs == <<e, t>>
  <2>3. IsLog(rs) /\ Len(rs) = 2 /\ rs[1] = e /\ rs[2] = t
    BY TwoRecords
  <2>4. \A n, g : Sound(e, n, g) /\ e.kind = "event" /\ e.seq = next
    BY EventOK
  <2>5. \A n, g : Sound(t, n, g) /\ t.kind = "undo" /\ t.seq = next + 1
    BY <2>2, TombstoneOK
  <2>6. WriteAll(rs)
    BY <2>1
  <2>7. rs = <<Event("event", next), Tombstone(next + 1, m.seq)>>
    OBVIOUS
  <2> HIDE DEF e, t, rs
  <2>8. \A i \in 1 .. Len(rs) : i = 1 \/ i = 2
    BY <2>3
  <2>9. next + 1 - 1 = next /\ next + 2 - 1 = next + 1
    BY <1>0
  <2>10. Fresh(rs, next) /\ \A i \in 1 .. Len(rs) : Sound(rs[i], next + Len(rs), mem.generation)
    BY <2>3, <2>4, <2>5, <2>8, <2>9 DEF Fresh
  <2>11. Grows(rs)
    BY <2>1, <2>6, <2>10, WriteAllGrows
  <2> QED
    BY <2>1, <2>2, <2>7, <2>11 DEF CutsBack
<1>5. CASE Clear
  BY <1>5, WritesMark DEF Clear
<1>6. CASE Record
  BY <1>6, WritesMark DEF Record
<1> QED
  BY <1>1, <1>2, <1>3, <1>4, <1>5, <1>6 DEF Command

\* Every class but a crash appends and never takes a generation back.
LEMMA ClassesGrow ==
  ASSUME SessionInv,
         \/ \E rs : Says(rs)
         \/ \E e : Marks(e)
         \/ Forgets
         \/ CutsBack
         \/ Redoes
  PROVE  \E rs : Grows(rs)
BY DEF Says, Marks, Forgets, CutsBack, Redoes

LEMMA CompactEndClass ==
  ASSUME SessionInv, NEW k \in Compactors, CompactEnds(k) \/ CompactFails(k)
  PROVE  \E e : Marks(e)
<1>0. /\ mem.generation \in Nat /\ next \in Nat \ {0} /\ NextSeq(log) = next /\ UNCHANGED mem
  BY Basics DEF CompactEnds, CompactFails
<1>1. mem.generation' = mem.generation /\ mem.generation <= mem.generation'
  BY <1>0
<1>2. CASE WriteRejected
  <2> DEFINE e == Event("memory_usage", next)
  <2>1. /\ log' = Append(log, e) /\ next' = next + 1
    BY <1>0, <1>2 DEF WriteRejected, Appended
  <2>2. Sound(e, next + 1, mem.generation) /\ e.kind = "memory_usage" /\ e.seq = next
    BY EventOK DEF Bookkeeping
  <2> HIDE DEF e
  <2>3. Fresh(<<e>>, next) /\ Len(<<e>>) = 1 /\ \A i \in 1 .. Len(<<e>>) : <<e>>[i] = e
    BY <1>0, <2>2, OneIsFresh
  <2>4. log' = log \o <<e>>
    BY <2>1, AppendedJoins, Basics
  <2>5. Grows(<<e>>)
    BY <1>0, <1>1, <2>1, <2>2, <2>3, <2>4 DEF Grows
  <2>6. Marks(e)
    BY <1>0, <2>2, <2>5 DEF Marks, MarkKinds
  <2> QED
    BY <2>6
<1>3. CASE compacting[k] # NoPlan /\ Write(CompactRecord(compacting[k].plan, NextSeq(log)))
  <2> DEFINE e == CompactRecord(compacting[k].plan, next)
  <2>1. PlanOK(compacting[k].plan)
    BY <1>3 DEF SessionInv, PlansOK
  <2>2. Sound(e, next + 1, mem.generation) /\ e.kind = "compact" /\ e.seq = next
    BY <2>1, CompactOK
  <2>3. Write(e)
    BY <1>0, <1>3
  <2> HIDE DEF e
  <2>4. Grows(<<e>>)
    BY <1>0, <1>1, <2>2, <2>3, WriteGrows
  <2>5. Marks(e)
    BY <1>0, <2>2, <2>4 DEF Marks, MarkKinds
  <2> QED
    BY <2>5
<1> QED
  BY <1>2, <1>3 DEF CompactEnds, CompactFails

LEMMA CrashClass ==
  ASSUME SessionInv, Crash
  PROVE  /\ Says(<<>>) \/ Tears
         /\ turn' = NoTurn /\ compacting' = [k \in Compactors |-> NoPlan]
<1>1. CASE UNCHANGED log
  <2>1. next' = next
    BY <1>1, Basics DEF Crash
  <2> QED
    BY <1>1, <2>1, Silent DEF Crash
<1>2. CASE log' = Append(log, Torn)
  <2>1. log' = log \o <<Torn>>
    BY <1>2, AppendedJoins, Basics
  <2>2. FileOK(log', next)
    BY <2>1, FileTorn DEF SessionInv
  <2>3. next' = next
    BY <2>2, CounterFound DEF Crash
  <2> QED
    BY <2>1, <2>3 DEF Tears, Crash
<1> QED
  BY <1>1, <1>2 DEF Crash

LEMMA TearKeepsFile ==
  ASSUME SessionInv, Tears
  PROVE  /\ FileOK(log', next') /\ RecordsOK(log', next', mem.generation')
         /\ Len(log') \in Nat /\ Len(log) <= Len(log')
<1>1. FileOK(log', next')
  BY FileTorn DEF SessionInv, Tears
<1>2. IsLog(<<Torn>>) /\ Len(<<Torn>>) = 1 /\ \A i \in 1 .. Len(<<Torn>>) : <<Torn>>[i] = Torn
  <2>1. \A i \in 1 .. 1 : i = 1
    OBVIOUS
  <2> QED
    BY <2>1, OneRecord
<1>3. Sound(Torn, next, mem.generation)
  BY DEF Torn, Sound, Kinds, MessageKinds
<1>4. /\ mem.generation \in Nat /\ mem.generation <= mem.generation
      /\ next \in Nat /\ next <= next
  BY Basics
<1>5. RecordsOK(log', next, mem.generation)
  <2> DEFINE rs == <<Torn>>
             l == log'
  <2>1. IsLog(rs) /\ l = log \o rs /\ \A i \in 1 .. Len(rs) : Sound(rs[i], next, mem.generation)
    BY <1>2, <1>3 DEF Tears
  <2>2. FileOK(log, next) /\ RecordsOK(log, next, mem.generation)
    BY DEF SessionInv
  <2> HIDE DEF rs, l
  <2>3. RecordsOK(l, next, mem.generation)
    BY <1>4, <2>1, <2>2, RecordsGrow
  <2> QED
    BY <2>3 DEF l
<1>6. next' = next /\ mem.generation' = mem.generation
  BY DEF Tears
<1>7. IsJoin(log', log, <<Torn>>)
  BY <1>2, Joined, Basics DEF Tears
<1>8. Len(log) \in Nat /\ Len(log') = Len(log) + 1
  BY <1>2, <1>7, Basics DEF IsJoin
<1> QED
  BY <1>1, <1>5, <1>6, <1>8

LEMMA TurnPausesOrStays ==
  ASSUME SessionInv, turn' = NoTurn \/ UNCHANGED turn,
         Len(log') \in Nat, Len(log) <= Len(log'),
         mem.generation' \in Nat, mem.generation <= mem.generation'
  PROVE  TurnOK'
<1>1. CASE turn' = NoTurn
  BY <1>1 DEF TurnOK
<1>2. CASE UNCHANGED turn
  BY <1>2, TurnStays
<1> QED
  BY <1>1, <1>2

LEMMA SessionInvKept ==
  ASSUME SessionInv, [Next]_vars
  PROVE  SessionInv'
<1>1. CASE UNCHANGED vars
  BY <1>1 DEF vars, SessionInv, MemOK, TurnOK, PlansOK
<1>2. CASE TurnStep
  <2>1. /\ (\E rs : Says(rs)) \/ (\E e : Marks(e))
        /\ UNCHANGED <<mem, compacting>>
    BY <1>2, TurnStepClass
  <2>2. PICK rs : Grows(rs)
    BY <2>1, ClassesGrow
  <2>3. TurnOK'
    BY <1>2, <2>1, <2>2, GrowthBounds, TurnStepKeepsTurn
  <2>4. PlansOK'
    BY <2>1, <2>2, GrowthBounds, PlansStay DEF SessionInv, PlansOK
  <2>5. MemOK'
    BY <2>1 DEF SessionInv, MemOK
  <2> QED
    BY <2>2, <2>3, <2>4, <2>5, InvKept
<1>3. CASE Command
  <2>1. (\E e : Marks(e)) \/ Forgets \/ CutsBack \/ Redoes
    BY <1>3, CommandClass
  <2>2. PICK rs : Grows(rs)
    BY <2>1, ClassesGrow
  <2>3. UNCHANGED <<turn, compacting>>
    BY <1>3 DEF Command, Forget, Undo, Redo, Rewind, Clear, Record
  <2>4. TurnOK'
    BY <2>2, <2>3, GrowthBounds, TurnStays
  <2>5. PlansOK'
    BY <2>2, <2>3, GrowthBounds, PlansStay DEF SessionInv, PlansOK
  <2>6. MemOK'
    <3>1. CASE UNCHANGED mem
      BY <3>1 DEF SessionInv, MemOK
    <3>2. CASE Forget
      <4>1. \A m \in Messages(log) : m.seq \in Nat
        BY MessageSound DEF SessionInv
      <4>2. PICK S \in {{}} \cup {{m.seq} : m \in Messages(log)} :
              mem' = [excluded |-> mem.excluded \cup S,
                      generation |-> mem.generation + 1]
        BY <3>2 DEF Forget
      <4>3. S \subseteq Nat
        BY <4>1, <4>2
      <4>4. mem'.excluded = mem.excluded \cup S /\ mem'.generation = mem.generation + 1
        BY <4>2
      <4>5. mem.excluded \subseteq Nat /\ mem.generation \in Nat
        BY DEF SessionInv, MemOK
      <4>6. mem'.excluded \subseteq Nat
        BY <4>3, <4>4, <4>5
      <4>7. mem'.generation \in Nat
        BY <4>4, <4>5
      <4> QED
        BY <4>6, <4>7 DEF MemOK
    <3> QED
      BY <1>3, <3>1, <3>2 DEF Command, Undo, Redo, Rewind, Clear, Record
  <2> QED
    BY <2>2, <2>4, <2>5, <2>6, InvKept
<1>4. CASE Crash
  <2>1. /\ Says(<<>>) \/ Tears
        /\ turn' = NoTurn /\ compacting' = [k \in Compactors |-> NoPlan]
        /\ UNCHANGED mem
    BY <1>4, CrashClass DEF Crash
  <2>2. MemOK' /\ TurnOK' /\ PlansOK'
    BY <2>1 DEF SessionInv, MemOK, TurnOK, PlansOK
  <2>3. CASE Says(<<>>)
    BY <2>2, <2>3, InvKept DEF Says
  <2>4. CASE Tears
    BY <2>2, <2>4, TearKeepsFile DEF SessionInv
  <2> QED
    BY <2>1, <2>3, <2>4
<1>5. ASSUME NEW k \in Compactors, CompactBegins(k)
      PROVE  SessionInv'
  <2>1. PICK plan \in Compactions(log, mem) :
          compacting' = [compacting EXCEPT ![k] =
            [at |-> Len(log), gen |-> mem.generation, plan |-> plan]]
    BY <1>5 DEF CompactBegins
  <2>2. PlanOK(plan)
    BY <2>1, PlansTyped DEF SessionInv
  <2>3. UNCHANGED <<log, next, mem, turn>>
    BY <1>5 DEF CompactBegins
  <2>4. Len(log) \in Nat
    BY Basics
  <2>5. Len(log) <= Len(log)
    BY <2>4
  <2>6. DOMAIN compacting' = Compactors
    BY <2>1 DEF SessionInv, PlansOK
  <2>7. ASSUME NEW j \in Compactors
        PROVE  \/ compacting'[j] = NoPlan
               \/ /\ compacting'[j].at \in Nat /\ compacting'[j].at <= Len(log)
                  /\ PlanOK(compacting'[j].plan)
    <3>1. CASE j = k
      <4>1. compacting'[j] = [at |-> Len(log), gen |-> mem.generation, plan |-> plan]
        BY <2>1, <3>1 DEF SessionInv, PlansOK
      <4>2. compacting'[j].at = Len(log) /\ compacting'[j].plan = plan
        BY <4>1
      <4> QED
        BY <2>2, <2>4, <2>5, <4>2
    <3>2. CASE j # k
      BY <2>1, <3>2 DEF SessionInv, PlansOK
    <3> QED
      BY <3>1, <3>2
  <2>8. PlansOK'
    BY <2>3, <2>6, <2>7 DEF PlansOK
  <2> QED
    BY <2>3, <2>8 DEF SessionInv, MemOK, TurnOK
<1>6. ASSUME NEW k \in Compactors, CompactEnds(k) \/ CompactFails(k)
      PROVE  SessionInv'
  <2>1. PICK e : Marks(e)
    BY <1>6, CompactEndClass
  <2>2. Grows(<<e>>) /\ UNCHANGED mem
    BY <2>1 DEF Marks
  <2>3. turn' = NoTurn \/ UNCHANGED turn
    BY <1>6 DEF CompactEnds, CompactFails, HandBack, EndTurn
  <2>4. TurnOK'
    BY <2>2, <2>3, GrowthBounds, TurnPausesOrStays
  <2>5. compacting' = [compacting EXCEPT ![k] = NoPlan]
    BY <1>6 DEF CompactEnds, CompactFails
  <2>6. PlansOK'
    BY <2>2, <2>5, GrowthBounds, PlansStay DEF SessionInv, PlansOK
  <2>7. MemOK'
    BY <2>2 DEF SessionInv, MemOK
  <2> QED
    BY <2>2, <2>4, <2>6, <2>7, InvKept
<1> QED
  BY <1>1, <1>2, <1>3, <1>4, <1>5, <1>6 DEF Next

LEMMA SessionInvHolds == Spec => []SessionInv
<1>1. Init => SessionInv
  <2> SUFFICES ASSUME Init PROVE SessionInv
    OBVIOUS
  <2>1. FileOK(log, next) /\ Len(log) = 0
    BY EmptyFile, EmptyLog DEF Init
  <2>2. RecordsOK(log, next, mem.generation)
    BY <2>1 DEF RecordsOK
  <2> QED
    BY <2>1, <2>2 DEF Init, SessionInv, MemOK, TurnOK, PlansOK
<1>2. SessionInv /\ [Next]_vars => SessionInv'
  BY SessionInvKept
<1> QED
  BY <1>1, <1>2, PTL DEF Spec

\* Whatever the turns, commands, compactions and crashes: the sequence numbers
\* of the lines that parse increase along the file.
THEOREM NumbersIncrease == Spec => []SeqsIncrease
<1>1. SessionInv => SeqsIncrease
  BY SequencesIncrease DEF SessionInv
<1> QED
  BY <1>1, SessionInvHolds, PTL

\* The record whose append returned last can be read, also when it was the
\* first one after a torn line.
THEOREM AppendsReadable == Spec => []AppendReadable
<1>1. SessionInv => AppendReadable
  BY LastIsReadable DEF SessionInv
<1> QED
  BY <1>1, SessionInvHolds, PTL

\* The state of the session file, of the runner and of the compactions in
\* flight is typed.
THEOREM SessionTypeCorrect == Spec => []TypeOK
<1>1. ASSUME SessionInv
      PROVE  TypeOK
  <2>1. ASSUME NEW i \in 1 .. Len(log)
        PROVE  RecordOK(log[i])
    <3> DEFINE r == log[i]
    <3>1. Sound(r, next, mem.generation)
      BY <1>1 DEF SessionInv, RecordsOK
    <3>2. r.seq \in Nat
      <4>1. CASE r = Torn
        BY <4>1 DEF Torn
      <4>2. CASE r # Torn
        BY <1>1, <4>2 DEF SessionInv, FileOK
      <4> QED
        BY <4>1, <4>2
    <3> HIDE DEF r
    <3>3. RecordOK(r)
      BY <3>1, <3>2 DEF Sound, RecordOK, GeneratedOK, Kinds
    <3> QED
      BY <3>3 DEF r
  <2>2. next \in Nat /\ mem.excluded \subseteq Nat /\ mem.generation \in Nat /\ Len(log) \in Nat
    BY <1>1, Basics
  <2>3. \/ turn = NoTurn
        \/ /\ turn.phase \in Phases /\ turn.at \in 0 .. Len(log)
           /\ turn.gen \in Nat /\ turn.ids \subseteq CallIds /\ turn.base \subseteq Nat
    BY <1>1, <2>2 DEF SessionInv, TurnOK
  <2>4. DOMAIN compacting = Compactors /\ \A k \in Compactors : compacting[k].at \in 0 .. Len(log)
    <3>1. NoPlan.at = 0
      BY DEF NoPlan
    <3> QED
      BY <1>1, <2>2, <3>1 DEF SessionInv, PlansOK
  <2> QED
    BY <2>1, <2>2, <2>3, <2>4 DEF TypeOK
<1> QED
  BY <1>1, SessionInvHolds, PTL
-----------------------------------------------------------------------------
(* What replay shows.                                                       *)

Vis(l, m) == SeqsOf(VisibleMessages(l, m))

LEMMA SummaryIs ==
  ASSUME NEW l, NEW n, NEW g, FileOK(l, n), RecordsOK(l, n, g), NEW m
  PROVE  \/ WorkingSummary(l, m) = {} /\ KeepFrom(WorkingSummary(l, m)) = 0
         \/ \E c \in OfKind(l, {"compact"}) :
              /\ WorkingSummary(l, m) = {c} /\ KeepFrom(WorkingSummary(l, m)) = c.keep
              /\ c.keep \in Nat /\ Intact(l) /\ c.refs \subseteq Vis(l, m)
              /\ c.refs = {s \in Vis(l, m) : s < c.keep}
<1> DEFINE W == WorkingSummary(l, m)
           C == OfKind(l, {"compact"})
<1>1. \A c \in W : /\ c \in C /\ c.seq = Largest(SeqsOf(C)) /\ Intact(l)
                   /\ c.refs \subseteq Vis(l, m)
                   /\ c.refs = {s \in Vis(l, m) : s < c.keep}
  BY DEF WorkingSummary, Vis
<1>2. \A c, d \in W : c = d
  <2>1. "torn" \notin {"compact"}
    OBVIOUS
  <2> QED
    BY <1>1, <2>1, MessagesIdentified
<1>3. \A c \in W : c.keep \in Nat
  BY <1>1, CompactSound DEF PlanOK
<1> HIDE DEF W, C
<1>4. CASE W = {}
  <2>1. {0} \cup {c.keep : c \in W} = {0}
    BY <1>4
  <2>2. Largest({0}) = 0
    BY LargestIs
  <2> QED
    BY <1>4, <2>1, <2>2 DEF KeepFrom, W
<1>5. CASE W # {}
  <2>1. PICK c \in W : TRUE
    BY <1>5
  <2>2. W = {c}
    BY <1>2, <2>1
  <2>3. {0} \cup {x.keep : x \in W} = {0, c.keep}
    BY <2>2
  <2>4. Largest({0, c.keep}) = c.keep
    <3>1. c.keep \in Nat
      BY <1>3, <2>1
    <3>2. \A x \in {0, c.keep} : x <= c.keep
      BY <3>1
    <3> QED
      BY <3>1, <3>2, LargestIs
  <2>5. KeepFrom(W) = c.keep
    BY <2>3, <2>4 DEF KeepFrom
  <2> QED
    BY <1>1, <1>3, <2>1, <2>2, <2>5 DEF W, C
<1> QED
  BY <1>4, <1>5

\* The summary and the raw messages of a replay partition what is visible.
THEOREM SummaryPartitions == Spec => []SummaryPartition
<1>1. ASSUME SessionInv
      PROVE  SummaryPartition
  <2> DEFINE W == WorkingSummary(log, mem)
             V == VisibleMessages(log, mem)
             keep == KeepFrom(W)
             raw == {x \in V : x.seq >= keep}
             covered == UNION {c.refs : c \in W}
  <2>1. View(log, mem).summary = W /\ View(log, mem).raw = raw
    BY DEF View
  <2>2. \A x \in V : x.seq \in Nat
    BY <1>1, ReplayShows, MessageSound DEF SessionInv
  <2>3. covered \cup SeqsOf(raw) = SeqsOf(V) /\ covered \cap SeqsOf(raw) = {}
    <3>1. CASE W = {} /\ keep = 0
      <4>1. covered = {}
        BY <3>1
      <4>2. raw = V
        BY <2>2, <3>1
      <4> HIDE DEF covered, raw
      <4> QED
        BY <4>1, <4>2
    <3>2. CASE \E c \in OfKind(log, {"compact"}) :
                 /\ W = {c} /\ keep = c.keep /\ c.keep \in Nat
                 /\ c.refs = {s \in SeqsOf(V) : s < c.keep}
      <4>1. PICK c : /\ W = {c} /\ keep = c.keep /\ c.keep \in Nat
                     /\ c.refs = {s \in SeqsOf(V) : s < c.keep}
        BY <3>2
      <4>2. covered = c.refs
        BY <4>1
      <4>3. SeqsOf(raw) = {s \in SeqsOf(V) : s >= c.keep}
        BY <4>1 DEF SeqsOf
      <4>4. \A s \in SeqsOf(V) : s \in Nat
        BY <2>2 DEF SeqsOf
      <4>5. \A s \in SeqsOf(V) : ~(s < c.keep) <=> s >= c.keep
        BY <4>1, <4>4
      <4> HIDE DEF covered, raw, V, W, keep
      <4> QED
        BY <4>1, <4>2, <4>3, <4>5
    <3>3. FileOK(log, next) /\ RecordsOK(log, next, mem.generation)
      BY <1>1 DEF SessionInv
    <3> QED
      BY <3>1, <3>2, <3>3, SummaryIs DEF Vis
  <2> QED
    BY <2>1, <2>3 DEF SummaryPartition
<1> QED
  BY <1>1, SessionInvHolds, PTL
-----------------------------------------------------------------------------
(* How an append changes what replay shows.                                 *)

LEMMA OfKindJoined ==
  ASSUME NEW l, IsLog(l), NEW rs, IsLog(rs), NEW K
  PROVE  OfKind(l \o rs, K) = OfKind(l, K) \cup OfKind(rs, K)
<1> DEFINE k == l \o rs
<1>1. IsJoin(k, l, rs) /\ Len(l) \in Nat /\ Len(rs) \in Nat
  BY Joined, LogDomain
<1> HIDE DEF k
<1>2. ASSUME NEW r \in OfKind(k, K)
      PROVE  r \in OfKind(l, K) \cup OfKind(rs, K)
  <2>1. PICK i \in 1 .. Len(k) : k[i] = r /\ r.kind \in K
    BY OfKindIs
  <2>2. CASE i \in 1 .. Len(l)
    BY <1>1, <2>1, <2>2, OfKindIs DEF IsJoin
  <2>3. CASE i \notin 1 .. Len(l)
    <3>1. i - Len(l) \in 1 .. Len(rs) /\ Len(l) + (i - Len(l)) = i
      BY <1>1, <2>3 DEF IsJoin
    <3>2. rs[i - Len(l)] = r
      BY <1>1, <2>1, <3>1 DEF IsJoin
    <3> QED
      BY <2>1, <3>1, <3>2, OfKindIs
  <2> QED
    BY <2>2, <2>3
<1>3. ASSUME NEW r \in OfKind(l, K)
      PROVE  r \in OfKind(k, K)
  <2>1. PICK i \in 1 .. Len(l) : l[i] = r /\ r.kind \in K
    BY OfKindIs
  <2>2. i \in 1 .. Len(k) /\ k[i] = r
    BY <1>1, <2>1 DEF IsJoin
  <2> QED
    BY <2>1, <2>2, OfKindIs
<1>4. ASSUME NEW r \in OfKind(rs, K)
      PROVE  r \in OfKind(k, K)
  <2>1. PICK i \in 1 .. Len(rs) : rs[i] = r /\ r.kind \in K
    BY OfKindIs
  <2>2. Len(l) + i \in 1 .. Len(k) /\ k[Len(l) + i] = r
    BY <1>1, <2>1 DEF IsJoin
  <2> QED
    BY <2>1, <2>2, OfKindIs
<1>5. OfKind(k, K) = OfKind(l, K) \cup OfKind(rs, K)
  BY <1>2, <1>3, <1>4
<1> QED
  BY <1>5 DEF k

LEMMA OfKindOne ==
  ASSUME NEW e, NEW K
  PROVE  OfKind(<<e>>, K) = IF e.kind \in K THEN {e} ELSE {}
<1>1. Len(<<e>>) = 1 /\ <<e>>[1] = e
  BY OneRecord
<1>2. \A i : i \in 1 .. 1 <=> i = 1
  OBVIOUS
<1> DEFINE l == <<e>>
<1>3. \A r : r \in OfKind(l, K) <=> r = e /\ e.kind \in K
  <2>1. \A i : i \in 1 .. Len(l) <=> i = 1
    BY <1>1, <1>2
  <2>2. l[1] = e
    BY <1>1
  <2> HIDE DEF l
  <2> QED
    BY <2>1, <2>2, OfKindIs
<1> HIDE DEF l
<1>4. CASE e.kind \in K
  <2>1. OfKind(l, K) = {e}
    BY <1>3, <1>4
  <2> QED
    BY <1>4, <2>1 DEF l
<1>5. CASE e.kind \notin K
  <2>1. OfKind(l, K) = {}
    BY <1>3, <1>5
  <2> QED
    BY <1>5, <2>1 DEF l
<1> QED
  BY <1>4, <1>5

\* The messages of l shown under tombstones T.
ShownWith(l, T, m) ==
  SeqsOf({x \in Messages(l) :
            ~IsHidden(x.seq, T) /\ x.seq > LastClear(l) /\ Remembered(x, m)})

LEMMA ShownIs ==
  ASSUME NEW l, NEW m
  PROVE  Shown(l, m) = ShownWith(l, ActiveTombstones(l), m)
<1>1. VisibleMessages(l, m) =
        {x \in Messages(l) : /\ ~IsHidden(x.seq, ActiveTombstones(l))
                             /\ x.seq > LastClear(l) /\ Remembered(x, m)}
  BY DEF VisibleMessages, Structure, LoadMessages
<1> QED
  BY <1>1 DEF Shown, ShownWith

LEMMA FewerTombstonesShowMore ==
  ASSUME NEW l, NEW m, NEW T, NEW U, T \subseteq U
  PROVE  ShownWith(l, U, m) \subseteq ShownWith(l, T, m)
<1>1. \A x : IsHidden(x, T) => IsHidden(x, U)
  BY DEF IsHidden
<1> QED
  BY <1>1 DEF ShownWith, SeqsOf

\* Without tombstones, redos and clears, neither which tombstones are in force
\* nor the last clear changes.
LEMMA SameHiding ==
  ASSUME NEW l, IsLog(l), NEW rs, IsLog(rs),
         OfKind(rs, {"undo"}) = {}, OfKind(rs, {"redo"}) = {}
  PROVE  /\ ActiveTombstones(l \o rs) = ActiveTombstones(l)
         /\ OfKind(rs, {"clear"}) = {} => LastClear(l \o rs) = LastClear(l)
<1>1. \A K : OfKind(l \o rs, K) = OfKind(l, K) \cup OfKind(rs, K)
  BY OfKindJoined
<1>2. /\ OfKind(l \o rs, {"undo"}) = OfKind(l, {"undo"})
      /\ OfKind(l \o rs, {"redo"}) = OfKind(l, {"redo"})
  BY <1>1
<1>3. OfKind(rs, {"clear"}) = {} => OfKind(l \o rs, {"clear"}) = OfKind(l, {"clear"})
  BY <1>1
<1>4. ActiveTombstones(l \o rs) = ActiveTombstones(l)
  BY <1>2 DEF ActiveTombstones
<1>5. OfKind(rs, {"clear"}) = {} => LastClear(l \o rs) = LastClear(l)
  BY <1>3 DEF LastClear
<1> QED
  BY <1>4, <1>5

\* Which record a redo would look at.
Kept(l) == {i \in 1 .. Len(l) : l[i] # Torn /\ l[i].kind \notin Bookkeeping}

LEMMA RedoableIs ==
  ASSUME NEW l
  PROVE  Redoable(l) = IF Kept(l) = {} THEN {}
                       ELSE {l[Largest(Kept(l))]} \cap ActiveTombstones(l)
BY DEF Redoable, Kept

LEMMA LastDecides ==
  ASSUME NEW l, IsLog(l), NEW rs, IsLog(rs), Len(rs) # 0,
         rs[Len(rs)].kind \notin Bookkeeping \cup {"torn"}
  PROVE  Redoable(l \o rs) = {rs[Len(rs)]} \cap ActiveTombstones(l \o rs)
<1> DEFINE k == l \o rs
<1>1. IsJoin(k, l, rs) /\ Len(l) \in Nat /\ Len(rs) \in Nat
  BY Joined, LogDomain
<1> HIDE DEF k
<1>2. Len(k) = Len(l) + Len(rs) /\ Len(k) \in Nat /\ Len(k) \in 1 .. Len(k)
  BY <1>1 DEF IsJoin
<1>3. k[Len(k)] = rs[Len(rs)]
  <2>1. Len(rs) \in 1 .. Len(rs)
    BY <1>1
  <2> QED
    BY <1>1, <1>2, <2>1 DEF IsJoin
<1>4. Len(k) \in Kept(k)
  BY <1>2, <1>3 DEF Kept, Torn
<1>5. Kept(k) \in SUBSET Nat /\ \A i \in Kept(k) : i <= Len(k)
  BY <1>2 DEF Kept
<1>6. Largest(Kept(k)) = Len(k)
  BY <1>4, <1>5, LargestIs
<1> QED
  BY <1>3, <1>4, <1>6, RedoableIs DEF k

LEMMA BookkeepingKeepsRedo ==
  ASSUME NEW l, IsLog(l), NEW e, e = Torn \/ e.kind \in Bookkeeping
  PROVE  Redoable(l \o <<e>>) = Redoable(l)
<1> DEFINE k == l \o <<e>>
<1>1. IsLog(<<e>>) /\ Len(<<e>>) = 1 /\ <<e>>[1] = e
  BY OneRecord
<1>2. e.kind \notin {"undo", "redo", "clear"}
  BY DEF Torn, Bookkeeping
<1>3. ActiveTombstones(k) = ActiveTombstones(l)
  <2>1. OfKind(<<e>>, {"undo"}) = {} /\ OfKind(<<e>>, {"redo"}) = {}
    BY <1>2, OfKindOne
  <2> QED
    BY <1>1, <2>1, SameHiding
<1>4. IsJoin(k, l, <<e>>) /\ Len(l) \in Nat
  BY <1>1, Joined, LogDomain
<1> HIDE DEF k
<1>5. /\ Len(k) = Len(l) + 1 /\ k[Len(l) + 1] = e
      /\ \A i \in 1 .. Len(l) : k[i] = l[i]
  <2>1. 1 \in 1 .. Len(<<e>>)
    BY <1>1
  <2> QED
    BY <1>1, <1>4, <2>1 DEF IsJoin
<1>6. Kept(k) = Kept(l)
  <2>1. \A i : i \in 1 .. Len(k) <=> i \in 1 .. Len(l) \/ i = Len(l) + 1
    BY <1>4, <1>5
  <2>2. Len(l) + 1 \notin 1 .. Len(l)
    BY <1>4
  <2> QED
    BY <1>5, <2>1, <2>2 DEF Kept
<1>7. CASE Kept(l) # {}
  <2>1. Kept(l) \in SUBSET Nat /\ \A i \in Kept(l) : i <= Len(l)
    BY <1>4 DEF Kept
  <2>2. Largest(Kept(l)) \in 1 .. Len(l)
    BY <1>4, <1>7, <2>1, LargestExists DEF Kept
  <2>3. k[Largest(Kept(l))] = l[Largest(Kept(l))]
    BY <1>5, <2>2
  <2> QED
    BY <1>3, <1>6, <2>3, RedoableIs DEF k
<1>8. CASE Kept(l) = {}
  BY <1>6, <1>8, RedoableIs DEF k
<1> QED
  BY <1>7, <1>8
-----------------------------------------------------------------------------
(* Each class of steps on the conversation.                                 *)

Said(l) == SeqsOf(Messages(l))
Undone(l, m) == ShownAfterRedo(l, m) \ Shown(l, m)

\* How a file k that continues l relates to it.
Dropped(l, k, m) ==
  /\ Said(k) = Said(l) /\ Shown(k, m) \subseteq Shown(l, m)
  /\ Undone(k, m) \subseteq Undone(l, m)

Cut(l, k, m) ==
  /\ Said(k) = Said(l) /\ Shown(k, m) \subseteq Shown(l, m)
  /\ Undone(k, m) = Shown(l, m) \ Shown(k, m)

Restored(l, k, m) ==
  /\ Said(k) = Said(l) /\ Undone(k, m) = {}
  /\ Shown(k, m) = Shown(l, m) \cup Undone(l, m)

LEMMA NoRedoNothingUndone ==
  ASSUME NEW l, NEW m, Redoable(l) = {}
  PROVE  Undone(l, m) = {}
BY DEF Undone, ShownAfterRedo

LEMMA SayingShows ==
  ASSUME NEW l, NEW n, NEW g, FileOK(l, n), RecordsOK(l, n, g), NEW rs, Fresh(rs, n),
         \A i \in 1 .. Len(rs) : rs[i].kind \in MessageKinds, Len(rs) # 0,
         NEW k, k = l \o rs, NEW m
  PROVE  /\ Said(l) \subseteq Said(k)
         /\ Shown(l, m) \subseteq Shown(k, m)
         /\ Shown(k, m) \ Shown(l, m) \subseteq Said(k) \ Said(l)
         /\ Undone(k, m) = {}
<1>1. IsLog(l) /\ IsLog(rs) /\ n \in Nat /\ Len(rs) \in Nat
  BY LogDomain DEF FileOK, Fresh
<1>2. /\ OfKind(rs, {"undo"}) = {} /\ OfKind(rs, {"redo"}) = {}
      /\ OfKind(rs, {"clear"}) = {}
  BY DEF OfKind, MessageKinds
<1>3. ActiveTombstones(k) = ActiveTombstones(l) /\ LastClear(k) = LastClear(l)
  BY <1>1, <1>2, SameHiding
<1>4. Messages(k) = Messages(l) \cup Messages(rs)
  BY <1>1, OfKindJoined DEF Messages
<1>5. \A x \in Messages(rs) : x.seq \in Nat /\ x.seq >= n
  <2>1. \A i \in 1 .. Len(rs) : rs[i].seq = n + i - 1
    BY DEF Fresh
  <2>2. \A i \in 1 .. Len(rs) : n + i - 1 \in Nat /\ n + i - 1 >= n
    BY <1>1
  <2> QED
    BY <2>1, <2>2 DEF Messages, OfKind
<1>6. \A x \in Messages(l) : x.seq \in Nat /\ x.seq < n
  BY MessageSound
<1>7. \A x \in Messages(l), y \in Messages(rs) : x.seq # y.seq
  <2>1. \A a, b \in Nat : a < n /\ b >= n => a # b
    BY <1>1
  <2> QED
    BY <1>5, <1>6, <2>1
<1>8. Said(l) \subseteq Said(k)
  BY <1>4 DEF Said, SeqsOf
<1> DEFINE Seen(x) == ~IsHidden(x.seq, ActiveTombstones(l)) /\ x.seq > LastClear(l) /\ Remembered(x, m)
<1>9. Shown(l, m) = {x.seq : x \in {y \in Messages(l) : Seen(y)}}
  BY ShownIs DEF ShownWith, SeqsOf
<1>10. Shown(k, m) = {x.seq : x \in {y \in Messages(k) : Seen(y)}}
  BY <1>3, ShownIs DEF ShownWith, SeqsOf
<1> HIDE DEF Seen
<1>11. Shown(l, m) \subseteq Shown(k, m)
  BY <1>4, <1>9, <1>10
<1>12. Shown(k, m) \ Shown(l, m) \subseteq Said(k) \ Said(l)
  BY <1>4, <1>7, <1>9, <1>10 DEF Said, SeqsOf
<1>13. Undone(k, m) = {}
  <2>1. Len(rs) \in 1 .. Len(rs)
    BY <1>1
  <2>2. rs[Len(rs)].kind \in MessageKinds
    BY <2>1
  <2>3. rs[Len(rs)].kind \notin Bookkeeping \cup {"torn"} /\ rs[Len(rs)].kind # "undo"
    BY <2>2 DEF MessageKinds, Bookkeeping
  <2>4. Redoable(k) = {rs[Len(rs)]} \cap ActiveTombstones(k)
    BY <1>1, <2>3, LastDecides
  <2>5. Redoable(k) = {}
    BY <2>3, <2>4 DEF ActiveTombstones, OfKind
  <2> QED
    BY <2>5, NoRedoNothingUndone
<1> QED
  BY <1>8, <1>11, <1>12, <1>13

\* Writing a redo of an active tombstone shows what it hid.
LEMMA RedoShows ==
  ASSUME NEW l, NEW n, NEW g, FileOK(l, n), RecordsOK(l, n, g),
         NEW t \in ActiveTombstones(l), NEW m
  PROVE  Shown(l \o <<RedoOf(n, t.seq)>>, m) =
           ShownWith(l, ActiveTombstones(l) \ {t}, m)
<1> DEFINE r == RedoOf(n, t.seq)
           k == l \o <<r>>
<1>1. IsLog(l) /\ IsLog(<<r>>) /\ r.kind = "redo" /\ r.cancels = t.seq
  BY OneRecord DEF FileOK, RedoOf
<1> HIDE DEF r
<1>2. /\ OfKind(<<r>>, {"undo"}) = {} /\ OfKind(<<r>>, {"redo"}) = {r}
      /\ OfKind(<<r>>, {"clear"}) = {} /\ OfKind(<<r>>, MessageKinds) = {}
  BY <1>1, OfKindOne DEF MessageKinds
<1>3. \A K : OfKind(k, K) = OfKind(l, K) \cup OfKind(<<r>>, K)
  BY <1>1, OfKindJoined
<1>4. /\ OfKind(k, {"undo"}) = OfKind(l, {"undo"})
      /\ OfKind(k, {"redo"}) = OfKind(l, {"redo"}) \cup {r}
      /\ OfKind(k, {"clear"}) = OfKind(l, {"clear"})
      /\ Messages(k) = Messages(l)
  BY <1>2, <1>3 DEF Messages
<1>5. \A u \in OfKind(l, {"undo"}) : u.seq = t.seq => u = t
  <2>1. t \in OfKind(l, {"undo"}) /\ "torn" \notin {"undo"}
    BY DEF ActiveTombstones
  <2> QED
    BY <2>1, MessagesIdentified
<1>6. ActiveTombstones(k) = ActiveTombstones(l) \ {t}
  BY <1>1, <1>4, <1>5 DEF ActiveTombstones
<1>7. LastClear(k) = LastClear(l)
  BY <1>4 DEF LastClear
<1> HIDE DEF k
<1>8. Shown(k, m) = ShownWith(l, ActiveTombstones(l) \ {t}, m)
  BY <1>4, <1>6, <1>7, ShownIs DEF ShownWith
<1> QED
  BY <1>8 DEF k, r

LEMMA UndoneIs ==
  ASSUME NEW l, NEW n, NEW g, FileOK(l, n), RecordsOK(l, n, g), NEW m
  PROVE  \A x : x \in ShownAfterRedo(l, m) <=>
           \E t \in Redoable(l) : x \in ShownWith(l, ActiveTombstones(l) \ {t}, m)
<1>1. NextSeq(l) = n /\ IsLog(l)
  BY CounterFound DEF FileOK
<1>2. \A t \in Redoable(l) : t \in ActiveTombstones(l)
  BY RedoableIs
<1>3. ASSUME NEW t \in Redoable(l)
      PROVE  Shown(Append(l, RedoOf(NextSeq(l), t.seq)), m) =
               ShownWith(l, ActiveTombstones(l) \ {t}, m)
  <2>1. Append(l, RedoOf(n, t.seq)) = l \o <<RedoOf(n, t.seq)>>
    BY <1>1, AppendedJoins
  <2> QED
    BY <1>1, <1>2, <2>1, RedoShows
<1> QED
  BY <1>3 DEF ShownAfterRedo

\* Records that are no messages, tombstones, redos or clears show the same.
LEMMA OtherShows ==
  ASSUME NEW l, IsLog(l), NEW e,
         e.kind \notin MessageKinds \cup {"undo", "redo", "clear"},
         NEW k, k = l \o <<e>>
  PROVE  /\ Messages(k) = Messages(l) /\ ActiveTombstones(k) = ActiveTombstones(l)
         /\ LastClear(k) = LastClear(l)
         /\ \A m : Shown(k, m) = Shown(l, m)
<1>1. IsLog(<<e>>)
  BY OneRecord
<1>2. /\ OfKind(<<e>>, {"undo"}) = {} /\ OfKind(<<e>>, {"redo"}) = {}
      /\ OfKind(<<e>>, {"clear"}) = {} /\ OfKind(<<e>>, MessageKinds) = {}
  BY OfKindOne
<1>3. Messages(k) = Messages(l)
  <2>1. OfKind(k, MessageKinds) = OfKind(l, MessageKinds) \cup OfKind(<<e>>, MessageKinds)
    BY <1>1, OfKindJoined
  <2> QED
    BY <1>2, <2>1 DEF Messages
<1>4. ActiveTombstones(k) = ActiveTombstones(l) /\ LastClear(k) = LastClear(l)
  BY <1>1, <1>2, SameHiding
<1> QED
  BY <1>3, <1>4, ShownIs DEF ShownWith

\* Bookkeeping, and a torn line, leave the conversation as it was.
LEMMA BookkeepingShows ==
  ASSUME NEW l, NEW n, NEW g, FileOK(l, n), RecordsOK(l, n, g),
         NEW e, e = Torn \/ e.kind \in Bookkeeping, NEW k, k = l \o <<e>>,
         NEW o, NEW h, FileOK(k, o), RecordsOK(k, o, h)
  PROVE  /\ Said(k) = Said(l)
         /\ \A m : Shown(k, m) = Shown(l, m) /\ Undone(k, m) = Undone(l, m)
<1>1. IsLog(l) /\ e.kind \notin MessageKinds \cup {"undo", "redo", "clear"}
  BY DEF FileOK, Torn, Bookkeeping, MessageKinds
<1>2. /\ Messages(k) = Messages(l) /\ ActiveTombstones(k) = ActiveTombstones(l)
      /\ LastClear(k) = LastClear(l)
      /\ \A m : Shown(k, m) = Shown(l, m)
  BY <1>1, OtherShows
<1>3. Redoable(k) = Redoable(l)
  BY <1>1, BookkeepingKeepsRedo
<1>4. \A T, m : ShownWith(k, T, m) = ShownWith(l, T, m)
  BY <1>2 DEF ShownWith
<1>5. ASSUME NEW m
      PROVE  ShownAfterRedo(k, m) = ShownAfterRedo(l, m)
  <2>1. \A x : x \in ShownAfterRedo(l, m) <=>
          \E t \in Redoable(l) : x \in ShownWith(l, ActiveTombstones(l) \ {t}, m)
    BY UndoneIs
  <2>2. \A x : x \in ShownAfterRedo(k, m) <=>
          \E t \in Redoable(k) : x \in ShownWith(k, ActiveTombstones(k) \ {t}, m)
    BY UndoneIs, Zenon
  <2>3. \A t : ShownWith(k, ActiveTombstones(k) \ {t}, m) =
              ShownWith(l, ActiveTombstones(l) \ {t}, m)
    BY <1>2, <1>4
  <2>4. \A x : x \in ShownAfterRedo(k, m) <=> x \in ShownAfterRedo(l, m)
    BY <1>3, <2>1, <2>2, <2>3
  <2> DEFINE A == ShownAfterRedo(k, m)
             B == ShownAfterRedo(l, m)
  <2>5. \A x : x \in A <=> x \in B
    BY <2>4
  <2> HIDE DEF A, B
  <2>6. A = B
    BY <2>5
  <2> QED
    BY <2>6 DEF A, B
<1> QED
  BY <1>2, <1>5 DEF Said, Undone

LEMMA MarkShows ==
  ASSUME NEW l, NEW n, NEW g, FileOK(l, n), RecordsOK(l, n, g),
         NEW e, e.kind \in MarkKinds,
         e.seq = n, NEW k, k = l \o <<e>>, NEW m,
         NEW o, NEW h, FileOK(k, o), RecordsOK(k, o, h)
  PROVE  Dropped(l, k, m)
<1>0. IsLog(l) /\ IsLog(<<e>>) /\ Len(<<e>>) = 1 /\ <<e>>[1] = e
  BY OneRecord DEF FileOK
<1> DEFINE Goal == Said(k) = Said(l) /\ Shown(k, m) \subseteq Shown(l, m) /\ Undone(k, m) \subseteq Undone(l, m)
<1>1. ASSUME e.kind \in {"provider_usage", "memory_usage"}
      PROVE  Goal
  BY <1>1, BookkeepingShows DEF Bookkeeping
<1>2. ASSUME e.kind \in {"event", "worker", "clear", "compact"}
      PROVE  Goal
  <2>1. Undone(k, m) = {}
    <3>1. e.kind \notin Bookkeeping \cup {"torn"} /\ e.kind # "undo"
      BY <1>2 DEF Bookkeeping
    <3>2. Redoable(k) = {e} \cap ActiveTombstones(k)
      <4> DEFINE rs == <<e>>
      <4>1. IsLog(rs) /\ Len(rs) # 0 /\ rs[Len(rs)] = e /\ k = l \o rs
        BY <1>0
      <4> HIDE DEF rs
      <4>2. rs[Len(rs)].kind \notin Bookkeeping \cup {"torn"}
        BY <3>1, <4>1
      <4>3. Redoable(l \o rs) = {rs[Len(rs)]} \cap ActiveTombstones(l \o rs)
        BY <1>0, <4>1, <4>2, LastDecides
      <4> QED
        BY <4>1, <4>3
    <3>3. Redoable(k) = {}
      BY <3>1, <3>2 DEF ActiveTombstones, OfKind
    <3> QED
      BY <3>3, NoRedoNothingUndone
  <2>2. CASE e.kind # "clear"
    <3>1. e.kind \notin MessageKinds \cup {"undo", "redo", "clear"}
      BY <1>2, <2>2 DEF MessageKinds
    <3> QED
      BY <1>0, <2>1, <3>1, OtherShows DEF Said
  <2>3. CASE e.kind = "clear"
    <3>1. /\ OfKind(<<e>>, {"undo"}) = {} /\ OfKind(<<e>>, {"redo"}) = {}
          /\ OfKind(<<e>>, {"clear"}) = {e} /\ OfKind(<<e>>, MessageKinds) = {}
      BY <2>3, OfKindOne DEF MessageKinds
    <3>2. Messages(k) = Messages(l)
      <4>1. OfKind(k, MessageKinds) = OfKind(l, MessageKinds) \cup OfKind(<<e>>, MessageKinds)
        BY <1>0, OfKindJoined
      <4> QED
        BY <3>1, <4>1 DEF Messages
    <3>3. ActiveTombstones(k) = ActiveTombstones(l)
      BY <1>0, <3>1, SameHiding
    <3>4. n \in Nat /\ \A x \in Messages(l) : x.seq \in Nat /\ x.seq < n
      BY MessageSound DEF FileOK
    <3>5. \A x \in Messages(l) : ~(x.seq > LastClear(k))
      <4>1. LastClear(k) = n
        <5> DEFINE T == {0} \cup SeqsOf(OfKind(k, {"clear"}))
        <5>1. OfKind(k, {"clear"}) = OfKind(l, {"clear"}) \cup {e}
          BY <1>0, <3>1, OfKindJoined
        <5>2. \A c \in OfKind(l, {"clear"}) : c.seq \in Nat /\ c.seq < n
          <6>1. \A c \in OfKind(l, {"clear"}) : c # Torn /\ \E i \in 1 .. Len(l) : l[i] = c
            BY DEF OfKind, Torn
          <6> QED
            BY <6>1 DEF FileOK
        <5>3. n \in T /\ T \in SUBSET Nat /\ \A s \in T : s <= n
          BY <3>4, <5>1, <5>2 DEF SeqsOf
        <5> HIDE DEF T
        <5>4. Largest(T) = n
          BY <5>3, LargestIs
        <5> QED
          BY <5>4 DEF T, LastClear
      <4> QED
        BY <3>4, <4>1
    <3>6. Shown(k, m) = {}
      BY <3>2, <3>5, ShownIs DEF ShownWith, SeqsOf
    <3> QED
      BY <2>1, <3>2, <3>6 DEF Said
  <2> QED
    BY <2>2, <2>3
<1>3. Goal
  BY <1>1, <1>2 DEF MarkKinds
<1> QED
  BY <1>3 DEF Dropped

LEMMA ForgettingShows ==
  ASSUME NEW l, NEW n, NEW g \in Nat, FileOK(l, n), RecordsOK(l, n, g),
         NEW m, NEW o, m.generation = g, o.generation = g + 1,
         m.excluded \subseteq o.excluded
  PROVE  Shown(l, o) \subseteq Shown(l, m) /\ Undone(l, o) \subseteq Undone(l, m)
<1>1. ASSUME NEW x \in Messages(l), Remembered(x, o)
      PROVE  Remembered(x, m)
  <2>1. x.gen = None \/ (x.gen \in Nat /\ x.gen <= g)
    BY MessageSound
  <2>2. Epoch(x) # g + 1
    <3>1. \A y \in Nat : y <= g => y # g + 1
      OBVIOUS
    <3>2. 0 # g + 1
      OBVIOUS
    <3> QED
      BY <2>1, <3>1, <3>2 DEF Epoch
  <2> QED
    BY <1>1, <2>2 DEF Remembered
<1>2. \A T : ShownWith(l, T, o) \subseteq ShownWith(l, T, m)
  BY <1>1 DEF ShownWith, SeqsOf
<1>3. Shown(l, o) \subseteq Shown(l, m)
  BY <1>2, ShownIs
<1>4. ASSUME NEW s \in Undone(l, o)
      PROVE  s \in Undone(l, m)
  <2>1. s \in ShownAfterRedo(l, o) /\ s \notin Shown(l, o)
    BY DEF Undone
  <2>2. PICK t \in Redoable(l) : s \in ShownWith(l, ActiveTombstones(l) \ {t}, o)
    BY <2>1, UndoneIs
  <2>3. s \in ShownWith(l, ActiveTombstones(l) \ {t}, m)
    BY <1>2, <2>2
  <2>4. s \in ShownAfterRedo(l, m)
    BY <2>3, UndoneIs
  <2>5. s \notin Shown(l, m)
    <3> SUFFICES ASSUME s \in Shown(l, m)
                 PROVE  FALSE
      OBVIOUS
    <3>1. PICK x \in Messages(l) : /\ x.seq = s /\ x.seq > LastClear(l)
                                   /\ ~IsHidden(x.seq, ActiveTombstones(l))
      BY ShownIs DEF ShownWith, SeqsOf
    <3>2. PICK y \in Messages(l) : y.seq = s /\ Remembered(y, o)
      BY <2>2 DEF ShownWith, SeqsOf
    <3>3. x = y
      <4>1. "torn" \notin MessageKinds
        BY DEF MessageKinds
      <4> QED
        BY <3>1, <3>2, <4>1, MessagesIdentified DEF Messages
    <3>4. s \in ShownWith(l, ActiveTombstones(l), o)
      BY <3>1, <3>2, <3>3 DEF ShownWith, SeqsOf
    <3> QED
      BY <2>1, <3>4, ShownIs
  <2> QED
    BY <2>4, <2>5 DEF Undone
<1> QED
  BY <1>3, <1>4

\* A redo right after a tombstone brings back what the tombstone hid.
LEMMA CuttingShows ==
  ASSUME NEW l, NEW n, NEW g, FileOK(l, n), RecordsOK(l, n, g),
         NEW t, t.kind = "undo", NEW rs,
         \/ rs = <<t>> /\ t.seq = n
         \/ \E e : rs = <<e, t>> /\ e.kind = "event" /\ t.seq = n + 1,
         NEW k, k = l \o rs, NEW o, NEW h, FileOK(k, o), RecordsOK(k, o, h), NEW m
  PROVE  Cut(l, k, m)
<1>1. IsLog(l) /\ IsLog(rs) /\ Len(rs) # 0 /\ rs[Len(rs)] = t /\ n \in Nat
  <2>1. IsLog(l) /\ n \in Nat
    BY DEF FileOK
  <2>2. CASE rs = <<t>>
    <3>1. IsLog(rs) /\ Len(rs) = 1 /\ rs[1] = t
      BY <2>2, OneRecord
    <3> QED
      BY <2>1, <3>1
  <2>3. CASE \E e : rs = <<e, t>>
    <3>1. IsLog(rs) /\ Len(rs) = 2 /\ rs[2] = t
      BY <2>3, TwoRecords
    <3> QED
      BY <2>1, <3>1
  <2> QED
    BY <2>2, <2>3
<1>2. /\ OfKind(rs, {"undo"}) = {t} /\ OfKind(rs, {"redo"}) = {}
      /\ OfKind(rs, {"clear"}) = {} /\ OfKind(rs, MessageKinds) = {}
  <2>1. CASE rs = <<t>>
    BY <2>1, OfKindOne DEF MessageKinds
  <2>2. CASE \E e : rs = <<e, t>> /\ e.kind = "event"
    <3>1. PICK e : rs = <<e, t>> /\ e.kind = "event"
      BY <2>2
    <3>2. Len(rs) = 2 /\ rs[1] = e /\ rs[2] = t
      BY <3>1, TwoRecords
    <3>3. \A i : i \in 1 .. Len(rs) <=> i = 1 \/ i = 2
      BY <3>2
    <3>4. ASSUME NEW K, NEW r
          PROVE  r \in OfKind(rs, K) <=> (r.kind \in K /\ (r = e \/ r = t))
      <4>1. r \in OfKind(rs, K) <=> \E i \in 1 .. Len(rs) : rs[i] = r /\ r.kind \in K
        BY OfKindIs
      <4> QED
        BY <3>2, <3>3, <4>1
    <3>5. \A r : ~(r \in OfKind(rs, {"redo"})) /\ ~(r \in OfKind(rs, {"clear"}))
                 /\ ~(r \in OfKind(rs, MessageKinds))
      BY <3>1, <3>4 DEF MessageKinds
    <3>6. \A r : r \in OfKind(rs, {"undo"}) <=> r = t
      BY <3>1, <3>4
    <3>7. OfKind(rs, {"undo"}) = {t}
      BY <3>6
    <3> QED
      BY <3>5, <3>7
  <2> QED
    BY <2>1, <2>2
<1>3. t.seq \in Nat /\ t.seq >= n
  BY <1>1
<1>4. \A K : OfKind(k, K) = OfKind(l, K) \cup OfKind(rs, K)
  BY <1>1, OfKindJoined
<1>5. /\ OfKind(k, {"undo"}) = OfKind(l, {"undo"}) \cup {t}
      /\ OfKind(k, {"redo"}) = OfKind(l, {"redo"})
      /\ OfKind(k, {"clear"}) = OfKind(l, {"clear"})
      /\ Messages(k) = Messages(l)
  BY <1>2, <1>4 DEF Messages
<1>6. \A r \in OfKind(l, {"redo"}) : r.cancels # t.seq
  <2>1. \A r \in OfKind(l, {"redo"}) : r.cancels \in Nat /\ r.cancels < n
    BY DEF OfKind, RecordsOK, Sound
  <2>2. \A a, b \in Nat : a < n /\ b >= n => a # b
    BY <1>1
  <2> QED
    BY <1>3, <2>1, <2>2
<1>7. \A u \in OfKind(l, {"undo"}) : u # t
  <2>1. \A u \in OfKind(l, {"undo"}) : u # Torn /\ \E i \in 1 .. Len(l) : l[i] = u
    BY DEF OfKind, Torn
  <2>2. \A u \in OfKind(l, {"undo"}) : u.seq \in Nat /\ u.seq < n
    BY <2>1 DEF FileOK
  <2>3. \A a, b \in Nat : a < n /\ b >= n => a # b
    BY <1>1
  <2> QED
    BY <1>3, <2>2, <2>3
<1>8. ActiveTombstones(k) = ActiveTombstones(l) \cup {t} /\ t \notin ActiveTombstones(l)
  BY <1>5, <1>6, <1>7 DEF ActiveTombstones
<1>9. LastClear(k) = LastClear(l)
  BY <1>5 DEF LastClear
<1>10. \A T : ShownWith(k, T, m) = ShownWith(l, T, m)
  BY <1>5, <1>9 DEF ShownWith
<1>11. Redoable(k) = {t}
  <2>1. rs[Len(rs)].kind \notin Bookkeeping \cup {"torn"}
    BY <1>1 DEF Bookkeeping
  <2>2. Redoable(l \o rs) = {rs[Len(rs)]} \cap ActiveTombstones(l \o rs)
    BY <1>1, <2>1, LastDecides
  <2> QED
    BY <1>1, <1>8, <2>2
<1>12. ActiveTombstones(k) \ {t} = ActiveTombstones(l)
  BY <1>8
<1>13. \A x : x \in ShownAfterRedo(k, m) <=> x \in Shown(l, m)
  <2>1. \A x : x \in ShownAfterRedo(k, m) <=>
          \E u \in Redoable(k) : x \in ShownWith(k, ActiveTombstones(k) \ {u}, m)
    BY UndoneIs, Zenon
  <2>2. ShownWith(k, ActiveTombstones(k) \ {t}, m) = Shown(l, m)
    BY <1>10, <1>12, ShownIs
  <2> QED
    BY <1>11, <2>1, <2>2
<1>14. Shown(k, m) \subseteq Shown(l, m)
  <2>1. ActiveTombstones(l) \subseteq ActiveTombstones(k)
    BY <1>8
  <2>2. ShownWith(l, ActiveTombstones(k), m) \subseteq ShownWith(l, ActiveTombstones(l), m)
    BY <2>1, FewerTombstonesShowMore
  <2> QED
    BY <1>10, <2>2, ShownIs
<1> QED
  BY <1>5, <1>13, <1>14 DEF Said, Undone, Cut

LEMMA RedoingShows ==
  ASSUME NEW l, NEW n, NEW g, FileOK(l, n), RecordsOK(l, n, g),
         NEW t \in Redoable(l), NEW k, k = l \o <<RedoOf(n, t.seq)>>, NEW m
  PROVE  Restored(l, k, m)
<1> DEFINE r == RedoOf(n, t.seq)
<1>1. /\ IsLog(l) /\ IsLog(<<r>>) /\ r.kind = "redo"
      /\ Len(<<r>>) = 1 /\ <<r>>[1] = r /\ k = l \o <<r>>
  BY OneRecord DEF FileOK, RedoOf
<1>2. t \in ActiveTombstones(l) /\ Redoable(l) = {t}
  BY RedoableIs
<1>3. Shown(k, m) = ShownWith(l, ActiveTombstones(l) \ {t}, m)
  BY <1>2, RedoShows
<1> HIDE DEF r
<1>4. \A x : x \in ShownAfterRedo(l, m) <=> x \in Shown(k, m)
  <2>1. \A x : x \in ShownAfterRedo(l, m) <=>
          \E u \in Redoable(l) : x \in ShownWith(l, ActiveTombstones(l) \ {u}, m)
    BY UndoneIs, Zenon
  <2> QED
    BY <1>2, <1>3, <2>1
<1>5. Shown(l, m) \subseteq Shown(k, m)
  <2>1. ActiveTombstones(l) \ {t} \subseteq ActiveTombstones(l)
    OBVIOUS
  <2>2. ShownWith(l, ActiveTombstones(l), m) \subseteq ShownWith(l, ActiveTombstones(l) \ {t}, m)
    BY <2>1, FewerTombstonesShowMore
  <2> QED
    BY <1>3, <2>2, ShownIs
<1>6. Messages(k) = Messages(l)
  <2>1. OfKind(<<r>>, MessageKinds) = {}
    BY <1>1, OfKindOne DEF MessageKinds
  <2>2. OfKind(k, MessageKinds) = OfKind(l, MessageKinds) \cup OfKind(<<r>>, MessageKinds)
    BY <1>1, OfKindJoined
  <2> QED
    BY <2>1, <2>2 DEF Messages
<1>7. Undone(k, m) = {}
  <2> DEFINE rs == <<r>>
  <2>1. IsLog(rs) /\ Len(rs) # 0 /\ rs[Len(rs)] = r /\ k = l \o rs
    BY <1>1
  <2> HIDE DEF rs
  <2>2. rs[Len(rs)].kind \notin Bookkeeping \cup {"torn"}
    BY <1>1, <2>1 DEF Bookkeeping
  <2>3. Redoable(l \o rs) = {rs[Len(rs)]} \cap ActiveTombstones(l \o rs)
    BY <1>1, <2>1, <2>2, LastDecides
  <2>4. Redoable(k) = {}
    BY <1>1, <2>1, <2>3 DEF ActiveTombstones, OfKind
  <2> QED
    BY <2>4, NoRedoNothingUndone
<1> QED
  BY <1>4, <1>5, <1>6, <1>7 DEF Said, Undone, Restored
-----------------------------------------------------------------------------
(* The session file implements Conversation.                                *)

WatchInv == said = Said(log) /\ shown = Shown(log, mem) /\ undone = Undone(log, mem)

ConversationStep ==
  \/ TheConversation!Next
  \/ UNCHANGED <<said, shown, undone>>

LEMMA ClassesConverse ==
  ASSUME SessionInv, SessionInv', WatchInv, WatchInv',
         \/ \E rs : Says(rs)
         \/ \E e : Marks(e)
         \/ Forgets
         \/ CutsBack
         \/ Redoes
         \/ Tears
  PROVE  ConversationStep
<1> DEFINE n == next
           g == mem.generation
           h == mem.generation'
           l == log
           k == log'
           o == next'
<1>0. /\ FileOK(l, n) /\ RecordsOK(l, n, g) /\ FileOK(k, o) /\ RecordsOK(k, o, h)
      /\ IsLog(l) /\ g \in Nat
  BY DEF SessionInv, FileOK, MemOK
<1>v. /\ said = Said(l) /\ shown = Shown(l, mem) /\ undone = Undone(l, mem)
      /\ said' = Said(k) /\ shown' = Shown(k, mem') /\ undone' = Undone(k, mem')
  BY DEF WatchInv
<1>1. ASSUME NEW rs, Says(rs)
      PROVE  ConversationStep
  <2>1. /\ Fresh(rs, n) /\ k = l \o rs /\ UNCHANGED mem
        /\ \A i \in 1 .. Len(rs) : rs[i].kind \in MessageKinds
    BY <1>1 DEF Says, Grows
  <2>2. CASE Len(rs) = 0
    <3>1. rs = <<>>
      BY <2>1, <2>2, EmptySeq DEF Fresh, IsLog
    <3>2. k = l
      <4>1. PICK S : l \in Seq(S)
        BY <1>0 DEF IsLog
      <4> QED
        BY <2>1, <3>1, <4>1, ConcatEmptySeq
    <3> QED
      BY <1>v, <2>1, <3>2 DEF ConversationStep
  <2>3. CASE Len(rs) # 0
    <3> HIDE DEF l, k, n, g, o, h
    <3>1. /\ Said(l) \subseteq Said(k)
          /\ Shown(l, mem) \subseteq Shown(k, mem)
          /\ Shown(k, mem) \ Shown(l, mem) \subseteq Said(k) \ Said(l)
          /\ Undone(k, mem) = {}
      BY <1>0, <2>1, <2>3, SayingShows
    <3>2. TheConversation!Say
      BY <1>v, <2>1, <3>1 DEF TheConversation!Say
    <3> QED
      BY <3>2 DEF ConversationStep, TheConversation!Next
  <2> QED
    BY <2>2, <2>3
<1>2. ASSUME NEW e, Marks(e)
      PROVE  ConversationStep
  <2>1. /\ k = l \o <<e>> /\ UNCHANGED mem /\ e.seq = n
        /\ e.kind \in MarkKinds
    BY <1>2 DEF Marks, Grows
  <2> HIDE DEF l, k, n, g, o, h
  <2>2. Dropped(l, k, mem)
    BY <1>0, <2>1, MarkShows
  <2>3. TheConversation!Drop
    BY <1>v, <2>1, <2>2 DEF TheConversation!Drop, Dropped
  <2> QED
    BY <2>3 DEF ConversationStep, TheConversation!Next
<1>3. CASE Forgets
  <2>1. /\ mem.generation = g /\ mem'.generation = g + 1 /\ mem.excluded \subseteq mem'.excluded
    BY <1>3 DEF Forgets
  <2>2. /\ Said(k) = Said(l)
        /\ Shown(k, mem') = Shown(l, mem') /\ Undone(k, mem') = Undone(l, mem')
    <3>1. CASE Grows(<<>>)
      <4>1. k = l
        <5>1. PICK S : l \in Seq(S)
          BY <1>0 DEF IsLog
        <5> QED
          BY <3>1, <5>1, ConcatEmptySeq DEF Grows
      <4> HIDE DEF l, k
      <4> QED
        BY <4>1
    <3>2. CASE Grows(<<Event("forget", next)>>)
      <4> DEFINE e == Event("forget", next)
      <4>1. k = l \o <<e>> /\ e.kind \in Bookkeeping
        BY <3>2 DEF Grows, Event, Bookkeeping
      <4> HIDE DEF e, l, k, n, g, o, h
      <4> QED
        BY <1>0, <4>1, BookkeepingShows
    <3> QED
      BY <1>3, <3>1, <3>2 DEF Forgets
  <2> HIDE DEF l, k, n, g, o, h
  <2>3. Shown(l, mem') \subseteq Shown(l, mem) /\ Undone(l, mem') \subseteq Undone(l, mem)
    BY <1>0, <2>1, ForgettingShows
  <2>4. TheConversation!Drop
    BY <1>v, <2>2, <2>3 DEF TheConversation!Drop
  <2> QED
    BY <2>4 DEF ConversationStep, TheConversation!Next
<1>4. CASE CutsBack
  <2>1. PICK upto \in Nat :
          \/ Grows(<<Tombstone(next, upto)>>)
          \/ Grows(<<Event("event", next), Tombstone(next + 1, upto)>>)
    BY <1>4 DEF CutsBack
  <2>2. UNCHANGED mem
    BY <1>4 DEF CutsBack
  <2>3. \E t, rs : /\ k = l \o rs /\ t.kind = "undo"
                   /\ \/ rs = <<t>> /\ t.seq = n
                      \/ \E e : rs = <<e, t>> /\ e.kind = "event" /\ t.seq = n + 1
    <3>1. CASE Grows(<<Tombstone(next, upto)>>)
      <4> DEFINE t == Tombstone(next, upto)
      <4>1. k = l \o <<t>> /\ t.kind = "undo" /\ t.seq = n
        BY <3>1 DEF Grows, Tombstone
      <4> HIDE DEF t, k, l, n
      <4> QED
        BY <4>1
    <3>2. CASE Grows(<<Event("event", next), Tombstone(next + 1, upto)>>)
      <4> DEFINE t == Tombstone(next + 1, upto)
                 e == Event("event", next)
      <4>1. k = l \o <<e, t>> /\ t.kind = "undo" /\ t.seq = n + 1 /\ e.kind = "event"
        BY <3>2 DEF Grows, Tombstone, Event
      <4> HIDE DEF t, e, k, l, n
      <4> QED
        BY <4>1
    <3> QED
      BY <2>1, <3>1, <3>2
  <2> HIDE DEF l, k, n, g, o, h
  <2>4. PICK t, rs : /\ k = l \o rs /\ t.kind = "undo"
                     /\ \/ rs = <<t>> /\ t.seq = n
                        \/ \E e : rs = <<e, t>> /\ e.kind = "event" /\ t.seq = n + 1
    BY <2>3
  <2>5. Cut(l, k, mem)
    BY <1>0, <2>4, CuttingShows
  <2>6. TheConversation!CutBack
    BY <1>v, <2>2, <2>5 DEF TheConversation!CutBack, Cut
  <2> QED
    BY <2>6 DEF ConversationStep, TheConversation!Next
<1>5. CASE Redoes
  <2>1. PICK t \in Redoable(l) : k = l \o <<RedoOf(n, t.seq)>>
    BY <1>5 DEF Redoes, Grows
  <2>2. UNCHANGED mem
    BY <1>5 DEF Redoes
  <2> HIDE DEF l, k, n, g, o, h
  <2>3. Restored(l, k, mem)
    BY <1>0, <2>1, RedoingShows
  <2>4. TheConversation!Restore
    BY <1>v, <2>2, <2>3 DEF TheConversation!Restore, Restored
  <2> QED
    BY <2>4 DEF ConversationStep, TheConversation!Next
<1>6. CASE Tears
  <2>1. k = l \o <<Torn>> /\ UNCHANGED mem
    BY <1>6 DEF Tears
  <2> HIDE DEF l, k, n, g, o, h
  <2>2. Said(k) = Said(l) /\ Shown(k, mem) = Shown(l, mem) /\ Undone(k, mem) = Undone(l, mem)
    BY <1>0, <2>1, BookkeepingShows
  <2> QED
    BY <1>v, <2>1, <2>2 DEF ConversationStep
<1> QED
  BY <1>1, <1>2, <1>3, <1>4, <1>5, <1>6

\* Whatever the processes that share the session file do: what was undone comes
\* back by a redo that follows at once, what was cleared or forgotten never
\* does, and a message that is shown stays so until a command hides it.
THEOREM FileImplementsConversation == WatchedSpec => ImplementsConversation
<1>1. WatchedSpec => Spec
  <2>1. [Next /\ Watch]_watched => [Next]_vars
    BY DEF watched, vars
  <2> QED
    BY <2>1, PTL DEF WatchedSpec, Spec
<1>2. Init /\ said = {} /\ shown = {} /\ undone = {} => WatchInv /\ TheConversation!Init
  <2> SUFFICES ASSUME Init, said = {}, shown = {}, undone = {}
               PROVE  WatchInv /\ TheConversation!Init
    OBVIOUS
  <2>1. log = <<>> /\ Len(log) = 0
    BY EmptyLog DEF Init
  <2>2. \A K : OfKind(log, K) = {}
    BY <2>1 DEF OfKind
  <2>3. Said(log) = {} /\ Shown(log, mem) = {}
    BY <2>2 DEF Said, SeqsOf, Shown, VisibleMessages, Structure, LoadMessages, Messages
  <2>4. Redoable(log) = {}
    BY <2>1, RedoableIs DEF Kept
  <2>5. Undone(log, mem) = {}
    BY <2>4, NoRedoNothingUndone
  <2> QED
    BY <2>3, <2>5 DEF WatchInv, TheConversation!Init
<1>3. ASSUME SessionInv, SessionInv', WatchInv, [Next /\ Watch]_watched
      PROVE  WatchInv' /\ [TheConversation!Next]_<<said, shown, undone>>
  <2>1. CASE UNCHANGED watched
    BY <1>3, <2>1 DEF watched, WatchInv
  <2>2. CASE Next /\ Watch
    <3>1. WatchInv'
      BY <2>2 DEF Watch, WatchInv, Said, Undone
    <3>2. \/ \E rs : Says(rs)
          \/ \E e : Marks(e)
          \/ Forgets
          \/ CutsBack
          \/ Redoes
          \/ Tears
      <4>1. CASE TurnStep
        BY <1>3, <4>1, TurnStepClass
      <4>2. CASE Command
        BY <1>3, <4>2, CommandClass
      <4>3. CASE Crash
        BY <1>3, <4>3, CrashClass
      <4>4. CASE \E c \in Compactors : CompactBegins(c)
        BY <1>3, <4>4, Silent DEF CompactBegins
      <4>5. CASE \E c \in Compactors : CompactEnds(c) \/ CompactFails(c)
        BY <1>3, <4>5, CompactEndClass
      <4> QED
        BY <2>2, <4>1, <4>2, <4>3, <4>4, <4>5 DEF Next
    <3>3. ConversationStep
      BY <1>3, <3>1, <3>2, ClassesConverse
    <3> QED
      BY <3>1, <3>3 DEF ConversationStep
  <2> QED
    BY <1>3, <2>1, <2>2
<1> QED
  BY <1>1, <1>2, <1>3, SessionInvHolds, PTL
  DEF WatchedSpec, ImplementsConversation, TheConversation!Spec
-----------------------------------------------------------------------------
(* Nothing generated from a forgotten message is shown.  The invariant      *)
(* follows what generated text was computed from: through the request of a  *)
(* turn and its tools, and through a summary while it is being computed and *)
(* once it is recorded.                                                     *)

LineageOf(l, refs) == Lineage({x \in Messages(l) : x.seq \in refs})

\* What a text of the current generation was computed from is remembered, and
\* a text without a generation was not generated.
Clean(x) ==
  /\ x.gen = None => x.from = {}
  /\ x.gen = mem.generation => x.from \cap mem.excluded = {}

ExcludedInv ==
  /\ mem.generation = 0 => mem.excluded = {}
  /\ \A s \in mem.excluded : s < next

TurnLineage ==
  Running({"model", "tools"}) /\ turn.gen = mem.generation
    => turn.base \cap mem.excluded = {}

PlanLineage ==
  \A k \in Compactors :
    compacting[k] # NoPlan =>
      compacting[k].plan.from \subseteq LineageOf(log, compacting[k].plan.refs)

LineageInv ==
  /\ ExcludedInv
  /\ \A x \in Messages(log) : Clean(x)
  /\ \A c \in OfKind(log, {"compact"}) : c.from \subseteq LineageOf(log, c.refs)
  /\ TurnLineage /\ PlanLineage

LEMMA VisibleIsRemembered ==
  ASSUME SessionInv, LineageInv, NEW x \in VisibleMessages(log, mem)
  PROVE  x.seq \notin mem.excluded /\ x.from \cap mem.excluded = {}
<1>1. x \in Messages(log) /\ Remembered(x, mem)
  BY ReplayShows DEF VisibleMessages
<1>2. Clean(x)
  BY <1>1 DEF LineageInv
<1>3. CASE x.gen = None
  BY <1>1, <1>2, <1>3 DEF Clean, Remembered
<1>4. CASE x.gen # None
  BY <1>1, <1>2, <1>4 DEF Clean, Remembered, Epoch
<1> QED
  BY <1>3, <1>4

LEMMA NothingForgottenShown ==
  ASSUME SessionInv, LineageInv
  PROVE  NoForgottenContent
<1>0. FileOK(log, next) /\ RecordsOK(log, next, mem.generation)
  BY DEF SessionInv
<1> DEFINE view == View(log, mem)
           raw == view.raw
           sums == view.summary
<1>1. \A x \in raw : x.seq \notin mem.excluded /\ x.from \cap mem.excluded = {}
  BY ReplayShows, VisibleIsRemembered
<1>2. ASSUME NEW c \in sums
      PROVE  c.from \cap mem.excluded = {}
  <2>1. sums = WorkingSummary(log, mem) /\ c \in OfKind(log, {"compact"})
    BY ReplayShows
  <2>2. c.refs \subseteq Vis(log, mem)
    BY <2>1 DEF WorkingSummary, Vis
  <2>3. c.from \subseteq LineageOf(log, c.refs)
    BY <2>1 DEF LineageInv
  <2>4. ASSUME NEW x \in Messages(log), x.seq \in c.refs
        PROVE  x.seq \notin mem.excluded /\ x.from \cap mem.excluded = {}
    <3>1. PICK y \in VisibleMessages(log, mem) : y.seq = x.seq
      BY <2>2, <2>4 DEF Vis, SeqsOf
    <3>2. y \in Messages(log)
      BY ReplayShows
    <3>3. "torn" \notin MessageKinds
      BY DEF MessageKinds
    <3>4. x = y
      BY <1>0, <3>1, <3>2, <3>3, MessagesIdentified DEF Messages
    <3> QED
      BY <3>4, VisibleIsRemembered
  <2>5. LineageOf(log, c.refs) \cap mem.excluded = {}
    BY <2>4 DEF LineageOf, Lineage, SeqsOf
  <2> QED
    BY <2>3, <2>5
<1>3. ViewLineage(view) = (UNION {c.from : c \in sums}) \cup Lineage(raw)
  BY DEF ViewLineage
<1>4. Lineage(raw) \cap mem.excluded = {}
  BY <1>1 DEF Lineage, SeqsOf
<1> DEFINE U == UNION {c.from : c \in sums}
           L == Lineage(raw)
           A == ViewLineage(view)
<1>5. U \cap mem.excluded = {}
  BY <1>2
<1>6. A = U \cup L /\ L \cap mem.excluded = {}
  BY <1>3, <1>4
<1> HIDE DEF U, L, A
<1>7. A \cap mem.excluded = {}
  BY <1>5, <1>6
<1> QED
  BY <1>7 DEF NoForgottenContent, A

\* Where a message written by a turn comes from.
Derived(x) ==
  \/ x.from = {}
  \/ Running({"model", "tools"}) /\ x.gen = turn.gen /\ x.from = turn.base
  \/ /\ Running(Phases) /\ x.gen = turn.gen
     /\ \E c \in Messages(log) : c.gen = mem.generation /\ x.from = c.from

New(r) == r.kind # "compact" /\ (r.kind \in MessageKinds => Derived(r))

LEMMA DerivedIsClean ==
  ASSUME SessionInv, LineageInv, NEW x, Derived(x)
  PROVE  Clean(x)
<1>1. CASE x.from = {}
  BY <1>1 DEF Clean
<1>2. CASE Running({"model", "tools"}) /\ x.gen = turn.gen /\ x.from = turn.base
  <2>1. x.gen # None
    BY <1>2, SessionLogAssumption DEF SessionInv, TurnOK, Running
  <2> QED
    BY <1>2, <2>1 DEF Clean, LineageInv, TurnLineage
<1>3. CASE /\ Running(Phases) /\ x.gen = turn.gen
           /\ \E c \in Messages(log) : c.gen = mem.generation /\ x.from = c.from
  <2>1. x.gen # None
    BY <1>3, SessionLogAssumption DEF SessionInv, TurnOK, Running
  <2>2. PICK c \in Messages(log) : c.gen = mem.generation /\ x.from = c.from
    BY <1>3
  <2>3. Clean(c)
    BY DEF LineageInv
  <2> QED
    BY <2>1, <2>2, <2>3 DEF Clean
<1> QED
  BY <1>1, <1>2, <1>3 DEF Derived

LEMMA WrittenOne ==
  ASSUME SessionInv, NEW r, Write(r), NEW K, NEW x \in OfKind(log', K)
  PROVE  x \in OfKind(log, K) \/ x = r
<1>1. log' = log \o <<r>> /\ IsLog(<<r>>) /\ IsLog(log)
  BY AppendedJoins, OneRecord, Basics DEF Write, Appended
<1>2. OfKind(log', K) = OfKind(log, K) \cup OfKind(<<r>>, K)
  BY <1>1, OfKindJoined
<1>3. OfKind(<<r>>, K) \subseteq {r}
  BY OfKindOne
<1> QED
  BY <1>2, <1>3

LEMMA WrittenAll ==
  ASSUME SessionInv, NEW rs, IsLog(rs), WriteAll(rs), NEW K, NEW x \in OfKind(log', K)
  PROVE  x \in OfKind(log, K) \/ \E i \in 1 .. Len(rs) : x = rs[i]
<1>1. log' = log \o rs /\ IsLog(log)
  BY WriteAllJoins, Basics DEF WriteAll
<1>2. OfKind(log', K) = OfKind(log, K) \cup OfKind(rs, K)
  BY <1>1, OfKindJoined
<1>3. \A y \in OfKind(rs, K) : \E i \in 1 .. Len(rs) : y = rs[i]
  BY OfKindIs
<1> QED
  BY <1>2, <1>3

LEMMA ResultsAre ==
  ASSUME NEW ids, IsFiniteSet(ids), NEW gen, NEW from
  PROVE  /\ IsLog(Results(ids, gen, from))
         /\ \A i \in 1 .. Len(Results(ids, gen, from)) :
              LET r == Results(ids, gen, from)[i]
              IN r.kind = "tool" /\ r.gen = gen /\ r.from = from
<1> DEFINE order == SetToSeq(ids)
           rs == Results(ids, gen, from)
<1>1. Len(order) \in Nat
  BY Listed, LenProperties
<1>2. rs = [i \in 1 .. Len(order) |->
              Message("tool", next + i - 1, gen, {order[i]}, from)]
  BY DEF Results
<1>3. IsLog(rs) /\ Len(rs) = Len(order)
  BY <1>1, <1>2, FunctionIsLog
<1>4. \A i \in 1 .. Len(rs) : rs[i].kind = "tool" /\ rs[i].gen = gen /\ rs[i].from = from
  BY <1>2, <1>3 DEF Message
<1> QED
  BY <1>3, <1>4

\* A step that appends no summary and only messages of known origin.
OnlyNew ==
  /\ \A x \in Messages(log') : x \in Messages(log) \/ Derived(x)
  /\ OfKind(log', {"compact"}) \subseteq OfKind(log, {"compact"})

LEMMA OneIsNew ==
  ASSUME SessionInv, NEW r, Write(r), New(r)
  PROVE  OnlyNew
<1>1. \A x \in Messages(log') : x \in Messages(log) \/ Derived(x)
  <2>1. \A x \in OfKind(log', MessageKinds) : x \in OfKind(log, MessageKinds) \/ x = r
    BY WrittenOne
  <2>2. \A x \in OfKind(log', MessageKinds) : x.kind \in MessageKinds
    BY DEF OfKind
  <2> QED
    BY <2>1, <2>2 DEF Messages, New
<1>2. \A c \in OfKind(log', {"compact"}) : c \in OfKind(log, {"compact"})
  <2>1. \A x \in OfKind(log', {"compact"}) : x \in OfKind(log, {"compact"}) \/ x = r
    BY WrittenOne
  <2>2. \A x \in OfKind(log', {"compact"}) : x.kind = "compact"
    BY DEF OfKind
  <2> QED
    BY <2>1, <2>2 DEF New
<1> QED
  BY <1>1, <1>2 DEF OnlyNew

LEMMA AllAreNew ==
  ASSUME SessionInv, NEW rs, IsLog(rs), WriteAll(rs), \A i \in 1 .. Len(rs) : New(rs[i])
  PROVE  OnlyNew
<1>1. \A x \in Messages(log') : x \in Messages(log) \/ Derived(x)
  <2>1. \A x \in OfKind(log', MessageKinds) :
          x \in OfKind(log, MessageKinds) \/ \E i \in 1 .. Len(rs) : x = rs[i]
    BY WrittenAll
  <2>2. \A x \in OfKind(log', MessageKinds) : x.kind \in MessageKinds
    BY DEF OfKind
  <2> QED
    BY <2>1, <2>2 DEF Messages, New
<1>2. \A c \in OfKind(log', {"compact"}) : c \in OfKind(log, {"compact"})
  <2>1. \A x \in OfKind(log', {"compact"}) :
          x \in OfKind(log, {"compact"}) \/ \E i \in 1 .. Len(rs) : x = rs[i]
    BY WrittenAll
  <2>2. \A x \in OfKind(log', {"compact"}) : x.kind = "compact"
    BY DEF OfKind
  <2> QED
    BY <2>1, <2>2 DEF New
<1> QED
  BY <1>1, <1>2 DEF OnlyNew

LEMMA NothingIsNew ==
  ASSUME UNCHANGED log
  PROVE  OnlyNew
<1>1. \A K : OfKind(log', K) = OfKind(log, K)
  OBVIOUS
<1> QED
  BY <1>1 DEF OnlyNew, Messages

LEMMA MessageIsNew ==
  ASSUME NEW kind \in MessageKinds, NEW seq, NEW gen, NEW ids, NEW from,
         \/ from = {}
         \/ Running({"model", "tools"}) /\ gen = turn.gen /\ from = turn.base
         \/ /\ Running(Phases) /\ gen = turn.gen
            /\ \E c \in Messages(log) : c.gen = mem.generation /\ from = c.from
  PROVE  New(Message(kind, seq, gen, ids, from))
<1> DEFINE r == Message(kind, seq, gen, ids, from)
<1>1. r.kind = kind /\ r.gen = gen /\ r.from = from
  BY DEF Message
<1> HIDE DEF r
<1>2. Derived(r)
  BY <1>1 DEF Derived
<1>3. r.kind # "compact"
  BY <1>1 DEF MessageKinds
<1> QED
  BY <1>2, <1>3 DEF New, r

LEMMA EventIsNew ==
  ASSUME NEW kind \in {"event", "worker", "provider_usage", "clear", "forget", "memory_usage"},
         NEW seq
  PROVE  New(Event(kind, seq))
BY DEF New, Event, MessageKinds

LEMMA TombstoneIsNew ==
  ASSUME NEW seq, NEW upto
  PROVE  New(Tombstone(seq, upto)) /\ New(RedoOf(seq, upto))
BY DEF New, Tombstone, RedoOf, MessageKinds

LEMMA SubmitIsNew ==
  ASSUME SessionInv, Submit
  PROVE  OnlyNew
<1> DEFINE prompt == Message("user", next, None, {}, {})
           open == SetToSeq(Outstanding(log, mem))
           repair == [i \in 1 .. Len(open) |->
                        Message("tool", next + i, None, {open[i]}, {})]
           rs == <<prompt>> \o repair
<1>1. WriteAll(rs)
  BY DEF Submit
<1>2. Len(open) \in Nat
  <2>1. IsFiniteSet(Outstanding(log, mem))
    BY OutstandingOK DEF SessionInv
  <2> QED
    BY <2>1, Listed, LenProperties
<1>3. New(prompt)
  BY MessageIsNew DEF MessageKinds
<1>4. \A i \in 1 .. Len(open) : New(repair[i])
  <2>1. "tool" \in MessageKinds
    BY DEF MessageKinds
  <2>2. \A i \in 1 .. Len(open) : repair[i] = Message("tool", next + i, None, {open[i]}, {})
    OBVIOUS
  <2> QED
    BY <2>1, <2>2, MessageIsNew
<1>5. IsLog(repair) /\ Len(repair) = Len(open)
  BY <1>2, FunctionIsLog
<1>6. IsLog(<<prompt>>) /\ Len(<<prompt>>) = 1 /\ <<prompt>>[1] = prompt
  BY OneRecord
<1> HIDE DEF prompt, open, repair
<1>7. IsJoin(rs, <<prompt>>, repair)
  BY <1>5, <1>6, Joined
<1>8. /\ IsLog(rs) /\ Len(rs) = 1 + Len(open)
      /\ rs[1] = prompt /\ \A i \in 1 .. Len(open) : rs[1 + i] = repair[i]
  <2>1. 1 \in 1 .. 1
    OBVIOUS
  <2> QED
    BY <1>5, <1>6, <1>7, <2>1 DEF IsJoin
<1> HIDE DEF rs
<1>9. \A i \in 1 .. Len(rs) : i = 1 \/ (i - 1 \in 1 .. Len(open) /\ 1 + (i - 1) = i)
  BY <1>2, <1>8
<1>10. \A i \in 1 .. Len(rs) : New(rs[i])
  BY <1>3, <1>4, <1>8, <1>9
<1> QED
  BY <1>1, <1>8, <1>10, AllAreNew

LEMMA ResultsAreNew ==
  ASSUME SessionInv, Running({"tools"}), NEW ids, ids \subseteq turn.ids,
         WriteAll(Results(ids, turn.gen, turn.base))
  PROVE  OnlyNew
<1> DEFINE rs == Results(ids, turn.gen, turn.base)
<1>1. IsFiniteSet(ids)
  BY FS_Subset DEF SessionInv, TurnOK, Running
<1>2. /\ IsLog(rs)
      /\ \A i \in 1 .. Len(rs) : rs[i].kind = "tool" /\ rs[i].gen = turn.gen /\ rs[i].from = turn.base
  BY <1>1, ResultsAre
<1>3. Running({"model", "tools"})
  BY DEF Running
<1>4. WriteAll(rs)
  OBVIOUS
<1> HIDE DEF rs
<1>5. \A i \in 1 .. Len(rs) : New(rs[i])
  BY <1>2, <1>3 DEF New, Derived
<1> QED
  BY <1>2, <1>4, <1>5, AllAreNew

\* Without the notes of workers, every step of the runner is of that kind.
LEMMA TurnStepIsNew ==
  ASSUME SessionInv, TurnStep, "worker" \notin Notes
  PROVE  OnlyNew
<1>1. CASE Submit
  BY <1>1, SubmitIsNew
<1>2. CASE Steer
  <2>1. New(Message("user", next, None, {}, {}))
    BY MessageIsNew DEF MessageKinds
  <2> QED
    BY <1>2, <2>1, OneIsNew DEF Steer
<1>3. CASE Deliver
  <2>1. PICK c \in OfKind(log, {"call"}) :
          /\ c.gen = mem.generation
          /\ Write(Message("user", next, turn.gen, {}, c.from))
    BY <1>3 DEF Deliver
  <2>2. c \in Messages(log)
    BY <2>1 DEF Messages, OfKind, MessageKinds
  <2>3. Running(Phases)
    BY <1>3 DEF Deliver, Running, Phases
  <2>4. "user" \in MessageKinds
    BY DEF MessageKinds
  <2> DEFINE ids == {}
  <2>5. Write(Message("user", next, turn.gen, ids, c.from))
    BY <2>1
  <2> HIDE DEF ids
  <2>6. New(Message("user", next, turn.gen, ids, c.from))
    BY <2>1, <2>2, <2>3, <2>4, MessageIsNew
  <2> QED
    BY <2>5, <2>6, OneIsNew
<1>4. CASE Refused \/ Request \/ CancelBetween
  BY <1>4, NothingIsNew DEF Refused, Request, CancelBetween
<1>5. CASE Answer
  <2>1. Running({"model", "tools"}) /\ Write(Message("asst", next, turn.gen, {}, turn.base))
    BY <1>5 DEF Answer, Running
  <2>2. New(Message("asst", next, turn.gen, {}, turn.base))
    BY <2>1, MessageIsNew DEF MessageKinds
  <2> QED
    BY <2>1, <2>2, OneIsNew
<1>6. CASE Call
  <2>1. Running({"model", "tools"}) /\ "call" \in MessageKinds
    BY <1>6 DEF Call, Running, MessageKinds
  <2>2. PICK ts : Write(Message("call", next, turn.gen, {next} \X ts, turn.base))
    BY <1>6 DEF Call
  <2>3. New(Message("call", next, turn.gen, {next} \X ts, turn.base))
    BY <2>1, MessageIsNew
  <2> QED
    BY <2>2, <2>3, OneIsNew
<1>7. CASE Discard
  BY <1>7, EventIsNew, OneIsNew DEF Discard
<1>8. CASE ProviderFails
  BY <1>8, EventIsNew, OneIsNew DEF ProviderFails
<1>9. CASE CancelModel
  <2>1. CASE UNCHANGED <<log, next>>
    BY <2>1, NothingIsNew
  <2>2. CASE \E ts \in SUBSET Tools :
               Write(Message("part", next, turn.gen, {next} \X ts, turn.base))
    <3>1. Running({"model", "tools"}) /\ "part" \in MessageKinds
      BY <1>9 DEF CancelModel, Running, MessageKinds
    <3>2. PICK ts : Write(Message("part", next, turn.gen, {next} \X ts, turn.base))
      BY <2>2
    <3>3. New(Message("part", next, turn.gen, {next} \X ts, turn.base))
      BY <3>1, MessageIsNew
    <3> QED
      BY <3>2, <3>3, OneIsNew
  <2> QED
    BY <1>9, <2>1, <2>2 DEF CancelModel
<1>10. CASE ToolsReturn
  BY <1>10, ResultsAreNew DEF ToolsReturn
<1>11. CASE CancelTools
  BY <1>11, ResultsAreNew DEF CancelTools
<1> QED
  BY <1>1, <1>2, <1>3, <1>4, <1>5, <1>6, <1>7, <1>8, <1>9, <1>10, <1>11 DEF TurnStep

\* Messages stay in the file, so what a summary covers keeps its lineage.
LEMMA MessagesStay ==
  ASSUME SessionInv, NEW rs, IsLog(rs), log' = log \o rs
  PROVE  /\ Messages(log) \subseteq Messages(log')
         /\ \A refs : LineageOf(log, refs) \subseteq LineageOf(log', refs)
<1>1. OfKind(log', MessageKinds) = OfKind(log, MessageKinds) \cup OfKind(rs, MessageKinds)
  BY OfKindJoined, Basics
<1>2. Messages(log) \subseteq Messages(log')
  BY <1>1 DEF Messages
<1>3. ASSUME NEW refs
      PROVE  LineageOf(log, refs) \subseteq LineageOf(log', refs)
  <2> DEFINE A == {x \in Messages(log) : x.seq \in refs}
             B == {x \in Messages(log') : x.seq \in refs}
  <2>1. A \subseteq B
    BY <1>2
  <2>2. LineageOf(log, refs) = Lineage(A) /\ LineageOf(log', refs) = Lineage(B)
    BY DEF LineageOf
  <2> HIDE DEF A, B
  <2>3. Lineage(A) \subseteq Lineage(B)
    BY <2>1 DEF Lineage, SeqsOf
  <2> QED
    BY <2>2, <2>3
<1> QED
  BY <1>2, <1>3

\* What a step that forgets nothing has to show.
LEMMA LineageGrows ==
  ASSUME SessionInv, LineageInv, UNCHANGED mem, next' \in Nat, next <= next',
         NEW rs, IsLog(rs), log' = log \o rs,
         \A x \in Messages(log') : x \in Messages(log) \/ Clean(x),
         \A c \in OfKind(log', {"compact"}) :
           c \in OfKind(log, {"compact"}) \/ c.from \subseteq LineageOf(log, c.refs),
         TurnLineage',
         \A k \in Compactors :
           compacting'[k] # NoPlan =>
             compacting'[k].plan.from \subseteq LineageOf(log, compacting'[k].plan.refs)
  PROVE  LineageInv'
<1>1. \A refs : LineageOf(log, refs) \subseteq LineageOf(log', refs)
  BY MessagesStay
<1>2. mem' = mem
  OBVIOUS
<1>3. ExcludedInv'
  <2>1. mem.excluded \subseteq Nat /\ next \in Nat
    BY Basics
  <2>2. \A s \in Nat : s < next => s < next'
    BY <2>1
  <2> QED
    BY <1>2, <2>1, <2>2 DEF LineageInv, ExcludedInv
<1>4. \A x \in Messages(log') : Clean(x)'
  <2>1. \A x \in Messages(log') : Clean(x)
    BY DEF LineageInv
  <2> QED
    BY <1>2, <2>1 DEF Clean
<1>5. \A c \in OfKind(log', {"compact"}) : c.from \subseteq LineageOf(log', c.refs)
  BY <1>1 DEF LineageInv
<1>6. PlanLineage'
  BY <1>1 DEF PlanLineage
<1> QED
  BY <1>3, <1>4, <1>5, <1>6 DEF LineageInv

\* A request takes up what replay shows, a call adds itself.
LEMMA TurnStepLineage ==
  ASSUME SessionInv, LineageInv, TurnStep, UNCHANGED mem
  PROVE  TurnLineage'
<1>0. mem' = mem
  OBVIOUS
<1>1. CASE Request
  <2>1. turn' = [phase |-> "model", at |-> Len(log), gen |-> mem.generation,
                 ids |-> {}, base |-> ViewLineage(View(log, mem))]
    BY <1>1 DEF Request
  <2>2. turn'.base = ViewLineage(View(log, mem))
    BY <2>1
  <2>3. ViewLineage(View(log, mem)) \cap mem.excluded = {}
    BY NothingForgottenShown DEF NoForgottenContent
  <2> QED
    BY <1>0, <2>2, <2>3 DEF TurnLineage
<1>2. CASE Call
  <2>1. PICK ids : turn' = [turn EXCEPT !.phase = "tools", !.at = 0, !.ids = ids,
                                        !.base = @ \cup {next}]
    BY <1>2 DEF Call
  <2>2. turn'.base \subseteq turn.base \cup {next} /\ turn'.gen = turn.gen
    <3>1. turn'.gen = turn.gen
      BY <2>1
    <3>2. turn'.base \subseteq turn.base \cup {next}
      BY <2>1
    <3> QED
      BY <3>1, <3>2
  <2>3. next \notin mem.excluded
    BY Basics DEF LineageInv, ExcludedInv
  <2>4. turn.gen = mem.generation => turn.base \cap mem.excluded = {}
    BY <1>2 DEF Call, Running, LineageInv, TurnLineage
  <2> QED
    BY <1>0, <2>2, <2>3, <2>4 DEF TurnLineage
<1>3. CASE turn' = NoTurn
  BY <1>3 DEF TurnLineage, Running
<1>4. CASE UNCHANGED turn
  BY <1>0, <1>4 DEF LineageInv, TurnLineage, Running
<1>5. CASE NextRound
  BY <1>5 DEF NextRound, TurnLineage, Running
<1>6. CASE Submit
  BY <1>6 DEF Submit, TurnLineage, Running
<1> QED
  BY <1>1, <1>2, <1>3, <1>4, <1>5, <1>6
  DEF TurnStep, Steer, Deliver, Refused, Answer, Discard, ProviderFails, CancelModel,
      ToolsReturn, CancelTools, CancelBetween, EndTurn

\* A plan lists the lineage of the prefix it covers and of the summary before.
LEMMA PlansHaveLineage ==
  ASSUME SessionInv, LineageInv, NEW plan \in Compactions(log, mem)
  PROVE  plan.from \subseteq LineageOf(log, plan.refs)
<1> DEFINE old == WorkingSummary(log, mem)
<1>1. PICK prefix, tail : /\ plan = Compaction(log, mem, prefix, tail)
                          /\ prefix \subseteq VisibleMessages(log, mem)
  <2> DEFINE from == KeepFrom(old)
             V == {m \in VisibleMessages(log, mem) : m.seq >= from}
             S == {m \in Structure(log) : m.seq >= from}
  <2>1. Compactions(log, mem) \subseteq
          {Compaction(log, mem, prefix, V \ prefix) : prefix \in Coverages(S, V)}
    BY DEF Compactions
  <2>2. V \subseteq VisibleMessages(log, mem)
    OBVIOUS
  <2> HIDE DEF V, S
  <2>3. PICK prefix \in Coverages(S, V) : plan = Compaction(log, mem, prefix, V \ prefix)
    BY <2>1
  <2>4. prefix \subseteq V
    BY <2>3 DEF Coverages
  <2> QED
    BY <2>2, <2>3, <2>4
<1>2. /\ plan.refs = SeqsOf(prefix) \cup UNION {c.refs : c \in old}
      /\ plan.from = Lineage(prefix) \cup UNION {c.from : c \in old}
  BY <1>1 DEF Compaction
<1>3. prefix \subseteq Messages(log) /\ old \subseteq OfKind(log, {"compact"})
  BY <1>1, ReplayShows
<1> DEFINE A == {x \in Messages(log) : x.seq \in plan.refs}
<1>4. LineageOf(log, plan.refs) = Lineage(A)
  BY DEF LineageOf
<1>5. Lineage(prefix) \subseteq Lineage(A)
  <2>1. prefix \subseteq A
    BY <1>2, <1>3 DEF SeqsOf
  <2> HIDE DEF A
  <2> QED
    BY <2>1 DEF Lineage, SeqsOf
<1>6. ASSUME NEW c \in old
      PROVE  c.from \subseteq Lineage(A)
  <2>1. c.from \subseteq LineageOf(log, c.refs)
    BY <1>3 DEF LineageInv
  <2> DEFINE B == {x \in Messages(log) : x.seq \in c.refs}
  <2>2. LineageOf(log, c.refs) = Lineage(B)
    BY DEF LineageOf
  <2>3. B \subseteq A
    BY <1>2
  <2> HIDE DEF A, B
  <2>4. Lineage(B) \subseteq Lineage(A)
    BY <2>3 DEF Lineage, SeqsOf
  <2> QED
    BY <2>1, <2>2, <2>4
<1> HIDE DEF A, old
<1> DEFINE U == UNION {c.from : c \in old}
<1>7. U \subseteq Lineage(A)
  BY <1>6
<1>8. plan.from = Lineage(prefix) \cup U
  BY <1>2
<1> HIDE DEF U
<1> QED
  BY <1>4, <1>5, <1>7, <1>8

LEMMA ForgetLineage ==
  ASSUME SessionInv, LineageInv, Forget
  PROVE  LineageInv'
<1>0. FileOK(log, next) /\ RecordsOK(log, next, mem.generation)
  BY DEF SessionInv
<1>1. PICK S \in {{}} \cup {{m.seq} : m \in Messages(log)} :
        /\ mem' = [excluded |-> mem.excluded \cup S, generation |-> mem.generation + 1]
        /\ IF S = {} THEN UNCHANGED <<log, next>> ELSE Write(Event("forget", next))
  BY DEF Forget
<1>2. mem.generation \in Nat /\ next \in Nat /\ mem.excluded \subseteq Nat
  BY Basics
<1>3. mem'.excluded = mem.excluded \cup S
  BY <1>1
<1>4. mem'.generation = mem.generation + 1
  BY <1>1
<1>5. /\ \A g \in Nat : g <= mem.generation => g # mem.generation + 1
      /\ mem.generation + 1 # 0
  BY <1>2
<1>6. OnlyNew /\ next <= next' /\ next' \in Nat
  <2>1. CASE UNCHANGED <<log, next>>
    BY <1>2, <2>1, NothingIsNew
  <2>2. CASE Write(Event("forget", next))
    <3>1. OnlyNew
      BY <2>2, EventIsNew, OneIsNew
    <3>2. next' = next + 1
      BY <2>2 DEF Write, Event
    <3> QED
      BY <1>2, <3>1, <3>2
  <2> QED
    BY <1>1, <2>1, <2>2
<1>7. OfKind(log', MessageKinds) = OfKind(log, MessageKinds)
      /\ \A refs : LineageOf(log, refs) \subseteq LineageOf(log', refs)
  <2>1. CASE UNCHANGED <<log, next>>
    <3>1. log' = log
      BY <2>1
    <3> QED
      BY <3>1 DEF LineageOf, Messages
  <2>2. CASE Write(Event("forget", next))
    <3> DEFINE e == Event("forget", next)
    <3>1. e.kind \notin MessageKinds
      BY DEF Event, MessageKinds
    <3>2. Write(e)
      BY <2>2
    <3> HIDE DEF e
    <3>3. log' = log \o <<e>> /\ IsLog(<<e>>) /\ IsLog(log)
      BY <3>2, AppendedJoins, OneRecord, Basics DEF Write, Appended
    <3>4. OfKind(<<e>>, MessageKinds) = {}
      BY <3>1, OfKindOne
    <3>5. OfKind(log', MessageKinds) = OfKind(log, MessageKinds) \cup OfKind(<<e>>, MessageKinds)
      BY <3>3, OfKindJoined
    <3>6. OfKind(log', MessageKinds) = OfKind(log, MessageKinds)
      BY <3>4, <3>5
    <3> QED
      BY <3>3, <3>6, MessagesStay
  <2> QED
    BY <1>1, <2>1, <2>2
<1>8. ExcludedInv'
  <2>1. \A s \in S : s < next
    BY <1>0, <1>1, MessageSound
  <2>2. \A s \in mem.excluded \cup S : s < next
    BY <2>1 DEF LineageInv, ExcludedInv
  <2>3. \A m \in Messages(log) : m.seq \in Nat
    BY <1>0, MessageSound
  <2>4. S \subseteq Nat
    BY <1>1, <2>3
  <2>5. \A s \in Nat : s < next => s < next'
    BY <1>2, <1>6
  <2>6. \A s \in mem'.excluded : s < next'
    BY <1>2, <1>3, <2>2, <2>4, <2>5
  <2>7. mem'.generation # 0
    BY <1>4, <1>5
  <2> QED
    BY <2>6, <2>7 DEF ExcludedInv
<1>9. ASSUME NEW x \in Messages(log')
      PROVE  Clean(x)'
  <2>1. x \in Messages(log)
    BY <1>7 DEF Messages
  <2>2. Clean(x)
    BY <2>1 DEF LineageInv
  <2>3. x.gen = None \/ (x.gen \in Nat /\ x.gen <= mem.generation)
    BY <1>0, <2>1, MessageSound
  <2>4. x.gen # mem'.generation
    BY <1>2, <1>4, <1>5, <2>3, SessionLogAssumption
  <2> QED
    BY <2>2, <2>4 DEF Clean
<1>10. \A c \in OfKind(log', {"compact"}) : c.from \subseteq LineageOf(log', c.refs)
  BY <1>6, <1>7 DEF OnlyNew, LineageInv
<1>11. TurnLineage'
  <2>1. turn' = turn
    BY DEF Forget
  <2>2. turn # NoTurn => turn.gen # mem'.generation
    BY <1>2, <1>4, <1>5 DEF SessionInv, TurnOK
  <2> QED
    BY <2>1, <2>2 DEF TurnLineage, Running
<1>12. PlanLineage'
  <2>1. compacting' = compacting
    BY DEF Forget
  <2>2. PlanLineage
    BY DEF LineageInv
  <2> QED
    BY <1>7, <2>1, <2>2 DEF PlanLineage
<1> QED
  BY <1>8, <1>9, <1>10, <1>11, <1>12 DEF LineageInv

LEMMA CommandIsNew ==
  ASSUME SessionInv, Undo \/ Redo \/ Rewind \/ Clear \/ Record
  PROVE  OnlyNew /\ UNCHANGED <<mem, turn, compacting>>
<1>1. CASE Undo
  BY <1>1, TombstoneIsNew, OneIsNew DEF Undo
<1>2. CASE Redo
  BY <1>2, TombstoneIsNew, OneIsNew DEF Redo
<1>3. CASE Rewind
  <2>1. PICK m : WriteAll(<<Event("event", next), Tombstone(next + 1, m.seq)>>)
    BY <1>3 DEF Rewind
  <2> DEFINE e == Event("event", next)
             t == Tombstone(next + 1, m.seq)
             rs == <<e, t>>
  <2>2. IsLog(rs) /\ Len(rs) = 2 /\ rs[1] = e /\ rs[2] = t
    BY TwoRecords
  <2>3. New(e) /\ New(t) /\ WriteAll(rs)
    BY <2>1, EventIsNew, TombstoneIsNew
  <2> HIDE DEF e, t, rs
  <2>4. \A i \in 1 .. Len(rs) : i = 1 \/ i = 2
    BY <2>2
  <2>5. \A i \in 1 .. Len(rs) : New(rs[i])
    BY <2>2, <2>3, <2>4
  <2>6. OnlyNew
    BY <2>2, <2>3, <2>5, AllAreNew
  <2> QED
    BY <1>3, <2>6 DEF Rewind
<1>4. CASE Clear
  BY <1>4, EventIsNew, OneIsNew DEF Clear
<1>5. CASE Record
  BY <1>5, EventIsNew, OneIsNew DEF Record
<1> QED
  BY <1>1, <1>2, <1>3, <1>4, <1>5

\* A compaction appends the plan it has kept, or an event.
LEMMA CompactEndLineage ==
  ASSUME SessionInv, LineageInv, NEW k \in Compactors, CompactEnds(k) \/ CompactFails(k)
  PROVE  /\ \A x \in Messages(log') : x \in Messages(log)
         /\ \A c \in OfKind(log', {"compact"}) :
              c \in OfKind(log, {"compact"}) \/ c.from \subseteq LineageOf(log, c.refs)
<1> DEFINE Writes(e) == log' = log \o <<e>> /\ e.kind \notin MessageKinds
                        /\ (e.kind = "compact" => e.from \subseteq LineageOf(log, e.refs))
<1>1. \E e : Writes(e)
  <2>1. CASE WriteRejected
    <3> DEFINE e == Event("memory_usage", NextSeq(log))
    <3>1. log' = log \o <<e>>
      BY <2>1, AppendedJoins, Basics DEF WriteRejected, Appended
    <3>2. e.kind = "memory_usage"
      BY DEF Event
    <3> HIDE DEF e
    <3> QED
      BY <3>1, <3>2 DEF MessageKinds
  <2>2. CASE compacting[k] # NoPlan /\ Write(CompactRecord(compacting[k].plan, NextSeq(log)))
    <3> DEFINE p == compacting[k].plan
               e == CompactRecord(p, NextSeq(log))
    <3>1. log' = log \o <<e>>
      BY <2>2, AppendedJoins, Basics DEF Write, Appended
    <3>2. e.kind = "compact" /\ e.from = p.from /\ e.refs = p.refs
      BY DEF CompactRecord
    <3>3. p.from \subseteq LineageOf(log, p.refs)
      BY <2>2 DEF LineageInv, PlanLineage
    <3> HIDE DEF e
    <3> QED
      BY <3>1, <3>2, <3>3 DEF MessageKinds
  <2> QED
    BY <2>1, <2>2 DEF CompactEnds, CompactFails
<1>2. PICK e : Writes(e)
  BY <1>1
<1>3. \A K : OfKind(log', K) = OfKind(log, K) \cup OfKind(<<e>>, K)
  BY <1>2, OneRecord, OfKindJoined, Basics
<1>4. \A x \in Messages(log') : x \in Messages(log)
  <2>1. OfKind(<<e>>, MessageKinds) = {}
    BY <1>2, OfKindOne
  <2>2. OfKind(log', MessageKinds) = OfKind(log, MessageKinds) \cup OfKind(<<e>>, MessageKinds)
    BY <1>3
  <2> QED
    BY <2>1, <2>2 DEF Messages
<1>5. ASSUME NEW c \in OfKind(log', {"compact"})
      PROVE  c \in OfKind(log, {"compact"}) \/ c.from \subseteq LineageOf(log, c.refs)
  <2>1. c \in OfKind(log, {"compact"}) \/ c \in OfKind(<<e>>, {"compact"})
    BY <1>3
  <2>2. ASSUME c \in OfKind(<<e>>, {"compact"})
        PROVE  c = e /\ c.kind = "compact"
    <3>1. c.kind = "compact"
      BY <2>2 DEF OfKind
    <3>2. OfKind(<<e>>, {"compact"}) \subseteq {e}
      BY OfKindOne
    <3> QED
      BY <2>2, <3>1, <3>2
  <2> QED
    BY <1>2, <2>1, <2>2
<1> QED
  BY <1>4, <1>5

LEMMA LineageKept ==
  ASSUME SessionInv, LineageInv, [Next]_vars, "worker" \notin Notes
  PROVE  LineageInv'
<1> DEFINE Appends(rs) == IsLog(rs) /\ log' = log \o rs /\ next' \in Nat /\ next <= next'
<1>0. ASSUME NEW rs, Grows(rs)
      PROVE  Appends(rs)
  <2>1. IsLog(rs) /\ Len(rs) \in Nat /\ next \in Nat
    BY <1>0, LogDomain, Basics DEF Grows, Fresh
  <2>2. next + Len(rs) \in Nat /\ next <= next + Len(rs)
    BY <2>1
  <2> QED
    BY <1>0, <2>1, <2>2 DEF Grows
<1>1. CASE UNCHANGED vars
  BY <1>1 DEF vars, LineageInv, ExcludedInv, Clean, TurnLineage, PlanLineage, LineageOf,
              Messages, OfKind, Running
<1>2. CASE TurnStep
  <2>1. /\ (\E rs : Says(rs)) \/ (\E e : Marks(e))
        /\ UNCHANGED <<mem, compacting>>
    BY <1>2, TurnStepClass
  <2>2. PICK rs : Grows(rs)
    BY <2>1, ClassesGrow
  <2>3. OnlyNew
    BY <1>2, TurnStepIsNew
  <2>4. \A x \in Messages(log') : x \in Messages(log) \/ Clean(x)
    BY <2>3, DerivedIsClean DEF OnlyNew
  <2>5. \A c \in OfKind(log', {"compact"}) :
          c \in OfKind(log, {"compact"}) \/ c.from \subseteq LineageOf(log, c.refs)
    BY <2>3 DEF OnlyNew
  <2>6. TurnLineage'
    BY <1>2, <2>1, TurnStepLineage
  <2>7. \A k \in Compactors :
          compacting'[k] # NoPlan =>
            compacting'[k].plan.from \subseteq LineageOf(log, compacting'[k].plan.refs)
    BY <2>1 DEF LineageInv, PlanLineage
  <2>8. Appends(rs)
    BY <1>0, <2>2
  <2>9. UNCHANGED mem
    BY <2>1
  <2> QED
    BY <2>4, <2>5, <2>6, <2>7, <2>8, <2>9, LineageGrows
<1>3. CASE Command
  <2>1. CASE Forget
    BY <2>1, ForgetLineage
  <2>2. CASE Undo \/ Redo \/ Rewind \/ Clear \/ Record
    <3>1. OnlyNew /\ UNCHANGED <<mem, turn, compacting>>
      BY <2>2, CommandIsNew
    <3>2. PICK rs : Grows(rs)
      BY <1>3, CommandClass, ClassesGrow
    <3>3. Appends(rs)
      BY <1>0, <3>2
    <3>4. \A x \in Messages(log') : x \in Messages(log) \/ Clean(x)
      BY <3>1, DerivedIsClean DEF OnlyNew
    <3>5. \A c \in OfKind(log', {"compact"}) :
            c \in OfKind(log, {"compact"}) \/ c.from \subseteq LineageOf(log, c.refs)
      BY <3>1 DEF OnlyNew
    <3>6. TurnLineage'
      BY <3>1 DEF LineageInv, TurnLineage, Running
    <3>7. \A k \in Compactors :
            compacting'[k] # NoPlan =>
              compacting'[k].plan.from \subseteq LineageOf(log, compacting'[k].plan.refs)
      BY <3>1 DEF LineageInv, PlanLineage
    <3>8. UNCHANGED mem
      BY <3>1
    <3> QED
      BY <3>3, <3>4, <3>5, <3>6, <3>7, <3>8, LineageGrows
  <2> QED
    BY <1>3, <2>1, <2>2 DEF Command
<1>4. CASE Crash
  <2>1. /\ Says(<<>>) \/ Tears
        /\ turn' = NoTurn /\ compacting' = [k \in Compactors |-> NoPlan]
        /\ UNCHANGED mem
    BY <1>4, CrashClass DEF Crash
  <2>2. TurnLineage'
    BY <2>1 DEF TurnLineage, Running
  <2>3. \A k \in Compactors : compacting'[k] = NoPlan
    BY <2>1
  <2> DEFINE Joins(rs) == Appends(rs) /\ \A K : "torn" \notin K => OfKind(rs, K) = {}
  <2>4. ASSUME Says(<<>>)
        PROVE  \E rs : Joins(rs)
    <3> DEFINE rs == <<>>
    <3>1. Appends(rs)
      BY <1>0, <2>4 DEF Says
    <3>2. Len(rs) = 0
      BY EmptyLog
    <3> HIDE DEF rs
    <3>3. \A K : OfKind(rs, K) = {}
      BY <3>2 DEF OfKind
    <3>4. Joins(rs)
      BY <3>1, <3>3
    <3> QED
      BY <3>4
  <2>5. ASSUME Tears
        PROVE  \E rs : Joins(rs)
    <3> DEFINE rs == <<Torn>>
    <3>1. log' = log \o rs /\ next' = next
      BY <2>5 DEF Tears
    <3>2. IsLog(rs) /\ next' \in Nat /\ next <= next'
      BY <3>1, OneRecord, Basics
    <3>3. \A K : "torn" \notin K => OfKind(rs, K) = {}
      BY OfKindOne DEF Torn
    <3> HIDE DEF rs
    <3>4. Joins(rs)
      BY <3>1, <3>2, <3>3
    <3> QED
      BY <3>4
  <2>6. PICK rs : Joins(rs)
    BY <2>1, <2>4, <2>5
  <2>7. \A K : OfKind(log \o rs, K) = OfKind(log, K) \cup OfKind(rs, K)
    BY <2>6, OfKindJoined, Basics
  <2>8. \A x \in Messages(log') : x \in Messages(log)
    <3>1. OfKind(rs, MessageKinds) = {}
      BY <2>6 DEF MessageKinds
    <3>2. OfKind(log', MessageKinds) = OfKind(log, MessageKinds) \cup OfKind(rs, MessageKinds)
      BY <2>6, <2>7
    <3> QED
      BY <3>1, <3>2 DEF Messages
  <2>9. \A c \in OfKind(log', {"compact"}) : c \in OfKind(log, {"compact"})
    <3>1. OfKind(rs, {"compact"}) = {}
      BY <2>6
    <3>2. OfKind(log', {"compact"}) = OfKind(log, {"compact"}) \cup OfKind(rs, {"compact"})
      BY <2>6, <2>7
    <3> QED
      BY <3>1, <3>2
  <2>10. UNCHANGED mem
    BY <2>1
  <2> HIDE DEF Joins
  <2>11. Appends(rs)
    BY <2>6 DEF Joins
  <2> QED
    BY <2>2, <2>3, <2>8, <2>9, <2>10, <2>11, LineageGrows
<1>5. ASSUME NEW k \in Compactors, CompactBegins(k)
      PROVE  LineageInv'
  <2>1. PICK plan \in Compactions(log, mem) :
          compacting' = [compacting EXCEPT ![k] =
            [at |-> Len(log), gen |-> mem.generation, plan |-> plan]]
    BY <1>5 DEF CompactBegins
  <2>2. UNCHANGED <<log, next, mem, turn>>
    BY <1>5 DEF CompactBegins
  <2>3. plan.from \subseteq LineageOf(log, plan.refs)
    BY PlansHaveLineage
  <2>4. ASSUME NEW j \in Compactors, compacting'[j] # NoPlan
        PROVE  compacting'[j].plan.from \subseteq LineageOf(log, compacting'[j].plan.refs)
    <3>1. CASE j = k
      <4>1. compacting'[j] = [at |-> Len(log), gen |-> mem.generation, plan |-> plan]
        BY <2>1, <3>1 DEF SessionInv, PlansOK
      <4>2. compacting'[j].plan = plan
        BY <4>1
      <4> QED
        BY <2>3, <4>2
    <3>2. CASE j # k
      <4>1. compacting'[j] = compacting[j]
        BY <2>1, <3>2 DEF SessionInv, PlansOK
      <4> QED
        BY <2>4, <4>1 DEF LineageInv, PlanLineage
    <3> QED
      BY <3>1, <3>2
  <2>5. PlanLineage'
    BY <2>2, <2>4 DEF PlanLineage, LineageOf
  <2> QED
    BY <2>2, <2>5 DEF LineageInv, ExcludedInv, Clean, TurnLineage, LineageOf, Messages,
                      OfKind, Running
<1>6. ASSUME NEW k \in Compactors, CompactEnds(k) \/ CompactFails(k)
      PROVE  LineageInv'
  <2>1. PICK e : Marks(e)
    BY <1>6, CompactEndClass
  <2>2. Grows(<<e>>) /\ UNCHANGED mem
    BY <2>1 DEF Marks
  <2> DEFINE rs == <<e>>
  <2>3. Appends(rs)
    BY <1>0, <2>2
  <2> HIDE DEF rs
  <2>4. /\ \A x \in Messages(log') : x \in Messages(log)
        /\ \A c \in OfKind(log', {"compact"}) :
             c \in OfKind(log, {"compact"}) \/ c.from \subseteq LineageOf(log, c.refs)
    BY <1>6, CompactEndLineage
  <2>5. turn' = NoTurn \/ UNCHANGED turn
    BY <1>6 DEF CompactEnds, CompactFails, HandBack, EndTurn
  <2>6. TurnLineage'
    <3>1. mem' = mem
      BY <2>2
    <3> QED
      BY <2>5, <3>1 DEF LineageInv, TurnLineage, Running
  <2>7. compacting' = [compacting EXCEPT ![k] = NoPlan]
    BY <1>6 DEF CompactEnds, CompactFails
  <2>8. \A j \in Compactors : compacting'[j] = compacting[j] \/ compacting'[j] = NoPlan
    BY <2>7 DEF SessionInv, PlansOK
  <2>9. \A j \in Compactors :
          compacting'[j] # NoPlan =>
            compacting'[j].plan.from \subseteq LineageOf(log, compacting'[j].plan.refs)
    BY <2>8 DEF LineageInv, PlanLineage
  <2>10. UNCHANGED mem
    BY <2>2
  <2> QED
    BY <2>3, <2>4, <2>6, <2>9, <2>10, LineageGrows
<1> QED
  BY <1>1, <1>2, <1>3, <1>4, <1>5, <1>6 DEF Next

LEMMA LineageStarts == Init => LineageInv
<1> SUFFICES ASSUME Init
             PROVE  LineageInv
  OBVIOUS
<1>1. Len(log) = 0
  BY EmptyLog DEF Init
<1>2. \A K : OfKind(log, K) = {}
  BY <1>1 DEF OfKind
<1>3. mem.excluded = {} /\ turn = NoTurn /\ \A k \in Compactors : compacting[k] = NoPlan
  BY DEF Init
<1>4. TurnLineage /\ PlanLineage /\ ExcludedInv
  BY <1>3 DEF TurnLineage, PlanLineage, ExcludedInv, Running
<1> QED
  BY <1>2, <1>4 DEF LineageInv, Messages

\* No text that was generated from a forgotten message is shown to the model
\* again, however the forget raced the request, its tools, an interrupted
\* answer or a compaction, as long as no worker's note is delivered: that note
\* carries no generation (the finding of session_forget_note).
THEOREM ForgottenStaysHidden == "worker" \notin Notes => (Spec => []NoForgottenContent)
<1> SUFFICES ASSUME "worker" \notin Notes
             PROVE  Spec => []NoForgottenContent
  OBVIOUS
<1>1. Init => LineageInv
  BY LineageStarts
<1>2. SessionInv /\ LineageInv /\ [Next]_vars => LineageInv'
  BY LineageKept
<1>3. SessionInv /\ LineageInv => NoForgottenContent
  BY NothingForgottenShown
<1> QED
  BY <1>1, <1>2, <1>3, SessionInvHolds, PTL DEF Spec
-----------------------------------------------------------------------------
(* An answer is recorded only while replay shows what the request showed.   *)
(* Only bills and the supervisor's records may follow a request whose       *)
(* answer is still accepted, and neither changes what replay shows.         *)

AskedInv ==
  Running({"model"}) /\ Accepts => turn.base = ViewLineage(View(log, mem))

Silences == {"provider_usage", "worker"}

LEMMA SilentView ==
  ASSUME NEW l, NEW n, FileOK(l, n), NEW rs, IsLog(rs),
         \A i \in 1 .. Len(rs) : rs[i].kind \in Silences,
         NEW k, k = l \o rs, NEW o, FileOK(k, o), NEW m
  PROVE  View(k, m) = View(l, m)
<1>1. IsLog(l) /\ IsJoin(k, l, rs) /\ Len(l) \in Nat /\ Len(rs) \in Nat
  BY Joined, LogDomain DEF FileOK
<1>2. ASSUME NEW K, K \cap Silences = {}
      PROVE  OfKind(k, K) = OfKind(l, K)
  <2>1. OfKind(k, K) = OfKind(l, K) \cup OfKind(rs, K)
    BY <1>1, OfKindJoined
  <2>2. OfKind(rs, K) = {}
    <3>1. \A r \in OfKind(rs, K) : r.kind \in K /\ r.kind \in Silences
      BY OfKindIs
    <3> QED
      BY <1>2, <3>1
  <2> QED
    BY <2>1, <2>2
<1>3. /\ OfKind(k, MessageKinds) = OfKind(l, MessageKinds)
      /\ OfKind(k, {"undo"}) = OfKind(l, {"undo"})
      /\ OfKind(k, {"redo"}) = OfKind(l, {"redo"})
      /\ OfKind(k, {"clear"}) = OfKind(l, {"clear"})
      /\ OfKind(k, {"compact"}) = OfKind(l, {"compact"})
  <2>1. MessageKinds \cap Silences = {} /\ {"undo"} \cap Silences = {}
    BY DEF MessageKinds, Silences
  <2>2. {"redo"} \cap Silences = {} /\ {"clear"} \cap Silences = {} /\ {"compact"} \cap Silences = {}
    BY DEF Silences
  <2>3. OfKind(k, MessageKinds) = OfKind(l, MessageKinds)
    BY <1>2, <2>1
  <2>4. OfKind(k, {"undo"}) = OfKind(l, {"undo"})
    BY <1>2, <2>1
  <2>5. OfKind(k, {"redo"}) = OfKind(l, {"redo"})
    BY <1>2, <2>2
  <2>6. OfKind(k, {"clear"}) = OfKind(l, {"clear"})
    BY <1>2, <2>2
  <2>7. OfKind(k, {"compact"}) = OfKind(l, {"compact"})
    BY <1>2, <2>2
  <2> QED
    BY <2>3, <2>4, <2>5, <2>6, <2>7
<1>4. ActiveTombstones(k) = ActiveTombstones(l)
  BY <1>3 DEF ActiveTombstones
<1>5. LastClear(k) = LastClear(l)
  BY <1>3 DEF LastClear
<1>6. LoadMessages(k) = LoadMessages(l)
  BY <1>3, <1>4 DEF LoadMessages, Messages
<1>7. Structure(k) = Structure(l)
  BY <1>5, <1>6 DEF Structure
<1>8. VisibleMessages(k, m) = VisibleMessages(l, m)
  BY <1>7 DEF VisibleMessages
<1>9. Intact(k) <=> Intact(l)
  <2>1. \A i, j \in 1 .. Len(k) : i < j /\ k[i] # Torn /\ k[j] # Torn => k[i].seq < k[j].seq
    BY DEF FileOK
  <2>2. \A i, j \in 1 .. Len(l) : i < j /\ l[i] # Torn /\ l[j] # Torn => l[i].seq < l[j].seq
    BY DEF FileOK
  <2>3. (\A i \in 1 .. Len(k) : k[i] # Torn) <=> (\A i \in 1 .. Len(l) : l[i] # Torn)
    <3>1. \A i \in 1 .. Len(l) : i \in 1 .. Len(k) /\ k[i] = l[i]
      BY <1>1 DEF IsJoin
    <3>2. ASSUME NEW i \in 1 .. Len(k), i \notin 1 .. Len(l)
          PROVE  k[i] # Torn
      <4>1. i - Len(l) \in 1 .. Len(rs) /\ Len(l) + (i - Len(l)) = i
        BY <1>1, <3>2 DEF IsJoin
      <4>2. k[i] = rs[i - Len(l)]
        BY <1>1, <4>1 DEF IsJoin
      <4>3. k[i].kind \in Silences
        BY <4>1, <4>2
      <4>4. Torn.kind \notin Silences
        BY DEF Silences, Torn
      <4> QED
        BY <4>3, <4>4
    <3> QED
      BY <3>1, <3>2
  <2> QED
    BY <2>1, <2>2, <2>3 DEF Intact
<1>10. WorkingSummary(k, m) = WorkingSummary(l, m)
  BY <1>3, <1>4, <1>5, <1>8, <1>9 DEF WorkingSummary
<1> QED
  BY <1>8, <1>10 DEF View

\* A step beside a request: what was shown stays as long as it is accepted.
LEMMA AskedStays ==
  ASSUME SessionInv, SessionInv', AskedInv, UNCHANGED turn,
         NEW rs, IsLog(rs), log' = log \o rs,
         UNCHANGED mem \/ mem.generation' = mem.generation + 1
  PROVE  AskedInv'
<1> SUFFICES ASSUME Running({"model"})', Accepts'
             PROVE  turn'.base = ViewLineage(View(log', mem'))
  BY DEF AskedInv
<1>1. turn' = turn /\ Running({"model"})
  BY DEF Running
<1>2. /\ turn.gen \in Nat /\ turn.gen <= mem.generation /\ mem.generation \in Nat
      /\ turn.at \in Nat /\ turn.at <= Len(log)
  BY <1>1, Basics DEF SessionInv, TurnOK, Running
<1>3. /\ mem'.generation = turn.gen
      /\ \A i \in turn.at + 1 .. Len(log') : log'[i].kind \in Silences
  BY <1>1 DEF Accepts, SameSources, Silences
<1>4. mem' = mem
  <2>1. mem.generation' = mem'.generation
    OBVIOUS
  <2>2. turn.gen # mem.generation + 1
    BY <1>2
  <2> QED
    BY <1>3, <2>1, <2>2
<1>5. IsJoin(log', log, rs) /\ Len(log) \in Nat /\ Len(rs) \in Nat
  BY Joined, LogDomain, Basics
<1>6. ASSUME NEW i \in 1 .. Len(rs)
      PROVE  rs[i].kind \in Silences
  <2>1. Len(log) + i \in turn.at + 1 .. Len(log') /\ log'[Len(log) + i] = rs[i]
    BY <1>2, <1>5 DEF IsJoin
  <2> QED
    BY <1>3, <2>1
<1>7. \A i \in turn.at + 1 .. Len(log) : log[i].kind \in Silences
  <2>1. \A i \in turn.at + 1 .. Len(log) : i \in turn.at + 1 .. Len(log') /\ log'[i] = log[i]
    BY <1>2, <1>5 DEF IsJoin
  <2> QED
    BY <1>3, <2>1
<1>8. Accepts
  BY <1>3, <1>4, <1>7 DEF Accepts, SameSources, Silences
<1>9. View(log', mem) = View(log, mem)
  <2>1. FileOK(log, next) /\ FileOK(log', next')
    BY DEF SessionInv
  <2> QED
    BY <1>6, <2>1, SilentView
<1> QED
  BY <1>1, <1>4, <1>8, <1>9 DEF AskedInv

LEMMA AskedKept ==
  ASSUME SessionInv, SessionInv', AskedInv, [Next]_vars
  PROVE  AskedInv'
<1> DEFINE Adds == \E rs : IsLog(rs) /\ log' = log \o rs
<1>0. ASSUME NEW rs, Grows(rs)
      PROVE  Adds
  BY <1>0 DEF Grows, Fresh
<1>a. ASSUME Adds, UNCHANGED turn, UNCHANGED mem \/ mem.generation' = mem.generation + 1
      PROVE  AskedInv'
  BY <1>a, AskedStays
<1> HIDE DEF Adds
<1>1. CASE UNCHANGED vars
  BY <1>1 DEF vars, AskedInv, Running, Accepts, SameSources
<1>2. CASE TurnStep
  <2>1. /\ (\E rs : Says(rs)) \/ (\E e : Marks(e))
        /\ UNCHANGED mem
    BY <1>2, TurnStepClass
  <2>2. Adds
    BY <1>0, <2>1, ClassesGrow
  <2>3. CASE Request
    <3>1. turn' = [phase |-> "model", at |-> Len(log), gen |-> mem.generation,
                   ids |-> {}, base |-> ViewLineage(View(log, mem))]
      BY <2>3 DEF Request
    <3>2. turn'.base = ViewLineage(View(log, mem))
      BY <3>1
    <3>3. log' = log /\ mem' = mem
      BY <2>3 DEF Request
    <3> QED
      BY <3>2, <3>3 DEF AskedInv
  <2>4. CASE Call
    <3>1. PICK ids : turn' = [turn EXCEPT !.phase = "tools", !.at = 0, !.ids = ids,
                                          !.base = @ \cup {next}]
      BY <2>4 DEF Call
    <3>2. turn'.phase # "model"
      <4>1. turn'.phase = "tools" \/ turn'.phase = turn.phase
        BY <3>1
      <4>2. DOMAIN turn' = DOMAIN turn
        BY <3>1
      <4>3. CASE "phase" \in DOMAIN turn
        BY <3>1, <4>3
      <4>4. CASE "phase" \notin DOMAIN turn
        BY <3>1, <4>4
      <4> QED
        BY <4>3, <4>4
    <3> QED
      BY <3>2 DEF AskedInv, Running
  <2>5. CASE turn' = NoTurn
    BY <2>5 DEF AskedInv, Running
  <2>6. CASE UNCHANGED turn
    BY <1>a, <2>1, <2>2, <2>6
  <2>7. CASE NextRound
    BY <2>7 DEF NextRound, AskedInv, Running
  <2>8. CASE Submit
    BY <2>8 DEF Submit, AskedInv, Running
  <2> QED
    BY <1>2, <2>3, <2>4, <2>5, <2>6, <2>7, <2>8
    DEF TurnStep, Steer, Deliver, Refused, Answer, Discard, ProviderFails, CancelModel,
        ToolsReturn, CancelTools, CancelBetween, EndTurn
<1>3. CASE Command
  <2>1. Adds
    BY <1>0, <1>3, CommandClass, ClassesGrow
  <2>2. UNCHANGED turn
    BY <1>3 DEF Command, Forget, Undo, Redo, Rewind, Clear, Record
  <2>3. UNCHANGED mem \/ mem.generation' = mem.generation + 1
    BY <1>3 DEF Command, Forget, Undo, Redo, Rewind, Clear, Record
  <2> QED
    BY <1>a, <2>1, <2>2, <2>3
<1>4. CASE Crash
  BY <1>4 DEF Crash, AskedInv, Running
<1>5. ASSUME NEW k \in Compactors, CompactBegins(k)
      PROVE  AskedInv'
  BY <1>5 DEF CompactBegins, AskedInv, Running, Accepts, SameSources
<1>6. ASSUME NEW k \in Compactors, CompactEnds(k) \/ CompactFails(k)
      PROVE  AskedInv'
  <2>1. PICK e : Marks(e)
    BY <1>6, CompactEndClass
  <2>2. Adds /\ UNCHANGED mem
    BY <1>0, <2>1 DEF Marks
  <2>3. turn' = NoTurn \/ UNCHANGED turn
    BY <1>6 DEF CompactEnds, CompactFails, HandBack, EndTurn
  <2>4. CASE turn' = NoTurn
    BY <2>4 DEF AskedInv, Running
  <2>5. CASE UNCHANGED turn
    BY <1>a, <2>2, <2>5
  <2> QED
    BY <2>3, <2>4, <2>5
<1> QED
  BY <1>1, <1>2, <1>3, <1>4, <1>5, <1>6 DEF Next

LEMMA LastIs ==
  ASSUME NEW l, IsLog(l), NEW rs, IsLog(rs), Len(rs) # 0, NEW k, k = l \o rs
  PROVE  k[Len(k)] = rs[Len(rs)]
<1>1. IsJoin(k, l, rs) /\ Len(l) \in Nat /\ Len(rs) \in Nat
  BY Joined, LogDomain
<1>2. Len(rs) \in 1 .. Len(rs) /\ Len(k) = Len(l) + Len(rs)
  BY <1>1 DEF IsJoin
<1> QED
  BY <1>1, <1>2 DEF IsJoin

\* Of all steps beside a request, none leaves an answer or a call behind it.
LEMMA NoOtherAnswers ==
  ASSUME SessionInv, [Next]_vars, Running({"model"}), ~Answer, ~Call,
         Len(log') > Len(log)
  PROVE  log'[Len(log')].kind \notin {"asst", "call"}
<1> DEFINE last == log'[Len(log')]
           Good == last.kind \notin {"asst", "call"}
<1>1. IsLog(log) /\ Len(log) \in Nat /\ ~(Len(log) > Len(log))
  BY Basics
<1>2. ASSUME NEW r, log' = log \o <<r>>, r.kind \notin {"asst", "call"}
      PROVE  Good
  <2>1. IsLog(<<r>>) /\ Len(<<r>>) # 0 /\ <<r>>[Len(<<r>>)] = r
    BY OneRecord
  <2> DEFINE rs == <<r>>
  <2>2. IsLog(rs) /\ Len(rs) # 0 /\ rs[Len(rs)] = r /\ log' = log \o rs
    BY <1>2, <2>1
  <2> HIDE DEF rs
  <2>3. last = r
    BY <1>1, <2>2, LastIs
  <2> QED
    BY <1>2, <2>3
<1>3. CASE \E e : Marks(e)
  <2>1. PICK e : log' = log \o <<e>> /\ e.kind \in MarkKinds
    BY <1>3 DEF Marks, Grows
  <2>2. e.kind \notin {"asst", "call"}
    BY <2>1 DEF MarkKinds
  <2> QED
    BY <1>2, <2>1, <2>2
<1>4. CASE Forgets
  <2>1. CASE Grows(<<>>)
    <3>1. log' = log \o <<>>
      BY <2>1 DEF Grows
    <3>2. PICK S : log \in Seq(S)
      BY <1>1 DEF IsLog
    <3>3. log' = log
      BY <3>1, <3>2, ConcatEmptySeq
    <3> QED
      BY <1>1, <3>3
  <2>2. CASE Grows(<<Event("forget", next)>>)
    <3>1. log' = log \o <<Event("forget", next)>>
      BY <2>2 DEF Grows
    <3>2. Event("forget", next).kind \notin {"asst", "call"}
      BY DEF Event
    <3> QED
      BY <1>2, <3>1, <3>2
  <2> QED
    BY <1>4, <2>1, <2>2 DEF Forgets
<1>5. CASE CutsBack
  <2>1. PICK upto : \/ Grows(<<Tombstone(next, upto)>>)
                    \/ Grows(<<Event("event", next), Tombstone(next + 1, upto)>>)
    BY <1>5 DEF CutsBack
  <2>2. CASE Grows(<<Tombstone(next, upto)>>)
    <3>1. log' = log \o <<Tombstone(next, upto)>>
      BY <2>2 DEF Grows
    <3>2. Tombstone(next, upto).kind \notin {"asst", "call"}
      BY DEF Tombstone
    <3> QED
      BY <1>2, <3>1, <3>2
  <2>3. CASE Grows(<<Event("event", next), Tombstone(next + 1, upto)>>)
    <3> DEFINE e == Event("event", next)
               t == Tombstone(next + 1, upto)
               rs == <<e, t>>
    <3>1. IsLog(rs) /\ Len(rs) # 0 /\ rs[Len(rs)] = t
      BY TwoRecords
    <3>2. t.kind \notin {"asst", "call"}
      BY DEF Tombstone
    <3>3. log' = log \o rs
      BY <2>3 DEF Grows
    <3> HIDE DEF e, t, rs
    <3>4. last = t
      BY <1>1, <3>1, <3>3, LastIs
    <3> QED
      BY <3>2, <3>4
  <2> QED
    BY <2>1, <2>2, <2>3
<1>6. CASE Redoes
  <2>1. PICK t : log' = log \o <<RedoOf(next, t.seq)>>
    BY <1>6 DEF Redoes, Grows
  <2>2. RedoOf(next, t.seq).kind \notin {"asst", "call"}
    BY DEF RedoOf
  <2> QED
    BY <1>2, <2>1, <2>2
<1>7. CASE UNCHANGED log
  <2>1. log' = log
    BY <1>7
  <2> QED
    BY <1>1, <2>1
<1>8. CASE TurnStep
  <2>1. CASE Discard
    <3>1. Marks(Event("event", next))
      BY <2>1, WritesMark DEF Discard
    <3> QED
      BY <1>3, <3>1
  <2>2. CASE ProviderFails
    <3>1. Marks(Event("provider_usage", next))
      BY <2>2, WritesMark DEF ProviderFails
    <3> QED
      BY <1>3, <3>1
  <2>3. CASE CancelModel
    <3>1. CASE \E ts \in SUBSET Tools :
                 Write(Message("part", next, turn.gen, {next} \X ts, turn.base))
      <4>1. PICK ts : Write(Message("part", next, turn.gen, {next} \X ts, turn.base))
        BY <3>1
      <4> DEFINE r == Message("part", next, turn.gen, {next} \X ts, turn.base)
      <4>2. Write(r) /\ r.kind \notin {"asst", "call"}
        BY <4>1 DEF Message
      <4> HIDE DEF r
      <4>3. log' = log \o <<r>>
        BY <1>1, <4>2, AppendedJoins DEF Write, Appended
      <4> QED
        BY <1>2, <4>2, <4>3
    <3> QED
      BY <1>7, <2>3, <3>1 DEF CancelModel
  <2>4. ~Running({"start", "ready"}) /\ ~Running({"ready"}) /\ ~Running({"tools"}) /\ turn # NoTurn
    BY DEF Running
  <2> QED
    BY <1>8, <2>1, <2>2, <2>3, <2>4
    DEF TurnStep, Submit, Steer, Deliver, Refused, Request, ToolsReturn, CancelTools,
        CancelBetween
<1>9. CASE Command
  BY <1>3, <1>4, <1>5, <1>6, <1>9, CommandClass
<1>10. CASE Crash
  <2>1. CASE log' = Append(log, Torn)
    <3>1. log' = log \o <<Torn>>
      BY <1>1, <2>1, AppendedJoins
    <3>2. Torn.kind \notin {"asst", "call"}
      BY DEF Torn
    <3> QED
      BY <1>2, <3>1, <3>2
  <2> QED
    BY <1>7, <1>10, <2>1 DEF Crash
<1>11. ASSUME NEW k \in Compactors, CompactBegins(k) \/ CompactEnds(k) \/ CompactFails(k)
       PROVE  Good
  BY <1>3, <1>7, <1>11, CompactEndClass DEF CompactBegins
<1>12. CASE UNCHANGED vars
  BY <1>7, <1>12 DEF vars
<1> QED
  BY <1>8, <1>9, <1>10, <1>11, <1>12 DEF Next

\* Whoever wrote to the session while the model was working: an answer or a
\* batch of calls is recorded only while replay shows what the request showed.
THEOREM AnswersAreAnswers == Spec => AnswersWhatIsShown
<1>1. Init => AskedInv
  BY DEF Init, AskedInv, Running
<1>2. SessionInv /\ SessionInv' /\ AskedInv /\ [Next]_vars => AskedInv'
  BY AskedKept
<1>3. SessionInv /\ AskedInv /\ [Next]_vars
        => (Running({"model"}) /\ Len(log') > Len(log)
            /\ log'[Len(log')].kind \in {"asst", "call"}
            => turn.base = ViewLineage(View(log, mem)))
  <2>1. Answer \/ Call => Accepts
    BY DEF Answer, Call
  <2> QED
    BY <2>1, NoOtherAnswers DEF AskedInv
<1>4. SessionInv /\ AskedInv /\ [Next]_vars
        => [Running({"model"}) /\ Len(log') > Len(log)
            /\ log'[Len(log')].kind \in {"asst", "call"}
            => turn.base = ViewLineage(View(log, mem))]_vars
  BY <1>3
<1> QED
  BY <1>1, <1>2, <1>4, SessionInvHolds, PTL DEF Spec, AnswersWhatIsShown
-----------------------------------------------------------------------------
(* Whole exchanges: a summary that covers a call covers what answers it.    *)
(* A call is covered first by a prefix that ends after its first result;    *)
(* later summaries are chained to that one.  A second result is a repair,   *)
(* written because replay did not show the first any more: by then either   *)
(* something was forgotten, and the repair is not shown, or a tombstone had *)
(* hidden the first result, and it breaks the chain.                        *)

Calls(l) == OfKind(l, {"call"})
Answers(l) == OfKind(l, {"tool"})
Summaries(l) == OfKind(l, {"compact"})

\* An id names the record of its call, and a result comes after it.
Named(x) ==
  /\ x.kind \in {"call", "part"} => \A id \in x.ids : id[1] = x.seq
  /\ x.kind = "tool" => x.ids # {} /\ \A id \in x.ids : id[1] < x.seq

\* b repairs a call that a has answered; without a forget, a was hidden then.
Repairs(l, g, a, b) ==
  /\ b.gen = None
  /\ g = 0 => \E d \in ActiveTombstones(l) :
                d.upto < a.seq /\ a.seq < d.seq /\ d.seq < b.seq

OnlyRepairs(l, g) ==
  \A a, b \in Answers(l) :
    a.seq < b.seq /\ a.ids \cap b.ids # {} => Repairs(l, g, a, b)

\* c, a summary or the plan of one, covers the call id of x with its result, or
\* has it from the summary before.
Within(l, g, c, x, id) ==
  \E t \in Answers(l) : /\ id \in t.ids /\ t.seq < c.keep /\ c.start <= x.seq
                        /\ g = 0 => t.seq <= c.end
Inherited(l, c, x) ==
  \E p \in Summaries(l) : p.seq = c.prior /\ p.keep <= c.keep /\ x.seq \in p.refs

Whole(l, g, c) ==
  /\ c.refs \subseteq Said(l)
  /\ \A x \in Calls(l) : x.seq \in c.refs =>
       \A id \in x.ids : Within(l, g, c, x, id) \/ Inherited(l, c, x)

BatchOpen ==
  Running({"tools"}) =>
    \A id \in turn.ids : id[1] < next /\ \A t \in Answers(log) : id \notin t.ids

NothingForgotten == mem.generation = 0 => mem.excluded = {}

ExchangeInv ==
  /\ NothingForgotten /\ BatchOpen
  /\ \A x \in Messages(log) : Named(x)
  /\ OnlyRepairs(log, mem.generation)
  /\ \A c \in Summaries(log) : Whole(log, mem.generation, c)
  /\ \A k \in Compactors :
       compacting[k] # NoPlan => Whole(log, mem.generation, compacting[k].plan)

\* A summary that may be used is not hidden itself, and the one before may be.
LEMMA ChainUnfolds ==
  ASSUME NEW C, \A c \in C : c.prior \in Nat, NEW T, NEW k \in Nat, k # 0, Chained(C, T, k)
  PROVE  \E c \in C : /\ c.seq = k /\ c.prior < k /\ ~IntersectsTombstone(c, T)
                      /\ Chained(C, T, c.prior)
<1> DEFINE Link(c, i) == c.seq = i /\ c.prior < i /\ ~IntersectsTombstone(c, T)
           Chains(K) == \A i \in K : i = 0 \/ \E c \in C : Link(c, i) /\ c.prior \in K
           Linked(i) == \E K \in SUBSET Nat : i \in K /\ Chains(K)
           Unfolds(f) == f = [i \in Nat |-> i = 0 \/ \E c \in C : Link(c, i) /\ f[c.prior]]
           u == CHOOSE f : Unfolds(f)
<1> HIDE DEF Link
<1>1. \A i \in Nat : Linked(i) <=> i = 0 \/ \E c \in C : Link(c, i) /\ Linked(c.prior)
  <2>1. ASSUME NEW i \in Nat, Linked(i), i # 0
        PROVE  \E c \in C : Link(c, i) /\ Linked(c.prior)
    BY <2>1
  <2>2. Linked(0)
    <3>1. {0} \in SUBSET Nat /\ 0 \in {0} /\ Chains({0})
      OBVIOUS
    <3> QED
      BY <3>1
  <2>3. ASSUME NEW i \in Nat, NEW c \in C, Link(c, i), Linked(c.prior)
        PROVE  Linked(i)
    <3>1. PICK K \in SUBSET Nat : c.prior \in K /\ Chains(K)
      BY <2>3
    <3> DEFINE L == K \cup {i}
    <3>2. L \in SUBSET Nat /\ i \in L
      OBVIOUS
    <3>3. Chains(L)
      BY <2>3, <3>1
    <3> QED
      BY <3>2, <3>3
  <2> QED
    BY <2>1, <2>2, <2>3
<1> HIDE DEF Linked
<1>2. \E f : Unfolds(f)
  <2> DEFINE f == [i \in Nat |-> Linked(i)]
  <2>1. \A c \in C : f[c.prior] = Linked(c.prior)
    OBVIOUS
  <2>2. \A i \in Nat : Linked(i) = (i = 0 \/ \E c \in C : Link(c, i) /\ f[c.prior])
    <3>1. ASSUME NEW i \in Nat
          PROVE  Linked(i) <=> i = 0 \/ \E c \in C : Link(c, i) /\ f[c.prior]
      BY <1>1, <2>1
    <3>2. ASSUME NEW i
          PROVE  Linked(i) \in BOOLEAN
      BY DEF Linked
    <3> HIDE DEF f
    <3> QED
      BY <3>1, <3>2, Zenon
  <2>3. Unfolds(f)
    BY <2>2
  <2> QED
    BY <2>3
<1>3. Unfolds(u)
  BY <1>2
<1>4. \A i : Chained(C, T, i) = u[i]
  BY DEF Chained, Link
<1> HIDE DEF u
<1>5. u[k]
  BY <1>4
<1>6. \E c \in C : Link(c, k) /\ u[c.prior]
  BY <1>3, <1>5
<1> QED
  BY <1>4, <1>6 DEF Link

\* Along the chain there is a summary, not undone, that covers the call with its
\* first result.
LEMMA CoveredFirst ==
  ASSUME NEW l, NEW n, NEW g, FileOK(l, n), RecordsOK(l, n, g), NEW h,
         \A c \in Summaries(l) : Whole(l, h, c),
         NEW x \in Calls(l), NEW id \in x.ids, NEW T,
         NEW c \in Summaries(l), x.seq \in c.refs, Chained(Summaries(l), T, c.seq)
  PROVE  \E p \in Summaries(l) : /\ ~IntersectsTombstone(p, T) /\ p.keep <= c.keep
                                 /\ Within(l, h, p, x, id)
<1> DEFINE Found(s) == \E p \in Summaries(l) : /\ ~IntersectsTombstone(p, T)
                                              /\ p.keep <= s.keep /\ Within(l, h, p, x, id)
           Claims(s) == x.seq \in s.refs /\ Chained(Summaries(l), T, s.seq)
           Bad == {k \in Nat : \E s \in Summaries(l) : s.seq = k /\ Claims(s) /\ ~Found(s)}
<1>1. \A s \in Summaries(l) : s.seq \in Nat \ {0} /\ s.keep \in Nat /\ s.prior \in Nat
  BY CompactSound DEF PlanOK, Summaries
<1>2. \A s, p \in Summaries(l) : s.seq = p.seq => s = p
  <2>1. "torn" \notin {"compact"}
    OBVIOUS
  <2> QED
    BY <2>1, MessagesIdentified DEF Summaries
<1>3. ASSUME Bad # {}
      PROVE  FALSE
  <2>1. PICK k \in Bad : \A j \in Bad : k <= j
    BY <1>3, LeastExists
  <2>2. PICK s \in Summaries(l) : s.seq = k /\ Claims(s) /\ ~Found(s)
    BY <2>1
  <2>3. k \in Nat /\ k # 0 /\ Chained(Summaries(l), T, k)
    BY <1>1, <2>2
  <2>4. PICK e \in Summaries(l) : /\ e.seq = k /\ e.prior < k /\ ~IntersectsTombstone(e, T)
                                  /\ Chained(Summaries(l), T, e.prior)
    BY <1>1, <2>3, ChainUnfolds
  <2>5. /\ s.prior < k /\ ~IntersectsTombstone(s, T)
        /\ Chained(Summaries(l), T, s.prior)
    BY <1>2, <2>2, <2>4
  <2>6. Within(l, h, s, x, id) \/ Inherited(l, s, x)
    BY <2>2 DEF Whole
  <2>7. ASSUME Within(l, h, s, x, id)
        PROVE  FALSE
    <3>1. s.keep <= s.keep
      BY <1>1
    <3> QED
      BY <2>2, <2>5, <2>7, <3>1
  <2>8. ASSUME Inherited(l, s, x)
        PROVE  FALSE
    <3>1. PICK p \in Summaries(l) : p.seq = s.prior /\ p.keep <= s.keep /\ x.seq \in p.refs
      BY <2>8 DEF Inherited
    <3>2. Claims(p) /\ p.seq < k /\ p.seq \in Nat
      BY <1>1, <2>5, <3>1
    <3>3. p.seq \notin Bad
      BY <2>1, <2>3, <3>2
    <3>4. Found(p)
      BY <3>2, <3>3
    <3>5. PICK q \in Summaries(l) : /\ ~IntersectsTombstone(q, T)
                                    /\ q.keep <= p.keep /\ Within(l, h, q, x, id)
      BY <3>4
    <3>6. q.keep <= s.keep
      BY <1>1, <3>1, <3>5
    <3> QED
      BY <2>2, <3>5, <3>6
  <2> QED
    BY <2>6, <2>7, <2>8
<1>4. c.seq \notin Bad /\ c.seq \in Nat /\ Claims(c)
  BY <1>1, <1>3
<1>5. Found(c)
  BY <1>4
<1> QED
  BY <1>5

LEMMA ExchangesAreWhole ==
  ASSUME SessionInv, ExchangeInv
  PROVE  ExchangesWhole
<1> DEFINE W == WorkingSummary(log, mem)
<1>0. FileOK(log, next) /\ RecordsOK(log, next, mem.generation)
  BY DEF SessionInv
<1>1. SUFFICES ASSUME NEW x \in VisibleMessages(log, mem), NEW b \in VisibleMessages(log, mem),
                      x.kind = "call", b.kind = "tool", b.ids \subseteq x.ids
               PROVE  x.seq \in UNION {c.refs : c \in W} <=> b.seq \in UNION {c.refs : c \in W}
  BY DEF ExchangesWhole
<1>2. /\ x \in Messages(log) /\ b \in Messages(log)
      /\ x \in Calls(log) /\ b \in Answers(log)
  BY <1>1, ReplayShows DEF Calls, Answers, Messages, OfKind
<1>3. Named(x) /\ Named(b)
  BY <1>2 DEF ExchangeInv
<1>4. PICK id \in b.ids : id \in x.ids /\ id[1] = x.seq /\ id[1] < b.seq
  BY <1>1, <1>3 DEF Named
<1>5. x.seq \in Nat /\ b.seq \in Nat /\ x.seq < b.seq
  BY <1>0, <1>2, <1>4, MessageSound
<1>6. x.seq \in Vis(log, mem) /\ b.seq \in Vis(log, mem)
  BY <1>1 DEF Vis, SeqsOf
<1>7. CASE W = {}
  BY <1>7
<1>8. ASSUME NEW c \in OfKind(log, {"compact"}), W = {c}, c.keep \in Nat,
             c.refs = {s \in Vis(log, mem) : s < c.keep}
      PROVE  x.seq \in UNION {e.refs : e \in W} <=> b.seq \in UNION {e.refs : e \in W}
  <2>1. UNION {e.refs : e \in W} = c.refs
    BY <1>8
  <2>2. b.seq \in c.refs => x.seq \in c.refs
    BY <1>5, <1>6, <1>8
  <2>3. ASSUME x.seq \in c.refs, b.seq \notin c.refs
        PROVE  FALSE
    <3> DEFINE T == ActiveTombstones(log)
    <3>1. c.keep <= b.seq
      BY <1>5, <1>6, <1>8, <2>3
    <3>2. c \in Summaries(log) /\ Chained(Summaries(log), T, c.seq)
      BY <1>8 DEF WorkingSummary, Summaries
    <3>3. \A e \in Summaries(log) : Whole(log, mem.generation, e)
      BY DEF ExchangeInv
    <3>4. PICK p \in Summaries(log) : /\ ~IntersectsTombstone(p, T) /\ p.keep <= c.keep
                                      /\ Within(log, mem.generation, p, x, id)
      BY <1>0, <1>2, <1>4, <2>3, <3>2, <3>3, CoveredFirst
    <3>5. PICK t \in Answers(log) : /\ id \in t.ids /\ t.seq < p.keep /\ p.start <= x.seq
                                    /\ mem.generation = 0 => t.seq <= p.end
      BY <3>4 DEF Within
    <3>6. t \in Messages(log) /\ t.kind = "tool"
      BY DEF Answers, Messages, OfKind, MessageKinds
    <3>7. t.seq \in Nat /\ x.seq < t.seq
      BY <1>0, <1>4, <3>5, <3>6, MessageSound DEF ExchangeInv, Named
    <3>8. p.keep \in Nat /\ p.start \in Nat /\ p.end \in Nat
      BY <1>0, CompactSound DEF Summaries, PlanOK
    <3>9. t.seq < b.seq
      BY <1>5, <1>8, <3>1, <3>4, <3>5, <3>7, <3>8
    <3>10. t.ids \cap b.ids # {}
      BY <1>4, <3>5
    <3>11. Repairs(log, mem.generation, t, b)
      BY <1>2, <3>9, <3>10 DEF ExchangeInv, OnlyRepairs
    <3>12. mem.generation = 0
      <4>1. Remembered(b, mem) /\ b.gen = None /\ b.kind # "user"
        BY <1>1, <3>11 DEF VisibleMessages, Repairs
      <4> QED
        BY <4>1 DEF Remembered, Epoch
    <3>13. PICK d \in T : d.upto < t.seq /\ t.seq < d.seq /\ d.seq < b.seq
      BY <3>11, <3>12 DEF Repairs
    <3>14. d.upto \in Nat /\ d.seq \in Nat
      BY <1>0, TombstonesSound
    <3>15. p.start < d.seq /\ p.end > d.upto
      BY <1>5, <3>5, <3>7, <3>8, <3>12, <3>13, <3>14
    <3> QED
      BY <3>4, <3>13, <3>15 DEF IntersectsTombstone
  <2> QED
    BY <2>1, <2>2, <2>3
<1>9. \/ W = {}
      \/ \E c \in OfKind(log, {"compact"}) :
           W = {c} /\ c.keep \in Nat /\ c.refs = {s \in Vis(log, mem) : s < c.keep}
  BY <1>0, SummaryIs
<1> QED
  BY <1>7, <1>8, <1>9

\* Records stay in the file, so whatever was covered whole stays so.
LEMMA KindsStay ==
  ASSUME NEW l, IsLog(l), NEW rs, IsLog(rs), NEW k, k = l \o rs
  PROVE  /\ Answers(l) \subseteq Answers(k) /\ Summaries(l) \subseteq Summaries(k)
         /\ Messages(l) \subseteq Messages(k) /\ Said(l) \subseteq Said(k)
<1>1. \A K : OfKind(k, K) = OfKind(l, K) \cup OfKind(rs, K)
  BY OfKindJoined
<1>2. /\ OfKind(l, {"tool"}) \subseteq OfKind(k, {"tool"})
      /\ OfKind(l, {"compact"}) \subseteq OfKind(k, {"compact"})
      /\ OfKind(l, MessageKinds) \subseteq OfKind(k, MessageKinds)
  BY <1>1
<1> QED
  BY <1>2 DEF Answers, Summaries, Messages, Said, SeqsOf

LEMMA WholeStays ==
  ASSUME NEW l, NEW n, NEW g, FileOK(l, n), RecordsOK(l, n, g),
         NEW rs, IsLog(rs), NEW k, k = l \o rs,
         \A x \in Messages(k) : x \in Messages(l) \/ (n <= x.seq /\ x.seq \in Nat),
         NEW i, NEW j, j = 0 => i = 0, NEW c, Whole(l, i, c)
  PROVE  Whole(k, j, c)
<1>1. /\ Answers(l) \subseteq Answers(k) /\ Summaries(l) \subseteq Summaries(k)
      /\ Said(l) \subseteq Said(k)
  BY KindsStay DEF FileOK
<1>2. c.refs \subseteq Said(k)
  BY <1>1 DEF Whole
<1>3. ASSUME NEW x \in Calls(k), x.seq \in c.refs, NEW id \in x.ids
      PROVE  Within(k, j, c, x, id) \/ Inherited(k, c, x)
  <2>1. x \in Messages(k) /\ x.kind = "call"
    BY DEF Calls, Messages, OfKind, MessageKinds
  <2>2. PICK y \in Messages(l) : y.seq = x.seq
    BY <1>3 DEF Whole, Said, SeqsOf
  <2>3. y.seq \in Nat /\ y.seq < n /\ n \in Nat
    BY <2>2, MessageSound DEF FileOK
  <2>4. x \in Messages(l)
    BY <2>1, <2>2, <2>3
  <2>5. x \in Calls(l)
    BY <2>1, <2>4 DEF Calls, Messages, OfKind
  <2>6. Within(l, i, c, x, id) \/ Inherited(l, c, x)
    BY <1>3, <2>5 DEF Whole
  <2>7. Within(l, i, c, x, id) => Within(k, j, c, x, id)
    BY <1>1 DEF Within
  <2>8. Inherited(l, c, x) => Inherited(k, c, x)
    BY <1>1 DEF Inherited
  <2> QED
    BY <2>6, <2>7, <2>8
<1> QED
  BY <1>2, <1>3 DEF Whole

\* A step that writes no result, and takes back no tombstone before one.
LEMMA RepairsStay ==
  ASSUME NEW l, NEW k, NEW g, NEW h, h = 0 => g = 0, OnlyRepairs(l, g),
         Answers(k) \subseteq Answers(l),
         \A d \in ActiveTombstones(l), b \in Answers(l) :
           d.seq < b.seq => d \in ActiveTombstones(k)
  PROVE  OnlyRepairs(k, h)
<1> SUFFICES ASSUME NEW a \in Answers(k), NEW b \in Answers(k),
                    a.seq < b.seq, a.ids \cap b.ids # {}
             PROVE  Repairs(k, h, a, b)
  BY DEF OnlyRepairs
<1>1. Repairs(l, g, a, b)
  BY DEF OnlyRepairs
<1>2. b \in Answers(l)
  OBVIOUS
<1> QED
  BY <1>1, <1>2 DEF Repairs

LEMMA TombstonesStay ==
  ASSUME NEW l, IsLog(l), NEW rs, IsLog(rs), NEW k, k = l \o rs,
         OfKind(k, {"redo"}) \subseteq OfKind(l, {"redo"})
  PROVE  ActiveTombstones(l) \subseteq ActiveTombstones(k)
<1>1. OfKind(l, {"undo"}) \subseteq OfKind(k, {"undo"})
  <2>1. OfKind(k, {"undo"}) = OfKind(l, {"undo"}) \cup OfKind(rs, {"undo"})
    BY OfKindJoined
  <2> QED
    BY <2>1
<1> QED
  BY <1>1 DEF ActiveTombstones

\* The tombstone a redo takes back is the last record of the conversation.
LEMMA RedoIsLast ==
  ASSUME NEW l, NEW n, NEW g, FileOK(l, n), RecordsOK(l, n, g),
         NEW t \in Redoable(l), NEW b \in Answers(l)
  PROVE  b.seq <= t.seq
<1>1. PICK i \in 1 .. Len(l) : l[i] = b /\ b.kind = "tool"
  BY OfKindIs DEF Answers
<1>2. b # Torn /\ i \in Kept(l)
  BY <1>1 DEF Kept, Torn, Bookkeeping
<1>3. t = l[Largest(Kept(l))]
  BY <1>2, RedoableIs
<1>4. Len(l) \in Nat /\ Kept(l) \in SUBSET Nat /\ \A j \in Kept(l) : j <= Len(l)
  BY LogDomain DEF FileOK, Kept
<1>5. Largest(Kept(l)) \in Kept(l) /\ i <= Largest(Kept(l))
  BY <1>2, <1>4, LargestExists
<1> DEFINE j == Largest(Kept(l))
<1>6. j \in 1 .. Len(l) /\ l[j] # Torn /\ l[j] = t /\ i <= j
  BY <1>3, <1>5 DEF Kept
<1> HIDE DEF j
<1>7. l[i].seq \in Nat /\ l[j].seq \in Nat
  BY <1>1, <1>2, <1>6 DEF FileOK
<1>8. i = j \/ i < j
  BY <1>4, <1>6
<1>9. i < j => l[i].seq < l[j].seq
  BY <1>1, <1>2, <1>6 DEF FileOK
<1> QED
  BY <1>1, <1>6, <1>7, <1>8, <1>9

LEMMA RedoKeepsOthers ==
  ASSUME NEW l, NEW n, NEW g, FileOK(l, n), RecordsOK(l, n, g),
         NEW t \in Redoable(l), NEW k, k = l \o <<RedoOf(n, t.seq)>>,
         NEW d \in ActiveTombstones(l), NEW b \in Answers(l), d.seq < b.seq
  PROVE  d \in ActiveTombstones(k)
<1> DEFINE r == RedoOf(n, t.seq)
<1>1. b.seq <= t.seq
  BY RedoIsLast
<1>2. d.seq \in Nat /\ t.seq \in Nat /\ b.seq \in Nat
  <2>1. t \in ActiveTombstones(l)
    BY RedoableIs
  <2>2. b \in Messages(l)
    BY DEF Answers, Messages, OfKind, MessageKinds
  <2> QED
    BY <2>1, <2>2, TombstonesSound, MessageSound
<1>3. d.seq # t.seq
  BY <1>1, <1>2
<1>4. \A K : OfKind(k, K) = OfKind(l, K) \cup OfKind(<<r>>, K)
  BY OneRecord, OfKindJoined DEF FileOK
<1>5. OfKind(l, {"undo"}) \subseteq OfKind(k, {"undo"})
  BY <1>4
<1>6. OfKind(k, {"redo"}) \subseteq OfKind(l, {"redo"}) \cup {r}
  <2>1. OfKind(<<r>>, {"redo"}) \subseteq {r}
    BY OfKindOne
  <2>2. OfKind(k, {"redo"}) = OfKind(l, {"redo"}) \cup OfKind(<<r>>, {"redo"})
    BY <1>4
  <2> QED
    BY <2>1, <2>2
<1>7. r.cancels = t.seq
  BY DEF RedoOf
<1> HIDE DEF r
<1> QED
  BY <1>3, <1>5, <1>6, <1>7 DEF ActiveTombstones

\* A step that writes messages whose calls have the names they should, and one
\* that writes no result, redo or summary besides.
OnlyNamed ==
  \A x \in Messages(log') : x \in Messages(log) \/ (Named(x) /\ next <= x.seq /\ x.seq \in Nat)
NoSummary == Summaries(log') \subseteq Summaries(log)
NoResult ==
  /\ Answers(log') \subseteq Answers(log)
  /\ OfKind(log', {"redo"}) \subseteq OfKind(log, {"redo"})
PlainStep == OnlyNamed /\ NoSummary /\ NoResult

Plain(r) ==
  /\ r.kind \notin {"tool", "redo", "compact"}
  /\ r.kind \in MessageKinds => Named(r) /\ next <= r.seq /\ r.seq \in Nat

LEMMA OneIsPlain ==
  ASSUME SessionInv, NEW r, Write(r), Plain(r)
  PROVE  PlainStep
<1>1. ASSUME NEW K, NEW x \in OfKind(log', K)
      PROVE  x.kind \in K /\ (x \in OfKind(log, K) \/ x = r)
  BY <1>1, WrittenOne DEF OfKind
<1>2. OnlyNamed
  BY <1>1 DEF OnlyNamed, Messages, Plain
<1>3. NoSummary
  BY <1>1 DEF NoSummary, Summaries, Plain
<1>4. NoResult
  BY <1>1 DEF NoResult, Answers, Plain
<1> QED
  BY <1>2, <1>3, <1>4 DEF PlainStep

LEMMA AllArePlain ==
  ASSUME SessionInv, NEW rs, IsLog(rs), WriteAll(rs), \A i \in 1 .. Len(rs) : Plain(rs[i])
  PROVE  PlainStep
<1>1. ASSUME NEW K, NEW x \in OfKind(log', K)
      PROVE  x.kind \in K /\ (x \in OfKind(log, K) \/ Plain(x))
  BY <1>1, WrittenAll DEF OfKind
<1>2. OnlyNamed
  BY <1>1 DEF OnlyNamed, Messages, Plain
<1>3. NoSummary
  BY <1>1 DEF NoSummary, Summaries, Plain
<1>4. NoResult
  BY <1>1 DEF NoResult, Answers, Plain
<1> QED
  BY <1>2, <1>3, <1>4 DEF PlainStep

LEMMA NothingIsPlain ==
  ASSUME UNCHANGED log
  PROVE  PlainStep
<1>1. \A K : OfKind(log', K) = OfKind(log, K)
  OBVIOUS
<1> QED
  BY <1>1 DEF PlainStep, OnlyNamed, NoSummary, NoResult, Messages, Summaries, Answers

LEMMA EventIsPlain ==
  ASSUME NEW kind \in Bookkeeping \cup {"clear", "event", "worker"}, NEW seq
  PROVE  Plain(Event(kind, seq))
BY DEF Plain, Event, MessageKinds, Bookkeeping

LEMMA TombstoneIsPlain ==
  ASSUME NEW seq, NEW upto
  PROVE  Plain(Tombstone(seq, upto))
BY DEF Plain, Tombstone, MessageKinds

LEMMA MessageIsPlain ==
  ASSUME NEW kind \in MessageKinds \ {"tool"}, NEW gen, NEW ids, NEW from, next \in Nat,
         kind \in {"call", "part"} => \A id \in ids : id[1] = next
  PROVE  Plain(Message(kind, next, gen, ids, from))
<1> DEFINE r == Message(kind, next, gen, ids, from)
<1>1. r.kind = kind /\ r.seq = next /\ r.ids = ids /\ next <= next
  BY DEF Message
<1> HIDE DEF r
<1>2. Named(r)
  BY <1>1 DEF Named
<1>3. r.kind \notin {"tool", "redo", "compact"}
  BY <1>1 DEF MessageKinds
<1> QED
  BY <1>1, <1>2, <1>3 DEF Plain, r

\* What a call is given is named after it.
LEMMA IdsOfNext == \A ts : \A id \in {next} \X ts : id[1] = next
OBVIOUS

\* The steps of the runner that write no result.
LEMMA TurnStepIsPlain ==
  ASSUME SessionInv, TurnStep, ~Submit, ~ToolsReturn, ~CancelTools
  PROVE  PlainStep
<1>0. next \in Nat
  BY Basics
<1>1. CASE Steer
  <2>1. Plain(Message("user", next, None, {}, {}))
    BY <1>0, MessageIsPlain DEF MessageKinds
  <2> QED
    BY <1>1, <2>1, OneIsPlain DEF Steer
<1>2. CASE Deliver
  <2>1. PICK c, gen : Write(Message("user", next, gen, {}, c.from))
    BY <1>2 DEF Deliver
  <2>2. Plain(Message("user", next, gen, {}, c.from))
    BY <1>0, MessageIsPlain DEF MessageKinds
  <2> QED
    BY <2>1, <2>2, OneIsPlain
<1>3. CASE Refused \/ Request \/ CancelBetween
  BY <1>3, NothingIsPlain DEF Refused, Request, CancelBetween
<1>4. CASE Answer
  <2>1. Plain(Message("asst", next, turn.gen, {}, turn.base))
    BY <1>0, MessageIsPlain DEF MessageKinds
  <2> QED
    BY <1>4, <2>1, OneIsPlain DEF Answer
<1>5. CASE Call
  <2>1. PICK ts : Write(Message("call", next, turn.gen, {next} \X ts, turn.base))
    BY <1>5 DEF Call
  <2>2. Plain(Message("call", next, turn.gen, {next} \X ts, turn.base))
    BY <1>0, IdsOfNext, MessageIsPlain DEF MessageKinds
  <2> QED
    BY <2>1, <2>2, OneIsPlain
<1>6. CASE Discard
  BY <1>6, EventIsPlain, OneIsPlain DEF Discard
<1>7. CASE ProviderFails
  BY <1>7, EventIsPlain, OneIsPlain DEF ProviderFails, Bookkeeping
<1>8. CASE CancelModel
  <2>1. CASE UNCHANGED <<log, next>>
    BY <2>1, NothingIsPlain
  <2>2. CASE \E ts \in SUBSET Tools :
               Write(Message("part", next, turn.gen, {next} \X ts, turn.base))
    <3>1. PICK ts : Write(Message("part", next, turn.gen, {next} \X ts, turn.base))
      BY <2>2
    <3>2. Plain(Message("part", next, turn.gen, {next} \X ts, turn.base))
      BY <1>0, IdsOfNext, MessageIsPlain DEF MessageKinds
    <3> QED
      BY <3>1, <3>2, OneIsPlain
  <2> QED
    BY <1>8, <2>1, <2>2 DEF CancelModel
<1> QED
  BY <1>1, <1>2, <1>3, <1>4, <1>5, <1>6, <1>7, <1>8 DEF TurnStep

\* Commands write no result either; /redo writes a redo.
LEMMA CommandIsPlain ==
  ASSUME SessionInv, Undo \/ Rewind \/ Clear \/ Record \/ Forget
  PROVE  PlainStep
<1>1. CASE Undo
  BY <1>1, TombstoneIsPlain, OneIsPlain DEF Undo
<1>2. CASE Rewind
  <2>1. PICK m : WriteAll(<<Event("event", next), Tombstone(next + 1, m.seq)>>)
    BY <1>2 DEF Rewind
  <2> DEFINE e == Event("event", next)
             t == Tombstone(next + 1, m.seq)
             rs == <<e, t>>
  <2>2. IsLog(rs) /\ Len(rs) = 2 /\ rs[1] = e /\ rs[2] = t
    BY TwoRecords
  <2>3. Plain(e) /\ Plain(t) /\ WriteAll(rs)
    BY <2>1, EventIsPlain, TombstoneIsPlain
  <2> HIDE DEF e, t, rs
  <2>4. \A i \in 1 .. Len(rs) : i = 1 \/ i = 2
    BY <2>2
  <2>5. \A i \in 1 .. Len(rs) : Plain(rs[i])
    BY <2>2, <2>3, <2>4
  <2> QED
    BY <2>2, <2>3, <2>5, AllArePlain
<1>3. CASE Clear
  BY <1>3, EventIsPlain, OneIsPlain DEF Clear
<1>4. CASE Record
  BY <1>4, EventIsPlain, OneIsPlain DEF Record
<1>5. CASE Forget
  <2>1. UNCHANGED log \/ Write(Event("forget", next))
    BY <1>5 DEF Forget
  <2>2. Plain(Event("forget", next))
    BY EventIsPlain DEF Bookkeeping
  <2> QED
    BY <2>1, <2>2, OneIsPlain, NothingIsPlain
<1> QED
  BY <1>1, <1>2, <1>3, <1>4, <1>5

LEMMA RedoIsNamed ==
  ASSUME SessionInv, Redo
  PROVE  /\ OnlyNamed /\ NoSummary /\ Answers(log') \subseteq Answers(log)
         /\ \E t \in Redoable(log) : log' = log \o <<RedoOf(next, t.seq)>>
<1>1. PICK t \in Redoable(log) : Write(RedoOf(next, t.seq))
  BY DEF Redo
<1> DEFINE r == RedoOf(next, t.seq)
<1>2. r.kind = "redo" /\ Write(r)
  BY <1>1 DEF RedoOf
<1>3. log' = log \o <<r>>
  BY <1>2, AppendedJoins, Basics DEF Write, Appended
<1> HIDE DEF r
<1>4. ASSUME NEW K, NEW x \in OfKind(log', K)
      PROVE  x.kind \in K /\ (x \in OfKind(log, K) \/ x = r)
  BY <1>2, <1>4, WrittenOne DEF OfKind
<1>5. OnlyNamed
  BY <1>2, <1>4 DEF OnlyNamed, Messages, MessageKinds
<1>6. NoSummary /\ Answers(log') \subseteq Answers(log)
  BY <1>2, <1>4 DEF NoSummary, Summaries, Answers
<1> QED
  BY <1>3, <1>5, <1>6 DEF r

\* What a step that records results may append: prompts, and results of calls
\* whose earlier results, if any, they repair.
Answering(r) ==
  /\ r.kind \in {"user", "tool"} /\ Named(r) /\ next <= r.seq /\ r.seq \in Nat
  /\ r.kind = "tool" =>
       \A a \in Answers(log) :
         a.ids \cap r.ids # {} => Repairs(log, mem.generation, a, r)

LEMMA RepairsInLonger ==
  ASSUME NEW l, NEW k, NEW g, NEW a, NEW b, Repairs(l, g, a, b),
         ActiveTombstones(l) \subseteq ActiveTombstones(k)
  PROVE  Repairs(k, g, a, b)
BY DEF Repairs

LEMMA AnswersWritten ==
  ASSUME SessionInv, OnlyRepairs(log, mem.generation), NEW rs, IsLog(rs), WriteAll(rs),
         \A i \in 1 .. Len(rs) : Answering(rs[i]),
         \A i, j \in 1 .. Len(rs) :
           rs[i].kind = "tool" /\ rs[j].kind = "tool" /\ i # j => rs[i].ids \cap rs[j].ids = {}
  PROVE  OnlyNamed /\ NoSummary /\ OnlyRepairs(log', mem.generation)
<1>1. ASSUME NEW K, NEW x \in OfKind(log', K)
      PROVE  x.kind \in K /\ (x \in OfKind(log, K) \/ \E i \in 1 .. Len(rs) : x = rs[i])
  BY <1>1, WrittenAll DEF OfKind
<1>2. OnlyNamed
  BY <1>1 DEF OnlyNamed, Messages, Answering
<1>3. NoSummary
  BY <1>1 DEF NoSummary, Summaries, Answering
<1>4. OfKind(log', {"redo"}) \subseteq OfKind(log, {"redo"})
  BY <1>1 DEF Answering
<1> DEFINE k == log'
           g == mem.generation
<1>5. ActiveTombstones(log) \subseteq ActiveTombstones(k)
  <2>1. k = log \o rs /\ IsLog(log)
    BY WriteAllJoins, Basics DEF WriteAll
  <2> QED
    BY <1>4, <2>1, TombstonesStay
<1>6. ASSUME NEW a \in Answers(k)
      PROVE  \/ a \in Answers(log)
             \/ \E i \in 1 .. Len(rs) : a = rs[i] /\ a.kind = "tool"
  BY <1>1, <1>6 DEF Answers
<1>7. \A a \in Answers(log) : a.seq \in Nat /\ a.seq < next
  <2>1. \A a \in Answers(log) : a \in Messages(log)
    BY DEF Answers, Messages, OfKind, MessageKinds
  <2> QED
    BY <2>1, MessageSound DEF SessionInv
<1>8. next \in Nat
  BY Basics
<1> HIDE DEF k
<1>9. ASSUME NEW a \in Answers(k), NEW b \in Answers(k),
             a.seq < b.seq, a.ids \cap b.ids # {}
      PROVE  Repairs(k, g, a, b)
  <2>1. CASE a \in Answers(log) /\ b \in Answers(log)
    <3>1. Repairs(log, g, a, b)
      BY <1>9, <2>1 DEF OnlyRepairs
    <3> QED
      BY <1>5, <3>1, RepairsInLonger
  <2>2. CASE a \in Answers(log) /\ \E i \in 1 .. Len(rs) : b = rs[i] /\ b.kind = "tool"
    <3>1. Repairs(log, g, a, b)
      BY <1>9, <2>2 DEF Answering
    <3> QED
      BY <1>5, <3>1, RepairsInLonger
  <2>3. CASE b \in Answers(log) /\ \E i \in 1 .. Len(rs) : a = rs[i] /\ a.kind = "tool"
    <3>1. next <= a.seq /\ a.seq \in Nat
      BY <2>3 DEF Answering
    <3> QED
      BY <1>7, <1>8, <1>9, <2>3, <3>1
  <2>4. CASE /\ \E i \in 1 .. Len(rs) : a = rs[i] /\ a.kind = "tool"
             /\ \E i \in 1 .. Len(rs) : b = rs[i] /\ b.kind = "tool"
    <3>1. PICK i \in 1 .. Len(rs) : a = rs[i] /\ a.kind = "tool"
      BY <2>4
    <3>2. PICK j \in 1 .. Len(rs) : b = rs[j] /\ b.kind = "tool"
      BY <2>4
    <3>3. a.seq \in Nat
      BY <3>1 DEF Answering
    <3>4. i # j
      BY <1>9, <3>1, <3>2, <3>3
    <3> QED
      BY <1>9, <3>1, <3>2, <3>4
  <2> QED
    BY <1>6, <2>1, <2>2, <2>3, <2>4
<1>10. OnlyRepairs(k, g)
  BY <1>9 DEF OnlyRepairs
<1> QED
  BY <1>2, <1>3, <1>10 DEF k

\* The results of a batch: no call of it has been answered before.
LEMMA ResultsArePaired ==
  ASSUME SessionInv, ExchangeInv, Running({"tools"}), NEW ids, ids \subseteq turn.ids,
         WriteAll(Results(ids, turn.gen, turn.base))
  PROVE  OnlyNamed /\ NoSummary /\ OnlyRepairs(log', mem.generation)
<1> DEFINE rs == Results(ids, turn.gen, turn.base)
           order == SetToSeq(ids)
<1>1. IsFiniteSet(ids)
  BY FS_Subset DEF SessionInv, TurnOK, Running
<1>2. IsLog(rs)
  BY <1>1, ResultsAre
<1>3. /\ Len(order) \in Nat /\ \A i \in 1 .. Len(order) : order[i] \in ids
      /\ \A i, j \in 1 .. Len(order) : order[i] = order[j] => i = j
  BY <1>1, Listed, LenProperties
<1>4. rs = [i \in 1 .. Len(order) |->
              Message("tool", next + i - 1, turn.gen, {order[i]}, turn.base)]
  BY DEF Results
<1>5. Len(rs) = Len(order)
  BY <1>3, <1>4, FunctionIsLog
<1>6. \A id \in ids : id[1] < next /\ \A t \in Answers(log) : id \notin t.ids
  BY DEF ExchangeInv, BatchOpen
<1>7. next \in Nat
  BY Basics
<1>8. \A id \in ids : id[1] \in Nat
  BY DEF SessionInv, TurnOK, Running, CallIds
<1>9. WriteAll(rs)
  OBVIOUS
<1> HIDE DEF order
<1>10. ASSUME NEW i \in 1 .. Len(rs)
       PROVE  rs[i].kind = "tool" /\ rs[i].seq = next + i - 1 /\ rs[i].ids = {order[i]}
  <2>1. i \in 1 .. Len(order)
    BY <1>5
  <2>2. rs[i] = Message("tool", next + i - 1, turn.gen, {order[i]}, turn.base)
    BY <1>4, <2>1
  <2> QED
    BY <2>2 DEF Message
<1> HIDE DEF rs
<1>11. ASSUME NEW i \in 1 .. Len(rs)
       PROVE  Answering(rs[i])
  <2>1. order[i] \in ids
    BY <1>3, <1>5
  <2>2. i \in Nat /\ i >= 1
    BY <1>3, <1>5
  <2>3. rs[i].seq \in Nat /\ next <= rs[i].seq
    BY <1>7, <1>10, <2>2
  <2>4. order[i][1] \in Nat /\ order[i][1] < next
    BY <1>6, <1>8, <2>1
  <2>5. order[i][1] < rs[i].seq
    BY <1>7, <2>3, <2>4
  <2>6. Named(rs[i])
    BY <1>10, <2>5 DEF Named
  <2>7. \A a \in Answers(log) : a.ids \cap rs[i].ids = {}
    BY <1>6, <1>10, <2>1
  <2> QED
    BY <1>10, <2>3, <2>6, <2>7 DEF Answering
<1>12. ASSUME NEW i \in 1 .. Len(rs), NEW j \in 1 .. Len(rs), i # j
       PROVE  rs[i].ids \cap rs[j].ids = {}
  BY <1>3, <1>5, <1>10, <1>12
<1>13. OnlyRepairs(log, mem.generation)
  BY DEF ExchangeInv
<1> QED
  BY <1>2, <1>9, <1>11, <1>12, <1>13, AnswersWritten

LEMMA ClearTyped ==
  ASSUME NEW l, NEW n, FileOK(l, n)
  PROVE  LastClear(l) \in Nat
<1> DEFINE S == {0} \cup SeqsOf(OfKind(l, {"clear"}))
<1>1. ASSUME NEW c \in OfKind(l, {"clear"})
      PROVE  c.seq \in Nat /\ c.seq <= n
  <2>1. PICK i \in 1 .. Len(l) : l[i] = c /\ c.kind = "clear"
    BY OfKindIs
  <2>2. c # Torn
    BY <2>1 DEF Torn
  <2>3. c.seq \in Nat /\ c.seq < n /\ n \in Nat
    BY <2>1, <2>2 DEF FileOK
  <2> QED
    BY <2>3
<1>2. n \in Nat /\ 0 \in S
  BY DEF FileOK
<1>3. S \in SUBSET Nat /\ \A x \in S : x <= n
  BY <1>1, <1>2 DEF SeqsOf
<1> HIDE DEF S
<1>4. Largest(S) \in S
  BY <1>2, <1>3, LargestExists
<1> QED
  BY <1>3, <1>4 DEF LastClear, S

\* A message after one that replay reads is read as well, unless it was undone.
LEMMA ReadAfter ==
  ASSUME NEW l, NEW n, NEW g, FileOK(l, n), RecordsOK(l, n, g),
         NEW x \in Structure(l), NEW a \in Messages(l), x.seq < a.seq,
         ~IsHidden(a.seq, ActiveTombstones(l))
  PROVE  a \in Structure(l)
<1>1. x \in Messages(l) /\ x.seq > LastClear(l)
  BY DEF Structure, LoadMessages
<1>2. x.seq \in Nat /\ a.seq \in Nat /\ LastClear(l) \in Nat
  BY <1>1, MessageSound, ClearTyped
<1>3. a.seq > LastClear(l)
  BY <1>1, <1>2
<1> QED
  BY <1>3 DEF Structure, LoadMessages

\* Before the first forget replay shows all it reads.
LEMMA NothingFiltered ==
  ASSUME SessionInv, NothingForgotten, mem.generation = 0
  PROVE  Structure(log) \subseteq VisibleMessages(log, mem)
<1>1. mem.excluded = {}
  BY DEF NothingForgotten
<1>2. ASSUME NEW x \in Structure(log)
      PROVE  Epoch(x) = 0
  <2>1. x.gen = None \/ (x.gen \in Nat /\ x.gen <= 0)
    BY ReplayShows, MessageSound DEF SessionInv
  <2>2. \A k \in Nat : k <= 0 => k = 0
    OBVIOUS
  <2> QED
    BY <2>1, <2>2 DEF Epoch
<1> QED
  BY <1>1, <1>2 DEF VisibleMessages, Remembered

\* Replay shows a call without a result: it was recorded before, and a result
\* it has nevertheless is hidden by a tombstone, or a fact was forgotten.
LEMMA RepairIsOne ==
  ASSUME SessionInv, ExchangeInv, NEW id \in Outstanding(log, mem)
  PROVE  /\ id[1] \in Nat /\ id[1] < next
         /\ \A b : \A a \in Answers(log) :
              id \in a.ids /\ b.gen = None /\ b.seq \in Nat /\ next <= b.seq
              => Repairs(log, mem.generation, a, b)
<1> DEFINE raw == View(log, mem).raw
           W == WorkingSummary(log, mem)
           T == ActiveTombstones(log)
<1>0. FileOK(log, next) /\ RecordsOK(log, next, mem.generation) /\ next \in Nat
  BY Basics DEF SessionInv
<1>1. PICK x \in raw : x.kind \in {"call", "part"} /\ id \in x.ids
  BY DEF Outstanding
<1>2. \A t \in raw : t.kind = "tool" => id \notin t.ids
  BY DEF Outstanding
<1>3. /\ raw = {m \in VisibleMessages(log, mem) : m.seq >= KeepFrom(W)}
      /\ KeepFrom(W) \in Nat
  <2>1. raw = {m \in VisibleMessages(log, mem) : m.seq >= KeepFrom(W)}
    BY DEF View
  <2>2. KeepFrom(W) \in Nat
    BY <1>0, SummaryIs
  <2> QED
    BY <2>1, <2>2
<1> HIDE DEF raw, W
<1>4. x \in VisibleMessages(log, mem) /\ x \in Structure(log) /\ x \in Messages(log)
  BY <1>3, ReplayShows
<1>5. id[1] = x.seq
  BY <1>1, <1>4 DEF ExchangeInv, Named
<1>6. x.seq \in Nat /\ x.seq < next
  BY <1>0, <1>4, MessageSound
<1>7. ASSUME NEW a \in Answers(log), NEW b, id \in a.ids, b.gen = None,
             b.seq \in Nat, next <= b.seq, mem.generation = 0
      PROVE  \E d \in T : d.upto < a.seq /\ a.seq < d.seq /\ d.seq < b.seq
  <2>1. a \in Messages(log) /\ a.kind = "tool"
    BY DEF Answers, Messages, OfKind, MessageKinds
  <2>2. a.seq \in Nat /\ x.seq < a.seq
    BY <1>0, <1>5, <1>7, <2>1, MessageSound DEF ExchangeInv, Named
  <2>3. a \notin raw
    BY <1>2, <1>7, <2>1
  <2>4. a.seq >= KeepFrom(W)
    BY <1>3, <1>6, <2>2
  <2>5. a \notin Structure(log)
    BY <1>3, <1>7, <2>3, <2>4, NothingFiltered DEF ExchangeInv
  <2>6. IsHidden(a.seq, T)
    BY <1>0, <1>4, <2>1, <2>2, <2>5, ReadAfter
  <2>7. PICK d \in T : d.upto < a.seq /\ a.seq < d.seq
    BY <2>6 DEF IsHidden
  <2>8. d.seq \in Nat /\ d.seq < next
    BY <1>0, TombstonesSound
  <2>9. d.seq < b.seq
    BY <1>0, <1>7, <2>8
  <2> QED
    BY <2>7, <2>9
<1> QED
  BY <1>5, <1>6, <1>7 DEF Repairs

\* A prompt and the repairs before it.
LEMMA SubmitRepairs ==
  ASSUME SessionInv, ExchangeInv, Submit
  PROVE  OnlyNamed /\ NoSummary /\ OnlyRepairs(log', mem.generation)
<1> DEFINE prompt == Message("user", next, None, {}, {})
           open == SetToSeq(Outstanding(log, mem))
           repair == [i \in 1 .. Len(open) |->
                        Message("tool", next + i, None, {open[i]}, {})]
           rs == <<prompt>> \o repair
<1>1. WriteAll(rs)
  BY DEF Submit
<1>2. /\ Len(open) \in Nat
      /\ \A i \in 1 .. Len(open) : open[i] \in Outstanding(log, mem)
      /\ \A i, j \in 1 .. Len(open) : open[i] = open[j] => i = j
  <2>1. IsFiniteSet(Outstanding(log, mem))
    BY OutstandingOK DEF SessionInv
  <2> QED
    BY <2>1, Listed, LenProperties
<1>3. prompt.kind = "user" /\ prompt.seq = next
  BY DEF Message
<1>4. ASSUME NEW i \in 1 .. Len(open)
      PROVE  /\ repair[i].kind = "tool" /\ repair[i].seq = next + i
             /\ repair[i].gen = None /\ repair[i].ids = {open[i]}
  BY DEF Message
<1>5. IsLog(repair) /\ Len(repair) = Len(open)
  BY <1>2, FunctionIsLog
<1>6. IsLog(<<prompt>>) /\ Len(<<prompt>>) = 1 /\ <<prompt>>[1] = prompt
  BY OneRecord
<1> HIDE DEF prompt, open, repair
<1>7. IsJoin(rs, <<prompt>>, repair)
  BY <1>5, <1>6, Joined
<1>8. /\ IsLog(rs) /\ Len(rs) = 1 + Len(open)
      /\ rs[1] = prompt /\ \A i \in 1 .. Len(open) : rs[1 + i] = repair[i]
  <2>1. 1 \in 1 .. 1
    OBVIOUS
  <2> QED
    BY <1>5, <1>6, <1>7, <2>1 DEF IsJoin
<1> HIDE DEF rs
<1>9. \A i \in 1 .. Len(rs) : i = 1 \/ (i - 1 \in 1 .. Len(open) /\ 1 + (i - 1) = i)
  BY <1>2, <1>8
<1>10. next \in Nat
  BY Basics
<1>11. Answering(prompt)
  <2>1. Named(prompt)
    BY <1>3 DEF Named
  <2> QED
    BY <1>3, <1>10, <2>1 DEF Answering
<1>12. ASSUME NEW i \in 1 .. Len(open)
       PROVE  Answering(repair[i])
  <2> DEFINE r == repair[i]
  <2>1. r.kind = "tool" /\ r.seq = next + i /\ r.gen = None /\ r.ids = {open[i]}
    BY <1>4
  <2>2. i \in Nat
    BY <1>2
  <2> HIDE DEF r
  <2>3. r.seq \in Nat /\ next <= r.seq
    BY <1>10, <2>1, <2>2
  <2>4. open[i] \in Outstanding(log, mem)
    BY <1>2
  <2>5. open[i][1] \in Nat /\ open[i][1] < next
    BY <2>4, RepairIsOne
  <2>6. open[i][1] < r.seq
    BY <1>10, <2>3, <2>5
  <2>7. Named(r)
    BY <2>1, <2>6 DEF Named
  <2>8. ASSUME NEW a \in Answers(log), a.ids \cap r.ids # {}
        PROVE  Repairs(log, mem.generation, a, r)
    <3>1. open[i] \in a.ids
      BY <2>1, <2>8
    <3> QED
      BY <2>1, <2>3, <2>4, <3>1, RepairIsOne
  <2>9. Answering(r)
    BY <2>1, <2>3, <2>7, <2>8 DEF Answering
  <2> QED
    BY <2>9 DEF r
<1>13. \A i \in 1 .. Len(rs) : Answering(rs[i])
  BY <1>8, <1>9, <1>11, <1>12
<1>14. ASSUME NEW i \in 1 .. Len(rs), NEW j \in 1 .. Len(rs), i # j,
              rs[i].kind = "tool", rs[j].kind = "tool"
       PROVE  rs[i].ids \cap rs[j].ids = {}
  <2>1. /\ i - 1 \in 1 .. Len(open) /\ 1 + (i - 1) = i
        /\ j - 1 \in 1 .. Len(open) /\ 1 + (j - 1) = j
    BY <1>3, <1>8, <1>9, <1>14
  <2>2. rs[i].ids = {open[i - 1]} /\ rs[j].ids = {open[j - 1]}
    BY <1>4, <1>8, <2>1
  <2>3. open[i - 1] # open[j - 1]
    BY <1>2, <1>14, <2>1
  <2> QED
    BY <2>2, <2>3
<1>15. OnlyRepairs(log, mem.generation)
  BY DEF ExchangeInv
<1> QED
  BY <1>1, <1>8, <1>13, <1>14, <1>15, AnswersWritten

\* A coverage ends at an answer, before which every call has its result.
LEMMA CoverageEnds ==
  ASSUME NEW S, \A r \in S : r.seq \in Nat, NEW V, NEW prefix \in Coverages(S, V)
  PROVE  \E a \in S :
           /\ a.kind = "asst" /\ \A v \in V : v \in prefix <=> v.seq <= a.seq
           /\ \A x \in S : x.kind = "call" /\ x.seq < a.seq =>
                \A id \in x.ids : \E t \in S : t.seq < a.seq /\ t.kind = "tool" /\ id \in t.ids
<1>1. PICK a \in S : /\ a.kind = "asst" /\ prefix = {v \in V : v.seq <= a.seq}
                     /\ \A r \in S : r.seq <= a.seq => ~Blocks(r, S, V)
  BY DEF Coverages
<1>2. ASSUME NEW x \in S, NEW id \in x.ids, x.seq < a.seq, x.kind = "call"
      PROVE  \E t \in S : t.seq < a.seq /\ t.kind = "tool" /\ id \in t.ids
  <2> DEFINE before == {r \in S : r.seq < a.seq}
             ids(K) == UNION {r.ids : r \in {y \in before : y.kind \in K}}
  <2> a.seq <= a.seq
    OBVIOUS
  <2>1. ids({"call"}) \ ids({"tool"}) = {}
    BY <1>1, <1>2 DEF Blocks
  <2>2. id \in ids({"call"})
    BY <1>2
  <2>3. id \in ids({"tool"})
    BY <2>1, <2>2
  <2> QED
    BY <2>3
<1> QED
  BY <1>1, <1>2

LEMMA PlansAreWhole ==
  ASSUME SessionInv, ExchangeInv, NEW plan \in Compactions(log, mem)
  PROVE  Whole(log, mem.generation, plan)
<1> DEFINE old == WorkingSummary(log, mem)
           from == KeepFrom(old)
           V == {m \in VisibleMessages(log, mem) : m.seq >= from}
           S == {m \in Structure(log) : m.seq >= from}
<1>0. FileOK(log, next) /\ RecordsOK(log, next, mem.generation) /\ next \in Nat
  BY Basics DEF SessionInv
<1>1. PICK prefix \in Coverages(S, V) : plan = Compaction(log, mem, prefix, V \ prefix)
  BY DEF Compactions
<1> DEFINE tail == V \ prefix
<1>2. S \subseteq Messages(log) /\ V \subseteq S /\ S \subseteq Structure(log)
  BY ReplayShows
<1>3. prefix \subseteq V /\ prefix # {} /\ tail # {}
  BY <1>0, <1>1, <1>2, TailIsLeft
<1>4. \A x \in S : x.seq \in Nat /\ x.seq <= next
  BY <1>0, <1>2, MessageSound
<1>5. V \subseteq VisibleMessages(log, mem) /\ \A v \in V : v.seq >= from
  OBVIOUS
<1>6. mem.generation = 0 => S \subseteq V
  BY NothingFiltered DEF ExchangeInv
<1>7. /\ plan.keep = Smallest(SeqsOf(tail)) /\ plan.start = Smallest(SeqsOf(prefix))
      /\ plan.end = Largest(SeqsOf(prefix)) /\ plan.prior = Largest({0} \cup SeqsOf(old))
      /\ plan.refs = SeqsOf(prefix) \cup UNION {c.refs : c \in old}
  BY <1>1 DEF Compaction
<1> HIDE DEF V, S
<1>8. PICK a \in S :
        /\ a.kind = "asst" /\ \A v \in V : v \in prefix <=> v.seq <= a.seq
        /\ \A x \in S : x.kind = "call" /\ x.seq < a.seq =>
             \A id \in x.ids : \E t \in S : t.seq < a.seq /\ t.kind = "tool" /\ id \in t.ids
  <2>1. \A r \in S : r.seq \in Nat
    BY <1>4
  <2>2. prefix \in Coverages(S, V)
    BY <1>1
  <2> QED
    BY <2>1, <2>2, CoverageEnds
<1>9. PICK v \in V : plan.keep = v.seq /\ ~(v.seq <= a.seq)
  <2>1. SeqsOf(tail) \in SUBSET Nat /\ SeqsOf(tail) # {}
    BY <1>2, <1>3, <1>4 DEF SeqsOf
  <2>2. plan.keep \in SeqsOf(tail)
    BY <1>7, <2>1, SmallestExists
  <2> QED
    BY <1>8, <2>2 DEF SeqsOf
<1>10. \A y \in prefix : plan.start <= y.seq /\ y.seq <= plan.end
  <2>1. SeqsOf(prefix) \in SUBSET Nat /\ SeqsOf(prefix) # {} /\ \A s \in SeqsOf(prefix) : s <= next
    BY <1>2, <1>3, <1>4 DEF SeqsOf
  <2> DEFINE Q == SeqsOf(prefix)
  <2>2. \A y \in prefix : y.seq \in Q
    BY DEF SeqsOf
  <2> HIDE DEF Q
  <2>3. \A s \in Q : Smallest(Q) <= s
    BY <2>1, SmallestExists DEF Q
  <2>4. \A s \in Q : s <= Largest(Q)
    BY <1>0, <2>1, LargestExists DEF Q
  <2> QED
    BY <1>7, <2>2, <2>3, <2>4 DEF Q
<1>11. ASSUME NEW p \in OfKind(log, {"compact"}), old = {p}, from = p.keep,
              p.refs \subseteq Vis(log, mem)
       PROVE  /\ plan.refs = SeqsOf(prefix) \cup p.refs
              /\ p \in Summaries(log) /\ p.seq = plan.prior /\ p.keep <= plan.keep
              /\ p.refs \subseteq Said(log)
  <2>1. plan.refs = SeqsOf(prefix) \cup p.refs
    BY <1>7, <1>11
  <2>2. p.seq \in Nat /\ {0} \cup SeqsOf(old) = {0, p.seq}
    BY <1>0, <1>11, CompactSound DEF SeqsOf
  <2>3. Largest({0, p.seq}) = p.seq
    <3>1. \A y \in {0, p.seq} : y <= p.seq
      BY <2>2
    <3> QED
      BY <2>2, <3>1, LargestIs
  <2>4. p.keep \in Nat
    BY <1>0, CompactSound DEF PlanOK
  <2>5. p.keep <= plan.keep
    BY <1>2, <1>4, <1>5, <1>9, <1>11, <2>4
  <2>6. p.refs \subseteq Said(log)
    BY <1>11, ReplayShows DEF Vis, Said, SeqsOf
  <2> QED
    BY <1>7, <1>11, <2>1, <2>2, <2>3, <2>5, <2>6 DEF Summaries
<1>12. \/ old = {}
       \/ \E p \in OfKind(log, {"compact"}) :
            old = {p} /\ from = p.keep /\ p.refs \subseteq Vis(log, mem)
  BY <1>0, SummaryIs
<1> HIDE DEF old, from
<1>13. plan.refs \subseteq Said(log)
  <2>1. SeqsOf(prefix) \subseteq Said(log)
    BY <1>2, <1>3 DEF Said, SeqsOf
  <2> QED
    BY <1>7, <1>11, <1>12, <2>1
<1>14. ASSUME NEW x \in Calls(log), NEW id \in x.ids, x.seq \in SeqsOf(prefix)
       PROVE  Within(log, mem.generation, plan, x, id)
  <2>1. x \in Messages(log) /\ x.kind = "call"
    BY DEF Calls, Messages, OfKind, MessageKinds
  <2>2. x \in prefix
    <3>1. PICK y \in prefix : y.seq = x.seq
      BY <1>14 DEF SeqsOf
    <3>2. y \in Messages(log)
      BY <1>2, <1>3
    <3>3. "torn" \notin MessageKinds
      BY DEF MessageKinds
    <3>4. x = y
      BY <1>0, <2>1, <3>1, <3>2, <3>3, MessagesIdentified DEF Messages
    <3> QED
      BY <3>1, <3>4
  <2>3. x \in S /\ x.seq \in Nat /\ a.seq \in Nat /\ x.seq <= a.seq
    BY <1>2, <1>3, <1>4, <1>8, <2>2
  <2>4. x.seq # a.seq
    <3>1. x # a /\ a \in Messages(log)
      BY <1>2, <1>8, <2>1
    <3>2. "torn" \notin MessageKinds
      BY DEF MessageKinds
    <3> QED
      BY <1>0, <2>1, <3>1, <3>2, MessagesIdentified DEF Messages
  <2>5. x.seq < a.seq
    BY <2>3, <2>4
  <2>6. PICK t \in S : t.seq < a.seq /\ t.kind = "tool" /\ id \in t.ids
    BY <1>8, <2>1, <2>3, <2>5
  <2>7. t \in Answers(log)
    BY <1>2, <2>6 DEF Answers, Messages, OfKind
  <2>8. t.seq \in Nat /\ v.seq \in Nat
    BY <1>2, <1>4
  <2>9. t.seq < plan.keep
    BY <1>9, <2>3, <2>6, <2>8
  <2>10. ASSUME mem.generation = 0
         PROVE  t.seq <= plan.end
    <3>1. a \in prefix
      BY <1>6, <1>8, <2>3, <2>10
    <3>2. a.seq <= plan.end
      BY <1>10, <3>1
    <3>3. plan.end \in Nat
      BY <1>0, PlansTyped DEF PlanOK
    <3> QED
      BY <2>3, <2>6, <2>8, <3>2, <3>3
  <2> QED
    BY <1>10, <2>2, <2>6, <2>7, <2>9, <2>10 DEF Within
<1>15. ASSUME NEW x \in Calls(log), x.seq \in plan.refs, x.seq \notin SeqsOf(prefix)
       PROVE  Inherited(log, plan, x)
  <2>1. old # {}
    BY <1>7, <1>15
  <2> QED
    BY <1>11, <1>12, <1>15, <2>1 DEF Inherited
<1> QED
  BY <1>13, <1>14, <1>15 DEF Whole

\* The batch: a call's own number is new, and no old result bears it.
LEMMA BatchStays ==
  ASSUME SessionInv, ExchangeInv, UNCHANGED turn, next' \in Nat, next <= next',
         Answers(log') \subseteq Answers(log)
  PROVE  BatchOpen'
<1>1. ASSUME Running({"tools"}), NEW id \in turn.ids
      PROVE  id[1] < next' /\ \A t \in Answers(log') : id \notin t.ids
  <2>1. id[1] < next /\ \A t \in Answers(log) : id \notin t.ids
    BY <1>1 DEF ExchangeInv, BatchOpen
  <2>2. id[1] \in Nat /\ next \in Nat
    BY <1>1, Basics DEF SessionInv, TurnOK, Running, CallIds
  <2>3. id[1] < next'
    BY <2>1, <2>2
  <2> QED
    BY <2>1, <2>3
<1> QED
  BY <1>1 DEF BatchOpen, Running

LEMMA TurnStepBatch ==
  ASSUME SessionInv, ExchangeInv, TurnStep
  PROVE  BatchOpen'
<1>1. CASE turn' = NoTurn
  BY <1>1 DEF BatchOpen, Running
<1>2. CASE turn' # NoTurn /\ turn'.phase # "tools"
  BY <1>2 DEF BatchOpen, Running
<1>3. CASE UNCHANGED turn /\ ~Running({"tools"})
  BY <1>3 DEF BatchOpen, Running
<1>4. CASE Call
  <2>1. PICK ts \in SUBSET Tools :
          /\ Write(Message("call", next, turn.gen, {next} \X ts, turn.base))
          /\ turn' = [turn EXCEPT !.phase = "tools", !.at = 0, !.ids = {next} \X ts,
                                  !.base = @ \cup {next}]
    BY <1>4 DEF Call
  <2>2. turn'.ids \subseteq {next} \X ts
    BY <2>1
  <2>3. \A id \in turn'.ids : id[1] = next
    BY <2>2
  <2>4. next \in Nat /\ next' = next + 1 /\ next < next'
    <3>1. next \in Nat
      BY Basics
    <3>2. next' = next + 1
      BY <2>1 DEF Write, Message
    <3> QED
      BY <3>1, <3>2
  <2>5. Answers(log') \subseteq Answers(log)
    <3>1. ~Submit /\ ~ToolsReturn /\ ~CancelTools
      BY <1>4 DEF Call, Submit, ToolsReturn, CancelTools, Running
    <3> QED
      BY <3>1, TurnStepIsPlain DEF PlainStep, NoResult
  <2>6. ASSUME NEW t \in Answers(log), NEW id \in t.ids
        PROVE  id[1] # next
    <3>1. t \in Messages(log) /\ t.kind = "tool"
      BY DEF Answers, Messages, OfKind, MessageKinds
    <3>2. id[1] < t.seq /\ t.seq < next /\ t.seq \in Nat
      BY <3>1, MessageSound DEF ExchangeInv, Named, SessionInv
    <3> QED
      BY <2>4, <3>2
  <2> QED
    BY <2>3, <2>4, <2>5, <2>6 DEF BatchOpen
<1>5. CASE Steer \/ Deliver
  BY <1>3, <1>5 DEF Steer, Deliver, Running
<1>6. CASE Refused \/ Discard \/ CancelModel \/ CancelTools \/ CancelBetween
  BY <1>1, <1>6 DEF Refused, Discard, CancelModel, CancelTools, CancelBetween, EndTurn
<1>7. CASE Answer \/ ToolsReturn
  <2>1. CASE NextRound
    BY <2>1 DEF NextRound, BatchOpen, Running
  <2> QED
    BY <1>1, <1>7, <2>1 DEF Answer, ToolsReturn, EndTurn
<1>8. CASE ProviderFails
  BY <1>1, <1>3, <1>8 DEF ProviderFails, EndTurn, Running
<1>9. CASE Submit \/ Request
  BY <1>9 DEF Submit, Request, BatchOpen, Running
<1> QED
  BY <1>4, <1>5, <1>6, <1>7, <1>8, <1>9 DEF TurnStep

\* A summary that is recorded is the plan's.
LEMMA CompactEndsWhole ==
  ASSUME SessionInv, ExchangeInv, NEW k \in Compactors, CompactEnds(k) \/ CompactFails(k)
  PROVE  /\ OnlyNamed /\ NoResult
         /\ \A c \in Summaries(log') : c \in Summaries(log) \/ Whole(log, mem.generation, c)
<1> DEFINE Writes(e) == log' = log \o <<e>> /\ e.kind \notin MessageKinds \cup {"redo"}
                        /\ (e.kind = "compact" => Whole(log, mem.generation, e))
<1>1. \E e : Writes(e)
  <2>1. CASE WriteRejected
    <3> DEFINE e == Event("memory_usage", NextSeq(log))
    <3>1. log' = log \o <<e>>
      BY <2>1, AppendedJoins, Basics DEF WriteRejected, Appended
    <3>2. e.kind = "memory_usage"
      BY DEF Event
    <3> HIDE DEF e
    <3> QED
      BY <3>1, <3>2 DEF MessageKinds
  <2>2. CASE compacting[k] # NoPlan /\ Write(CompactRecord(compacting[k].plan, NextSeq(log)))
    <3> DEFINE p == compacting[k].plan
               e == CompactRecord(p, NextSeq(log))
    <3>1. log' = log \o <<e>>
      BY <2>2, AppendedJoins, Basics DEF Write, Appended
    <3>2. /\ e.kind = "compact" /\ e.refs = p.refs /\ e.keep = p.keep /\ e.start = p.start
          /\ e.end = p.end /\ e.prior = p.prior
      BY DEF CompactRecord
    <3>3. Whole(log, mem.generation, p)
      BY <2>2 DEF ExchangeInv
    <3> HIDE DEF e, p
    <3>4. Whole(log, mem.generation, e)
      BY <3>2, <3>3 DEF Whole, Within, Inherited
    <3> QED
      BY <3>1, <3>2, <3>4 DEF MessageKinds
  <2> QED
    BY <2>1, <2>2 DEF CompactEnds, CompactFails
<1>2. PICK e : Writes(e)
  BY <1>1
<1>3. ASSUME NEW K, NEW x \in OfKind(log', K)
      PROVE  x.kind \in K /\ (x \in OfKind(log, K) \/ x = e)
  <2>1. OfKind(log', K) = OfKind(log, K) \cup OfKind(<<e>>, K)
    BY <1>2, OneRecord, OfKindJoined, Basics
  <2>2. OfKind(<<e>>, K) \subseteq {e}
    BY OfKindOne
  <2> QED
    BY <1>3, <2>1, <2>2 DEF OfKind
<1>4. OnlyNamed
  BY <1>2, <1>3 DEF OnlyNamed, Messages
<1>5. NoResult
  BY <1>2, <1>3 DEF NoResult, Answers, MessageKinds
<1>6. \A c \in Summaries(log') : c \in Summaries(log) \/ Whole(log, mem.generation, c)
  BY <1>2, <1>3 DEF Summaries
<1> QED
  BY <1>4, <1>5, <1>6

\* What a step that appends has to show.
LEMMA ExchangeGrows ==
  ASSUME SessionInv, ExchangeInv, NEW rs, IsLog(rs), log' = log \o rs,
         mem.generation' = 0 => mem.generation = 0,
         NothingForgotten', BatchOpen', OnlyNamed, OnlyRepairs(log', mem.generation'),
         \A c \in Summaries(log') : c \in Summaries(log) \/ Whole(log, mem.generation, c),
         \A k \in Compactors :
           compacting'[k] # NoPlan => Whole(log, mem.generation, compacting'[k].plan)
  PROVE  ExchangeInv'
<1> DEFINE l == log'
           g == mem.generation
           h == mem.generation'
<1>1. FileOK(log, next) /\ RecordsOK(log, next, g) /\ l = log \o rs /\ (h = 0 => g = 0)
  BY DEF SessionInv
<1>2. \A x \in Messages(l) : x \in Messages(log) \/ (next <= x.seq /\ x.seq \in Nat)
  BY DEF OnlyNamed
<1>3. \A x \in Messages(l) : Named(x)
  BY DEF OnlyNamed, ExchangeInv
<1>4. \A c \in Summaries(l) : Whole(log, g, c)
  BY DEF ExchangeInv
<1>5. OnlyRepairs(l, h)
  OBVIOUS
<1> HIDE DEF l, g, h
<1>6. \A c : Whole(log, g, c) => Whole(l, h, c)
  BY <1>1, <1>2, WholeStays
<1>7. \A c \in Summaries(l) : Whole(l, h, c)
  BY <1>4, <1>6
<1>8. \A k \in Compactors : compacting'[k] # NoPlan => Whole(l, h, compacting'[k].plan)
  BY <1>6 DEF g
<1> QED
  BY <1>3, <1>5, <1>7, <1>8 DEF ExchangeInv, l, h

LEMMA NoResultNoRepair ==
  ASSUME SessionInv, ExchangeInv, NEW rs, IsLog(rs), log' = log \o rs, NoResult,
         mem.generation' = 0 => mem.generation = 0
  PROVE  OnlyRepairs(log', mem.generation')
<1> DEFINE k == log'
           h == mem.generation'
<1>1. IsLog(log) /\ k = log \o rs
  BY Basics
<1>2. ActiveTombstones(log) \subseteq ActiveTombstones(k) /\ Answers(k) \subseteq Answers(log)
  BY <1>1, TombstonesStay DEF NoResult
<1>3. OnlyRepairs(log, mem.generation) /\ (h = 0 => mem.generation = 0)
  BY DEF ExchangeInv
<1> HIDE DEF k, h
<1>4. OnlyRepairs(k, h)
  BY <1>2, <1>3, RepairsStay
<1> QED
  BY <1>4 DEF k, h

\* The step appends rs and its turn goes on, or ends.
Appends(rs) == IsLog(rs) /\ log' = log \o rs /\ next' \in Nat /\ next <= next'

LEMMA GrowthAppends ==
  ASSUME SessionInv, NEW rs, Grows(rs)
  PROVE  Appends(rs)
<1>1. IsLog(rs) /\ Len(rs) \in Nat /\ next \in Nat
  BY LogDomain, Basics DEF Grows, Fresh
<1>2. next + Len(rs) \in Nat /\ next <= next + Len(rs)
  BY <1>1
<1> QED
  BY <1>1, <1>2 DEF Grows, Appends

LEMMA TurnStepExchange ==
  ASSUME SessionInv, ExchangeInv, TurnStep
  PROVE  ExchangeInv'
<1>1. /\ (\E rs : Says(rs)) \/ (\E e : Marks(e))
      /\ UNCHANGED <<mem, compacting>>
  BY TurnStepClass
<1>2. PICK rs : Appends(rs)
  BY <1>1, ClassesGrow, GrowthAppends
<1>3. /\ IsLog(rs) /\ log' = log \o rs
      /\ mem.generation' = 0 => mem.generation = 0
  BY <1>1, <1>2 DEF Appends
<1>4. OnlyNamed /\ NoSummary /\ OnlyRepairs(log', mem.generation')
  <2>1. mem.generation' = mem.generation
    BY <1>1
  <2>2. CASE Submit
    BY <2>1, <2>2, SubmitRepairs
  <2>3. CASE ToolsReturn
    <3>1. Running({"tools"}) /\ WriteAll(Results(turn.ids, turn.gen, turn.base))
      BY <2>3 DEF ToolsReturn
    <3>2. turn.ids \subseteq turn.ids
      OBVIOUS
    <3> QED
      BY <2>1, <3>1, <3>2, ResultsArePaired
  <2>4. CASE CancelTools
    <3>1. /\ Running({"tools"})
          /\ \E done \in SUBSET turn.ids : WriteAll(Results(done, turn.gen, turn.base))
      BY <2>4 DEF CancelTools
    <3>2. PICK done : /\ done \subseteq turn.ids
                      /\ WriteAll(Results(done, turn.gen, turn.base))
      BY <3>1
    <3> QED
      BY <2>1, <3>1, <3>2, ResultsArePaired
  <2>5. CASE ~Submit /\ ~ToolsReturn /\ ~CancelTools
    <3>1. PlainStep
      BY <2>5, TurnStepIsPlain
    <3> QED
      BY <1>3, <3>1, NoResultNoRepair DEF PlainStep
  <2> QED
    BY <2>2, <2>3, <2>4, <2>5
<1>5. BatchOpen'
  BY TurnStepBatch
<1>6. NothingForgotten'
  BY <1>1 DEF ExchangeInv, NothingForgotten
<1>7. \A c \in Summaries(log') : c \in Summaries(log) \/ Whole(log, mem.generation, c)
  BY <1>4 DEF NoSummary
<1>8. \A k \in Compactors :
        compacting'[k] # NoPlan => Whole(log, mem.generation, compacting'[k].plan)
  BY <1>1 DEF ExchangeInv
<1> QED
  BY <1>3, <1>4, <1>5, <1>6, <1>7, <1>8, ExchangeGrows

LEMMA CommandExchange ==
  ASSUME SessionInv, ExchangeInv, Command
  PROVE  ExchangeInv'
<1>1. PICK rs : Appends(rs)
  BY CommandClass, ClassesGrow, GrowthAppends
<1>2. UNCHANGED <<turn, compacting>>
  BY DEF Command, Forget, Undo, Redo, Rewind, Clear, Record
<1>3. UNCHANGED mem \/ mem'.generation = mem.generation + 1
  BY DEF Command, Forget, Undo, Redo, Rewind, Clear, Record
<1>4. (mem.generation' = 0 => mem.generation = 0) /\ NothingForgotten'
  <2>1. mem.generation \in Nat /\ mem.generation + 1 # 0
    BY Basics
  <2> QED
    BY <1>3, <2>1 DEF ExchangeInv, NothingForgotten
<1>5. OnlyNamed /\ NoSummary /\ Answers(log') \subseteq Answers(log)
      /\ OnlyRepairs(log', mem.generation')
  <2>1. CASE Redo
    <3>1. /\ OnlyNamed /\ NoSummary /\ Answers(log') \subseteq Answers(log)
          /\ \E t \in Redoable(log) : log' = log \o <<RedoOf(next, t.seq)>>
      BY <2>1, RedoIsNamed
    <3>2. PICK t \in Redoable(log) : log' = log \o <<RedoOf(next, t.seq)>>
      BY <3>1
    <3> DEFINE k == log'
               h == mem.generation'
    <3>3. /\ Answers(k) \subseteq Answers(log) /\ k = log \o <<RedoOf(next, t.seq)>>
          /\ (h = 0 => mem.generation = 0)
      BY <1>4, <3>1, <3>2
    <3> HIDE DEF k, h
    <3>4. \A d \in ActiveTombstones(log), b \in Answers(log) :
            d.seq < b.seq => d \in ActiveTombstones(k)
      BY <3>3, RedoKeepsOthers DEF SessionInv
    <3>5. OnlyRepairs(log, mem.generation)
      BY DEF ExchangeInv
    <3>6. OnlyRepairs(k, h)
      BY <3>3, <3>4, <3>5, RepairsStay
    <3> QED
      BY <3>1, <3>6 DEF k, h
  <2>2. CASE Undo \/ Rewind \/ Clear \/ Record \/ Forget
    <3>1. PlainStep
      BY <2>2, CommandIsPlain
    <3> QED
      BY <1>1, <1>4, <3>1, NoResultNoRepair DEF PlainStep, NoResult, Appends
  <2> QED
    BY <2>1, <2>2 DEF Command
<1>6. BatchOpen'
  BY <1>1, <1>2, <1>5, BatchStays DEF Appends
<1>7. \A c \in Summaries(log') : c \in Summaries(log) \/ Whole(log, mem.generation, c)
  BY <1>5 DEF NoSummary
<1>8. \A k \in Compactors :
        compacting'[k] # NoPlan => Whole(log, mem.generation, compacting'[k].plan)
  BY <1>2 DEF ExchangeInv
<1>9. IsLog(rs) /\ log' = log \o rs
  BY <1>1 DEF Appends
<1> QED
  BY <1>4, <1>5, <1>6, <1>7, <1>8, <1>9, ExchangeGrows

LEMMA CrashExchange ==
  ASSUME SessionInv, ExchangeInv, Crash
  PROVE  ExchangeInv'
<1>1. turn' = NoTurn /\ compacting' = [k \in Compactors |-> NoPlan] /\ UNCHANGED mem
  BY DEF Crash
<1>2. PICK rs : IsLog(rs) /\ log' = log \o rs /\ \A K : "torn" \notin K => OfKind(rs, K) = {}
  <2> DEFINE Joins(rs) == /\ IsLog(rs) /\ log' = log \o rs
                          /\ \A K : "torn" \notin K => OfKind(rs, K) = {}
  <2>1. ASSUME Says(<<>>)
        PROVE  \E rs : Joins(rs)
    <3> DEFINE rs == <<>>
    <3>1. IsLog(rs) /\ log' = log \o rs
      BY <2>1, EmptyLog DEF Says, Grows
    <3>2. Len(rs) = 0
      BY EmptyLog
    <3> HIDE DEF rs
    <3>3. \A K : OfKind(rs, K) = {}
      BY <3>2 DEF OfKind
    <3>4. Joins(rs)
      BY <3>1, <3>3
    <3> QED
      BY <3>4
  <2>2. ASSUME Tears
        PROVE  \E rs : Joins(rs)
    <3> DEFINE rs == <<Torn>>
    <3>1. IsLog(rs) /\ log' = log \o rs
      BY <2>2, OneRecord DEF Tears
    <3>2. \A K : "torn" \notin K => OfKind(rs, K) = {}
      BY OfKindOne DEF Torn
    <3> HIDE DEF rs
    <3>3. Joins(rs)
      BY <3>1, <3>2
    <3> QED
      BY <3>3
  <2> QED
    BY <2>1, <2>2, CrashClass
<1>3. \A K : "torn" \notin K => OfKind(log', K) = OfKind(log, K)
  <2>1. \A K : OfKind(log \o rs, K) = OfKind(log, K) \cup OfKind(rs, K)
    BY <1>2, OfKindJoined, Basics
  <2> QED
    BY <1>2, <2>1
<1>4. OnlyNamed /\ NoSummary /\ NoResult
  <2>1. /\ OfKind(log', MessageKinds) = OfKind(log, MessageKinds)
        /\ OfKind(log', {"tool"}) = OfKind(log, {"tool"})
        /\ OfKind(log', {"compact"}) = OfKind(log, {"compact"})
        /\ OfKind(log', {"redo"}) = OfKind(log, {"redo"})
    BY <1>3 DEF MessageKinds
  <2> QED
    BY <2>1 DEF OnlyNamed, NoSummary, NoResult, Messages, Answers, Summaries
<1>5. /\ mem.generation' = 0 => mem.generation = 0
      /\ NothingForgotten' /\ BatchOpen'
  BY <1>1 DEF ExchangeInv, NothingForgotten, BatchOpen, Running
<1>6. OnlyRepairs(log', mem.generation')
  BY <1>2, <1>4, <1>5, NoResultNoRepair
<1>7. \A c \in Summaries(log') : c \in Summaries(log) \/ Whole(log, mem.generation, c)
  BY <1>4 DEF NoSummary
<1>8. \A k \in Compactors :
        compacting'[k] # NoPlan => Whole(log, mem.generation, compacting'[k].plan)
  BY <1>1
<1> QED
  BY <1>2, <1>4, <1>5, <1>6, <1>7, <1>8, ExchangeGrows

LEMMA CompactBeginsExchange ==
  ASSUME SessionInv, ExchangeInv, NEW k \in Compactors, CompactBegins(k)
  PROVE  ExchangeInv'
<1>1. PICK plan \in Compactions(log, mem) :
        compacting' = [compacting EXCEPT ![k] =
          [at |-> Len(log), gen |-> mem.generation, plan |-> plan]]
  BY DEF CompactBegins
<1>2. UNCHANGED <<log, next, mem, turn>>
  BY DEF CompactBegins
<1>3. Whole(log, mem.generation, plan)
  BY PlansAreWhole
<1>4. ASSUME NEW j \in Compactors, compacting'[j] # NoPlan
      PROVE  Whole(log, mem.generation, compacting'[j].plan)
  <2>1. CASE j = k
    <3>1. compacting'[j] = [at |-> Len(log), gen |-> mem.generation, plan |-> plan]
      BY <1>1, <2>1 DEF SessionInv, PlansOK
    <3>2. compacting'[j].plan = plan
      BY <3>1
    <3> QED
      BY <1>3, <3>2
  <2>2. CASE j # k
    <3>1. compacting'[j] = compacting[j]
      BY <1>1, <2>2 DEF SessionInv, PlansOK
    <3> QED
      BY <1>4, <3>1 DEF ExchangeInv
  <2> QED
    BY <2>1, <2>2
<1>5. NothingForgotten' /\ BatchOpen'
  BY <1>2 DEF ExchangeInv, NothingForgotten, BatchOpen, Running
<1> QED
  BY <1>2, <1>4, <1>5 DEF ExchangeInv

LEMMA CompactEndsExchange ==
  ASSUME SessionInv, ExchangeInv, NEW k \in Compactors, CompactEnds(k) \/ CompactFails(k)
  PROVE  ExchangeInv'
<1>1. PICK e : Marks(e)
  BY CompactEndClass
<1> DEFINE rs == <<e>>
<1>2. Appends(rs) /\ UNCHANGED mem
  BY <1>1, GrowthAppends DEF Marks
<1> HIDE DEF rs
<1>3. IsLog(rs) /\ log' = log \o rs /\ next' \in Nat /\ next <= next'
  BY <1>2 DEF Appends
<1>4. /\ OnlyNamed /\ NoResult
      /\ \A c \in Summaries(log') : c \in Summaries(log) \/ Whole(log, mem.generation, c)
  BY CompactEndsWhole
<1>5. turn' = NoTurn \/ UNCHANGED turn
  BY DEF CompactEnds, CompactFails, HandBack, EndTurn
<1>6. BatchOpen'
  <2>1. CASE turn' = NoTurn
    BY <2>1 DEF BatchOpen, Running
  <2>2. CASE UNCHANGED turn
    BY <1>3, <1>4, <2>2, BatchStays DEF NoResult
  <2> QED
    BY <1>5, <2>1, <2>2
<1>7. (mem.generation' = 0 => mem.generation = 0) /\ NothingForgotten'
  BY <1>2 DEF ExchangeInv, NothingForgotten
<1>8. OnlyRepairs(log', mem.generation')
  BY <1>3, <1>4, <1>7, NoResultNoRepair
<1>9. compacting' = [compacting EXCEPT ![k] = NoPlan]
  BY DEF CompactEnds, CompactFails
<1>10. \A j \in Compactors : compacting'[j] = compacting[j] \/ compacting'[j] = NoPlan
  BY <1>9 DEF SessionInv, PlansOK
<1>11. \A j \in Compactors :
         compacting'[j] # NoPlan => Whole(log, mem.generation, compacting'[j].plan)
  BY <1>10 DEF ExchangeInv
<1> QED
  BY <1>3, <1>4, <1>6, <1>7, <1>8, <1>11, ExchangeGrows

LEMMA ExchangeKept ==
  ASSUME SessionInv, ExchangeInv, [Next]_vars
  PROVE  ExchangeInv'
<1>1. CASE UNCHANGED vars
  BY <1>1 DEF vars, ExchangeInv, NothingForgotten, BatchOpen, Running
<1>2. CASE Next
  BY <1>2, TurnStepExchange, CommandExchange, CrashExchange, CompactBeginsExchange,
     CompactEndsExchange DEF Next
<1> QED
  BY <1>1, <1>2

LEMMA ExchangeStarts == Init => ExchangeInv
<1> SUFFICES ASSUME Init
             PROVE  ExchangeInv
  OBVIOUS
<1>1. Len(log) = 0
  BY EmptyLog DEF Init
<1>2. \A K : OfKind(log, K) = {}
  BY <1>1 DEF OfKind
<1>3. mem.excluded = {} /\ turn = NoTurn /\ \A k \in Compactors : compacting[k] = NoPlan
  BY DEF Init
<1>4. NothingForgotten /\ BatchOpen
  BY <1>3 DEF NothingForgotten, BatchOpen, Running
<1>5. OnlyRepairs(log, mem.generation)
  BY <1>2 DEF OnlyRepairs, Answers
<1> QED
  BY <1>2, <1>3, <1>4, <1>5 DEF ExchangeInv, Messages, Summaries

\* A summary that replay uses never ends between a call and its result
\* (_coverage), whatever was undone, redone, cleared, forgotten, repaired,
\* interrupted or compacted again.
THEOREM ExchangesStayWhole == Spec => []ExchangesWhole
<1>1. Init => ExchangeInv
  BY ExchangeStarts
<1>2. SessionInv /\ ExchangeInv /\ [Next]_vars => ExchangeInv'
  BY ExchangeKept
<1>3. SessionInv /\ ExchangeInv => ExchangesWhole
  BY ExchangesAreWhole
<1> QED
  BY <1>1, <1>2, <1>3, SessionInvHolds, PTL DEF Spec
=============================================================================
