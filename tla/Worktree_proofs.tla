----------------------------- MODULE Worktree_proofs -----------------------------
(***************************************************************************)
(* What the workers tool promises of its checkouts, for any number of      *)
(* workers, commits and reviews and wherever a git command, a user or a    *)
(* crash comes in between: only what was reviewed arrives, a recorded      *)
(* integration is there, and no committed work is lost.                    *)
(***************************************************************************)
EXTENDS Worktree, TLAPS

\* Where an operation holds the lock of the destination.
Integrating == {"target", "check", "validating", "check again", "merging", "recording"}
Removing == {"remove", "delete"}
LockedPlaces == {"locked", "merge"} \cup Integrating \cup Removing

Locked(w) == wop[w] \in LockedPlaces \/ (wop[w] = "added" /\ wname[w] = "recover")

Made == 0..commits.count
Pairs == [head : SUBSET Made, parent : SUBSET Made]

WorktreeTypeOK ==
  /\ wop \in [Checkouts -> {"idle", "added"} \cup LockedPlaces]
  /\ wname \in [Checkouts -> Operations \cup {"none", "create"}]
  /\ flock \in Checkouts \cup {"free"}
  /\ commits \in [count : Nat, work : [Checkouts -> SUBSET Nat]]
  /\ dest \subseteq Made /\ destDirty \in BOOLEAN
  /\ head \in [Checkouts -> SUBSET Made] /\ base \in [Checkouts -> SUBSET Made]
  /\ dirty \in [Checkouts -> BOOLEAN]
  /\ branch \in [Checkouts -> BOOLEAN] /\ present \in [Checkouts -> BOOLEAN]
  /\ sidecar \in [Checkouts -> {"none", "known", "stale"}]
  /\ integrated \in [Checkouts -> SUBSET Made]
  /\ reviews \in [Checkouts -> SUBSET Pairs]
  /\ chosen \in [Checkouts -> Pairs]
  /\ commits.work \in [Checkouts -> SUBSET Made]

\* One operation at a time holds the lock.
LockInv == \A w \in Checkouts : Locked(w) => flock = w

\* An integration works on a pair its supervisor was shown.  Nobody else moves the
\* destination backwards or to a commit of that pair: when it moves after the last
\* check, it moves off the candidate's history and the fast-forward is refused.
IntegrationInv ==
  \A w \in Checkouts :
    /\ wop[w] = "locked" /\ wname[w] = "integrate" => chosen[w] \in reviews[w]
    /\ wop[w] \in Integrating => chosen[w] \in reviews[w]
    /\ wop[w] = "merging" => dest = chosen[w].parent \/ ~(dest \subseteq chosen[w].head)
    /\ wop[w] = "recording" => chosen[w].head \subseteq dest

\* A checkout is on a branch, and goes before its branch does.
BranchInv ==
  \A w \in Checkouts :
    /\ present[w] => branch[w]
    /\ wop[w] = "delete" => ~present[w]
    /\ wop[w] \in Integrating => branch[w]

WorktreeInv ==
  /\ WorktreeTypeOK /\ LockInv /\ IntegrationInv /\ BranchInv
  /\ IntegratedMeansMerged /\ NoCommitLost
-----------------------------------------------------------------------------

\* More commits: what was made of earlier ones stays so.
LEMMA TypesGrow ==
  ASSUME WorktreeTypeOK, Made \subseteq Made'
  PROVE  /\ dest \subseteq Made'
         /\ head \in [Checkouts -> SUBSET Made'] /\ base \in [Checkouts -> SUBSET Made']
         /\ integrated \in [Checkouts -> SUBSET Made']
         /\ reviews \in [Checkouts -> SUBSET Pairs'] /\ chosen \in [Checkouts -> Pairs']
         /\ commits.work \in [Checkouts -> SUBSET Made']
<1>1. SUBSET Made \subseteq SUBSET Made'
  OBVIOUS
<1>2. Pairs \subseteq Pairs'
  BY DEF Pairs
<1>3. SUBSET Pairs \subseteq SUBSET Pairs'
  BY <1>2
<1> QED
  BY <1>1, <1>2, <1>3 DEF WorktreeTypeOK

\* A commit by the worker w.
LEMMA CommitTypes ==
  ASSUME WorktreeTypeOK, NEW w \in Checkouts,
         commits' = [count |-> commits.count + 1,
                     work  |-> [commits.work EXCEPT ![w] = @ \cup {commits.count + 1}]]
  PROVE  /\ commits' \in [count : Nat, work : [Checkouts -> SUBSET Nat]]
         /\ commits'.count = commits.count + 1 /\ commits.count + 1 \in Made'
         /\ Made \subseteq Made' /\ commits'.work \in [Checkouts -> SUBSET Made']
<1>1. commits.count \in Nat /\ commits.work \in [Checkouts -> SUBSET Nat]
  BY DEF WorktreeTypeOK
<1>2. commits'.count = commits.count + 1
  OBVIOUS
<1>3. Made \subseteq Made' /\ commits.count + 1 \in Made'
  BY <1>1, <1>2 DEF Made
<1> HIDE DEF Made
<1>4. commits.work \in [Checkouts -> SUBSET Made']
  BY <1>3 DEF WorktreeTypeOK
<1> QED
  BY <1>1, <1>2, <1>3, <1>4

\* git merge adds to the worker's head what the destination has, and perhaps a
\* commit of the worker's.
LEMMA MergeTypes ==
  ASSUME WorktreeTypeOK, NEW w \in Checkouts, MergeDestination(w)
  PROVE  /\ commits' \in [count : Nat, work : [Checkouts -> SUBSET Nat]]
         /\ Made \subseteq Made' /\ commits'.work \in [Checkouts -> SUBSET Made']
         /\ head' \in [Checkouts -> SUBSET Made'] /\ dirty' \in [Checkouts -> BOOLEAN]
<1> USE DEF MergeDestination
<1>1. CASE commits' = commits
  <2>1. Made' = Made
    BY <1>1 DEF Made
  <2>2. commits.count \in Nat
    BY DEF WorktreeTypeOK
  <2>3. commits' # [count |-> commits.count + 1,
                    work  |-> [commits.work EXCEPT ![w] = @ \cup {commits.count + 1}]]
    BY <1>1, <2>2
  <2>4. \/ head' = head /\ (dirty' = dirty \/ dirty' = [dirty EXCEPT ![w] = TRUE])
        \/ head' = [head EXCEPT ![w] = dest] /\ dirty' = dirty
    BY <2>3
  <2> QED
    BY <1>1, <2>1, <2>4 DEF WorktreeTypeOK
<1>2. CASE commits' # commits
  <2>1. /\ commits' = [count |-> commits.count + 1,
                       work  |-> [commits.work EXCEPT ![w] = @ \cup {commits.count + 1}]]
        /\ head' = [head EXCEPT ![w] = @ \cup dest \cup {commits.count + 1}]
        /\ dirty' = dirty
    BY <1>2
  <2>2. /\ commits' \in [count : Nat, work : [Checkouts -> SUBSET Nat]]
        /\ Made \subseteq Made' /\ commits.count + 1 \in Made'
        /\ commits'.work \in [Checkouts -> SUBSET Made']
    BY <2>1, CommitTypes
  <2>3. dest \subseteq Made' /\ head \in [Checkouts -> SUBSET Made']
    BY <2>2, TypesGrow
  <2> QED
    BY <2>1, <2>2, <2>3 DEF WorktreeTypeOK
<1> QED
  BY <1>1, <1>2

\* Every step keeps the types; heads, reviews and records are sets of commits made.
LEMMA WorktreeTypeNext ==
  ASSUME WorktreeTypeOK, [WorktreeNext]_worktreeVars
  PROVE  WorktreeTypeOK'
<1> USE WorktreeAssumption DEF On, Ended, Refused, upstream, checkout, judged,
        LockedPlaces, Integrating, Removing, Operations, ToolOperations
<1>1. ASSUME NEW w \in Checkouts, AddCheckout(w)
      PROVE  WorktreeTypeOK'
  <2>1. Made' = Made /\ Pairs' = Pairs
    BY <1>1 DEF AddCheckout, Made, Pairs
  <2> QED
    BY <1>1, <2>1 DEF AddCheckout, WorktreeTypeOK
<1>2. ASSUME NEW w \in Checkouts, WriteSidecar(w)
      PROVE  WorktreeTypeOK'
  <2>1. Made' = Made /\ Pairs' = Pairs
    BY <1>2 DEF WriteSidecar, Made, Pairs
  <2> QED
    BY <1>2, <2>1 DEF WriteSidecar, WorktreeTypeOK
<1>3. ASSUME NEW w \in Checkouts, Review(w)
      PROVE  WorktreeTypeOK'
  <2>1. Made' = Made /\ Pairs' = Pairs
    BY <1>3 DEF Review, Made, Pairs
  <2>2. [head |-> head[w], parent |-> dest] \in Pairs
    BY DEF WorktreeTypeOK, Pairs
  <2> QED
    BY <1>3, <2>1, <2>2 DEF Review, WorktreeTypeOK
<1>4. ASSUME NEW w \in Checkouts, Lock(w)
      PROVE  WorktreeTypeOK'
  <2>1. Made' = Made /\ Pairs' = Pairs
    BY <1>4 DEF Lock, Made, Pairs
  <2>2. chosen' = chosen \/ \E r \in reviews[w] : chosen' = [chosen EXCEPT ![w] = r]
    BY <1>4 DEF Lock
  <2>3. chosen \in [Checkouts -> Pairs] /\ reviews[w] \subseteq Pairs
    BY DEF WorktreeTypeOK
  <2>4. chosen' \in [Checkouts -> Pairs]
    BY <2>2, <2>3
  <2> QED
    BY <1>4, <2>1, <2>4 DEF Lock, WorktreeTypeOK
<1>5. ASSUME NEW w \in Checkouts, CompareHeads(w)
      PROVE  WorktreeTypeOK'
  <2>1. Made' = Made /\ Pairs' = Pairs
    BY <1>5 DEF CompareHeads, Made, Pairs
  <2> QED
    BY <1>5, <2>1 DEF CompareHeads, WorktreeTypeOK
<1>6. ASSUME NEW w \in Checkouts, CompareTarget(w)
      PROVE  WorktreeTypeOK'
  <2>1. /\ MergeDestination(w) \/ UNCHANGED <<head, dirty, commits>>
        /\ UNCHANGED <<upstream, branch, present, sidecar, judged>>
    BY <1>6 DEF CompareTarget
  <2>2. /\ commits' \in [count : Nat, work : [Checkouts -> SUBSET Nat]]
        /\ Made \subseteq Made' /\ commits'.work \in [Checkouts -> SUBSET Made']
        /\ head' \in [Checkouts -> SUBSET Made'] /\ dirty' \in [Checkouts -> BOOLEAN]
    <3>1. CASE MergeDestination(w)
      BY <3>1, MergeTypes
    <3>2. CASE UNCHANGED <<head, dirty, commits>>
      <4>1. Made' = Made
        BY <3>2 DEF Made
      <4> QED
        BY <3>2, <4>1 DEF WorktreeTypeOK
    <3> QED
      BY <2>1, <3>1, <3>2
  <2>3. /\ wop' \in [Checkouts -> {"idle", "added"} \cup LockedPlaces]
        /\ wname' \in [Checkouts -> Operations \cup {"none", "create"}]
        /\ flock' \in Checkouts \cup {"free"}
    BY <1>6 DEF CompareTarget, WorktreeTypeOK
  <2> QED
    BY <2>1, <2>2, <2>3, TypesGrow DEF WorktreeTypeOK
<1>7. ASSUME NEW w \in Checkouts, CheckReview(w, "check", "validating")
      PROVE  WorktreeTypeOK'
  <2>1. Made' = Made /\ Pairs' = Pairs
    BY <1>7 DEF CheckReview, Made, Pairs
  <2> QED
    BY <1>7, <2>1 DEF CheckReview, WorktreeTypeOK
<1>8. ASSUME NEW w \in Checkouts, Validate(w)
      PROVE  WorktreeTypeOK'
  <2>1. Made' = Made /\ Pairs' = Pairs
    BY <1>8 DEF Validate, Made, Pairs
  <2> QED
    BY <1>8, <2>1 DEF Validate, WorktreeTypeOK
<1>9. ASSUME NEW w \in Checkouts, CheckReview(w, "check again", "merging")
      PROVE  WorktreeTypeOK'
  <2>1. Made' = Made /\ Pairs' = Pairs
    BY <1>9 DEF CheckReview, Made, Pairs
  <2> QED
    BY <1>9, <2>1 DEF CheckReview, WorktreeTypeOK
<1>10. ASSUME NEW w \in Checkouts, FastForward(w)
      PROVE  WorktreeTypeOK'
  <2>1. Made' = Made /\ Pairs' = Pairs
    BY <1>10 DEF FastForward, Made, Pairs
  <2>2. chosen[w].head \subseteq Made
    BY DEF WorktreeTypeOK, Pairs
  <2> QED
    BY <1>10, <2>1, <2>2 DEF FastForward, WorktreeTypeOK
<1>11. ASSUME NEW w \in Checkouts, RecordIntegration(w)
      PROVE  WorktreeTypeOK'
  <2>1. Made' = Made /\ Pairs' = Pairs
    BY <1>11 DEF RecordIntegration, Made, Pairs
  <2>2. chosen[w].head \subseteq Made
    BY DEF WorktreeTypeOK, Pairs
  <2> QED
    BY <1>11, <2>1, <2>2 DEF RecordIntegration, WorktreeTypeOK
<1>12. ASSUME NEW w \in Checkouts, CheckMerged(w)
      PROVE  WorktreeTypeOK'
  <2>1. Made' = Made /\ Pairs' = Pairs
    BY <1>12 DEF CheckMerged, Made, Pairs
  <2> QED
    BY <1>12, <2>1 DEF CheckMerged, WorktreeTypeOK
<1>13. ASSUME NEW w \in Checkouts, RemoveCheckout(w)
      PROVE  WorktreeTypeOK'
  <2>1. Made' = Made /\ Pairs' = Pairs
    BY <1>13 DEF RemoveCheckout, Made, Pairs
  <2> QED
    BY <1>13, <2>1 DEF RemoveCheckout, WorktreeTypeOK
<1>14. ASSUME NEW w \in Checkouts, DeleteBranch(w)
      PROVE  WorktreeTypeOK'
  <2>1. Made' = Made /\ Pairs' = Pairs
    BY <1>14 DEF DeleteBranch, Made, Pairs
  <2> QED
    BY <1>14, <2>1 DEF DeleteBranch, WorktreeTypeOK
<1>15. ASSUME NEW w \in Checkouts, Recreate(w)
      PROVE  WorktreeTypeOK'
  <2>1. Made' = Made /\ Pairs' = Pairs
    BY <1>15 DEF Recreate, Made, Pairs
  <2>2. CASE UNCHANGED <<head, dirty, branch, present, sidecar>>
    BY <1>15, <2>1, <2>2 DEF Recreate, WorktreeTypeOK
  <2>3. CASE \E S \in {head[w], base[w]} : head' = [head EXCEPT ![w] = S]
    <3>1. head' \in [Checkouts -> SUBSET Made]
      BY <2>3 DEF WorktreeTypeOK
    <3> QED
      BY <1>15, <2>1, <3>1 DEF Recreate, WorktreeTypeOK
  <2> QED
    BY <1>15, <2>2, <2>3 DEF Recreate
<1>16. ASSUME NEW w \in Checkouts, RecordIdentity(w)
      PROVE  WorktreeTypeOK'
  <2>1. Made' = Made /\ Pairs' = Pairs
    BY <1>16 DEF RecordIdentity, Made, Pairs
  <2> QED
    BY <1>16, <2>1 DEF RecordIdentity, WorktreeTypeOK
<1>17. ASSUME NEW w \in Checkouts, MergeProgress(w)
      PROVE  WorktreeTypeOK'
  <2>1. /\ MergeDestination(w) \/ UNCHANGED <<head, dirty, commits>>
        /\ UNCHANGED <<upstream, branch, present, sidecar, judged>>
    BY <1>17 DEF MergeProgress
  <2>2. /\ commits' \in [count : Nat, work : [Checkouts -> SUBSET Nat]]
        /\ Made \subseteq Made' /\ commits'.work \in [Checkouts -> SUBSET Made']
        /\ head' \in [Checkouts -> SUBSET Made'] /\ dirty' \in [Checkouts -> BOOLEAN]
    <3>1. CASE MergeDestination(w)
      BY <3>1, MergeTypes
    <3>2. CASE UNCHANGED <<head, dirty, commits>>
      <4>1. Made' = Made
        BY <3>2 DEF Made
      <4> QED
        BY <3>2, <4>1 DEF WorktreeTypeOK
    <3> QED
      BY <2>1, <3>1, <3>2
  <2>3. /\ wop' \in [Checkouts -> {"idle", "added"} \cup LockedPlaces]
        /\ wname' \in [Checkouts -> Operations \cup {"none", "create"}]
        /\ flock' \in Checkouts \cup {"free"}
    BY <1>17 DEF MergeProgress, WorktreeTypeOK
  <2> QED
    BY <2>1, <2>2, <2>3, TypesGrow DEF WorktreeTypeOK
<1>18. ASSUME NEW w \in Checkouts, WorkerCommits(w)
      PROVE  WorktreeTypeOK'
  <2>1. /\ commits' \in [count : Nat, work : [Checkouts -> SUBSET Nat]]
        /\ commits'.count = commits.count + 1 /\ commits.count + 1 \in Made'
        /\ Made \subseteq Made' /\ commits'.work \in [Checkouts -> SUBSET Made']
    BY <1>18, CommitTypes DEF WorkerCommits
  <2> QED
    BY <1>18, <2>1, TypesGrow DEF WorkerCommits, WorktreeTypeOK
<1>19. ASSUME NEW w \in Checkouts, WorkerEdits(w)
      PROVE  WorktreeTypeOK'
  <2>1. Made' = Made /\ Pairs' = Pairs
    BY <1>19 DEF WorkerEdits, Made, Pairs
  <2> QED
    BY <1>19, <2>1 DEF WorkerEdits, WorktreeTypeOK
<1>20. ASSUME NEW w \in Checkouts, CheckoutVanishes(w)
      PROVE  WorktreeTypeOK'
  <2>1. Made' = Made /\ Pairs' = Pairs
    BY <1>20 DEF CheckoutVanishes, Made, Pairs
  <2> QED
    BY <1>20, <2>1 DEF CheckoutVanishes, WorktreeTypeOK
<1>21. CASE DestinationCommits
  <2>1. commits.count \in Nat /\ commits.work \in [Checkouts -> SUBSET Nat]
    BY DEF WorktreeTypeOK
  <2>2. commits' = [count |-> commits.count + 1, work |-> commits.work]
    BY <1>21 DEF DestinationCommits, WorktreeTypeOK
  <2>3. /\ commits' \in [count : Nat, work : [Checkouts -> SUBSET Nat]]
        /\ commits'.count = commits.count + 1 /\ commits'.work = commits.work
    BY <2>1, <2>2
  <2>4. Made \subseteq Made' /\ commits.count + 1 \in Made'
    BY <2>1, <2>3 DEF Made
  <2>5. dest' \subseteq Made'
    BY <1>21, <2>4, TypesGrow DEF DestinationCommits
  <2> QED
    BY <1>21, <2>3, <2>4, <2>5, TypesGrow DEF DestinationCommits, WorktreeTypeOK
<1>22. CASE DestinationEdits
  <2>1. Made' = Made /\ Pairs' = Pairs
    BY <1>22 DEF DestinationEdits, Made, Pairs
  <2> QED
    BY <1>22, <2>1 DEF DestinationEdits, WorktreeTypeOK
<1>23. CASE ProcessDies
  <2>1. Made' = Made /\ Pairs' = Pairs
    BY <1>23 DEF ProcessDies, Made, Pairs
  <2> QED
    BY <1>23, <2>1 DEF ProcessDies, WorktreeTypeOK
<1>24. CASE UNCHANGED worktreeVars
  <2>1. Made' = Made /\ Pairs' = Pairs
    BY <1>24 DEF worktreeVars, Made, Pairs
  <2> QED
    BY <1>24, <2>1 DEF worktreeVars, WorktreeTypeOK
<1> QED
  BY <1>1, <1>2, <1>3, <1>4, <1>5, <1>6, <1>7, <1>8, <1>9, <1>10, <1>11, <1>12, <1>13,
     <1>14, <1>15, <1>16, <1>17, <1>18, <1>19, <1>20, <1>21, <1>22, <1>23, <1>24
  DEF WorktreeNext, WorktreeOperation
-----------------------------------------------------------------------------
\* Only who finds the lock free takes it, and every operation gives it back at its end.
LEMMA LockNext ==
  ASSUME WorktreeTypeOK, LockInv, [WorktreeNext]_worktreeVars
  PROVE  LockInv'
<1> USE WorktreeAssumption DEF LockInv, Locked, On, Ended, Refused, upstream, checkout, judged,
        LockedPlaces, Integrating, Removing
<1>1. wop \in [Checkouts -> {"idle", "added"} \cup LockedPlaces] /\ DOMAIN wname = Checkouts
  BY DEF WorktreeTypeOK
<1>26. ASSUME NEW w \in Checkouts, Locked(w), Ended(w), flock' = "free"
       PROVE  LockInv'
  <2>1. wop'[w] = "idle"
    BY <1>1, <1>26
  <2>2. \A v \in Checkouts \ {w} : Locked(v)' => Locked(v)
    BY <1>1, <1>26
  <2> QED
    BY <1>26, <2>1, <2>2
<1>27. ASSUME NEW w \in Checkouts, Locked(w), NEW p \in LockedPlaces, On(w, p),
              UNCHANGED <<wname, flock>>
       PROVE  LockInv'
  <2>1. \A v \in Checkouts : Locked(v)' => Locked(v)
    BY <1>1, <1>27
  <2> QED
    BY <1>27, <2>1
<1>2. ASSUME NEW w \in Checkouts, AddCheckout(w)
      PROVE  LockInv'
  BY <1>1, <1>2 DEF AddCheckout
<1>3. ASSUME NEW w \in Checkouts, WriteSidecar(w)
      PROVE  LockInv'
  BY <1>1, <1>3 DEF WriteSidecar
<1>4. ASSUME NEW w \in Checkouts, Review(w)
      PROVE  LockInv'
  BY <1>1, <1>4 DEF Review
<1>5. ASSUME NEW w \in Checkouts, Lock(w)
      PROVE  LockInv'
  BY <1>1, <1>5 DEF Lock
<1>6. ASSUME NEW w \in Checkouts, CompareHeads(w)
      PROVE  LockInv'
  BY <1>1, <1>6 DEF CompareHeads
<1>7. ASSUME NEW w \in Checkouts, CompareTarget(w)
      PROVE  LockInv'
  <2>1. Locked(w) /\ "check" \in LockedPlaces
    BY <1>7 DEF CompareTarget
  <2>2. \/ Ended(w) /\ flock' = "free"
        \/ On(w, "check") /\ UNCHANGED <<wname, flock>>
    BY <1>7 DEF CompareTarget
  <2> QED
    BY <1>26, <1>27, <2>1, <2>2
<1>8. ASSUME NEW w \in Checkouts, CheckReview(w, "check", "validating")
      PROVE  LockInv'
  <2>1. Locked(w) /\ "validating" \in LockedPlaces
    BY <1>8 DEF CheckReview
  <2>2. \/ Ended(w) /\ flock' = "free"
        \/ On(w, "validating") /\ UNCHANGED <<wname, flock>>
    BY <1>8 DEF CheckReview
  <2> QED
    BY <1>26, <1>27, <2>1, <2>2
<1>9. ASSUME NEW w \in Checkouts, Validate(w)
      PROVE  LockInv'
  BY <1>1, <1>9 DEF Validate
<1>10. ASSUME NEW w \in Checkouts, CheckReview(w, "check again", "merging")
      PROVE  LockInv'
  <2>1. Locked(w) /\ "merging" \in LockedPlaces
    BY <1>10 DEF CheckReview
  <2>2. \/ Ended(w) /\ flock' = "free"
        \/ On(w, "merging") /\ UNCHANGED <<wname, flock>>
    BY <1>10 DEF CheckReview
  <2> QED
    BY <1>26, <1>27, <2>1, <2>2
<1>11. ASSUME NEW w \in Checkouts, FastForward(w)
      PROVE  LockInv'
  <2>1. Locked(w) /\ "recording" \in LockedPlaces
    BY <1>11 DEF FastForward
  <2>2. \/ Ended(w) /\ flock' = "free"
        \/ On(w, "recording") /\ UNCHANGED <<wname, flock>>
    BY <1>11 DEF FastForward
  <2> QED
    BY <1>26, <1>27, <2>1, <2>2
<1>12. ASSUME NEW w \in Checkouts, RecordIntegration(w)
      PROVE  LockInv'
  BY <1>1, <1>12 DEF RecordIntegration
<1>13. ASSUME NEW w \in Checkouts, CheckMerged(w)
      PROVE  LockInv'
  <2>1. CASE Refused(w)
    BY <1>1, <1>13, <2>1 DEF CheckMerged
  <2>2. CASE ~Refused(w)
    BY <1>1, <1>13, <2>2 DEF CheckMerged
  <2> QED
    BY <2>1, <2>2
<1>14. ASSUME NEW w \in Checkouts, RemoveCheckout(w)
      PROVE  LockInv'
  <2>1. CASE Refused(w)
    BY <1>1, <1>14, <2>1 DEF RemoveCheckout
  <2>2. CASE ~Refused(w)
    BY <1>1, <1>14, <2>2 DEF RemoveCheckout
  <2> QED
    BY <2>1, <2>2
<1>15. ASSUME NEW w \in Checkouts, DeleteBranch(w)
      PROVE  LockInv'
  BY <1>1, <1>15 DEF DeleteBranch
<1>16. ASSUME NEW w \in Checkouts, Recreate(w)
      PROVE  LockInv'
  <2>1. CASE Refused(w)
    BY <1>1, <1>16, <2>1 DEF Recreate
  <2>2. CASE ~Refused(w)
    BY <1>1, <1>16, <2>2 DEF Recreate
  <2> QED
    BY <2>1, <2>2
<1>17. ASSUME NEW w \in Checkouts, RecordIdentity(w)
      PROVE  LockInv'
  <2>1. CASE Refused(w)
    BY <1>1, <1>17, <2>1 DEF RecordIdentity
  <2>2. CASE ~Refused(w)
    BY <1>1, <1>17, <2>2 DEF RecordIdentity
  <2> QED
    BY <2>1, <2>2
<1>18. ASSUME NEW w \in Checkouts, MergeProgress(w)
      PROVE  LockInv'
  BY <1>1, <1>18 DEF MergeProgress, MergeDestination
<1>19. ASSUME NEW w \in Checkouts, WorkerCommits(w)
      PROVE  LockInv'
  BY <1>1, <1>19 DEF WorkerCommits
<1>20. ASSUME NEW w \in Checkouts, WorkerEdits(w)
      PROVE  LockInv'
  BY <1>1, <1>20 DEF WorkerEdits
<1>21. ASSUME NEW w \in Checkouts, CheckoutVanishes(w)
      PROVE  LockInv'
  BY <1>1, <1>21 DEF CheckoutVanishes
<1>22. CASE DestinationCommits
  BY <1>1, <1>22 DEF DestinationCommits
<1>23. CASE DestinationEdits
  BY <1>1, <1>23 DEF DestinationEdits
<1>24. CASE ProcessDies
  BY <1>1, <1>24 DEF ProcessDies
<1>25. CASE UNCHANGED worktreeVars
  BY <1>1, <1>25 DEF worktreeVars
<1> QED
  BY <1>2, <1>3, <1>4, <1>5, <1>6, <1>7, <1>8, <1>9, <1>10, <1>11, <1>12, <1>13, <1>14,
     <1>15, <1>16, <1>17, <1>18, <1>19, <1>20, <1>21, <1>22, <1>23, <1>24, <1>25
  DEF WorktreeNext, WorktreeOperation

\* The number of the next commit is not in use.
LEMMA NextCommitIsNew ==
  ASSUME WorktreeTypeOK
  PROVE  commits.count + 1 \notin Made
<1>1. commits.count \in Nat
  BY DEF WorktreeTypeOK
<1>2. \A n \in Nat : n + 1 \notin 0..n
  OBVIOUS
<1> QED
  BY <1>1, <1>2 DEF Made

\* An integration sees no other pair, and no candidate that the destination has left.
LEMMA IntegrationNext ==
  ASSUME WorktreeTypeOK, LockInv, IntegrationInv, [WorktreeNext]_worktreeVars
  PROVE  IntegrationInv'
<1> USE WorktreeAssumption DEF IntegrationInv, On, Ended, Refused, upstream, checkout, judged,
        LockedPlaces, Integrating, Removing
<1>1. /\ wop \in [Checkouts -> {"idle", "added"} \cup LockedPlaces]
      /\ DOMAIN wname = Checkouts /\ DOMAIN chosen = Checkouts /\ DOMAIN reviews = Checkouts
  BY DEF WorktreeTypeOK
<1>2. ASSUME NEW w \in Checkouts, AddCheckout(w)
      PROVE  IntegrationInv'
  BY <1>1, <1>2 DEF AddCheckout
<1>3. ASSUME NEW w \in Checkouts, WriteSidecar(w)
      PROVE  IntegrationInv'
  BY <1>1, <1>3 DEF WriteSidecar
<1>4. ASSUME NEW w \in Checkouts, Review(w)
      PROVE  IntegrationInv'
  BY <1>1, <1>4 DEF Review
<1>5. ASSUME NEW w \in Checkouts, Lock(w)
      PROVE  IntegrationInv'
  BY <1>1, <1>5 DEF Lock
<1>6. ASSUME NEW w \in Checkouts, CompareHeads(w)
      PROVE  IntegrationInv'
  BY <1>1, <1>6 DEF CompareHeads
<1>7. ASSUME NEW w \in Checkouts, CompareTarget(w)
      PROVE  IntegrationInv'
  BY <1>1, <1>7 DEF CompareTarget, MergeDestination
<1>8. ASSUME NEW w \in Checkouts, CheckReview(w, "check", "validating")
      PROVE  IntegrationInv'
  BY <1>1, <1>8 DEF CheckReview
<1>9. ASSUME NEW w \in Checkouts, Validate(w)
      PROVE  IntegrationInv'
  BY <1>1, <1>9 DEF Validate
<1>10. ASSUME NEW w \in Checkouts, CheckReview(w, "check again", "merging")
      PROVE  IntegrationInv'
  BY <1>1, <1>10 DEF CheckReview
<1>11. ASSUME NEW w \in Checkouts, FastForward(w)
      PROVE  IntegrationInv'
  <2>1. \A u \in Checkouts \ {w} : wop[u] # "merging"
    BY <1>11 DEF FastForward, LockInv, Locked
  <2>2. CASE Refused(w)
    BY <1>1, <1>11, <2>2 DEF FastForward
  <2>3. CASE ~Refused(w)
    <3>1. /\ wop' = [wop EXCEPT ![w] = "recording"] /\ dest' = dest \cup chosen[w].head
          /\ UNCHANGED <<wname, reviews, chosen>>
      BY <1>11, <2>3 DEF FastForward
    <3> QED
      BY <1>1, <1>11, <2>1, <3>1 DEF FastForward
  <2> QED
    BY <2>2, <2>3
<1>12. ASSUME NEW w \in Checkouts, RecordIntegration(w)
      PROVE  IntegrationInv'
  BY <1>1, <1>12 DEF RecordIntegration
<1>13. ASSUME NEW w \in Checkouts, CheckMerged(w)
      PROVE  IntegrationInv'
  BY <1>1, <1>13 DEF CheckMerged
<1>14. ASSUME NEW w \in Checkouts, RemoveCheckout(w)
      PROVE  IntegrationInv'
  BY <1>1, <1>14 DEF RemoveCheckout
<1>15. ASSUME NEW w \in Checkouts, DeleteBranch(w)
      PROVE  IntegrationInv'
  BY <1>1, <1>15 DEF DeleteBranch
<1>16. ASSUME NEW w \in Checkouts, Recreate(w)
      PROVE  IntegrationInv'
  BY <1>1, <1>16 DEF Recreate
<1>17. ASSUME NEW w \in Checkouts, RecordIdentity(w)
      PROVE  IntegrationInv'
  BY <1>1, <1>17 DEF RecordIdentity
<1>18. ASSUME NEW w \in Checkouts, MergeProgress(w)
      PROVE  IntegrationInv'
  BY <1>1, <1>18 DEF MergeProgress, MergeDestination
<1>19. ASSUME NEW w \in Checkouts, WorkerCommits(w)
      PROVE  IntegrationInv'
  BY <1>1, <1>19 DEF WorkerCommits
<1>20. ASSUME NEW w \in Checkouts, WorkerEdits(w)
      PROVE  IntegrationInv'
  BY <1>1, <1>20 DEF WorkerEdits
<1>21. ASSUME NEW w \in Checkouts, CheckoutVanishes(w)
      PROVE  IntegrationInv'
  BY <1>1, <1>21 DEF CheckoutVanishes
<1>22. CASE DestinationCommits
  <2>1. \A u \in Checkouts : commits.count + 1 \notin chosen[u].head
    <3>1. \A u \in Checkouts : chosen[u].head \subseteq Made
      BY DEF WorktreeTypeOK, Pairs
    <3> QED
      BY <3>1, NextCommitIsNew
  <2> QED
    BY <1>1, <1>22, <2>1 DEF DestinationCommits
<1>23. CASE DestinationEdits
  BY <1>1, <1>23 DEF DestinationEdits
<1>24. CASE ProcessDies
  BY <1>1, <1>24 DEF ProcessDies
<1>25. CASE UNCHANGED worktreeVars
  BY <1>1, <1>25 DEF worktreeVars
<1> QED
  BY <1>2, <1>3, <1>4, <1>5, <1>6, <1>7, <1>8, <1>9, <1>10, <1>11, <1>12, <1>13, <1>14,
     <1>15, <1>16, <1>17, <1>18, <1>19, <1>20, <1>21, <1>22, <1>23, <1>24, <1>25
  DEF WorktreeNext, WorktreeOperation

\* A checkout has its branch.
LEMMA BranchNext ==
  ASSUME WorktreeTypeOK, LockInv, BranchInv, [WorktreeNext]_worktreeVars
  PROVE  BranchInv'
<1> USE WorktreeAssumption DEF BranchInv, On, Ended, Refused, upstream, checkout, judged,
        LockedPlaces, Integrating, Removing
<1>1. /\ wop \in [Checkouts -> {"idle", "added"} \cup LockedPlaces]
      /\ DOMAIN wname = Checkouts
      /\ branch \in [Checkouts -> BOOLEAN] /\ present \in [Checkouts -> BOOLEAN]
  BY DEF WorktreeTypeOK
<1>2. ASSUME NEW w \in Checkouts, AddCheckout(w)
      PROVE  BranchInv'
  BY <1>1, <1>2 DEF AddCheckout
<1>3. ASSUME NEW w \in Checkouts, WriteSidecar(w)
      PROVE  BranchInv'
  BY <1>1, <1>3 DEF WriteSidecar
<1>4. ASSUME NEW w \in Checkouts, Review(w)
      PROVE  BranchInv'
  BY <1>1, <1>4 DEF Review
<1>5. ASSUME NEW w \in Checkouts, Lock(w)
      PROVE  BranchInv'
  BY <1>1, <1>5 DEF Lock
<1>6. ASSUME NEW w \in Checkouts, CompareHeads(w)
      PROVE  BranchInv'
  BY <1>1, <1>6 DEF CompareHeads, Clean, Intact
<1>7. ASSUME NEW w \in Checkouts, CompareTarget(w)
      PROVE  BranchInv'
  BY <1>1, <1>7 DEF CompareTarget, MergeDestination
<1>8. ASSUME NEW w \in Checkouts, CheckReview(w, "check", "validating")
      PROVE  BranchInv'
  BY <1>1, <1>8 DEF CheckReview
<1>9. ASSUME NEW w \in Checkouts, Validate(w)
      PROVE  BranchInv'
  BY <1>1, <1>9 DEF Validate
<1>10. ASSUME NEW w \in Checkouts, CheckReview(w, "check again", "merging")
      PROVE  BranchInv'
  BY <1>1, <1>10 DEF CheckReview
<1>11. ASSUME NEW w \in Checkouts, FastForward(w)
      PROVE  BranchInv'
  BY <1>1, <1>11 DEF FastForward
<1>12. ASSUME NEW w \in Checkouts, RecordIntegration(w)
      PROVE  BranchInv'
  BY <1>1, <1>12 DEF RecordIntegration
<1>13. ASSUME NEW w \in Checkouts, CheckMerged(w)
      PROVE  BranchInv'
  BY <1>1, <1>13 DEF CheckMerged
<1>14. ASSUME NEW w \in Checkouts, RemoveCheckout(w)
      PROVE  BranchInv'
  BY <1>1, <1>14 DEF RemoveCheckout
<1>15. ASSUME NEW w \in Checkouts, DeleteBranch(w)
      PROVE  BranchInv'
  BY <1>1, <1>15 DEF DeleteBranch
<1>16. ASSUME NEW w \in Checkouts, Recreate(w)
      PROVE  BranchInv'
  <2>1. CASE Refused(w)
    BY <1>1, <1>16, <2>1 DEF Recreate
  <2>2. CASE ~Refused(w)
    <3>1. CASE present[w]
      BY <1>1, <1>16, <2>2, <3>1 DEF Recreate
    <3>2. CASE ~present[w]
      <4>1. /\ present' = [present EXCEPT ![w] = TRUE] /\ branch' = [branch EXCEPT ![w] = TRUE]
            /\ wop' = [wop EXCEPT ![w] = "added"]
        BY <1>16, <2>2, <3>2 DEF Recreate
      <4> QED
        BY <1>1, <4>1
    <3> QED
      BY <3>1, <3>2
  <2> QED
    BY <2>1, <2>2
<1>17. ASSUME NEW w \in Checkouts, RecordIdentity(w)
      PROVE  BranchInv'
  BY <1>1, <1>17 DEF RecordIdentity
<1>18. ASSUME NEW w \in Checkouts, MergeProgress(w)
      PROVE  BranchInv'
  BY <1>1, <1>18 DEF MergeProgress, MergeDestination
<1>19. ASSUME NEW w \in Checkouts, WorkerCommits(w)
      PROVE  BranchInv'
  BY <1>1, <1>19 DEF WorkerCommits
<1>20. ASSUME NEW w \in Checkouts, WorkerEdits(w)
      PROVE  BranchInv'
  BY <1>1, <1>20 DEF WorkerEdits
<1>21. ASSUME NEW w \in Checkouts, CheckoutVanishes(w)
      PROVE  BranchInv'
  BY <1>1, <1>21 DEF CheckoutVanishes
<1>22. CASE DestinationCommits
  BY <1>1, <1>22 DEF DestinationCommits
<1>23. CASE DestinationEdits
  BY <1>1, <1>23 DEF DestinationEdits
<1>24. CASE ProcessDies
  BY <1>1, <1>24 DEF ProcessDies
<1>25. CASE UNCHANGED worktreeVars
  BY <1>1, <1>25 DEF worktreeVars
<1> QED
  BY <1>2, <1>3, <1>4, <1>5, <1>6, <1>7, <1>8, <1>9, <1>10, <1>11, <1>12, <1>13, <1>14,
     <1>15, <1>16, <1>17, <1>18, <1>19, <1>20, <1>21, <1>22, <1>23, <1>24, <1>25
  DEF WorktreeNext, WorktreeOperation

\* The destination never loses a commit, and a record follows its merge.
LEMMA MergedNext ==
  ASSUME WorktreeTypeOK, IntegrationInv, IntegratedMeansMerged, [WorktreeNext]_worktreeVars
  PROVE  IntegratedMeansMerged'
<1> USE DEF IntegratedMeansMerged, On, Ended, Refused, upstream, checkout, judged,
        LockedPlaces, Integrating, Removing
<1>1. DOMAIN integrated = Checkouts
      /\ \A w \in Checkouts : wop[w] = "recording" => chosen[w].head \subseteq dest
  BY DEF WorktreeTypeOK, IntegrationInv
<1>2. ASSUME NEW w \in Checkouts, AddCheckout(w)
      PROVE  IntegratedMeansMerged'
  BY <1>1, <1>2 DEF AddCheckout
<1>3. ASSUME NEW w \in Checkouts, WriteSidecar(w)
      PROVE  IntegratedMeansMerged'
  BY <1>1, <1>3 DEF WriteSidecar
<1>4. ASSUME NEW w \in Checkouts, Review(w)
      PROVE  IntegratedMeansMerged'
  BY <1>1, <1>4 DEF Review
<1>5. ASSUME NEW w \in Checkouts, Lock(w)
      PROVE  IntegratedMeansMerged'
  BY <1>1, <1>5 DEF Lock
<1>6. ASSUME NEW w \in Checkouts, CompareHeads(w)
      PROVE  IntegratedMeansMerged'
  BY <1>1, <1>6 DEF CompareHeads
<1>7. ASSUME NEW w \in Checkouts, CompareTarget(w)
      PROVE  IntegratedMeansMerged'
  BY <1>1, <1>7 DEF CompareTarget, MergeDestination
<1>8. ASSUME NEW w \in Checkouts, CheckReview(w, "check", "validating")
      PROVE  IntegratedMeansMerged'
  BY <1>1, <1>8 DEF CheckReview
<1>9. ASSUME NEW w \in Checkouts, Validate(w)
      PROVE  IntegratedMeansMerged'
  BY <1>1, <1>9 DEF Validate
<1>10. ASSUME NEW w \in Checkouts, CheckReview(w, "check again", "merging")
      PROVE  IntegratedMeansMerged'
  BY <1>1, <1>10 DEF CheckReview
<1>11. ASSUME NEW w \in Checkouts, FastForward(w)
      PROVE  IntegratedMeansMerged'
  BY <1>1, <1>11 DEF FastForward
<1>12. ASSUME NEW w \in Checkouts, RecordIntegration(w)
      PROVE  IntegratedMeansMerged'
  BY <1>1, <1>12 DEF RecordIntegration
<1>13. ASSUME NEW w \in Checkouts, CheckMerged(w)
      PROVE  IntegratedMeansMerged'
  BY <1>1, <1>13 DEF CheckMerged
<1>14. ASSUME NEW w \in Checkouts, RemoveCheckout(w)
      PROVE  IntegratedMeansMerged'
  BY <1>1, <1>14 DEF RemoveCheckout
<1>15. ASSUME NEW w \in Checkouts, DeleteBranch(w)
      PROVE  IntegratedMeansMerged'
  BY <1>1, <1>15 DEF DeleteBranch
<1>16. ASSUME NEW w \in Checkouts, Recreate(w)
      PROVE  IntegratedMeansMerged'
  BY <1>1, <1>16 DEF Recreate
<1>17. ASSUME NEW w \in Checkouts, RecordIdentity(w)
      PROVE  IntegratedMeansMerged'
  BY <1>1, <1>17 DEF RecordIdentity
<1>18. ASSUME NEW w \in Checkouts, MergeProgress(w)
      PROVE  IntegratedMeansMerged'
  BY <1>1, <1>18 DEF MergeProgress, MergeDestination
<1>19. ASSUME NEW w \in Checkouts, WorkerCommits(w)
      PROVE  IntegratedMeansMerged'
  BY <1>1, <1>19 DEF WorkerCommits
<1>20. ASSUME NEW w \in Checkouts, WorkerEdits(w)
      PROVE  IntegratedMeansMerged'
  BY <1>1, <1>20 DEF WorkerEdits
<1>21. ASSUME NEW w \in Checkouts, CheckoutVanishes(w)
      PROVE  IntegratedMeansMerged'
  BY <1>1, <1>21 DEF CheckoutVanishes
<1>22. CASE DestinationCommits
  BY <1>1, <1>22 DEF DestinationCommits
<1>23. CASE DestinationEdits
  BY <1>1, <1>23 DEF DestinationEdits
<1>24. CASE ProcessDies
  BY <1>1, <1>24 DEF ProcessDies
<1>25. CASE UNCHANGED worktreeVars
  BY <1>1, <1>25 DEF worktreeVars
<1> QED
  BY <1>2, <1>3, <1>4, <1>5, <1>6, <1>7, <1>8, <1>9, <1>10, <1>11, <1>12, <1>13, <1>14,
     <1>15, <1>16, <1>17, <1>18, <1>19, <1>20, <1>21, <1>22, <1>23, <1>24, <1>25
  DEF WorktreeNext, WorktreeOperation

\* A merge into a worker's branch adds to what it holds.
LEMMA MergeKeepsWork ==
  ASSUME WorktreeTypeOK, NoCommitLost, NEW w \in Checkouts, MergeDestination(w),
         branch[w], UNCHANGED <<dest, branch>>
  PROVE  NoCommitLost'
<1>1. DOMAIN head = Checkouts /\ commits.work \in [Checkouts -> SUBSET Nat]
  BY DEF WorktreeTypeOK
<1>2. CASE UNCHANGED commits
  <2>1. \A u \in Checkouts : head'[u] = head[u] \/ (u = w /\ head[u] \subseteq dest)
                            \/ head[u] \subseteq head'[u]
    BY <1>1 DEF MergeDestination, Ancestor
  <2> QED
    BY <1>2, <2>1 DEF NoCommitLost
<1>3. CASE commits' # commits
  <2>1. /\ head' = [head EXCEPT ![w] = @ \cup dest \cup {commits.count + 1}]
        /\ commits'.work = [commits.work EXCEPT ![w] = @ \cup {commits.count + 1}]
    BY <1>3 DEF MergeDestination
  <2> QED
    BY <1>1, <2>1 DEF NoCommitLost
<1> QED
  BY <1>2, <1>3

\* A head only grows, except where its branch is deleted or made again.
LEMMA NoCommitLostNext ==
  ASSUME WorktreeTypeOK, BranchInv, NoCommitLost, [WorktreeNext]_worktreeVars
  PROVE  NoCommitLost'
<1> USE DEF NoCommitLost, On, Ended, Refused, upstream, checkout, judged,
        LockedPlaces, Integrating, Removing
<1>1. /\ DOMAIN head = Checkouts /\ branch \in [Checkouts -> BOOLEAN] /\ BranchInv
      /\ commits.count \in Nat /\ commits.work \in [Checkouts -> SUBSET Nat]
  BY DEF WorktreeTypeOK
<1>2. ASSUME NEW w \in Checkouts, AddCheckout(w)
      PROVE  NoCommitLost'
  BY <1>1, <1>2 DEF AddCheckout
<1>3. ASSUME NEW w \in Checkouts, WriteSidecar(w)
      PROVE  NoCommitLost'
  BY <1>1, <1>3 DEF WriteSidecar
<1>4. ASSUME NEW w \in Checkouts, Review(w)
      PROVE  NoCommitLost'
  BY <1>1, <1>4 DEF Review
<1>5. ASSUME NEW w \in Checkouts, Lock(w)
      PROVE  NoCommitLost'
  BY <1>1, <1>5 DEF Lock
<1>6. ASSUME NEW w \in Checkouts, CompareHeads(w)
      PROVE  NoCommitLost'
  BY <1>1, <1>6 DEF CompareHeads
<1>7. ASSUME NEW w \in Checkouts, CompareTarget(w)
      PROVE  NoCommitLost'
  <2>1. branch[w] /\ UNCHANGED <<dest, branch>>
    BY <1>1, <1>7 DEF CompareTarget, BranchInv
  <2>2. CASE MergeDestination(w)
    BY <2>1, <2>2, MergeKeepsWork
  <2>3. CASE UNCHANGED <<head, dirty, commits>>
    BY <2>1, <2>3
  <2> QED
    BY <1>7, <2>2, <2>3 DEF CompareTarget
<1>8. ASSUME NEW w \in Checkouts, CheckReview(w, "check", "validating")
      PROVE  NoCommitLost'
  BY <1>1, <1>8 DEF CheckReview
<1>9. ASSUME NEW w \in Checkouts, Validate(w)
      PROVE  NoCommitLost'
  BY <1>1, <1>9 DEF Validate
<1>10. ASSUME NEW w \in Checkouts, CheckReview(w, "check again", "merging")
      PROVE  NoCommitLost'
  BY <1>1, <1>10 DEF CheckReview
<1>11. ASSUME NEW w \in Checkouts, FastForward(w)
      PROVE  NoCommitLost'
  BY <1>1, <1>11 DEF FastForward
<1>12. ASSUME NEW w \in Checkouts, RecordIntegration(w)
      PROVE  NoCommitLost'
  BY <1>1, <1>12 DEF RecordIntegration
<1>13. ASSUME NEW w \in Checkouts, CheckMerged(w)
      PROVE  NoCommitLost'
  BY <1>1, <1>13 DEF CheckMerged
<1>14. ASSUME NEW w \in Checkouts, RemoveCheckout(w)
      PROVE  NoCommitLost'
  BY <1>1, <1>14 DEF RemoveCheckout
<1>15. ASSUME NEW w \in Checkouts, DeleteBranch(w)
      PROVE  NoCommitLost'
  <2>1. /\ UNCHANGED <<dest, head, commits>>
        /\ branch' = [branch EXCEPT ![w] = @ /\ ~Ancestor(head[w], dest)]
    BY <1>15 DEF DeleteBranch
  <2>2. \A u \in Checkouts : branch'[u] = branch[u] \/ (u = w /\ head[w] \subseteq dest)
    BY <1>1, <2>1, Zenon DEF Ancestor
  <2> QED
    BY <2>1, <2>2
<1>16. ASSUME NEW w \in Checkouts, Recreate(w)
      PROVE  NoCommitLost'
  BY <1>1, <1>16 DEF Recreate
<1>17. ASSUME NEW w \in Checkouts, RecordIdentity(w)
      PROVE  NoCommitLost'
  BY <1>1, <1>17 DEF RecordIdentity
<1>18. ASSUME NEW w \in Checkouts, MergeProgress(w)
      PROVE  NoCommitLost'
  <2>1. UNCHANGED <<dest, branch>>
    BY <1>18 DEF MergeProgress
  <2>2. CASE MergeDestination(w) /\ present[w]
    <3>1. branch[w]
      BY <1>1, <2>2 DEF BranchInv
    <3> QED
      BY <2>1, <2>2, <3>1, MergeKeepsWork
  <2>3. CASE UNCHANGED <<head, dirty, commits>>
    BY <2>1, <2>3
  <2> QED
    BY <1>18, <2>2, <2>3 DEF MergeProgress
<1>19. ASSUME NEW w \in Checkouts, WorkerCommits(w)
      PROVE  NoCommitLost'
  <2>1. /\ branch[w] /\ UNCHANGED <<dest, branch>>
        /\ head' = [head EXCEPT ![w] = @ \cup {commits.count + 1}]
        /\ commits'.work = [commits.work EXCEPT ![w] = @ \cup {commits.count + 1}]
    BY <1>1, <1>19 DEF WorkerCommits, BranchInv
  <2> QED
    BY <1>1, <2>1
<1>20. ASSUME NEW w \in Checkouts, WorkerEdits(w)
      PROVE  NoCommitLost'
  BY <1>1, <1>20 DEF WorkerEdits
<1>21. ASSUME NEW w \in Checkouts, CheckoutVanishes(w)
      PROVE  NoCommitLost'
  BY <1>1, <1>21 DEF CheckoutVanishes
<1>22. CASE DestinationCommits
  BY <1>1, <1>22 DEF DestinationCommits
<1>23. CASE DestinationEdits
  BY <1>1, <1>23 DEF DestinationEdits
<1>24. CASE ProcessDies
  BY <1>1, <1>24 DEF ProcessDies
<1>25. CASE UNCHANGED worktreeVars
  BY <1>1, <1>25 DEF worktreeVars
<1> QED
  BY <1>2, <1>3, <1>4, <1>5, <1>6, <1>7, <1>8, <1>9, <1>10, <1>11, <1>12, <1>13, <1>14,
     <1>15, <1>16, <1>17, <1>18, <1>19, <1>20, <1>21, <1>22, <1>23, <1>24, <1>25
  DEF WorktreeNext, WorktreeOperation
-----------------------------------------------------------------------------
LEMMA WorktreeInvInit == WorktreeInit => WorktreeInv
<1> SUFFICES ASSUME WorktreeInit
             PROVE  WorktreeInv
  OBVIOUS
<1> USE WorktreeAssumption DEF WorktreeInit
<1>1. commits.count = 0 /\ commits.work = [w \in Checkouts |-> {}]
  OBVIOUS
<1>2. Made = {0}
  BY <1>1 DEF Made
<1>3. NoPair \in Pairs
  BY DEF NoPair, Pairs
<1>4. WorktreeTypeOK
  BY <1>1, <1>2, <1>3 DEF WorktreeTypeOK, Operations, ToolOperations
<1>5. LockInv /\ IntegrationInv /\ BranchInv
  BY DEF LockInv, Locked, IntegrationInv, BranchInv, LockedPlaces, Integrating, Removing
<1>6. IntegratedMeansMerged /\ NoCommitLost
  BY <1>1 DEF IntegratedMeansMerged, NoCommitLost
<1> QED
  BY <1>4, <1>5, <1>6 DEF WorktreeInv

LEMMA WorktreeInvAlways == WorktreeSpec => []WorktreeInv
<1>1. WorktreeInv /\ [WorktreeNext]_worktreeVars => WorktreeInv'
  BY WorktreeTypeNext, LockNext, IntegrationNext, BranchNext, MergedNext, NoCommitLostNext
  DEF WorktreeInv
<1> QED
  BY <1>1, WorktreeInvInit, PTL DEF WorktreeSpec

\* The values of every variable; heads, reviews and records only name commits
\* that somebody made.
THEOREM WorktreeTypeCorrect == WorktreeSpec => []WorktreeTypeOK
<1>1. WorktreeInv => WorktreeTypeOK
  BY DEF WorktreeInv
<1> QED
  BY <1>1, WorktreeInvAlways, PTL

\* The lock of the destination excludes: no two operations of the workers tool are
\* between their lock and their end at once (_worker_lock).
THEOREM OneOperationAtATime ==
  WorktreeSpec => [](\A v, w \in Checkouts : Locked(v) /\ Locked(w) => v = w)
<1>1. WorktreeInv => \A v, w \in Checkouts : Locked(v) /\ Locked(w) => v = w
  BY DEF WorktreeInv, LockInv
<1> QED
  BY <1>1, WorktreeInvAlways, PTL

\* A sidecar records an integration only once the destination holds it, and the
\* destination never loses it (integrate, the update of the sidecar).
THEOREM IntegratedIsMerged == WorktreeSpec => []IntegratedMeansMerged
<1>1. WorktreeInv => IntegratedMeansMerged
  BY DEF WorktreeInv
<1> QED
  BY <1>1, WorktreeInvAlways, PTL

\* Cleanup, recovery, a crash or the removal of a checkout loses no commit of any
\* worker (cleanup_worker, reconcile).
THEOREM CommitsKept == WorktreeSpec => []NoCommitLost
<1>1. WorktreeInv => NoCommitLost
  BY DEF WorktreeInv
<1> QED
  BY <1>1, WorktreeInvAlways, PTL

ReviewedArrives ==
  \A w \in Checkouts :
    (dest' \ dest) \cap commits.work[w] # {} =>
      \E u \in Checkouts : \E r \in reviews[u] : r.head = dest' /\ r.parent = dest

\* Only a fast-forward brings a worker's commit to the destination, and then from
\* the parent that was reviewed to the head that was.
LEMMA ReviewedArrivesNext ==
  ASSUME WorktreeInv, [WorktreeNext]_worktreeVars
  PROVE  ReviewedArrives
<1>1. CASE dest' = dest
  BY <1>1 DEF ReviewedArrives
<1>2. CASE DestinationCommits
  <2>1. dest' = dest \cup {commits.count + 1}
    BY <1>2 DEF DestinationCommits
  <2>2. commits.count \in Nat /\ \A w \in Checkouts : commits.work[w] \subseteq Made
    BY DEF WorktreeInv, WorktreeTypeOK
  <2>3. \A w \in Checkouts : commits.count + 1 \notin commits.work[w]
    BY <2>2 DEF Made
  <2> QED
    BY <2>1, <2>3 DEF ReviewedArrives
<1>3. ASSUME NEW u \in Checkouts, FastForward(u), dest' # dest
      PROVE  ReviewedArrives
  <2>1. /\ wop[u] = "merging" /\ dest' = dest \cup chosen[u].head
        /\ dest \subseteq chosen[u].head
    BY <1>3 DEF FastForward, Refused, upstream, Ancestor
  <2>2. dest' = chosen[u].head
    BY <2>1
  <2>3. chosen[u] \in reviews[u] /\ chosen[u].parent = dest
    BY <2>1 DEF WorktreeInv, IntegrationInv, Integrating
  <2> QED
    BY <2>2, <2>3 DEF ReviewedArrives
<1>4. dest' = dest \/ DestinationCommits \/ \E u \in Checkouts : FastForward(u)
  BY DEF WorktreeNext, WorktreeOperation, AddCheckout, WriteSidecar, Review, Lock,
         CompareHeads, CompareTarget, CheckReview, Validate, RecordIntegration,
         CheckMerged, RemoveCheckout, DeleteBranch, Recreate, RecordIdentity,
         MergeProgress, WorkerCommits, WorkerEdits, CheckoutVanishes, DestinationEdits,
         ProcessDies, Refused, upstream, worktreeVars
<1> QED
  BY <1>1, <1>2, <1>3, <1>4

\* What arrives in the destination of a worker's commits is exactly a reviewed pair,
\* whatever is committed on either side during validation (integrate).
THEOREM OnlyReviewedIntegrates == WorktreeSpec => OnlyReviewedArrives
<1>1. WorktreeInv /\ [WorktreeNext]_worktreeVars => [ReviewedArrives]_worktreeVars
  BY ReviewedArrivesNext
<1>2. OnlyReviewedArrives <=> [][ReviewedArrives]_worktreeVars
  BY PTL DEF OnlyReviewedArrives, ReviewedArrives
<1> QED
  BY <1>1, <1>2, WorktreeInvAlways, PTL DEF WorktreeSpec
=============================================================================
