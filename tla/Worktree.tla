------------------------------- MODULE Worktree -------------------------------
(***************************************************************************)
(* The checkouts of write workers (extras/worktree.py) and the workers     *)
(* tool that reviews, integrates, cleans up and recovers them              *)
(* (agent/tools/workers.py).  The workers share one destination branch.    *)
(* An action is the code between two git commands that may see another     *)
(* world; reads of the same checkout in a row are one action.  Heads are   *)
(* the sets of commits they reach: a commit's hash stands for that set,    *)
(* ancestry is inclusion and a merge of two lines of work adds a commit.   *)
(***************************************************************************)
EXTENDS Naturals, FiniteSets

CONSTANTS
  Checkouts,      \* the workers with a checkout of their own
  MaxCommits,     \* bound: commits made by anybody
  MaxReviews      \* bound: reviews of each worker

ASSUME WorktreeAssumption ==
  MaxCommits \in Nat /\ MaxReviews \in Nat /\ "free" \notin Checkouts

VARIABLES
  wop,            \* where the operation on a worker is suspended
  wname,          \* which operation it is
  flock,          \* the worker whose operation holds the destination's lock
  dest,           \* the head of the destination branch
  destDirty,      \* it has uncommitted changes or a merge in progress
  base,           \* the base_commit of each worker
  head,           \* the head of its branch
  dirty,          \* its checkout has uncommitted changes or a merge in progress
  branch,         \* its branch exists
  present,        \* its checkout exists
  sidecar,        \* "none", "known" or "stale": the checkout identity it records
  integrated,     \* its integrated_head, {} for none
  reviews,        \* the pairs of heads a supervisor was shown
  chosen,         \* the pair the integration in flight was called with
  commits         \* commits made so far, and by whom

worktreeVars == <<wop, wname, flock, dest, destDirty, base, head, dirty, branch, present,
                  sidecar, integrated, reviews, chosen, commits>>
checkout == <<dirty, branch, present, sidecar>>
upstream == <<dest, destDirty>>
judged == <<base, integrated, reviews, chosen>>

NoPair == [head |-> {}, parent |-> {}]

WorktreeInit ==
  /\ wop = [w \in Checkouts |-> "idle"]
  /\ wname = [w \in Checkouts |-> "none"]
  /\ flock = "free"
  /\ dest = {0} /\ destDirty = FALSE
  /\ head = [w \in Checkouts |-> {0}]
  /\ base = [w \in Checkouts |-> {0}]
  /\ dirty = [w \in Checkouts |-> FALSE]
  /\ branch = [w \in Checkouts |-> FALSE]
  /\ present = [w \in Checkouts |-> FALSE]
  /\ sidecar = [w \in Checkouts |-> "none"]
  /\ integrated = [w \in Checkouts |-> {}]
  /\ reviews = [w \in Checkouts |-> {}]
  /\ chosen = [w \in Checkouts |-> NoPair]
  /\ commits = [count |-> 0, work |-> [w \in Checkouts |-> {}]]

On(w, place) == wop' = [wop EXCEPT ![w] = place]
Ended(w) == On(w, "idle") /\ wname' = [wname EXCEPT ![w] = "none"]

\* An error anywhere under the lock: it is released and nothing else changes.
Refused(w) ==
  /\ Ended(w)
  /\ flock' = "free"
  /\ UNCHANGED <<upstream, head, checkout, judged, commits>>
-----------------------------------------------------------------------------
(* Worker and user: nothing reserves a checkout against them.               *)

WorkerCommits(w) ==
  /\ present[w] /\ commits.count < MaxCommits
  /\ LET n == commits.count + 1 IN
       /\ head' = [head EXCEPT ![w] = @ \cup {n}]
       /\ commits' = [count |-> n, work |-> [commits.work EXCEPT ![w] = @ \cup {n}]]
  /\ dirty' = [dirty EXCEPT ![w] = FALSE]
  /\ UNCHANGED <<wop, wname, flock, upstream, branch, present, sidecar, judged>>

WorkerEdits(w) ==
  /\ present[w] /\ ~dirty[w]
  /\ dirty' = [dirty EXCEPT ![w] = TRUE]
  /\ UNCHANGED <<wop, wname, flock, upstream, head, branch, present, sidecar,
                 judged, commits>>

DestinationCommits ==
  /\ commits.count < MaxCommits
  /\ dest' = dest \cup {commits.count + 1}
  /\ commits' = [commits EXCEPT !.count = @ + 1]
  /\ destDirty' = FALSE
  /\ UNCHANGED <<wop, wname, flock, head, checkout, judged>>

DestinationEdits ==
  /\ ~destDirty /\ destDirty' = TRUE
  /\ UNCHANGED <<wop, wname, flock, dest, head, checkout, judged, commits>>

\* rm -r of a checkout.
CheckoutVanishes(w) ==
  /\ present[w]
  /\ present' = [present EXCEPT ![w] = FALSE]
  /\ dirty' = [dirty EXCEPT ![w] = FALSE]
  /\ UNCHANGED <<wop, wname, flock, upstream, head, branch, sidecar, judged,
                 commits>>

\* The process dies; the lock dies with it, what is on disk stays.
ProcessDies ==
  /\ \E w \in Checkouts : wop[w] # "idle"
  /\ wop' = [w \in Checkouts |-> "idle"]
  /\ wname' = [w \in Checkouts |-> "none"]
  /\ flock' = "free"
  /\ UNCHANGED <<upstream, head, checkout, judged, commits>>
-----------------------------------------------------------------------------
(* create_worker: git worktree add, then the sidecar.                       *)

AddCheckout(w) ==
  /\ wop[w] = "idle" /\ ~branch[w] /\ ~present[w] /\ sidecar[w] = "none"
  /\ branch' = [branch EXCEPT ![w] = TRUE]
  /\ present' = [present EXCEPT ![w] = TRUE]
  /\ head' = [head EXCEPT ![w] = dest]
  /\ base' = [base EXCEPT ![w] = dest]
  /\ On(w, "added") /\ wname' = [wname EXCEPT ![w] = "create"]
  /\ UNCHANGED <<flock, upstream, dirty, sidecar, integrated, reviews, chosen,
                 commits>>

WriteSidecar(w) ==
  /\ wop[w] = "added" /\ wname[w] = "create"
  /\ sidecar' = [sidecar EXCEPT ![w] = IF present[w] THEN "known" ELSE @]
  /\ Ended(w)
  /\ UNCHANGED <<flock, upstream, head, dirty, branch, present, judged,
                 commits>>

\* The checkout is there, with the identity the sidecar records.
Intact(w) == present[w] /\ branch[w] /\ sidecar[w] = "known"

\* What inspect makes of a checkout before the workers tool touches it.
Inspected(w) == present[w] => Intact(w)

\* Neither checkout has changes or a merge in progress.
Clean(w) == Intact(w) /\ ~dirty[w] /\ ~destDirty

Ancestor(older, newer) == older \subseteq newer

\* What the workers tool does under the lock, and what the supervisor does before
\* a worker runs again.
ToolOperations == {"integrate", "cleanup", "recover"}
Operations == ToolOperations \cup {"reconcile"}

\* _review: the exact heads and the diff between them, when the worker is clean.
Review(w) ==
  /\ wop[w] = "idle" /\ Intact(w) /\ ~dirty[w]
  /\ Cardinality(reviews[w]) < MaxReviews
  /\ reviews' = [reviews EXCEPT ![w] = @ \cup {[head |-> head[w], parent |-> dest]}]
  /\ UNCHANGED <<wop, wname, flock, upstream, base, head, checkout, integrated,
                 chosen, commits>>

\* integrate, cleanup_worker and reconcile begin with _worker_lock.
Lock(w) ==
  /\ wop[w] = "idle" /\ sidecar[w] # "none" /\ flock = "free"
  /\ flock' = w
  /\ \E name \in Operations :
       /\ name \in ToolOperations => Inspected(w)
       /\ wname' = [wname EXCEPT ![w] = name]
       /\ IF name = "integrate"
          THEN \E r \in reviews[w] : chosen' = [chosen EXCEPT ![w] = r]
          ELSE UNCHANGED chosen
  /\ On(w, "locked")
  /\ UNCHANGED <<upstream, base, head, checkout, integrated, reviews, commits>>

\* git merge of the destination into the worker: nothing, a fast-forward, a merge
\* commit, or a conflict that stays in the checkout.
MergeDestination(w) ==
  IF Ancestor(dest, head[w]) THEN UNCHANGED <<head, dirty, commits>>
  ELSE \/ /\ Ancestor(head[w], dest)
          /\ head' = [head EXCEPT ![w] = dest]
          /\ UNCHANGED <<dirty, commits>>
       \/ /\ ~Ancestor(head[w], dest) /\ commits.count < MaxCommits
          /\ head' = [head EXCEPT ![w] = @ \cup dest \cup {commits.count + 1}]
          /\ commits' = [count |-> commits.count + 1,
                         work |-> [commits.work EXCEPT ![w] = @ \cup {commits.count + 1}]]
          /\ UNCHANGED dirty
       \/ /\ ~Ancestor(head[w], dest)
          /\ dirty' = [dirty EXCEPT ![w] = TRUE]
          /\ UNCHANGED <<head, commits>>
-----------------------------------------------------------------------------
(* integrate.                                                               *)

\* Both checkouts clean, the worker at the reviewed head, then the destination at
\* the reviewed parent: a destination that moved is merged and reviewed again.
CompareHeads(w) ==
  /\ wop[w] = "locked" /\ wname[w] = "integrate"
  /\ \/ /\ ~Clean(w) \/ head[w] # chosen[w].head
        /\ Refused(w)
     \/ /\ Clean(w) /\ head[w] = chosen[w].head
        /\ On(w, "target")
        /\ UNCHANGED <<wname, flock, upstream, head, checkout, judged, commits>>

CompareTarget(w) ==
  /\ wop[w] = "target"
  /\ IF dest = chosen[w].parent
     THEN /\ MergeDestination(w)
          /\ IF head' = head /\ dirty' = dirty
             THEN On(w, "check") /\ UNCHANGED <<wname, flock>>
             ELSE Ended(w) /\ flock' = "free"
     ELSE /\ IF Ancestor(chosen[w].parent, dest) THEN MergeDestination(w)
             ELSE UNCHANGED <<head, dirty, commits>>
          /\ Ended(w) /\ flock' = "free"
  /\ UNCHANGED <<upstream, branch, present, sidecar, judged>>

\* check_review, before the first validation command and after each.
CheckReview(w, at, next) ==
  /\ wop[w] = at
  /\ IF Clean(w) /\ head[w] = chosen[w].head /\ dest = chosen[w].parent
     THEN /\ On(w, next)
          /\ UNCHANGED <<wname, flock, upstream, head, checkout, judged,
                         commits>>
     ELSE Refused(w)

\* A validation command passes or fails; what it does to the checkouts is up to
\* it (WorkerCommits, WorkerEdits).
Validate(w) ==
  /\ wop[w] = "validating"
  /\ \/ On(w, "check again")
        /\ UNCHANGED <<wname, flock, upstream, head, checkout, judged, commits>>
     \/ Refused(w)

MergePlainly(w) ==
  /\ wop[w] = "merging"
  /\ dest' = dest \cup chosen[w].head
  /\ On(w, "recording")
  /\ UNCHANGED <<wname, flock, destDirty, head, checkout, judged, commits>>

\* git merge --ff-only of the reviewed commit.
FastForward(w) ==
  /\ wop[w] = "merging"
  /\ IF Ancestor(dest, chosen[w].head) \/ Ancestor(chosen[w].head, dest)
     THEN /\ dest' = dest \cup chosen[w].head
          /\ On(w, "recording")
          /\ UNCHANGED <<wname, flock, destDirty, head, checkout, judged,
                         commits>>
     ELSE Refused(w)

RecordCurrentHead(w) ==
  /\ wop[w] = "recording"
  /\ integrated' = [integrated EXCEPT ![w] = head[w]]
  /\ Ended(w) /\ flock' = "free"
  /\ UNCHANGED <<upstream, base, head, checkout, reviews, chosen, commits>>

RecordIntegration(w) ==
  /\ wop[w] = "recording"
  /\ integrated' = [integrated EXCEPT ![w] = chosen[w].head]
  /\ Ended(w) /\ flock' = "free"
  /\ UNCHANGED <<upstream, base, head, checkout, reviews, chosen, commits>>
-----------------------------------------------------------------------------
(* cleanup_worker (without discard) and reconcile.                          *)

CheckMerged(w) ==
  /\ wop[w] = "locked" /\ wname[w] = "cleanup"
  /\ IF Intact(w) /\ ~dirty[w] /\ Ancestor(head[w], dest)
     THEN /\ On(w, "remove")
          /\ UNCHANGED <<wname, flock, upstream, head, checkout, judged,
                         commits>>
     ELSE Refused(w)

\* git worktree remove refuses a dirty checkout.
RemoveCheckout(w) ==
  /\ wop[w] = "remove"
  /\ IF present[w] /\ dirty[w] THEN Refused(w)
     ELSE /\ present' = [present EXCEPT ![w] = FALSE]
          /\ On(w, "delete")
          /\ UNCHANGED <<wname, flock, upstream, head, dirty, branch, sidecar,
                         judged, commits>>

ForceDeleteBranch(w) ==
  /\ wop[w] = "delete"
  /\ branch' = [branch EXCEPT ![w] = FALSE]
  /\ Ended(w) /\ flock' = "free"
  /\ UNCHANGED <<upstream, head, dirty, present, sidecar, judged, commits>>

\* git branch -d, run in the destination, refuses what is not merged there.
DeleteBranch(w) ==
  /\ wop[w] = "delete"
  /\ branch' = [branch EXCEPT ![w] = @ /\ ~Ancestor(head[w], dest)]
  /\ Ended(w) /\ flock' = "free"
  /\ UNCHANGED <<upstream, head, dirty, present, sidecar, judged, commits>>

\* A checkout that is missing is recreated by recover only, from its branch or
\* from the base commit; the sidecar learns its identity afterwards.
Recreate(w) ==
  /\ wop[w] = "locked" /\ wname[w] \in {"reconcile", "recover"}
  /\ IF present[w]
     THEN /\ IF Intact(w)
             THEN /\ On(w, "merge")
                  /\ UNCHANGED <<wname, flock, upstream, head, checkout, judged,
                                 commits>>
             ELSE Refused(w)
     ELSE IF wname[w] = "reconcile" THEN Refused(w)
     ELSE /\ present' = [present EXCEPT ![w] = TRUE]
          /\ branch' = [branch EXCEPT ![w] = TRUE]
          /\ head' = [head EXCEPT ![w] = IF branch[w] THEN @ ELSE base[w]]
          /\ sidecar' = [sidecar EXCEPT ![w] = "stale"]
          /\ On(w, "added")
          /\ UNCHANGED <<wname, flock, upstream, dirty, judged, commits>>

RecordIdentity(w) ==
  /\ wop[w] = "added" /\ wname[w] = "recover"
  /\ IF present[w]
     THEN /\ sidecar' = [sidecar EXCEPT ![w] = "known"]
          /\ On(w, "merge")
          /\ UNCHANGED <<wname, flock, upstream, head, dirty, branch, present,
                         judged, commits>>
     ELSE Refused(w)

\* A clean worker gets the destination's commits; a dirty one is left alone.
MergeProgress(w) ==
  /\ wop[w] = "merge"
  /\ IF present[w] /\ ~dirty[w] THEN MergeDestination(w)
     ELSE UNCHANGED <<head, dirty, commits>>
  /\ Ended(w) /\ flock' = "free"
  /\ UNCHANGED <<upstream, branch, present, sidecar, judged>>

WorktreeOperation(w) ==
  \/ AddCheckout(w) \/ WriteSidecar(w) \/ Review(w) \/ Lock(w)
  \/ CompareHeads(w) \/ CompareTarget(w)
  \/ CheckReview(w, "check", "validating") \/ Validate(w)
  \/ CheckReview(w, "check again", "merging") \/ FastForward(w) \/ RecordIntegration(w)
  \/ CheckMerged(w) \/ RemoveCheckout(w) \/ DeleteBranch(w)
  \/ Recreate(w) \/ RecordIdentity(w) \/ MergeProgress(w)

WorktreeNext ==
  \/ \E w \in Checkouts :
       WorktreeOperation(w) \/ WorkerCommits(w) \/ WorkerEdits(w) \/ CheckoutVanishes(w)
  \/ DestinationCommits \/ DestinationEdits \/ ProcessDies

WorktreeSpec == WorktreeInit /\ [][WorktreeNext]_worktreeVars
-----------------------------------------------------------------------------
\* A worker's commit reaches the destination only as the reviewed diff: the
\* destination goes from the reviewed parent to the reviewed head, whatever was
\* committed on either side since ("Validate the exact reviewed candidate, then
\* fast-forward its pinned parent").
OnlyReviewedArrives ==
  [][\A w \in Checkouts :
       (dest' \ dest) \cap commits.work[w] # {} =>
         \E u \in Checkouts : \E r \in reviews[u] : r.head = dest' /\ r.parent = dest]_worktreeVars

\* A sidecar never claims an integration that the destination does not hold,
\* wherever the process dies.
IntegratedMeansMerged == \A w \in Checkouts : integrated[w] \subseteq dest

\* No committed work is lost by cleanup, recovery or a checkout that vanishes: it
\* is on the worker's branch or in the destination ("Cleanup removes only clean
\* integrated workspaces").
NoCommitLost ==
  \A w \in Checkouts :
    commits.work[w] \subseteq dest \cup (IF branch[w] THEN head[w] ELSE {})
=============================================================================
