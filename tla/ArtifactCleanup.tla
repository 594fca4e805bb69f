-------------------------- MODULE ArtifactCleanup --------------------------
(***************************************************************************)
(* Deletion and the three ways bytes leave the store (governance.ts and    *)
(* the SQL of 166 and 229): the removal queue that delete_sources and      *)
(* delete_datasets fill, the sweep of objects no row references, and the   *)
(* discard of a report that was staged and then refused.  Each rechecks    *)
(* under the address lock, deletes from the store inside the transaction,  *)
(* and lets COMMIT release the lock.                                       *)
(***************************************************************************)
EXTENDS GovernanceTables

(* Deletion. *)

Dependents(X) == {y \in Items : row[y] # "absent" /\ Inputs[y] \cap X # {}}

\* adopt_removal_observation, called by the trigger on object_removals and by
\* removal_recheck: a tombstone takes a model observation over.  (The revisit
\* horizon it then records is not part of this module.)
Adopted(A) == Marked(observed, A \cap ModelAddresses, "none")

\* Variant with a fault: only addresses that no row shares are queued.
WithdrawUnshared(X) ==
  LET shared == UNION {Files[x] : x \in {y \in Items \ X : Live(y)}}
      addresses == UNION {Files[x] : x \in X} \ shared
  IN /\ RowsUnpinned(X) /\ LockFree(addresses)
     /\ row' = [x \in Items |-> IF x \in X THEN "withdrawn" ELSE row[x]]
     /\ outcome' = Marked(outcome, addresses, "pending")
     /\ elapsed' = Marked(elapsed, addresses, FALSE)
     /\ observed' = Adopted(addresses)
     /\ UNCHANGED <<bytes, lock, job, pc, todo, at, absent, inflight>>

\* invalidate_dataset_dependents for rows locked FOR UPDATE: withdraw them and
\* queue every address they reference with a new grace.
Withdraw(X) ==
  LET addresses == UNION {Files[x] : x \in X}
  IN /\ RowsUnpinned(X) /\ LockFree(addresses)
     /\ row' = [x \in Items |-> IF x \in X THEN "withdrawn" ELSE row[x]]
     /\ outcome' = Marked(outcome, addresses, "pending")
     /\ elapsed' = Marked(elapsed, addresses, FALSE)
     /\ observed' = Adopted(addresses)
     /\ UNCHANGED <<bytes, lock, job, pc, todo, at, absent, inflight>>

\* Rows that exist, whatever their status: deleting again re-arms removal.
DeleteSources(ids) ==
  /\ ids # {} /\ ids \subseteq Snapshots
  /\ \A s \in ids : row[s] # "absent"
  /\ LET datasets == Dependents(ids)
     IN Withdraw(ids \cup datasets \cup Dependents(datasets))

DeleteDatasets(ids) ==
  /\ ids # {} /\ ids \subseteq Datasets
  /\ \A d \in ids : row[d] # "absent"
  /\ Withdraw(ids \cup Dependents(ids))

\* requeueRemovedObject, the explicit writer action.
RequeueRemovedObject(a) ==
  /\ Tombstoned(a) /\ LockFree({a})
  /\ outcome' = Requeued({a})
  /\ UNCHANGED <<bytes, row, elapsed, observed, lock, job, pc, todo, at, absent, inflight>>

GovernanceStep ==
  \/ \E ids \in DeletionRequests : DeleteSources(ids) \/ DeleteDatasets(ids)
  \/ \E a \in RequeueRequests : RequeueRemovedObject(a)
-----------------------------------------------------------------------------
(* The loop both lanes of a cleaner share.  A page is a list of candidates   *)
(* that may be out of date by the time their turn comes; each is processed in *)
(* a transaction of its own.  The model follows one candidate of a page at a  *)
(* time and lets any time pass between its selection and its turn.            *)

Select(c, a, lane) ==
  /\ pc[c] = "idle"
  /\ at' = [at EXCEPT ![c] = {a}]
  /\ Goto(c, lane)
  /\ UNCHANGED <<bytes, tables, lock, todo, absent, inflight>>

\* Variant with a fault: the lock is not kept.
ClaimUnlocked(c, step) == Goto(c, step) /\ UNCHANGED lock

\* BEGIN and the lock, kept until COMMIT.
Claim(c, step) == Acquire(c, at[c]) /\ Goto(c, step)

\* COMMIT, and on to the next candidate.
Finish(c) ==
  /\ Release(c)
  /\ at' = [at EXCEPT ![c] = {}]
  /\ Goto(c, "idle")

(* cleanupDeletedObjects: the pending lane. *)

SelectPending(c, a) ==
  /\ RemovalDue(a) /\ ~(a \in ModelAddresses /\ Enrolled(a))
  /\ Select(c, a, "cleaning")

\* Variant with a fault: the selection is trusted.
StillPending(a) == outcome[a] = "pending"

\* Adoption extends the grace of what was enrolled less than 300 s ago.
StillDue(a) == RemovalDue(a) /\ ~(a \in ModelAddresses /\ observed[a] = "fresh")

\* removal_recheck returned false: not pending, or not due (any more).
SkipRemoval(c) ==
  /\ pc[c] = "cleaning" /\ LockFree(at[c])
  /\ \E a \in at[c] :
       /\ ~StillDue(a)
       /\ elapsed' = [elapsed EXCEPT ![a] = @ /\ ~RemovalDue(a)]
       /\ observed' = IF RemovalDue(a) THEN Adopted({a}) ELSE observed
  /\ Finish(c)
  /\ UNCHANGED <<bytes, row, outcome, job, todo, absent, inflight>>

\* Variant with a fault: a deleted row still retains its bytes.
RetainReferenced(c) ==
  /\ pc[c] = "cleaning" /\ LockFree(at[c])
  /\ \A a \in at[c] : StillDue(a) /\ References(a) # {}
  /\ outcome' = Marked(outcome, at[c], "shared-retained")
  /\ observed' = Adopted(at[c])
  /\ Finish(c)
  /\ UNCHANGED <<bytes, row, elapsed, job, todo, absent, inflight>>

\* removal_recheck found a live reference: this attempt is over.
RetainShared(c) ==
  /\ pc[c] = "cleaning" /\ LockFree(at[c])
  /\ \A a \in at[c] : StillDue(a) /\ LiveReference(a)
  /\ outcome' = Marked(outcome, at[c], "shared-retained")
  /\ observed' = Adopted(at[c])
  /\ Finish(c)
  /\ UNCHANGED <<bytes, row, elapsed, job, todo, absent, inflight>>

BeginRemoval(c) ==
  /\ pc[c] = "cleaning" /\ LockFree(at[c])
  /\ \A a \in at[c] : StillDue(a) /\ ~LiveReference(a)
  /\ observed' = Adopted(at[c])
  /\ Claim(c, "removing")
  /\ UNCHANGED <<bytes, row, outcome, elapsed, job, todo, at, absent, inflight>>

DeleteRemoved(c) ==
  /\ pc[c] = "removing"
  /\ bytes' = bytes \ at[c]
  /\ Goto(c, "acking")
  /\ UNCHANGED <<tables, lock, todo, at, absent, inflight>>

\* ack_removal repeats removal_recheck, then COMMIT.
AckRemoval(c) ==
  /\ pc[c] = "acking"
  /\ \A a \in at[c] : RemovalDue(a) /\ ~LiveReference(a)
  /\ outcome' = Marked(outcome, at[c], "removed")
  /\ Finish(c)
  /\ UNCHANGED <<bytes, row, elapsed, observed, job, todo, absent, inflight>>
-----------------------------------------------------------------------------
(* sweepOrphanObjects: model observations, and what the store lists. *)

SelectOrphan(c, a) ==
  /\ IF a \in ModelAddresses THEN Enrolled(a) ELSE a \in bytes
  /\ Select(c, a, "sweeping")

\* Nothing but an observation claims the address, and that for long enough.
Unclaimed(a) ==
  /\ ~Tombstoned(a)
  /\ IF a \in ModelAddresses THEN ~LiveReference(a) ELSE References(a) = {}
OrphanDue(a) == Unclaimed(a) /\ observed[a] \in {"aged", "retirable"}

\* Variant with a fault: the first sight of an orphan is not recorded.
SkipOrphanUnseen(c) ==
  /\ pc[c] = "sweeping" /\ LockFree(at[c])
  /\ \A a \in at[c] : ~OrphanDue(a)
  /\ Finish(c)
  /\ UNCHANGED <<bytes, row, outcome, elapsed, observed, job, todo, absent, inflight>>

\* orphan_recheck returned false.  For raw and datasets it also starts an
\* observation, or drops the one of an address that is claimed after all.
SkipOrphan(c) ==
  /\ pc[c] = "sweeping" /\ LockFree(at[c])
  /\ \A a \in at[c] : ~OrphanDue(a)
  /\ observed' = [a \in Address |->
       IF a \notin at[c] \cap SourceAddresses THEN observed[a]
       ELSE IF Unclaimed(a) THEN "fresh" ELSE "none"]
  /\ Finish(c)
  /\ UNCHANGED <<bytes, row, outcome, elapsed, job, todo, absent, inflight>>

BeginOrphan(c) ==
  /\ pc[c] = "sweeping" /\ LockFree(at[c])
  /\ \A a \in at[c] : OrphanDue(a)
  /\ Claim(c, IF at[c] \subseteq ModelAddresses THEN "heading" ELSE "deleting")
  /\ UNCHANGED <<bytes, tables, todo, at, absent, inflight>>

\* A model object is looked at first: absent bytes retire its observation.
HeadOrphan(c) ==
  /\ pc[c] = "heading"
  /\ Goto(c, IF at[c] \subseteq bytes THEN "deleting" ELSE "retiring")
  /\ UNCHANGED <<bytes, tables, lock, todo, at, absent, inflight>>

\* retire_model_observation: only after the retirement window.
RetireObservation(c) ==
  /\ pc[c] = "retiring"
  /\ observed' = Marked(observed,
       {a \in at[c] : observed[a] = "retirable" /\ Unclaimed(a)}, "none")
  /\ Finish(c)
  /\ UNCHANGED <<bytes, row, outcome, elapsed, job, todo, absent, inflight>>

\* The DELETE of an orphan or of a refused report, and COMMIT.  An observation
\* stays: the next sweep retires a model's, and a later publication of the same
\* bytes drops it.
DeleteOrphan(c) ==
  /\ pc[c] = "deleting"
  /\ bytes' = bytes \ at[c]
  /\ Finish(c)
  /\ UNCHANGED <<tables, todo, absent, inflight>>

CleanerStep(c) ==
  \/ \E a \in Address : SelectPending(c, a) \/ SelectOrphan(c, a)
  \/ SkipRemoval(c) \/ RetainShared(c) \/ BeginRemoval(c)
  \/ DeleteRemoved(c) \/ AckRemoval(c)
  \/ SkipOrphan(c) \/ BeginOrphan(c)
  \/ HeadOrphan(c) \/ RetireObservation(c) \/ DeleteOrphan(c)
-----------------------------------------------------------------------------
(* completeQbReport: a report is staged outside any registry, and discarded *)
(* by whoever created it when the final authorization refuses.              *)

StageReport(r, a) ==
  /\ pc[r] = "idle" /\ a \notin bytes
  /\ bytes' = bytes \cup {a}
  /\ at' = [at EXCEPT ![r] = {a}]
  /\ Goto(r, "staged")
  /\ UNCHANGED <<tables, lock, todo, absent, inflight>>

\* Delivered; or refused, and somebody references or has queued the address.
LeaveReport(r) ==
  /\ pc[r] = "staged"
  /\ at' = [at EXCEPT ![r] = {}]
  /\ Goto(r, "idle")
  /\ UNCHANGED <<bytes, tables, lock, todo, absent, inflight>>

\* discardUnpublishedReport reads the registry after it has the lock.
BeginDiscard(r) ==
  /\ pc[r] = "staged" /\ LockFree(at[r])
  /\ \A a \in at[r] : References(a) = {} /\ ~Tombstoned(a)
  /\ Claim(r, "deleting")
  /\ UNCHANGED <<bytes, tables, todo, at, absent, inflight>>

ReporterStep(r) ==
  \/ \E a \in ReportAddresses : StageReport(r, a)
  \/ LeaveReport(r) \/ BeginDiscard(r) \/ DeleteOrphan(r)
-----------------------------------------------------------------------------
\* The session is lost, or the process dies: the lock is released and the page
\* forgotten, while the DELETE it awaited may still be on its way.
InterruptCleaner(c) ==
  /\ Faults /\ pc[c] # "idle"
  /\ lateDelete' = IF LateDeletes /\ pc[c] \in {"removing", "deleting"}
                   THEN lateDelete \cup at[c] ELSE lateDelete
  /\ Finish(c)
  /\ UNCHANGED <<bytes, tables, todo, absent, latePut>>

CleanupNext ==
  \/ GovernanceStep
  \/ \E c \in Cleaners : CleanerStep(c)
  \/ \E r \in Reporters : ReporterStep(r)
  \/ \E c \in Cleaners \cup Reporters : InterruptCleaner(c)
=============================================================================
