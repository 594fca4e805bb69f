------------------------- MODULE SourcePublication -------------------------
(***************************************************************************)
(* ingestSource (ingest.ts) and buildDataset (datasets.ts): write the      *)
(* bytes first, then reference them in one transaction that holds the      *)
(* address lock from before the HEAD until the COMMIT.  Both refuse an     *)
(* address with a tombstone and re-queue it, since their PUT may have just *)
(* brought deleted bytes back.  Ingestion runs under a job identity that   *)
(* is never executed twice; a build has no job.                            *)
(***************************************************************************)
EXTENDS GovernanceTables

\* Where a caller is when the call has returned or thrown.
Returned(p) == IF p \in Ingesters THEN "done" ELSE "idle"

\* Variant with a fault: startJob also hands out a job that is running.
StartJobTwice(p) ==
  /\ pc[p] = "idle" /\ job[JobOf[p]] \in {"none", "running"}
  /\ job' = [job EXCEPT ![JobOf[p]] = "running"]
  /\ Goto(p, "put")
  /\ UNCHANGED <<bytes, row, outcome, elapsed, observed, lock, todo, at, absent, inflight>>

\* startJob created the identity: this caller, and no other, executes it.
StartJob(p) ==
  /\ pc[p] = "idle" /\ job[JobOf[p]] = "none"
  /\ job' = [job EXCEPT ![JobOf[p]] = "running"]
  /\ Goto(p, "put")
  /\ UNCHANGED <<bytes, row, outcome, elapsed, observed, lock, todo, at, absent, inflight>>

\* startJob found the identity: already-processed or job-unavailable.
JobUnavailable(p) ==
  /\ pc[p] = "idle" /\ job[JobOf[p]] # "none"
  /\ Goto(p, "done")
  /\ UNCHANGED <<bytes, tables, lock, todo, at, absent, inflight>>

\* The join selected the snapshots and authorize found them live.
BeginBuild(p) ==
  /\ pc[p] = "idle" /\ row[Target[p]] = "absent"
  /\ InputsLive(Target[p])
  /\ Goto(p, "put")
  /\ UNCHANGED <<bytes, tables, lock, todo, at, absent, inflight>>

\* putIfAbsent: bytes that are there already are left as they are.
PutSource(p) ==
  /\ pc[p] = "put"
  /\ bytes' = bytes \cup Files[Target[p]]
  /\ Goto(p, "lock")
  /\ UNCHANGED <<tables, lock, todo, at, absent, inflight>>

\* putIfAbsent threw: the PUT may still land when the request only timed out.
PutSourceFails(p) ==
  /\ pc[p] = "put"
  /\ latePut' = IF LatePuts THEN latePut \cup Files[Target[p]] ELSE latePut
  /\ Goto(p, "undo")
  /\ UNCHANGED <<bytes, tables, lock, todo, at, absent, lateDelete>>

\* Variants with a fault: a build does not lock its snapshots again; tombstones
\* are not looked at.
LockSourceAlone(p) ==
  /\ pc[p] = "lock"
  /\ LockFree(Files[Target[p]])
  /\ \A a \in Files[Target[p]] : ~Tombstoned(a)
  /\ Acquire(p, Files[Target[p]])
  /\ Goto(p, "head")
  /\ UNCHANGED <<bytes, tables, todo, at, absent, inflight>>

LockSourceDeleted(p) ==
  /\ pc[p] = "lock"
  /\ LockFree(Files[Target[p]])
  /\ InputsLive(Target[p])
  /\ Acquire(p, Files[Target[p]])
  /\ Goto(p, "head")
  /\ UNCHANGED <<bytes, tables, todo, at, absent, inflight>>

\* BEGIN; lock_active_snapshots for a build; lock_object_for_publication,
\* which refuses a tombstone.  It also deletes the raw or dataset observation:
\* nobody can see that before the COMMIT, so CommitSource does it.
LockSource(p) ==
  /\ pc[p] = "lock"
  /\ LockFree(Files[Target[p]])
  /\ \A a \in Files[Target[p]] : ~Tombstoned(a)
  /\ InputsLive(Target[p])
  /\ Acquire(p, Files[Target[p]])
  /\ Goto(p, "head")
  /\ UNCHANGED <<bytes, tables, todo, at, absent, inflight>>

\* Variant with a fault: the PUT is trusted, without a HEAD under the lock.
HeadSourceSkipped(p) ==
  /\ pc[p] = "head"
  /\ Goto(p, "commit")
  /\ UNCHANGED <<bytes, tables, lock, todo, at, absent, inflight>>

\* The HEAD under the lock: the bytes are there, with this digest and size.
HeadSource(p) ==
  /\ pc[p] = "head" /\ Files[Target[p]] \subseteq bytes
  /\ Goto(p, "commit")
  /\ UNCHANGED <<bytes, tables, lock, todo, at, absent, inflight>>

\* The row (or the existing one, ON CONFLICT DO NOTHING), finishJob for an
\* ingest, and COMMIT.
CommitSource(p) ==
  /\ pc[p] = "commit"
  /\ SetRow(Target[p], "live")
  /\ observed' = Marked(observed, Files[Target[p]], "none")
  /\ job' = IF p \in Ingesters THEN [job EXCEPT ![JobOf[p]] = "succeeded"] ELSE job
  /\ Release(p)
  /\ Goto(p, Returned(p))
  /\ UNCHANGED <<bytes, outcome, elapsed, todo, at, absent, inflight>>

\* Any refusal, statement timeout or passed deadline inside the try block: a
\* tombstone, a deleted input, a missing object, a conflicting profile or a
\* duplicate normalized row.  ROLLBACK releases the lock.
AbortSource(p) ==
  /\ pc[p] \in {"lock", "head", "commit"}
  /\ Release(p)
  /\ Goto(p, "undo")
  /\ UNCHANGED <<bytes, tables, todo, at, absent, inflight>>

\* Variants with a fault: the catch block re-queues nothing; it fails a job that
\* a build does not have.
RequeueSourceForgotten(p) ==
  /\ pc[p] = "undo"
  /\ Goto(p, IF p \in Ingesters THEN "fail" ELSE "idle")
  /\ UNCHANGED <<bytes, tables, lock, todo, at, absent, inflight>>

RequeueSourceAndFail(p) ==
  /\ pc[p] = "undo"
  /\ LockFree(Files[Target[p]])
  /\ outcome' = Requeued(Files[Target[p]])
  /\ Goto(p, "fail")
  /\ UNCHANGED <<bytes, row, elapsed, observed, lock, job, todo, at, absent, inflight>>

\* The catch block: requeue_removed_object in a transaction of its own.
RequeueSource(p) ==
  /\ pc[p] = "undo"
  /\ LockFree(Files[Target[p]])
  /\ outcome' = Requeued(Files[Target[p]])
  /\ Goto(p, IF p \in Ingesters THEN "fail" ELSE "idle")
  /\ UNCHANGED <<bytes, row, elapsed, observed, lock, job, todo, at, absent, inflight>>

\* finishJob with errorCode, then the error is thrown on.
FailJob(p) ==
  /\ pc[p] = "fail"
  /\ job' = [job EXCEPT ![JobOf[p]] = "failed"]
  /\ Goto(p, "done")
  /\ UNCHANGED <<bytes, row, outcome, elapsed, observed, lock, todo, at, absent, inflight>>

\* A crash, or ...-connection-interrupted-replace: the session and its locks
\* are gone, nothing is re-queued and the job stays running.
InterruptSource(p) ==
  /\ Faults /\ pc[p] \notin {"idle", "done"}
  /\ latePut' = IF LatePuts /\ pc[p] = "put" THEN latePut \cup Files[Target[p]] ELSE latePut
  /\ Release(p)
  /\ Goto(p, Returned(p))
  /\ UNCHANGED <<bytes, tables, todo, at, absent, lateDelete>>

SourceStep(p) ==
  \/ PutSource(p) \/ PutSourceFails(p)
  \/ LockSource(p) \/ HeadSource(p) \/ CommitSource(p) \/ AbortSource(p)
  \/ RequeueSource(p)
  \/ InterruptSource(p)

IngestStep(p) == StartJob(p) \/ JobUnavailable(p) \/ FailJob(p)

SourceNext ==
  \/ \E p \in Ingesters : IngestStep(p)
  \/ \E p \in Builders : BeginBuild(p)
  \/ \E p \in SourcePublishers : SourceStep(p)
=============================================================================
