------------------------- MODULE FeatureStoreProofs -------------------------
(***************************************************************************)
(* What TLAPS proves of the feature store for any sets of rows, addresses  *)
(* and processes.  Six invariants, each proved one component at a time     *)
(* and one action at a time:                                               *)
(*   TypeOK                                                                *)
(*   LocksHeld     whoever is past its lock wait still holds its locks     *)
(*   BytesInv      bytes of live rows; needs that no DELETE outlives its   *)
(*                 session                                                 *)
(*   LineageInv    rows, tombstones and observations; needs no such thing  *)
(*   JobsSound     jobs and the calls that execute them                    *)
(*   OwnersInv     source bytes under a tombstone, while no call is lost   *)
(* From them follow the action properties and the refinement of            *)
(* PublishedObjects.                                                       *)
(***************************************************************************)
EXTENDS FeatureStore, TLAPS

Deleters == Cleaners \cup Reporters
Removing(c) == pc[c] \in {"removing", "acking"}
Sweeping(c) == pc[c] \in {"heading", "retiring", "deleting"}

\* Everybody between a lock wait and a COMMIT has the locks: the publisher of
\* every file of its row, the cleaner of its candidate.
LocksHeld ==
  /\ \A p \in Publishers : InTransaction(p) => \A a \in Files[Target[p]] : lock[a] = p
  /\ \A c \in Deleters : Removing(c) \/ Sweeping(c) => \A a \in at[c] : lock[a] = c

\* What a HEAD found under the lock is still there.
VerifiedPresent ==
  /\ \A p \in SourcePublishers : pc[p] = "commit" => Files[Target[p]] \subseteq bytes
  /\ \A p \in ModelPublishers : pc[p] = "verify" => Files[Target[p]] \ todo[p] \subseteq bytes

\* What a cleaner found under the lock is still so: no live row references its
\* candidate, and the lane that owns the candidate is the one it runs.
DeletersEntitled ==
  \A c \in Deleters : \A a \in at[c] :
    /\ Removing(c) => RemovalDue(a) /\ ~LiveReference(a)
    /\ Sweeping(c) => ~Tombstoned(a) /\ ~LiveReference(a)

BytesInv ==
  /\ VerifiedPresent /\ DeletersEntitled /\ lateDelete = {}
  /\ LiveHaveBytes

\* A source publisher past its lock wait works on live inputs and on content
\* that has never been deleted.
Pinned ==
  \A p \in SourcePublishers : InTransaction(p) =>
    InputsLive(Target[p]) /\ \A a \in Files[Target[p]] : ~Tombstoned(a)

\* Tombstones come from withdrawn rows, and every withdrawn row leaves its own.
TombstonesExplained ==
  \A a \in Address :
    Tombstoned(a) <=> \E x \in Items : row[x] = "withdrawn" /\ a \in Files[x]

LineageInv ==
  Pinned /\ TombstonesExplained /\ LiveLineage /\ NoObservationBesideArtifact

-----------------------------------------------------------------------------
(* Types. *)

\* Every variable keeps its type in a step of ingestion or a dataset build.
LEMMA SourceTyped == ASSUME TypeOK, SourceNext PROVE TypeOK'
<1> USE SchemaAssumption, ProcessAssumption, PreloadAssumption
<1> USE DEF TypeOK, Steps, IngestSteps, BuildSteps, RunSteps, CleanSteps, ReportSteps
<1> USE DEF RowStates, Outcomes, Ages, JobStates
<1> USE DEF Items, Address, ModelAddresses, SourcePublishers, Publishers, Process, Deleters
<1> USE DEF Goto, Acquire, Release, SetRow, Marked, Requeued, Returned, Returns, Enroll,
           Select, Claim, Finish, Adopted, Withdraw, tables, inflight
<1>1. ASSUME NEW p \in Ingesters, StartJob(p) PROVE TypeOK'
  BY <1>1 DEF StartJob
<1>2. ASSUME NEW p \in Ingesters, JobUnavailable(p) PROVE TypeOK'
  BY <1>2 DEF JobUnavailable
<1>3. ASSUME NEW p \in Ingesters, FailJob(p) PROVE TypeOK'
  BY <1>3 DEF FailJob
<1>4. ASSUME NEW p \in Builders, BeginBuild(p) PROVE TypeOK'
  BY <1>4 DEF BeginBuild
<1>5. ASSUME NEW p \in SourcePublishers, PutSource(p) PROVE TypeOK'
  BY <1>5 DEF PutSource
<1>6. ASSUME NEW p \in SourcePublishers, PutSourceFails(p) PROVE TypeOK'
  BY <1>6 DEF PutSourceFails
<1>7. ASSUME NEW p \in SourcePublishers, LockSource(p) PROVE TypeOK'
  BY <1>7 DEF LockSource
<1>8. ASSUME NEW p \in SourcePublishers, HeadSource(p) PROVE TypeOK'
  BY <1>8 DEF HeadSource
<1>9. ASSUME NEW p \in SourcePublishers, CommitSource(p) PROVE TypeOK'
  BY <1>9 DEF CommitSource
<1>10. ASSUME NEW p \in SourcePublishers, AbortSource(p) PROVE TypeOK'
  BY <1>10 DEF AbortSource
<1>11. ASSUME NEW p \in SourcePublishers, RequeueSource(p) PROVE TypeOK'
  BY <1>11 DEF RequeueSource
<1>12. ASSUME NEW p \in SourcePublishers, InterruptSource(p) PROVE TypeOK'
  BY <1>12 DEF InterruptSource
<1> QED
  BY SourceNext, <1>1, <1>2, <1>3, <1>4, <1>5, <1>6, <1>7, <1>8, <1>9, <1>10, <1>11, <1>12
  DEF SourceNext, IngestStep, SourceStep

\* Every variable keeps its type in a step of model publication.
LEMMA ModelTyped == ASSUME TypeOK, ModelNext PROVE TypeOK'
<1> USE SchemaAssumption, ProcessAssumption, PreloadAssumption
<1> USE DEF TypeOK, Steps, IngestSteps, BuildSteps, RunSteps, CleanSteps, ReportSteps
<1> USE DEF RowStates, Outcomes, Ages, JobStates
<1> USE DEF Items, Address, ModelAddresses, SourcePublishers, Publishers, Process, Deleters
<1> USE DEF Goto, Acquire, Release, SetRow, Marked, Requeued, Returned, Returns, Enroll,
           Select, Claim, Finish, Adopted, Withdraw, tables, inflight
<1>1. ASSUME NEW p \in ModelPublishers, BeginRun(p) PROVE TypeOK'
  BY <1>1 DEF BeginRun
<1>2. ASSUME NEW p \in ModelPublishers, NEW a \in todo[p], PreflightHead(p, a) PROVE TypeOK'
  BY <1>2 DEF PreflightHead
<1>3. ASSUME NEW p \in ModelPublishers, EnrollAbsent(p) PROVE TypeOK'
  BY <1>3 DEF EnrollAbsent
<1>4. ASSUME NEW p \in ModelPublishers, NEW a \in todo[p], UploadObject(p, a) PROVE TypeOK'
  BY SMTT(20), <1>4 DEF UploadObject
<1>5. ASSUME NEW p \in ModelPublishers, Reenroll(p) PROVE TypeOK'
  BY <1>5 DEF Reenroll
<1>6. ASSUME NEW p \in ModelPublishers, GuardRun(p) PROVE TypeOK'
  BY <1>6 DEF GuardRun
<1>7. ASSUME NEW p \in ModelPublishers, NEW a \in todo[p], VerifyHead(p, a) PROVE TypeOK'
  BY <1>7 DEF VerifyHead
<1>8. ASSUME NEW p \in ModelPublishers, PublishRun(p) PROVE TypeOK'
  BY <1>8 DEF PublishRun
<1>9. ASSUME NEW p \in ModelPublishers, AbortRun(p) PROVE TypeOK'
  BY <1>9 DEF AbortRun
<1>10. ASSUME NEW p \in ModelPublishers, NEW a \in todo[p], UploadOutlivesCaller(p, a) PROVE TypeOK'
  BY SMTT(20), <1>10 DEF UploadOutlivesCaller
<1> QED
  BY ModelNext, <1>1, <1>2, <1>3, <1>4, <1>5, <1>6, <1>7, <1>8, <1>9, <1>10
  DEF ModelNext, RunStep

\* Every variable keeps its type in a step of deletion, cleanup or a discard.
LEMMA CleanupTyped == ASSUME TypeOK, CleanupNext PROVE TypeOK'
<1> USE SchemaAssumption, ProcessAssumption, PreloadAssumption
<1> USE DEF TypeOK, Steps, IngestSteps, BuildSteps, RunSteps, CleanSteps, ReportSteps
<1> USE DEF RowStates, Outcomes, Ages, JobStates
<1> USE DEF Items, Address, ModelAddresses, SourcePublishers, Publishers, Process, Deleters
<1> USE DEF Goto, Acquire, Release, SetRow, Marked, Requeued, Returned, Returns, Enroll,
           Select, Claim, Finish, Adopted, Withdraw, tables, inflight
<1>1. ASSUME NEW ids \in DeletionRequests, DeleteSources(ids) PROVE TypeOK'
  BY <1>1 DEF DeleteSources
<1>2. ASSUME NEW ids \in DeletionRequests, DeleteDatasets(ids) PROVE TypeOK'
  BY <1>2 DEF DeleteDatasets
<1>3. ASSUME NEW a \in RequeueRequests, RequeueRemovedObject(a) PROVE TypeOK'
  BY <1>3 DEF RequeueRemovedObject
<1>4. ASSUME NEW c \in Cleaners, NEW a \in Address, SelectPending(c, a) PROVE TypeOK'
  BY <1>4 DEF SelectPending
<1>5. ASSUME NEW c \in Cleaners, NEW a \in Address, SelectOrphan(c, a) PROVE TypeOK'
  BY <1>5 DEF SelectOrphan
<1>6. ASSUME NEW c \in Cleaners, SkipRemoval(c) PROVE TypeOK'
  BY <1>6 DEF SkipRemoval
<1>7. ASSUME NEW c \in Cleaners, RetainShared(c) PROVE TypeOK'
  BY <1>7 DEF RetainShared
<1>8. ASSUME NEW c \in Cleaners, BeginRemoval(c) PROVE TypeOK'
  BY <1>8 DEF BeginRemoval
<1>9. ASSUME NEW c \in Cleaners, DeleteRemoved(c) PROVE TypeOK'
  BY <1>9 DEF DeleteRemoved
<1>10. ASSUME NEW c \in Cleaners, AckRemoval(c) PROVE TypeOK'
  BY <1>10 DEF AckRemoval
<1>11. ASSUME NEW c \in Cleaners, SkipOrphan(c) PROVE TypeOK'
  BY <1>11 DEF SkipOrphan
<1>12. ASSUME NEW c \in Cleaners, BeginOrphan(c) PROVE TypeOK'
  BY <1>12 DEF BeginOrphan
<1>13. ASSUME NEW c \in Cleaners, HeadOrphan(c) PROVE TypeOK'
  BY <1>13 DEF HeadOrphan
<1>14. ASSUME NEW c \in Cleaners, RetireObservation(c) PROVE TypeOK'
  BY <1>14 DEF RetireObservation
<1>15. ASSUME NEW c \in Cleaners \cup Reporters, DeleteOrphan(c) PROVE TypeOK'
  BY <1>15 DEF DeleteOrphan
<1>16. ASSUME NEW r \in Reporters, NEW a \in ReportAddresses, StageReport(r, a) PROVE TypeOK'
  BY <1>16 DEF StageReport
<1>17. ASSUME NEW r \in Reporters, LeaveReport(r) PROVE TypeOK'
  BY <1>17 DEF LeaveReport
<1>18. ASSUME NEW r \in Reporters, BeginDiscard(r) PROVE TypeOK'
  BY <1>18 DEF BeginDiscard
<1>19. ASSUME NEW c \in Cleaners \cup Reporters, InterruptCleaner(c) PROVE TypeOK'
  BY <1>19 DEF InterruptCleaner
<1> QED
  BY CleanupNext, <1>1, <1>2, <1>3, <1>4, <1>5, <1>6, <1>7, <1>8, <1>9, <1>10, <1>11,
     <1>12, <1>13, <1>14, <1>15, <1>16, <1>17, <1>18, <1>19
  DEF CleanupNext, GovernanceStep, CleanerStep, ReporterStep, Deleters

\* Every variable keeps its type in a step of time or the network.
LEMMA EnvironmentTyped == ASSUME TypeOK, Environment PROVE TypeOK'
<1> USE SchemaAssumption, ProcessAssumption, PreloadAssumption
<1> USE DEF TypeOK, Steps, IngestSteps, BuildSteps, RunSteps, CleanSteps, ReportSteps
<1> USE DEF RowStates, Outcomes, Ages, JobStates
<1> USE DEF Items, Address, ModelAddresses, SourcePublishers, Publishers, Process, Deleters
<1> USE DEF Goto, Acquire, Release, SetRow, Marked, Requeued, Returned, Returns, Enroll,
           Select, Claim, Finish, Adopted, Withdraw, tables, inflight
<1>1. ASSUME NEW a \in Address, GraceElapses(a) PROVE TypeOK'
  BY <1>1 DEF GraceElapses
<1>2. ASSUME NEW a \in Address, ObservationAges(a) PROVE TypeOK'
  BY <1>2 DEF ObservationAges
<1>3. ASSUME NEW a \in latePut, LatePutLands(a) PROVE TypeOK'
  BY <1>3 DEF LatePutLands
<1>4. ASSUME NEW a \in lateDelete, LateDeleteLands(a) PROVE TypeOK'
  BY <1>4 DEF LateDeleteLands
<1> QED
  BY Environment, <1>1, <1>2, <1>3, <1>4
  DEF Environment

\* Every step keeps the types.
LEMMA TypedStep == TypeOK /\ [Next]_vars => TypeOK'
<1> SUFFICES ASSUME TypeOK, [Next]_vars PROVE TypeOK'
  OBVIOUS
<1>1. CASE UNCHANGED vars
  BY <1>1 DEF vars, TypeOK
<1> QED
  BY <1>1, SourceTyped, ModelTyped, CleanupTyped, EnvironmentTyped DEF Next

\* Every variable keeps its type, whatever rows, addresses and callers there are.
THEOREM FeatureStoreTyped == Spec => []TypeOK
<1>1. Init => TypeOK
  BY SchemaAssumption, ProcessAssumption, PreloadAssumption
  DEF Init, TablesInit, ProcessInit, TypeOK, Items, Address, ModelAddresses, PreloadedFiles,
      Steps, IngestSteps, BuildSteps, RunSteps, CleanSteps, ReportSteps, Process, Publishers,
      SourcePublishers, RowStates, Outcomes, Ages, JobStates
<1> QED
  BY <1>1, TypedStep, PTL DEF Spec
-----------------------------------------------------------------------------
(* Locks. *)

\* Whoever has address locks keeps them in a step of ingestion or a dataset build.
LEMMA SourceLocks == ASSUME TypeOK, LocksHeld, SourceNext PROVE LocksHeld'
<1> USE SchemaAssumption, ProcessAssumption, PreloadAssumption
<1> USE DEF TypeOK, LocksHeld, InTransaction, Removing, Sweeping, LockFree
<1> USE DEF Items, Address, ModelAddresses, SourcePublishers, Publishers, Process, Deleters
<1> USE DEF Goto, Acquire, Release, SetRow, Marked, Requeued, Returned, Returns, Enroll,
           Select, Claim, Finish, Adopted, Withdraw, tables, inflight
<1>1. ASSUME NEW p \in Ingesters, StartJob(p) PROVE LocksHeld'
  BY <1>1 DEF StartJob
<1>2. ASSUME NEW p \in Ingesters, JobUnavailable(p) PROVE LocksHeld'
  BY <1>2 DEF JobUnavailable
<1>3. ASSUME NEW p \in Ingesters, FailJob(p) PROVE LocksHeld'
  BY <1>3 DEF FailJob
<1>4. ASSUME NEW p \in Builders, BeginBuild(p) PROVE LocksHeld'
  BY <1>4 DEF BeginBuild
<1>5. ASSUME NEW p \in SourcePublishers, PutSource(p) PROVE LocksHeld'
  BY <1>5 DEF PutSource
<1>6. ASSUME NEW p \in SourcePublishers, PutSourceFails(p) PROVE LocksHeld'
  BY <1>6 DEF PutSourceFails
<1>7. ASSUME NEW p \in SourcePublishers, LockSource(p) PROVE LocksHeld'
  BY <1>7 DEF LockSource
<1>8. ASSUME NEW p \in SourcePublishers, HeadSource(p) PROVE LocksHeld'
  BY <1>8 DEF HeadSource
<1>9. ASSUME NEW p \in SourcePublishers, CommitSource(p) PROVE LocksHeld'
  BY <1>9 DEF CommitSource
<1>10. ASSUME NEW p \in SourcePublishers, AbortSource(p) PROVE LocksHeld'
  BY <1>10 DEF AbortSource
<1>11. ASSUME NEW p \in SourcePublishers, RequeueSource(p) PROVE LocksHeld'
  BY <1>11 DEF RequeueSource
<1>12. ASSUME NEW p \in SourcePublishers, InterruptSource(p) PROVE LocksHeld'
  BY <1>12 DEF InterruptSource
<1> QED
  BY SourceNext, <1>1, <1>2, <1>3, <1>4, <1>5, <1>6, <1>7, <1>8, <1>9, <1>10, <1>11, <1>12
  DEF SourceNext, IngestStep, SourceStep

\* Whoever has address locks keeps them in a step of model publication.
LEMMA ModelLocks == ASSUME TypeOK, LocksHeld, ModelNext PROVE LocksHeld'
<1> USE SchemaAssumption, ProcessAssumption, PreloadAssumption
<1> USE DEF TypeOK, LocksHeld, InTransaction, Removing, Sweeping, LockFree
<1> USE DEF Items, Address, ModelAddresses, SourcePublishers, Publishers, Process, Deleters
<1> USE DEF Goto, Acquire, Release, SetRow, Marked, Requeued, Returned, Returns, Enroll,
           Select, Claim, Finish, Adopted, Withdraw, tables, inflight
<1>1. ASSUME NEW p \in ModelPublishers, BeginRun(p) PROVE LocksHeld'
  BY <1>1 DEF BeginRun
<1>2. ASSUME NEW p \in ModelPublishers, NEW a \in todo[p], PreflightHead(p, a) PROVE LocksHeld'
  BY <1>2 DEF PreflightHead
<1>3. ASSUME NEW p \in ModelPublishers, EnrollAbsent(p) PROVE LocksHeld'
  BY <1>3 DEF EnrollAbsent
<1>4. ASSUME NEW p \in ModelPublishers, NEW a \in todo[p], UploadObject(p, a) PROVE LocksHeld'
  BY SMTT(20), <1>4 DEF UploadObject
<1>5. ASSUME NEW p \in ModelPublishers, Reenroll(p) PROVE LocksHeld'
  BY <1>5 DEF Reenroll
<1>6. ASSUME NEW p \in ModelPublishers, GuardRun(p) PROVE LocksHeld'
  BY <1>6 DEF GuardRun
<1>7. ASSUME NEW p \in ModelPublishers, NEW a \in todo[p], VerifyHead(p, a) PROVE LocksHeld'
  BY <1>7 DEF VerifyHead
<1>8. ASSUME NEW p \in ModelPublishers, PublishRun(p) PROVE LocksHeld'
  BY <1>8 DEF PublishRun
<1>9. ASSUME NEW p \in ModelPublishers, AbortRun(p) PROVE LocksHeld'
  BY <1>9 DEF AbortRun
<1>10. ASSUME NEW p \in ModelPublishers, NEW a \in todo[p], UploadOutlivesCaller(p, a) PROVE LocksHeld'
  BY <1>10 DEF UploadOutlivesCaller
<1> QED
  BY ModelNext, <1>1, <1>2, <1>3, <1>4, <1>5, <1>6, <1>7, <1>8, <1>9, <1>10
  DEF ModelNext, RunStep

\* Whoever has address locks keeps them in a step of deletion, cleanup or a discard.
LEMMA CleanupLocks == ASSUME TypeOK, LocksHeld, CleanupNext PROVE LocksHeld'
<1> USE SchemaAssumption, ProcessAssumption, PreloadAssumption
<1> USE DEF TypeOK, LocksHeld, InTransaction, Removing, Sweeping, LockFree
<1> USE DEF Items, Address, ModelAddresses, SourcePublishers, Publishers, Process, Deleters
<1> USE DEF Goto, Acquire, Release, SetRow, Marked, Requeued, Returned, Returns, Enroll,
           Select, Claim, Finish, Adopted, Withdraw, tables, inflight
<1>1. ASSUME NEW ids \in DeletionRequests, DeleteSources(ids) PROVE LocksHeld'
  BY <1>1 DEF DeleteSources
<1>2. ASSUME NEW ids \in DeletionRequests, DeleteDatasets(ids) PROVE LocksHeld'
  BY <1>2 DEF DeleteDatasets
<1>3. ASSUME NEW a \in RequeueRequests, RequeueRemovedObject(a) PROVE LocksHeld'
  BY <1>3 DEF RequeueRemovedObject
<1>4. ASSUME NEW c \in Cleaners, NEW a \in Address, SelectPending(c, a) PROVE LocksHeld'
  BY <1>4 DEF SelectPending
<1>5. ASSUME NEW c \in Cleaners, NEW a \in Address, SelectOrphan(c, a) PROVE LocksHeld'
  BY <1>5 DEF SelectOrphan
<1>6. ASSUME NEW c \in Cleaners, SkipRemoval(c) PROVE LocksHeld'
  BY <1>6 DEF SkipRemoval
<1>7. ASSUME NEW c \in Cleaners, RetainShared(c) PROVE LocksHeld'
  BY <1>7 DEF RetainShared
<1>8. ASSUME NEW c \in Cleaners, BeginRemoval(c) PROVE LocksHeld'
  BY <1>8 DEF BeginRemoval
<1>9. ASSUME NEW c \in Cleaners, DeleteRemoved(c) PROVE LocksHeld'
  BY <1>9 DEF DeleteRemoved
<1>10. ASSUME NEW c \in Cleaners, AckRemoval(c) PROVE LocksHeld'
  BY <1>10 DEF AckRemoval
<1>11. ASSUME NEW c \in Cleaners, SkipOrphan(c) PROVE LocksHeld'
  BY <1>11 DEF SkipOrphan
<1>12. ASSUME NEW c \in Cleaners, BeginOrphan(c) PROVE LocksHeld'
  BY <1>12 DEF BeginOrphan
<1>13. ASSUME NEW c \in Cleaners, HeadOrphan(c) PROVE LocksHeld'
  BY <1>13 DEF HeadOrphan
<1>14. ASSUME NEW c \in Cleaners, RetireObservation(c) PROVE LocksHeld'
  BY <1>14 DEF RetireObservation
<1>15. ASSUME NEW c \in Cleaners \cup Reporters, DeleteOrphan(c) PROVE LocksHeld'
  BY <1>15 DEF DeleteOrphan
<1>16. ASSUME NEW r \in Reporters, NEW a \in ReportAddresses, StageReport(r, a) PROVE LocksHeld'
  BY <1>16 DEF StageReport
<1>17. ASSUME NEW r \in Reporters, LeaveReport(r) PROVE LocksHeld'
  BY <1>17 DEF LeaveReport
<1>18. ASSUME NEW r \in Reporters, BeginDiscard(r) PROVE LocksHeld'
  BY <1>18 DEF BeginDiscard
<1>19. ASSUME NEW c \in Cleaners \cup Reporters, InterruptCleaner(c) PROVE LocksHeld'
  BY <1>19 DEF InterruptCleaner
<1> QED
  BY CleanupNext, <1>1, <1>2, <1>3, <1>4, <1>5, <1>6, <1>7, <1>8, <1>9, <1>10, <1>11,
     <1>12, <1>13, <1>14, <1>15, <1>16, <1>17, <1>18, <1>19
  DEF CleanupNext, GovernanceStep, CleanerStep, ReporterStep, Deleters

\* Whoever has address locks keeps them in a step of time or the network.
LEMMA EnvironmentLocks == ASSUME TypeOK, LocksHeld, Environment PROVE LocksHeld'
<1> USE SchemaAssumption, ProcessAssumption, PreloadAssumption
<1> USE DEF TypeOK, LocksHeld, InTransaction, Removing, Sweeping, LockFree
<1> USE DEF Items, Address, ModelAddresses, SourcePublishers, Publishers, Process, Deleters
<1> USE DEF Goto, Acquire, Release, SetRow, Marked, Requeued, Returned, Returns, Enroll,
           Select, Claim, Finish, Adopted, Withdraw, tables, inflight
<1>1. ASSUME NEW a \in Address, GraceElapses(a) PROVE LocksHeld'
  BY <1>1 DEF GraceElapses
<1>2. ASSUME NEW a \in Address, ObservationAges(a) PROVE LocksHeld'
  BY <1>2 DEF ObservationAges
<1>3. ASSUME NEW a \in latePut, LatePutLands(a) PROVE LocksHeld'
  BY <1>3 DEF LatePutLands
<1>4. ASSUME NEW a \in lateDelete, LateDeleteLands(a) PROVE LocksHeld'
  BY <1>4 DEF LateDeleteLands
<1> QED
  BY Environment, <1>1, <1>2, <1>3, <1>4
  DEF Environment

\* Every step keeps the locks.
LEMMA LocksStep == TypeOK /\ LocksHeld /\ [Next]_vars => LocksHeld'
<1> SUFFICES ASSUME TypeOK, LocksHeld, [Next]_vars PROVE LocksHeld'
  OBVIOUS
<1>1. CASE UNCHANGED vars
  BY <1>1 DEF vars, LocksHeld, InTransaction, Removing, Sweeping
<1> QED
  BY <1>1, SourceLocks, ModelLocks, CleanupLocks, EnvironmentLocks DEF Next

\* Two-phase locking: no COMMIT, ROLLBACK or lost session of somebody else takes
\* an address lock away between a HEAD or a recheck and the caller's COMMIT
\* (pg_advisory_xact_lock in ingest.ts:53, datasets.ts:150 and governance.ts:46).
THEOREM LocksHeldThroughout == Spec => []LocksHeld
<1>1. Init => LocksHeld
  BY DEF Init, TablesInit, ProcessInit, LocksHeld, InTransaction, Removing, Sweeping,
         Process, Deleters, Publishers
<1> QED
  BY <1>1, FeatureStoreTyped, LocksStep, PTL DEF Spec
-----------------------------------------------------------------------------
(* Deletion. *)

\* A deletion withdraws a set of existing rows together with everything that
\* depends on it: invalidate_dataset_dependents goes down two levels, and the
\* schema has no third.
LEMMA DeletionWithdraws ==
  ASSUME NEW ids, DeleteSources(ids) \/ DeleteDatasets(ids)
  PROVE  \E X \in SUBSET Items :
           /\ Withdraw(X)
           /\ \A x \in X : row[x] # "absent"
           /\ Dependents(X) \subseteq X
<1> USE SchemaAssumption DEF Items, Dependents
<1>1. CASE DeleteSources(ids)
  <2> DEFINE datasets == Dependents(ids)
             X == ids \cup datasets \cup Dependents(datasets)
  <2>1. ids \subseteq Snapshots /\ Withdraw(X) /\ \A x \in ids : row[x] # "absent"
    BY <1>1 DEF DeleteSources
  <2>2. datasets \subseteq Datasets /\ Dependents(datasets) \subseteq Runs
    BY <2>1
  <2>3. Dependents(Dependents(datasets)) = {}
    BY <2>2
  <2>4. Dependents(X) \subseteq X
    BY <2>3
  <2> QED
    BY <2>1, <2>2, <2>4
<1>2. CASE DeleteDatasets(ids)
  <2> DEFINE X == ids \cup Dependents(ids)
  <2>1. ids \subseteq Datasets /\ Withdraw(X) /\ \A x \in ids : row[x] # "absent"
    BY <1>2 DEF DeleteDatasets
  <2>2. Dependents(ids) \subseteq Runs /\ Dependents(Dependents(ids)) = {}
    BY <2>1
  <2> QED
    BY <2>1, <2>2
<1> QED
  BY <1>1, <1>2

\* The rows it withdraws are locked by nobody's transaction, and so are their
\* addresses; bytes and locks stay as they are.
LEMMA WithdrawKeepsBytes ==
  ASSUME TypeOK, LocksHeld, BytesInv,
         NEW X \in SUBSET Items, Withdraw(X)
  PROVE  BytesInv'
<1> USE SchemaAssumption, ProcessAssumption
<1> DEFINE addresses == UNION {Files[x] : x \in X}
<1>1. addresses \subseteq Address /\ LockFree(addresses)
  BY DEF Withdraw
<1>2. UNCHANGED <<bytes, lock, pc, todo, at, lateDelete>>
  BY DEF Withdraw, inflight
<1>3. \A x \in Items : Live(x)' => Live(x)
  BY DEF Withdraw, Live
<1>4. VerifiedPresent'
  BY <1>2 DEF BytesInv, VerifiedPresent
<1>5. DeletersEntitled'
  <2> SUFFICES ASSUME NEW c \in Deleters, NEW a \in at[c]
               PROVE  /\ Removing(c) => RemovalDue(a)' /\ ~LiveReference(a)'
                      /\ Sweeping(c) => ~Tombstoned(a)' /\ ~LiveReference(a)'
    BY <1>2 DEF DeletersEntitled, Removing, Sweeping
  <2>1. ~LiveReference(a) => ~LiveReference(a)'
    BY <1>3 DEF LiveReference
  <2>2. a \in Address /\ c \in Process
    BY DEF TypeOK, Deleters, Process
  <2>3. Removing(c) \/ Sweeping(c) => a \notin addresses
    BY <1>1, <2>2 DEF LocksHeld, LockFree
  <2>4. a \notin addresses => outcome'[a] = outcome[a] /\ elapsed'[a] = elapsed[a]
    BY <2>2 DEF Withdraw, Marked
  <2> QED
    BY <2>1, <2>3, <2>4 DEF BytesInv, DeletersEntitled, RemovalDue, Tombstoned
<1>6. LiveHaveBytes'
  BY <1>2, <1>3 DEF BytesInv, LiveHaveBytes
<1> QED
  BY <1>2, <1>4, <1>5, <1>6 DEF BytesInv

\* The rows it withdraws are pinned by no transaction, and whatever depends on
\* them is withdrawn with them; their addresses get their tombstones, and lose
\* their observations, in the same transaction.
LEMMA WithdrawKeepsLineage ==
  ASSUME TypeOK, LocksHeld, LineageInv,
         NEW X \in SUBSET Items, Withdraw(X),
         \A x \in X : row[x] # "absent", Dependents(X) \subseteq X
  PROVE  LineageInv'
<1> USE SchemaAssumption, ProcessAssumption
<1> DEFINE addresses == UNION {Files[x] : x \in X}
<1>1. addresses \subseteq Address /\ LockFree(addresses) /\ RowsUnpinned(X)
  BY DEF Withdraw
<1>2. UNCHANGED <<lock, pc>>
  BY DEF Withdraw
<1>3. /\ \A x \in Items : row'[x] = IF x \in X THEN "withdrawn" ELSE row[x]
      /\ \A a \in Address : outcome'[a] = IF a \in addresses THEN "pending" ELSE outcome[a]
      /\ \A a \in Address : observed'[a] =
           IF a \in addresses \cap ModelAddresses THEN "none" ELSE observed[a]
  BY DEF Withdraw, Marked, Adopted
<1>4. Pinned'
  <2> SUFFICES ASSUME NEW p \in SourcePublishers, InTransaction(p)
               PROVE  InputsLive(Target[p])' /\ \A a \in Files[Target[p]] : ~Tombstoned(a)'
    BY <1>2 DEF Pinned, InTransaction
  <2>1. p \in Publishers /\ p \in Process /\ Target[p] \in Items
    BY DEF SourcePublishers, Publishers, Process
  <2>2. PinnedRows(p) \cap X = {}
    BY <1>1, <2>1 DEF RowsUnpinned
  <2>3. InputsLive(Target[p]) /\ \A a \in Files[Target[p]] : ~Tombstoned(a)
    BY DEF LineageInv, Pinned
  <2>4. InputsLive(Target[p])'
    <3> SUFFICES ASSUME NEW d \in Inputs[Target[p]]
                 PROVE  Live(d)' /\ \A s \in Inputs[d] : Live(s)'
      BY DEF InputsLive
    <3>1. d \in Items /\ Inputs[d] \subseteq Items
      BY <2>1
    <3>2. d \notin X /\ Inputs[d] \cap X = {}
      BY <2>2 DEF PinnedRows
    <3> QED
      BY <1>3, <2>3, <3>1, <3>2 DEF InputsLive, Live
  <2>5. Files[Target[p]] \cap addresses = {}
    BY <1>1, <2>1 DEF LocksHeld, LockFree
  <2> QED
    BY <1>3, <2>1, <2>3, <2>4, <2>5 DEF Tombstoned
<1>5. TombstonesExplained'
  <2> SUFFICES ASSUME NEW a \in Address
               PROVE  Tombstoned(a)' <=> \E x \in Items : row'[x] = "withdrawn" /\ a \in Files[x]
    BY DEF TombstonesExplained
  <2>1. CASE a \in addresses
    BY <1>3, <2>1 DEF Tombstoned
  <2>2. CASE a \notin addresses
    <3>1. Tombstoned(a)' <=> Tombstoned(a)
      BY <1>3, <2>2 DEF Tombstoned
    <3>2. \A x \in Items : a \in Files[x] => row'[x] = row[x]
      BY <1>3, <2>2
    <3> QED
      BY <3>1, <3>2 DEF LineageInv, TombstonesExplained
  <2> QED
    BY <2>1, <2>2
<1>6. LiveLineage'
  <2> SUFFICES ASSUME NEW x \in Items, Live(x)', NEW d \in Inputs[x]
               PROVE  Live(d)'
    BY DEF LiveLineage
  <2>1. x \notin X /\ Live(x) /\ d \in Items
    BY <1>3 DEF Live
  <2>2. Live(d)
    BY <2>1 DEF LineageInv, LiveLineage
  <2>3. d \notin X
    BY <2>1 DEF Dependents, Live
  <2> QED
    BY <1>3, <2>1, <2>2, <2>3 DEF Live
<1>7. NoObservationBesideArtifact'
  <2> SUFFICES ASSUME NEW a \in ModelAddresses, Enrolled(a)'
               PROVE  References(a)' = {}
    BY DEF NoObservationBesideArtifact
  <2>1. a \in Address /\ a \notin addresses /\ Enrolled(a)
    BY <1>3 DEF Enrolled, Address
  <2>2. References(a) = {}
    BY <2>1 DEF LineageInv, NoObservationBesideArtifact
  <2> QED
    BY <1>3, <2>1, <2>2 DEF References
<1> QED
  BY <1>4, <1>5, <1>6, <1>7 DEF LineageInv

-----------------------------------------------------------------------------
(* Bytes. *)

\* No live row loses bytes in a step of ingestion or a dataset build.
LEMMA SourceKeepsBytes == ASSUME ~LateDeletes, TypeOK, LocksHeld, BytesInv, SourceNext PROVE BytesInv'
<1> USE SchemaAssumption, ProcessAssumption, PreloadAssumption
<1> USE DEF TypeOK, LocksHeld, BytesInv, VerifiedPresent, DeletersEntitled, LiveHaveBytes
<1> USE DEF InTransaction, Removing, Sweeping, Live, Tombstoned, References, LiveReference
<1> USE DEF RemovalDue, LockFree, StillDue, Unclaimed, OrphanDue, GuardAllows, EnrollmentAllowed
<1> USE DEF Items, Address, ModelAddresses, SourcePublishers, Publishers, Process, Deleters
<1> USE DEF Goto, Acquire, Release, SetRow, Marked, Requeued, Returned, Returns, Enroll,
           Select, Claim, Finish, Adopted, Withdraw, tables, inflight
<1>1. ASSUME NEW p \in Ingesters, StartJob(p) PROVE BytesInv'
  BY <1>1 DEF StartJob
<1>2. ASSUME NEW p \in Ingesters, JobUnavailable(p) PROVE BytesInv'
  BY <1>2 DEF JobUnavailable
<1>3. ASSUME NEW p \in Ingesters, FailJob(p) PROVE BytesInv'
  BY <1>3 DEF FailJob
<1>4. ASSUME NEW p \in Builders, BeginBuild(p) PROVE BytesInv'
  BY <1>4 DEF BeginBuild
<1>5. ASSUME NEW p \in SourcePublishers, PutSource(p) PROVE BytesInv'
  BY <1>5 DEF PutSource
<1>6. ASSUME NEW p \in SourcePublishers, PutSourceFails(p) PROVE BytesInv'
  BY <1>6 DEF PutSourceFails
<1>7. ASSUME NEW p \in SourcePublishers, LockSource(p) PROVE BytesInv'
  BY <1>7 DEF LockSource
<1>8. ASSUME NEW p \in SourcePublishers, HeadSource(p) PROVE BytesInv'
  BY <1>8 DEF HeadSource
<1>9. ASSUME NEW p \in SourcePublishers, CommitSource(p) PROVE BytesInv'
  BY <1>9 DEF CommitSource
<1>10. ASSUME NEW p \in SourcePublishers, AbortSource(p) PROVE BytesInv'
  BY <1>10 DEF AbortSource
<1>11. ASSUME NEW p \in SourcePublishers, RequeueSource(p) PROVE BytesInv'
  BY <1>11 DEF RequeueSource
<1>12. ASSUME NEW p \in SourcePublishers, InterruptSource(p) PROVE BytesInv'
  BY <1>12 DEF InterruptSource
<1> QED
  BY SourceNext, <1>1, <1>2, <1>3, <1>4, <1>5, <1>6, <1>7, <1>8, <1>9, <1>10, <1>11, <1>12
  DEF SourceNext, IngestStep, SourceStep

\* No live row loses bytes in a step of model publication.
LEMMA ModelKeepsBytes == ASSUME ~LateDeletes, TypeOK, LocksHeld, BytesInv, ModelNext PROVE BytesInv'
<1> USE SchemaAssumption, ProcessAssumption, PreloadAssumption
<1> USE DEF TypeOK, LocksHeld, BytesInv, VerifiedPresent, DeletersEntitled, LiveHaveBytes
<1> USE DEF InTransaction, Removing, Sweeping, Live, Tombstoned, References, LiveReference
<1> USE DEF RemovalDue, LockFree, StillDue, Unclaimed, OrphanDue, GuardAllows, EnrollmentAllowed
<1> USE DEF Items, Address, ModelAddresses, SourcePublishers, Publishers, Process, Deleters
<1> USE DEF Goto, Acquire, Release, SetRow, Marked, Requeued, Returned, Returns, Enroll,
           Select, Claim, Finish, Adopted, Withdraw, tables, inflight
<1>1. ASSUME NEW p \in ModelPublishers, BeginRun(p) PROVE BytesInv'
  BY <1>1 DEF BeginRun
<1>2. ASSUME NEW p \in ModelPublishers, NEW a \in todo[p], PreflightHead(p, a) PROVE BytesInv'
  BY <1>2 DEF PreflightHead
<1>3. ASSUME NEW p \in ModelPublishers, EnrollAbsent(p) PROVE BytesInv'
  BY <1>3 DEF EnrollAbsent
<1>4. ASSUME NEW p \in ModelPublishers, NEW a \in todo[p], UploadObject(p, a) PROVE BytesInv'
  BY SMTT(20), <1>4 DEF UploadObject
<1>5. ASSUME NEW p \in ModelPublishers, Reenroll(p) PROVE BytesInv'
  BY <1>5 DEF Reenroll
<1>6. ASSUME NEW p \in ModelPublishers, GuardRun(p) PROVE BytesInv'
  BY <1>6 DEF GuardRun
<1>7. ASSUME NEW p \in ModelPublishers, NEW a \in todo[p], VerifyHead(p, a) PROVE BytesInv'
  BY <1>7 DEF VerifyHead
<1>8. ASSUME NEW p \in ModelPublishers, PublishRun(p) PROVE BytesInv'
  BY <1>8 DEF PublishRun
<1>9. ASSUME NEW p \in ModelPublishers, AbortRun(p) PROVE BytesInv'
  BY <1>9 DEF AbortRun
<1>10. ASSUME NEW p \in ModelPublishers, NEW a \in todo[p], UploadOutlivesCaller(p, a) PROVE BytesInv'
  BY SMTT(20), <1>10 DEF UploadOutlivesCaller
<1> QED
  BY ModelNext, <1>1, <1>2, <1>3, <1>4, <1>5, <1>6, <1>7, <1>8, <1>9, <1>10
  DEF ModelNext, RunStep

\* No live row loses bytes in a step of deletion, cleanup or a discard.
LEMMA CleanupKeepsBytes == ASSUME ~LateDeletes, TypeOK, LocksHeld, BytesInv, CleanupNext PROVE BytesInv'
<1> USE SchemaAssumption, ProcessAssumption, PreloadAssumption
<1> USE DEF TypeOK, LocksHeld, BytesInv, VerifiedPresent, DeletersEntitled, LiveHaveBytes
<1> USE DEF InTransaction, Removing, Sweeping, Live, Tombstoned, References, LiveReference
<1> USE DEF RemovalDue, LockFree, StillDue, Unclaimed, OrphanDue, GuardAllows, EnrollmentAllowed
<1> USE DEF Items, Address, ModelAddresses, SourcePublishers, Publishers, Process, Deleters
<1> USE DEF Goto, Acquire, Release, SetRow, Marked, Requeued, Returned, Returns, Enroll,
           Select, Claim, Finish, Adopted, Withdraw, tables, inflight
<1>1. ASSUME NEW ids \in DeletionRequests, DeleteSources(ids) PROVE BytesInv'
  BY <1>1, DeletionWithdraws, WithdrawKeepsBytes
<1>2. ASSUME NEW ids \in DeletionRequests, DeleteDatasets(ids) PROVE BytesInv'
  BY <1>2, DeletionWithdraws, WithdrawKeepsBytes
<1>3. ASSUME NEW a \in RequeueRequests, RequeueRemovedObject(a) PROVE BytesInv'
  BY <1>3 DEF RequeueRemovedObject
<1>4. ASSUME NEW c \in Cleaners, NEW a \in Address, SelectPending(c, a) PROVE BytesInv'
  BY <1>4 DEF SelectPending
<1>5. ASSUME NEW c \in Cleaners, NEW a \in Address, SelectOrphan(c, a) PROVE BytesInv'
  BY <1>5 DEF SelectOrphan
<1>6. ASSUME NEW c \in Cleaners, SkipRemoval(c) PROVE BytesInv'
  BY <1>6 DEF SkipRemoval
<1>7. ASSUME NEW c \in Cleaners, RetainShared(c) PROVE BytesInv'
  BY <1>7 DEF RetainShared
<1>8. ASSUME NEW c \in Cleaners, BeginRemoval(c) PROVE BytesInv'
  BY <1>8 DEF BeginRemoval
<1>9. ASSUME NEW c \in Cleaners, DeleteRemoved(c) PROVE BytesInv'
  BY <1>9 DEF DeleteRemoved
<1>10. ASSUME NEW c \in Cleaners, AckRemoval(c) PROVE BytesInv'
  BY <1>10 DEF AckRemoval
<1>11. ASSUME NEW c \in Cleaners, SkipOrphan(c) PROVE BytesInv'
  BY <1>11 DEF SkipOrphan
<1>12. ASSUME NEW c \in Cleaners, BeginOrphan(c) PROVE BytesInv'
  BY <1>12 DEF BeginOrphan
<1>13. ASSUME NEW c \in Cleaners, HeadOrphan(c) PROVE BytesInv'
  BY <1>13 DEF HeadOrphan
<1>14. ASSUME NEW c \in Cleaners, RetireObservation(c) PROVE BytesInv'
  BY <1>14 DEF RetireObservation
<1>15. ASSUME NEW c \in Cleaners \cup Reporters, DeleteOrphan(c) PROVE BytesInv'
  BY <1>15 DEF DeleteOrphan
<1>16. ASSUME NEW r \in Reporters, NEW a \in ReportAddresses, StageReport(r, a) PROVE BytesInv'
  BY <1>16 DEF StageReport
<1>17. ASSUME NEW r \in Reporters, LeaveReport(r) PROVE BytesInv'
  BY <1>17 DEF LeaveReport
<1>18. ASSUME NEW r \in Reporters, BeginDiscard(r) PROVE BytesInv'
  BY <1>18 DEF BeginDiscard
<1>19. ASSUME NEW c \in Cleaners \cup Reporters, InterruptCleaner(c) PROVE BytesInv'
  BY <1>19 DEF InterruptCleaner
<1> QED
  BY CleanupNext, <1>1, <1>2, <1>3, <1>4, <1>5, <1>6, <1>7, <1>8, <1>9, <1>10, <1>11,
     <1>12, <1>13, <1>14, <1>15, <1>16, <1>17, <1>18, <1>19
  DEF CleanupNext, GovernanceStep, CleanerStep, ReporterStep, Deleters

\* No live row loses bytes in a step of time or the network.
LEMMA EnvironmentKeepsBytes == ASSUME ~LateDeletes, TypeOK, LocksHeld, BytesInv, Environment PROVE BytesInv'
<1> USE SchemaAssumption, ProcessAssumption, PreloadAssumption
<1> USE DEF TypeOK, LocksHeld, BytesInv, VerifiedPresent, DeletersEntitled, LiveHaveBytes
<1> USE DEF InTransaction, Removing, Sweeping, Live, Tombstoned, References, LiveReference
<1> USE DEF RemovalDue, LockFree, StillDue, Unclaimed, OrphanDue, GuardAllows, EnrollmentAllowed
<1> USE DEF Items, Address, ModelAddresses, SourcePublishers, Publishers, Process, Deleters
<1> USE DEF Goto, Acquire, Release, SetRow, Marked, Requeued, Returned, Returns, Enroll,
           Select, Claim, Finish, Adopted, Withdraw, tables, inflight
<1>1. ASSUME NEW a \in Address, GraceElapses(a) PROVE BytesInv'
  BY <1>1 DEF GraceElapses
<1>2. ASSUME NEW a \in Address, ObservationAges(a) PROVE BytesInv'
  BY <1>2 DEF ObservationAges
<1>3. ASSUME NEW a \in latePut, LatePutLands(a) PROVE BytesInv'
  BY <1>3 DEF LatePutLands
<1>4. ASSUME NEW a \in lateDelete, LateDeleteLands(a) PROVE BytesInv'
  BY <1>4 DEF LateDeleteLands
<1> QED
  BY Environment, <1>1, <1>2, <1>3, <1>4
  DEF Environment

\* Every step keeps the bytes invariant.
LEMMA BytesStep ==
  ~LateDeletes /\ TypeOK /\ LocksHeld /\ BytesInv /\ [Next]_vars => BytesInv'
<1> SUFFICES ASSUME ~LateDeletes, TypeOK, LocksHeld, BytesInv, [Next]_vars PROVE BytesInv'
  OBVIOUS
<1>1. CASE UNCHANGED vars
  BY <1>1 DEF vars, BytesInv, VerifiedPresent, DeletersEntitled, LiveHaveBytes, Removing,
              Sweeping, RemovalDue, Tombstoned, LiveReference, Live
<1> QED
  BY <1>1, SourceKeepsBytes, ModelKeepsBytes, CleanupKeepsBytes, EnvironmentKeepsBytes DEF Next

\* The strengthening of LiveHaveBytes that is inductive: what a HEAD or a recheck
\* found under the address lock stays true until the COMMIT (ingest.ts:97).
THEOREM BytesInvariant == ASSUME ~LateDeletes PROVE Spec => []BytesInv
<1>1. Init => BytesInv
  BY SchemaAssumption, PreloadAssumption
  DEF Init, TablesInit, ProcessInit, BytesInv, VerifiedPresent, DeletersEntitled,
      LiveHaveBytes, Live, PreloadedFiles, Removing, Sweeping, Process, Deleters,
      Publishers, SourcePublishers
<1> QED
  BY <1>1, FeatureStoreTyped, LocksHeldThroughout, BytesStep, PTL DEF Spec

\* No live snapshot, dataset or run ever lacks its bytes, as long as no DELETE
\* outlives the session whose lock it relied on.
THEOREM LiveRowsHaveBytes == ASSUME ~LateDeletes PROVE Spec => []LiveHaveBytes
<1>1. BytesInv => LiveHaveBytes
  BY DEF BytesInv
<1> QED
  BY <1>1, BytesInvariant, PTL
-----------------------------------------------------------------------------
(* Lineage. *)

\* Rows, tombstones and observations stay consistent in a step of ingestion or a dataset build.
LEMMA SourceKeepsLineage == ASSUME TypeOK, LocksHeld, LineageInv, SourceNext PROVE LineageInv'
<1> USE SchemaAssumption, ProcessAssumption, PreloadAssumption
<1> USE DEF TypeOK, LocksHeld, LineageInv, Pinned, TombstonesExplained, LiveLineage
<1> USE DEF NoObservationBesideArtifact, InTransaction, InputsLive, Removing, Sweeping
<1> USE DEF Live, Tombstoned, Enrolled, References, LiveReference, RemovalDue, LockFree
<1> USE DEF StillDue, Unclaimed, OrphanDue, GuardAllows, EnrollmentAllowed
<1> USE DEF Items, Address, ModelAddresses, SourcePublishers, Publishers, Process, Deleters
<1> USE DEF Goto, Acquire, Release, SetRow, Marked, Requeued, Returned, Returns, Enroll,
           Select, Claim, Finish, Adopted, Withdraw, tables, inflight
<1>1. ASSUME NEW p \in Ingesters, StartJob(p) PROVE LineageInv'
  BY <1>1 DEF StartJob
<1>2. ASSUME NEW p \in Ingesters, JobUnavailable(p) PROVE LineageInv'
  BY <1>2 DEF JobUnavailable
<1>3. ASSUME NEW p \in Ingesters, FailJob(p) PROVE LineageInv'
  BY <1>3 DEF FailJob
<1>4. ASSUME NEW p \in Builders, BeginBuild(p) PROVE LineageInv'
  BY <1>4 DEF BeginBuild
<1>5. ASSUME NEW p \in SourcePublishers, PutSource(p) PROVE LineageInv'
  BY <1>5 DEF PutSource
<1>6. ASSUME NEW p \in SourcePublishers, PutSourceFails(p) PROVE LineageInv'
  BY <1>6 DEF PutSourceFails
<1>7. ASSUME NEW p \in SourcePublishers, LockSource(p) PROVE LineageInv'
  BY <1>7 DEF LockSource
<1>8. ASSUME NEW p \in SourcePublishers, HeadSource(p) PROVE LineageInv'
  BY <1>8 DEF HeadSource
<1>9. ASSUME NEW p \in SourcePublishers, CommitSource(p) PROVE LineageInv'
  BY <1>9 DEF CommitSource
<1>10. ASSUME NEW p \in SourcePublishers, AbortSource(p) PROVE LineageInv'
  BY <1>10 DEF AbortSource
<1>11. ASSUME NEW p \in SourcePublishers, RequeueSource(p) PROVE LineageInv'
  BY <1>11 DEF RequeueSource
<1>12. ASSUME NEW p \in SourcePublishers, InterruptSource(p) PROVE LineageInv'
  BY <1>12 DEF InterruptSource
<1> QED
  BY SourceNext, <1>1, <1>2, <1>3, <1>4, <1>5, <1>6, <1>7, <1>8, <1>9, <1>10, <1>11, <1>12
  DEF SourceNext, IngestStep, SourceStep

\* Rows, tombstones and observations stay consistent in a step of model publication.
LEMMA ModelKeepsLineage == ASSUME TypeOK, LocksHeld, LineageInv, ModelNext PROVE LineageInv'
<1> USE SchemaAssumption, ProcessAssumption, PreloadAssumption
<1> USE DEF TypeOK, LocksHeld, LineageInv, Pinned, TombstonesExplained, LiveLineage
<1> USE DEF NoObservationBesideArtifact, InTransaction, InputsLive, Removing, Sweeping
<1> USE DEF Live, Tombstoned, Enrolled, References, LiveReference, RemovalDue, LockFree
<1> USE DEF StillDue, Unclaimed, OrphanDue, GuardAllows, EnrollmentAllowed
<1> USE DEF Items, Address, ModelAddresses, SourcePublishers, Publishers, Process, Deleters
<1> USE DEF Goto, Acquire, Release, SetRow, Marked, Requeued, Returned, Returns, Enroll,
           Select, Claim, Finish, Adopted, Withdraw, tables, inflight
<1>1. ASSUME NEW p \in ModelPublishers, BeginRun(p) PROVE LineageInv'
  BY <1>1 DEF BeginRun
<1>2. ASSUME NEW p \in ModelPublishers, NEW a \in todo[p], PreflightHead(p, a) PROVE LineageInv'
  BY <1>2 DEF PreflightHead
<1>3. ASSUME NEW p \in ModelPublishers, EnrollAbsent(p) PROVE LineageInv'
  BY <1>3 DEF EnrollAbsent
<1>4. ASSUME NEW p \in ModelPublishers, NEW a \in todo[p], UploadObject(p, a) PROVE LineageInv'
  BY <1>4 DEF UploadObject
<1>5. ASSUME NEW p \in ModelPublishers, Reenroll(p) PROVE LineageInv'
  BY <1>5 DEF Reenroll
<1>6. ASSUME NEW p \in ModelPublishers, GuardRun(p) PROVE LineageInv'
  BY <1>6 DEF GuardRun
<1>7. ASSUME NEW p \in ModelPublishers, NEW a \in todo[p], VerifyHead(p, a) PROVE LineageInv'
  BY <1>7 DEF VerifyHead
<1>8. ASSUME NEW p \in ModelPublishers, PublishRun(p) PROVE LineageInv'
  BY <1>8 DEF PublishRun
<1>9. ASSUME NEW p \in ModelPublishers, AbortRun(p) PROVE LineageInv'
  BY <1>9 DEF AbortRun
<1>10. ASSUME NEW p \in ModelPublishers, NEW a \in todo[p], UploadOutlivesCaller(p, a) PROVE LineageInv'
  BY SMTT(20), <1>10 DEF UploadOutlivesCaller
<1> QED
  BY ModelNext, <1>1, <1>2, <1>3, <1>4, <1>5, <1>6, <1>7, <1>8, <1>9, <1>10
  DEF ModelNext, RunStep

\* Rows, tombstones and observations stay consistent in a step of deletion, cleanup or a discard.
LEMMA CleanupKeepsLineage == ASSUME TypeOK, LocksHeld, LineageInv, CleanupNext PROVE LineageInv'
<1> USE SchemaAssumption, ProcessAssumption, PreloadAssumption
<1> USE DEF TypeOK, LocksHeld, LineageInv, Pinned, TombstonesExplained, LiveLineage
<1> USE DEF NoObservationBesideArtifact, InTransaction, InputsLive, Removing, Sweeping
<1> USE DEF Live, Tombstoned, Enrolled, References, LiveReference, RemovalDue, LockFree
<1> USE DEF StillDue, Unclaimed, OrphanDue, GuardAllows, EnrollmentAllowed
<1> USE DEF Items, Address, ModelAddresses, SourcePublishers, Publishers, Process, Deleters
<1> USE DEF Goto, Acquire, Release, SetRow, Marked, Requeued, Returned, Returns, Enroll,
           Select, Claim, Finish, Adopted, Withdraw, tables, inflight
<1>1. ASSUME NEW ids \in DeletionRequests, DeleteSources(ids) PROVE LineageInv'
  BY <1>1, DeletionWithdraws, WithdrawKeepsLineage
<1>2. ASSUME NEW ids \in DeletionRequests, DeleteDatasets(ids) PROVE LineageInv'
  BY <1>2, DeletionWithdraws, WithdrawKeepsLineage
<1>3. ASSUME NEW a \in RequeueRequests, RequeueRemovedObject(a) PROVE LineageInv'
  BY <1>3 DEF RequeueRemovedObject
<1>4. ASSUME NEW c \in Cleaners, NEW a \in Address, SelectPending(c, a) PROVE LineageInv'
  BY <1>4 DEF SelectPending
<1>5. ASSUME NEW c \in Cleaners, NEW a \in Address, SelectOrphan(c, a) PROVE LineageInv'
  BY <1>5 DEF SelectOrphan
<1>6. ASSUME NEW c \in Cleaners, SkipRemoval(c) PROVE LineageInv'
  BY <1>6 DEF SkipRemoval
<1>7. ASSUME NEW c \in Cleaners, RetainShared(c) PROVE LineageInv'
  BY <1>7 DEF RetainShared
<1>8. ASSUME NEW c \in Cleaners, BeginRemoval(c) PROVE LineageInv'
  BY <1>8 DEF BeginRemoval
<1>9. ASSUME NEW c \in Cleaners, DeleteRemoved(c) PROVE LineageInv'
  BY <1>9 DEF DeleteRemoved
<1>10. ASSUME NEW c \in Cleaners, AckRemoval(c) PROVE LineageInv'
  BY <1>10 DEF AckRemoval
<1>11. ASSUME NEW c \in Cleaners, SkipOrphan(c) PROVE LineageInv'
  BY <1>11 DEF SkipOrphan
<1>12. ASSUME NEW c \in Cleaners, BeginOrphan(c) PROVE LineageInv'
  BY <1>12 DEF BeginOrphan
<1>13. ASSUME NEW c \in Cleaners, HeadOrphan(c) PROVE LineageInv'
  BY <1>13 DEF HeadOrphan
<1>14. ASSUME NEW c \in Cleaners, RetireObservation(c) PROVE LineageInv'
  BY <1>14 DEF RetireObservation
<1>15. ASSUME NEW c \in Cleaners \cup Reporters, DeleteOrphan(c) PROVE LineageInv'
  BY <1>15 DEF DeleteOrphan
<1>16. ASSUME NEW r \in Reporters, NEW a \in ReportAddresses, StageReport(r, a) PROVE LineageInv'
  BY <1>16 DEF StageReport
<1>17. ASSUME NEW r \in Reporters, LeaveReport(r) PROVE LineageInv'
  BY <1>17 DEF LeaveReport
<1>18. ASSUME NEW r \in Reporters, BeginDiscard(r) PROVE LineageInv'
  BY <1>18 DEF BeginDiscard
<1>19. ASSUME NEW c \in Cleaners \cup Reporters, InterruptCleaner(c) PROVE LineageInv'
  BY <1>19 DEF InterruptCleaner
<1> QED
  BY CleanupNext, <1>1, <1>2, <1>3, <1>4, <1>5, <1>6, <1>7, <1>8, <1>9, <1>10, <1>11,
     <1>12, <1>13, <1>14, <1>15, <1>16, <1>17, <1>18, <1>19
  DEF CleanupNext, GovernanceStep, CleanerStep, ReporterStep, Deleters

\* Rows, tombstones and observations stay consistent in a step of time or the network.
LEMMA EnvironmentKeepsLineage == ASSUME TypeOK, LocksHeld, LineageInv, Environment PROVE LineageInv'
<1> USE SchemaAssumption, ProcessAssumption, PreloadAssumption
<1> USE DEF TypeOK, LocksHeld, LineageInv, Pinned, TombstonesExplained, LiveLineage
<1> USE DEF NoObservationBesideArtifact, InTransaction, InputsLive, Removing, Sweeping
<1> USE DEF Live, Tombstoned, Enrolled, References, LiveReference, RemovalDue, LockFree
<1> USE DEF StillDue, Unclaimed, OrphanDue, GuardAllows, EnrollmentAllowed
<1> USE DEF Items, Address, ModelAddresses, SourcePublishers, Publishers, Process, Deleters
<1> USE DEF Goto, Acquire, Release, SetRow, Marked, Requeued, Returned, Returns, Enroll,
           Select, Claim, Finish, Adopted, Withdraw, tables, inflight
<1>1. ASSUME NEW a \in Address, GraceElapses(a) PROVE LineageInv'
  BY <1>1 DEF GraceElapses
<1>2. ASSUME NEW a \in Address, ObservationAges(a) PROVE LineageInv'
  BY <1>2 DEF ObservationAges
<1>3. ASSUME NEW a \in latePut, LatePutLands(a) PROVE LineageInv'
  BY <1>3 DEF LatePutLands
<1>4. ASSUME NEW a \in lateDelete, LateDeleteLands(a) PROVE LineageInv'
  BY <1>4 DEF LateDeleteLands
<1> QED
  BY Environment, <1>1, <1>2, <1>3, <1>4
  DEF Environment

\* Every step keeps the lineage invariant.
LEMMA LineageStep == TypeOK /\ LocksHeld /\ LineageInv /\ [Next]_vars => LineageInv'
<1> SUFFICES ASSUME TypeOK, LocksHeld, LineageInv, [Next]_vars PROVE LineageInv'
  OBVIOUS
<1>1. CASE UNCHANGED vars
  BY <1>1 DEF vars, LineageInv, Pinned, TombstonesExplained, LiveLineage, InTransaction,
              NoObservationBesideArtifact, InputsLive, Live, Tombstoned, Enrolled, References
<1> QED
  BY <1>1, SourceKeepsLineage, ModelKeepsLineage, CleanupKeepsLineage, EnvironmentKeepsLineage
  DEF Next

\* The strengthening of LiveLineage and NoObservationBesideArtifact that is
\* inductive: a build in its transaction has its snapshots pinned (138
\* lock_active_snapshots), and tombstones and withdrawn rows come together.
THEOREM LineageInvariant == Spec => []LineageInv
<1>1. Init => LineageInv
  BY SchemaAssumption, PreloadAssumption
  DEF Init, TablesInit, ProcessInit, LineageInv, Pinned, TombstonesExplained, LiveLineage,
      NoObservationBesideArtifact, InTransaction, Live, Tombstoned, Enrolled, Process, Publishers,
      Address
<1> QED
  BY <1>1, FeatureStoreTyped, LocksHeldThroughout, LineageStep, PTL DEF Spec

\* Whatever a live row was derived from is live.
THEOREM LiveRowsHaveLiveInputs == Spec => []LiveLineage
<1>1. LineageInv => LiveLineage
  BY DEF LineageInv
<1> QED
  BY <1>1, LineageInvariant, PTL

\* A withdrawn row leaves a tombstone on each of its addresses.
THEOREM WithdrawnRowsLeaveTombstones == Spec => []WithdrawnLeaveTombstones
<1>1. LineageInv => WithdrawnLeaveTombstones
  BY SchemaAssumption DEF LineageInv, TombstonesExplained, WithdrawnLeaveTombstones
<1> QED
  BY <1>1, LineageInvariant, PTL

\* No observation stands beside a model row of any status, so that the removal
\* queue never has one to adopt.
THEOREM NothingToAdopt == Spec => []NoObservationBesideArtifact
<1>1. LineageInv => NoObservationBesideArtifact
  BY DEF LineageInv
<1> QED
  BY <1>1, LineageInvariant, PTL

\* A model address is never owned by the sweep and by the removal queue at once:
\* a tombstone comes from a withdrawn row, and a row ends the observation.
THEOREM OneOwner == Spec => []SingleOwner
<1>1. LineageInv => SingleOwner
  BY DEF LineageInv, TombstonesExplained, NoObservationBesideArtifact, SingleOwner,
         References, Address
<1> QED
  BY <1>1, LineageInvariant, PTL

-----------------------------------------------------------------------------
(* The calls that publish source bytes, while no call is lost: a job has   *)
(* one executor, which no fault is needed for, and nothing that a call     *)
(* puts back under a tombstone escapes the queue.                          *)

\* A job runs exactly while one ingester executes it.
JobsSound ==
  /\ \A p \in Ingesters : Executing(p) => job[JobOf[p]] = "running"
  /\ \A p, q \in Ingesters : Executing(p) /\ Executing(q) /\ JobOf[p] = JobOf[q] => p = q
  /\ ~Faults => \A j \in Jobs : job[j] = "running" =>
       \E p \in Ingesters : JobOf[p] = j /\ Executing(p)

\* Who is about to re-queue address a: it put the bytes, and has not been let in.
Owned(a) == \E p \in SourcePublishers : a \in Files[Target[p]] /\ pc[p] \in {"lock", "undo"}

\* Bytes under a tombstone that nobody queued, and bytes that came back between a
\* cleaner's DELETE and its acknowledgement, are owned by the call that put them.
OwnersInv ==
  /\ \A a \in SourceAddresses \cap bytes :
       Tombstoned(a) /\ ~LiveReference(a) /\ outcome[a] # "pending" => Owned(a)
  /\ \A c \in Cleaners : pc[c] = "acking" =>
       \A a \in at[c] \cap SourceAddresses \cap bytes : Owned(a)
  /\ \A p \in ModelPublishers : todo[p] \subseteq ModelAddresses
  /\ latePut = {}
-----------------------------------------------------------------------------
(* Jobs. *)

\* A job is started by one ingester, and ended by the one that executes it.
LEMMA SourceJobs == ASSUME TypeOK, JobsSound, SourceNext PROVE JobsSound'
<1> USE ProcessAssumption, PreloadAssumption
<1> USE DEF TypeOK, JobsSound, Executing, Returned, Goto, tables, IngestSteps, BuildSteps, SourcePublishers,
           Publishers, Process
<1>1. ASSUME NEW p \in Ingesters, StartJob(p) PROVE JobsSound'
  BY <1>1 DEF StartJob
<1>2. ASSUME NEW p \in Ingesters, JobUnavailable(p) PROVE JobsSound'
  BY <1>2 DEF JobUnavailable
<1>3. ASSUME NEW p \in Ingesters, FailJob(p) PROVE JobsSound'
  BY <1>3 DEF FailJob
<1>4. ASSUME NEW p \in Builders, BeginBuild(p) PROVE JobsSound'
  BY <1>4 DEF BeginBuild
<1>5. ASSUME NEW p \in SourcePublishers, PutSource(p) PROVE JobsSound'
  BY <1>5 DEF PutSource
<1>6. ASSUME NEW p \in SourcePublishers, PutSourceFails(p) PROVE JobsSound'
  BY <1>6 DEF PutSourceFails
<1>7. ASSUME NEW p \in SourcePublishers, LockSource(p) PROVE JobsSound'
  BY <1>7 DEF LockSource
<1>8. ASSUME NEW p \in SourcePublishers, HeadSource(p) PROVE JobsSound'
  BY <1>8 DEF HeadSource
<1>9. ASSUME NEW p \in SourcePublishers, CommitSource(p) PROVE JobsSound'
  BY <1>9 DEF CommitSource
<1>10. ASSUME NEW p \in SourcePublishers, AbortSource(p) PROVE JobsSound'
  BY <1>10 DEF AbortSource
<1>11. ASSUME NEW p \in SourcePublishers, RequeueSource(p) PROVE JobsSound'
  BY <1>11 DEF RequeueSource
<1>12. ASSUME NEW p \in SourcePublishers, InterruptSource(p) PROVE JobsSound'
  BY <1>12 DEF InterruptSource
<1> QED
  BY <1>1, <1>2, <1>3, <1>4, <1>5, <1>6, <1>7, <1>8, <1>9, <1>10, <1>11, <1>12
  DEF SourceNext, IngestStep, SourceStep

\* Model publication leaves ingesters and jobs alone.
LEMMA ModelLeavesJobs == ASSUME TypeOK, ModelNext PROVE UNCHANGED job /\ \A i \in Ingesters : pc'[i] = pc[i]
<1> USE ProcessAssumption, PreloadAssumption
<1> USE DEF TypeOK, Goto, Select, Claim, Finish, Returns, Withdraw, tables, SourcePublishers, Publishers,
           Process
<1>1. ASSUME NEW p \in ModelPublishers, BeginRun(p) PROVE UNCHANGED job /\ \A i \in Ingesters : pc'[i] = pc[i]
  BY <1>1 DEF BeginRun
<1>2. ASSUME NEW p \in ModelPublishers, NEW a \in todo[p], PreflightHead(p, a) PROVE UNCHANGED job /\ \A i \in Ingesters : pc'[i] = pc[i]
  BY <1>2 DEF PreflightHead
<1>3. ASSUME NEW p \in ModelPublishers, EnrollAbsent(p) PROVE UNCHANGED job /\ \A i \in Ingesters : pc'[i] = pc[i]
  BY <1>3 DEF EnrollAbsent
<1>4. ASSUME NEW p \in ModelPublishers, NEW a \in todo[p], UploadObject(p, a) PROVE UNCHANGED job /\ \A i \in Ingesters : pc'[i] = pc[i]
  BY <1>4 DEF UploadObject
<1>5. ASSUME NEW p \in ModelPublishers, Reenroll(p) PROVE UNCHANGED job /\ \A i \in Ingesters : pc'[i] = pc[i]
  BY <1>5 DEF Reenroll
<1>6. ASSUME NEW p \in ModelPublishers, GuardRun(p) PROVE UNCHANGED job /\ \A i \in Ingesters : pc'[i] = pc[i]
  BY <1>6 DEF GuardRun
<1>7. ASSUME NEW p \in ModelPublishers, NEW a \in todo[p], VerifyHead(p, a) PROVE UNCHANGED job /\ \A i \in Ingesters : pc'[i] = pc[i]
  BY <1>7 DEF VerifyHead
<1>8. ASSUME NEW p \in ModelPublishers, PublishRun(p) PROVE UNCHANGED job /\ \A i \in Ingesters : pc'[i] = pc[i]
  BY <1>8 DEF PublishRun
<1>9. ASSUME NEW p \in ModelPublishers, AbortRun(p) PROVE UNCHANGED job /\ \A i \in Ingesters : pc'[i] = pc[i]
  BY <1>9 DEF AbortRun
<1>10. ASSUME NEW p \in ModelPublishers, NEW a \in todo[p], UploadOutlivesCaller(p, a) PROVE UNCHANGED job /\ \A i \in Ingesters : pc'[i] = pc[i]
  BY <1>10 DEF UploadOutlivesCaller
<1> QED
  BY <1>1, <1>2, <1>3, <1>4, <1>5, <1>6, <1>7, <1>8, <1>9, <1>10
  DEF ModelNext, RunStep

\* So do deletion, cleanup and the discard of reports,
LEMMA CleanupLeavesJobs == ASSUME TypeOK, CleanupNext PROVE UNCHANGED job /\ \A i \in Ingesters : pc'[i] = pc[i]
<1> USE ProcessAssumption, PreloadAssumption
<1> USE DEF TypeOK, Goto, Select, Claim, Finish, Returns, Withdraw, tables, SourcePublishers, Publishers,
           Process
<1>1. ASSUME NEW ids \in DeletionRequests, DeleteSources(ids) PROVE UNCHANGED job /\ \A i \in Ingesters : pc'[i] = pc[i]
  BY <1>1 DEF DeleteSources
<1>2. ASSUME NEW ids \in DeletionRequests, DeleteDatasets(ids) PROVE UNCHANGED job /\ \A i \in Ingesters : pc'[i] = pc[i]
  BY <1>2 DEF DeleteDatasets
<1>3. ASSUME NEW a \in RequeueRequests, RequeueRemovedObject(a) PROVE UNCHANGED job /\ \A i \in Ingesters : pc'[i] = pc[i]
  BY <1>3 DEF RequeueRemovedObject
<1>4. ASSUME NEW c \in Cleaners, NEW a \in Address, SelectPending(c, a) PROVE UNCHANGED job /\ \A i \in Ingesters : pc'[i] = pc[i]
  BY <1>4 DEF SelectPending
<1>5. ASSUME NEW c \in Cleaners, NEW a \in Address, SelectOrphan(c, a) PROVE UNCHANGED job /\ \A i \in Ingesters : pc'[i] = pc[i]
  BY <1>5 DEF SelectOrphan
<1>6. ASSUME NEW c \in Cleaners, SkipRemoval(c) PROVE UNCHANGED job /\ \A i \in Ingesters : pc'[i] = pc[i]
  BY <1>6 DEF SkipRemoval
<1>7. ASSUME NEW c \in Cleaners, RetainShared(c) PROVE UNCHANGED job /\ \A i \in Ingesters : pc'[i] = pc[i]
  BY <1>7 DEF RetainShared
<1>8. ASSUME NEW c \in Cleaners, BeginRemoval(c) PROVE UNCHANGED job /\ \A i \in Ingesters : pc'[i] = pc[i]
  BY <1>8 DEF BeginRemoval
<1>9. ASSUME NEW c \in Cleaners, DeleteRemoved(c) PROVE UNCHANGED job /\ \A i \in Ingesters : pc'[i] = pc[i]
  BY <1>9 DEF DeleteRemoved
<1>10. ASSUME NEW c \in Cleaners, AckRemoval(c) PROVE UNCHANGED job /\ \A i \in Ingesters : pc'[i] = pc[i]
  BY <1>10 DEF AckRemoval
<1>11. ASSUME NEW c \in Cleaners, SkipOrphan(c) PROVE UNCHANGED job /\ \A i \in Ingesters : pc'[i] = pc[i]
  BY <1>11 DEF SkipOrphan
<1>12. ASSUME NEW c \in Cleaners, BeginOrphan(c) PROVE UNCHANGED job /\ \A i \in Ingesters : pc'[i] = pc[i]
  BY <1>12 DEF BeginOrphan
<1>13. ASSUME NEW c \in Cleaners, HeadOrphan(c) PROVE UNCHANGED job /\ \A i \in Ingesters : pc'[i] = pc[i]
  BY <1>13 DEF HeadOrphan
<1>14. ASSUME NEW c \in Cleaners, RetireObservation(c) PROVE UNCHANGED job /\ \A i \in Ingesters : pc'[i] = pc[i]
  BY <1>14 DEF RetireObservation
<1>15. ASSUME NEW c \in Cleaners \cup Reporters, DeleteOrphan(c) PROVE UNCHANGED job /\ \A i \in Ingesters : pc'[i] = pc[i]
  BY <1>15 DEF DeleteOrphan
<1>16. ASSUME NEW r \in Reporters, NEW a \in ReportAddresses, StageReport(r, a) PROVE UNCHANGED job /\ \A i \in Ingesters : pc'[i] = pc[i]
  BY <1>16 DEF StageReport
<1>17. ASSUME NEW r \in Reporters, LeaveReport(r) PROVE UNCHANGED job /\ \A i \in Ingesters : pc'[i] = pc[i]
  BY <1>17 DEF LeaveReport
<1>18. ASSUME NEW r \in Reporters, BeginDiscard(r) PROVE UNCHANGED job /\ \A i \in Ingesters : pc'[i] = pc[i]
  BY <1>18 DEF BeginDiscard
<1>19. ASSUME NEW c \in Cleaners \cup Reporters, InterruptCleaner(c) PROVE UNCHANGED job /\ \A i \in Ingesters : pc'[i] = pc[i]
  BY <1>19 DEF InterruptCleaner
<1> QED
  BY <1>1, <1>2, <1>3, <1>4, <1>5, <1>6, <1>7, <1>8, <1>9, <1>10, <1>11, <1>12, <1>13,
     <1>14, <1>15, <1>16, <1>17, <1>18, <1>19
  DEF CleanupNext, GovernanceStep, CleanerStep, ReporterStep

\* and time and the network.
LEMMA EnvironmentLeavesJobs == ASSUME TypeOK, Environment PROVE UNCHANGED job /\ \A i \in Ingesters : pc'[i] = pc[i]
<1> USE ProcessAssumption, PreloadAssumption
<1> USE DEF TypeOK, Goto, Select, Claim, Finish, Returns, Withdraw, tables, SourcePublishers, Publishers,
           Process
<1>1. ASSUME NEW a \in Address, GraceElapses(a) PROVE UNCHANGED job /\ \A i \in Ingesters : pc'[i] = pc[i]
  BY <1>1 DEF GraceElapses
<1>2. ASSUME NEW a \in Address, ObservationAges(a) PROVE UNCHANGED job /\ \A i \in Ingesters : pc'[i] = pc[i]
  BY <1>2 DEF ObservationAges
<1>3. ASSUME NEW a \in latePut, LatePutLands(a) PROVE UNCHANGED job /\ \A i \in Ingesters : pc'[i] = pc[i]
  BY <1>3 DEF LatePutLands
<1>4. ASSUME NEW a \in lateDelete, LateDeleteLands(a) PROVE UNCHANGED job /\ \A i \in Ingesters : pc'[i] = pc[i]
  BY <1>4 DEF LateDeleteLands
<1> QED
  BY <1>1, <1>2, <1>3, <1>4
  DEF Environment

\* Every step keeps jobs and executors together.
LEMMA JobsStep == TypeOK /\ JobsSound /\ [Next]_vars => JobsSound'
<1> SUFFICES ASSUME TypeOK, JobsSound, [Next]_vars PROVE JobsSound'
  OBVIOUS
<1>1. ASSUME UNCHANGED job, \A i \in Ingesters : pc'[i] = pc[i] PROVE JobsSound'
  BY <1>1 DEF JobsSound, Executing
<1>2. CASE UNCHANGED vars
  BY <1>1, <1>2 DEF vars
<1> QED
  BY <1>1, <1>2, SourceJobs, ModelLeavesJobs, CleanupLeavesJobs, EnvironmentLeavesJobs DEF Next

\* A job runs under one caller at most, and without lost sessions exactly while that
\* caller executes it (jobs.ts:10), for any ingesters and identities.
THEOREM OneExecutor == Spec => []JobHasOneExecutor
<1>1. Init => JobsSound
  BY ProcessAssumption
  DEF Init, TablesInit, ProcessInit, JobsSound, Executing, Process, Publishers, SourcePublishers
<1>2. JobsSound => JobHasOneExecutor
  BY ProcessAssumption DEF JobsSound, JobHasOneExecutor
<1> QED
  BY <1>1, <1>2, FeatureStoreTyped, JobsStep, PTL DEF Spec
-----------------------------------------------------------------------------
(* Owners of source bytes. *)

\* A withdrawal queues every address that loses its last live row.
LEMMA WithdrawKeepsOwners ==
  ASSUME TypeOK, OwnersInv, NEW X \in SUBSET Items, Withdraw(X)
  PROVE  OwnersInv'
  BY SchemaAssumption
  DEF TypeOK, OwnersInv, Owned, Tombstoned, Withdraw, Marked, LiveReference, Live, inflight

\* A publisher that leaves its lock wait was let in, or has re-queued what it put.
LEMMA SourceKeepsOwners == ASSUME ~Faults, ~LatePuts, TypeOK, LocksHeld, LineageInv, OwnersInv, SourceNext PROVE OwnersInv'
<1> USE SchemaAssumption, ProcessAssumption, PreloadAssumption
<1> USE DEF TypeOK, OwnersInv, Owned, Tombstoned, LocksHeld, LockFree, Removing, Deleters
<1> USE DEF Items, Address, ModelAddresses, SourcePublishers, Publishers, Process
<1> USE DEF Goto, Acquire, Release, Marked, Requeued, Returned, Returns, Select, Claim, Finish,
           tables, inflight
<1>1. ASSUME NEW p \in Ingesters, StartJob(p) PROVE OwnersInv'
  BY SMTT(20), <1>1 DEF StartJob, LiveReference, Live
<1>2. ASSUME NEW p \in Ingesters, JobUnavailable(p) PROVE OwnersInv'
  BY <1>2 DEF JobUnavailable, LiveReference, Live
<1>3. ASSUME NEW p \in Ingesters, FailJob(p) PROVE OwnersInv'
  BY <1>3 DEF FailJob, LiveReference, Live
<1>4. ASSUME NEW p \in Builders, BeginBuild(p) PROVE OwnersInv'
  BY <1>4 DEF BeginBuild, LiveReference, Live
<1>5. ASSUME NEW p \in SourcePublishers, PutSource(p) PROVE OwnersInv'
  BY SMTT(20), <1>5 DEF PutSource, LiveReference, Live
<1>6. ASSUME NEW p \in SourcePublishers, PutSourceFails(p) PROVE OwnersInv'
  BY <1>6 DEF PutSourceFails, LiveReference, Live
<1>7. ASSUME NEW p \in SourcePublishers, LockSource(p) PROVE OwnersInv'
  BY SMTT(20), <1>7 DEF LockSource, LiveReference, Live
<1>8. ASSUME NEW p \in SourcePublishers, HeadSource(p) PROVE OwnersInv'
  BY SMTT(20), <1>8 DEF HeadSource, LiveReference, Live
<1>9. ASSUME NEW p \in SourcePublishers, CommitSource(p) PROVE OwnersInv'
  BY SMTT(20), <1>9 DEF CommitSource, SetRow, LiveReference, Live
<1>10. ASSUME NEW p \in SourcePublishers, AbortSource(p) PROVE OwnersInv'
  BY SMTT(20), <1>10 DEF AbortSource, LiveReference, Live
<1>11. ASSUME NEW p \in SourcePublishers, RequeueSource(p) PROVE OwnersInv'
  BY SMTT(20), <1>11 DEF RequeueSource, LiveReference, Live
<1>12. ASSUME NEW p \in SourcePublishers, InterruptSource(p) PROVE OwnersInv'
  BY <1>12 DEF InterruptSource, LiveReference, Live
<1> QED
  BY <1>1, <1>2, <1>3, <1>4, <1>5, <1>6, <1>7, <1>8, <1>9, <1>10, <1>11, <1>12
  DEF SourceNext, IngestStep, SourceStep

\* Model publication puts no source bytes.
LEMMA ModelKeepsOwners == ASSUME ~Faults, ~LatePuts, TypeOK, LocksHeld, LineageInv, OwnersInv, ModelNext PROVE OwnersInv'
<1> USE SchemaAssumption, ProcessAssumption, PreloadAssumption
<1> USE DEF TypeOK, OwnersInv, Owned, Tombstoned, LocksHeld, LockFree, Removing, Deleters
<1> USE DEF Items, Address, ModelAddresses, SourcePublishers, Publishers, Process
<1> USE DEF Goto, Acquire, Release, Marked, Requeued, Returned, Returns, Select, Claim, Finish,
           tables, inflight
<1>1. ASSUME NEW p \in ModelPublishers, BeginRun(p) PROVE OwnersInv'
  BY <1>1 DEF BeginRun, LiveReference, Live
<1>2. ASSUME NEW p \in ModelPublishers, NEW a \in todo[p], PreflightHead(p, a) PROVE OwnersInv'
  BY <1>2 DEF PreflightHead, LiveReference, Live
<1>3. ASSUME NEW p \in ModelPublishers, EnrollAbsent(p) PROVE OwnersInv'
  BY ZenonT(40), <1>3 DEF EnrollAbsent, LiveReference, Live
<1>4. ASSUME NEW p \in ModelPublishers, NEW a \in todo[p], UploadObject(p, a) PROVE OwnersInv'
  BY SMTT(20), <1>4 DEF UploadObject, LiveReference, Live
<1>5. ASSUME NEW p \in ModelPublishers, Reenroll(p) PROVE OwnersInv'
  BY SMTT(20), <1>5 DEF Reenroll, LiveReference, Live
<1>6. ASSUME NEW p \in ModelPublishers, GuardRun(p) PROVE OwnersInv'
  BY SMTT(20), <1>6 DEF GuardRun, LiveReference, Live
<1>7. ASSUME NEW p \in ModelPublishers, NEW a \in todo[p], VerifyHead(p, a) PROVE OwnersInv'
  BY <1>7 DEF VerifyHead, LiveReference, Live
<1>8. ASSUME NEW p \in ModelPublishers, PublishRun(p) PROVE OwnersInv'
  <2>1. /\ UNCHANGED <<bytes, outcome, latePut>>
        /\ pc' = [pc EXCEPT ![p] = "idle"] /\ at' = [at EXCEPT ![p] = {}]
        /\ todo' = [todo EXCEPT ![p] = {}]
        /\ \A x \in Items : row[x] = "live" => row'[x] = "live"
    BY <1>8 DEF PublishRun, SetRow
  <2>2. \A a : Owned(a) => Owned(a)'
    BY <2>1
  <2>3. \A a : LiveReference(a) => LiveReference(a)'
    BY <2>1 DEF LiveReference, Live
  <2> QED
    BY SMTT(20), <2>1, <2>2, <2>3
<1>9. ASSUME NEW p \in ModelPublishers, AbortRun(p) PROVE OwnersInv'
  BY SMTT(20), <1>9 DEF AbortRun, LiveReference, Live
<1>10. ASSUME NEW p \in ModelPublishers, NEW a \in todo[p], UploadOutlivesCaller(p, a) PROVE OwnersInv'
  BY <1>10 DEF UploadOutlivesCaller, LiveReference, Live
<1> QED
  BY <1>1, <1>2, <1>3, <1>4, <1>5, <1>6, <1>7, <1>8, <1>9, <1>10
  DEF ModelNext, RunStep

\* A cleaner that acknowledges leaves what came back to the call that put it.
LEMMA CleanupKeepsOwners == ASSUME ~Faults, ~LatePuts, TypeOK, LocksHeld, LineageInv, OwnersInv, CleanupNext PROVE OwnersInv'
<1> USE SchemaAssumption, ProcessAssumption, PreloadAssumption
<1> USE DEF TypeOK, OwnersInv, Owned, Tombstoned, LocksHeld, LockFree, Removing, Deleters
<1> USE DEF Items, Address, ModelAddresses, SourcePublishers, Publishers, Process
<1> USE DEF Goto, Acquire, Release, Marked, Requeued, Returned, Returns, Select, Claim, Finish,
           tables, inflight
<1>1. ASSUME NEW ids \in DeletionRequests, DeleteSources(ids) PROVE OwnersInv'
  BY <1>1, DeletionWithdraws, WithdrawKeepsOwners
<1>2. ASSUME NEW ids \in DeletionRequests, DeleteDatasets(ids) PROVE OwnersInv'
  BY <1>2, DeletionWithdraws, WithdrawKeepsOwners
<1>3. ASSUME NEW a \in RequeueRequests, RequeueRemovedObject(a) PROVE OwnersInv'
  BY <1>3 DEF RequeueRemovedObject, LiveReference, Live
<1>4. ASSUME NEW c \in Cleaners, NEW a \in Address, SelectPending(c, a) PROVE OwnersInv'
  BY SMTT(20), <1>4 DEF SelectPending, LiveReference, Live
<1>5. ASSUME NEW c \in Cleaners, NEW a \in Address, SelectOrphan(c, a) PROVE OwnersInv'
  BY SMTT(20), <1>5 DEF SelectOrphan, LiveReference, Live
<1>6. ASSUME NEW c \in Cleaners, SkipRemoval(c) PROVE OwnersInv'
  BY SMTT(20), <1>6 DEF SkipRemoval, LiveReference, Live
<1>7. ASSUME NEW c \in Cleaners, RetainShared(c) PROVE OwnersInv'
  BY SMTT(20), <1>7 DEF RetainShared, LiveReference, Live
<1>8. ASSUME NEW c \in Cleaners, BeginRemoval(c) PROVE OwnersInv'
  BY SMTT(20), <1>8 DEF BeginRemoval, LiveReference, Live
<1>9. ASSUME NEW c \in Cleaners, DeleteRemoved(c) PROVE OwnersInv'
  BY <1>9 DEF DeleteRemoved, LiveReference, Live
<1>10. ASSUME NEW c \in Cleaners, AckRemoval(c) PROVE OwnersInv'
  BY SMTT(20), <1>10 DEF AckRemoval, LiveReference, Live
<1>11. ASSUME NEW c \in Cleaners, SkipOrphan(c) PROVE OwnersInv'
  BY SMTT(20), <1>11 DEF SkipOrphan, LiveReference, Live
<1>12. ASSUME NEW c \in Cleaners, BeginOrphan(c) PROVE OwnersInv'
  BY SMTT(20), <1>12 DEF BeginOrphan, LiveReference, Live
<1>13. ASSUME NEW c \in Cleaners, HeadOrphan(c) PROVE OwnersInv'
  BY <1>13 DEF HeadOrphan, LiveReference, Live
<1>14. ASSUME NEW c \in Cleaners, RetireObservation(c) PROVE OwnersInv'
  BY SMTT(20), <1>14 DEF RetireObservation, LiveReference, Live
<1>15. ASSUME NEW c \in Cleaners \cup Reporters, DeleteOrphan(c) PROVE OwnersInv'
  BY SMTT(20), <1>15 DEF DeleteOrphan, LiveReference, Live
<1>16. ASSUME NEW r \in Reporters, NEW a \in ReportAddresses, StageReport(r, a) PROVE OwnersInv'
  BY SMTT(20), <1>16 DEF StageReport, LiveReference, Live
<1>17. ASSUME NEW r \in Reporters, LeaveReport(r) PROVE OwnersInv'
  BY SMTT(20), <1>17 DEF LeaveReport, LiveReference, Live
<1>18. ASSUME NEW r \in Reporters, BeginDiscard(r) PROVE OwnersInv'
  BY SMTT(20), <1>18 DEF BeginDiscard, LiveReference, Live
<1>19. ASSUME NEW c \in Cleaners \cup Reporters, InterruptCleaner(c) PROVE OwnersInv'
  BY <1>19 DEF InterruptCleaner, LiveReference, Live
<1> QED
  BY <1>1, <1>2, <1>3, <1>4, <1>5, <1>6, <1>7, <1>8, <1>9, <1>10, <1>11, <1>12, <1>13,
     <1>14, <1>15, <1>16, <1>17, <1>18, <1>19
  DEF CleanupNext, GovernanceStep, CleanerStep, ReporterStep

\* No time passes that would change an owner.
LEMMA EnvironmentKeepsOwners == ASSUME ~Faults, ~LatePuts, TypeOK, LocksHeld, LineageInv, OwnersInv, Environment PROVE OwnersInv'
<1> USE SchemaAssumption, ProcessAssumption, PreloadAssumption
<1> USE DEF TypeOK, OwnersInv, Owned, Tombstoned, LocksHeld, LockFree, Removing, Deleters
<1> USE DEF Items, Address, ModelAddresses, SourcePublishers, Publishers, Process
<1> USE DEF Goto, Acquire, Release, Marked, Requeued, Returned, Returns, Select, Claim, Finish,
           tables, inflight
<1>1. ASSUME NEW a \in Address, GraceElapses(a) PROVE OwnersInv'
  BY <1>1 DEF GraceElapses, LiveReference, Live
<1>2. ASSUME NEW a \in Address, ObservationAges(a) PROVE OwnersInv'
  BY <1>2 DEF ObservationAges, LiveReference, Live
<1>3. ASSUME NEW a \in latePut, LatePutLands(a) PROVE OwnersInv'
  BY <1>3 DEF LatePutLands, LiveReference, Live
<1>4. ASSUME NEW a \in lateDelete, LateDeleteLands(a) PROVE OwnersInv'
  BY <1>4 DEF LateDeleteLands, LiveReference, Live
<1> QED
  BY <1>1, <1>2, <1>3, <1>4
  DEF Environment

\* Every step leaves such bytes to an owner.
LEMMA OwnersStep ==
  ASSUME ~Faults, ~LatePuts
  PROVE  TypeOK /\ LocksHeld /\ LineageInv /\ OwnersInv /\ [Next]_vars => OwnersInv'
<1> SUFFICES ASSUME TypeOK, LocksHeld, LineageInv, OwnersInv, [Next]_vars PROVE OwnersInv'
  OBVIOUS
<1>1. CASE UNCHANGED vars
  BY <1>1 DEF vars, OwnersInv, Owned, Tombstoned, LiveReference, Live
<1> QED
  BY <1>1, SourceKeepsOwners, ModelKeepsOwners, CleanupKeepsOwners, EnvironmentKeepsOwners DEF Next

\* Source bytes that a deletion brought under a tombstone never escape the queue: whoever
\* put them back is about to re-queue the address (ingest.ts:95, datasets.ts:168), if no
\* call is lost and no PUT outlives its caller.
THEOREM SourceBytesHaveOwners ==
  ASSUME ~LatePuts PROVE Spec => []SourceBytesOwned
<1>1. CASE Faults
  <2>1. SourceBytesOwned  BY <1>1 DEF SourceBytesOwned
  <2> QED  BY <2>1, PTL
<1>2. CASE ~Faults
  <2>1. Init => OwnersInv
    BY SchemaAssumption, ProcessAssumption
    DEF Init, TablesInit, ProcessInit, OwnersInv, Tombstoned, Address, Process, Publishers
  <2>2. OwnersInv => SourceBytesOwned
    BY DEF OwnersInv, Owned, SourceBytesOwned
  <2> QED
    BY <1>2, <2>1, <2>2, FeatureStoreTyped, LocksHeldThroughout, LineageInvariant, OwnersStep, PTL
    DEF Spec
<1> QED  BY <1>1, <1>2

-----------------------------------------------------------------------------
(***************************************************************************)
(* What the steps of the feature store may do, from these invariants: the  *)
(* action properties, and that every step is one of PublishedObjects or a  *)
(* stutter.                                                                *)
(***************************************************************************)

\* What NoResurrection says of one step.
Lawful ==
  \A x \in Items : ~Live(x) /\ Live(x)' =>
    row[x] = "absent" /\ \A a \in Files[x] : ~Tombstoned(a)

\* What GraceHonoured says of one step, and that no live row loses its bytes.
Patient ==
  \A a \in bytes \ bytes' : (Tombstoned(a) => RemovalDue(a)) /\ ~LiveReference(a)

-----------------------------------------------------------------------------
(* Which rows may come to life, and over what. *)

\* Nothing deleted comes back to life in a step of ingestion or a dataset build.
LEMMA SourceLawful == ASSUME TypeOK, LocksHeld, LineageInv, SourceNext PROVE Lawful
<1> USE SchemaAssumption, ProcessAssumption, PreloadAssumption
<1> USE DEF TypeOK, RowStates, LocksHeld, LineageInv, Pinned, TombstonesExplained, Lawful
<1> USE DEF Live, Tombstoned, References, LiveReference, RemovalDue, LockFree, StillDue
<1> USE DEF Unclaimed, OrphanDue, GuardAllows, EnrollmentAllowed, InTransaction, Removing, Sweeping
<1> USE DEF Items, Address, ModelAddresses, SourcePublishers, Publishers, Process, Deleters
<1> USE DEF Goto, Acquire, Release, SetRow, Marked, Requeued, Returned, Returns, Enroll,
           Select, Claim, Finish, Adopted, Withdraw, tables, inflight
<1>1. ASSUME NEW p \in Ingesters, StartJob(p) PROVE Lawful
  BY <1>1 DEF StartJob
<1>2. ASSUME NEW p \in Ingesters, JobUnavailable(p) PROVE Lawful
  BY <1>2 DEF JobUnavailable
<1>3. ASSUME NEW p \in Ingesters, FailJob(p) PROVE Lawful
  BY <1>3 DEF FailJob
<1>4. ASSUME NEW p \in Builders, BeginBuild(p) PROVE Lawful
  BY <1>4 DEF BeginBuild
<1>5. ASSUME NEW p \in SourcePublishers, PutSource(p) PROVE Lawful
  BY <1>5 DEF PutSource
<1>6. ASSUME NEW p \in SourcePublishers, PutSourceFails(p) PROVE Lawful
  BY <1>6 DEF PutSourceFails
<1>7. ASSUME NEW p \in SourcePublishers, LockSource(p) PROVE Lawful
  BY <1>7 DEF LockSource
<1>8. ASSUME NEW p \in SourcePublishers, HeadSource(p) PROVE Lawful
  BY <1>8 DEF HeadSource
<1>9. ASSUME NEW p \in SourcePublishers, CommitSource(p) PROVE Lawful
  <2> DEFINE x == Target[p]
  <2>1. x \in Items /\ p \in Publishers /\ Files[x] # {} /\ Files[x] \subseteq Address
    OBVIOUS
  <2>2. \A a \in Files[x] : ~Tombstoned(a)
    BY <1>9 DEF CommitSource
  <2>3. row[x] # "withdrawn"
    BY <2>1, <2>2
  <2>4. \A y \in Items : y # x => row'[y] = row[y]
    BY <1>9 DEF CommitSource
  <2>5. outcome' = outcome
    BY <1>9 DEF CommitSource
  <2> QED
    BY <2>1, <2>2, <2>3, <2>4, <2>5
<1>10. ASSUME NEW p \in SourcePublishers, AbortSource(p) PROVE Lawful
  BY <1>10 DEF AbortSource
<1>11. ASSUME NEW p \in SourcePublishers, RequeueSource(p) PROVE Lawful
  BY <1>11 DEF RequeueSource
<1>12. ASSUME NEW p \in SourcePublishers, InterruptSource(p) PROVE Lawful
  BY <1>12 DEF InterruptSource
<1> QED
  BY SourceNext, <1>1, <1>2, <1>3, <1>4, <1>5, <1>6, <1>7, <1>8, <1>9, <1>10, <1>11, <1>12
  DEF SourceNext, IngestStep, SourceStep

\* Nothing deleted comes back to life in a step of model publication.
LEMMA ModelLawful == ASSUME TypeOK, LocksHeld, LineageInv, ModelNext PROVE Lawful
<1> USE SchemaAssumption, ProcessAssumption, PreloadAssumption
<1> USE DEF TypeOK, RowStates, LocksHeld, LineageInv, Pinned, TombstonesExplained, Lawful
<1> USE DEF Live, Tombstoned, References, LiveReference, RemovalDue, LockFree, StillDue
<1> USE DEF Unclaimed, OrphanDue, GuardAllows, EnrollmentAllowed, InTransaction, Removing, Sweeping
<1> USE DEF Items, Address, ModelAddresses, SourcePublishers, Publishers, Process, Deleters
<1> USE DEF Goto, Acquire, Release, SetRow, Marked, Requeued, Returned, Returns, Enroll,
           Select, Claim, Finish, Adopted, Withdraw, tables, inflight
<1>1. ASSUME NEW p \in ModelPublishers, BeginRun(p) PROVE Lawful
  BY <1>1 DEF BeginRun
<1>2. ASSUME NEW p \in ModelPublishers, NEW a \in todo[p], PreflightHead(p, a) PROVE Lawful
  BY <1>2 DEF PreflightHead
<1>3. ASSUME NEW p \in ModelPublishers, EnrollAbsent(p) PROVE Lawful
  BY <1>3 DEF EnrollAbsent
<1>4. ASSUME NEW p \in ModelPublishers, NEW a \in todo[p], UploadObject(p, a) PROVE Lawful
  BY <1>4 DEF UploadObject
<1>5. ASSUME NEW p \in ModelPublishers, Reenroll(p) PROVE Lawful
  BY <1>5 DEF Reenroll
<1>6. ASSUME NEW p \in ModelPublishers, GuardRun(p) PROVE Lawful
  BY <1>6 DEF GuardRun
<1>7. ASSUME NEW p \in ModelPublishers, NEW a \in todo[p], VerifyHead(p, a) PROVE Lawful
  BY <1>7 DEF VerifyHead
<1>8. ASSUME NEW p \in ModelPublishers, PublishRun(p) PROVE Lawful
  <2> DEFINE x == Target[p]
  <2>1. row[x] # "withdrawn" /\ (Live(x) \/ \A a \in Files[x] : ~Tombstoned(a))
    BY <1>8 DEF PublishRun
  <2>2. x \in Items /\ \A y \in Items : y # x => row'[y] = row[y]
    BY <1>8 DEF PublishRun
  <2>3. outcome' = outcome
    BY <1>8 DEF PublishRun
  <2> QED
    BY <2>1, <2>2, <2>3
<1>9. ASSUME NEW p \in ModelPublishers, AbortRun(p) PROVE Lawful
  BY <1>9 DEF AbortRun
<1>10. ASSUME NEW p \in ModelPublishers, NEW a \in todo[p], UploadOutlivesCaller(p, a) PROVE Lawful
  BY <1>10 DEF UploadOutlivesCaller
<1> QED
  BY ModelNext, <1>1, <1>2, <1>3, <1>4, <1>5, <1>6, <1>7, <1>8, <1>9, <1>10
  DEF ModelNext, RunStep

\* Nothing deleted comes back to life in a step of deletion, cleanup or a discard.
LEMMA CleanupLawful == ASSUME TypeOK, LocksHeld, LineageInv, CleanupNext PROVE Lawful
<1> USE SchemaAssumption, ProcessAssumption, PreloadAssumption
<1> USE DEF TypeOK, RowStates, LocksHeld, LineageInv, Pinned, TombstonesExplained, Lawful
<1> USE DEF Live, Tombstoned, References, LiveReference, RemovalDue, LockFree, StillDue
<1> USE DEF Unclaimed, OrphanDue, GuardAllows, EnrollmentAllowed, InTransaction, Removing, Sweeping
<1> USE DEF Items, Address, ModelAddresses, SourcePublishers, Publishers, Process, Deleters
<1> USE DEF Goto, Acquire, Release, SetRow, Marked, Requeued, Returned, Returns, Enroll,
           Select, Claim, Finish, Adopted, Withdraw, tables, inflight
<1>1. ASSUME NEW ids \in DeletionRequests, DeleteSources(ids) PROVE Lawful
  BY <1>1 DEF DeleteSources
<1>2. ASSUME NEW ids \in DeletionRequests, DeleteDatasets(ids) PROVE Lawful
  BY <1>2 DEF DeleteDatasets
<1>3. ASSUME NEW a \in RequeueRequests, RequeueRemovedObject(a) PROVE Lawful
  BY <1>3 DEF RequeueRemovedObject
<1>4. ASSUME NEW c \in Cleaners, NEW a \in Address, SelectPending(c, a) PROVE Lawful
  BY <1>4 DEF SelectPending
<1>5. ASSUME NEW c \in Cleaners, NEW a \in Address, SelectOrphan(c, a) PROVE Lawful
  BY <1>5 DEF SelectOrphan
<1>6. ASSUME NEW c \in Cleaners, SkipRemoval(c) PROVE Lawful
  BY <1>6 DEF SkipRemoval
<1>7. ASSUME NEW c \in Cleaners, RetainShared(c) PROVE Lawful
  BY <1>7 DEF RetainShared
<1>8. ASSUME NEW c \in Cleaners, BeginRemoval(c) PROVE Lawful
  BY <1>8 DEF BeginRemoval
<1>9. ASSUME NEW c \in Cleaners, DeleteRemoved(c) PROVE Lawful
  BY <1>9 DEF DeleteRemoved
<1>10. ASSUME NEW c \in Cleaners, AckRemoval(c) PROVE Lawful
  BY <1>10 DEF AckRemoval
<1>11. ASSUME NEW c \in Cleaners, SkipOrphan(c) PROVE Lawful
  BY <1>11 DEF SkipOrphan
<1>12. ASSUME NEW c \in Cleaners, BeginOrphan(c) PROVE Lawful
  BY <1>12 DEF BeginOrphan
<1>13. ASSUME NEW c \in Cleaners, HeadOrphan(c) PROVE Lawful
  BY <1>13 DEF HeadOrphan
<1>14. ASSUME NEW c \in Cleaners, RetireObservation(c) PROVE Lawful
  BY <1>14 DEF RetireObservation
<1>15. ASSUME NEW c \in Cleaners \cup Reporters, DeleteOrphan(c) PROVE Lawful
  BY <1>15 DEF DeleteOrphan
<1>16. ASSUME NEW r \in Reporters, NEW a \in ReportAddresses, StageReport(r, a) PROVE Lawful
  BY <1>16 DEF StageReport
<1>17. ASSUME NEW r \in Reporters, LeaveReport(r) PROVE Lawful
  BY <1>17 DEF LeaveReport
<1>18. ASSUME NEW r \in Reporters, BeginDiscard(r) PROVE Lawful
  BY <1>18 DEF BeginDiscard
<1>19. ASSUME NEW c \in Cleaners \cup Reporters, InterruptCleaner(c) PROVE Lawful
  BY <1>19 DEF InterruptCleaner
<1> QED
  BY CleanupNext, <1>1, <1>2, <1>3, <1>4, <1>5, <1>6, <1>7, <1>8, <1>9, <1>10, <1>11,
     <1>12, <1>13, <1>14, <1>15, <1>16, <1>17, <1>18, <1>19
  DEF CleanupNext, GovernanceStep, CleanerStep, ReporterStep, Deleters

\* Nothing deleted comes back to life in a step of time or the network.
LEMMA EnvironmentLawful == ASSUME TypeOK, LocksHeld, LineageInv, Environment PROVE Lawful
<1> USE SchemaAssumption, ProcessAssumption, PreloadAssumption
<1> USE DEF TypeOK, RowStates, LocksHeld, LineageInv, Pinned, TombstonesExplained, Lawful
<1> USE DEF Live, Tombstoned, References, LiveReference, RemovalDue, LockFree, StillDue
<1> USE DEF Unclaimed, OrphanDue, GuardAllows, EnrollmentAllowed, InTransaction, Removing, Sweeping
<1> USE DEF Items, Address, ModelAddresses, SourcePublishers, Publishers, Process, Deleters
<1> USE DEF Goto, Acquire, Release, SetRow, Marked, Requeued, Returned, Returns, Enroll,
           Select, Claim, Finish, Adopted, Withdraw, tables, inflight
<1>1. ASSUME NEW a \in Address, GraceElapses(a) PROVE Lawful
  BY <1>1 DEF GraceElapses
<1>2. ASSUME NEW a \in Address, ObservationAges(a) PROVE Lawful
  BY <1>2 DEF ObservationAges
<1>3. ASSUME NEW a \in latePut, LatePutLands(a) PROVE Lawful
  BY <1>3 DEF LatePutLands
<1>4. ASSUME NEW a \in lateDelete, LateDeleteLands(a) PROVE Lawful
  BY <1>4 DEF LateDeleteLands
<1> QED
  BY Environment, <1>1, <1>2, <1>3, <1>4
  DEF Environment

\* Every step obeys NoResurrection.
LEMMA LawfulStep == TypeOK /\ LocksHeld /\ LineageInv /\ [Next]_vars => Lawful \/ UNCHANGED vars
<1> QED
  BY SourceLawful, ModelLawful, CleanupLawful, EnvironmentLawful DEF Next

\* A row comes to life only once, and never over content that was deleted.
THEOREM NothingResurrected == Spec => NoResurrection
<1>1. TypeOK /\ LocksHeld /\ LineageInv /\ [Next]_vars =>
        [\A x \in Items : ~Live(x) /\ Live(x)' =>
           row[x] = "absent" /\ \A a \in Files[x] : ~Tombstoned(a)]_vars
  BY LawfulStep DEF Lawful
<1> QED
  BY <1>1, FeatureStoreTyped, LocksHeldThroughout, LineageInvariant, PTL DEF Spec, NoResurrection

-----------------------------------------------------------------------------
(* Which bytes may go, and when. *)

\* Only due or unclaimed bytes go in a step of ingestion or a dataset build.
LEMMA SourcePatient == ASSUME ~LateDeletes, TypeOK, BytesInv, SourceNext PROVE Patient
<1> USE SchemaAssumption, ProcessAssumption, PreloadAssumption
<1> USE DEF TypeOK, BytesInv, DeletersEntitled, Patient
<1> USE DEF Live, Tombstoned, References, LiveReference, RemovalDue, LockFree, StillDue
<1> USE DEF Unclaimed, OrphanDue, GuardAllows, EnrollmentAllowed, InTransaction, Removing, Sweeping
<1> USE DEF Items, Address, ModelAddresses, SourcePublishers, Publishers, Process, Deleters
<1> USE DEF Goto, Acquire, Release, SetRow, Marked, Requeued, Returned, Returns, Enroll,
           Select, Claim, Finish, Adopted, Withdraw, tables, inflight
<1>1. ASSUME NEW p \in Ingesters, StartJob(p) PROVE Patient
  BY <1>1 DEF StartJob
<1>2. ASSUME NEW p \in Ingesters, JobUnavailable(p) PROVE Patient
  BY <1>2 DEF JobUnavailable
<1>3. ASSUME NEW p \in Ingesters, FailJob(p) PROVE Patient
  BY <1>3 DEF FailJob
<1>4. ASSUME NEW p \in Builders, BeginBuild(p) PROVE Patient
  BY <1>4 DEF BeginBuild
<1>5. ASSUME NEW p \in SourcePublishers, PutSource(p) PROVE Patient
  BY <1>5 DEF PutSource
<1>6. ASSUME NEW p \in SourcePublishers, PutSourceFails(p) PROVE Patient
  BY <1>6 DEF PutSourceFails
<1>7. ASSUME NEW p \in SourcePublishers, LockSource(p) PROVE Patient
  BY <1>7 DEF LockSource
<1>8. ASSUME NEW p \in SourcePublishers, HeadSource(p) PROVE Patient
  BY <1>8 DEF HeadSource
<1>9. ASSUME NEW p \in SourcePublishers, CommitSource(p) PROVE Patient
  BY <1>9 DEF CommitSource
<1>10. ASSUME NEW p \in SourcePublishers, AbortSource(p) PROVE Patient
  BY <1>10 DEF AbortSource
<1>11. ASSUME NEW p \in SourcePublishers, RequeueSource(p) PROVE Patient
  BY <1>11 DEF RequeueSource
<1>12. ASSUME NEW p \in SourcePublishers, InterruptSource(p) PROVE Patient
  BY <1>12 DEF InterruptSource
<1> QED
  BY SourceNext, <1>1, <1>2, <1>3, <1>4, <1>5, <1>6, <1>7, <1>8, <1>9, <1>10, <1>11, <1>12
  DEF SourceNext, IngestStep, SourceStep

\* Only due or unclaimed bytes go in a step of model publication.
LEMMA ModelPatient == ASSUME ~LateDeletes, TypeOK, BytesInv, ModelNext PROVE Patient
<1> USE SchemaAssumption, ProcessAssumption, PreloadAssumption
<1> USE DEF TypeOK, BytesInv, DeletersEntitled, Patient
<1> USE DEF Live, Tombstoned, References, LiveReference, RemovalDue, LockFree, StillDue
<1> USE DEF Unclaimed, OrphanDue, GuardAllows, EnrollmentAllowed, InTransaction, Removing, Sweeping
<1> USE DEF Items, Address, ModelAddresses, SourcePublishers, Publishers, Process, Deleters
<1> USE DEF Goto, Acquire, Release, SetRow, Marked, Requeued, Returned, Returns, Enroll,
           Select, Claim, Finish, Adopted, Withdraw, tables, inflight
<1>1. ASSUME NEW p \in ModelPublishers, BeginRun(p) PROVE Patient
  BY <1>1 DEF BeginRun
<1>2. ASSUME NEW p \in ModelPublishers, NEW a \in todo[p], PreflightHead(p, a) PROVE Patient
  BY <1>2 DEF PreflightHead
<1>3. ASSUME NEW p \in ModelPublishers, EnrollAbsent(p) PROVE Patient
  BY <1>3 DEF EnrollAbsent
<1>4. ASSUME NEW p \in ModelPublishers, NEW a \in todo[p], UploadObject(p, a) PROVE Patient
  BY <1>4 DEF UploadObject
<1>5. ASSUME NEW p \in ModelPublishers, Reenroll(p) PROVE Patient
  BY <1>5 DEF Reenroll
<1>6. ASSUME NEW p \in ModelPublishers, GuardRun(p) PROVE Patient
  BY <1>6 DEF GuardRun
<1>7. ASSUME NEW p \in ModelPublishers, NEW a \in todo[p], VerifyHead(p, a) PROVE Patient
  BY <1>7 DEF VerifyHead
<1>8. ASSUME NEW p \in ModelPublishers, PublishRun(p) PROVE Patient
  BY <1>8 DEF PublishRun
<1>9. ASSUME NEW p \in ModelPublishers, AbortRun(p) PROVE Patient
  BY <1>9 DEF AbortRun
<1>10. ASSUME NEW p \in ModelPublishers, NEW a \in todo[p], UploadOutlivesCaller(p, a) PROVE Patient
  BY <1>10 DEF UploadOutlivesCaller
<1> QED
  BY ModelNext, <1>1, <1>2, <1>3, <1>4, <1>5, <1>6, <1>7, <1>8, <1>9, <1>10
  DEF ModelNext, RunStep

\* Only due or unclaimed bytes go in a step of deletion, cleanup or a discard.
LEMMA CleanupPatient == ASSUME ~LateDeletes, TypeOK, BytesInv, CleanupNext PROVE Patient
<1> USE SchemaAssumption, ProcessAssumption, PreloadAssumption
<1> USE DEF TypeOK, BytesInv, DeletersEntitled, Patient
<1> USE DEF Live, Tombstoned, References, LiveReference, RemovalDue, LockFree, StillDue
<1> USE DEF Unclaimed, OrphanDue, GuardAllows, EnrollmentAllowed, InTransaction, Removing, Sweeping
<1> USE DEF Items, Address, ModelAddresses, SourcePublishers, Publishers, Process, Deleters
<1> USE DEF Goto, Acquire, Release, SetRow, Marked, Requeued, Returned, Returns, Enroll,
           Select, Claim, Finish, Adopted, Withdraw, tables, inflight
<1>1. ASSUME NEW ids \in DeletionRequests, DeleteSources(ids) PROVE Patient
  BY <1>1 DEF DeleteSources
<1>2. ASSUME NEW ids \in DeletionRequests, DeleteDatasets(ids) PROVE Patient
  BY <1>2 DEF DeleteDatasets
<1>3. ASSUME NEW a \in RequeueRequests, RequeueRemovedObject(a) PROVE Patient
  BY <1>3 DEF RequeueRemovedObject
<1>4. ASSUME NEW c \in Cleaners, NEW a \in Address, SelectPending(c, a) PROVE Patient
  BY <1>4 DEF SelectPending
<1>5. ASSUME NEW c \in Cleaners, NEW a \in Address, SelectOrphan(c, a) PROVE Patient
  BY <1>5 DEF SelectOrphan
<1>6. ASSUME NEW c \in Cleaners, SkipRemoval(c) PROVE Patient
  BY <1>6 DEF SkipRemoval
<1>7. ASSUME NEW c \in Cleaners, RetainShared(c) PROVE Patient
  BY <1>7 DEF RetainShared
<1>8. ASSUME NEW c \in Cleaners, BeginRemoval(c) PROVE Patient
  BY <1>8 DEF BeginRemoval
<1>9. ASSUME NEW c \in Cleaners, DeleteRemoved(c) PROVE Patient
  BY <1>9 DEF DeleteRemoved
<1>10. ASSUME NEW c \in Cleaners, AckRemoval(c) PROVE Patient
  BY <1>10 DEF AckRemoval
<1>11. ASSUME NEW c \in Cleaners, SkipOrphan(c) PROVE Patient
  BY <1>11 DEF SkipOrphan
<1>12. ASSUME NEW c \in Cleaners, BeginOrphan(c) PROVE Patient
  BY <1>12 DEF BeginOrphan
<1>13. ASSUME NEW c \in Cleaners, HeadOrphan(c) PROVE Patient
  BY <1>13 DEF HeadOrphan
<1>14. ASSUME NEW c \in Cleaners, RetireObservation(c) PROVE Patient
  BY <1>14 DEF RetireObservation
<1>15. ASSUME NEW c \in Cleaners \cup Reporters, DeleteOrphan(c) PROVE Patient
  BY <1>15 DEF DeleteOrphan
<1>16. ASSUME NEW r \in Reporters, NEW a \in ReportAddresses, StageReport(r, a) PROVE Patient
  BY <1>16 DEF StageReport
<1>17. ASSUME NEW r \in Reporters, LeaveReport(r) PROVE Patient
  BY <1>17 DEF LeaveReport
<1>18. ASSUME NEW r \in Reporters, BeginDiscard(r) PROVE Patient
  BY <1>18 DEF BeginDiscard
<1>19. ASSUME NEW c \in Cleaners \cup Reporters, InterruptCleaner(c) PROVE Patient
  BY <1>19 DEF InterruptCleaner
<1> QED
  BY CleanupNext, <1>1, <1>2, <1>3, <1>4, <1>5, <1>6, <1>7, <1>8, <1>9, <1>10, <1>11,
     <1>12, <1>13, <1>14, <1>15, <1>16, <1>17, <1>18, <1>19
  DEF CleanupNext, GovernanceStep, CleanerStep, ReporterStep, Deleters

\* Only due or unclaimed bytes go in a step of time or the network.
LEMMA EnvironmentPatient == ASSUME ~LateDeletes, TypeOK, BytesInv, Environment PROVE Patient
<1> USE SchemaAssumption, ProcessAssumption, PreloadAssumption
<1> USE DEF TypeOK, BytesInv, DeletersEntitled, Patient
<1> USE DEF Live, Tombstoned, References, LiveReference, RemovalDue, LockFree, StillDue
<1> USE DEF Unclaimed, OrphanDue, GuardAllows, EnrollmentAllowed, InTransaction, Removing, Sweeping
<1> USE DEF Items, Address, ModelAddresses, SourcePublishers, Publishers, Process, Deleters
<1> USE DEF Goto, Acquire, Release, SetRow, Marked, Requeued, Returned, Returns, Enroll,
           Select, Claim, Finish, Adopted, Withdraw, tables, inflight
<1>1. ASSUME NEW a \in Address, GraceElapses(a) PROVE Patient
  BY <1>1 DEF GraceElapses
<1>2. ASSUME NEW a \in Address, ObservationAges(a) PROVE Patient
  BY <1>2 DEF ObservationAges
<1>3. ASSUME NEW a \in latePut, LatePutLands(a) PROVE Patient
  BY <1>3 DEF LatePutLands
<1>4. ASSUME NEW a \in lateDelete, LateDeleteLands(a) PROVE Patient
  BY <1>4 DEF LateDeleteLands
<1> QED
  BY Environment, <1>1, <1>2, <1>3, <1>4
  DEF Environment

\* Every step obeys GraceHonoured and spares live rows.
LEMMA PatientStep ==
  ~LateDeletes /\ TypeOK /\ BytesInv /\ [Next]_vars => Patient \/ UNCHANGED vars
<1> QED
  BY SourcePatient, ModelPatient, CleanupPatient, EnvironmentPatient DEF Next

\* No bytes under a tombstone are deleted before their removal is due.
THEOREM GraceIsHonoured == ASSUME ~LateDeletes PROVE Spec => GraceHonoured
<1>1. TypeOK /\ BytesInv /\ [Next]_vars =>
        [\A a \in bytes \ bytes' : Tombstoned(a) => RemovalDue(a)]_vars
  BY PatientStep DEF Patient
<1> QED
  BY <1>1, FeatureStoreTyped, BytesInvariant, PTL DEF Spec, GraceHonoured

-----------------------------------------------------------------------------
(* The promise. *)

PromiseStep == [Promise!Next]_(Promise!vars)

\* The three things a step does to rows, tombstones and bytes.
MovesBytes ==
  /\ row' = row
  /\ \A a \in Address : Tombstoned(a)' <=> Tombstoned(a)
  /\ bytes \subseteq bytes' \/ bytes' \subseteq bytes

PublishesRow ==
  \E x \in Items :
    /\ SetRow(x, "live") /\ UNCHANGED <<bytes, outcome>>
    /\ Files[x] \subseteq bytes
    /\ Live(x) \/ \A a \in Files[x] : ~Tombstoned(a)
    /\ \A d \in Inputs[x] : Live(d)

DeletesRows ==
  \E X \in SUBSET Items :
    Withdraw(X) /\ (\A x \in X : row[x] # "absent") /\ Dependents(X) \subseteq X

StepKinds == MovesBytes \/ PublishesRow \/ DeletesRows

\* Bytes come and go.
LEMMA BytesPromised == ASSUME TypeOK, TypeOK', Patient, MovesBytes PROVE PromiseStep
<1>1. {a \in Address : Tombstoned(a)}' = {a \in Address : Tombstoned(a)}
  BY DEF MovesBytes
<1>2. bytes' \subseteq Address
  BY DEF TypeOK
<1>3. CASE bytes \subseteq bytes'
  <2>1. Promise!Store
    BY <1>1, <1>2, <1>3 DEF MovesBytes, Promise!Store
  <2> QED
    BY <2>1 DEF PromiseStep, Promise!Next
<1>4. CASE bytes' \subseteq bytes
  <2>1. \A a \in bytes \ bytes' : ~Promise!InUse(a)
    BY DEF Patient, LiveReference, Live, Promise!InUse, Promise!Live
  <2>2. Promise!Reclaim
    BY <1>1, <1>4, <2>1 DEF MovesBytes, Promise!Reclaim
  <2> QED
    BY <2>2 DEF PromiseStep, Promise!Next
<1> QED
  BY <1>3, <1>4 DEF MovesBytes

\* The COMMIT of a publication is the abstract one, or repeats an earlier one.
LEMMA PublicationPromised == ASSUME TypeOK, PublishesRow, Lawful PROVE PromiseStep
<1> USE DEF TypeOK, SetRow, Tombstoned
<1>1. PICK x \in Items :
        /\ SetRow(x, "live") /\ UNCHANGED <<bytes, outcome>>
        /\ Files[x] \subseteq bytes
        /\ Live(x) \/ \A a \in Files[x] : ~Tombstoned(a)
        /\ \A d \in Inputs[x] : Live(d)
  BY DEF PublishesRow
<1>2. UNCHANGED {a \in Address : Tombstoned(a)}
  BY <1>1
<1>3. CASE Live(x)
  <2>1. row' = row
    BY <1>1, <1>3 DEF Live
  <2> QED
    BY <1>1, <1>2, <2>1 DEF PromiseStep, Promise!vars
<1>4. CASE ~Live(x)
  <2>1. row[x] = "absent"
    BY <1>1, <1>4 DEF Live, Lawful
  <2>2. Files[x] \subseteq bytes \ {a \in Address : Tombstoned(a)}
    BY <1>1, <1>4
  <2>3. Promise!Publish(x)
    BY <1>1, <1>2, <2>1, <2>2 DEF Promise!Publish, Promise!Live, Live
  <2> QED
    BY <2>3 DEF PromiseStep, Promise!Next
<1> QED
  BY <1>3, <1>4

\* A deletion is the abstract one: its tombstones are the addresses of its rows.
LEMMA DeletionPromised == ASSUME TypeOK, DeletesRows PROVE PromiseStep
<1> USE SchemaAssumption DEF TypeOK
<1>1. PICK X \in SUBSET Items :
        Withdraw(X) /\ (\A x \in X : row[x] # "absent") /\ Dependents(X) \subseteq X
  BY DEF DeletesRows
<1> DEFINE addresses == UNION {Files[x] : x \in X}
<1>2. addresses \subseteq Address
  OBVIOUS
<1>3. {a \in Address : Tombstoned(a)}' = {a \in Address : Tombstoned(a)} \cup addresses
  BY <1>1, <1>2 DEF Tombstoned, Withdraw, Marked
<1>4. \A x \in Items : Inputs[x] \cap X # {} /\ Promise!Live(x) => x \in X
  BY <1>1 DEF Dependents, Promise!Live
<1>5. Promise!Withdraw(X)
  BY <1>1, <1>3, <1>4 DEF Promise!Withdraw, Withdraw
<1> QED
  BY <1>5 DEF PromiseStep, Promise!Next

\* The COMMIT of a source publishes its row over the bytes the HEAD found.
LEMMA CommitPublishes ==
  ASSUME BytesInv, LineageInv, NEW p \in SourcePublishers, CommitSource(p)
  PROVE  PublishesRow
<1>1. InTransaction(p) /\ Target[p] \in Items
  BY SchemaAssumption, ProcessAssumption
  DEF CommitSource, InTransaction, Items, SourcePublishers, Publishers
<1>2. Files[Target[p]] \subseteq bytes
  BY DEF CommitSource, BytesInv, VerifiedPresent
<1>3. InputsLive(Target[p]) /\ \A a \in Files[Target[p]] : ~Tombstoned(a)
  BY <1>1 DEF LineageInv, Pinned
<1>4. SetRow(Target[p], "live") /\ UNCHANGED <<bytes, outcome>>
  BY DEF CommitSource
<1> QED
  BY <1>1, <1>2, <1>3, <1>4 DEF PublishesRow, InputsLive

\* The COMMIT of a model run publishes its row over the bytes the HEADs found.
LEMMA RunPublishes ==
  ASSUME BytesInv, NEW p \in ModelPublishers, PublishRun(p)
  PROVE  PublishesRow
<1>1. Target[p] \in Items
  BY ProcessAssumption DEF Items
<1>2. Files[Target[p]] \subseteq bytes
  BY DEF PublishRun, BytesInv, VerifiedPresent
<1>3. /\ Live(Target[p]) \/ \A a \in Files[Target[p]] : ~Tombstoned(a)
      /\ \A d \in Inputs[Target[p]] : Live(d)
  BY DEF PublishRun, GuardAllows
<1>4. SetRow(Target[p], "live") /\ UNCHANGED <<bytes, outcome>>
  BY DEF PublishRun
<1> QED
  BY <1>1, <1>2, <1>3, <1>4 DEF PublishesRow

\* Bytes move, a row is published or rows are deleted in a step of ingestion or a dataset build.
LEMMA SourceShaped == ASSUME TypeOK, BytesInv, LineageInv, SourceNext PROVE StepKinds
<1> USE SchemaAssumption, ProcessAssumption, PreloadAssumption
<1> USE DEF TypeOK, Tombstoned, StepKinds, MovesBytes
<1> USE DEF Items, Address, ModelAddresses, SourcePublishers, Publishers, Process, Deleters
<1> USE DEF Goto, Acquire, Release, SetRow, Marked, Requeued, Returned, Returns, Enroll,
           Select, Claim, Finish, Adopted, Withdraw, tables, inflight
<1>1. ASSUME NEW p \in Ingesters, StartJob(p) PROVE StepKinds
  BY <1>1 DEF StartJob
<1>2. ASSUME NEW p \in Ingesters, JobUnavailable(p) PROVE StepKinds
  BY <1>2 DEF JobUnavailable
<1>3. ASSUME NEW p \in Ingesters, FailJob(p) PROVE StepKinds
  BY <1>3 DEF FailJob
<1>4. ASSUME NEW p \in Builders, BeginBuild(p) PROVE StepKinds
  BY <1>4 DEF BeginBuild
<1>5. ASSUME NEW p \in SourcePublishers, PutSource(p) PROVE StepKinds
  BY <1>5 DEF PutSource
<1>6. ASSUME NEW p \in SourcePublishers, PutSourceFails(p) PROVE StepKinds
  BY <1>6 DEF PutSourceFails
<1>7. ASSUME NEW p \in SourcePublishers, LockSource(p) PROVE StepKinds
  BY <1>7 DEF LockSource
<1>8. ASSUME NEW p \in SourcePublishers, HeadSource(p) PROVE StepKinds
  BY <1>8 DEF HeadSource
<1>9. ASSUME NEW p \in SourcePublishers, CommitSource(p) PROVE StepKinds
  <2>1. PublishesRow
    BY <1>9, CommitPublishes
  <2> QED
    BY <2>1
<1>10. ASSUME NEW p \in SourcePublishers, AbortSource(p) PROVE StepKinds
  BY <1>10 DEF AbortSource
<1>11. ASSUME NEW p \in SourcePublishers, RequeueSource(p) PROVE StepKinds
  BY <1>11 DEF RequeueSource
<1>12. ASSUME NEW p \in SourcePublishers, InterruptSource(p) PROVE StepKinds
  BY <1>12 DEF InterruptSource
<1> QED
  BY SourceNext, <1>1, <1>2, <1>3, <1>4, <1>5, <1>6, <1>7, <1>8, <1>9, <1>10, <1>11, <1>12
  DEF SourceNext, IngestStep, SourceStep

\* Bytes move, a row is published or rows are deleted in a step of model publication.
LEMMA ModelShaped == ASSUME TypeOK, BytesInv, LineageInv, ModelNext PROVE StepKinds
<1> USE SchemaAssumption, ProcessAssumption, PreloadAssumption
<1> USE DEF TypeOK, Tombstoned, StepKinds, MovesBytes
<1> USE DEF Items, Address, ModelAddresses, SourcePublishers, Publishers, Process, Deleters
<1> USE DEF Goto, Acquire, Release, SetRow, Marked, Requeued, Returned, Returns, Enroll,
           Select, Claim, Finish, Adopted, Withdraw, tables, inflight
<1>1. ASSUME NEW p \in ModelPublishers, BeginRun(p) PROVE StepKinds
  BY <1>1 DEF BeginRun
<1>2. ASSUME NEW p \in ModelPublishers, NEW a \in todo[p], PreflightHead(p, a) PROVE StepKinds
  BY <1>2 DEF PreflightHead
<1>3. ASSUME NEW p \in ModelPublishers, EnrollAbsent(p) PROVE StepKinds
  BY <1>3 DEF EnrollAbsent
<1>4. ASSUME NEW p \in ModelPublishers, NEW a \in todo[p], UploadObject(p, a) PROVE StepKinds
  BY <1>4 DEF UploadObject
<1>5. ASSUME NEW p \in ModelPublishers, Reenroll(p) PROVE StepKinds
  BY <1>5 DEF Reenroll
<1>6. ASSUME NEW p \in ModelPublishers, GuardRun(p) PROVE StepKinds
  BY <1>6 DEF GuardRun
<1>7. ASSUME NEW p \in ModelPublishers, NEW a \in todo[p], VerifyHead(p, a) PROVE StepKinds
  BY <1>7 DEF VerifyHead
<1>8. ASSUME NEW p \in ModelPublishers, PublishRun(p) PROVE StepKinds
  <2>1. PublishesRow
    BY <1>8, RunPublishes
  <2> QED
    BY <2>1
<1>9. ASSUME NEW p \in ModelPublishers, AbortRun(p) PROVE StepKinds
  BY <1>9 DEF AbortRun
<1>10. ASSUME NEW p \in ModelPublishers, NEW a \in todo[p], UploadOutlivesCaller(p, a) PROVE StepKinds
  BY <1>10 DEF UploadOutlivesCaller
<1> QED
  BY ModelNext, <1>1, <1>2, <1>3, <1>4, <1>5, <1>6, <1>7, <1>8, <1>9, <1>10
  DEF ModelNext, RunStep

\* Bytes move, a row is published or rows are deleted in a step of deletion, cleanup or a discard.
LEMMA CleanupShaped == ASSUME TypeOK, BytesInv, LineageInv, CleanupNext PROVE StepKinds
<1> USE SchemaAssumption, ProcessAssumption, PreloadAssumption
<1> USE DEF TypeOK, Tombstoned, StepKinds, MovesBytes
<1> USE DEF Items, Address, ModelAddresses, SourcePublishers, Publishers, Process, Deleters
<1> USE DEF Goto, Acquire, Release, SetRow, Marked, Requeued, Returned, Returns, Enroll,
           Select, Claim, Finish, Adopted, Withdraw, tables, inflight
<1>1. ASSUME NEW ids \in DeletionRequests, DeleteSources(ids) PROVE StepKinds
  <2>1. DeletesRows
    BY <1>1, DeletionWithdraws DEF DeletesRows
  <2> QED
    BY <2>1
<1>2. ASSUME NEW ids \in DeletionRequests, DeleteDatasets(ids) PROVE StepKinds
  <2>1. DeletesRows
    BY <1>2, DeletionWithdraws DEF DeletesRows
  <2> QED
    BY <2>1
<1>3. ASSUME NEW a \in RequeueRequests, RequeueRemovedObject(a) PROVE StepKinds
  BY <1>3 DEF RequeueRemovedObject
<1>4. ASSUME NEW c \in Cleaners, NEW a \in Address, SelectPending(c, a) PROVE StepKinds
  BY <1>4 DEF SelectPending
<1>5. ASSUME NEW c \in Cleaners, NEW a \in Address, SelectOrphan(c, a) PROVE StepKinds
  BY <1>5 DEF SelectOrphan
<1>6. ASSUME NEW c \in Cleaners, SkipRemoval(c) PROVE StepKinds
  BY <1>6 DEF SkipRemoval
<1>7. ASSUME NEW c \in Cleaners, RetainShared(c) PROVE StepKinds
  BY <1>7 DEF RetainShared, StillDue, RemovalDue
<1>8. ASSUME NEW c \in Cleaners, BeginRemoval(c) PROVE StepKinds
  BY <1>8 DEF BeginRemoval
<1>9. ASSUME NEW c \in Cleaners, DeleteRemoved(c) PROVE StepKinds
  BY <1>9 DEF DeleteRemoved
<1>10. ASSUME NEW c \in Cleaners, AckRemoval(c) PROVE StepKinds
  BY <1>10 DEF AckRemoval, RemovalDue
<1>11. ASSUME NEW c \in Cleaners, SkipOrphan(c) PROVE StepKinds
  BY <1>11 DEF SkipOrphan
<1>12. ASSUME NEW c \in Cleaners, BeginOrphan(c) PROVE StepKinds
  BY <1>12 DEF BeginOrphan
<1>13. ASSUME NEW c \in Cleaners, HeadOrphan(c) PROVE StepKinds
  BY <1>13 DEF HeadOrphan
<1>14. ASSUME NEW c \in Cleaners, RetireObservation(c) PROVE StepKinds
  BY <1>14 DEF RetireObservation
<1>15. ASSUME NEW c \in Cleaners \cup Reporters, DeleteOrphan(c) PROVE StepKinds
  BY <1>15 DEF DeleteOrphan
<1>16. ASSUME NEW r \in Reporters, NEW a \in ReportAddresses, StageReport(r, a) PROVE StepKinds
  BY <1>16 DEF StageReport
<1>17. ASSUME NEW r \in Reporters, LeaveReport(r) PROVE StepKinds
  BY <1>17 DEF LeaveReport
<1>18. ASSUME NEW r \in Reporters, BeginDiscard(r) PROVE StepKinds
  BY <1>18 DEF BeginDiscard
<1>19. ASSUME NEW c \in Cleaners \cup Reporters, InterruptCleaner(c) PROVE StepKinds
  BY <1>19 DEF InterruptCleaner
<1> QED
  BY CleanupNext, <1>1, <1>2, <1>3, <1>4, <1>5, <1>6, <1>7, <1>8, <1>9, <1>10, <1>11,
     <1>12, <1>13, <1>14, <1>15, <1>16, <1>17, <1>18, <1>19
  DEF CleanupNext, GovernanceStep, CleanerStep, ReporterStep, Deleters

\* Bytes move, a row is published or rows are deleted in a step of time or the network.
LEMMA EnvironmentShaped == ASSUME TypeOK, BytesInv, LineageInv, Environment PROVE StepKinds
<1> USE SchemaAssumption, ProcessAssumption, PreloadAssumption
<1> USE DEF TypeOK, Tombstoned, StepKinds, MovesBytes
<1> USE DEF Items, Address, ModelAddresses, SourcePublishers, Publishers, Process, Deleters
<1> USE DEF Goto, Acquire, Release, SetRow, Marked, Requeued, Returned, Returns, Enroll,
           Select, Claim, Finish, Adopted, Withdraw, tables, inflight
<1>1. ASSUME NEW a \in Address, GraceElapses(a) PROVE StepKinds
  BY <1>1 DEF GraceElapses
<1>2. ASSUME NEW a \in Address, ObservationAges(a) PROVE StepKinds
  BY <1>2 DEF ObservationAges
<1>3. ASSUME NEW a \in latePut, LatePutLands(a) PROVE StepKinds
  BY <1>3 DEF LatePutLands
<1>4. ASSUME NEW a \in lateDelete, LateDeleteLands(a) PROVE StepKinds
  BY <1>4 DEF LateDeleteLands
<1> QED
  BY Environment, <1>1, <1>2, <1>3, <1>4
  DEF Environment

\* Every step is one of PublishedObjects or a stutter.
LEMMA PromisedStep ==
  ~LateDeletes /\ TypeOK /\ TypeOK' /\ LocksHeld /\ BytesInv /\ LineageInv /\ [Next]_vars
    => PromiseStep
<1> SUFFICES ASSUME ~LateDeletes, TypeOK, TypeOK', LocksHeld, BytesInv, LineageInv, [Next]_vars
             PROVE  PromiseStep
  OBVIOUS
<1>1. CASE UNCHANGED vars
  BY <1>1 DEF vars, PromiseStep, Promise!vars, Tombstoned
<1>2. CASE Next /\ ~UNCHANGED vars
  <2>1. MovesBytes \/ PublishesRow \/ DeletesRows
    BY <1>2, SourceShaped, ModelShaped, CleanupShaped, EnvironmentShaped
    DEF Next, StepKinds
  <2>2. Lawful
    BY <1>2, LawfulStep
  <2>3. Patient
    BY <1>2, PatientStep
  <2> QED
    BY <2>1, <2>2, <2>3, BytesPromised, PublicationPromised, DeletionPromised
<1> QED
  BY <1>1, <1>2

\* The feature store, with its locks, transactions, queue and sweeps, does what
\* PublishedObjects promises without them.
THEOREM PromiseKept == ASSUME ~LateDeletes PROVE Spec => KeepsPromise
<1>1. Init => Promise!Init
  BY DEF Init, TablesInit, Promise!Init, PreloadedFiles, Tombstoned
<1>2. TypeOK /\ TypeOK' /\ LocksHeld /\ BytesInv /\ LineageInv /\ [Next]_vars
        => [Promise!Next]_(Promise!vars)
  BY PromisedStep DEF PromiseStep
<1> QED
  BY <1>1, <1>2, FeatureStoreTyped, LocksHeldThroughout, BytesInvariant, LineageInvariant, PTL
  DEF Spec, KeepsPromise, Promise!Spec
=============================================================================
