---------------------------- MODULE FeatureStore ----------------------------
(***************************************************************************)
(* The feature store as a whole: ingestion, dataset builds and model       *)
(* publication running against deletion, the removal queue, the orphan     *)
(* sweep and the discard of refused reports, over one object store and one *)
(* set of governance tables.                                               *)
(***************************************************************************)
EXTENDS SourcePublication, ModelPublication, ArtifactCleanup

Init == TablesInit /\ ProcessInit

Next ==
  \/ SourceNext
  \/ ModelNext
  \/ CleanupNext
  \/ Environment

Spec == Init /\ [][Next]_vars
-----------------------------------------------------------------------------
(* Invariants. *)

\* A live snapshot, dataset or run has all its bytes.  It rests on the address
\* lock being held from HEAD to COMMIT by publishers and from recheck to COMMIT
\* by everything that deletes (ingest.ts:97, governance.ts:46).
LiveHaveBytes == \A x \in Items : Live(x) => Files[x] \subseteq bytes

\* Whatever a live row was derived from is live: deletion cannot slip past a
\* publication that has pinned its inputs (138 lock_active_snapshots, 166
\* invalidate_dataset_dependents).
LiveLineage == \A x \in Items : Live(x) => \A d \in Inputs[x] : Live(d)

\* A withdrawn row leaves a permanent tombstone on each of its addresses, so
\* that no cleanup, retry or re-queue makes the content publishable again.
WithdrawnLeaveTombstones ==
  \A x \in Items : row[x] = "withdrawn" => \A a \in Files[x] : Tombstoned(a)

\* Exactly one cleaner owns a model or report address: once it has a tombstone
\* no observation is left and none appears (166 and 229; the sweep defers to
\* the removal queue).
SingleOwner == \A a \in ModelAddresses : ~(Enrolled(a) /\ Tombstoned(a))

\* An observation never sits beside an artifact row, withdrawn or not.  So the
\* queue never finds an observation to adopt, and the revisit horizon that
\* adoption would record (229 adopt_removal_observation) stays NULL.
NoObservationBesideArtifact ==
  \A a \in ModelAddresses : Enrolled(a) => References(a) = {}

\* A job runs under one caller at most, and, as long as no session is lost,
\* exactly while that caller executes it (jobs.ts:10).
Executing(p) == pc[p] \notin {"idle", "done"}
JobHasOneExecutor ==
  \A j \in Jobs :
    LET executors == {p \in Ingesters : JobOf[p] = j /\ Executing(p)}
    IN /\ \A p, q \in executors : p = q
       /\ executors # {} => job[j] = "running"
       /\ job[j] = "running" /\ ~Faults => executors # {}

\* Raw and dataset bytes that a deletion brought under a tombstone never escape
\* the queue: while no call is lost, whoever put them back is still about to
\* re-queue the address (the catch blocks of ingest.ts:95 and datasets.ts:168).
SourceBytesOwned ==
  ~Faults =>
    \A a \in SourceAddresses \cap bytes :
      Tombstoned(a) /\ ~LiveReference(a) /\ outcome[a] # "pending"
        => \E p \in SourcePublishers :
             a \in Files[Target[p]] /\ pc[p] \in {"lock", "undo"}

\* The same for models and reports, when every caller has returned: what 166
\* says of cleanup, that it does not retain invalidated bytes forever.
ModelBytesOwned ==
  (\A p \in Process : pc[p] = "idle") =>
    \A a \in ModelAddresses \cap bytes :
      Tombstoned(a) /\ ~LiveReference(a) => outcome[a] = "pending"
-----------------------------------------------------------------------------
(* Action properties. *)

\* A row comes to life only once, and never over content that was deleted.
NoResurrection ==
  [][\A x \in Items : ~Live(x) /\ Live(x)' =>
       row[x] = "absent" /\ \A a \in Files[x] : ~Tombstoned(a)]_vars

\* Mandatory deletion does not outrun its grace, however often a deletion has
\* been repeated meanwhile, and the other cleaners keep off a tombstone.
GraceHonoured ==
  [][\A a \in bytes \ bytes' : Tombstoned(a) => RemovalDue(a)]_vars

-----------------------------------------------------------------------------
(* Refinement. *)

Promise == INSTANCE PublishedObjects WITH deleted <- {a \in Address : Tombstoned(a)}

\* The feature store does what PublishedObjects promises.
KeepsPromise == Promise!Spec
-----------------------------------------------------------------------------
(* Fairness: time passes; a call that was made goes on to its next await or  *)
(* throws; the operator calls both cleanups again and again, and a lock that *)
(* is free again and again is got in the end.                                *)

TimePasses ==
  \A a \in Address : WF_vars(GraceElapses(a)) /\ WF_vars(ObservationAges(a))

CallsReturn ==
  /\ \A p \in Ingesters : WF_vars(FailJob(p))
  /\ \A p \in SourcePublishers : SF_vars(RequeueSource(p))
  /\ \A p \in SourcePublishers : WF_vars(pc[p] # "idle" /\ SourceStep(p))
  /\ \A p \in ModelPublishers : WF_vars(pc[p] # "idle" /\ RunStep(p))

CleanupRepeats ==
  \A c \in Cleaners :
    /\ \A a \in Address : SF_vars(SelectPending(c, a)) /\ SF_vars(SelectOrphan(c, a))
    /\ SF_vars(SkipRemoval(c) \/ RetainShared(c) \/ BeginRemoval(c))
    /\ SF_vars(SkipOrphan(c) \/ BeginOrphan(c))
    /\ WF_vars(DeleteRemoved(c)) /\ WF_vars(AckRemoval(c))
    /\ WF_vars(HeadOrphan(c) \/ RetireObservation(c) \/ DeleteOrphan(c))

\* A deletion that is repeated for ever re-arms its grace for ever, and a
\* cleaner that loses its session at every lock never gets one.  (A loss that
\* looks like a page that was skipped is one.)
RequestsEnd == <>[][~GovernanceStep]_vars
FaultsEnd ==
  <>[][\A c \in Cleaners : InterruptCleaner(c) => CleanerStep(c)]_vars

FairSpec ==
  Spec /\ TimePasses /\ CallsReturn /\ CleanupRepeats /\ RequestsEnd /\ FaultsEnd

\* Bytes queued for mandatory deletion, and that no live row shares, are gone
\* in the end (governance.ts:46).
DeletedBytesReclaimed ==
  \A a \in Address :
    (outcome[a] = "pending" /\ ~LiveReference(a)) ~> (a \notin bytes)

\* Raw and dataset bytes of a publication that failed do not stay: they are
\* reclaimed, or a later publication references them (ingest.ts:97).
OrphansReclaimed ==
  \A a \in SourceAddresses :
    (a \in bytes /\ Unclaimed(a)) ~> (a \notin bytes \/ ~Unclaimed(a))
=============================================================================
