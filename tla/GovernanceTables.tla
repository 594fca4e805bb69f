-------------------------- MODULE GovernanceTables --------------------------
(***************************************************************************)
(* The state that every writer of the feature store shares: the object     *)
(* store (services/pipeline/src/featureStore/objectStore.ts) and the fs138 *)
(* tables that govern it (packages/db/proposals/138, 165, 166 and 229).    *)
(*                                                                         *)
(* Object keys are content addresses, so an address stands for one value   *)
(* and holding bytes is being a member of "bytes".  A wait for             *)
(* pg_advisory_xact_lock is an action that is not enabled.  Instants are   *)
(* abstracted to what the SQL tells apart: whether remove_after has        *)
(* passed, and which of the orphan windows an observation has outlived.    *)
(***************************************************************************)

CONSTANTS
  Snapshots,        \* rows of source_snapshots, one per (profile_id, sha256)
  Datasets,         \* rows of dataset_manifests, one per sealed build
  Runs,             \* rows of model_runs, one per descriptor
  SourceAddresses,  \* raw/<sha256> and datasets/<sha256>
  DescriptorAddresses,  \* models/<sha256>
  ReportAddresses,  \* audits/<sha256>
  Files,            \* the addresses a row references
  Inputs            \* snapshots of a dataset, datasets of a run

CONSTANTS
  Ingesters,        \* callers of ingestSource
  Builders,         \* callers of buildDataset
  ModelPublishers,  \* callers of publishQbModelRun
  Cleaners,         \* callers of cleanupDeletedObjects and sweepOrphanObjects
  Reporters,        \* callers of completeQbReport
  Target,           \* the row a publisher tries to commit
  Jobs,             \* identities in job_runs
  JobOf,            \* the identity an ingester computes
  Free              \* the owner of an address nobody has locked

CONSTANTS
  DeletionRequests, \* the sets of ids an operator may ask to delete
  RequeueRequests,  \* the addresses an operator may re-queue
  Preloaded,        \* rows committed, with their bytes, before the run starts
  Faults,           \* may sessions be lost and processes die?
  LatePuts,         \* may a PUT land after its caller has given up?
  LateDeletes       \* may a DELETE land after its session is gone?

Items == Snapshots \cup Datasets \cup Runs
ModelAddresses == DescriptorAddresses \cup ReportAddresses
Address == SourceAddresses \cup ModelAddresses
SourcePublishers == Ingesters \cup Builders
Publishers == SourcePublishers \cup ModelPublishers
Process == Publishers \cup Cleaners \cup Reporters

\* The shape of the schema: which rows reference which addresses and rows.
ASSUME SchemaAssumption ==
  /\ Files \in [Items -> SUBSET Address]
  /\ Inputs \in [Items -> SUBSET Items]
  /\ \A x \in Items : Files[x] # {}
  /\ \A x \in Snapshots : Files[x] \subseteq SourceAddresses /\ Inputs[x] = {}
  /\ \A x \in Datasets : Files[x] \subseteq SourceAddresses /\ Inputs[x] \subseteq Snapshots
  /\ \A x \in Runs : Files[x] \subseteq ModelAddresses /\ Inputs[x] \subseteq Datasets
  /\ SourceAddresses \cap ModelAddresses = {}
  /\ Snapshots \cap Datasets = {} /\ Snapshots \cap Runs = {} /\ Datasets \cap Runs = {}

\* Who runs what.  A dataset row belongs to one build, so two builders never
\* have the same target; ingesters may share a snapshot and even a job.
ASSUME ProcessAssumption ==
  /\ Target \in [Publishers -> Items]
  /\ JobOf \in [Ingesters -> Jobs]
  /\ \A p \in Ingesters : Target[p] \in Snapshots
  /\ \A p \in Builders : Target[p] \in Datasets
  /\ \A p, q \in Builders : Target[p] = Target[q] => p = q
  /\ \A p \in ModelPublishers : Target[p] \in Runs
  /\ Ingesters \cap Builders = {} /\ SourcePublishers \cap ModelPublishers = {}
  /\ Publishers \cap (Cleaners \cup Reporters) = {} /\ Cleaners \cap Reporters = {}
  /\ Free \notin Process

\* A request names sources or datasets, never both; a preloaded row was
\* published from live inputs.
ASSUME PreloadAssumption ==
  /\ DeletionRequests \subseteq (SUBSET Snapshots) \cup (SUBSET Datasets)
  /\ RequeueRequests \subseteq Address
  /\ Preloaded \subseteq Items
  /\ \A x \in Preloaded : Inputs[x] \subseteq Preloaded
  /\ Faults \in BOOLEAN /\ LatePuts \in BOOLEAN /\ LateDeletes \in BOOLEAN

VARIABLES
  bytes,       \* the addresses the object store holds
  row,         \* absent, live, or withdrawn (deleted_at / invalidated_at set)
  outcome,     \* object_removals: no row, completed_at NULL, or its outcome
  elapsed,     \* has remove_after passed?
  observed,    \* orphan_observations: no row, or the windows it has outlived
  lock,        \* the session that holds pg_advisory_xact_lock(address, 138)
  job          \* job_runs.status by identity

VARIABLES
  pc,          \* the await a process is at
  todo,        \* the addresses left of the loop it is in
  at,          \* the address it is working on, if any (at most one)
  absent,      \* the addresses a model publisher's preflight found missing
  latePut,     \* PUTs in flight whose caller has given up
  lateDelete   \* DELETEs in flight whose session is gone

tables == <<row, outcome, elapsed, observed, job>>
inflight == <<latePut, lateDelete>>
vars == <<bytes, row, outcome, elapsed, observed, lock, job,
          pc, todo, at, absent, latePut, lateDelete>>

RowStates == {"absent", "live", "withdrawn"}
Outcomes == {"none", "pending", "removed", "shared-retained"}
Ages == {"none", "fresh", "aged", "retirable"}
JobStates == {"none", "running", "succeeded", "failed"}

IngestSteps == {"idle", "put", "lock", "head", "commit", "undo", "fail", "done"}
BuildSteps == {"idle", "put", "lock", "head", "commit", "undo"}
RunSteps == {"idle", "preflight", "upload", "reenroll", "verify"}
CleanSteps == {"idle", "cleaning", "removing", "acking",
               "sweeping", "heading", "deleting", "retiring"}
ReportSteps == {"idle", "staged", "deleting"}

Steps == IngestSteps \cup RunSteps \cup CleanSteps \cup ReportSteps

\* Every variable has a value its column or its program counter can hold.
\* TRUE of the tables by their CHECK constraints, of pc by the actions.
TypeOK ==
  /\ bytes \subseteq Address
  /\ row \in [Items -> RowStates]
  /\ outcome \in [Address -> Outcomes]
  /\ elapsed \in [Address -> BOOLEAN]
  /\ observed \in [Address -> Ages]
  /\ lock \in [Address -> Process \cup {Free}]
  /\ job \in [Jobs -> JobStates]
  /\ pc \in [Process -> Steps]
  /\ todo \in [Process -> SUBSET Address]
  /\ at \in [Process -> SUBSET Address]
  /\ absent \in [ModelPublishers -> SUBSET Address]
  /\ latePut \subseteq Address /\ lateDelete \subseteq Address
  /\ \A p \in Ingesters : pc[p] \in IngestSteps
  /\ \A p \in Builders : pc[p] \in BuildSteps
  /\ \A p \in ModelPublishers : pc[p] \in RunSteps
  /\ \A p \in Cleaners : pc[p] \in CleanSteps
  /\ \A p \in Reporters : pc[p] \in ReportSteps
-----------------------------------------------------------------------------
(* What the SQL reads, and the shapes of what it writes. *)

Live(x) == row[x] = "live"
Tombstoned(a) == outcome[a] # "none"
Enrolled(a) == observed[a] # "none"

\* Rows of any status, or only those that are neither deleted nor invalidated.
References(a) == {x \in Items : a \in Files[x] /\ row[x] # "absent"}
LiveReference(a) == \E x \in Items : a \in Files[x] /\ Live(x)

\* authorize and the guards: every pinned dataset and snapshot is still live.
InputsLive(x) == \A d \in Inputs[x] : Live(d) /\ \A s \in Inputs[d] : Live(s)

\* Pending, and remove_after has passed.
RemovalDue(a) == outcome[a] = "pending" /\ elapsed[a]

(* Address locks are transaction scoped: COMMIT, ROLLBACK and the loss of the *)
(* session release them all.                                                  *)
LockFree(A) == \A a \in A : lock[a] = Free
Acquire(p, A) == lock' = [a \in Address |-> IF a \in A THEN p ELSE lock[a]]
Release(p) == lock' = [a \in Address |-> IF lock[a] = p THEN Free ELSE lock[a]]

\* Publication transactions also hold FOR SHARE row locks on what they pin.
InTransaction(p) == pc[p] \in {"head", "commit", "verify"}
PinnedRows(p) ==
  IF InTransaction(p)
  THEN Inputs[Target[p]] \cup UNION {Inputs[d] : d \in Inputs[Target[p]]}
  ELSE {}
RowsUnpinned(X) == \A p \in Publishers : PinnedRows(p) \cap X = {}

Goto(p, step) == pc' = [pc EXCEPT ![p] = step]
SetRow(x, status) == row' = [row EXCEPT ![x] = status]

\* Change one column for a set of addresses.
Marked(column, A, value) == [a \in Address |-> IF a \in A THEN value ELSE column[a]]

\* requeue_removed_object: an existing tombstone becomes pending again, with
\* the remove_after it had; an address without a tombstone is left alone.
Requeued(A) == Marked(outcome, {a \in A : Tombstoned(a)}, "pending")
-----------------------------------------------------------------------------
PreloadedFiles == UNION {Files[x] : x \in Preloaded}

TablesInit ==
  /\ bytes = PreloadedFiles
  /\ row = [x \in Items |-> IF x \in Preloaded THEN "live" ELSE "absent"]
  /\ outcome = [a \in Address |-> "none"]
  /\ elapsed = [a \in Address |-> FALSE]
  /\ observed = [a \in Address |-> "none"]
  /\ lock = [a \in Address |-> Free]
  /\ job = [j \in Jobs |-> "none"]

ProcessInit ==
  /\ pc = [p \in Process |-> "idle"]
  /\ todo = [p \in Process |-> {}]
  /\ at = [p \in Process |-> {}]
  /\ absent = [p \in ModelPublishers |-> {}]
  /\ latePut = {} /\ lateDelete = {}
-----------------------------------------------------------------------------
(* Time and the network, which no process controls. *)

\* The clock passes remove_after.
GraceElapses(a) ==
  /\ Tombstoned(a) /\ ~elapsed[a]
  /\ elapsed' = [elapsed EXCEPT ![a] = TRUE]
  /\ UNCHANGED <<bytes, row, outcome, observed, lock, job, pc, todo, at, absent, inflight>>

\* An observation outlives the sweep's grace, then the retirement window.
ObservationAges(a) ==
  /\ observed[a] \in {"fresh", "aged"}
  /\ observed' = [observed EXCEPT ![a] = IF @ = "fresh" THEN "aged" ELSE "retirable"]
  /\ UNCHANGED <<bytes, row, outcome, elapsed, lock, job, pc, todo, at, absent, inflight>>

\* A PUT whose caller timed out or died reaches the store all the same.
LatePutLands(a) ==
  /\ a \in latePut
  /\ bytes' = bytes \cup {a}
  /\ latePut' = latePut \ {a}
  /\ UNCHANGED <<tables, lock, pc, todo, at, absent, lateDelete>>

\* A DELETE whose session lost its lock reaches the store all the same.
LateDeleteLands(a) ==
  /\ a \in lateDelete
  /\ bytes' = bytes \ {a}
  /\ lateDelete' = lateDelete \ {a}
  /\ UNCHANGED <<tables, lock, pc, todo, at, absent, latePut>>

Environment ==
  \/ \E a \in Address : GraceElapses(a)
  \/ \E a \in Address : ObservationAges(a)
  \/ \E a \in latePut : LatePutLands(a)
  \/ \E a \in lateDelete : LateDeleteLands(a)
=============================================================================
