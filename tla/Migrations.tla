----------------------------- MODULE Migrations -----------------------------
(***************************************************************************)
(* The database migration runner (packages/db/tooling): plans read from a  *)
(* snapshot, approved by their fingerprint and applied in one transaction  *)
(* under an advisory lock, beside the bootstrap that needs no approval.    *)
(* The schema may also be changed by hand at any time; only what reads of  *)
(* the same statement see together is one step.                            *)
(***************************************************************************)
EXTENDS Integers, Sequences

CONSTANTS
  None,
  Runners,
  Creates,      \* [1..n -> the objects each migration creates]
  IfNotExists,  \* the migrations that create only what is not there
  Extras,       \* objects of no migration
  MaxDrifts     \* bound: changes made by hand

VARIABLES
  catalog,      \* the objects of the schema, the ledger's own left out
  ledger,       \* None, or the provenance of versions 1, 2, ...
  migrationLock,
  runners,      \* [Runners -> a runner and its transaction]
  ran,          \* [versions -> how often a committed transaction executed it]
  drifts,
  drifted       \* whether the schema was changed by hand since it was last verified

migrationVars == <<catalog, ledger, migrationLock, runners, ran, drifts, drifted>>

Versions == DOMAIN Creates
Contract(v) == UNION {Creates[w] : w \in 1..v}

\* known: the migrations of the checkout; made, rows: what its transaction has done.
Runner(known, approval) ==
  [step |-> IF approval THEN "idle" ELSE "ready", known |-> known, approval |-> approval,
   approved |-> None, history |-> None, plan |-> None, made |-> {}, rows |-> <<>>, drifted |-> FALSE]

Unrecognized == [operations |-> <<>>, executable |-> FALSE]

\* computeMigrationPlan: a recorded schema has to be as its contract says, an unrecorded one
\* as exactly one contract says, or empty.
Observed(known, history, found) ==
  IF history # None
    THEN {v \in {Len(history)} : Contract(v) = found}
    ELSE IF found = {} THEN {0} ELSE {v \in 1..known : Contract(v) = found}

ComputedPlan(known, history, found) ==
  LET observed == Observed(known, history, found)
      schemaVersion == CHOOSE v \in observed : TRUE
      first == IF history = None THEN 1 ELSE schemaVersion + 1
      plan == IF \E v \in observed : observed = {v}
                THEN [operations |-> [i \in 1..(known - first + 1) |->
                        IF first + i - 1 <= schemaVersion THEN "adopted" ELSE "executed"],
                      executable |-> TRUE]
                ELSE Unrecognized
  IN [known |-> known, history |-> history, found |-> found,
      operations |-> plan.operations, executable |-> plan.executable]

\* readLedger refuses a history longer than the migrations of the checkout.
HistoryValid(known) == ledger # None => Len(ledger) <= known

\* The plan is read from one snapshot and approved as it is.
ReadMigrationPlan(r) ==
  LET p == runners[r]
  IN /\ p.step = "idle" \/ (p.approval /\ p.step = "ready")
     /\ HistoryValid(p.known)
     /\ runners' = [runners EXCEPT ![r].approved = ComputedPlan(p.known, ledger, catalog),
                                   ![r].step = "ready"]
     /\ UNCHANGED <<catalog, ledger, migrationLock, ran, drifts, drifted>>

\* BEGIN and the lock; a busy lock is refused at once.
Begin(r) ==
  /\ runners[r].step \in {"ready", "succeeded"} /\ migrationLock = None
  /\ migrationLock' = r
  /\ runners' = [runners EXCEPT ![r].step = "ledger", ![r].made = {}, ![r].rows = <<>>]
  /\ UNCHANGED <<catalog, ledger, ran, drifts, drifted>>

\* A refusal or failure rolls the transaction back and frees the lock.
Rollback(r) ==
  /\ runners' = [runners EXCEPT ![r] = [Runner(@.known, @.approval) EXCEPT !.step = "ready",
                                                                           !.approved = runners[r].approved]]
  /\ migrationLock' = None
  /\ UNCHANGED <<catalog, ledger, ran, drifts, drifted>>

Fail(r) == migrationLock = r /\ Rollback(r)

ReadLedger(r) ==
  /\ runners[r].step = "ledger" /\ HistoryValid(runners[r].known)
  /\ runners' = [runners EXCEPT ![r].step = "catalog", ![r].history = ledger]
  /\ UNCHANGED <<catalog, ledger, migrationLock, ran, drifts, drifted>>

\* The recomputed plan has to be the approved one;
\* a version that only asks for an executable plan.
AnyExecutable(p, plan) == plan.executable
AsApproved(p, plan) == plan = p.approved /\ plan.executable

\* The bootstrap executes what the ledger lacks, in an empty schema if there is no ledger.
ScratchPlan(p, found) ==
  LET applied == IF p.history = None THEN 0 ELSE Len(p.history)
  IN [operations |-> [i \in 1..(p.known - applied) |-> "executed"],
      executable |-> p.history # None \/ found = {}]

ReadCatalog(r) ==
  LET p == runners[r]
      plan == IF p.approval THEN ComputedPlan(p.known, p.history, catalog) ELSE ScratchPlan(p, catalog)
  IN /\ p.step = "catalog"
     /\ IF p.approval THEN AsApproved(p, plan) ELSE plan.executable
     /\ runners' = [runners EXCEPT ![r].step = "operations", ![r].plan = plan]
     /\ UNCHANGED <<catalog, ledger, migrationLock, ran, drifts, drifted>>

Recorded(p) == (IF p.history = None THEN <<>> ELSE p.history) \o p.rows

\* One operation: a version is executed or only recorded.  CREATE fails where its object is
\* there, CREATE IF NOT EXISTS leaves it as it is.
Operate(r) ==
  LET p == runners[r]
      version == Len(Recorded(p)) + 1
      provenance == p.plan.operations[Len(p.rows) + 1]
  IN /\ p.step = "operations" /\ Len(p.rows) < Len(p.plan.operations)
     /\ provenance = "executed" =>
          version \in IfNotExists \/ Creates[version] \cap (catalog \cup p.made) = {}
     /\ runners' = [runners EXCEPT ![r].rows = Append(@, provenance),
                      ![r].made = IF provenance = "executed" THEN @ \cup (Creates[version] \ catalog) ELSE @]
     /\ UNCHANGED <<catalog, ledger, migrationLock, ran, drifts, drifted>>

\* The schema has to be what the last contract says, the ledger complete and as planned.
Verify(r) ==
  LET p == runners[r]
  IN /\ p.step = "operations" /\ Len(p.rows) = Len(p.plan.operations)
     /\ catalog \cup p.made = Contract(p.known) /\ Len(Recorded(p)) = p.known
     /\ p.rows = p.plan.operations
     /\ runners' = [runners EXCEPT ![r].step = "verified", ![r].drifted = FALSE]
     /\ UNCHANGED <<catalog, ledger, migrationLock, ran, drifts, drifted>>

\* COMMIT, whose answer may be lost: the runner then knows of no success.
Commit(r, answered) ==
  LET p == runners[r]
      applied == Len(Recorded(p)) - Len(p.rows)
  IN /\ p.step = "verified"
     /\ catalog' = catalog \cup p.made
     /\ ledger' = Recorded(p)
     /\ ran' = [v \in Versions |-> ran[v] +
          IF v > applied /\ v <= applied + Len(p.rows) /\ p.rows[v - applied] = "executed" THEN 1 ELSE 0]
     /\ drifted' = p.drifted
     /\ migrationLock' = None
     /\ runners' = [runners EXCEPT ![r].step = IF answered THEN "succeeded" ELSE "ready"]
     /\ UNCHANGED drifts

\* Somebody adds or drops an object by hand; what a transaction has made is not theirs yet.
Drift(o) ==
  /\ drifts < MaxDrifts /\ \A r \in Runners : migrationLock = r => o \notin runners[r].made
  /\ catalog' = IF o \in catalog THEN catalog \ {o} ELSE catalog \cup {o}
  /\ drifts' = drifts + 1 /\ drifted' = TRUE
  /\ runners' = [r \in Runners |-> [runners[r] EXCEPT !.drifted = TRUE]]
  /\ UNCHANGED <<ledger, migrationLock, ran>>

\* An empty database, or one whose first versions were applied before there was a ledger.
GInit ==
  /\ catalog \in {{}, Contract(1)} /\ ledger = None /\ migrationLock = None
  /\ \E known \in [Runners -> Versions], approval \in [Runners -> BOOLEAN] :
       runners = [r \in Runners |-> Runner(known[r], approval[r])]
  /\ ran = [v \in Versions |-> 0] /\ drifts = 0 /\ drifted = FALSE

GNext ==
  \/ \E o \in UNION {Creates[v] : v \in Versions} \cup Extras : Drift(o)
  \/ \E r \in Runners :
       \/ ReadMigrationPlan(r) \/ Begin(r) \/ Fail(r) \/ ReadLedger(r) \/ ReadCatalog(r)
       \/ Operate(r) \/ Verify(r)
       \/ \E answered \in BOOLEAN : Commit(r, answered)

GSpec == GInit /\ [][GNext]_migrationVars

\* The ledger never lies, however runs, their repetition, lost answers and changes by hand
\* fall together (core.mjs, plans.mjs): a version recorded as executed was executed once, any
\* other never; a schema nobody has touched since it was verified is the one its last version
\* promises; and an approved run that succeeds has done what its owner approved, no more.
LedgerTrue ==
  /\ \A v \in Versions :
       ran[v] = IF ledger # None /\ v \in DOMAIN ledger /\ ledger[v] = "executed" THEN 1 ELSE 0
  /\ (ledger # None /\ ~drifted) => catalog = Contract(Len(ledger))
  /\ \A r \in Runners :
       (runners[r].step = "succeeded" /\ runners[r].approval) =>
         /\ runners[r].rows = runners[r].approved.operations
         /\ runners[r].history = runners[r].approved.history
=============================================================================
