-------------------------- MODULE MigrationsProofs --------------------------
(***************************************************************************)
(* LedgerTrue, proved for any runners, any migrations and any number of    *)
(* changes by hand.                                                        *)
(*                                                                         *)
(* What a runner read of the ledger stays true until it commits, since all *)
(* that time it has the lock.  What it read of the schema does not; so the *)
(* promise about the schema is only made of one that nobody has touched    *)
(* since it was verified.                                                  *)
(***************************************************************************)
EXTENDS Migrations, SequenceTheorems, TLAPS

Provenances == {"executed", "adopted"}
Histories == Seq(Provenances)

\* What the proof needs to know of the constants: the migrations are numbered from one.
MigrationsNumbered ==
  /\ \E n \in Nat : Versions = 1..n
  /\ None \notin Runners \cup Histories

Steps == {"idle", "ready", "ledger", "catalog", "operations", "verified", "succeeded"}

\* Plans, and what was made, may be anything.
RunnerTyped(p) ==
  p \in [step : Steps, known : Versions, approval : BOOLEAN, approved : {p.approved},
         history : Histories \cup {None}, plan : {p.plan}, made : {p.made},
         rows : Histories, drifted : BOOLEAN]

Inside == {"ledger", "catalog", "operations", "verified"}

\* A runner p that has, or has not, the lock, beside a ledger l and a schema c.
RunnerSound(p, locks, l, c) ==
  /\ p.step \in Inside => locks
  /\ p.step \in Inside \ {"ledger"} => p.history = l
  /\ p.step \in {"operations", "verified"} =>
       /\ p.plan.operations \in Histories
       /\ p.approval => p.plan = p.approved /\ p.approved.history = p.history
  /\ p.step = "verified" =>
       /\ p.rows = p.plan.operations /\ Len(Recorded(p)) = p.known
       /\ ~p.drifted => c \cup p.made = Contract(p.known)
  /\ p.step = "succeeded" /\ p.approval =>
       p.rows = p.approved.operations /\ p.history = p.approved.history

\* A version is executed as often as the ledger says.
ExecutedAsRecorded(l, n) ==
  \A v \in Versions : n[v] = IF l # None /\ v \in DOMAIN l /\ l[v] = "executed" THEN 1 ELSE 0

\* The inductive invariant.
LedgerInv ==
  /\ ledger \in Histories \cup {None} /\ migrationLock \in Runners \cup {None}
  /\ runners = [r \in Runners |-> runners[r]]
  /\ ran \in [Versions -> Nat] /\ drifted \in BOOLEAN
  /\ \A r \in Runners : /\ RunnerTyped(runners[r])
                        /\ RunnerSound(runners[r], migrationLock = r, ledger, catalog)
  /\ ExecutedAsRecorded(ledger, ran)
  /\ (ledger # None /\ ~drifted) => catalog = Contract(Len(ledger))
-----------------------------------------------------------------------------
(* Plans are lists of what is to be done. *)

LEMMA ListOfProvenances ==
  ASSUME NEW k \in Int, NEW f \in [1..k -> Provenances]
  PROVE  f \in Histories
<1>1. CASE k \in Nat  BY <1>1 DEF Histories
<1>2. CASE k \notin Nat
  <2>1. 1..k = 1..0  BY <1>2
  <2>2. f \in [1..0 -> Provenances] /\ 0 \in Nat  BY <2>1
  <2>3. QED  BY <2>2 DEF Histories
<1>3. QED  BY <1>1, <1>2

LEMMA PlansAreLists ==
  ASSUME MigrationsNumbered, NEW known \in Versions, NEW history \in Histories \cup {None}, NEW found
  PROVE  /\ ComputedPlan(known, history, found).operations \in Histories
         /\ ComputedPlan(known, history, found).history = history
         /\ \A p : p.known = known /\ p.history = history =>
              ScratchPlan(p, found).operations \in Histories
<1>1. known \in Int  BY DEF MigrationsNumbered
<1>2. history # None => Len(history) \in Nat  BY DEF Histories
<1> DEFINE observed == Observed(known, history, found)
           schemaVersion == CHOOSE v \in observed : TRUE
           first == IF history = None THEN 1 ELSE schemaVersion + 1
           ops == [i \in 1..(known - first + 1) |->
                    IF first + i - 1 <= schemaVersion THEN "adopted" ELSE "executed"]
<1>3. observed \subseteq Int  BY <1>1, <1>2 DEF Observed
<1>4. ASSUME NEW v \in observed, observed = {v}  PROVE ops \in Histories
  <2>1. schemaVersion \in Int  BY <1>3, <1>4
  <2>2. known - first + 1 \in Int  BY <1>1, <2>1
  <2>3. ops \in [1..(known - first + 1) -> Provenances]  BY DEF Provenances
  <2> HIDE DEF ops
  <2>4. QED  BY <2>2, <2>3, ListOfProvenances
<1>5. <<>> \in Histories  BY DEF Histories
<1>6. ComputedPlan(known, history, found).operations \in Histories
  <2>1. CASE \E v \in observed : observed = {v}
    <3>1. ComputedPlan(known, history, found).operations = ops  BY <2>1 DEF ComputedPlan
    <3>2. QED  BY <1>4, <2>1, <3>1
  <2>2. CASE ~\E v \in observed : observed = {v}
    <3>1. ComputedPlan(known, history, found).operations = <<>>
      BY <2>2 DEF ComputedPlan, Unrecognized
    <3>2. QED  BY <1>5, <3>1
  <2>3. QED  BY <2>1, <2>2
<1>7. ComputedPlan(known, history, found).history = history  BY DEF ComputedPlan
<1>8. ASSUME NEW p, p.known = known, p.history = history
      PROVE  ScratchPlan(p, found).operations \in Histories
  <2> DEFINE applied == IF p.history = None THEN 0 ELSE Len(p.history)
             list == [i \in 1..(p.known - applied) |-> "executed"]
  <2>1. p.known - applied \in Int  BY <1>1, <1>2, <1>8
  <2>2. list \in [1..(p.known - applied) -> Provenances]  BY DEF Provenances
  <2>3. ScratchPlan(p, found).operations = list  BY DEF ScratchPlan
  <2> HIDE DEF list
  <2>4. QED  BY <2>1, <2>2, <2>3, ListOfProvenances
<1>9. QED  BY <1>6, <1>7, <1>8
-----------------------------------------------------------------------------
(* The actions. *)

\* A runner goes on and commits nothing.
LEMMA RunnerChanges ==
  ASSUME LedgerInv, NEW r \in Runners, NEW n, RunnerTyped(n),
         RunnerSound(n, migrationLock' = r, ledger, catalog),
         runners' = [runners EXCEPT ![r] = n], UNCHANGED <<catalog, ledger, ran, drifted>>,
         migrationLock' \in Runners \cup {None},
         \A q \in Runners \ {r} : (migrationLock' = q) = (migrationLock = q)
  PROVE  LedgerInv'
<1>1. runners' = [q \in Runners |-> IF q = r THEN n ELSE runners[q]]
  <2>1. runners = [q \in Runners |-> runners[q]]  BY DEF LedgerInv
  <2>2. [runners EXCEPT ![r] = n] = [q \in Runners |-> IF q = r THEN n ELSE runners[q]]  BY <2>1
  <2>3. QED  BY <2>2
<1>2. ASSUME NEW q \in Runners
      PROVE  RunnerTyped(runners'[q])
             /\ RunnerSound(runners'[q], migrationLock' = q, ledger, catalog)
  <2>1. CASE q = r  BY <1>1, <2>1
  <2>2. CASE q # r
    <3>1. runners'[q] = runners[q] /\ (migrationLock' = q) = (migrationLock = q)  BY <1>1, <2>2
    <3>2. RunnerTyped(runners[q]) /\ RunnerSound(runners[q], migrationLock = q, ledger, catalog)
      BY DEF LedgerInv
    <3>3. QED  BY <3>1, <3>2
  <2>3. QED  BY <2>1, <2>2
<1>3. runners' = [q \in Runners |-> runners'[q]]  BY <1>1
<1>4. QED  BY <1>2, <1>3 DEF LedgerInv, ExecutedAsRecorded

\* The actions that read, of the plan as it is approved and of the transaction.
LEMMA ReadingKeeps ==
  ASSUME MigrationsNumbered, LedgerInv, NEW r \in Runners,
         ReadMigrationPlan(r) \/ ReadLedger(r) \/ ReadCatalog(r)
  PROVE  LedgerInv'
<1> DEFINE p == runners[r]
<1>1. RunnerTyped(p) /\ RunnerSound(p, migrationLock = r, ledger, catalog)
      /\ ledger \in Histories \cup {None} /\ migrationLock \in Runners \cup {None}
      /\ p.known \in Versions /\ p.history \in Histories \cup {None}
  BY DEF LedgerInv, RunnerTyped
<1>2. runners = [q \in Runners |-> runners[q]]  BY DEF LedgerInv
<1>3. CASE ReadMigrationPlan(r)
  <2> DEFINE plan == ComputedPlan(p.known, ledger, catalog)
             n == [p EXCEPT !.approved = plan, !.step = "ready"]
  <2>1. /\ runners' = [runners EXCEPT ![r] = n]
        /\ UNCHANGED <<catalog, ledger, migrationLock, ran, drifted>>
    BY <1>2, <1>3 DEF ReadMigrationPlan
  <2> HIDE DEF plan
  <2>2. RunnerTyped(n) /\ n.step = "ready"  BY <1>1 DEF RunnerTyped, Steps
  <2>3. RunnerSound(n, migrationLock' = r, ledger, catalog)  BY <2>2 DEF RunnerSound, Inside
  <2> HIDE DEF n
  <2>4. QED  BY <1>1, <2>1, <2>2, <2>3, RunnerChanges
<1>4. CASE ReadLedger(r)
  <2> DEFINE n == [p EXCEPT !.step = "catalog", !.history = ledger]
  <2>1. /\ runners' = [runners EXCEPT ![r] = n] /\ p.step = "ledger"
        /\ UNCHANGED <<catalog, ledger, migrationLock, ran, drifted>>
    BY <1>2, <1>4 DEF ReadLedger
  <2>2. RunnerTyped(n) /\ n.step = "catalog" /\ n.history = ledger  BY <1>1 DEF RunnerTyped, Steps
  <2>3. migrationLock = r  BY <1>1, <2>1 DEF RunnerSound, Inside
  <2>4. RunnerSound(n, migrationLock' = r, ledger, catalog)
    BY <2>1, <2>2, <2>3 DEF RunnerSound, Inside
  <2> HIDE DEF n
  <2>5. QED  BY <1>1, <2>1, <2>2, <2>4, RunnerChanges
<1>5. CASE ReadCatalog(r)
  <2> DEFINE plan == IF p.approval THEN ComputedPlan(p.known, p.history, catalog)
                     ELSE ScratchPlan(p, catalog)
             n == [p EXCEPT !.step = "operations", !.plan = plan]
  <2>1. /\ runners' = [runners EXCEPT ![r] = n] /\ p.step = "catalog"
        /\ UNCHANGED <<catalog, ledger, migrationLock, ran, drifted>>
        /\ p.approval => plan = p.approved
    BY <1>2, <1>5 DEF ReadCatalog, AsApproved
  <2>2. plan.operations \in Histories /\ (p.approval => plan.history = p.history)
    BY <1>1, PlansAreLists
  <2> HIDE DEF plan
  <2>3. /\ RunnerTyped(n) /\ n.step = "operations" /\ n.plan = plan
        /\ n.history = p.history /\ n.approval = p.approval /\ n.approved = p.approved
    BY <1>1 DEF RunnerTyped, Steps
  <2>4. migrationLock = r /\ p.history = ledger  BY <1>1, <2>1 DEF RunnerSound, Inside
  <2>5. RunnerSound(n, migrationLock' = r, ledger, catalog)
    BY <2>1, <2>2, <2>3, <2>4 DEF RunnerSound, Inside
  <2> HIDE DEF n
  <2>6. QED  BY <1>1, <2>1, <2>3, <2>5, RunnerChanges
<1>6. QED  BY <1>3, <1>4, <1>5

\* The actions that begin, work and fail.
LEMMA WorkKeeps ==
  ASSUME MigrationsNumbered, LedgerInv, NEW r \in Runners,
         Begin(r) \/ Fail(r) \/ Operate(r) \/ Verify(r)
  PROVE  LedgerInv'
<1> DEFINE p == runners[r]
<1>1. RunnerTyped(p) /\ RunnerSound(p, migrationLock = r, ledger, catalog)
      /\ ledger \in Histories \cup {None} /\ migrationLock \in Runners \cup {None}
      /\ p.known \in Versions /\ p.history \in Histories \cup {None}
      /\ None \notin Runners
  BY DEF LedgerInv, RunnerTyped, MigrationsNumbered
<1>2. runners = [q \in Runners |-> runners[q]]  BY DEF LedgerInv
<1>3. <<>> \in Histories /\ None \in Histories \cup {None}  BY DEF Histories
<1>4. CASE Begin(r)
  <2> DEFINE n == [p EXCEPT !.step = "ledger", !.made = {}, !.rows = <<>>]
  <2>1. /\ runners' = [runners EXCEPT ![r] = n] /\ migrationLock = None /\ migrationLock' = r
        /\ UNCHANGED <<catalog, ledger, ran, drifted>>
    BY <1>2, <1>4 DEF Begin
  <2>2. RunnerTyped(n) /\ n.step = "ledger"  BY <1>1, <1>3 DEF RunnerTyped, Steps
  <2>3. RunnerSound(n, migrationLock' = r, ledger, catalog)
    BY <2>1, <2>2 DEF RunnerSound, Inside
  <2>4. \A q \in Runners \ {r} : (migrationLock' = q) = (migrationLock = q)  BY <1>1, <2>1
  <2> HIDE DEF n
  <2>5. QED  BY <1>1, <2>1, <2>2, <2>3, <2>4, RunnerChanges
<1>5. CASE Fail(r)
  <2> DEFINE n == [Runner(p.known, p.approval) EXCEPT !.step = "ready", !.approved = p.approved]
  <2>1. /\ runners' = [runners EXCEPT ![r] = n] /\ migrationLock = r /\ migrationLock' = None
        /\ UNCHANGED <<catalog, ledger, ran, drifted>>
    BY <1>2, <1>5 DEF Fail, Rollback
  <2>2. RunnerTyped(n) /\ n.step = "ready"  BY <1>1, <1>3 DEF RunnerTyped, Steps, Runner
  <2>3. RunnerSound(n, migrationLock' = r, ledger, catalog)  BY <2>2 DEF RunnerSound, Inside
  <2>4. \A q \in Runners \ {r} : (migrationLock' = q) = (migrationLock = q)  BY <1>1, <2>1
  <2> HIDE DEF n
  <2>5. QED  BY <1>1, <2>1, <2>2, <2>3, <2>4, RunnerChanges
<1>6. CASE Operate(r)
  <2> DEFINE version == Len(Recorded(p)) + 1
             provenance == p.plan.operations[Len(p.rows) + 1]
             made == IF provenance = "executed" THEN p.made \cup (Creates[version] \ catalog) ELSE p.made
             n == [p EXCEPT !.rows = Append(p.rows, provenance), !.made = made]
  <2>1. /\ runners' = [runners EXCEPT ![r] = n] /\ p.step = "operations"
        /\ Len(p.rows) < Len(p.plan.operations)
        /\ UNCHANGED <<catalog, ledger, migrationLock, ran, drifted>>
    BY <1>2, <1>6 DEF Operate
  <2>2. p.rows \in Histories /\ p.plan.operations \in Histories
    BY <1>1, <2>1 DEF RunnerTyped, RunnerSound
  <2>3. provenance \in Provenances  BY <2>1, <2>2 DEF Histories
  <2>4. Append(p.rows, provenance) \in Histories  BY <2>2, <2>3 DEF Histories
  <2> HIDE DEF provenance, made
  <2>5. /\ RunnerTyped(n) /\ n.step = "operations" /\ n.plan = p.plan
        /\ n.history = p.history /\ n.approval = p.approval /\ n.approved = p.approved
    BY <1>1, <2>1, <2>4 DEF RunnerTyped, Steps
  <2>6. RunnerSound(n, migrationLock' = r, ledger, catalog)
    BY <1>1, <2>1, <2>5 DEF RunnerSound, Inside
  <2> HIDE DEF n
  <2>7. QED  BY <1>1, <2>1, <2>5, <2>6, RunnerChanges
<1>7. CASE Verify(r)
  <2> DEFINE n == [p EXCEPT !.step = "verified", !.drifted = FALSE]
  <2>1. /\ runners' = [runners EXCEPT ![r] = n] /\ p.step = "operations"
        /\ p.rows = p.plan.operations /\ Len(Recorded(p)) = p.known
        /\ catalog \cup p.made = Contract(p.known)
        /\ UNCHANGED <<catalog, ledger, migrationLock, ran, drifted>>
    BY <1>2, <1>7 DEF Verify
  <2>2. /\ RunnerTyped(n) /\ n.step = "verified" /\ n.plan = p.plan /\ n.rows = p.rows
        /\ n.history = p.history /\ n.approval = p.approval /\ n.approved = p.approved
        /\ n.known = p.known /\ n.made = p.made
    BY <1>1 DEF RunnerTyped, Steps
  <2>3. Recorded(n) = Recorded(p)  BY <2>2 DEF Recorded
  <2> HIDE DEF n
  <2>4. RunnerSound(n, migrationLock' = r, ledger, catalog)
    BY <1>1, <2>1, <2>2, <2>3 DEF RunnerSound, Inside
  <2>5. QED  BY <1>1, <2>1, <2>2, <2>4, RunnerChanges
<1>8. QED  BY <1>4, <1>5, <1>6, <1>7

LEMMA DriftKeeps ==
  ASSUME LedgerInv, NEW o, Drift(o)  PROVE LedgerInv'
<1>1. /\ runners' = [r \in Runners |-> [runners[r] EXCEPT !.drifted = TRUE]]
      /\ drifted' /\ drifted' \in BOOLEAN /\ UNCHANGED <<ledger, migrationLock, ran>>
  BY DEF Drift
<1>2. ASSUME NEW r \in Runners
      PROVE  RunnerTyped(runners'[r])
             /\ RunnerSound(runners'[r], migrationLock = r, ledger, catalog')
  <2> DEFINE p == runners[r]
             n == [p EXCEPT !.drifted = TRUE]
  <2>1. runners'[r] = n  BY <1>1
  <2>2. RunnerTyped(p) /\ RunnerSound(p, migrationLock = r, ledger, catalog)  BY DEF LedgerInv
  <2>3. /\ RunnerTyped(n) /\ n.step = p.step /\ n.plan = p.plan /\ n.rows = p.rows
        /\ n.history = p.history /\ n.approval = p.approval /\ n.approved = p.approved
        /\ n.known = p.known /\ n.drifted
    BY <2>2 DEF RunnerTyped, Steps
  <2>4. Recorded(n) = Recorded(p)  BY <2>3 DEF Recorded
  <2> HIDE DEF n
  <2>5. RunnerSound(n, migrationLock = r, ledger, catalog')
    BY <2>2, <2>3, <2>4 DEF RunnerSound
  <2>6. QED  BY <2>1, <2>3, <2>5
<1>3. runners' = [r \in Runners |-> runners'[r]]  BY <1>1
<1>4. QED  BY <1>1, <1>2, <1>3 DEF LedgerInv, ExecutedAsRecorded

\* What a commit records of a history h and further rows.
LEMMA RecordedAsExecuted ==
  ASSUME MigrationsNumbered, NEW h \in Histories, NEW rows \in Histories,
         NEW before \in [Versions -> Nat], NEW after,
         \A v \in Versions :
           before[v] = IF v \in DOMAIN h /\ h[v] = "executed" THEN 1 ELSE 0,
         after = [v \in Versions |-> before[v] +
           IF v > Len(h) /\ v <= Len(h) + Len(rows) /\ rows[v - Len(h)] = "executed" THEN 1 ELSE 0]
  PROVE  ExecutedAsRecorded(h \o rows, after)
<1>1. /\ h \o rows \in Histories /\ Len(h \o rows) = Len(h) + Len(rows)
      /\ \A i \in 1 .. Len(h) + Len(rows) :
           (h \o rows)[i] = IF i <= Len(h) THEN h[i] ELSE rows[i - Len(h)]
  BY ConcatProperties DEF Histories
<1>2. h \o rows # None  BY <1>1 DEF MigrationsNumbered
<1>3. /\ Len(h) \in Nat /\ Len(rows) \in Nat /\ DOMAIN h = 1..Len(h)
      /\ DOMAIN (h \o rows) = 1 .. Len(h) + Len(rows)
  BY <1>1 DEF Histories
<1>4. ASSUME NEW v \in Versions
      PROVE  after[v] = IF v \in DOMAIN (h \o rows) /\ (h \o rows)[v] = "executed" THEN 1 ELSE 0
  <2>1. v \in Nat /\ v >= 1  BY DEF MigrationsNumbered
  <2>2. CASE v <= Len(h)  BY <1>1, <1>3, <2>1, <2>2
  <2>3. CASE v > Len(h) /\ v <= Len(h) + Len(rows)  BY <1>1, <1>3, <2>1, <2>3
  <2>4. CASE v > Len(h) + Len(rows)  BY SMTT(20), <1>1, <1>3, <2>1, <2>4
  <2>5. QED  BY <1>3, <2>1, <2>2, <2>3, <2>4
<1>5. QED  BY <1>2, <1>4 DEF ExecutedAsRecorded

LEMMA CommitKeeps ==
  ASSUME MigrationsNumbered, LedgerInv, NEW r \in Runners, NEW answered \in BOOLEAN,
         Commit(r, answered)
  PROVE  LedgerInv'
<1> DEFINE p == runners[r]
           h == IF p.history = None THEN <<>> ELSE p.history
           n == [p EXCEPT !.step = IF answered THEN "succeeded" ELSE "ready"]
<1>1. RunnerTyped(p) /\ RunnerSound(p, migrationLock = r, ledger, catalog) /\ p.step = "verified"
  BY DEF LedgerInv, Commit
<1>2. /\ migrationLock = r /\ p.history = ledger /\ p.rows = p.plan.operations
      /\ Len(Recorded(p)) = p.known /\ None \notin Histories \cup Runners
      /\ ~p.drifted => catalog \cup p.made = Contract(p.known)
  BY <1>1 DEF RunnerSound, Inside, MigrationsNumbered
<1>3. h \in Histories /\ p.rows \in Histories /\ p.drifted \in BOOLEAN
  BY <1>1 DEF RunnerTyped, Histories
<1>4. Recorded(p) = h \o p.rows  BY DEF Recorded
<1>5. Recorded(p) \in Histories /\ Len(Recorded(p)) = Len(h) + Len(p.rows)
      /\ Len(h) \in Nat /\ Len(p.rows) \in Nat
  BY <1>3, <1>4, ConcatProperties DEF Histories
<1>6. \A v \in Versions : ran[v] = IF v \in DOMAIN h /\ h[v] = "executed" THEN 1 ELSE 0
  <2>1. ExecutedAsRecorded(ledger, ran)  BY DEF LedgerInv
  <2>2. ledger = None => DOMAIN h = {}  BY <1>2
  <2>3. ledger # None => h = ledger  BY <1>2
  <2>4. QED  BY <2>1, <2>2, <2>3 DEF ExecutedAsRecorded
<1>7. /\ catalog' = catalog \cup p.made /\ ledger' = Recorded(p) /\ drifted' = p.drifted
      /\ migrationLock' = None
      /\ ran' = [v \in Versions |-> ran[v] +
           IF v > Len(h) /\ v <= Len(h) + Len(p.rows) /\ p.rows[v - Len(h)] = "executed"
           THEN 1 ELSE 0]
  <2>1. Len(Recorded(p)) - Len(p.rows) = Len(h)  BY <1>5
  <2>2. QED  BY <2>1 DEF Commit
<1>8. ExecutedAsRecorded(ledger', ran')
  <2>1. ran \in [Versions -> Nat]  BY DEF LedgerInv
  <2> HIDE DEF h
  <2>2. QED  BY <1>3, <1>4, <1>6, <1>7, <2>1, RecordedAsExecuted
<1>9. ran' \in [Versions -> Nat]
  <2>1. ran \in [Versions -> Nat]  BY DEF LedgerInv
  <2>2. \A v \in Versions : ran[v] \in Nat /\ ran[v] + 1 \in Nat /\ ran[v] + 0 \in Nat  BY <2>1
  <2> HIDE DEF h, p
  <2>3. QED  BY <1>7, <2>2
<1>10. runners' = [q \in Runners |-> IF q = r THEN n ELSE runners[q]]
  <2>1. runners = [q \in Runners |-> runners[q]]  BY DEF LedgerInv
  <2>2. [runners EXCEPT ![r] = n] = [q \in Runners |-> IF q = r THEN n ELSE runners[q]]  BY <2>1
  <2>3. runners' = [runners EXCEPT ![r] = n]  BY <2>1 DEF Commit
  <2>4. QED  BY <2>2, <2>3
<1>11. RunnerTyped(n) /\ RunnerSound(n, FALSE, ledger', catalog')
  <2>1. /\ RunnerTyped(n) /\ n.step \in {"succeeded", "ready"} /\ n.rows = p.rows
        /\ n.history = p.history /\ n.approval = p.approval /\ n.approved = p.approved
    BY <1>1 DEF RunnerTyped, Steps
  <2>2. p.approval => p.rows = p.approved.operations /\ p.history = p.approved.history
    BY <1>1 DEF RunnerSound
  <2> HIDE DEF n
  <2>3. QED  BY <2>1, <2>2 DEF RunnerSound, Inside
<1>12. ASSUME NEW q \in Runners
       PROVE  RunnerTyped(runners'[q]) /\ RunnerSound(runners'[q], migrationLock' = q, ledger', catalog')
  <2>1. (migrationLock' = q) = FALSE  BY <1>2, <1>7
  <2>2. CASE q = r  BY <1>10, <1>11, <2>1, <2>2
  <2>3. CASE q # r
    <3>1. runners'[q] = runners[q]  BY <1>10, <2>3
    <3>2. RunnerTyped(runners[q]) /\ RunnerSound(runners[q], migrationLock = q, ledger, catalog)
      BY DEF LedgerInv
    <3>3. runners[q].step \notin Inside  BY <1>2, <2>3, <3>2 DEF RunnerSound
    <3>4. RunnerSound(runners[q], FALSE, ledger', catalog')
      BY <3>2, <3>3 DEF RunnerSound, Inside
    <3>5. QED  BY <2>1, <3>1, <3>2, <3>4
  <2>4. QED  BY <2>2, <2>3
<1>13. ~drifted' => catalog' = Contract(Len(ledger'))  BY <1>2, <1>7
<1>14. runners' = [q \in Runners |-> runners'[q]]  BY <1>10
<1>15. QED  BY <1>3, <1>5, <1>7, <1>8, <1>9, <1>12, <1>13, <1>14 DEF LedgerInv
-----------------------------------------------------------------------------
(* LedgerTrue *)

LEMMA LedgerInvInit ==
  ASSUME MigrationsNumbered, GInit  PROVE LedgerInv
<1>1. PICK known \in [Runners -> Versions], approval \in [Runners -> BOOLEAN] :
        runners = [r \in Runners |-> Runner(known[r], approval[r])]
  BY DEF GInit
<1>2. ASSUME NEW r \in Runners
      PROVE  RunnerTyped(runners[r]) /\ RunnerSound(runners[r], migrationLock = r, ledger, catalog)
  <2>1. runners[r] = Runner(known[r], approval[r]) /\ known[r] \in Versions /\ approval[r] \in BOOLEAN
    BY <1>1
  <2>2. RunnerTyped(runners[r])  BY <2>1 DEF RunnerTyped, Steps, Runner, Histories
  <2>3. runners[r].step \in {"idle", "ready"}  BY <2>1 DEF Runner
  <2>4. QED  BY <2>2, <2>3 DEF RunnerSound, Inside
<1>3. runners = [r \in Runners |-> runners[r]]  BY <1>1
<1>4. QED  BY <1>2, <1>3 DEF GInit, LedgerInv, ExecutedAsRecorded

LEMMA LedgerInvStep ==
  ASSUME MigrationsNumbered, LedgerInv, [GNext]_migrationVars  PROVE LedgerInv'
<1>1. CASE UNCHANGED migrationVars
  BY <1>1 DEF migrationVars, LedgerInv, ExecutedAsRecorded
<1>2. ASSUME NEW o, Drift(o) PROVE LedgerInv'  BY <1>2, DriftKeeps
<1>3. ASSUME NEW r \in Runners, ReadMigrationPlan(r) \/ ReadLedger(r) \/ ReadCatalog(r)
      PROVE  LedgerInv'
  BY <1>3, ReadingKeeps
<1>4. ASSUME NEW r \in Runners, Begin(r) \/ Fail(r) \/ Operate(r) \/ Verify(r)
      PROVE  LedgerInv'
  BY <1>4, WorkKeeps
<1>5. ASSUME NEW r \in Runners, NEW answered \in BOOLEAN, Commit(r, answered)
      PROVE  LedgerInv'
  BY <1>5, CommitKeeps
<1>6. QED  BY <1>1, <1>2, <1>3, <1>4, <1>5 DEF GNext

\* Recorded as executed is executed once, an untouched schema is as its last version promises,
\* and success is what was approved, for any migrations (core.mjs, plans.mjs).
THEOREM LedgerNeverLies ==
  ASSUME MigrationsNumbered  PROVE GSpec => []LedgerTrue
<1>1. GInit => LedgerInv  BY LedgerInvInit
<1>2. LedgerInv /\ [GNext]_migrationVars => LedgerInv'  BY LedgerInvStep
<1>3. LedgerInv => LedgerTrue  BY DEF LedgerInv, LedgerTrue, ExecutedAsRecorded, RunnerSound
<1>4. QED  BY <1>1, <1>2, <1>3, PTL DEF GSpec
=============================================================================
