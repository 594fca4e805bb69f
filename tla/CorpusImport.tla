---------------------------- MODULE CorpusImport ----------------------------
(***************************************************************************)
(* The owner's import of the creator corpus into its local database        *)
(* (importPlanner.ts, importPublisher.ts, the import command of cli.ts)    *)
(* and the expiry of the API rows there (apiExpiry.ts).  Imports overlap:  *)
(* each reads the private files one after the other, outside their locks,  *)
(* and then plans and publishes in one serializable transaction.           *)
(*                                                                         *)
(* Events are numbers, and a fingerprint is the content it is taken of.    *)
(* All rows of a discovery file are fetched at its time, so the snapshot   *)
(* of a creator is that time.  One gate and one registration, which agree. *)
(***************************************************************************)
EXTENDS Integers, Sequences, FiniteSets, SequencesExt

CONSTANTS
  Importers, Creators, None,
  MaxAge,      \* API_DATA_MAX_AGE_DAYS
  MaxEvents,   \* bound: events that are ever written to the private files
  MaxDecisionEvents,   \* bound: decisions among them
  MaxDay       \* bound: the days stop here

VARIABLES
  day,
  captureLog, decisionLog,   \* the owner's files, of one creator
  discovered,                \* when the discovery file was fetched
  written,                   \* how many events were ever written
  stored,                    \* the committed tables of the corpus database
  dbLock,                    \* the importer in the advisory lock
  importer                   \* the await an importer is at, and its locals

ivars == <<day, captureLog, decisionLog, discovered, written, stored, dbLock, importer>>

Resting == [at |-> "resting", captures |-> <<>>, decisions |-> <<>>, fetched |-> 0,
            now |-> 0, tables |-> None, next |-> None]

IInit ==
  /\ day = 0 /\ captureLog = <<>> /\ decisionLog = <<>> /\ discovered = 0 /\ written = 0
  /\ stored = [captures |-> <<>>, decisions |-> <<>>, gate |-> FALSE,
               api |-> [c \in Creators |-> None], imports |-> <<>>]
  /\ dbLock = None
  /\ importer = [i \in Importers |-> Resting]

\* isApiDataStale
StaleAt(fetched, now) == now - fetched > MaxAge

Goto(i, at) == importer' = [importer EXCEPT ![i].at = at]
Finish(i) == importer' = [importer EXCEPT ![i] = Resting]
-----------------------------------------------------------------------------
(* The owner. *)

\* The stores only append; a hand-edited or restored file is shorter.
SaveCapture ==
  /\ written < MaxEvents
  /\ written' = written + 1
  /\ captureLog' = Append(captureLog, written')
  /\ UNCHANGED <<day, decisionLog, discovered, stored, dbLock, importer>>

SaveDecision ==
  /\ written < MaxEvents /\ Len(decisionLog) < MaxDecisionEvents
  /\ written' = written + 1
  /\ decisionLog' = Append(decisionLog, written')
  /\ UNCHANGED <<day, captureLog, discovered, stored, dbLock, importer>>

RestoreCaptures ==
  /\ captureLog # <<>>
  /\ captureLog' = Front(captureLog)
  /\ UNCHANGED <<day, decisionLog, discovered, written, stored, dbLock, importer>>

Discover ==
  /\ discovered # day
  /\ discovered' = day
  /\ UNCHANGED <<day, captureLog, decisionLog, written, stored, dbLock, importer>>

NextDay ==
  /\ day < MaxDay
  /\ day' = day + 1
  /\ UNCHANGED <<captureLog, decisionLog, discovered, written, stored, dbLock, importer>>
-----------------------------------------------------------------------------
(* The plan. *)

\* Variant with a fault: only the lengths are compared.
ContinuesByLength(prior, next) == Len(prior) <= Len(next)

\* historyTail: neither truncated nor changed.
Continues(prior, next) == IsPrefix(prior, next)

Audit(source) == [captures |-> source.captures, decisions |-> source.decisions,
                  fetched |-> source.fetched]

\* captureProjections, decisionProjections, apiProjections: the rows of a source.
Rows(source) == [captures |-> source.captures, decisions |-> source.decisions,
                 api |-> [c \in Creators |-> source.fetched]]

\* matchingImports, by all fingerprints.
Matches(source, tables) == Contains(tables.imports, Audit(source))

\* The rows of an import that was published before are all still as they were.
Projected(source, tables) ==
  /\ tables.gate
  /\ Rows(source) = [captures |-> tables.captures, decisions |-> tables.decisions,
                     api |-> tables.api]

\* planCorpusImport
Plan(source, tables) ==
  IF ~ \/ StaleAt(source.fetched, source.now)
       \/ ~Continues(tables.captures, source.captures)
       \/ ~Continues(tables.decisions, source.decisions)
       \/ Matches(source, tables) /\ ~Projected(source, tables)
  THEN IF Matches(source, tables) THEN "no-op" ELSE "append"
  ELSE "refuse"

\* publishAppend: the audit, the gate, the tails and the snapshots that changed.
Published(source, tables) ==
  LET rows == Rows(source)
  IN [captures |-> rows.captures, decisions |-> rows.decisions, gate |-> TRUE,
      api |-> rows.api, imports |-> Append(tables.imports, Audit(source))]
-----------------------------------------------------------------------------
(* publishCorpusImport. *)

\* The connected target is refused, or the callback may open the private files.
LoadCaptures(i) ==
  /\ importer[i].at = "resting"
  /\ importer' = [importer EXCEPT ![i].at = "decisions", ![i].captures = captureLog]
  /\ UNCHANGED <<day, captureLog, decisionLog, discovered, written, stored, dbLock>>

LoadDecisions(i) ==
  /\ importer[i].at = "decisions"
  /\ importer' = [importer EXCEPT ![i].at = "discovery", ![i].decisions = decisionLog]
  /\ UNCHANGED <<day, captureLog, decisionLog, discovered, written, stored, dbLock>>

LoadDiscovery(i) ==
  /\ importer[i].at = "discovery"
  /\ importer' = [importer EXCEPT ![i].at = "begin", ![i].fetched = discovered,
                                  ![i].now = day]
  /\ UNCHANGED <<day, captureLog, decisionLog, discovered, written, stored, dbLock>>

\* The snapshot of the transaction is taken when its first query starts, which is
\* the one that tries the lock, so before it has the lock.
Snapshot(i) ==
  /\ importer[i].at \in {"begin", "expire"}
  /\ importer' = [importer EXCEPT ![i].tables = stored,
                    ![i].at = IF @ = "begin" THEN "lock import" ELSE "lock expiry"]
  /\ UNCHANGED <<day, captureLog, decisionLog, discovered, written, stored, dbLock>>

\* lock-busy, or on with the work.
TryLock(i) ==
  /\ importer[i].at \in {"lock import", "lock expiry"}
  /\ IF dbLock = None
     THEN /\ dbLock' = i
          /\ Goto(i, IF importer[i].at = "lock import" THEN "plan" ELSE "delete")
     ELSE Finish(i) /\ UNCHANGED dbLock
  /\ UNCHANGED <<day, captureLog, decisionLog, discovered, written, stored>>

PlanImport(i) ==
  /\ importer[i].at = "plan"
  /\ LET l == importer[i] IN
     IF Plan(l, l.tables) = "append"
     THEN /\ importer' = [importer EXCEPT ![i] = [Resting EXCEPT !.at = "commit",
                            !.tables = l.tables, !.next = Published(l, l.tables)]]
          /\ UNCHANGED dbLock
     ELSE Finish(i) /\ dbLock' = None
  /\ UNCHANGED <<day, captureLog, decisionLog, discovered, written, stored>>

\* expireCorpusApiEvidence: a creator's snapshot goes as a whole.
DeleteExpired(i) ==
  /\ importer[i].at = "delete"
  /\ LET l == importer[i]
         expired(t) == t # None /\ t < day - MaxAge
     IN importer' = [importer EXCEPT ![i].at = "commit",
          ![i].next = [l.tables EXCEPT !.api = [c \in Creators |->
                         IF expired(@[c]) THEN None ELSE @[c]]]]
  /\ UNCHANGED <<day, captureLog, decisionLog, discovered, written, stored, dbLock>>

BeginExpiry(i) ==
  /\ importer[i].at = "resting"
  /\ Goto(i, "expire")
  /\ UNCHANGED <<day, captureLog, decisionLog, discovered, written, stored, dbLock>>

\* Variant with a fault: READ COMMITTED instead of SERIALIZABLE.
CommitsAlways(i) == TRUE

\* Serializable: both transactions read every table, so what was committed since
\* the snapshot makes the later one fail.
Commits(i) == stored = importer[i].tables

Commit(i) ==
  /\ importer[i].at = "commit"
  /\ stored' = IF Commits(i) THEN importer[i].next ELSE stored
  /\ dbLock' = None
  /\ Finish(i)
  /\ UNCHANGED <<day, captureLog, decisionLog, discovered, written>>

\* A file is refused, a query fails, the connection is lost or the process ends:
\* the transaction is rolled back.
Abort(i) ==
  /\ importer[i].at # "resting"
  /\ dbLock' = IF dbLock = i THEN None ELSE dbLock
  /\ Finish(i)
  /\ UNCHANGED <<day, captureLog, decisionLog, discovered, written, stored>>

INext ==
  \/ SaveCapture \/ SaveDecision \/ RestoreCaptures \/ Discover \/ NextDay
  \/ \E i \in Importers :
       \/ LoadCaptures(i) \/ LoadDecisions(i) \/ LoadDiscovery(i)
       \/ BeginExpiry(i) \/ Snapshot(i) \/ TryLock(i) \/ PlanImport(i)
       \/ DeleteExpired(i) \/ Commit(i) \/ Abort(i)

ISpec == IInit /\ [][INext]_ivars
-----------------------------------------------------------------------------
\* Every import in the audit is there once, and still tells the truth: the history
\* in the database begins with exactly the files that import was made of, whatever
\* was restored, imported at the same time or repeated since.
ImportsTrue ==
  \A m, n \in DOMAIN stored.imports :
    /\ IsPrefix(stored.imports[m].captures, stored.captures)
    /\ IsPrefix(stored.imports[m].decisions, stored.decisions)
    /\ m # n => stored.imports[m] # stored.imports[n]

\* What was committed is never lost to an import that was planned before it:
\* histories only get longer, and so does the audit.
NothingOverwritten ==
  [][stored' # stored =>
       /\ IsPrefix(stored.captures, stored'.captures)
       /\ IsPrefix(stored.decisions, stored'.decisions)
       /\ IsPrefix(stored.imports, stored'.imports)]_ivars
=============================================================================
