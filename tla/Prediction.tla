----------------------------- MODULE Prediction -----------------------------
(***************************************************************************)
(* A prediction for one player and game (predict.ts) under its owner       *)
(* (predictionOwner.ts), which borrows a connection from a pool or opens   *)
(* one.  Both layers have a timer for the same deadline and listen for the *)
(* caller's abort; either may give up while a statement runs or a file is  *)
(* read, and what was abandoned goes on by itself.                         *)
(***************************************************************************)
EXTENDS Integers

CONSTANTS
  None,
  Reads,        \* bound: predictions asked for
  Connections   \* bound: connections ever opened

VARIABLES
  holders,      \* [Connections -> "new", "idle", "closed", or the read that holds it]
  running,      \* [Connections -> the read whose statement the server runs on it, or None]
  reads,        \* [Reads -> a prediction and its owner]
  rights        \* whether the model's lineage may still be read

readVars == <<holders, running, reads, rights>>

\* task: what the reading awaits, which nobody may be waiting for any more; inner: whether
\* predictQbModel has returned; answer: what its owner has.
Unread == [task |-> "idle", pooled |-> FALSE, connection |-> None, late |-> FALSE, aborted |-> FALSE,
           inFlightSql |-> FALSE, interrupted |-> FALSE, disposition |-> "reusable", inner |-> "none",
           disposed |-> FALSE, answer |-> None, delivery |-> FALSE]

Ask(r, pooled) ==
  /\ reads[r].task = "idle"
  /\ reads' = [reads EXCEPT ![r].task = "connecting", ![r].pooled = pooled]
  /\ UNCHANGED <<holders, running, rights>>

\* remaining: the latch, the abort or the deadline stop the reading.
Stopped(p) == p.interrupted \/ p.aborted \/ p.late

\* interrupt: a statement in flight spoils the connection;
\* a version that only latches.
InterruptedClean(p) == [p EXCEPT !.interrupted = TRUE]
Interrupted(p) ==
  IF p.interrupted THEN p
  ELSE [p EXCEPT !.interrupted = TRUE, !.disposition = IF p.inFlightSql THEN "discard" ELSE @]

\* dispose, once: a pooled connection is given back for reuse unless it is to be discarded.
Disposed(p, discard) ==
  IF p.disposed \/ p.connection = None THEN holders
  ELSE [holders EXCEPT ![p.connection] = IF p.pooled /\ ~discard THEN "idle" ELSE "closed"]

\* predictQbModel returns, its owner disposes of the connection and looks at the clock again.
Return(r, p, answer) ==
  /\ holders' = Disposed(p, p.disposition = "discard")
  /\ reads' = [reads EXCEPT ![r] =
       [p EXCEPT !.inner = "returned", !.disposed = TRUE,
                 !.answer = IF @ # None THEN @ ELSE IF p.aborted \/ p.late THEN "unavailable" ELSE answer]]

\* An abandoned task ends without effect; a refusal is returned to who still waits.
Refuse(r, p) ==
  IF p.inner = "racing" THEN Return(r, p, "unavailable")
  ELSE reads' = [reads EXCEPT ![r] = p] /\ UNCHANGED holders

\* The bounded client sends a statement.
Query(r, p, next) ==
  /\ reads' = [reads EXCEPT ![r] = [p EXCEPT !.task = next, !.inFlightSql = TRUE]]
  /\ running' = [running EXCEPT ![p.connection] = r]
  /\ UNCHANGED <<holders, rights>>

\* A connection comes, perhaps when its owner has already answered.
Connect(r, k) ==
  LET p == [reads[r] EXCEPT !.connection = k]
  IN /\ p.task = "connecting"
     /\ holders[k] = "new" \/ (p.pooled /\ holders[k] = "idle")
     /\ IF p.answer # None \/ p.late
          THEN /\ holders' = [holders EXCEPT ![k] = "closed"]
               /\ reads' = [reads EXCEPT ![r] = [p EXCEPT !.task = "ended", !.disposed = TRUE,
                                                          !.answer = "unavailable"]]
               /\ UNCHANGED running
          ELSE /\ holders' = [holders EXCEPT ![k] = r]
               /\ reads' = [reads EXCEPT ![r] = [p EXCEPT !.task = "context", !.inner = "racing",
                                                          !.inFlightSql = TRUE]]
               /\ running' = [running EXCEPT ![k] = r]
     /\ UNCHANGED rights

ConnectFails(r) ==
  /\ reads[r].task = "connecting"
  /\ reads' = [reads EXCEPT ![r].task = "ended", ![r].answer = "unavailable"]
  /\ UNCHANGED <<holders, running, rights>>

(***************************************************************************)
(* The three statements: the context, the first authorization, and the one *)
(* that permits delivery.                                                  *)
(***************************************************************************)
Querying(r) == reads[r].task \in {"context", "authorize", "deliver"}
Settled(r) == [reads[r] EXCEPT !.inFlightSql = FALSE]
Free(r) == running' = [running EXCEPT ![reads[r].connection] = None]

QuerySucceeds(r) ==
  LET p == Settled(r)
  IN /\ Querying(r) /\ running[p.connection] = r /\ holders[p.connection] # "closed"
     /\ p.task \in {"authorize", "deliver"} => rights
     /\ CASE Stopped(p) -> Refuse(r, [Interrupted(p) EXCEPT !.task = "ended"]) /\ Free(r) /\ UNCHANGED rights
          [] ~Stopped(p) /\ p.task = "context" -> Query(r, p, "authorize")
          [] ~Stopped(p) /\ p.task = "authorize" ->
               reads' = [reads EXCEPT ![r] = [p EXCEPT !.task = "get"]] /\ Free(r) /\ UNCHANGED <<holders, rights>>
          [] OTHER -> /\ Return(r, [p EXCEPT !.task = "ended", !.delivery = TRUE], "available")
                      /\ Free(r) /\ UNCHANGED rights

\* Refused by the database, which may also refuse the session itself.
QueryRefused(r) ==
  /\ Querying(r) /\ running[reads[r].connection] = r
  /\ \E disposition \in {reads[r].disposition, "discard"} :
       Refuse(r, [Settled(r) EXCEPT !.task = "ended", !.disposition = disposition])
  /\ Free(r) /\ UNCHANGED rights

\* The statement is over its time, and the server may run on, or the connection is lost.
QueryBreaks(r) ==
  /\ Querying(r)
  /\ Refuse(r, [Interrupted(Settled(r)) EXCEPT !.task = "ended", !.disposition = "discard"])
  /\ UNCHANGED running \/ Free(r)
  /\ UNCHANGED rights

ServerEnds(k) ==
  /\ running[k] # None /\ ~(Querying(running[k]) /\ reads[running[k]].connection = k)
  /\ running' = [running EXCEPT ![k] = None]
  /\ UNCHANGED <<holders, reads, rights>>

\* The artifact is read and the forecast computed from it, or either fails.
Calculate(r, ok) ==
  LET p == reads[r]
  IN /\ p.task = "get"
     /\ IF Stopped(p) \/ ~ok
          THEN /\ Refuse(r, [(IF Stopped(p) THEN Interrupted(p) ELSE p) EXCEPT !.task = "ended"])
               /\ UNCHANGED <<running, rights>>
          ELSE Query(r, p, "deliver")

(***************************************************************************)
(* Deadlines and aborts.                                                   *)
(***************************************************************************)
TimeIsUp(r) ==
  /\ ~reads[r].late /\ reads[r].task # "idle" /\ reads[r].answer = None
  /\ reads' = [reads EXCEPT ![r].late = TRUE]
  /\ UNCHANGED <<holders, running, rights>>

\* Delays are truncated, so a timer may fire a little before the deadline, and either first.
InnerTimer(r) ==
  /\ reads[r].inner = "racing"
  /\ Return(r, Interrupted(reads[r]), "unavailable")
  /\ UNCHANGED <<running, rights>>

\* stop, by the owner's timer: the connection is discarded, the answer given at once.
Stop(r, p) ==
  /\ holders' = Disposed(p, TRUE)
  /\ reads' = [reads EXCEPT ![r] =
       [p EXCEPT !.disposed = p.connection # None,
                 !.answer = IF @ = None THEN "unavailable" ELSE @]]

OuterTimer(r) ==
  /\ reads[r].answer = None /\ reads[r].task # "idle"
  /\ Stop(r, reads[r])
  /\ UNCHANGED <<running, rights>>

\* An abort reaches the owner and then the reading.
Abort(r) ==
  /\ reads[r].task # "idle" /\ ~reads[r].aborted
  /\ reads[r].answer = None \/ reads[r].inner = "racing"
  /\ LET p == [reads[r] EXCEPT !.aborted = TRUE]
     IN Stop(r, IF p.inner = "racing" THEN [Interrupted(p) EXCEPT !.inner = "returned"] ELSE p)
  /\ UNCHANGED <<running, rights>>

\* The rights to a source are withdrawn, or the source is deleted.
Revoke == rights /\ rights' = FALSE /\ UNCHANGED <<holders, running, reads>>

PInit ==
  /\ holders = [k \in Connections |-> "new"] /\ running = [k \in Connections |-> None]
  /\ reads = [r \in Reads |-> Unread] /\ rights = TRUE

PNext ==
  \/ Revoke
  \/ \E k \in Connections : ServerEnds(k)
  \/ \E r \in Reads :
       \/ \E pooled \in BOOLEAN : Ask(r, pooled)
       \/ \E k \in Connections : Connect(r, k)
       \/ ConnectFails(r) \/ QuerySucceeds(r) \/ QueryRefused(r) \/ QueryBreaks(r)
       \/ \E ok \in BOOLEAN : Calculate(r, ok)
       \/ TimeIsUp(r) \/ InnerTimer(r) \/ OuterTimer(r) \/ Abort(r)

ReadSpec == PInit /\ [][PNext]_readVars

\* Timeouts, aborts and abandoned tasks leave the pool sound: an idle connection runs no
\* statement, a statement runs for who holds its connection, and nobody keeps a connection
\* whose task has ended (predictionOwner.ts).  And a prediction is only available when the
\* authorization asked for after its calculation allows delivery (predict.ts).
ReadsClean ==
  /\ \A k \in Connections :
       /\ running[k] # None => holders[k] \in {running[k], "closed"}
       /\ holders[k] \in Reads => reads[holders[k]].task # "ended"
  /\ \A r \in Reads : reads[r].answer = "available" => reads[r].delivery
=============================================================================
