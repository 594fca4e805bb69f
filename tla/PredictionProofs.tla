-------------------------- MODULE PredictionProofs --------------------------
(***************************************************************************)
(* ReadsClean, proved for any number of predictions and connections.       *)
(*                                                                         *)
(* A read and its connection are tied together until the owner or the      *)
(* reading disposes of it: while they are, the read holds it.  A pooled    *)
(* connection only goes back when no statement of its read runs, since an  *)
(* interruption in the middle of one spoils it.                            *)
(***************************************************************************)
EXTENDS Prediction, TLAPS

\* What the proof needs to know of the names.
NamesDistinct ==
  /\ None \notin Reads \cup Connections \cup {"available"}
  /\ Reads \cap {"new", "idle", "closed"} = {}

QueryTasks == {"context", "authorize", "deliver"}
ActiveTasks == QueryTasks \cup {"get"}
ReadStates ==
  [task : ActiveTasks \cup {"idle", "connecting", "ended"}, pooled : BOOLEAN,
   connection : Connections \cup {None}, late : BOOLEAN, aborted : BOOLEAN,
   inFlightSql : BOOLEAN, interrupted : BOOLEAN, disposition : {"reusable", "discard"},
   inner : {"none", "racing", "returned"}, disposed : BOOLEAN,
   answer : {None, "available", "unavailable"}, delivery : BOOLEAN]

\* One read by itself: it has a connection from the moment its task is active, a statement
\* in flight where it awaits one, and its connection is disposed of when it has returned.
ReadSound(p) ==
  /\ p.task \in {"idle", "connecting"} =>
       p.connection = None /\ p.inner = "none" /\ ~p.interrupted /\ p.disposition = "reusable"
  /\ p.task \in ActiveTasks => p.connection # None /\ p.inner # "none"
  /\ p.task \in QueryTasks => p.inFlightSql
  /\ p.inner = "racing" =>
       p.task \in ActiveTasks /\ ~p.interrupted /\ p.disposition = "reusable"
  /\ p.inner = "returned" => p.disposed /\ (p.task \in ActiveTasks => p.interrupted \/ p.aborted)
  /\ p.task = "ended" => p.disposed \/ p.connection = None
  /\ p.disposed => p.connection # None
  /\ p.answer = "available" => p.delivery

\* A read and its connection, among holders h and running statements s.
Holds(p) == p.task \in ActiveTasks /\ ~p.disposed
Tied(r, p, h) ==
  /\ Holds(p) => h[p.connection] = r
  /\ p.inner = "racing" /\ p.disposed => h[p.connection] = "closed"
  /\ \A k \in Connections : h[k] = r => Holds(p) /\ p.connection = k

\* A statement runs on a connection that its read holds and queries, or on a closed one.
StatementsTied(rs, h, s) ==
  \A k \in Connections : s[k] # None =>
    \/ h[k] = "closed"
    \/ h[k] = s[k] /\ rs[s[k]].task \in QueryTasks

\* The inductive invariant.
ReadInv ==
  /\ holders \in [Connections -> {"new", "idle", "closed"} \cup Reads]
  /\ running \in [Connections -> Reads \cup {None}]
  /\ reads \in [Reads -> ReadStates]
  /\ \A r \in Reads : ReadSound(reads[r]) /\ Tied(r, reads[r], holders)
  /\ StatementsTied(reads, holders, running)
-----------------------------------------------------------------------------
(* One read changes. *)

\* A read changes, and with it at most its own connection k; others are untouched.
LEMMA ReadChanges ==
  ASSUME NamesDistinct, ReadInv, NEW r \in Reads, NEW n \in ReadStates, ReadSound(n),
         reads' = [reads EXCEPT ![r] = n],
         holders' \in [Connections -> {"new", "idle", "closed"} \cup Reads],
         Tied(r, n, holders'),
         \A k \in Connections : holders'[k] # holders[k] =>
           holders[k] \notin Reads \ {r} /\ holders'[k] \notin Reads \ {r}
             /\ holders[k] # "closed",
         running' \in [Connections -> Reads \cup {None}],
         \A k \in Connections : running'[k] \notin {None, running[k]} =>
           running'[k] = r /\ n.task \in QueryTasks /\ holders'[k] \in {r, "closed"},
         \A k \in Connections : running'[k] = running[k] /\ running[k] # None =>
           \/ holders'[k] = "closed"
           \/ holders'[k] = holders[k] /\ (running[k] = r => n.task \in QueryTasks)
  PROVE  ReadInv'
<1>1. reads' \in [Reads -> ReadStates]  BY DEF ReadInv
<1>2. \A q \in Reads : reads'[q] = IF q = r THEN n ELSE reads[q]  BY DEF ReadInv
<1>3. ASSUME NEW q \in Reads PROVE ReadSound(reads'[q]) /\ Tied(q, reads'[q], holders')
  <2>1. CASE q = r  BY <1>2, <2>1
  <2>2. CASE q # r
    <3>1. reads'[q] = reads[q] /\ ReadSound(reads[q]) /\ Tied(q, reads[q], holders)
          /\ reads[q] \in ReadStates
      BY <1>2, <2>2 DEF ReadInv
    <3>2. \A k \in Connections : holders'[k] = q <=> holders[k] = q
      BY <2>2
    <3>3. \A k \in Connections : holders[k] = "closed" => holders'[k] = "closed"
      BY DEF NamesDistinct
    <3>4. reads[q].connection \in Connections \/ reads[q].connection = None
      BY <3>1 DEF ReadStates
    <3>5. Holds(reads[q]) => reads[q].connection \in Connections
      BY <3>1, <3>4 DEF Holds, ReadSound
    <3>6. reads[q].disposed => reads[q].connection \in Connections
      BY <3>1, <3>4 DEF ReadSound
    <3>7. Tied(q, reads[q], holders')
      <4>1. Holds(reads[q]) => holders'[reads[q].connection] = q
        BY <3>1, <3>2, <3>5 DEF Tied
      <4>2. reads[q].inner = "racing" /\ reads[q].disposed
              => holders'[reads[q].connection] = "closed"
        BY <3>1, <3>3, <3>6 DEF Tied
      <4>3. \A k \in Connections : holders'[k] = q => Holds(reads[q]) /\ reads[q].connection = k
        BY <3>1, <3>2 DEF Tied
      <4>4. QED  BY <4>1, <4>2, <4>3 DEF Tied
    <3>8. QED  BY <3>1, <3>7
  <2>3. QED  BY <2>1, <2>2
<1>4. StatementsTied(reads', holders', running')
  <2> SUFFICES ASSUME NEW k \in Connections, running'[k] # None
               PROVE  \/ holders'[k] = "closed"
                      \/ holders'[k] = running'[k] /\ reads'[running'[k]].task \in QueryTasks
    BY DEF StatementsTied
  <2>1. CASE running'[k] # running[k]  BY <2>1, <1>2
  <2>2. CASE running'[k] = running[k]
    <3>1. running[k] \in Reads  BY <2>2 DEF ReadInv
    <3>2. holders[k] = "closed" \/ (holders[k] = running[k] /\ reads[running[k]].task \in QueryTasks)
      BY <2>2 DEF ReadInv, StatementsTied
    <3>3. QED  BY <1>2, <2>2, <3>1, <3>2
  <2>3. QED  BY <2>1, <2>2
<1>5. QED  BY <1>1, <1>3, <1>4 DEF ReadInv

\* An interruption latches; with a statement in flight it spoils the connection.
LEMMA InterruptedTyped ==
  ASSUME NEW p \in ReadStates
  PROVE  /\ Interrupted(p) \in ReadStates
         /\ LET e == Interrupted(p)
            IN /\ e.task = p.task /\ e.pooled = p.pooled /\ e.connection = p.connection
               /\ e.late = p.late /\ e.aborted = p.aborted /\ e.inFlightSql = p.inFlightSql
               /\ e.inner = p.inner /\ e.disposed = p.disposed /\ e.answer = p.answer
               /\ e.delivery = p.delivery /\ e.interrupted
<1>1. CASE p.interrupted
  <2>1. Interrupted(p) = p  BY <1>1 DEF Interrupted
  <2>2. QED  BY <1>1, <2>1
<1>2. CASE ~p.interrupted
  <2> DEFINE d == IF p.inFlightSql THEN "discard" ELSE p.disposition
  <2>1. d \in {"reusable", "discard"}  BY DEF ReadStates
  <2>2. Interrupted(p) = [p EXCEPT !.interrupted = TRUE, !.disposition = d]  BY <1>2 DEF Interrupted
  <2> HIDE DEF d
  <2>3. [p EXCEPT !.interrupted = TRUE, !.disposition = d] \in ReadStates  BY <2>1 DEF ReadStates
  <2>4. QED  BY <2>2, <2>3 DEF ReadStates
<1>3. QED  BY <1>1, <1>2

\* The reading returns to an owner that waits for it: because its task has ended, or in the
\* middle of it by an interruption.
LEMMA ReturnKeeps ==
  ASSUME NamesDistinct, ReadInv, NEW r \in Reads, NEW p \in ReadStates,
         NEW answer \in {"available", "unavailable"},
         reads[r].inner = "racing",
         p.connection = reads[r].connection, p.disposed = reads[r].disposed,
         \/ p.task = "ended"
         \/ p.task = reads[r].task /\ p.interrupted /\ (p.task \in QueryTasks => p.inFlightSql),
         "available" \in {answer, p.answer} => p.delivery,
         Return(r, p, answer),
         running' \in [Connections -> Reads \cup {None}],
         \A k \in Connections : running'[k] \in {None, running[k]},
         running'[p.connection] = r =>
           p.disposition = "discard" \/ holders[p.connection] = "closed"
  PROVE  ReadInv'
<1> DEFINE q == reads[r]
<1>1. q \in ReadStates /\ ReadSound(q) /\ Tied(r, q, holders)  BY DEF ReadInv
<1>2. q.task \in ActiveTasks /\ q.connection # None  BY <1>1 DEF ReadSound
<1>3. q.connection \in Connections  BY <1>1, <1>2 DEF ReadStates
<1> DEFINE n == [p EXCEPT !.inner = "returned", !.disposed = TRUE,
                          !.answer = IF p.answer # None THEN p.answer
                                     ELSE IF p.aborted \/ p.late THEN "unavailable" ELSE answer]
<1>4. reads' = [reads EXCEPT ![r] = n]  BY DEF Return
<1>5. n \in ReadStates
  <2> DEFINE a == IF p.answer # None THEN p.answer
                  ELSE IF p.aborted \/ p.late THEN "unavailable" ELSE answer
  <2>1. a \in {None, "available", "unavailable"}  BY DEF ReadStates
  <2>2. n = [p EXCEPT !.inner = "returned", !.disposed = TRUE, !.answer = a]  OBVIOUS
  <2> HIDE DEF a, n
  <2>3. [p EXCEPT !.inner = "returned", !.disposed = TRUE, !.answer = a] \in ReadStates
    BY <2>1 DEF ReadStates
  <2>4. QED  BY <2>2, <2>3
<1>6. /\ n.task = p.task /\ n.connection = p.connection /\ n.inner = "returned" /\ n.disposed
      /\ n.interrupted = p.interrupted /\ n.inFlightSql = p.inFlightSql /\ n.delivery = p.delivery
      /\ n.answer = "available" => "available" \in {answer, p.answer}
  BY DEF ReadStates
<1>7. ReadSound(n)
  BY <1>2, <1>6 DEF ReadSound, ActiveTasks, QueryTasks
<1>8. CASE p.disposed
  <2>1. holders' = holders /\ holders[q.connection] = "closed"
    BY <1>8, <1>1 DEF Return, Disposed, Tied
  <2>2. \A k \in Connections : holders[k] # r
    BY <1>1, <1>8 DEF Tied, Holds
  <2>3. Tied(r, n, holders')  BY <1>6, <2>1, <2>2 DEF Tied, Holds
  <2>4. holders' \in [Connections -> {"new", "idle", "closed"} \cup Reads]  BY <2>1 DEF ReadInv
  <2>5. \A k \in Connections : running'[k] = running[k] /\ running[k] # None =>
           \/ holders'[k] = "closed"
           \/ holders'[k] = holders[k] /\ (running[k] = r => n.task \in QueryTasks)
    BY <2>1, <2>2 DEF ReadInv, StatementsTied
  <2> HIDE DEF n
  <2>6. QED  BY <1>4, <1>5, <1>7, <2>1, <2>3, <2>4, <2>5, ReadChanges
<1>9. CASE ~p.disposed
  <2>1. PICK out \in {"idle", "closed"} :
          /\ holders' = [holders EXCEPT ![q.connection] = out]
          /\ p.disposition = "discard" => out = "closed"
    BY <1>2, <1>9 DEF Return, Disposed
  <2>2. holders \in [Connections -> {"new", "idle", "closed"} \cup Reads]  BY DEF ReadInv
  <2>3. holders[q.connection] = r /\ (\A k \in Connections : holders[k] = r => k = q.connection)
    BY <1>1, <1>2, <1>9 DEF Tied, Holds
  <2>4. r \notin {"idle", "closed"}  BY DEF NamesDistinct
  <2>5. \A k \in Connections : holders'[k] # r
    BY <1>3, <2>1, <2>2, <2>3, <2>4
  <2>6. Tied(r, n, holders')  BY <1>6, <2>5 DEF Tied, Holds
  <2>7. holders' \in [Connections -> {"new", "idle", "closed"} \cup Reads]  BY <2>1, <2>2
  <2>8. \A k \in Connections : holders'[k] # holders[k] =>
          holders[k] \notin Reads \ {r} /\ holders'[k] \notin Reads \ {r} /\ holders[k] # "closed"
    BY <1>3, <2>1, <2>2, <2>3, <2>4 DEF NamesDistinct
  <2>9. ASSUME NEW k \in Connections, running'[k] = running[k], running[k] # None
        PROVE  \/ holders'[k] = "closed"
               \/ holders'[k] = holders[k] /\ (running[k] = r => n.task \in QueryTasks)
    <3>1. holders[k] = "closed" \/ holders[k] = running[k]  BY <2>9 DEF ReadInv, StatementsTied
    <3>2. CASE k = q.connection  BY <1>3, <2>1, <2>2, <2>3, <2>4, <2>9, <3>1, <3>2
    <3>3. CASE k # q.connection  BY <1>3, <2>1, <2>2, <2>3, <3>1, <3>3
    <3>4. QED  BY <3>2, <3>3
  <2> HIDE DEF n
  <2>10. QED  BY ZenonT(40), <1>4, <1>5, <1>7, <2>6, <2>7, <2>8, <2>9, ReadChanges
<1>10. QED  BY <1>8, <1>9

\* A task ends for which nobody waits any more.
LEMMA AbandonedEnds ==
  ASSUME NamesDistinct, ReadInv, NEW r \in Reads, NEW p \in ReadStates,
         reads[r].inner = "returned", p.inner = "returned", p.task = "ended",
         p.connection = reads[r].connection, p.disposed = reads[r].disposed,
         p.answer = "available" => p.delivery,
         reads' = [reads EXCEPT ![r] = p], UNCHANGED holders,
         running' \in [Connections -> Reads \cup {None}],
         \A k \in Connections : running'[k] \in {None, running[k]}
  PROVE  ReadInv'
<1>1. reads[r] \in ReadStates /\ ReadSound(reads[r]) /\ Tied(r, reads[r], holders)  BY DEF ReadInv
<1>2. reads[r].disposed /\ \A k \in Connections : holders[k] # r
  BY <1>1 DEF ReadSound, Tied, Holds
<1>3. ReadSound(p)  BY <1>1, <1>2 DEF ReadSound, ActiveTasks, QueryTasks
<1>4. Tied(r, p, holders')  BY <1>2 DEF Tied, Holds
<1>5. holders' \in [Connections -> {"new", "idle", "closed"} \cup Reads]  BY DEF ReadInv
<1>6. \A k \in Connections : running'[k] = running[k] /\ running[k] # None =>
        \/ holders'[k] = "closed"
        \/ holders'[k] = holders[k] /\ (running[k] = r => p.task \in QueryTasks)
  BY <1>2 DEF ReadInv, StatementsTied
<1>7. QED  BY <1>3, <1>4, <1>5, <1>6, ReadChanges

\* What a refusal does, for whoever may still wait.
LEMMA RefuseKeeps ==
  ASSUME NamesDistinct, ReadInv, NEW r \in Reads, NEW p \in ReadStates, Refuse(r, p),
         reads[r].inner # "none", p.inner = reads[r].inner, p.task = "ended",
         p.connection = reads[r].connection, p.disposed = reads[r].disposed,
         p.answer = "available" => p.delivery,
         running' \in [Connections -> Reads \cup {None}],
         \A k \in Connections : running'[k] \in {None, running[k]},
         running'[p.connection] = r =>
           p.disposition = "discard" \/ holders[p.connection] = "closed"
  PROVE  ReadInv'
<1>1. CASE p.inner = "racing"
  <2>1. Return(r, p, "unavailable")  BY <1>1 DEF Refuse
  <2>2. QED  BY <1>1, <2>1, ReturnKeeps
<1>2. CASE p.inner # "racing"
  <2>1. reads' = [reads EXCEPT ![r] = p] /\ UNCHANGED holders  BY <1>2 DEF Refuse
  <2>2. p.inner = "returned"  BY <1>2 DEF ReadStates
  <2>3. QED  BY <2>1, <2>2, AbandonedEnds
<1>3. QED  BY <1>1, <1>2

\* The owner stops: it discards the connection while the task may go on.
LEMMA StopKeeps ==
  ASSUME NamesDistinct, ReadInv, NEW r \in Reads, NEW p \in ReadStates, ReadSound(reads[r]),
         Stop(r, p), UNCHANGED running,
         p.task = reads[r].task, p.task # "idle",
         p.connection = reads[r].connection, p.disposed = reads[r].disposed,
         p.delivery = reads[r].delivery, p.inFlightSql = reads[r].inFlightSql,
         p.answer = reads[r].answer,
         \/ /\ p.inner = reads[r].inner /\ p.interrupted = reads[r].interrupted
            /\ p.disposition = reads[r].disposition
            /\ reads[r].aborted => p.aborted
         \/ reads[r].inner = "racing" /\ p.inner = "returned" /\ p.aborted
  PROVE  ReadInv'
<1> DEFINE q == reads[r]
           n == [p EXCEPT !.disposed = p.connection # None,
                          !.answer = IF p.answer = None THEN "unavailable" ELSE p.answer]
<1>1. q \in ReadStates /\ ReadSound(q) /\ Tied(r, q, holders)  BY DEF ReadInv
<1>2. reads' = [reads EXCEPT ![r] = n]  BY DEF Stop
<1>3. n \in ReadStates
  <2> DEFINE d == p.connection # None
             a == IF p.answer = None THEN "unavailable" ELSE p.answer
  <2>1. d \in BOOLEAN /\ a \in {None, "available", "unavailable"}  BY DEF ReadStates
  <2>2. n = [p EXCEPT !.disposed = d, !.answer = a]  OBVIOUS
  <2> HIDE DEF a, d, n
  <2>3. [p EXCEPT !.disposed = d, !.answer = a] \in ReadStates  BY <2>1 DEF ReadStates
  <2>4. QED  BY <2>2, <2>3
<1>4. /\ n.task = q.task /\ n.connection = q.connection /\ n.inner = p.inner
      /\ n.disposed = (q.connection # None) /\ n.inFlightSql = q.inFlightSql
      /\ n.interrupted = p.interrupted /\ n.disposition = p.disposition
      /\ n.aborted = p.aborted /\ n.delivery = q.delivery
      /\ n.answer = "available" => q.answer = "available"
  BY DEF ReadStates
<1>5. ReadSound(n)
  BY ZenonT(40), <1>1, <1>4 DEF ReadSound, ActiveTasks, QueryTasks
<1>6. ~Holds(n)  BY <1>4, <1>5 DEF Holds, ReadSound
<1>7. \A k \in Connections : holders[k] = r => ~q.disposed /\ q.connection = k
  BY <1>1 DEF Tied, Holds
<1>8. CASE q.disposed \/ q.connection = None
  <2>1. UNCHANGED holders  BY <1>8 DEF Stop, Disposed
  <2>2. \A k \in Connections : holders[k] # r
    <3>1. None \notin Connections  BY DEF NamesDistinct
    <3>2. QED  BY <1>7, <1>8, <3>1
  <2>3. q.disposed => q.connection # None  BY <1>1 DEF ReadSound
  <2>4. n.inner = "racing" => q.inner = "racing"  BY <1>4
  <2>5. q.inner = "racing" => q.connection # None  BY <1>1 DEF ReadSound
  <2>6. Tied(r, n, holders')
    BY <1>1, <1>4, <1>6, <1>8, <2>1, <2>2, <2>4, <2>5 DEF Tied
  <2>7. holders' \in [Connections -> {"new", "idle", "closed"} \cup Reads]  BY <2>1 DEF ReadInv
  <2>8. \A k \in Connections : running[k] # None => holders[k] = "closed" \/ running[k] # r
    BY <2>2 DEF ReadInv, StatementsTied
  <2> HIDE DEF n
  <2>9. QED  BY ZenonT(40), <1>2, <1>3, <1>5, <2>1, <2>6, <2>7, <2>8, ReadChanges DEF ReadInv
<1>9. CASE ~q.disposed /\ q.connection # None
  <2>1. q.connection \in Connections  BY <1>1, <1>9 DEF ReadStates
  <2>2. holders' = [holders EXCEPT ![q.connection] = "closed"]  BY <1>9 DEF Stop, Disposed
  <2>3. holders \in [Connections -> {"new", "idle", "closed"} \cup Reads]  BY DEF ReadInv
  <2>4. r \notin {"new", "idle", "closed"}  BY DEF NamesDistinct
  <2>5. q.task \in ActiveTasks  BY <1>1, <1>9 DEF ReadSound, ReadStates
  <2>6. holders[q.connection] = r  BY <1>1, <1>9, <2>5 DEF Tied, Holds
  <2>7. /\ holders'[q.connection] = "closed"
        /\ \A k \in Connections : holders'[k] # r
        /\ \A k \in Connections : k # q.connection => holders'[k] = holders[k]
    BY <1>7, <2>1, <2>2, <2>3, <2>4
  <2>8. Tied(r, n, holders')  BY <1>4, <1>6, <2>7 DEF Tied
  <2>9. holders' \in [Connections -> {"new", "idle", "closed"} \cup Reads]  BY <2>2, <2>3
  <2>10. \A k \in Connections : holders'[k] # holders[k] =>
          holders[k] \notin Reads \ {r} /\ holders'[k] \notin Reads \ {r} /\ holders[k] # "closed"
    BY <2>4, <2>6, <2>7 DEF NamesDistinct
  <2>11. ASSUME NEW k \in Connections, running[k] # None
         PROVE  holders'[k] = "closed" \/ (holders'[k] = holders[k] /\ running[k] # r)
    <3>1. holders[k] = "closed" \/ holders[k] = running[k]  BY <2>11 DEF ReadInv, StatementsTied
    <3>2. QED  BY <1>7, <2>7, <3>1
  <2>12. running \in [Connections -> Reads \cup {None}]  BY DEF ReadInv
  <2> HIDE DEF n
  <2>13. QED  BY ZenonT(40), <1>2, <1>3, <1>5, <2>8, <2>9, <2>10, <2>11, <2>12, ReadChanges
<1>10. QED  BY <1>8, <1>9
-----------------------------------------------------------------------------
(* The actions, one by one. *)

LEMMA AskKeeps ==
  ASSUME NamesDistinct, ReadInv, NEW r \in Reads, NEW pooled \in BOOLEAN, Ask(r, pooled)
  PROVE  ReadInv'
<1> DEFINE q == reads[r]
           n == [q EXCEPT !.task = "connecting", !.pooled = pooled]
<1>1. q \in ReadStates /\ ReadSound(q) /\ Tied(r, q, holders)  BY DEF ReadInv
<1>2. q.task = "idle" /\ UNCHANGED <<holders, running>>  BY DEF Ask
<1>3. reads' = [reads EXCEPT ![r] = n]  BY <1>1 DEF Ask, ReadInv, ReadStates
<1>4. n \in ReadStates  BY <1>1 DEF ReadStates
<1>5. /\ n.task = "connecting" /\ n.connection = q.connection /\ n.inner = q.inner
      /\ n.disposed = q.disposed /\ n.interrupted = q.interrupted
      /\ n.disposition = q.disposition /\ n.answer = q.answer /\ n.delivery = q.delivery
  BY <1>1 DEF ReadStates
<1>6. ReadSound(n)  BY <1>1, <1>2, <1>5 DEF ReadSound, ActiveTasks, QueryTasks
<1>7. \A k \in Connections : holders[k] # r
  BY <1>1, <1>2 DEF Tied, Holds, ActiveTasks, QueryTasks
<1>8. Tied(r, n, holders')
  BY <1>2, <1>5, <1>6, <1>7 DEF Tied, Holds, ReadSound, ActiveTasks, QueryTasks
<1>9. holders \in [Connections -> {"new", "idle", "closed"} \cup Reads]
      /\ running \in [Connections -> Reads \cup {None}]
  BY DEF ReadInv
<1>10. \A k \in Connections : running[k] # None => holders[k] = "closed" \/ running[k] # r
  BY <1>7 DEF ReadInv, StatementsTied
<1> HIDE DEF n
<1>11. QED  BY <1>2, <1>3, <1>4, <1>6, <1>8, <1>9, <1>10, ReadChanges

LEMMA ConnectKeeps ==
  ASSUME NamesDistinct, ReadInv, NEW r \in Reads, NEW k \in Connections, Connect(r, k)
  PROVE  ReadInv'
<1> DEFINE q == reads[r]
           p == [q EXCEPT !.connection = k]
           late == [p EXCEPT !.task = "ended", !.disposed = TRUE, !.answer = "unavailable"]
           good == [p EXCEPT !.task = "context", !.inner = "racing", !.inFlightSql = TRUE]
<1>1. q \in ReadStates /\ ReadSound(q) /\ Tied(r, q, holders)  BY DEF ReadInv
<1>2. q.task = "connecting" /\ holders[k] \in {"new", "idle"}
  BY <1>1 DEF Connect, ReadStates
<1>3. holders \in [Connections -> {"new", "idle", "closed"} \cup Reads]
      /\ running \in [Connections -> Reads \cup {None}]
  BY DEF ReadInv
<1>4. {"new", "idle", "closed"} \cap Reads = {} /\ None \notin Connections
      /\ None \notin Reads
  BY DEF NamesDistinct
<1>5. running[k] = None  BY <1>2, <1>3, <1>4 DEF ReadInv, StatementsTied
<1>6. \A j \in Connections : holders[j] # r
  BY <1>1, <1>2 DEF Tied, Holds, ActiveTasks, QueryTasks
<1>7. \A j \in Connections : running[j] # None => holders[j] = "closed" \/ running[j] # r
  BY <1>6 DEF ReadInv, StatementsTied
<1>8. CASE q.answer # None \/ q.late
  <2>1. /\ holders' = [holders EXCEPT ![k] = "closed"] /\ UNCHANGED running
        /\ reads' = [reads EXCEPT ![r] = late]
    BY <1>1, <1>8 DEF Connect, ReadStates
  <2>2. late \in ReadStates  BY <1>1 DEF ReadStates
  <2>3. ReadSound(late)
    BY <1>1, <1>2, <1>4 DEF ReadSound, ReadStates, ActiveTasks, QueryTasks
  <2>4. Tied(r, late, holders')
    BY <1>1, <1>2, <1>3, <1>4, <1>6, <2>1 DEF Tied, Holds, ReadSound, ReadStates, ActiveTasks, QueryTasks
  <2> HIDE DEF late
  <2>5. QED  BY <1>2, <1>3, <1>4, <1>5, <1>7, <2>1, <2>2, <2>3, <2>4, ReadChanges
<1>9. CASE ~(q.answer # None \/ q.late)
  <2>1. /\ holders' = [holders EXCEPT ![k] = r] /\ running' = [running EXCEPT ![k] = r]
        /\ reads' = [reads EXCEPT ![r] = good]
    BY <1>1, <1>9 DEF Connect, ReadStates
  <2>2. good \in ReadStates  BY <1>1 DEF ReadStates, ActiveTasks, QueryTasks
  <2>3. ReadSound(good)
    BY <1>1, <1>2, <1>4 DEF ReadSound, ReadStates, ActiveTasks, QueryTasks
  <2>4. good.task = "context" /\ good.connection = k /\ ~good.disposed
    BY <1>1, <1>2 DEF ReadStates, ReadSound
  <2>5. Tied(r, good, holders')
    BY <1>3, <1>6, <2>1, <2>4 DEF Tied, Holds, ActiveTasks, QueryTasks
  <2> HIDE DEF good
  <2>6. QED
    BY <1>2, <1>3, <1>4, <1>5, <1>7, <2>1, <2>2, <2>3, <2>4, <2>5, ReadChanges DEF QueryTasks
<1>10. QED  BY <1>8, <1>9

LEMMA ConnectFailsKeeps ==
  ASSUME NamesDistinct, ReadInv, NEW r \in Reads, ConnectFails(r)
  PROVE  ReadInv'
<1> DEFINE q == reads[r]
           n == [q EXCEPT !.task = "ended", !.answer = "unavailable"]
<1>1. q \in ReadStates /\ ReadSound(q) /\ Tied(r, q, holders)  BY DEF ReadInv
<1>2. q.task = "connecting" /\ UNCHANGED <<holders, running>>  BY DEF ConnectFails
<1>3. reads' = [reads EXCEPT ![r] = n]  BY <1>1 DEF ConnectFails, ReadInv, ReadStates
<1>4. n \in ReadStates  BY <1>1 DEF ReadStates
<1>5. ReadSound(n)  BY <1>1, <1>2 DEF ReadSound, ReadStates, ActiveTasks, QueryTasks
<1>6. \A k \in Connections : holders[k] # r
  BY <1>1, <1>2 DEF Tied, Holds, ActiveTasks, QueryTasks
<1>7. Tied(r, n, holders')
  BY <1>1, <1>2, <1>6 DEF Tied, Holds, ReadSound, ReadStates, ActiveTasks, QueryTasks
<1>8. holders \in [Connections -> {"new", "idle", "closed"} \cup Reads]
      /\ running \in [Connections -> Reads \cup {None}]
  BY DEF ReadInv
<1>9. \A k \in Connections : running[k] # None => holders[k] = "closed" \/ running[k] # r
  BY <1>6 DEF ReadInv, StatementsTied
<1> HIDE DEF n
<1>10. QED  BY <1>2, <1>3, <1>4, <1>5, <1>7, <1>8, <1>9, ReadChanges

LEMMA TimeIsUpKeeps ==
  ASSUME NamesDistinct, ReadInv, NEW r \in Reads, TimeIsUp(r)
  PROVE  ReadInv'
<1> DEFINE q == reads[r]
           n == [q EXCEPT !.late = TRUE]
<1>1. q \in ReadStates /\ ReadSound(q) /\ Tied(r, q, holders)  BY DEF ReadInv
<1>2. reads' = [reads EXCEPT ![r] = n] /\ UNCHANGED <<holders, running>>
  BY DEF TimeIsUp, ReadInv
<1>3. n \in ReadStates  BY <1>1 DEF ReadStates
<1>4. /\ n.task = q.task /\ n.connection = q.connection /\ n.inner = q.inner
      /\ n.disposed = q.disposed /\ n.interrupted = q.interrupted /\ n.inFlightSql = q.inFlightSql
      /\ n.disposition = q.disposition /\ n.answer = q.answer /\ n.delivery = q.delivery
      /\ n.aborted = q.aborted
  BY <1>1 DEF ReadStates
<1>5. ReadSound(n)  BY <1>1, <1>4 DEF ReadSound
<1>6. Tied(r, n, holders')  BY <1>1, <1>2, <1>4 DEF Tied, Holds
<1>7. holders \in [Connections -> {"new", "idle", "closed"} \cup Reads]
      /\ running \in [Connections -> Reads \cup {None}]
  BY DEF ReadInv
<1>8. \A k \in Connections : running[k] # None =>
        holders[k] = "closed" \/ (running[k] = r => n.task \in QueryTasks)
  BY <1>4 DEF ReadInv, StatementsTied
<1> HIDE DEF n
<1>9. QED  BY <1>2, <1>3, <1>5, <1>6, <1>7, <1>8, ReadChanges

\* A read with an active task, its connection, and what a statement of it runs on.
LEMMA ActiveRead ==
  ASSUME NamesDistinct, ReadInv, NEW r \in Reads, reads[r].task \in ActiveTasks
  PROVE  /\ reads[r] \in ReadStates /\ ReadSound(reads[r]) /\ Tied(r, reads[r], holders)
         /\ reads[r].connection \in Connections /\ reads[r].inner \in {"racing", "returned"}
         /\ reads[r].inner = "racing" =>
              ~reads[r].interrupted /\ reads[r].disposition = "reusable"
         /\ running \in [Connections -> Reads \cup {None}]
         /\ None \notin Reads \cup Connections
<1>1. reads[r] \in ReadStates /\ ReadSound(reads[r]) /\ Tied(r, reads[r], holders)  BY DEF ReadInv
<1>2. reads[r].connection # None /\ reads[r].inner # "none"  BY <1>1 DEF ReadSound
<1>3. reads[r].connection \in Connections /\ reads[r].inner \in {"racing", "returned"}
  BY <1>1, <1>2 DEF ReadStates
<1>4. QED  BY <1>1, <1>3 DEF ReadInv, ReadSound, NamesDistinct

\* A read sends its next statement.
LEMMA QueryKeeps ==
  ASSUME NamesDistinct, ReadInv, NEW r \in Reads, NEW p \in ReadStates, NEW next \in QueryTasks,
         reads[r].task \in ActiveTasks, reads[r].inner = "racing",
         Query(r, p, next),
         p.task = reads[r].task, p.connection = reads[r].connection, p.inner = "racing",
         p.disposed = reads[r].disposed, p.interrupted = reads[r].interrupted,
         p.disposition = reads[r].disposition, p.answer = reads[r].answer,
         p.delivery = reads[r].delivery
  PROVE  ReadInv'
<1> DEFINE q == reads[r]
           n == [p EXCEPT !.task = next, !.inFlightSql = TRUE]
<1>1. /\ q \in ReadStates /\ ReadSound(q) /\ Tied(r, q, holders) /\ q.connection \in Connections
      /\ running \in [Connections -> Reads \cup {None}] /\ None \notin Reads \cup Connections
  BY ActiveRead
<1>2. /\ reads' = [reads EXCEPT ![r] = n] /\ UNCHANGED holders
      /\ running' = [running EXCEPT ![q.connection] = r]
  BY DEF Query
<1>3. n \in ReadStates  BY DEF ReadStates, ActiveTasks
<1>4. /\ n.task = next /\ n.connection = q.connection /\ n.inner = "racing" /\ n.inFlightSql
      /\ n.disposed = q.disposed /\ n.interrupted = q.interrupted
      /\ n.disposition = q.disposition /\ n.answer = q.answer /\ n.delivery = q.delivery
  BY DEF ReadStates
<1>5. ReadSound(n)  BY <1>1, <1>4 DEF ReadSound, ActiveTasks, QueryTasks
<1>6. Tied(r, n, holders')  BY <1>1, <1>2, <1>4 DEF Tied, Holds, ActiveTasks
<1>7. holders[q.connection] \in {r, "closed"}
  BY <1>1 DEF Tied, Holds
<1>8. \A k \in Connections : running'[k] \notin {None, running[k]} =>
        running'[k] = r /\ n.task \in QueryTasks /\ holders'[k] \in {r, "closed"}
  BY <1>1, <1>2, <1>4, <1>7
<1>9. holders' \in [Connections -> {"new", "idle", "closed"} \cup Reads]
      /\ running' \in [Connections -> Reads \cup {None}]
  BY <1>1, <1>2 DEF ReadInv
<1> HIDE DEF n
<1>10. QED  BY <1>2, <1>3, <1>4, <1>5, <1>6, <1>8, <1>9, ReadChanges

LEMMA QuerySucceedsKeeps ==
  ASSUME NamesDistinct, ReadInv, NEW r \in Reads, QuerySucceeds(r)
  PROVE  ReadInv'
<1> DEFINE q == reads[r]
           p == Settled(r)
<1>1. /\ q \in ReadStates /\ ReadSound(q) /\ Tied(r, q, holders) /\ q.connection \in Connections
      /\ q.inner \in {"racing", "returned"}
      /\ q.inner = "racing" => ~q.interrupted /\ q.disposition = "reusable"
      /\ running \in [Connections -> Reads \cup {None}] /\ None \notin Reads \cup Connections
  BY ActiveRead DEF QuerySucceeds, Querying, ActiveTasks, QueryTasks
<1>2. p \in ReadStates
  BY <1>1 DEF Settled, ReadStates
<1>3. /\ p.task = q.task /\ p.connection = q.connection /\ p.inner = q.inner
      /\ p.disposed = q.disposed /\ p.interrupted = q.interrupted /\ ~p.inFlightSql
      /\ p.disposition = q.disposition /\ p.answer = q.answer /\ p.delivery = q.delivery
  BY <1>1 DEF Settled, ReadStates
<1>4. q.task \in QueryTasks /\ running[q.connection] = r /\ holders[q.connection] # "closed"
  BY <1>3 DEF QuerySucceeds, Querying, QueryTasks
<1>5. holders[q.connection] = r  BY <1>1, <1>4 DEF ReadInv, StatementsTied
<1>6. ~q.disposed /\ q.inner = "racing"
  BY <1>1, <1>5 DEF Tied, Holds, ReadSound
<1>7. Free(r) => /\ running' \in [Connections -> Reads \cup {None}] /\ running'[q.connection] # r
                 /\ \A k \in Connections : running'[k] \in {None, running[k]}
  BY <1>1 DEF Free
<1>8. CASE Stopped(p)
  <2> DEFINE e == [Interrupted(p) EXCEPT !.task = "ended"]
  <2>1. Refuse(r, e) /\ Free(r)  BY <1>8 DEF QuerySucceeds
  <2>2. e \in ReadStates  BY <1>2 DEF Interrupted, ReadStates
  <2>3. /\ e.task = "ended" /\ e.inner = q.inner /\ e.connection = q.connection
        /\ e.disposed = q.disposed /\ e.answer = q.answer /\ e.delivery = q.delivery
    BY <1>2, <1>3 DEF Interrupted, ReadStates
  <2>4. e.answer = "available" => e.delivery  BY <1>1, <2>3 DEF ReadSound
  <2> HIDE DEF e
  <2>5. QED  BY <1>6, <1>7, <2>1, <2>2, <2>3, <2>4, RefuseKeeps
<1>9. CASE ~Stopped(p) /\ p.task = "context"
  <2>1. Query(r, p, "authorize")  BY <1>9 DEF QuerySucceeds
  <2>2. q.task \in ActiveTasks  BY <1>4 DEF ActiveTasks
  <2> HIDE DEF p
  <2>3. QED  BY <1>2, <1>3, <1>6, <2>1, <2>2, QueryKeeps DEF QueryTasks
<1>10. CASE ~Stopped(p) /\ p.task = "authorize"
  <2> DEFINE n == [p EXCEPT !.task = "get"]
  <2>1. reads' = [reads EXCEPT ![r] = n] /\ Free(r) /\ UNCHANGED holders
    BY <1>10 DEF QuerySucceeds
  <2>2. n \in ReadStates  BY <1>2 DEF ReadStates, ActiveTasks
  <2>3. /\ n.task = "get" /\ n.connection = q.connection /\ n.inner = q.inner
        /\ n.disposed = q.disposed /\ n.interrupted = q.interrupted
        /\ n.disposition = q.disposition /\ n.answer = q.answer /\ n.delivery = q.delivery
    BY <1>2, <1>3 DEF ReadStates
  <2>4. ReadSound(n)  BY <1>1, <1>6, <2>3 DEF ReadSound, ActiveTasks, QueryTasks
  <2>5. q.task \in ActiveTasks /\ n.task \in ActiveTasks  BY <1>4, <2>3 DEF ActiveTasks
  <2>6. Tied(r, n, holders')  BY <1>1, <1>6, <2>1, <2>3, <2>5 DEF Tied, Holds
  <2>7. holders \in [Connections -> {"new", "idle", "closed"} \cup Reads]  BY DEF ReadInv
  <2>8. \A k \in Connections : running[k] = r => holders[k] = "closed" \/ k = q.connection
    BY <1>1 DEF ReadInv, StatementsTied, Tied
  <2> HIDE DEF n
  <2>9. QED  BY <1>7, <2>1, <2>2, <2>4, <2>6, <2>7, <2>8, ReadChanges
<1>11. CASE ~Stopped(p) /\ p.task \notin {"context", "authorize"}
  <2> DEFINE e == [p EXCEPT !.task = "ended", !.delivery = TRUE]
  <2>1. Return(r, e, "available") /\ Free(r)  BY <1>11 DEF QuerySucceeds
  <2>2. e \in ReadStates  BY <1>2 DEF ReadStates
  <2>3. /\ e.task = "ended" /\ e.connection = q.connection /\ e.disposed = q.disposed /\ e.delivery
    BY <1>2, <1>3 DEF ReadStates
  <2> HIDE DEF e
  <2>4. QED  BY <1>6, <1>7, <2>1, <2>2, <2>3, ReturnKeeps
<1>12. QED  BY <1>8, <1>9, <1>10, <1>11

LEMMA QueryRefusedKeeps ==
  ASSUME NamesDistinct, ReadInv, NEW r \in Reads, QueryRefused(r)
  PROVE  ReadInv'
<1> DEFINE q == reads[r]
<1>1. q.task \in ActiveTasks  BY DEF QueryRefused, Querying, ActiveTasks, QueryTasks
<1>2. /\ q \in ReadStates /\ ReadSound(q) /\ q.connection \in Connections
      /\ q.inner \in {"racing", "returned"}
      /\ running \in [Connections -> Reads \cup {None}] /\ None \notin Reads \cup Connections
  BY <1>1, ActiveRead
<1>3. PICK disposition \in {q.disposition, "discard"} :
        Refuse(r, [Settled(r) EXCEPT !.task = "ended", !.disposition = disposition])
  BY DEF QueryRefused
<1> DEFINE e == [Settled(r) EXCEPT !.task = "ended", !.disposition = disposition]
<1>4. e \in ReadStates  BY <1>2 DEF Settled, ReadStates
<1>5. /\ e.task = "ended" /\ e.inner = q.inner /\ e.connection = q.connection
      /\ e.disposed = q.disposed /\ e.answer = q.answer /\ e.delivery = q.delivery
  BY <1>2 DEF Settled, ReadStates
<1>6. e.answer = "available" => e.delivery  BY <1>2, <1>5 DEF ReadSound
<1>7. /\ running' \in [Connections -> Reads \cup {None}] /\ running'[q.connection] # r
      /\ \A k \in Connections : running'[k] \in {None, running[k]}
  BY <1>2 DEF QueryRefused, Free
<1>8. Refuse(r, e)  BY <1>3
<1> HIDE DEF e
<1>9. QED  BY <1>2, <1>4, <1>5, <1>6, <1>7, <1>8, RefuseKeeps

LEMMA QueryBreaksKeeps ==
  ASSUME NamesDistinct, ReadInv, NEW r \in Reads, QueryBreaks(r)
  PROVE  ReadInv'
<1> DEFINE q == reads[r]
           e == [Interrupted(Settled(r)) EXCEPT !.task = "ended", !.disposition = "discard"]
<1>1. q.task \in ActiveTasks  BY DEF QueryBreaks, Querying, ActiveTasks, QueryTasks
<1>2. /\ q \in ReadStates /\ ReadSound(q) /\ q.connection \in Connections
      /\ q.inner \in {"racing", "returned"}
      /\ running \in [Connections -> Reads \cup {None}] /\ None \notin Reads \cup Connections
  BY <1>1, ActiveRead
<1>3. Refuse(r, e)  BY DEF QueryBreaks
<1>4. Settled(r) \in ReadStates  BY <1>2 DEF Settled, ReadStates
<1>5. e \in ReadStates  BY <1>4 DEF Interrupted, ReadStates
<1>6. /\ e.task = "ended" /\ e.inner = q.inner /\ e.connection = q.connection
      /\ e.disposed = q.disposed /\ e.answer = q.answer /\ e.delivery = q.delivery
      /\ e.disposition = "discard"
  BY <1>2, <1>4 DEF Settled, Interrupted, ReadStates
<1>7. e.answer = "available" => e.delivery  BY <1>2, <1>6 DEF ReadSound
<1>8. /\ running' \in [Connections -> Reads \cup {None}]
      /\ \A k \in Connections : running'[k] \in {None, running[k]}
  BY <1>2 DEF QueryBreaks, Free
<1> HIDE DEF e
<1>9. QED  BY <1>2, <1>3, <1>5, <1>6, <1>7, <1>8, RefuseKeeps

LEMMA CalculateKeeps ==
  ASSUME NamesDistinct, ReadInv, NEW r \in Reads, NEW ok \in BOOLEAN, Calculate(r, ok)
  PROVE  ReadInv'
<1> DEFINE q == reads[r]
           e == [(IF Stopped(q) THEN Interrupted(q) ELSE q) EXCEPT !.task = "ended"]
<1>1. q.task = "get" /\ q.task \in ActiveTasks  BY DEF Calculate, ActiveTasks
<1>2. /\ q \in ReadStates /\ ReadSound(q) /\ Tied(r, q, holders) /\ q.connection \in Connections
      /\ q.inner \in {"racing", "returned"}
      /\ q.inner = "racing" => ~q.interrupted /\ q.disposition = "reusable"
      /\ running \in [Connections -> Reads \cup {None}] /\ None \notin Reads \cup Connections
  BY <1>1, ActiveRead
<1>3. CASE Stopped(q) \/ ~ok
  <2>1. Refuse(r, e) /\ UNCHANGED running  BY <1>3 DEF Calculate
  <2>2. e \in ReadStates  BY <1>2 DEF Interrupted, ReadStates
  <2>3. /\ e.task = "ended" /\ e.inner = q.inner /\ e.connection = q.connection
        /\ e.disposed = q.disposed /\ e.answer = q.answer /\ e.delivery = q.delivery
    BY <1>2 DEF Interrupted, ReadStates
  <2>4. e.answer = "available" => e.delivery  BY <1>2, <2>3 DEF ReadSound
  <2>5. running[q.connection] = r => holders[q.connection] = "closed"
    BY <1>1, <1>2 DEF ReadInv, StatementsTied, QueryTasks
  <2> HIDE DEF e
  <2>6. QED  BY <1>2, <2>1, <2>2, <2>3, <2>4, <2>5, RefuseKeeps
<1>4. CASE ~(Stopped(q) \/ ~ok)
  <2>1. Query(r, q, "deliver")  BY <1>4 DEF Calculate
  <2>2. q.inner = "racing"  BY <1>1, <1>2, <1>4 DEF ReadSound, Stopped
  <2>3. QED  BY <1>1, <1>2, <2>1, <2>2, QueryKeeps DEF QueryTasks
<1>5. QED  BY <1>3, <1>4

LEMMA InnerTimerKeeps ==
  ASSUME NamesDistinct, ReadInv, NEW r \in Reads, InnerTimer(r)
  PROVE  ReadInv'
<1> DEFINE q == reads[r]
           e == Interrupted(q)
<1>1. q.inner = "racing" /\ q \in ReadStates /\ ReadSound(q)  BY DEF InnerTimer, ReadInv
<1>2. q.task \in ActiveTasks /\ ~q.interrupted  BY <1>1 DEF ReadSound
<1>3. /\ Tied(r, q, holders) /\ q.connection \in Connections
      /\ running \in [Connections -> Reads \cup {None}] /\ None \notin Reads \cup Connections
  BY <1>2, ActiveRead
<1>4. Return(r, e, "unavailable") /\ UNCHANGED running  BY DEF InnerTimer
<1>5. e \in ReadStates  BY <1>1, InterruptedTyped
<1>6. /\ e.task = q.task /\ e.connection = q.connection /\ e.disposed = q.disposed
      /\ e.interrupted /\ e.inFlightSql = q.inFlightSql /\ e.answer = q.answer
      /\ e.delivery = q.delivery
      /\ e.inFlightSql => e.disposition = "discard"
  BY <1>1, <1>2 DEF Interrupted, ReadStates
<1>7. e.answer = "available" => e.delivery  BY <1>1, <1>6 DEF ReadSound
<1>8. e.task \in QueryTasks => e.inFlightSql  BY <1>1, <1>6 DEF ReadSound
<1>9. running[q.connection] = r => q.task \in QueryTasks \/ holders[q.connection] = "closed"
  BY <1>3 DEF ReadInv, StatementsTied
<1> HIDE DEF e
<1>10. QED  BY <1>1, <1>3, <1>4, <1>5, <1>6, <1>7, <1>8, <1>9, ReturnKeeps

LEMMA OuterTimerKeeps ==
  ASSUME NamesDistinct, ReadInv, NEW r \in Reads, OuterTimer(r)
  PROVE  ReadInv'
<1>1. reads[r] \in ReadStates /\ ReadSound(reads[r])  BY DEF ReadInv
<1>2. Stop(r, reads[r]) /\ UNCHANGED running /\ reads[r].task # "idle"  BY DEF OuterTimer
<1>3. QED  BY <1>1, <1>2, StopKeeps

LEMMA AbortKeeps ==
  ASSUME NamesDistinct, ReadInv, NEW r \in Reads, Abort(r)
  PROVE  ReadInv'
<1> DEFINE q == reads[r]
           p == [q EXCEPT !.aborted = TRUE]
           e == [Interrupted(p) EXCEPT !.inner = "returned"]
<1>1. q \in ReadStates /\ ReadSound(q)  BY DEF ReadInv
<1>2. p \in ReadStates  BY <1>1 DEF ReadStates
<1>3. /\ p.task = q.task /\ p.connection = q.connection /\ p.disposed = q.disposed
      /\ p.delivery = q.delivery /\ p.inFlightSql = q.inFlightSql /\ p.answer = q.answer
      /\ p.inner = q.inner /\ p.interrupted = q.interrupted /\ p.disposition = q.disposition
      /\ p.aborted
  BY <1>1 DEF ReadStates
<1>4. UNCHANGED running /\ q.task # "idle"  BY DEF Abort
<1>5. CASE q.inner = "racing"
  <2>1. Stop(r, e)  BY <1>3, <1>5 DEF Abort
  <2>2. e \in ReadStates  BY <1>2 DEF Interrupted, ReadStates
  <2>3. /\ e.task = q.task /\ e.connection = q.connection /\ e.disposed = q.disposed
        /\ e.delivery = q.delivery /\ e.inFlightSql = q.inFlightSql /\ e.answer = q.answer
        /\ e.inner = "returned" /\ e.aborted
    BY <1>2, <1>3 DEF Interrupted, ReadStates
  <2> HIDE DEF e
  <2>4. QED  BY <1>1, <1>4, <1>5, <2>1, <2>2, <2>3, StopKeeps
<1>6. CASE q.inner # "racing"
  <2>1. Stop(r, p)  BY <1>3, <1>6 DEF Abort
  <2> HIDE DEF p
  <2>2. QED  BY <1>1, <1>2, <1>3, <1>4, <2>1, StopKeeps
<1>7. QED  BY <1>5, <1>6

LEMMA ServerEndsKeeps ==
  ASSUME NamesDistinct, ReadInv, NEW k \in Connections, ServerEnds(k)
  PROVE  ReadInv'
<1>1. UNCHANGED <<holders, reads>> /\ running' = [running EXCEPT ![k] = None]  BY DEF ServerEnds
<1>2. running' \in [Connections -> Reads \cup {None}]
      /\ \A j \in Connections : running'[j] \in {None, running[j]}
  BY <1>1 DEF ReadInv
<1>3. StatementsTied(reads', holders', running')  BY <1>1, <1>2 DEF ReadInv, StatementsTied
<1>4. QED  BY <1>1, <1>2, <1>3 DEF ReadInv
-----------------------------------------------------------------------------
(* ReadsClean *)

LEMMA ReadInvInit ==
  ASSUME NamesDistinct, PInit  PROVE ReadInv
<1>1. /\ holders = [k \in Connections |-> "new"] /\ running = [k \in Connections |-> None]
      /\ reads = [r \in Reads |-> Unread]
  BY DEF PInit
<1>2. Unread \in ReadStates /\ ReadSound(Unread)
  BY DEF NamesDistinct, Unread, ReadStates, ReadSound, ActiveTasks, QueryTasks
<1>3. \A r \in Reads : Tied(r, Unread, holders)
  BY <1>1 DEF NamesDistinct, Tied, Holds, Unread, ActiveTasks, QueryTasks
<1>4. StatementsTied(reads, holders, running)  BY <1>1 DEF StatementsTied
<1>5. QED  BY <1>1, <1>2, <1>3, <1>4 DEF ReadInv

LEMMA ReadInvStep ==
  ASSUME NamesDistinct, ReadInv, [PNext]_readVars  PROVE ReadInv'
<1>1. CASE Revoke  BY <1>1 DEF Revoke, ReadInv, StatementsTied
<1>2. CASE UNCHANGED readVars  BY <1>2 DEF readVars, ReadInv, StatementsTied
<1>3. ASSUME NEW k \in Connections, ServerEnds(k) PROVE ReadInv'  BY <1>3, ServerEndsKeeps
<1>4. ASSUME NEW r \in Reads, NEW k \in Connections, Connect(r, k) PROVE ReadInv'
  BY <1>4, ConnectKeeps
<1>5. ASSUME NEW r \in Reads, NEW b \in BOOLEAN, Ask(r, b) \/ Calculate(r, b) PROVE ReadInv'
  BY <1>5, AskKeeps, CalculateKeeps
<1>6. ASSUME NEW r \in Reads,
             ConnectFails(r) \/ QuerySucceeds(r) \/ QueryRefused(r) \/ QueryBreaks(r)
      PROVE  ReadInv'
  BY <1>6, ConnectFailsKeeps, QuerySucceedsKeeps, QueryRefusedKeeps, QueryBreaksKeeps
<1>7. ASSUME NEW r \in Reads, TimeIsUp(r) \/ InnerTimer(r) \/ OuterTimer(r) \/ Abort(r)
      PROVE  ReadInv'
  BY <1>7, TimeIsUpKeeps, InnerTimerKeeps, OuterTimerKeeps, AbortKeeps
<1>8. QED  BY <1>1, <1>2, <1>3, <1>4, <1>5, <1>6, <1>7 DEF PNext

LEMMA ReadInvClean ==
  ASSUME NamesDistinct, ReadInv  PROVE ReadsClean
<1>1. ASSUME NEW k \in Connections
      PROVE  /\ running[k] # None => holders[k] \in {running[k], "closed"}
             /\ holders[k] \in Reads => reads[holders[k]].task # "ended"
  BY DEF ReadInv, StatementsTied, Tied, Holds, ActiveTasks, QueryTasks
<1>2. \A r \in Reads : reads[r].answer = "available" => reads[r].delivery
  BY DEF ReadInv, ReadSound
<1>3. QED  BY <1>1, <1>2 DEF ReadsClean

\* The pool stays sound and what is available was permitted, for any number of predictions
\* and connections: timers, aborts, refusals and abandoned tasks of predict.ts and
\* predictionOwner.ts in any order, with statements the server still runs.
THEOREM PoolStaysSound ==
  ASSUME NamesDistinct  PROVE ReadSpec => []ReadsClean
<1>1. PInit => ReadInv  BY ReadInvInit
<1>2. ReadInv /\ [PNext]_readVars => ReadInv'  BY ReadInvStep
<1>3. ReadInv => ReadsClean  BY ReadInvClean
<1>4. QED  BY <1>1, <1>2, <1>3, PTL DEF ReadSpec
=============================================================================
