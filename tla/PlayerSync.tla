----------------------------- MODULE PlayerSync -----------------------------
(***************************************************************************)
(* Players and their statistics.  A scheduled call copies the published    *)
(* statistics, schedules and roster files into tables and records which    *)
(* releases it has copied (playerStatsSync.ts, nflverseRosterSync.ts); the *)
(* call can also be made by hand, so two may overlap, and either may fail  *)
(* anywhere.  Requests meanwhile resolve the player names of the odds      *)
(* against the newest roster and keep the answer (playerCrosswalk.ts).     *)
(***************************************************************************)
EXTENDS Integers, FiniteSets

CONSTANTS
  None,
  Releases,        \* 1..n: the releases of each file
  GamesIn,         \* [Releases -> games a release of the statistics covers]
  ScheduledIn,     \* [Releases -> games a release of the schedules covers]
  RosterIn,        \* [Releases -> players of a release of the roster]
  Names, Score,    \* Score[p][n]: confidence that player p is called n, in hundredths
  Events,          \* sets of players an event and its market admit: teams and positions
  Syncs, Resolvers \* bounds: calls of either kind

VARIABLES
  published,       \* [files -> their newest release]
  syncState,       \* [files -> release recorded as copied, or 0]
  statRows,        \* [games -> the releases its row was made from, or None]
  everWritten,     \* [games -> all rows there have been]
  rosterRows,      \* [players -> release its row is from, or 0]
  stats, roster,   \* [Syncs -> the two halves of a call]
  crosswalk,       \* [Names -> player, or None]
  resolver, answered

playerVars == <<published, syncState, statRows, everWritten, rosterRows, stats, roster,
                crosswalk, resolver, answered>>

Files == {"stats", "schedules", "roster"}
GamesOfSeason == UNION {GamesIn[r] : r \in Releases}
Players == UNION {RosterIn[r] : r \in Releases}
Row(s, d) == [stats |-> s, schedules |-> d]

Publish(file) ==
  /\ published[file] + 1 \in Releases
  /\ published' = [published EXCEPT ![file] = @ + 1]
  /\ UNCHANGED <<syncState, statRows, everWritten, rosterRows, stats, roster, crosswalk, resolver,
                 answered>>

(***************************************************************************)
(* The statistics.                                                         *)
(***************************************************************************)
StatsStep(s, step) ==
  /\ stats' = [stats EXCEPT ![s] = step]
  /\ UNCHANGED <<published, rosterRows, roster, crosswalk, resolver, answered>>

\* The two release times are asked for at once, and answered in any order.
StatsMetadata(s, file) ==
  /\ stats[s].pc = "metadata" /\ file \in {"stats", "schedules"}
  /\ stats[s].updatedAt[file] = 0
  /\ StatsStep(s, [stats[s] EXCEPT !.updatedAt[file] = published[file]])
  /\ UNCHANGED <<syncState, statRows, everWritten>>

\* Neither file has moved: up to date.  Otherwise both are fetched again.
StatsCompare(s) ==
  /\ stats[s].pc = "metadata" /\ \A f \in {"stats", "schedules"} : stats[s].updatedAt[f] # 0
  /\ StatsStep(s, [stats[s] EXCEPT !.pc =
       IF \A f \in {"stats", "schedules"} : syncState[f] = stats[s].updatedAt[f]
         THEN "done" ELSE "fetch"])
  /\ UNCHANGED <<syncState, statRows, everWritten>>

\* A game's rows are made when the schedules know the game.
StatsFetch(s) ==
  /\ stats[s].pc = "fetch"
  /\ StatsStep(s, [stats[s] EXCEPT
       !.pc = "upsert", !.made = Row(published["stats"], published["schedules"]),
       !.left = GamesIn[published["stats"]] \cap ScheduledIn[published["schedules"]]])
  /\ UNCHANGED <<syncState, statRows, everWritten>>

\* upsertStats: one statement for each batch of rows.
StatsUpsert(s, g) ==
  /\ stats[s].pc = "upsert" /\ g \in stats[s].left
  /\ statRows' = [statRows EXCEPT ![g] = stats[s].made]
  /\ everWritten' = [everWritten EXCEPT ![g] = @ \cup {stats[s].made}]
  /\ StatsStep(s, [stats[s] EXCEPT !.left = @ \ {g}])
  /\ UNCHANGED syncState

\* The releases are recorded when every batch is in, each in a statement of its own;
\* in a careless version they are recorded while batches are still to come.
RecordAnyTime(s, file) ==
  /\ stats[s].pc = "upsert" /\ file \in {"stats", "schedules"} \ stats[s].recorded
  /\ syncState' = [syncState EXCEPT ![file] = stats[s].updatedAt[file]]
  /\ StatsStep(s, [stats[s] EXCEPT !.recorded = @ \cup {file}])
  /\ UNCHANGED <<statRows, everWritten>>
StatsRecord(s, file) ==
  /\ stats[s].pc = "upsert" /\ file \in {"stats", "schedules"} \ stats[s].recorded
  /\ stats[s].left = {}
  /\ syncState' = [syncState EXCEPT ![file] = stats[s].updatedAt[file]]
  /\ StatsStep(s, [stats[s] EXCEPT !.recorded = @ \cup {file}])
  /\ UNCHANGED <<statRows, everWritten>>

(***************************************************************************)
(* The roster.                                                             *)
(***************************************************************************)
RosterStep(s, step) ==
  /\ roster' = [roster EXCEPT ![s] = step]
  /\ UNCHANGED <<published, statRows, everWritten, stats, crosswalk, resolver, answered>>

RosterMetadata(s) ==
  /\ roster[s].pc = "metadata"
  /\ RosterStep(s, [roster[s] EXCEPT !.pc = "compare", !.updatedAt = published["roster"]])
  /\ UNCHANGED <<syncState, rosterRows>>

RosterCompare(s) ==
  /\ roster[s].pc = "compare"
  /\ RosterStep(s, [roster[s] EXCEPT !.pc =
       IF syncState["roster"] = roster[s].updatedAt THEN "done" ELSE "fetch"])
  /\ UNCHANGED <<syncState, rosterRows>>

\* A file without a usable player is an error.
RosterFetch(s) ==
  /\ roster[s].pc = "fetch"
  /\ RosterStep(s, [roster[s] EXCEPT !.players = RosterIn[published["roster"]],
       !.pc = IF RosterIn[published["roster"]] = {} THEN "done" ELSE "upsert"])
  /\ UNCHANGED <<syncState, rosterRows>>

\* upsertRosterPlayers: the whole roster in one statement, stamped with the release time.
RosterUpsert(s) ==
  /\ roster[s].pc = "upsert"
  /\ rosterRows' = [p \in Players |-> IF p \in roster[s].players THEN roster[s].updatedAt
                                      ELSE rosterRows[p]]
  /\ RosterStep(s, [roster[s] EXCEPT !.pc = "record"])
  /\ UNCHANGED syncState

RosterRecord(s) ==
  /\ roster[s].pc = "record"
  /\ syncState' = [syncState EXCEPT !["roster"] = roster[s].updatedAt]
  /\ RosterStep(s, [roster[s] EXCEPT !.pc = "done"])
  /\ UNCHANGED rosterRows

\* Either half stops: a fetch or a statement fails, or the call is over its time.
Fail(s) ==
  /\ stats[s].pc # "done" \/ roster[s].pc # "done"
  /\ \/ stats' = [stats EXCEPT ![s].pc = "done"] /\ UNCHANGED roster
     \/ roster' = [roster EXCEPT ![s].pc = "done"] /\ UNCHANGED stats
  /\ UNCHANGED <<published, syncState, statRows, everWritten, rosterRows, crosswalk, resolver,
                 answered>>

(***************************************************************************)
(* The names.                                                              *)
(***************************************************************************)
ResolverStep(k, step) ==
  /\ resolver' = [resolver EXCEPT ![k] = step]
  /\ UNCHANGED <<published, syncState, statRows, everWritten, rosterRows, stats, roster>>

Answer(n, p) == answered' = [answered EXCEPT ![n] = @ \cup {p}]

\* A name that is in the crosswalk is answered from it.
Ask(k, n, event) ==
  /\ resolver[k].pc = "idle"
  /\ IF crosswalk[n] # None
       THEN Answer(n, crosswalk[n]) /\ ResolverStep(k, [resolver[k] EXCEPT !.pc = "done"])
       ELSE /\ UNCHANGED answered
            /\ ResolverStep(k, [pc |-> "match", name |-> n, event |-> event, match |-> None])
  /\ UNCHANGED crosswalk

\* getLatestRosterCandidates: the rows of the newest stamp, in one statement.
LatestRoster == {p \in Players : rosterRows[p] # 0 /\ \A q \in Players : rosterRows[q] <= rosterRows[p]}

\* matchPlayerIdentity: a confident match that no other candidate comes near.
Matches(n, candidates) ==
  {p \in candidates : Score[p][n] >= 94 /\ \A q \in candidates \ {p} : Score[p][n] - Score[q][n] >= 4}

Match(k) ==
  /\ resolver[k].pc = "match"
  /\ LET found == Matches(resolver[k].name, LatestRoster \cap resolver[k].event)
     IN ResolverStep(k, IF found = {} THEN [resolver[k] EXCEPT !.pc = "done"]
                        ELSE [resolver[k] EXCEPT !.pc = "insert", !.match = CHOOSE p \in found : TRUE])
  /\ UNCHANGED <<crosswalk, answered>>

InsertIfAbsent(k) ==
  /\ resolver[k].pc = "insert"
  /\ crosswalk' = [crosswalk EXCEPT ![resolver[k].name] =
       IF @ = None THEN resolver[k].match ELSE @]
  /\ ResolverStep(k, [resolver[k] EXCEPT !.pc = "reread"])
  /\ UNCHANGED answered

\* The row is read again, since another request may have written it first;
\* a careless version answers with its own match.
AnswerOwnMatch(k) ==
  /\ resolver[k].pc = "reread"
  /\ Answer(resolver[k].name, resolver[k].match)
  /\ ResolverStep(k, [resolver[k] EXCEPT !.pc = "done"])
  /\ UNCHANGED crosswalk
ReadAgain(k) ==
  /\ resolver[k].pc = "reread"
  /\ Answer(resolver[k].name, crosswalk[resolver[k].name])
  /\ ResolverStep(k, [resolver[k] EXCEPT !.pc = "done"])
  /\ UNCHANGED crosswalk

YInit ==
  /\ published = [f \in Files |-> 1] /\ syncState = [f \in Files |-> 0]
  /\ statRows = [g \in GamesOfSeason |-> None] /\ everWritten = [g \in GamesOfSeason |-> {}]
  /\ rosterRows = [p \in Players |-> 0]
  /\ stats = [s \in Syncs |-> [pc |-> "metadata", updatedAt |-> Row(0, 0), made |-> None,
                               left |-> {}, recorded |-> {}]]
  /\ roster = [s \in Syncs |-> [pc |-> "metadata", updatedAt |-> 0, players |-> {}]]
  /\ crosswalk = [n \in Names |-> None] /\ answered = [n \in Names |-> {}]
  /\ resolver = [k \in Resolvers |-> [pc |-> "idle", name |-> None, event |-> {}, match |-> None]]

StatsNext ==
  \/ \E f \in {"stats", "schedules"} : Publish(f)
  \/ \E s \in Syncs :
       \/ \E f \in {"stats", "schedules"} : StatsMetadata(s, f) \/ StatsRecord(s, f)
       \/ StatsCompare(s) \/ StatsFetch(s) \/ Fail(s)
       \/ \E g \in GamesOfSeason : StatsUpsert(s, g)

NamesNext ==
  \/ Publish("roster")
  \/ \E s \in Syncs : RosterMetadata(s) \/ RosterCompare(s) \/ RosterFetch(s) \/ RosterUpsert(s)
                      \/ RosterRecord(s) \/ Fail(s)
  \/ \E k \in Resolvers : Match(k) \/ InsertIfAbsent(k) \/ ReadAgain(k)
                          \/ \E n \in Names, event \in Events : Ask(k, n, event)

\* The two halves share nothing but the call that starts them.
YNext == StatsNext \/ NamesNext

\* A name means one player, whichever requests resolve it and against whichever roster
\* (playerCrosswalk.ts: the first insert wins and everyone answers with it).
OneIdentity == \A n \in Names : answered[n] \subseteq {crosswalk[n]}

\* What is recorded as copied was copied: each game both recorded releases know has had a row
\* made from them or from later ones (playerStatsSync.ts: batches first, watermarks last).
RecordedWasCopied ==
  LET s == syncState["stats"] d == syncState["schedules"]
  IN s # 0 /\ d # 0 =>
       \A g \in GamesIn[s] \cap ScheduledIn[d] :
         \E row \in everWritten[g] : row.stats >= s /\ row.schedules >= d

\* Both together: what the tables say of players can be relied on.
PlayersTrue == OneIdentity /\ RecordedWasCopied
=============================================================================
