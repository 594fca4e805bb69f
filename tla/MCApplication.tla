--------------------------- MODULE MCApplication ---------------------------
(***************************************************************************)
(* Parts of the application and its tools.  They share no state, so one    *)
(* part is chosen at the start and only it takes steps.                    *)
(***************************************************************************)
EXTENDS Integers, TLC

CONSTANTS
  None,
  Props, Windows, MAX_TICKS, MaxStreams, MaxSessions,
  Calls, Instances, Markets, CACHE_TTL, FORCE_REFRESH_COOLDOWN, Kickoff, MaxTime, MaxFetches,
  Games, nextWeeksGame, PropMarkets, MaxWeek, MaxSlateLoads, MaxDiscoveries, MaxMounts,
  Uids, Devices, WatchToggle, MaxGenerations,
  veteran, rookie, other, week1, week2, Releases, Names, Syncs, Resolvers,
  Reads, Connections,
  Runners, MaxDrifts,
  Observations, Bookmakers, RawNames, Lines, PlayerIds, EventStart,
  Change, Summer, Winter, WeekOne, EveningHours, Activations, FarInterval, ActiveInterval,
  MaxCheckpoints

VARIABLES
  part,
  streams, opened, primaryWatch, sampleWindow, historySessionId, eventSource, staleTimer,
  reconnectTimer, connectionStatus, watchlist,
  clock, cache, calls, fetches, observations,
  week, realSlate, realSlateStatus, selectedEventId, checkedMarketKeys, discovered,
  discoveryStatus, mount, slateLoads, latestLoad, discoveries, requestRef,
  accounts, documents, uid, identityGeneration, dataVerified, goal, watch, requests, loaded,
  pageFetch, submit, reported,
  published, syncState, statRows, everWritten, rosterRows, stats, roster, crosswalk, resolver,
  answered,
  holders, running, reads, rights,
  catalog, ledger, migrationLock, runners, ran, drifts, drifted,
  now, captures, evidence, quoteSets, resolvedNames,
  plan

\* One game is played in the second week, the others in the first.
GameWeek == [g \in Games |-> IF g = nextWeeksGame THEN 2 ELSE 1]

\* The second release of the statistics and schedules adds a week.
GamesIn == [r \in Releases |-> IF r = 1 THEN {week1} ELSE {week1, week2}]
ScheduledIn == GamesIn

\* Two players of one name on one team, one of them only in the second roster; and one
\* elsewhere whose name is near enough.
RosterIn == [r \in Releases |-> IF r = 1 THEN {veteran, other} ELSE {veteran, rookie, other}]
Score == [p \in {veteran, rookie, other} |-> [n \in Names |-> IF p = other THEN 96 ELSE 100]]
Events == {{veteran, rookie}, {other}}

\* Three migrations: the first creates only what is not there, the last leaves the catalog as
\* it is.
Creates == <<{"lines"}, {"evidence"}, {}>>
IfNotExists == {1}
Extras == {"other"}

\* A market of two bookmakers that is absent, empty or invalid; that returns one price or
\* another for one name, at a second bookmaker for a second name or line; and what is to be
\* left out: a second price of the same offer, a price that is none.
Outcome(name, direction, point, price) ==
  [name |-> name, direction |-> direction, point |-> point, price |-> price]
Pair(name, point, over, under) ==
  {Outcome(name, "over", point, over), Outcome(name, "under", point, under)}
Market(first, second) == [b \in Bookmakers |-> IF b = "b1" THEN first ELSE second]
Responses ==
  {Market(None, None), Market({}, None), Market({Outcome(1, "over", 1, 2)}, None),
   Market(Pair(1, 1, 1, 2), {}),
   Market(Pair(1, 1, 2, 2), None), Market(Pair(1, 1, 3, 2), None),
   Market(Pair(1, 1, 2, 3), Pair(2, 1, 3, 2)),
   Market(Pair(1, 1, 2, 2) \cup Pair(2, 1, 3, 3), Pair(1, 2, 2, 2)),
   Market(Pair(1, 1, 2, 2) \cup {Outcome(1, "over", 1, 3)}, Pair(2, 1, 3, 2))}

\* Games of every day of two weeks, in the morning, at noon, in the afternoon and at night;
\* the clocks change on the first Sunday.
Kickoffs ==
  {d * 96 + h + (IF d < 5 THEN Summer ELSE Winter) : d \in 0..13, h \in {38, 52, 65, 81, 88}}

Stream == INSTANCE OddsStream
Cache == INSTANCE DiscoveryCache
Slate == INSTANCE SlateBrowsing
Account == INSTANCE Accounts
Player == INSTANCE PlayerSync
Reading == INSTANCE Prediction
Migration == INSTANCE Migrations
Odds == INSTANCE OddsEvidence
Schedule == INSTANCE CheckpointSchedule

streamVars == <<streams, opened, primaryWatch, sampleWindow, historySessionId, eventSource,
                staleTimer, reconnectTimer, connectionStatus, watchlist>>
cacheVars == <<clock, cache, calls, fetches, observations>>
slateVars == <<week, realSlate, realSlateStatus, selectedEventId, checkedMarketKeys, discovered,
               discoveryStatus, mount, slateLoads, latestLoad, discoveries, requestRef>>
accountVars == <<accounts, documents, uid, identityGeneration, dataVerified, goal, watch, requests,
                 loaded, pageFetch, submit, reported>>
playerVars == <<published, syncState, statRows, everWritten, rosterRows, stats, roster, crosswalk,
                resolver, answered>>
readVars == <<holders, running, reads, rights>>
migrationVars == <<catalog, ledger, migrationLock, runners, ran, drifts, drifted>>
evidenceVars == <<now, captures, evidence, quoteSets, resolvedNames>>
toolVars == <<readVars, migrationVars, evidenceVars, plan>>
vars == <<part, streamVars, cacheVars, slateVars, accountVars, playerVars, toolVars>>

Init ==
  /\ part \in {"stream", "cache", "slate", "home", "deletion", "submissions", "stats", "names",
              "prediction", "migrations", "evidence", "schedule"}
  /\ Stream!SInit
  /\ Cache!KInit
  /\ Slate!BInit
  /\ Account!AInit
  /\ part \notin {"home", "deletion"} => \A u \in Uids : documents[u] = None
  /\ Player!YInit
  /\ Reading!PInit
  /\ Migration!GInit
  /\ Odds!EInit
  /\ Schedule!LInit
  /\ part # "migrations" => catalog = {} /\ \A r \in Runners : runners[r].known = 1 /\ runners[r].approval

Next ==
  /\ part' = part
  /\ \/ part = "stream" /\ Stream!SNext
        /\ UNCHANGED <<cacheVars, slateVars, accountVars, playerVars, toolVars>>
     \/ part = "cache" /\ Cache!KNext
        /\ UNCHANGED <<streamVars, slateVars, accountVars, playerVars, toolVars>>
     \/ part = "slate" /\ Slate!BNext
        /\ UNCHANGED <<streamVars, cacheVars, accountVars, playerVars, toolVars>>
     \/ part = "home" /\ (Account!ServerNext \/ Account!HomeNext)
        /\ UNCHANGED <<streamVars, cacheVars, slateVars, playerVars, toolVars>>
     \/ part = "deletion" /\ Account!DeletionNext
        /\ UNCHANGED <<streamVars, cacheVars, slateVars, playerVars, toolVars>>
     \/ part = "submissions" /\ Account!SubmissionsNext
        /\ UNCHANGED <<streamVars, cacheVars, slateVars, playerVars, toolVars>>
     \/ part = "stats" /\ Player!StatsNext
        /\ UNCHANGED <<streamVars, cacheVars, slateVars, accountVars, toolVars>>
     \/ part = "names" /\ Player!NamesNext
        /\ UNCHANGED <<streamVars, cacheVars, slateVars, accountVars, toolVars>>
     \/ part = "prediction" /\ Reading!PNext
        /\ UNCHANGED <<streamVars, cacheVars, slateVars, accountVars, playerVars, migrationVars,
                       evidenceVars, plan>>
     \/ part = "migrations" /\ Migration!GNext
        /\ UNCHANGED <<streamVars, cacheVars, slateVars, accountVars, playerVars, readVars,
                       evidenceVars, plan>>
     \/ part = "evidence" /\ Odds!ENext
        /\ UNCHANGED <<streamVars, cacheVars, slateVars, accountVars, playerVars, readVars,
                       migrationVars, plan>>
     \/ part = "schedule" /\ Schedule!LNext
        /\ UNCHANGED <<streamVars, cacheVars, slateVars, accountVars, playerVars, readVars,
                       migrationVars, evidenceVars>>

\* Values of a set are alike.  Two pairs of values stand for all the sets that have two of
\* them, so that there are few permutations to try.
Symmetry == Permutations(Props) \cup Permutations(Windows)

Spec == Init /\ [][Next]_vars

\* Each property is evaluated in the part it is about: the others stay in their first state.

\* What the page says of the watched prop is so (OddsStream, useLiveOddsStream.ts).
ScreenTrue == part = "stream" => Stream!ScreenTrue

\* An answer of the odds cache is what it says it is (DiscoveryCache, oddsCacheRepo.ts).
AnswersTrue == part = "cache" => Cache!AnswersTrue

\* The props shown are those of the selection (SlateBrowsing, SlateBrowser.tsx).
ShownIsSelected == part = "slate" => Slate!ShownIsSelected

\* What a page shows as verified is the user's own (Accounts, useInitAuth.ts).
DataIsOwn == part \in {"home", "deletion", "submissions"} => Account!DataIsOwn

\* Who is told so has no account any more (Accounts, accountDeletion.ts).
SuccessMeansDeleted == part \in {"home", "deletion", "submissions"} => Account!SuccessMeansDeleted

\* One player for a name; what is recorded as copied was copied (PlayerSync, playerStatsSync.ts).
PlayersTrue == part \in {"stats", "names"} => Player!PlayersTrue

\* The pool stays sound and a prediction is permitted (Prediction, predictionOwner.ts).
ReadsClean == part = "prediction" => Reading!ReadsClean

\* The ledger never lies (Migrations, core.mjs and plans.mjs).
LedgerTrue == part = "migrations" => Migration!LedgerTrue

\* The past is answered with what was offered then (OddsEvidence, historicalOddsQuery.ts).
EvidenceTrue == part = "evidence" => Odds!EvidenceTrue

\* A game is looked at as planned (CheckpointSchedule, oddsCollectionPolicy.ts).
ScheduleSound == part = "schedule" => Schedule!ScheduleSound
=============================================================================
