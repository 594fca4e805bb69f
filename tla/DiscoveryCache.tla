--------------------------- MODULE DiscoveryCache ---------------------------
(***************************************************************************)
(* The odds of one event that the props route serves (oddsCacheRepo.ts):   *)
(* per-market rows with a freshness window, one upstream request for the   *)
(* markets that are missing, shared by the callers of the same instance    *)
(* that miss the same set, and rows written back by each of those callers. *)
(* A response stands for the time it was captured.                         *)
(***************************************************************************)
EXTENDS Integers, FiniteSets

CONSTANTS
  None,
  Calls,       \* bound: requests for odds
  Instances,   \* processes that serve them
  Markets,
  CACHE_TTL, FORCE_REFRESH_COOLDOWN,
  Kickoff,     \* when the event starts
  MaxTime,     \* bound of the clock
  MaxFetches   \* bound: upstream requests

VARIABLES
  clock,
  cache,        \* event_market_odds_cache: [Markets -> None or [payload, fetchedAt]]
  calls,        \* [Calls -> a request and what it knows]
  fetches,      \* upstream requests, in the order they are sent
  observations  \* odds_observations: the requests kept as evidence

cacheVars == <<clock, cache, calls, fetches, observations>>

Idle == [stage |-> "idle", instance |-> None, markets |-> {}, forceRefresh |-> FALSE, rows |-> None,
         decidedAt |-> None, missing |-> {}, fetch |-> None, toWrite |-> {}]
Unsent == [stage |-> "unsent", instance |-> None, markets |-> {}, payload |-> None,
           capturedAt |-> None, persisted |-> FALSE]
Fetches == 1..MaxFetches

TimePasses ==
  /\ clock < MaxTime /\ clock' = clock + 1
  /\ UNCHANGED <<cache, calls, fetches, observations>>

\* GET: a request with known markets reads their rows.
Ask(c, instance, markets, force) ==
  /\ calls[c].stage = "idle"
  /\ calls' = [calls EXCEPT ![c] =
       [Idle EXCEPT !.stage = "read", !.instance = instance, !.markets = markets,
                    !.forceRefresh = force, !.rows = [m \in markets |-> cache[m]]]]
  /\ UNCHANGED <<clock, cache, fetches, observations>>

FreshnessThreshold(c) == IF calls[c].forceRefresh THEN FORCE_REFRESH_COOLDOWN ELSE CACHE_TTL

IsFresh(c, row) == row # None /\ clock - row.fetchedAt < FreshnessThreshold(c)
MissingMarkets(c) == {m \in calls[c].markets : ~IsFresh(c, calls[c].rows[m])}

\* inFlightFetches: the request of this instance for exactly these markets.
InFlight(instance, markets) ==
  {f \in Fetches : fetches[f].stage \in {"sent", "received"}
                   /\ fetches[f].instance = instance /\ fetches[f].markets = markets}

\* The call has found its request, and its instance matters no more.
Decided(c) == [calls[c] EXCEPT !.stage = "fetching", !.instance = None, !.decidedAt = clock,
                               !.missing = MissingMarkets(c)]

AnswerFromCache(c) ==
  /\ calls[c].stage = "read" /\ MissingMarkets(c) = {}
  /\ calls' = [calls EXCEPT ![c] = [Decided(c) EXCEPT !.stage = "answered"]]
  /\ UNCHANGED <<clock, cache, fetches, observations>>

Join(c) ==
  /\ calls[c].stage = "read" /\ MissingMarkets(c) # {}
  /\ \E f \in InFlight(calls[c].instance, MissingMarkets(c)) :
       calls' = [calls EXCEPT ![c] = [Decided(c) EXCEPT !.fetch = f]]
  /\ UNCHANGED <<clock, cache, fetches, observations>>

Lead(c) ==
  /\ calls[c].stage = "read" /\ MissingMarkets(c) # {}
  /\ InFlight(calls[c].instance, MissingMarkets(c)) = {}
  /\ \E f \in Fetches :
       /\ fetches[f] = Unsent /\ \A g \in 1..(f - 1) : fetches[g] # Unsent
       /\ calls' = [calls EXCEPT ![c] = [Decided(c) EXCEPT !.fetch = f]]
       /\ fetches' = [fetches EXCEPT ![f] =
            [Unsent EXCEPT !.stage = "sent", !.instance = calls[c].instance,
                           !.markets = MissingMarkets(c)]]
  /\ UNCHANGED <<clock, cache, observations>>

\* The response arrives and is stamped.
Respond(f) ==
  /\ fetches[f].stage = "sent"
  /\ fetches' = [fetches EXCEPT ![f].stage = "received", ![f].payload = clock,
                                ![f].capturedAt = clock]
  /\ UNCHANGED <<clock, cache, calls, observations>>

\* Network and HTTP errors: every caller that waits for the request fails with it.
FetchFails(f) ==
  /\ fetches[f].stage = "sent"
  /\ fetches' = [fetches EXCEPT ![f] = [Unsent EXCEPT !.stage = "failed"]]
  /\ calls' = [c \in Calls |-> IF calls[c].fetch = f THEN [Idle EXCEPT !.stage = "failed"]
                               ELSE calls[c]]
  /\ UNCHANGED <<clock, cache, observations>>

\* persistDiscoveryObservation: not after the kickoff, and its failure is only logged.
Persists(f, ok) == ok /\ fetches[f].capturedAt < Kickoff

\* The request settles: it leaves the map and the callers that wait for it go on to write.
Settle(f, ok) ==
  /\ fetches[f].stage = "received"
  /\ fetches' = [fetches EXCEPT ![f].stage = "settled", ![f].instance = None,
                               ![f].markets = {}, ![f].persisted = Persists(f, ok)]
  /\ observations' = IF Persists(f, ok) THEN observations \cup {f} ELSE observations
  /\ calls' = [c \in Calls |->
       IF calls[c].fetch = f THEN [calls[c] EXCEPT !.stage = "writing", !.toWrite = calls[c].missing]
       ELSE calls[c]]
  /\ UNCHANGED <<clock, cache>>

\* The row a caller writes, after a version stamped when it is written.
RowWrittenNow(f) == [payload |-> fetches[f].payload, fetchedAt |-> clock]
CacheRow(f) == [payload |-> fetches[f].payload, fetchedAt |-> fetches[f].capturedAt]

\* The writes are independent, and one that fails is only logged.
WriteRow(c, m, ok) ==
  /\ calls[c].stage = "writing" /\ m \in calls[c].toWrite
  /\ calls' = [calls EXCEPT ![c].toWrite = @ \ {m}]
  /\ cache' = IF ok THEN [cache EXCEPT ![m] = CacheRow(calls[c].fetch)] ELSE cache
  /\ UNCHANGED <<clock, fetches, observations>>

Answer(c) ==
  /\ calls[c].stage = "writing" /\ calls[c].toWrite = {}
  /\ calls' = [calls EXCEPT ![c].stage = "answered"]
  /\ UNCHANGED <<clock, cache, fetches, observations>>

\* What an answer shows of a market (the merged slice) and what it says of it (the origin).
Shown(c, m) == IF m \in calls[c].missing THEN fetches[calls[c].fetch].payload
               ELSE calls[c].rows[m].payload
Origin(c, m) ==
  IF m \in calls[c].missing
    THEN [origin |-> "upstream", capturedAt |-> fetches[calls[c].fetch].capturedAt,
          observationPersisted |-> fetches[calls[c].fetch].persisted]
    ELSE [origin |-> "cache", capturedAt |-> calls[c].rows[m].fetchedAt,
          observationPersisted |-> FALSE]

KInit ==
  /\ clock = 0
  /\ cache = [m \in Markets |-> None]
  /\ calls = [c \in Calls |-> Idle]
  /\ fetches = [f \in Fetches |-> Unsent]
  /\ observations = {}

KNext ==
  \/ TimePasses
  \/ \E c \in Calls :
       \/ \E instance \in Instances, markets \in (SUBSET Markets) \ {{}}, force \in BOOLEAN :
            Ask(c, instance, markets, force)
       \/ AnswerFromCache(c) \/ Join(c) \/ Lead(c) \/ Answer(c)
       \/ \E m \in Markets, ok \in BOOLEAN : WriteRow(c, m, ok)
  \/ \E f \in Fetches : Respond(f) \/ FetchFails(f) \/ \E ok \in BOOLEAN : Settle(f, ok)

\* An answer tells the truth about its odds, whoever fetched them and however late and in
\* whatever order the rows were written: its time is when they were captured, a cached
\* market is within the window the request allows, and what it calls persisted is kept as
\* evidence from before the kickoff (oddsCacheRepo.ts, getOrFetchMarketOdds).
AnswersTrue ==
  \A c \in Calls : calls[c].stage = "answered" => \A m \in calls[c].markets :
    LET o == Origin(c, m)
    IN /\ o.capturedAt = Shown(c, m)
       /\ o.origin = "cache" => calls[c].decidedAt - Shown(c, m) < FreshnessThreshold(c)
       /\ o.observationPersisted => calls[c].fetch \in observations /\ o.capturedAt < Kickoff
=============================================================================
