---------------------------- MODULE OddsEvidence ----------------------------
(***************************************************************************)
(* The append-only odds evidence of one market: a response of the provider *)
(* is normalized (oddsSnapshot.ts) and stored as an observation, whose     *)
(* quotes are kept once for all observations of the same content           *)
(* (oddsSnapshotRepo.ts); a later question about a moment in the past is   *)
(* answered from the latest observation before it (historicalOddsQuery.ts).*)
(***************************************************************************)
EXTENDS Integers, FiniteSets

CONSTANTS
  None,
  Observations,   \* bound: responses captured
  Responses,      \* bound: what the provider may answer, [Bookmakers -> None or outcomes]
  Bookmakers,
  RawNames,       \* numbers, to have an order
  Lines, PlayerIds,
  EventStart,     \* when the event begins
  MaxTime         \* bound: the clock stops here

VARIABLES
  now,
  captures,      \* [Observations -> None or a response with its time]
  evidence,      \* the stored observations: captured_at, created_at, status and content hash
  quoteSets,     \* the stored quote sets: content hash and quotes
  resolvedNames  \* player_crosswalk: [RawNames -> None or a player id]

evidenceVars == <<now, captures, evidence, quoteSets, resolvedNames>>

(***************************************************************************)
(* normalizeMarketSnapshot: a quote pair is kept where a bookmaker offers  *)
(* exactly one valid over and one under for a name at a point.             *)
(***************************************************************************)
ValidOutcome(o) == o.price > 1
Offers(response, b, name, point, direction) ==
  {o \in response[b] : ValidOutcome(o) /\ o.name = name /\ o.point = point /\ o.direction = direction}

Quotes(response) ==
  UNION {{[book |-> b, name |-> o.name, point |-> o.point, direction |-> o.direction, price |-> o.price] :
            o \in {p \in response[b] : ValidOutcome(p) /\ \A direction \in {"over", "under"} :
                     Cardinality(Offers(response, b, p.name, p.point, direction)) = 1}} :
         b \in {c \in Bookmakers : response[c] # None}}

Status(response) ==
  IF \A b \in Bookmakers : response[b] = None THEN "unavailable"
  ELSE IF \A b \in Bookmakers : response[b] \in {None, {}} THEN "empty"
  ELSE IF Quotes(response) = {} THEN "invalid" ELSE "returned"

\* quoteContentHash: a digest stands for what is digested;
\* a version that leaves the prices out.
HashWithoutPrices(quotes) == {[q EXCEPT !.price = 0] : q \in quotes}
ContentHash(quotes) == quotes

Capture(o, response) ==
  /\ captures[o] = None
  /\ captures' = [captures EXCEPT ![o] = [response |-> response, at |-> now]]
  /\ UNCHANGED <<now, evidence, quoteSets, resolvedNames>>

\* One statement: a quote set that is there already is taken as it is.
Stored(hash, quotes) ==
  IF \E s \in quoteSets : s.hash = hash THEN quoteSets
  ELSE quoteSets \cup {[hash |-> hash, quotes |-> quotes]}

\* Evidence is captured before the event, and an observation is stored once; a failed
\* statement leaves nothing.
PersistObservation(o) ==
  LET c == captures[o]
      hash == ContentHash(Quotes(c.response))
  IN /\ c # None /\ c.at < EventStart
     /\ \A p \in evidence : p.id # o
     /\ evidence' = evidence \cup
          {[id |-> o, at |-> c.at, created |-> Cardinality(evidence),
            status |-> Status(c.response), hash |-> hash]}
     /\ quoteSets' = IF Status(c.response) = "returned" THEN Stored(hash, Quotes(c.response))
                     ELSE quoteSets
     /\ UNCHANGED <<now, captures, resolvedNames>>

\* A name is resolved once, by insertCrosswalkIfAbsent.
Resolve(name, id) ==
  /\ resolvedNames[name] = None
  /\ resolvedNames' = [resolvedNames EXCEPT ![name] = id]
  /\ UNCHANGED <<now, captures, evidence, quoteSets>>

Tick == now < MaxTime /\ now' = now + 1 /\ UNCHANGED <<captures, evidence, quoteSets, resolvedNames>>

(***************************************************************************)
(* Questions.                                                              *)
(***************************************************************************)
\* LATEST_OBSERVATION_SQL, without its quotes.
Latest(cutoff) ==
  LET before == {p \in evidence : p.at <= cutoff}
      later(p, q) == p.at > q.at \/ (p.at = q.at /\ p.created >= q.created)
  IN IF before = {} THEN None ELSE CHOOSE p \in before : \A q \in before : later(p, q)

StoredQuotes(p) == UNION {s.quotes : s \in {t \in quoteSets : t.hash = p.hash}}

OfPlayer(quotes, player) ==
  {q \in quotes : IF player.kind = "provider-name" THEN q.name = player.value
                  ELSE resolvedNames[q.name] = player.value}

\* Several names of a bookmaker may be the player's: the last in order is taken.
PriceOf(quotes, book, direction) ==
  LET S == {q \in quotes : q.book = book /\ q.direction = direction}
  IN IF S = {} THEN None ELSE (CHOOSE q \in S : \A r \in S : r.name <= q.name).price

Consensus(quotes) ==
  {pair \in {[book |-> b, over |-> PriceOf(quotes, b, "over"), under |-> PriceOf(quotes, b, "under")] :
               b \in Bookmakers} : pair.over # None /\ pair.under # None}

\* What is answered is from before the moment asked about and before the event, or the
\* question fails.
Provenance(p, cutoff) == p.at <= cutoff /\ p.at < EventStart

Unavailable(reason) == [reason |-> reason, pairs |-> {}]

HistoricalConsensus(cutoff, player, line) ==
  LET p == Latest(cutoff)
      ofPlayer == OfPlayer(StoredQuotes(p), player)
      atLine == {q \in ofPlayer : q.point = line}
  IN IF p = None THEN Unavailable("no-observation")
     ELSE IF ~Provenance(p, cutoff) THEN Unavailable("error")
     ELSE IF p.status # "returned" THEN Unavailable(p.status)
     ELSE IF ofPlayer = {} THEN Unavailable("player-not-found-in-observation")
     ELSE IF atLine = {} THEN Unavailable("exact-line-not-found")
     ELSE IF Consensus(atLine) = {} THEN Unavailable("no-valid-two-way-quotes")
     ELSE [reason |-> "available", pairs |-> Consensus(atLine)]

EInit ==
  /\ now = 0 /\ captures = [o \in Observations |-> None] /\ evidence = {} /\ quoteSets = {}
  /\ resolvedNames = [n \in RawNames |-> None]

ENext ==
  \/ Tick
  \/ \E o \in Observations : PersistObservation(o) \/ \E response \in Responses : Capture(o, response)
  \/ \E n \in RawNames, id \in PlayerIds : Resolve(n, id)

(***************************************************************************)
(* What the answers promise.                                               *)
(***************************************************************************)
\* The pairs of prices a response offers a player at a line, name by name.
Prices(response) ==
  {o.price : o \in UNION {response[b] : b \in {c \in Bookmakers : response[c] # None}}}
Offered(response, player, line) ==
  {pair \in [book : Bookmakers, name : RawNames, over : Prices(response), under : Prices(response)] :
     /\ response[pair.book] # None
     /\ IF player.kind = "provider-name" THEN pair.name = player.value
        ELSE resolvedNames[pair.name] = player.value
     /\ \A direction \in {"over", "under"} :
          {o.price : o \in Offers(response, pair.book, pair.name, line, direction)} =
            {IF direction = "over" THEN pair.over ELSE pair.under}}

\* A question about a moment never fails for its times, and is answered with what the
\* provider offered then, in the last
\* response captured by that moment and stored at all: prices of one bookmaker that it
\* offered together, every bookmaker that had such a pair, and none where it had not,
\* although observations share their quotes and are stored in any order (oddsSnapshot.ts,
\* oddsSnapshotRepo.ts, historicalOddsQueryRepo.ts).
EvidenceTrue ==
  \A cutoff \in 0..MaxTime, line \in Lines,
     player \in [kind : {"provider-name"}, value : RawNames] \cup [kind : {"trusted-id"}, value : PlayerIds] :
    LET a == HistoricalConsensus(cutoff, player, line)
        p == Latest(cutoff)
        offered == Offered(captures[p.id].response, player, line)
    IN p = None \/
         /\ a.reason # "error" /\ captures[p.id].at = p.at
         /\ {pair.book : pair \in a.pairs} = {pair.book : pair \in offered}
         /\ \A pair \in a.pairs :
              \E q \in offered : q.book = pair.book /\ q.over = pair.over /\ q.under = pair.under
=============================================================================
