--------------------------- MODULE SlateBrowsing ---------------------------
(***************************************************************************)
(* The slate browser (SlateBrowser.tsx over matchupSlice.ts): the page     *)
(* reloads the games of the week on a timer and on focus, the user selects *)
(* a game and markets and asks for their props, and answers come back in   *)
(* any order.  The component may be unmounted and mounted anew; the store  *)
(* stays, and so do the discovery requests of the old component.           *)
(***************************************************************************)
EXTENDS Integers, FiniteSets

CONSTANTS
  None,
  Games, GameWeek,   \* the games, and the week each is played in
  PropMarkets,
  MaxWeek, MaxSlateLoads, MaxDiscoveries, MaxMounts   \* bounds

VARIABLES
  week,              \* the server's current slate week
  realSlate, realSlateStatus,
  selectedEventId, checkedMarketKeys,
  discovered,        \* discoveredProps with the event and markets it is for, or None
  discoveryStatus,
  mount,             \* the component instance on the page
  slateLoads,        \* requests for the slate, oldest first
  latestLoad,        \* the load of the component's latest generation
  discoveries,       \* requests for props, oldest first
  requestRef         \* discoveryRequestRef of every instance there was

storeVars == <<realSlate, realSlateStatus, selectedEventId, checkedMarketKeys, discovered,
               discoveryStatus>>
browserVars == <<week, storeVars, mount, slateLoads, latestLoad, discoveries, requestRef>>

Identity(game, markets) == [game |-> game, markets |-> markets]
Mounts == 1..MaxMounts

\* A generation is a fresh number: what matters is the request that took it last, if any.
Ref(request, identity) == [request |-> request, identity |-> identity]

\* Requests after one more, and requests that have ended.
Added(requests, new) ==
  [n \in 1..Cardinality(DOMAIN requests) + 1 |-> IF n \in DOMAIN requests THEN requests[n] ELSE new]
Loading(m) == [mount |-> m, answer |-> None, state |-> "sent"]
Loaded == [mount |-> None, answer |-> None, state |-> "done"]
Discovering(m, identity) == [mount |-> m, identity |-> identity, aborted |-> FALSE, pending |-> TRUE]
DiscoveryDone == [mount |-> None, identity |-> None, aborted |-> FALSE, pending |-> FALSE]

\* The pending requests of the mounted component are aborted.
Aborted == [d \in DOMAIN discoveries |->
  IF discoveries[d].mount = mount THEN [discoveries[d] EXCEPT !.aborted = TRUE] ELSE discoveries[d]]

NextWeek ==
  /\ week < MaxWeek /\ week' = week + 1
  /\ UNCHANGED <<storeVars, mount, slateLoads, latestLoad, discoveries, requestRef>>

(***************************************************************************)
(* The slate.                                                              *)
(***************************************************************************)
\* loadSlate: a new generation, whatever is still under way.
LoadSlate ==
  /\ Cardinality(DOMAIN slateLoads) < MaxSlateLoads
  /\ slateLoads' = Added(slateLoads, Loading(mount))
  /\ latestLoad' = Cardinality(DOMAIN slateLoads) + 1
  /\ UNCHANGED <<week, storeVars, mount, discoveries, requestRef>>

\* fetchSlateEvents on the server: the games of its current week, or an error.
SlateAnswered(n, ok) ==
  /\ slateLoads[n].state = "sent"
  /\ slateLoads' = [slateLoads EXCEPT ![n].state = "answered",
       ![n].answer = IF ok THEN {g \in Games : GameWeek[g] = week} ELSE None]
  /\ UNCHANGED <<week, storeVars, mount, latestLoad, discoveries, requestRef>>

SlateIsCurrent(n) == slateLoads[n].mount = mount /\ n = latestLoad

\* The identity effect: what is in flight for another selection is aborted.
EffectOfIdentity(game, markets) ==
  /\ requestRef' = [requestRef EXCEPT ![mount] = Ref(None, Identity(game, markets))]
  /\ discoveries' = Aborted

\* The store's reset of a selection that has changed.
Select(game, markets) ==
  /\ selectedEventId' = game /\ checkedMarketKeys' = markets
  /\ discovered' = None /\ discoveryStatus' = "idle"
  /\ EffectOfIdentity(game, markets)

SetRealSlate(events) ==
  /\ realSlate' = events /\ realSlateStatus' = "loaded"
  /\ IF selectedEventId = None \/ selectedEventId \in events
       THEN UNCHANGED <<selectedEventId, checkedMarketKeys, discovered, discoveryStatus,
                        discoveries, requestRef>>
       ELSE Select(None, {})

ReceiveSlate(n) ==
  /\ slateLoads[n].state = "answered"
  /\ slateLoads' = [slateLoads EXCEPT ![n] = Loaded]
  /\ IF ~SlateIsCurrent(n) THEN UNCHANGED <<storeVars, discoveries, requestRef>>
     ELSE IF slateLoads[n].answer # None THEN SetRealSlate(slateLoads[n].answer)
     ELSE /\ realSlateStatus' = "error"
          /\ UNCHANGED <<realSlate, selectedEventId, checkedMarketKeys, discovered,
                         discoveryStatus, discoveries, requestRef>>
  /\ UNCHANGED <<week, mount, latestLoad>>

(***************************************************************************)
(* The selection; its controls are there while the slate is shown.         *)
(***************************************************************************)
SelectGame(game) ==
  /\ realSlateStatus = "loaded" /\ game \in realSlate \cup {None} /\ game # selectedEventId
  /\ Select(game, {})
  /\ UNCHANGED <<week, realSlate, realSlateStatus, mount, slateLoads, latestLoad>>

ToggleMarket(m) ==
  /\ realSlateStatus = "loaded" /\ selectedEventId # None
  /\ Select(selectedEventId,
            IF m \in checkedMarketKeys THEN checkedMarketKeys \ {m} ELSE checkedMarketKeys \cup {m})
  /\ UNCHANGED <<week, realSlate, realSlateStatus, mount, slateLoads, latestLoad>>

(***************************************************************************)
(* The props of the selection.                                             *)
(***************************************************************************)
Current == Identity(selectedEventId, checkedMarketKeys)

\* fetchDiscoveredProps, by "Show props" or "Refresh odds".
FetchDiscoveredProps ==
  /\ realSlateStatus = "loaded" /\ discoveryStatus # "loading"
  /\ selectedEventId # None /\ checkedMarketKeys # {}
  /\ Cardinality(DOMAIN discoveries) < MaxDiscoveries
  /\ requestRef' = [requestRef EXCEPT ![mount] =
       Ref(Cardinality(DOMAIN discoveries) + 1, Current)]
  /\ discoveries' = Added(Aborted, Discovering(mount, Current))
  /\ discoveryStatus' = "loading"
  /\ UNCHANGED <<week, realSlate, realSlateStatus, selectedEventId, checkedMarketKeys,
                 discovered, mount, slateLoads, latestLoad>>

\* isCurrent, after a version that asks the component alone.
IsComponentsCurrent(d) ==
  /\ ~discoveries[d].aborted
  /\ requestRef[discoveries[d].mount] = Ref(d, discoveries[d].identity)
IsCurrentDiscovery(d) ==
  /\ ~discoveries[d].aborted
  /\ requestRef[discoveries[d].mount] = Ref(d, discoveries[d].identity)
  /\ discoveries[d].identity = Current

ReceiveProps(d, ok) ==
  /\ discoveries[d].pending
  /\ discoveries' = [discoveries EXCEPT ![d] = DiscoveryDone]
  /\ IF ~IsCurrentDiscovery(d) THEN UNCHANGED <<discovered, discoveryStatus>>
     ELSE IF ok THEN /\ discovered' = discoveries[d].identity
                     /\ discoveryStatus' = "loaded"
     ELSE discoveryStatus' = "error" /\ UNCHANGED discovered
  /\ UNCHANGED <<week, realSlate, realSlateStatus, selectedEventId, checkedMarketKeys, mount,
                 slateLoads, latestLoad, requestRef>>

(***************************************************************************)
(* The component is unmounted and mounted: its slate requests are disposed *)
(* of, its discovery request is not, and the new one loads the slate.      *)
(***************************************************************************)
RemountBrowser ==
  /\ mount < MaxMounts /\ Cardinality(DOMAIN slateLoads) < MaxSlateLoads
  /\ mount' = mount + 1
  /\ slateLoads' = Added(slateLoads, Loading(mount + 1))
  /\ latestLoad' = Cardinality(DOMAIN slateLoads) + 1
  /\ realSlateStatus' = "loading"
  /\ requestRef' = [requestRef EXCEPT ![mount + 1] = Ref(None, Current)]
  /\ UNCHANGED <<week, realSlate, selectedEventId, checkedMarketKeys, discovered,
                 discoveryStatus, discoveries>>

BInit ==
  /\ week = 1
  /\ realSlate = {} /\ realSlateStatus = "loading"
  /\ selectedEventId = None /\ checkedMarketKeys = {}
  /\ discovered = None /\ discoveryStatus = "idle"
  /\ mount = 1 /\ latestLoad = 1
  /\ slateLoads = [n \in {1} |-> Loading(1)]
  /\ discoveries = [d \in {} |-> None]
  /\ requestRef = [n \in Mounts |-> Ref(None, Identity(None, {}))]

BNext ==
  \/ NextWeek \/ LoadSlate \/ FetchDiscoveredProps \/ RemountBrowser
  \/ \E n \in DOMAIN slateLoads : ReceiveSlate(n) \/ \E ok \in BOOLEAN : SlateAnswered(n, ok)
  \/ \E game \in Games \cup {None} : SelectGame(game)
  \/ \E m \in PropMarkets : ToggleMarket(m)
  \/ \E d \in DOMAIN discoveries, ok \in BOOLEAN : ReceiveProps(d, ok)

\* The props in the store are those of the selected game and markets, the game is one of
\* the slate, and a spinner waits for an answer that will end it, whatever answers arrive
\* late, from whichever component (SlateBrowser.tsx: isCurrent; matchupSlice.ts: resets).
ShownIsSelected ==
  /\ selectedEventId # None => selectedEventId \in realSlate
  /\ discovered # None => discovered = Current
  /\ discoveryStatus = "loading" =>
       \E d \in DOMAIN discoveries : discoveries[d].pending /\ IsCurrentDiscovery(d)
=============================================================================
