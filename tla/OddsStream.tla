----------------------------- MODULE OddsStream -----------------------------
(***************************************************************************)
(* The live analysis of one watched prop: the page keeps one event stream  *)
(* (useLiveOddsStream.ts) and the server polls for each stream it has open *)
(* (api/stream/route.ts).  A stream polls MAX_TICKS times, each poll armed *)
(* only when the one before it has ended; either side may lose the other.  *)
(***************************************************************************)
EXTENDS Integers, Sequences

CONSTANTS
  None,
  Props,        \* props the user may watch
  Windows,      \* sample windows the user may choose
  MAX_TICKS,    \* polls of one stream
  MaxStreams,   \* bound: streams the page opens
  MaxSessions   \* bound: times the page is mounted

VARIABLES
  streams,      \* [1..MaxStreams -> what both sides know of a stream]
  opened,       \* streams opened so far
  primaryWatch, sampleWindow, historySessionId,
  eventSource,  \* the stream the page listens to, or None
  staleTimer, reconnectTimer,
  connectionStatus,
  watchlist     \* [Props -> None or the retained result of the prop]

clientVars == <<primaryWatch, sampleWindow, historySessionId, eventSource, staleTimer,
                reconnectTimer, connectionStatus, watchlist>>
streamVars == <<streams, opened, clientVars>>

Streams == 1..MaxStreams
Unopened == [prop |-> None, window |-> None, ready |-> "closed", link |-> FALSE,
             loop |-> "none", tickCount |-> 0, cancelled |-> FALSE, wire |-> << >>]

(***************************************************************************)
(* The server.                                                             *)
(***************************************************************************)
Message(c, type) == [type |-> type, propId |-> streams[c].prop, window |-> streams[c].window]

\* send: nothing is enqueued on a cancelled controller, nor arrives when the connection is gone.
Send(s, m) == IF s.cancelled \/ ~s.link THEN s ELSE [s EXCEPT !.wire = Append(@, m)]

\* scheduleNext, after a version that forgets that the stream may have been cancelled.
ScheduleAnyway(c, s) ==
  IF s.tickCount >= MAX_TICKS THEN [Send(s, Message(c, "idle")) EXCEPT !.loop = "idle"]
  ELSE [s EXCEPT !.loop = "armed"]
ScheduleNext(c, s) ==
  IF s.cancelled THEN [s EXCEPT !.loop = "ended"]
  ELSE IF s.tickCount >= MAX_TICKS THEN [Send(s, Message(c, "idle")) EXCEPT !.loop = "idle"]
  ELSE [s EXCEPT !.loop = "armed"]

\* A request is refused, or the event and its statistics are found and the first poll begins.
Refuse(c) ==
  /\ streams[c].loop = "asked"
  /\ streams' = [streams EXCEPT ![c].loop = "refused"]
  /\ UNCHANGED <<opened, clientVars>>

Start(c) ==
  /\ streams[c].loop = "asked"
  /\ streams' = [streams EXCEPT ![c].loop = "polling", ![c].tickCount = 1]
  /\ UNCHANGED <<opened, clientVars>>

\* A poll ends: with a result, or with the error it sends instead.
TickEnds(c, type) ==
  /\ streams[c].loop = "polling"
  /\ streams' = [streams EXCEPT ![c] = ScheduleNext(c, Send(@, Message(c, type)))]
  /\ UNCHANGED <<opened, clientVars>>

NextTick(c) ==
  /\ streams[c].loop = "armed"
  /\ streams' = [streams EXCEPT ![c].loop = "polling", ![c].tickCount = @ + 1]
  /\ UNCHANGED <<opened, clientVars>>

\* The reader has gone: cancel clears a timer that is armed, and leaves a poll to end.
Cancel(c) ==
  /\ ~streams[c].link /\ ~streams[c].cancelled
  /\ streams[c].loop \in {"polling", "armed", "idle"}
  /\ streams' = [streams EXCEPT ![c].cancelled = TRUE,
                                ![c].loop = IF @ = "polling" THEN @ ELSE "ended"]
  /\ UNCHANGED <<opened, clientVars>>

\* The connection breaks.
Break(c) ==
  /\ streams[c].link
  /\ streams' = [streams EXCEPT ![c].link = FALSE]
  /\ UNCHANGED <<opened, clientVars>>

(***************************************************************************)
(* The page.                                                               *)
(***************************************************************************)
NoResult == [evHistory |-> {}, session |-> None, window |-> None, refreshState |-> None]
Retained(p) == IF watchlist[p] = None THEN NoResult ELSE watchlist[p]

\* markRefresh: the retained result stays, its history only within this session.
Marked(state, prop, session) ==
  [watchlist EXCEPT ![prop] =
     [Retained(prop) EXCEPT !.evHistory = IF Retained(prop).session = session THEN @ ELSE {},
                            !.session = session, !.refreshState = state]]

\* The history a new result is added to, after a version that looks at the session alone.
ContinuedAcross(prop) ==
  IF Retained(prop).session = historySessionId THEN Retained(prop).evHistory ELSE {}
Continued(prop) ==
  IF Retained(prop).window = sampleWindow /\ Retained(prop).session = historySessionId
    THEN Retained(prop).evHistory ELSE {}

Entry(m) == [prop |-> m.propId, window |-> sampleWindow, session |-> historySessionId]
WithResult(m) ==
  [watchlist EXCEPT ![m.propId] =
     [evHistory |-> Continued(m.propId) \cup {Entry(m)}, session |-> historySessionId,
      window |-> sampleWindow, refreshState |-> None]]

\* The streams with the page's own one closed.
Closed(c) == IF c = None THEN streams
             ELSE [streams EXCEPT ![c].ready = "closed", ![c].link = FALSE, ![c].wire = << >>]

\* connect, for the watch, window and session the effect runs with.
ConnectWith(prop, window, session, closed) ==
  /\ opened < MaxStreams
  /\ opened' = opened + 1
  /\ eventSource' = opened + 1
  /\ streams' = [closed EXCEPT ![opened + 1] =
       [Unopened EXCEPT !.prop = prop, !.window = window, !.ready = "connecting",
                        !.link = TRUE, !.loop = "asked"]]
  /\ connectionStatus' = "connecting"
  /\ watchlist' = Marked("updating", prop, session)

\* The effect is cleaned up and run again, or finds nothing to watch.
RunEffect(prop, window, session) ==
  /\ primaryWatch' = prop /\ sampleWindow' = window /\ historySessionId' = session
  /\ staleTimer' = FALSE /\ reconnectTimer' = FALSE
  /\ \/ prop # None /\ ConnectWith(prop, window, session, Closed(eventSource))
     \/ /\ prop = None
        /\ streams' = Closed(eventSource)
        /\ eventSource' = None /\ connectionStatus' = "disconnected"
        /\ UNCHANGED <<opened, watchlist>>

Watch(prop) ==
  /\ prop # primaryWatch
  /\ RunEffect(prop, sampleWindow, historySessionId)

ChooseWindow(window) ==
  /\ window # sampleWindow
  /\ RunEffect(primaryWatch, window, historySessionId)

\* Leaving the page and coming back: the store stays, the session is a new one.
Remount ==
  /\ historySessionId < MaxSessions
  /\ RunEffect(primaryWatch, sampleWindow, historySessionId + 1)

IsCurrent(c) == c = eventSource

Opened(c) ==
  /\ streams[c].ready = "connecting" /\ streams[c].link
  /\ streams[c].loop \notin {"asked", "refused"}
  /\ IsCurrent(c)
  /\ streams' = [streams EXCEPT ![c].ready = "open"]
  /\ connectionStatus' = "live" /\ staleTimer' = TRUE
  /\ UNCHANGED <<opened, primaryWatch, sampleWindow, historySessionId, eventSource,
                 reconnectTimer, watchlist>>

Incoming(c) ==
  /\ streams[c].ready = "open" /\ streams[c].wire # << >>
  /\ IsCurrent(c)
  /\ streams' = [streams EXCEPT ![c].wire = Tail(@)]
  /\ UNCHANGED <<opened, primaryWatch, sampleWindow, historySessionId, eventSource,
                 reconnectTimer>>

\* An error or an idle message: the result stays, marked, and no timer runs.
ReceiveTrouble(c) ==
  /\ Incoming(c)
  /\ Head(streams[c].wire).type \in {"error", "idle"}
  /\ watchlist' = Marked(IF Head(streams[c].wire).type = "error" THEN "failed" ELSE "paused",
                         primaryWatch, historySessionId)
  /\ connectionStatus' = "stale" /\ staleTimer' = FALSE

ReceiveTick(c) ==
  /\ Incoming(c)
  /\ LET m == Head(streams[c].wire)
     IN /\ m.type = "tick"
        /\ IF m.propId = primaryWatch /\ m.window = sampleWindow
             THEN /\ watchlist' = WithResult(m)
                  /\ connectionStatus' = "live" /\ staleTimer' = TRUE
             ELSE UNCHANGED <<watchlist, connectionStatus, staleTimer>>

\* The stream is refused or lost: the page closes it and connects again later.
Errored(c) ==
  /\ streams[c].ready # "closed" /\ IsCurrent(c)
  /\ streams[c].loop = "refused" \/ ~streams[c].link
  /\ watchlist' = Marked("failed", primaryWatch, historySessionId)
  /\ connectionStatus' = "disconnected"
  /\ streams' = Closed(c)
  /\ eventSource' = None
  /\ staleTimer' = FALSE /\ reconnectTimer' = TRUE
  /\ UNCHANGED <<opened, primaryWatch, sampleWindow, historySessionId>>

Reconnect ==
  /\ reconnectTimer /\ reconnectTimer' = FALSE
  /\ ConnectWith(primaryWatch, sampleWindow, historySessionId, streams)
  /\ UNCHANGED <<primaryWatch, sampleWindow, historySessionId, staleTimer>>

GoStale ==
  /\ staleTimer /\ staleTimer' = FALSE
  /\ watchlist' = Marked("paused", primaryWatch, historySessionId)
  /\ connectionStatus' = "stale"
  /\ UNCHANGED <<streams, opened, primaryWatch, sampleWindow, historySessionId, eventSource,
                 reconnectTimer>>

SInit ==
  /\ streams = [c \in Streams |-> Unopened] /\ opened = 0
  /\ primaryWatch = None /\ sampleWindow \in Windows /\ historySessionId = 1
  /\ eventSource = None /\ staleTimer = FALSE /\ reconnectTimer = FALSE
  /\ connectionStatus = "disconnected"
  /\ watchlist = [p \in Props |-> None]

SNext ==
  \/ \E prop \in Props \cup {None} : Watch(prop)
  \/ \E window \in Windows : ChooseWindow(window)
  \/ Remount \/ Reconnect \/ GoStale
  \/ \E c \in Streams :
       \/ Refuse(c) \/ Start(c) \/ NextTick(c) \/ Cancel(c) \/ Break(c)
       \/ \E type \in {"tick", "error"} : TickEnds(c, type)
       \/ Opened(c) \/ ReceiveTrouble(c) \/ ReceiveTick(c) \/ Errored(c)

\* A cancelled stream arms no further poll: at most the one it was in ends
\* (route.ts: cancel while a tick awaits the database, then scheduleNext).
QuietAfterCancel == \A c \in Streams : streams[c].cancelled => streams[c].loop # "armed"

\* What the page says of the watched prop is so, and nobody polls for a reader who has
\* gone.  "Live" means its own stream is open and
\* will be called stale if it falls silent, and a plotted history is one series: one prop,
\* one sample window, one visit (useLiveOddsStream.ts: timers, reconnects and switches).
ScreenTrue ==
  /\ QuietAfterCancel
  /\ connectionStatus = "live" =>
       /\ staleTimer /\ eventSource # None
       /\ streams[eventSource].ready = "open" /\ streams[eventSource].prop = primaryWatch
  /\ \A p \in Props : watchlist[p] # None =>
       \A e \in watchlist[p].evHistory :
         e = [prop |-> p, window |-> watchlist[p].window, session |-> watchlist[p].session]
=============================================================================
