-------------------------- MODULE ApplicationProofs --------------------------
(***************************************************************************)
(* The application run's invariants, proved for every value of the         *)
(* constants: the live stream, the odds cache, the slate browser, the      *)
(* accounts, players and statistics, the odds evidence, the schedules;     *)
(* and, from the modules that prove them about their own specifications,   *)
(* prediction and the migrations.                                          *)
(*                                                                         *)
(* The run takes the steps of one part only.  Each theorem says what the   *)
(* part's inductive invariant says while that part is the one chosen.      *)
(***************************************************************************)
EXTENDS MCApplication, FiniteSetTheorems, SequenceTheorems, WellFoundedInduction, TLAPS

-----------------------------------------------------------------------------
(***************************************************************************)
(* The live stream.  The page listens to a stream of the watched prop or   *)
(* to none, whatever the server does to it; every way to another prop,     *)
(* window or session leaves "live" in the same step.                       *)
(***************************************************************************)
StreamTyped(s) ==
  s \in [prop : {s.prop}, window : {s.window}, ready : {s.ready}, link : {s.link}, loop : {s.loop},
         tickCount : {s.tickCount}, cancelled : BOOLEAN, wire : {s.wire}]
StreamQuiet(s) == StreamTyped(s) /\ (s.cancelled => s.loop # "armed")
StreamsQuiet(ss) ==
  ss = [c \in Stream!Streams |-> ss[c]] /\ \A c \in Stream!Streams : StreamQuiet(ss[c])

Result(r) == r \in [evHistory : {r.evHistory}, session : {r.session}, window : {r.window},
                    refreshState : {r.refreshState}]
OneSeries(w) ==
  /\ w = [p \in Props |-> w[p]]
  /\ \A p \in Props : w[p] # None =>
       /\ Result(w[p])
       /\ \A e \in w[p].evHistory : e = [prop |-> p, window |-> w[p].window, session |-> w[p].session]

Listening ==
  /\ opened \in Nat
  /\ eventSource # None =>
       eventSource \in Stream!Streams /\ streams[eventSource].prop = primaryWatch
  /\ connectionStatus = "live" =>
       staleTimer /\ eventSource # None /\ streams[eventSource].ready = "open"

StreamInv == StreamsQuiet(streams) /\ OneSeries(watchlist) /\ Listening

LEMMA MarkedKeeps ==
  ASSUME OneSeries(watchlist), NEW state, NEW prop, NEW session
  PROVE  OneSeries(Stream!Marked(state, prop, session))
<1> DEFINE r == Stream!Retained(prop)
           n == [r EXCEPT !.evHistory = IF r.session = session THEN @ ELSE {},
                          !.session = session, !.refreshState = state]
           w == [watchlist EXCEPT ![prop] = n]
<1>1. Stream!Marked(state, prop, session) = w  BY DEF Stream!Marked
<1>2. CASE prop \notin Props
  <2>1. w = watchlist  BY <1>2 DEF OneSeries
  <2>2. QED  BY <1>1, <2>1
<1>3. CASE prop \in Props
  <2>1. /\ Result(r)
        /\ \A e \in r.evHistory : e = [prop |-> prop, window |-> r.window, session |-> r.session]
    BY <1>3 DEF OneSeries, Stream!Retained, Stream!NoResult, Result
  <2> HIDE DEF r
  <2>2. /\ Result(n) /\ n.session = session /\ n.window = r.window
        /\ n.evHistory = IF r.session = session THEN r.evHistory ELSE {}
    BY <2>1 DEF Result
  <2> HIDE DEF n
  <2>3. \A p \in Props : w[p] = IF p = prop THEN n ELSE watchlist[p]  BY DEF OneSeries
  <2>4. w = [p \in Props |-> w[p]]  BY DEF OneSeries
  <2> HIDE DEF w
  <2>5. OneSeries(w)  BY <2>1, <2>2, <2>3, <2>4 DEF OneSeries
  <2>6. QED  BY <1>1, <2>5
<1>4. QED  BY <1>2, <1>3

LEMMA WithResultKeeps ==
  ASSUME OneSeries(watchlist), NEW m  PROVE OneSeries(Stream!WithResult(m))
<1> DEFINE n == [evHistory |-> Stream!Continued(m.propId) \cup {Stream!Entry(m)},
                 session |-> historySessionId, window |-> sampleWindow, refreshState |-> None]
           w == Stream!WithResult(m)
<1>1. /\ Result(n) /\ n.session = historySessionId /\ n.window = sampleWindow
      /\ n.evHistory = Stream!Continued(m.propId) \cup {Stream!Entry(m)}
  BY DEF Result
<1>2. /\ \A p \in Props : w[p] = IF p = m.propId THEN n ELSE watchlist[p]
      /\ w = [p \in Props |-> w[p]]
  BY DEF OneSeries, Stream!WithResult
<1>3. ASSUME m.propId \in Props, NEW e \in n.evHistory
      PROVE  e = [prop |-> m.propId, window |-> sampleWindow, session |-> historySessionId]
  <2>1. CASE e = Stream!Entry(m)  BY <2>1 DEF Stream!Entry
  <2>2. CASE e \in Stream!Continued(m.propId)
    BY <1>3, <2>2 DEF OneSeries, Stream!Continued, Stream!Retained, Stream!NoResult
  <2>3. QED  BY <1>1, <1>3, <2>1, <2>2
<1> HIDE DEF n, w
<1>4. QED  BY <1>1, <1>2, <1>3 DEF OneSeries, w

\* A step of the server, or a message that is taken off the wire: one stream changes, and
\* the page's own stays as it is to the page.
LEMMA StreamChanges ==
  ASSUME StreamInv, NEW c \in Stream!Streams, NEW s, StreamQuiet(s),
         s.prop = streams[c].prop, s.ready = streams[c].ready,
         streams' = [streams EXCEPT ![c] = s], OneSeries(watchlist'),
         UNCHANGED <<opened, eventSource, primaryWatch>>,
         connectionStatus' = "live" =>
           staleTimer' /\ eventSource # None /\ streams[eventSource].ready = "open"
  PROVE  StreamInv'
<1>1. /\ \A d \in Stream!Streams : streams'[d] = IF d = c THEN s ELSE streams[d]
      /\ streams' = [d \in Stream!Streams |-> streams'[d]]
  BY DEF StreamInv, StreamsQuiet
<1>2. StreamsQuiet(streams')  BY <1>1 DEF StreamInv, StreamsQuiet
<1>3. Listening'  BY <1>1 DEF StreamInv, Listening, Stream!Streams
<1>4. QED  BY <1>2, <1>3 DEF StreamInv, StreamsQuiet, OneSeries, Stream!Streams

LEMMA ServerKeepsStreams ==
  ASSUME StreamInv, NEW c \in Stream!Streams,
         \/ Stream!Refuse(c) \/ Stream!Start(c) \/ Stream!NextTick(c) \/ Stream!Cancel(c)
         \/ Stream!Break(c) \/ \E type : Stream!TickEnds(c, type)
  PROVE  StreamInv'
<1> DEFINE t == streams[c]
<1>1. StreamQuiet(t) /\ streams = [d \in Stream!Streams |-> streams[d]]
  BY DEF StreamInv, StreamsQuiet
<1>2. /\ UNCHANGED <<opened, eventSource, primaryWatch, watchlist, connectionStatus, staleTimer>>
  BY DEF Stream!Refuse, Stream!Start, Stream!NextTick, Stream!Cancel, Stream!Break,
         Stream!TickEnds, Stream!clientVars
<1>3. \E s : /\ StreamQuiet(s) /\ s.prop = t.prop /\ s.ready = t.ready
             /\ streams' = [streams EXCEPT ![c] = s]
  <2>1. CASE Stream!Refuse(c)
    <3>1. streams' = [streams EXCEPT ![c] = [t EXCEPT !.loop = "refused"]]
      BY <2>1 DEF Stream!Refuse
    <3>2. QED  BY <1>1, <3>1 DEF StreamQuiet, StreamTyped
  <2>2. CASE Stream!Start(c)
    <3>1. streams' = [streams EXCEPT ![c] = [t EXCEPT !.loop = "polling", !.tickCount = 1]]
      BY <1>1, <2>2 DEF Stream!Start
    <3>2. QED  BY <1>1, <3>1 DEF StreamQuiet, StreamTyped
  <2>3. CASE Stream!NextTick(c)
    <3>1. streams' = [streams EXCEPT ![c] = [t EXCEPT !.loop = "polling", !.tickCount = @ + 1]]
      BY <1>1, <2>3 DEF Stream!NextTick
    <3>2. QED  BY <1>1, <3>1 DEF StreamQuiet, StreamTyped
  <2>4. CASE Stream!Cancel(c)
    <3>1. streams' = [streams EXCEPT ![c] = [t EXCEPT !.cancelled = TRUE,
                        !.loop = IF @ = "polling" THEN @ ELSE "ended"]]
      BY <1>1, <2>4 DEF Stream!Cancel
    <3>2. QED  BY <1>1, <3>1 DEF StreamQuiet, StreamTyped
  <2>5. CASE Stream!Break(c)
    <3>1. streams' = [streams EXCEPT ![c] = [t EXCEPT !.link = FALSE]]
      BY <2>5 DEF Stream!Break
    <3>2. QED  BY <1>1, <3>1 DEF StreamQuiet, StreamTyped
  <2>6. ASSUME NEW type, Stream!TickEnds(c, type)
        PROVE  \E s : /\ StreamQuiet(s) /\ s.prop = t.prop /\ s.ready = t.ready
                      /\ streams' = [streams EXCEPT ![c] = s]
    <3> DEFINE sent == Stream!Send(t, Stream!Message(c, type))
               s == Stream!ScheduleNext(c, sent)
    <3>1. streams' = [streams EXCEPT ![c] = s]  BY <2>6 DEF Stream!TickEnds
    <3>2. ASSUME NEW u, NEW m, StreamTyped(u)
          PROVE  LET v == Stream!Send(u, m)
                 IN StreamTyped(v) /\ v.prop = u.prop /\ v.ready = u.ready
                    /\ v.cancelled = u.cancelled
      BY <3>2 DEF Stream!Send, StreamTyped
    <3>3. StreamTyped(sent) /\ sent.prop = t.prop /\ sent.ready = t.ready
      BY <1>1, <3>2 DEF StreamQuiet
    <3> HIDE DEF sent
    <3>4. CASE sent.cancelled
      <4>1. s = [sent EXCEPT !.loop = "ended"]  BY <3>4 DEF Stream!ScheduleNext
      <4> HIDE DEF s
      <4>2. StreamQuiet(s) /\ s.prop = t.prop /\ s.ready = t.ready
        BY <3>3, <4>1 DEF StreamQuiet, StreamTyped
      <4>3. QED  BY <3>1, <4>2
    <3>5. CASE ~sent.cancelled /\ sent.tickCount >= MAX_TICKS
      <4> DEFINE v == Stream!Send(sent, Stream!Message(c, "idle"))
      <4>1. s = [v EXCEPT !.loop = "idle"]  BY <3>5 DEF Stream!ScheduleNext
      <4>2. StreamTyped(v) /\ v.prop = t.prop /\ v.ready = t.ready  BY <3>2, <3>3
      <4> HIDE DEF v, s
      <4>3. StreamQuiet(s) /\ s.prop = t.prop /\ s.ready = t.ready
        BY <4>1, <4>2 DEF StreamQuiet, StreamTyped
      <4>4. QED  BY <3>1, <4>3
    <3>6. CASE ~sent.cancelled /\ ~(sent.tickCount >= MAX_TICKS)
      <4>1. s = [sent EXCEPT !.loop = "armed"]  BY <3>6 DEF Stream!ScheduleNext
      <4> HIDE DEF s
      <4>2. StreamQuiet(s) /\ s.prop = t.prop /\ s.ready = t.ready
        BY <3>3, <3>6, <4>1 DEF StreamQuiet, StreamTyped
      <4>3. QED  BY <3>1, <4>2
    <3>7. QED  BY <3>1, <3>4, <3>5, <3>6
  <2>7. QED  BY <2>1, <2>2, <2>3, <2>4, <2>5, <2>6
<1>4. QED  BY <1>2, <1>3, StreamChanges DEF StreamInv, Listening

LEMMA ClosedKeeps ==
  ASSUME StreamsQuiet(streams), NEW c, c # None => c \in Stream!Streams
  PROVE  StreamsQuiet(Stream!Closed(c))
<1>1. CASE c = None  BY <1>1 DEF Stream!Closed
<1>2. CASE c # None
  <2> DEFINE s == [streams[c] EXCEPT !.ready = "closed", !.link = FALSE, !.wire = << >>]
             ss == [streams EXCEPT ![c] = s]
  <2>1. Stream!Closed(c) = ss  BY <1>2 DEF Stream!Closed
  <2>2. StreamQuiet(s)  BY <1>2 DEF StreamsQuiet, StreamQuiet, StreamTyped
  <2> HIDE DEF s
  <2>3. /\ ss = [d \in Stream!Streams |-> ss[d]]
        /\ \A d \in Stream!Streams : ss[d] = IF d = c THEN s ELSE streams[d]
    BY DEF StreamsQuiet
  <2> HIDE DEF ss
  <2>4. StreamsQuiet(ss)  BY <2>2, <2>3 DEF StreamsQuiet
  <2>5. QED  BY <2>1, <2>4
<1>3. QED  BY <1>1, <1>2

LEMMA ConnectKeeps ==
  ASSUME MaxStreams \in Nat, opened \in Nat, OneSeries(watchlist),
         NEW prop, NEW window, NEW session, NEW closed, StreamsQuiet(closed),
         Stream!ConnectWith(prop, window, session, closed)
  PROVE  /\ StreamsQuiet(streams') /\ OneSeries(watchlist') /\ opened' \in Nat
         /\ eventSource' \in Stream!Streams /\ streams'[eventSource'].prop = prop
         /\ connectionStatus' = "connecting"
<1> DEFINE c == opened + 1
           s == [Stream!Unopened EXCEPT !.prop = prop, !.window = window,
                   !.ready = "connecting", !.link = TRUE, !.loop = "asked"]
<1>1. /\ c \in Stream!Streams /\ opened' = c /\ eventSource' = c /\ c \in Nat
      /\ streams' = [closed EXCEPT ![c] = s]
      /\ connectionStatus' = "connecting"
  BY DEF Stream!ConnectWith, Stream!Streams
<1>2. watchlist' = Stream!Marked("updating", prop, session)  BY DEF Stream!ConnectWith
<1>3. StreamQuiet(s) /\ s.prop = prop
  BY DEF Stream!Unopened, StreamQuiet, StreamTyped
<1> HIDE DEF s, c
<1>4. /\ streams' = [d \in Stream!Streams |-> streams'[d]]
      /\ \A d \in Stream!Streams : streams'[d] = IF d = c THEN s ELSE closed[d]
  BY <1>1 DEF StreamsQuiet
<1>5. StreamsQuiet(streams')  BY <1>3, <1>4 DEF StreamsQuiet
<1>6. OneSeries(watchlist')  BY <1>2, MarkedKeeps
<1>7. QED  BY <1>1, <1>3, <1>4, <1>5, <1>6

LEMMA EffectKeeps ==
  ASSUME MaxStreams \in Nat, None \notin Stream!Streams, StreamInv,
         NEW prop, NEW window, NEW session, Stream!RunEffect(prop, window, session)
  PROVE  StreamInv'
<1> DEFINE closed == Stream!Closed(eventSource)
<1>1. StreamsQuiet(closed)  BY ClosedKeeps DEF StreamInv, Listening
<1> HIDE DEF closed
<1>2. primaryWatch' = prop  BY DEF Stream!RunEffect
<1>3. CASE prop # None /\ Stream!ConnectWith(prop, window, session, closed)
  <2>1. /\ StreamsQuiet(streams') /\ OneSeries(watchlist') /\ opened' \in Nat
        /\ eventSource' \in Stream!Streams /\ streams'[eventSource'].prop = prop
        /\ connectionStatus' = "connecting"
    BY <1>1, <1>3, ConnectKeeps DEF StreamInv, Listening
  <2>2. Listening'  BY <1>2, <2>1 DEF Listening, Stream!Streams
  <2>3. QED  BY <2>1, <2>2 DEF StreamInv, StreamsQuiet, OneSeries, Stream!Streams
<1>4. CASE /\ streams' = closed /\ eventSource' = None /\ connectionStatus' = "disconnected"
           /\ UNCHANGED <<opened, watchlist>>
  <2>1. StreamsQuiet(streams') /\ OneSeries(watchlist')  BY <1>1, <1>4 DEF StreamInv
  <2>2. Listening'  BY <1>4 DEF StreamInv, Listening
  <2>3. QED  BY <2>1, <2>2 DEF StreamInv, StreamsQuiet, OneSeries, Stream!Streams
<1>5. QED  BY <1>3, <1>4 DEF Stream!RunEffect, closed

LEMMA PageKeepsStreams ==
  ASSUME MaxStreams \in Nat, None \notin Stream!Streams, StreamInv, NEW c \in Stream!Streams,
         \/ Stream!Opened(c) \/ Stream!ReceiveTrouble(c) \/ Stream!ReceiveTick(c)
         \/ Stream!Errored(c)
  PROVE  StreamInv'
<1> DEFINE t == streams[c]
<1>1. StreamQuiet(t)  BY DEF StreamInv, StreamsQuiet
<1>2. OneSeries(watchlist)  BY DEF StreamInv
<1>3. ASSUME Stream!Incoming(c), OneSeries(watchlist'),
             connectionStatus' = "live" => staleTimer' /\ t.ready = "open"
      PROVE  StreamInv'
  <2>0. PICK rest : streams' = [streams EXCEPT ![c].wire = rest]
    BY <1>3 DEF Stream!Incoming
  <2> DEFINE s == [t EXCEPT !.wire = rest]
  <2>1. /\ streams' = [streams EXCEPT ![c] = s] /\ c = eventSource
        /\ UNCHANGED <<opened, eventSource, primaryWatch>>
    BY <1>3, <2>0 DEF Stream!Incoming, Stream!IsCurrent
  <2>2. StreamQuiet(s) /\ s.prop = t.prop /\ s.ready = t.ready
    BY <1>1 DEF StreamQuiet, StreamTyped
  <2>3. eventSource # None  BY <2>1
  <2> HIDE DEF s
  <2>4. connectionStatus' = "live" =>
          staleTimer' /\ eventSource # None /\ streams[eventSource].ready = "open"
    BY <1>3, <2>1, <2>3
  <2>5. QED  BY <1>3, <2>1, <2>2, <2>4, StreamChanges
<1>4. CASE Stream!Opened(c)
  <2> DEFINE s == [t EXCEPT !.ready = "open"]
  <2>1. /\ streams' = [streams EXCEPT ![c] = s] /\ c = eventSource /\ eventSource' = c
        /\ staleTimer' = TRUE
        /\ UNCHANGED <<opened, primaryWatch, watchlist>>
    BY <1>4 DEF Stream!Opened, Stream!IsCurrent
  <2>2. StreamQuiet(s) /\ s.prop = t.prop /\ s.ready = "open"
    BY <1>1 DEF StreamQuiet, StreamTyped
  <2> HIDE DEF s
  <2>3. /\ streams' = [d \in Stream!Streams |-> streams'[d]]
        /\ \A d \in Stream!Streams : streams'[d] = IF d = c THEN s ELSE streams[d]
    BY <2>1 DEF StreamInv, StreamsQuiet
  <2>4. StreamsQuiet(streams') /\ OneSeries(watchlist')
    BY <1>2, <2>1, <2>2, <2>3 DEF StreamInv, StreamsQuiet
  <2>5. Listening'  BY <2>1, <2>2, <2>3 DEF StreamInv, Listening, Stream!Streams
  <2>6. QED  BY <2>4, <2>5 DEF StreamInv, StreamsQuiet, OneSeries, Stream!Streams
<1>5. CASE Stream!ReceiveTrouble(c)
  <2>1. PICK state : watchlist' = Stream!Marked(state, primaryWatch, historySessionId)
    BY <1>5 DEF Stream!ReceiveTrouble
  <2>2. OneSeries(watchlist')  BY <1>2, <2>1, MarkedKeeps
  <2>3. QED  BY <1>3, <1>5, <2>2 DEF Stream!ReceiveTrouble
<1>6. CASE Stream!ReceiveTick(c)
  <2>1. Stream!Incoming(c) /\ t.ready = "open"  BY <1>6 DEF Stream!ReceiveTick, Stream!Incoming
  <2>2. ASSUME NEW m, watchlist' = Stream!WithResult(m),
               connectionStatus' = "live", staleTimer' = TRUE
        PROVE  StreamInv'
    <3>1. OneSeries(watchlist')  BY <1>2, <2>2, WithResultKeeps
    <3>2. QED  BY <1>3, <2>1, <2>2, <3>1
  <2>3. CASE UNCHANGED <<watchlist, connectionStatus, staleTimer>>
    <3>1. eventSource = c  BY <2>1 DEF Stream!Incoming, Stream!IsCurrent
    <3>2. connectionStatus' = "live" => staleTimer'  BY <2>3 DEF StreamInv, Listening
    <3>3. OneSeries(watchlist')  BY <1>2, <2>3
    <3>4. QED  BY <1>3, <2>1, <3>2, <3>3
  <2>4. QED  BY <1>6, <2>2, <2>3 DEF Stream!ReceiveTick
<1>7. CASE Stream!Errored(c)
  <2>1. /\ streams' = Stream!Closed(c) /\ eventSource' = None
        /\ connectionStatus' = "disconnected" /\ opened' = opened
        /\ watchlist' = Stream!Marked("failed", primaryWatch, historySessionId)
    BY <1>7 DEF Stream!Errored
  <2>2. StreamsQuiet(streams')  BY <2>1, ClosedKeeps DEF StreamInv
  <2>3. OneSeries(watchlist')  BY <1>2, <2>1, MarkedKeeps
  <2>4. Listening'  BY <2>1 DEF StreamInv, Listening
  <2>5. QED  BY <2>2, <2>3, <2>4 DEF StreamInv, StreamsQuiet, OneSeries, Stream!Streams
<1>8. QED  BY <1>4, <1>5, <1>6, <1>7

LEMMA StreamInvStep ==
  ASSUME MaxStreams \in Nat, None \notin Stream!Streams, StreamInv, Stream!SNext
  PROVE  StreamInv'
<1>1. ASSUME NEW prop, Stream!Watch(prop)  PROVE StreamInv'
  BY <1>1, EffectKeeps DEF Stream!Watch
<1>2. ASSUME NEW window, Stream!ChooseWindow(window)  PROVE StreamInv'
  BY <1>2, EffectKeeps DEF Stream!ChooseWindow
<1>3. CASE Stream!Remount
  <2>1. Stream!RunEffect(primaryWatch, sampleWindow, historySessionId + 1)
    BY <1>3 DEF Stream!Remount
  <2>2. QED  BY <2>1, EffectKeeps
<1>4. CASE Stream!Reconnect
  <2>1. /\ Stream!ConnectWith(primaryWatch, sampleWindow, historySessionId, streams)
        /\ primaryWatch' = primaryWatch
    BY <1>4 DEF Stream!Reconnect
  <2>2. /\ StreamsQuiet(streams') /\ OneSeries(watchlist') /\ opened' \in Nat
        /\ eventSource' \in Stream!Streams /\ streams'[eventSource'].prop = primaryWatch
        /\ connectionStatus' = "connecting"
    BY <2>1, ConnectKeeps DEF StreamInv, Listening
  <2>3. Listening'  BY <2>1, <2>2 DEF Listening, Stream!Streams
  <2>4. QED  BY <2>2, <2>3 DEF StreamInv, StreamsQuiet, OneSeries, Stream!Streams
<1>5. CASE Stream!GoStale
  <2>1. /\ UNCHANGED <<streams, opened, primaryWatch, eventSource>>
        /\ connectionStatus' = "stale"
        /\ watchlist' = Stream!Marked("paused", primaryWatch, historySessionId)
    BY <1>5 DEF Stream!GoStale
  <2>2. OneSeries(watchlist')  BY <2>1, MarkedKeeps DEF StreamInv
  <2>3. StreamsQuiet(streams') /\ Listening'
    BY <2>1 DEF StreamInv, Listening, Stream!Streams
  <2>4. QED  BY <2>2, <2>3 DEF StreamInv, StreamsQuiet, OneSeries, Stream!Streams
<1>6. ASSUME NEW c \in Stream!Streams,
             \/ Stream!Refuse(c) \/ Stream!Start(c) \/ Stream!NextTick(c) \/ Stream!Cancel(c)
             \/ Stream!Break(c) \/ \E type : Stream!TickEnds(c, type)
      PROVE  StreamInv'
  BY <1>6, ServerKeepsStreams
<1>7. ASSUME NEW c \in Stream!Streams,
             \/ Stream!Opened(c) \/ Stream!ReceiveTrouble(c) \/ Stream!ReceiveTick(c)
             \/ Stream!Errored(c)
      PROVE  StreamInv'
  BY <1>7, PageKeepsStreams
<1>8. QED  BY <1>1, <1>2, <1>3, <1>4, <1>5, <1>6, <1>7 DEF Stream!SNext

LEMMA StreamInvInit ==
  ASSUME Stream!SInit  PROVE StreamInv
<1>1. StreamsQuiet(streams)
  <2>1. StreamQuiet(Stream!Unopened)  BY DEF StreamQuiet, StreamTyped, Stream!Unopened
  <2>2. streams = [c \in Stream!Streams |-> Stream!Unopened]  BY DEF Stream!SInit
  <2> QED  BY <2>1, <2>2 DEF StreamsQuiet
<1>2. OneSeries(watchlist)
  <2>1. watchlist = [p \in Props |-> None]  BY DEF Stream!SInit
  <2>2. QED  BY <2>1 DEF OneSeries
<1>3. Listening  BY DEF Stream!SInit, Listening
<1>4. QED  BY <1>1, <1>2, <1>3 DEF StreamInv

\* What the page says of the watched prop is so: "live" means its own stream is open and
\* watched by the stale timer, a history is one series, and no poll is armed for a reader
\* who has gone (useLiveOddsStream.ts and stream/route.ts), for every number of streams,
\* visits, windows, props and polls.
THEOREM ScreenStaysTrue ==
  ASSUME MaxStreams \in Nat, None \notin Stream!Streams
  PROVE  Spec => []ScreenTrue
<1> DEFINE Inv == part = "stream" => StreamInv
<1>1. Init => Inv  BY StreamInvInit DEF Init
<1>2. Inv /\ [Next]_vars => Inv'
  <2> SUFFICES ASSUME part = "stream", StreamInv, [Next]_vars  PROVE StreamInv'
    BY DEF Next, vars
  <2>1. CASE Stream!SNext  BY <2>1, StreamInvStep
  <2>2. CASE UNCHANGED streamVars
    BY <2>2 DEF StreamInv, StreamsQuiet, OneSeries, Listening, streamVars, Stream!Streams
  <2>3. QED  BY <2>1, <2>2 DEF Next, vars
<1>3. Inv => ScreenTrue
  BY DEF ScreenTrue, Stream!ScreenTrue, Stream!QuietAfterCancel, StreamInv, StreamsQuiet,
         StreamQuiet, OneSeries, Listening
<1>4. QED  BY <1>1, <1>2, <1>3, PTL DEF Spec

-----------------------------------------------------------------------------
(***************************************************************************)
(* The odds cache.  A caller keeps what it read, decided and waits for; a  *)
(* request keeps what it was answered from the moment it is stamped.       *)
(***************************************************************************)
CallTyped(p) ==
  p \in [stage : {"idle", "read", "fetching", "writing", "answered", "failed"},
         instance : {p.instance}, markets : {p.markets}, forceRefresh : BOOLEAN,
         rows : {p.rows}, decidedAt : {p.decidedAt}, missing : {p.missing},
         fetch : Cache!Fetches \cup {None}, toWrite : {p.toWrite}]

FetchTyped(q) ==
  q \in [stage : {"unsent", "sent", "received", "failed", "settled"}, instance : {q.instance},
         markets : {q.markets}, payload : {q.payload}, capturedAt : {q.capturedAt},
         persisted : BOOLEAN]

\* A row is stamped with the time of what it shows.
RowTrue(row) == row.payload = row.fetchedAt

\* What call p has read is true, what it decided to show from the cache is fresh, and it waits
\* for requests under way, of fs, and writes from those that have settled.
CallSound(p, fs) ==
  /\ p.stage = "read" => \A m \in p.markets : p.rows[m] # None => RowTrue(p.rows[m])
  /\ p.stage \in {"fetching", "writing", "answered"} => \A m \in p.markets \ p.missing :
       /\ RowTrue(p.rows[m])
       /\ p.decidedAt - p.rows[m].fetchedAt
            < (IF p.forceRefresh THEN FORCE_REFRESH_COOLDOWN ELSE CACHE_TTL)
  /\ p.stage \in {"idle", "read", "failed"} => p.fetch = None
  /\ p.stage = "fetching" => p.fetch # None /\ fs[p.fetch].stage \in {"sent", "received"}
  /\ p.stage = "writing" => p.fetch # None /\ fs[p.fetch].stage = "settled"
  /\ p.stage = "answered" =>
       IF p.fetch = None THEN p.missing = {} ELSE fs[p.fetch].stage = "settled"

\* The answer q of request f is stamped, and called persisted if it is among the evidence e.
FetchSound(f, q, e) ==
  /\ q.stage \in {"received", "settled"} => q.payload = q.capturedAt
  /\ q.persisted => q.stage = "settled" /\ f \in e /\ q.capturedAt < Kickoff

CacheInv ==
  /\ cache = [m \in Markets |-> cache[m]]
  /\ \A m \in Markets : cache[m] # None => RowTrue(cache[m])
  /\ calls = [c \in Calls |-> calls[c]]
  /\ \A c \in Calls : CallTyped(calls[c]) /\ CallSound(calls[c], fetches)
  /\ fetches = [f \in Cache!Fetches |-> fetches[f]]
  /\ \A f \in Cache!Fetches : FetchTyped(fetches[f]) /\ FetchSound(f, fetches[f], observations)

\* A call changes by itself.
LEMMA CallChanges ==
  ASSUME CacheInv, NEW c \in Calls, NEW n, CallTyped(n), CallSound(n, fetches),
         calls' = [calls EXCEPT ![c] = n], UNCHANGED <<cache, fetches, observations>>
  PROVE  CacheInv'
<1>1. \A d \in Calls : calls'[d] = IF d = c THEN n ELSE calls[d]  BY DEF CacheInv
<1>2. \A d \in Calls : CallTyped(calls'[d]) /\ CallSound(calls'[d], fetches)  BY <1>1 DEF CacheInv
<1>3. QED  BY <1>1, <1>2 DEF CacheInv

LEMMA AskKeepsCache ==
  ASSUME CacheInv, NEW c \in Calls, NEW instance, NEW markets \in SUBSET Markets,
         NEW force \in BOOLEAN, Cache!Ask(c, instance, markets, force)
  PROVE  CacheInv'
<1> DEFINE n == [Cache!Idle EXCEPT !.stage = "read", !.instance = instance, !.markets = markets,
                    !.forceRefresh = force, !.rows = [m \in markets |-> cache[m]]]
<1>1. /\ n.stage = "read" /\ n.instance = instance /\ n.markets = markets /\ n.fetch = None
      /\ n.forceRefresh = force /\ n.rows = [m \in markets |-> cache[m]]
      /\ CallTyped(n)
  BY DEF Cache!Idle, CallTyped
<1>2. calls' = [calls EXCEPT ![c] = n] /\ UNCHANGED <<cache, fetches, observations>>
  BY DEF Cache!Ask
<1> HIDE DEF n
<1>3. CallSound(n, fetches)  BY <1>1 DEF CallSound, CacheInv
<1>4. QED  BY <1>1, <1>2, <1>3, CallChanges

\* What a call decides on: what it does not miss is fresh.
LEMMA DecidedSound ==
  ASSUME CacheInv, NEW c \in Calls, calls[c].stage = "read"
  PROVE  LET d == Cache!Decided(c)
         IN /\ d \in [stage : {"fetching"}, instance : {d.instance}, markets : {calls[c].markets},
                      forceRefresh : BOOLEAN, rows : {calls[c].rows}, decidedAt : {d.decidedAt},
                      missing : {Cache!MissingMarkets(c)}, fetch : {None}, toWrite : {d.toWrite}]
            /\ \A m \in d.markets \ d.missing :
                 /\ RowTrue(d.rows[m])
                 /\ d.decidedAt - d.rows[m].fetchedAt
                      < (IF d.forceRefresh THEN FORCE_REFRESH_COOLDOWN ELSE CACHE_TTL)
<1> DEFINE d == Cache!Decided(c)
<1>1. CallTyped(calls[c]) /\ CallSound(calls[c], fetches)  BY DEF CacheInv
<1>2. /\ d.markets = calls[c].markets /\ d.rows = calls[c].rows /\ d.decidedAt = clock
      /\ d.missing = Cache!MissingMarkets(c) /\ d.forceRefresh = calls[c].forceRefresh
      /\ d \in [stage : {"fetching"}, instance : {d.instance}, markets : {calls[c].markets},
                forceRefresh : BOOLEAN, rows : {calls[c].rows}, decidedAt : {d.decidedAt},
                missing : {Cache!MissingMarkets(c)}, fetch : {None}, toWrite : {d.toWrite}]
  BY <1>1 DEF CallTyped, CallSound, Cache!Decided
<1>3. ASSUME NEW m \in calls[c].markets, m \notin Cache!MissingMarkets(c)
      PROVE  /\ RowTrue(calls[c].rows[m])
             /\ clock - calls[c].rows[m].fetchedAt < Cache!FreshnessThreshold(c)
  BY <1>1, <1>3 DEF CallSound, Cache!MissingMarkets, Cache!IsFresh
<1>4. QED  BY <1>2, <1>3 DEF Cache!FreshnessThreshold

LEMMA AnswerFromCacheKeeps ==
  ASSUME CacheInv, NEW c \in Calls, Cache!AnswerFromCache(c)  PROVE CacheInv'
<1> DEFINE d == Cache!Decided(c)
           n == [d EXCEPT !.stage = "answered"]
<1>1. /\ calls' = [calls EXCEPT ![c] = n] /\ UNCHANGED <<cache, fetches, observations>>
      /\ calls[c].stage = "read" /\ Cache!MissingMarkets(c) = {}
  BY DEF Cache!AnswerFromCache
<1>2. /\ d \in [stage : {"fetching"}, instance : {d.instance}, markets : {calls[c].markets},
                forceRefresh : BOOLEAN, rows : {calls[c].rows}, decidedAt : {d.decidedAt},
                missing : {Cache!MissingMarkets(c)}, fetch : {None}, toWrite : {d.toWrite}]
      /\ \A m \in d.markets \ d.missing :
           /\ RowTrue(d.rows[m])
           /\ d.decidedAt - d.rows[m].fetchedAt
                < (IF d.forceRefresh THEN FORCE_REFRESH_COOLDOWN ELSE CACHE_TTL)
  BY <1>1, DecidedSound
<1> HIDE DEF d
<1>3. /\ CallTyped(n) /\ n.stage = "answered" /\ n.markets = d.markets /\ n.missing = d.missing
      /\ n.rows = d.rows /\ n.decidedAt = d.decidedAt /\ n.forceRefresh = d.forceRefresh
      /\ n.fetch = None /\ n.missing = {}
  BY <1>1, <1>2 DEF CallTyped
<1> HIDE DEF n
<1>4. CallSound(n, fetches)  BY <1>2, <1>3 DEF CallSound
<1>5. QED  BY <1>1, <1>3, <1>4, CallChanges

LEMMA WaitingSound ==
  ASSUME CacheInv, NEW c \in Calls, calls[c].stage = "read", NEW f \in Cache!Fetches, f # None,
         NEW fs, fs[f].stage \in {"sent", "received"}
  PROVE  LET n == [Cache!Decided(c) EXCEPT !.fetch = f] IN CallTyped(n) /\ CallSound(n, fs)
<1> DEFINE d == Cache!Decided(c)
           n == [d EXCEPT !.fetch = f]
<1>1. /\ d \in [stage : {"fetching"}, instance : {d.instance}, markets : {calls[c].markets},
                forceRefresh : BOOLEAN, rows : {calls[c].rows}, decidedAt : {d.decidedAt},
                missing : {Cache!MissingMarkets(c)}, fetch : {None}, toWrite : {d.toWrite}]
      /\ \A m \in d.markets \ d.missing :
           /\ RowTrue(d.rows[m])
           /\ d.decidedAt - d.rows[m].fetchedAt
                < (IF d.forceRefresh THEN FORCE_REFRESH_COOLDOWN ELSE CACHE_TTL)
  BY DecidedSound
<1> HIDE DEF d
<1>2. /\ CallTyped(n) /\ n.stage = "fetching" /\ n.markets = d.markets /\ n.missing = d.missing
      /\ n.rows = d.rows /\ n.decidedAt = d.decidedAt /\ n.forceRefresh = d.forceRefresh
      /\ n.fetch = f
  BY <1>1 DEF CallTyped
<1> HIDE DEF n
<1>3. CallSound(n, fs)  BY <1>1, <1>2 DEF CallSound
<1>4. QED  BY <1>2, <1>3 DEF n, d

LEMMA JoinKeeps ==
  ASSUME None \notin Cache!Fetches, CacheInv, NEW c \in Calls, Cache!Join(c)  PROVE CacheInv'
<1>1. PICK f \in Cache!InFlight(calls[c].instance, Cache!MissingMarkets(c)) :
        calls' = [calls EXCEPT ![c] = [Cache!Decided(c) EXCEPT !.fetch = f]]
  BY DEF Cache!Join
<1>2. calls[c].stage = "read" /\ UNCHANGED <<cache, fetches, observations>>  BY DEF Cache!Join
<1>3. f \in Cache!Fetches /\ f # None /\ fetches[f].stage \in {"sent", "received"}
  BY DEF Cache!InFlight
<1> DEFINE n == [Cache!Decided(c) EXCEPT !.fetch = f]
<1>4. CallTyped(n) /\ CallSound(n, fetches)  BY <1>2, <1>3, WaitingSound
<1> HIDE DEF n
<1>5. calls' = [calls EXCEPT ![c] = n]  BY <1>1 DEF n
<1>6. QED  BY <1>2, <1>4, <1>5, CallChanges

\* A request changes to q and keeps, or reaches, the stages its callers rely on.
LEMMA FetchChanges ==
  ASSUME CacheInv, NEW f \in Cache!Fetches, NEW q, FetchTyped(q),
         fetches' = [fetches EXCEPT ![f] = q], FetchSound(f, q, observations'),
         observations \subseteq observations', UNCHANGED cache,
         calls' = [c \in Calls |-> calls'[c]],
         \A c \in Calls : CallTyped(calls'[c]) /\ CallSound(calls'[c], fetches')
  PROVE  CacheInv'
<1>1. \A g \in Cache!Fetches : fetches'[g] = IF g = f THEN q ELSE fetches[g]  BY DEF CacheInv
<1>2. fetches' = [g \in Cache!Fetches |-> fetches'[g]]  BY DEF CacheInv
<1>3. \A g \in Cache!Fetches : FetchTyped(fetches'[g]) /\ FetchSound(g, fetches'[g], observations')
  BY <1>1 DEF CacheInv, FetchSound
<1>4. cache' = [m \in Markets |-> cache'[m]] /\ \A m \in Markets : cache'[m] # None => RowTrue(cache'[m])
  BY DEF CacheInv
<1>5. QED  BY <1>2, <1>3, <1>4 DEF CacheInv

LEMMA LeadKeeps ==
  ASSUME None \notin Cache!Fetches, CacheInv, NEW c \in Calls, Cache!Lead(c)  PROVE CacheInv'
<1> DEFINE q == [Cache!Unsent EXCEPT !.stage = "sent", !.instance = calls[c].instance,
                                     !.markets = Cache!MissingMarkets(c)]
<1>1. PICK f \in Cache!Fetches :
        /\ fetches[f] = Cache!Unsent
        /\ calls' = [calls EXCEPT ![c] = [Cache!Decided(c) EXCEPT !.fetch = f]]
        /\ fetches' = [fetches EXCEPT ![f] = q]
  BY DEF Cache!Lead
<1>2. calls[c].stage = "read" /\ UNCHANGED <<cache, observations>>  BY DEF Cache!Lead
<1>3. FetchTyped(q) /\ FetchSound(f, q, observations) /\ q.stage = "sent"
  BY DEF FetchTyped, FetchSound, Cache!Unsent
<1> DEFINE n == [Cache!Decided(c) EXCEPT !.fetch = f]
<1> HIDE DEF q
<1>4. \A g \in Cache!Fetches : fetches'[g] = IF g = f THEN q ELSE fetches[g]  BY <1>1 DEF CacheInv
<1>5. fetches'[f].stage \in {"sent", "received"} /\ f # None  BY <1>3, <1>4
<1>6. CallTyped(n) /\ CallSound(n, fetches')  BY <1>2, <1>5, WaitingSound
<1>7. calls' = [calls EXCEPT ![c] = n]  BY <1>1
<1> HIDE DEF n
<1>8. \A d \in Calls : calls'[d] = IF d = c THEN n ELSE calls[d]  BY <1>7 DEF CacheInv
<1>9. fetches[f].stage = "unsent"  BY <1>1 DEF Cache!Unsent
<1>10. ASSUME NEW d \in Calls PROVE CallTyped(calls'[d]) /\ CallSound(calls'[d], fetches')
  <2>1. CallTyped(calls[d]) /\ CallSound(calls[d], fetches)  BY DEF CacheInv
  <2>2. calls[d].fetch # f \/ calls[d].stage \notin {"fetching", "writing", "answered"}
    BY <1>5, <1>9, <2>1 DEF CallSound
  <2>3. CallSound(calls[d], fetches')  BY <1>4, <2>1, <2>2 DEF CallSound, CallTyped
  <2>4. QED  BY <1>6, <1>8, <2>1, <2>3
<1>11. calls' = [d \in Calls |-> calls'[d]]  BY <1>7 DEF CacheInv
<1>12. QED  BY <1>1, <1>2, <1>3, <1>10, <1>11, FetchChanges DEF q

LEMMA RespondKeeps ==
  ASSUME CacheInv, NEW f \in Cache!Fetches, Cache!Respond(f)  PROVE CacheInv'
<1> DEFINE q == [fetches[f] EXCEPT !.stage = "received", !.payload = clock, !.capturedAt = clock]
<1>1. /\ fetches[f].stage = "sent" /\ fetches' = [fetches EXCEPT ![f] = q]
      /\ UNCHANGED <<cache, calls, observations>>
  BY DEF Cache!Respond
<1>2. FetchTyped(q) /\ FetchSound(f, q, observations) /\ q.stage = "received"
  BY <1>1 DEF CacheInv, FetchTyped, FetchSound
<1> HIDE DEF q
<1>3. \A g \in Cache!Fetches : fetches'[g] = IF g = f THEN q ELSE fetches[g]  BY <1>1 DEF CacheInv
<1>4. ASSUME NEW d \in Calls PROVE CallTyped(calls[d]) /\ CallSound(calls[d], fetches')
  <2>1. CallTyped(calls[d]) /\ CallSound(calls[d], fetches)  BY DEF CacheInv
  <2>2. QED  BY <1>1, <1>2, <1>3, <2>1 DEF CallSound, CallTyped
<1>5. QED  BY <1>1, <1>2, <1>4, FetchChanges DEF CacheInv

LEMMA FetchFailsKeeps ==
  ASSUME None \notin Cache!Fetches, CacheInv, NEW f \in Cache!Fetches, Cache!FetchFails(f)
  PROVE  CacheInv'
<1> DEFINE q == [Cache!Unsent EXCEPT !.stage = "failed"]
           idle == [Cache!Idle EXCEPT !.stage = "failed"]
<1>1. /\ fetches[f].stage = "sent" /\ fetches' = [fetches EXCEPT ![f] = q]
      /\ calls' = [c \in Calls |-> IF calls[c].fetch = f THEN idle ELSE calls[c]]
      /\ UNCHANGED <<cache, observations>>
  BY DEF Cache!FetchFails
<1>2. FetchTyped(q) /\ FetchSound(f, q, observations)
  BY DEF FetchTyped, FetchSound, Cache!Unsent
<1>3. CallTyped(idle) /\ CallSound(idle, fetches')  BY DEF CallTyped, CallSound, Cache!Idle
<1> HIDE DEF q, idle
<1>4. \A g \in Cache!Fetches : fetches'[g] = IF g = f THEN q ELSE fetches[g]  BY <1>1 DEF CacheInv
<1>5. ASSUME NEW d \in Calls PROVE CallTyped(calls'[d]) /\ CallSound(calls'[d], fetches')
  <2>1. CallTyped(calls[d]) /\ CallSound(calls[d], fetches)  BY DEF CacheInv
  <2>2. CASE calls[d].fetch = f  BY <1>1, <1>3, <2>2
  <2>3. CASE calls[d].fetch # f
    <3>1. CallSound(calls[d], fetches')  BY <1>4, <2>1, <2>3 DEF CallSound, CallTyped
    <3>2. QED  BY <1>1, <2>1, <2>3, <3>1
  <2>4. QED  BY <2>2, <2>3
<1>6. calls' = [c \in Calls |-> calls'[c]]  BY <1>1
<1>7. QED  BY <1>1, <1>2, <1>5, <1>6, FetchChanges

LEMMA SettleKeeps ==
  ASSUME None \notin Cache!Fetches, CacheInv, NEW f \in Cache!Fetches, NEW ok \in BOOLEAN,
         Cache!Settle(f, ok)
  PROVE  CacheInv'
<1> DEFINE q == [fetches[f] EXCEPT !.stage = "settled", !.instance = None, !.markets = {},
                                   !.persisted = Cache!Persists(f, ok)]
           Writing(c) == [calls[c] EXCEPT !.stage = "writing", !.toWrite = calls[c].missing]
<1>1. /\ fetches[f].stage = "received" /\ fetches' = [fetches EXCEPT ![f] = q]
      /\ observations' = IF Cache!Persists(f, ok) THEN observations \cup {f} ELSE observations
      /\ calls' = [c \in Calls |-> IF calls[c].fetch = f THEN Writing(c) ELSE calls[c]]
      /\ UNCHANGED cache
  BY DEF Cache!Settle
<1>2. FetchTyped(fetches[f]) /\ FetchSound(f, fetches[f], observations)  BY DEF CacheInv
<1>3. Cache!Persists(f, ok) \in BOOLEAN  BY DEF Cache!Persists
<1>4. /\ FetchTyped(q) /\ q.stage = "settled" /\ q.payload = fetches[f].payload
      /\ q.capturedAt = fetches[f].capturedAt /\ q.persisted = Cache!Persists(f, ok)
  BY <1>2, <1>3 DEF FetchTyped
<1> HIDE DEF q
<1>5. FetchSound(f, q, observations')
  BY <1>1, <1>2, <1>4 DEF FetchSound, Cache!Persists
<1>6. \A g \in Cache!Fetches : fetches'[g] = IF g = f THEN q ELSE fetches[g]  BY <1>1 DEF CacheInv
<1>7. ASSUME NEW d \in Calls PROVE CallTyped(calls'[d]) /\ CallSound(calls'[d], fetches')
  <2>1. CallTyped(calls[d]) /\ CallSound(calls[d], fetches)  BY DEF CacheInv
  <2>2. CASE calls[d].fetch = f
    <3> DEFINE n == Writing(d)
    <3>1. calls[d].stage = "fetching"  BY <1>1, <2>1, <2>2 DEF CallSound, CallTyped
    <3>2. /\ CallTyped(n) /\ n.stage = "writing" /\ n.fetch = f /\ n.markets = calls[d].markets
          /\ n.missing = calls[d].missing /\ n.rows = calls[d].rows
          /\ n.decidedAt = calls[d].decidedAt /\ n.forceRefresh = calls[d].forceRefresh
      BY <2>1, <2>2 DEF CallTyped
    <3> HIDE DEF n
    <3>3. CallSound(n, fetches')  BY <1>4, <1>6, <2>1, <3>1, <3>2 DEF CallSound
    <3>4. calls'[d] = n  BY <1>1, <2>2 DEF n
    <3>5. QED  BY <3>2, <3>3, <3>4
  <2>3. CASE calls[d].fetch # f
    <3>1. CallSound(calls[d], fetches')  BY <1>6, <2>1, <2>3 DEF CallSound, CallTyped
    <3>2. QED  BY <1>1, <2>1, <2>3, <3>1
  <2>4. QED  BY <2>2, <2>3
<1>8. calls' = [c \in Calls |-> calls'[c]] /\ observations \subseteq observations'  BY <1>1
<1>9. QED  BY <1>1, <1>4, <1>5, <1>7, <1>8, FetchChanges

LEMMA WriteRowKeeps ==
  ASSUME CacheInv, NEW c \in Calls, NEW m \in Markets, NEW ok \in BOOLEAN,
         Cache!WriteRow(c, m, ok)
  PROVE  CacheInv'
<1> DEFINE n == [calls[c] EXCEPT !.toWrite = @ \ {m}]
           row == Cache!CacheRow(calls[c].fetch)
<1>1. /\ calls[c].stage = "writing" /\ calls' = [calls EXCEPT ![c] = n]
      /\ cache' = IF ok THEN [cache EXCEPT ![m] = row] ELSE cache
      /\ UNCHANGED <<fetches, observations>>
  BY DEF Cache!WriteRow
<1>2. CallTyped(calls[c]) /\ CallSound(calls[c], fetches)  BY DEF CacheInv
<1>3. CallTyped(n) /\ CallSound(n, fetches)  BY <1>1, <1>2 DEF CallTyped, CallSound
<1>4. RowTrue(row)
  <2>1. calls[c].fetch \in Cache!Fetches /\ fetches[calls[c].fetch].stage = "settled"
    BY <1>1, <1>2 DEF CallTyped, CallSound
  <2>2. QED  BY <2>1 DEF CacheInv, FetchSound, Cache!CacheRow, RowTrue
<1> HIDE DEF n, row
<1>5. \A d \in Calls : calls'[d] = IF d = c THEN n ELSE calls[d]  BY <1>1 DEF CacheInv
<1>6. \A k \in Markets : cache'[k] \in {cache[k], row}  BY <1>1 DEF CacheInv
<1>7. cache' = [k \in Markets |-> cache'[k]]  BY <1>1 DEF CacheInv
<1>8. \A k \in Markets : cache'[k] # None => RowTrue(cache'[k])  BY <1>4, <1>6 DEF CacheInv
<1>9. \A d \in Calls : CallTyped(calls'[d]) /\ CallSound(calls'[d], fetches)
  BY <1>3, <1>5 DEF CacheInv
<1>10. QED  BY <1>1, <1>7, <1>8, <1>9 DEF CacheInv

LEMMA AnswerKeeps ==
  ASSUME CacheInv, NEW c \in Calls, Cache!Answer(c)  PROVE CacheInv'
<1> DEFINE n == [calls[c] EXCEPT !.stage = "answered"]
<1>1. /\ calls[c].stage = "writing" /\ calls' = [calls EXCEPT ![c] = n]
      /\ UNCHANGED <<cache, fetches, observations>>
  BY DEF Cache!Answer
<1>2. CallTyped(n) /\ CallSound(n, fetches)  BY <1>1 DEF CacheInv, CallTyped, CallSound
<1> HIDE DEF n
<1>3. QED  BY <1>1, <1>2, CallChanges

LEMMA CacheInvStep ==
  ASSUME None \notin Cache!Fetches, CacheInv, [Cache!KNext]_cacheVars  PROVE CacheInv'
<1>1. CASE UNCHANGED cacheVars  BY <1>1 DEF cacheVars, CacheInv
<1>2. CASE Cache!TimePasses  BY <1>2 DEF Cache!TimePasses, CacheInv
<1>3. ASSUME NEW c \in Calls, NEW instance, NEW markets \in SUBSET Markets, NEW force \in BOOLEAN,
             Cache!Ask(c, instance, markets, force)
      PROVE  CacheInv'
  BY <1>3, AskKeepsCache
<1>4. ASSUME NEW c \in Calls,
             Cache!AnswerFromCache(c) \/ Cache!Join(c) \/ Cache!Lead(c) \/ Cache!Answer(c)
      PROVE  CacheInv'
  BY <1>4, AnswerFromCacheKeeps, JoinKeeps, LeadKeeps, AnswerKeeps
<1>5. ASSUME NEW c \in Calls, NEW m \in Markets, NEW ok \in BOOLEAN, Cache!WriteRow(c, m, ok)
      PROVE  CacheInv'
  BY <1>5, WriteRowKeeps
<1>6. ASSUME NEW f \in Cache!Fetches, Cache!Respond(f) \/ Cache!FetchFails(f) PROVE CacheInv'
  BY <1>6, RespondKeeps, FetchFailsKeeps
<1>7. ASSUME NEW f \in Cache!Fetches, NEW ok \in BOOLEAN, Cache!Settle(f, ok) PROVE CacheInv'
  BY <1>7, SettleKeeps
<1>8. QED  BY <1>1, <1>2, <1>3, <1>4, <1>5, <1>6, <1>7 DEF Cache!KNext

LEMMA CacheInvTrue ==
  ASSUME None \notin Cache!Fetches, CacheInv  PROVE Cache!AnswersTrue
<1> SUFFICES ASSUME NEW c \in Calls, calls[c].stage = "answered", NEW m \in calls[c].markets
    PROVE  /\ Cache!Origin(c, m).capturedAt = Cache!Shown(c, m)
           /\ Cache!Origin(c, m).origin = "cache" =>
                calls[c].decidedAt - Cache!Shown(c, m) < Cache!FreshnessThreshold(c)
           /\ Cache!Origin(c, m).observationPersisted =>
                calls[c].fetch \in observations /\ Cache!Origin(c, m).capturedAt < Kickoff
  BY DEF Cache!AnswersTrue
<1>1. CallTyped(calls[c]) /\ CallSound(calls[c], fetches)  BY DEF CacheInv
<1>2. CASE m \in calls[c].missing
  <2>1. calls[c].fetch \in Cache!Fetches /\ fetches[calls[c].fetch].stage = "settled"
    BY <1>1, <1>2 DEF CallTyped, CallSound
  <2>2. FetchSound(calls[c].fetch, fetches[calls[c].fetch], observations)  BY <2>1 DEF CacheInv
  <2>3. QED  BY <1>2, <2>1, <2>2 DEF FetchSound, Cache!Origin, Cache!Shown
<1>3. CASE m \notin calls[c].missing
  <2>1. /\ RowTrue(calls[c].rows[m])
        /\ calls[c].decidedAt - calls[c].rows[m].fetchedAt < Cache!FreshnessThreshold(c)
    BY <1>1, <1>3 DEF CallSound, Cache!FreshnessThreshold
  <2>2. QED  BY <1>3, <2>1 DEF RowTrue, Cache!Origin, Cache!Shown
<1>4. QED  BY <1>2, <1>3

\* An answer's time is when its odds were captured, a cached market is within the window the
\* request allows, and what is called persisted is evidence from before the kickoff
\* (oddsCacheRepo.ts): for any callers, instances, markets and windows.
THEOREM OddsAnswersAreTrue ==
  ASSUME None \notin Cache!Fetches  PROVE Spec => []AnswersTrue
<1> DEFINE Inv == part = "cache" => CacheInv
<1>1. Init => Inv
  BY DEF Init, Cache!KInit, CacheInv, CallTyped, CallSound, FetchTyped, FetchSound,
         Cache!Idle, Cache!Unsent
<1>2. Inv /\ [Next]_vars => Inv'
  <2> SUFFICES ASSUME part = "cache", CacheInv, [Next]_vars  PROVE CacheInv'
    BY DEF Next, vars
  <2>1. [Cache!KNext]_cacheVars  BY DEF Next, vars
  <2>2. QED  BY <2>1, CacheInvStep
<1>3. Inv => AnswersTrue  BY CacheInvTrue DEF AnswersTrue
<1>4. QED  BY <1>1, <1>2, <1>3, PTL DEF Spec

-----------------------------------------------------------------------------
(***************************************************************************)
(* The slate browser.  Every change of the selection empties what was      *)
(* discovered in the same step; a request belongs to a component that is   *)
(* or was on the page, so mounting a new one does not touch it.            *)
(***************************************************************************)
DiscoveryTyped(d) ==
  d \in [mount : {d.mount}, identity : {d.identity}, aborted : BOOLEAN, pending : BOOLEAN]

SlateInv ==
  /\ Slate!ShownIsSelected
  /\ mount \in Slate!Mounts
  /\ requestRef = [m \in Slate!Mounts |-> requestRef[m]]
  /\ \E n \in Nat : DOMAIN discoveries = 1..n
  /\ discoveries = [d \in DOMAIN discoveries |-> discoveries[d]]
  /\ \A d \in DOMAIN discoveries :
       /\ DiscoveryTyped(discoveries[d])
       /\ discoveries[d].pending => discoveries[d].mount \in 1..mount

\* After the requests of the mounted component are aborted.
LEMMA AbortedKeeps ==
  ASSUME SlateInv
  PROVE  /\ DOMAIN Slate!Aborted = DOMAIN discoveries
         /\ \A d \in DOMAIN discoveries :
              /\ DiscoveryTyped(Slate!Aborted[d])
              /\ Slate!Aborted[d].mount = discoveries[d].mount
              /\ Slate!Aborted[d].pending = discoveries[d].pending
  BY DEF SlateInv, DiscoveryTyped, Slate!Aborted

\* A selection of a game of the slate, or of none.
LEMMA SelectKeeps ==
  ASSUME SlateInv, NEW game, NEW markets, Slate!Select(game, markets), mount' = mount,
         game # None => game \in realSlate'
  PROVE  SlateInv'
<1>1. /\ selectedEventId' = game /\ discovered' = None /\ discoveryStatus' = "idle"
      /\ discoveries' = Slate!Aborted
      /\ requestRef' = [requestRef EXCEPT ![mount] = Slate!Ref(None, Slate!Identity(game, markets))]
  BY DEF Slate!Select, Slate!EffectOfIdentity
<1>2. Slate!ShownIsSelected'  BY <1>1 DEF Slate!ShownIsSelected
<1>3. discoveries' = [d \in DOMAIN discoveries' |-> discoveries'[d]]
  BY <1>1 DEF Slate!Aborted
<1>4. Slate!Mounts' = Slate!Mounts  BY DEF Slate!Mounts
<1>5. requestRef' = [m \in Slate!Mounts |-> requestRef'[m]]  BY <1>1 DEF SlateInv
<1>6. /\ \E n \in Nat : DOMAIN discoveries' = 1..n
      /\ \A d \in DOMAIN discoveries' :
           /\ DiscoveryTyped(discoveries'[d])
           /\ discoveries'[d].pending => discoveries'[d].mount \in 1..mount
  BY <1>1, AbortedKeeps DEF SlateInv
<1>7. QED  BY <1>2, <1>3, <1>4, <1>5, <1>6 DEF SlateInv

LEMMA ReceiveSlateKeeps ==
  ASSUME SlateInv, NEW n, Slate!ReceiveSlate(n)  PROVE SlateInv'
<1>1. mount' = mount  BY DEF Slate!ReceiveSlate
<1>2. CASE UNCHANGED <<realSlate, selectedEventId, checkedMarketKeys, discovered, discoveryStatus,
                       discoveries, requestRef>>
  BY <1>1, <1>2 DEF SlateInv, Slate!ShownIsSelected, Slate!IsCurrentDiscovery, Slate!Current,
                    Slate!Mounts
<1>3. CASE Slate!SetRealSlate(slateLoads[n].answer)
  <2>1. CASE selectedEventId = None \/ selectedEventId \in slateLoads[n].answer
    BY <1>1, <1>3, <2>1 DEF Slate!SetRealSlate, SlateInv, Slate!ShownIsSelected,
                            Slate!IsCurrentDiscovery, Slate!Current, Slate!Mounts
  <2>2. CASE ~(selectedEventId = None \/ selectedEventId \in slateLoads[n].answer)
    <3>1. Slate!Select(None, {})  BY <1>3, <2>2 DEF Slate!SetRealSlate
    <3>2. QED  BY <1>1, <3>1, SelectKeeps
  <2>3. QED  BY <2>1, <2>2
<1>4. QED  BY <1>2, <1>3 DEF Slate!ReceiveSlate, Slate!storeVars

\* The cardinality of the instance is that of the library's theorems.
LEMMA SlateCardinality == \A S : Slate!Cardinality(S) = Cardinality(S)
  BY DEF Slate!Cardinality, Cardinality, Slate!IsFiniteSet, IsFiniteSet

LEMMA FetchDiscoveredPropsKeeps ==
  ASSUME SlateInv, Slate!FetchDiscoveredProps  PROVE SlateInv'
<1>1. PICK n \in Nat : DOMAIN discoveries = 1..n  BY DEF SlateInv
<1>2. Slate!Cardinality(DOMAIN discoveries) = n  BY <1>1, FS_Interval, SlateCardinality
<1> DEFINE new == Slate!Discovering(mount, Slate!Current)
<1>3. /\ requestRef' = [requestRef EXCEPT ![mount] = Slate!Ref(n + 1, Slate!Current)]
      /\ discoveries' = Slate!Added(Slate!Aborted, new)
      /\ discoveryStatus' = "loading"
      /\ UNCHANGED <<realSlate, selectedEventId, checkedMarketKeys, discovered, mount>>
  BY <1>2 DEF Slate!FetchDiscoveredProps
<1>4. discoveries' = [d \in 1..(n + 1) |-> IF d \in 1..n THEN Slate!Aborted[d] ELSE new]
  <2>1. DOMAIN Slate!Aborted = 1..n  BY <1>1, AbortedKeeps
  <2>2. Slate!Cardinality(DOMAIN Slate!Aborted) = n  BY <1>1, <1>2, <2>1
  <2>3. QED  BY <1>3, <2>1, <2>2 DEF Slate!Added
<1>5. /\ DOMAIN discoveries' = 1..(n + 1) /\ n + 1 \in Nat /\ discoveries'[n + 1] = new
      /\ \A d \in 1..n : discoveries'[d] = Slate!Aborted[d]
  BY <1>4
<1>6. /\ new.pending /\ ~new.aborted /\ new.mount = mount /\ new.identity = Slate!Current
      /\ DiscoveryTyped(new)
  BY DEF Slate!Discovering, DiscoveryTyped
<1>7. Slate!Current' = Slate!Current  BY <1>3 DEF Slate!Current
<1>8. requestRef'[mount] = Slate!Ref(n + 1, Slate!Current)  BY <1>3 DEF SlateInv
<1> HIDE DEF new
<1>9. Slate!ShownIsSelected'
  <2>1. Slate!IsCurrentDiscovery(n + 1)'
    BY <1>5, <1>6, <1>7, <1>8 DEF Slate!IsCurrentDiscovery, Slate!Ref
  <2>2. n + 1 \in DOMAIN discoveries' /\ discoveries'[n + 1].pending  BY <1>5, <1>6
  <2>3. QED  BY <1>3, <1>7, <2>1, <2>2 DEF SlateInv, Slate!ShownIsSelected
<1>10. ASSUME NEW d \in 1..(n + 1)
       PROVE  /\ DiscoveryTyped(discoveries'[d])
              /\ discoveries'[d].pending => discoveries'[d].mount \in 1..mount
  <2>1. CASE d = n + 1  BY <1>5, <1>6, <2>1 DEF SlateInv, Slate!Mounts
  <2>2. CASE d \in 1..n  BY <1>1, <1>5, <2>2, AbortedKeeps DEF SlateInv
  <2>3. QED  BY <2>1, <2>2
<1>11. requestRef' = [m \in Slate!Mounts |-> requestRef'[m]]  BY <1>3 DEF SlateInv
<1>12. discoveries' = [d \in DOMAIN discoveries' |-> discoveries'[d]]  BY <1>4
<1>13. Slate!Mounts' = Slate!Mounts  BY DEF Slate!Mounts
<1>14. QED  BY <1>3, <1>5, <1>9, <1>10, <1>11, <1>12, <1>13 DEF SlateInv

LEMMA ReceivePropsKeeps ==
  ASSUME SlateInv, NEW d \in DOMAIN discoveries, NEW ok \in BOOLEAN, Slate!ReceiveProps(d, ok)
  PROVE  SlateInv'
<1>1. /\ discoveries' = [discoveries EXCEPT ![d] = Slate!DiscoveryDone]
      /\ UNCHANGED <<realSlate, selectedEventId, checkedMarketKeys, mount, requestRef>>
  BY DEF Slate!ReceiveProps
<1>2. DiscoveryTyped(Slate!DiscoveryDone) /\ ~Slate!DiscoveryDone.pending
  BY DEF DiscoveryTyped, Slate!DiscoveryDone
<1>3. /\ DOMAIN discoveries' = DOMAIN discoveries
      /\ \A e \in DOMAIN discoveries :
           discoveries'[e] = IF e = d THEN Slate!DiscoveryDone ELSE discoveries[e]
  BY <1>1 DEF SlateInv
<1>4. Slate!Current' = Slate!Current  BY <1>1 DEF Slate!Current
<1>5. Slate!ShownIsSelected'
  <2>1. CASE Slate!IsCurrentDiscovery(d)
    <3>1. /\ discoveryStatus' # "loading"
          /\ discovered' \in {discovered, discoveries[d].identity}
      BY <2>1 DEF Slate!ReceiveProps
    <3>2. discoveries[d].identity = Slate!Current  BY <2>1 DEF Slate!IsCurrentDiscovery
    <3>3. QED  BY <1>1, <1>4, <3>1, <3>2 DEF SlateInv, Slate!ShownIsSelected
  <2>2. CASE ~Slate!IsCurrentDiscovery(d)
    <3>1. UNCHANGED <<discovered, discoveryStatus>>  BY <2>2 DEF Slate!ReceiveProps
    <3>2. ASSUME NEW e \in DOMAIN discoveries, discoveries[e].pending, Slate!IsCurrentDiscovery(e)
          PROVE  discoveries'[e].pending /\ Slate!IsCurrentDiscovery(e)'
      BY <1>1, <1>3, <1>4, <2>2, <3>2 DEF Slate!IsCurrentDiscovery
    <3>3. QED  BY <1>1, <1>3, <1>4, <3>1, <3>2 DEF SlateInv, Slate!ShownIsSelected
  <2>3. QED  BY <2>1, <2>2
<1>6. \A e \in DOMAIN discoveries :
        /\ DiscoveryTyped(discoveries'[e])
        /\ discoveries'[e].pending => discoveries'[e].mount \in 1..mount
  BY <1>2, <1>3 DEF SlateInv
<1>7. discoveries' = [e \in DOMAIN discoveries' |-> discoveries'[e]]  BY <1>1 DEF SlateInv
<1>8. QED  BY <1>1, <1>3, <1>5, <1>6, <1>7 DEF SlateInv, Slate!Mounts

LEMMA RemountKeeps ==
  ASSUME MaxMounts \in Nat, SlateInv, Slate!RemountBrowser  PROVE SlateInv'
<1>1. /\ mount' = mount + 1 /\ mount + 1 \in Slate!Mounts
      /\ requestRef' = [requestRef EXCEPT ![mount + 1] = Slate!Ref(None, Slate!Current)]
      /\ UNCHANGED <<realSlate, selectedEventId, checkedMarketKeys, discovered, discoveryStatus,
                     discoveries>>
  BY DEF SlateInv, Slate!RemountBrowser, Slate!Mounts
<1>2. requestRef' = [m \in Slate!Mounts |-> requestRef'[m]]  BY <1>1 DEF SlateInv
<1>3. \A m \in 1..mount : requestRef'[m] = requestRef[m]
  BY <1>1 DEF SlateInv, Slate!Mounts
<1>4. \A d \in DOMAIN discoveries : discoveries[d].pending => discoveries[d].mount \in 1..mount
  BY DEF SlateInv
<1>5. \A d \in DOMAIN discoveries : discoveries[d].pending /\ Slate!IsCurrentDiscovery(d)
        => Slate!IsCurrentDiscovery(d)'
  BY <1>1, <1>3, <1>4 DEF Slate!IsCurrentDiscovery, Slate!Current
<1>6. Slate!ShownIsSelected'
  BY <1>1, <1>5 DEF SlateInv, Slate!ShownIsSelected, Slate!Current
<1>7. \A d \in DOMAIN discoveries : discoveries[d].pending => discoveries[d].mount \in 1..mount'
  BY <1>1, <1>4 DEF SlateInv, Slate!Mounts
<1>8. QED  BY <1>1, <1>2, <1>6, <1>7 DEF SlateInv, Slate!Mounts

LEMMA SlateInvStep ==
  ASSUME MaxMounts \in Nat, SlateInv, [Slate!BNext]_slateVars  PROVE SlateInv'
<1>1. CASE UNCHANGED <<realSlate, selectedEventId, checkedMarketKeys, discovered, discoveryStatus,
                       mount, discoveries, requestRef>>
  BY <1>1 DEF SlateInv, Slate!ShownIsSelected, Slate!IsCurrentDiscovery, Slate!Current,
              Slate!Mounts
<1>2. CASE UNCHANGED slateVars  BY <1>1, <1>2 DEF slateVars
<1>3. CASE Slate!NextWeek \/ Slate!LoadSlate \/ \E n, ok : Slate!SlateAnswered(n, ok)
  BY <1>1, <1>3 DEF Slate!NextWeek, Slate!LoadSlate, Slate!SlateAnswered, Slate!storeVars
<1>4. CASE \E n : Slate!ReceiveSlate(n)  BY <1>4, ReceiveSlateKeeps
<1>5. ASSUME NEW game, Slate!SelectGame(game) PROVE SlateInv'
  BY <1>5, SelectKeeps DEF Slate!SelectGame
<1>6. ASSUME NEW m, Slate!ToggleMarket(m) PROVE SlateInv'
  <2>1. /\ \E markets : Slate!Select(selectedEventId, markets)
        /\ UNCHANGED <<realSlate, mount>>
    BY <1>6 DEF Slate!ToggleMarket
  <2>2. selectedEventId # None => selectedEventId \in realSlate'
    BY <2>1 DEF SlateInv, Slate!ShownIsSelected
  <2>3. QED  BY <2>1, <2>2, SelectKeeps
<1>7. ASSUME NEW d \in DOMAIN discoveries, NEW ok \in BOOLEAN, Slate!ReceiveProps(d, ok)
      PROVE  SlateInv'
  BY <1>7, ReceivePropsKeeps
<1>8. QED
  BY <1>2, <1>3, <1>4, <1>5, <1>6, <1>7, FetchDiscoveredPropsKeeps, RemountKeeps
  DEF Slate!BNext

\* The props in the store are those of the selection, the selected game is one of the slate,
\* and a spinner waits for an answer that will end it (SlateBrowser.tsx, matchupSlice.ts): for
\* any games, weeks and markets and any number of requests and components.
THEOREM SelectionIsShown ==
  ASSUME MaxMounts \in Nat \ {0}  PROVE Spec => []ShownIsSelected
<1> DEFINE Inv == part = "slate" => SlateInv
<1>1. Init => Inv
  <2> SUFFICES ASSUME Init PROVE SlateInv  OBVIOUS
  <2>1. /\ selectedEventId = None /\ discovered = None /\ discoveryStatus = "idle" /\ mount = 1
        /\ discoveries = [d \in {} |-> None]
        /\ requestRef = [n \in Slate!Mounts |-> Slate!Ref(None, Slate!Identity(None, {}))]
    BY DEF Init, Slate!BInit
  <2>2. DOMAIN discoveries = 1..0 /\ 0 \in Nat  BY <2>1
  <2>3. discoveries = [d \in DOMAIN discoveries |-> discoveries[d]]  BY <2>1
  <2>4. QED  BY <2>1, <2>2, <2>3 DEF SlateInv, Slate!ShownIsSelected, Slate!Mounts
<1>2. Inv /\ [Next]_vars => Inv'
  <2> SUFFICES ASSUME part = "slate", SlateInv, [Next]_vars  PROVE SlateInv'
    BY DEF Next, vars
  <2>1. [Slate!BNext]_slateVars  BY DEF Next, vars
  <2>2. QED  BY <2>1, SlateInvStep
<1>3. Inv => ShownIsSelected  BY DEF SlateInv, ShownIsSelected
<1>4. QED  BY <1>1, <1>2, <1>3, PTL DEF Spec

-----------------------------------------------------------------------------
(***************************************************************************)
(* Accounts.  A deletion that is past its check of a vanished account, or  *)
(* has succeeded, is right, since nothing brings an account back.  What a  *)
(* page holds is blanked at each change of user, and only an answer that   *)
(* was asked for by the user at hand is applied.                           *)
(***************************************************************************)
RequestTyped(q) ==
  q \in [call : {q.call}, uid : {q.uid}, phase : {q.phase}, answer : {q.answer},
         document : {q.document}, previous : {q.previous}]

\* A request q, among accounts a.
RequestSound(q, a) ==
  /\ q.previous \in {None, q.uid}
  /\ q.call = "delete" => q.uid \in Uids
  /\ q.call = "delete" /\ (q.phase = "already-deleted" \/ q.answer = "success") =>
       a[q.uid] = "deleted"

DeletionInv ==
  /\ accounts = [u \in Uids |-> accounts[u]]
  /\ requests = [c \in Account!Requests |-> requests[c]]
  /\ \A c \in Account!Requests : RequestTyped(requests[c]) /\ RequestSound(requests[c], accounts)
  /\ reported \subseteq Uids /\ \A u \in reported : accounts[u] = "deleted"

\* What the pages hold is the user's own, or was when the user was somebody else.
OwnInv ==
  /\ goal \in {None, uid} /\ watch \in {None, uid}
  /\ loaded # None => loaded.by = loaded.uid
  /\ identityGeneration \in Nat
  /\ submit \in [phase : {"idle", "posting", "refreshing"}, uid : {submit.uid}, generation : Nat,
                 by : {submit.by}]
  /\ submit.generation <= identityGeneration
  /\ submit.phase = "refreshing" /\ submit.generation = identityGeneration => submit.by = uid

AccountInv == DeletionInv /\ OwnInv

\* One request changes; accounts that are deleted stay so.
LEMMA RequestChanges ==
  ASSUME DeletionInv, NEW c, NEW n, RequestTyped(n), RequestSound(n, accounts'),
         requests' = [requests EXCEPT ![c] = n], accounts' = [u \in Uids |-> accounts'[u]],
         \A u \in Uids : accounts[u] = "deleted" => accounts'[u] = "deleted",
         \A u \in reported' \ reported : u \in Uids /\ accounts'[u] = "deleted"
  PROVE  DeletionInv'
<1>1. \A d \in Account!Requests : requests'[d] = IF d = c THEN n ELSE requests[d]
  BY DEF DeletionInv
<1>2. \A d \in Account!Requests : RequestTyped(requests'[d]) /\ RequestSound(requests'[d], accounts')
  BY <1>1 DEF DeletionInv, RequestSound
<1>3. requests' = [d \in Account!Requests |-> requests'[d]]  BY DEF DeletionInv
<1>4. Account!Requests' = Account!Requests  BY DEF Account!Requests, Account!Generations
<1>5. reported' \subseteq Uids /\ \A u \in reported' : accounts'[u] = "deleted"  BY DEF DeletionInv
<1>6. QED  BY <1>2, <1>3, <1>4, <1>5 DEF DeletionInv

LEMMA BlankRequests ==
  ASSUME None # "success", NEW a, NEW call, NEW user, call = "delete" => user \in Uids
  PROVE  /\ RequestTyped(Account!Idle) /\ RequestSound(Account!Idle, a)
         /\ RequestTyped(Account!Sent(call, user)) /\ RequestSound(Account!Sent(call, user), a)
<1>1. Account!Idle = [call |-> "none", uid |-> None, phase |-> "none", answer |-> None,
                      document |-> None, previous |-> None]
  BY DEF Account!Idle
<1>2. RequestTyped(Account!Idle) /\ RequestSound(Account!Idle, a)
  BY <1>1 DEF RequestTyped, RequestSound
<1> DEFINE n == Account!Sent(call, user)
<1>3. /\ RequestTyped(n) /\ n.call = call /\ n.uid = user /\ n.phase = "sent" /\ n.answer = None
      /\ n.previous = None
  BY DEF Account!Sent, Account!Idle, RequestTyped
<1> HIDE DEF n
<1>4. RequestTyped(n) /\ RequestSound(n, a)  BY <1>3 DEF RequestSound
<1>5. QED  BY <1>2, <1>4 DEF n

\* An answer that claims no deletion that has not happened.
LEMMA DocumentAnswered ==
  ASSUME DeletionInv, NEW c \in Account!Requests, NEW answer, NEW document,
         answer = "success" /\ requests[c].call = "delete" => accounts'[requests[c].uid] = "deleted",
         requests' = [requests EXCEPT ![c] =
           [requests[c] EXCEPT !.phase = "answered", !.answer = answer, !.document = document]],
         accounts' = [u \in Uids |-> accounts'[u]],
         \A u \in Uids : accounts[u] = "deleted" => accounts'[u] = "deleted",
         reported' = reported
  PROVE  DeletionInv'
<1> DEFINE n == [requests[c] EXCEPT !.phase = "answered", !.answer = answer, !.document = document]
<1>1. RequestTyped(requests[c]) /\ RequestSound(requests[c], accounts)  BY DEF DeletionInv
<1>2. /\ RequestTyped(n) /\ n.phase = "answered" /\ n.answer = answer
      /\ n.call = requests[c].call /\ n.uid = requests[c].uid /\ n.previous = requests[c].previous
  BY <1>1 DEF RequestTyped
<1> HIDE DEF n
<1>3. RequestSound(n, accounts')  BY <1>1, <1>2 DEF RequestSound
<1>4. QED  BY <1>2, <1>3, RequestChanges DEF n

LEMMA PlainAnswered ==
  ASSUME DeletionInv, NEW c \in Account!Requests, NEW answer,
         answer = "success" /\ requests[c].call = "delete" => accounts'[requests[c].uid] = "deleted",
         requests' = Account!Answer(c, answer), accounts' = [u \in Uids |-> accounts'[u]],
         \A u \in Uids : accounts[u] = "deleted" => accounts'[u] = "deleted",
         reported' = reported
  PROVE  DeletionInv'
<1> DEFINE n == [requests[c] EXCEPT !.phase = "answered", !.answer = answer]
<1>1. RequestTyped(requests[c]) /\ RequestSound(requests[c], accounts)  BY DEF DeletionInv
<1>2. requests' = [requests EXCEPT ![c] = n]  BY DEF Account!Answer, DeletionInv
<1>3. /\ RequestTyped(n) /\ n.phase = "answered" /\ n.answer = answer
      /\ n.call = requests[c].call /\ n.uid = requests[c].uid /\ n.previous = requests[c].previous
  BY <1>1 DEF RequestTyped
<1> HIDE DEF n
<1>4. RequestSound(n, accounts')  BY <1>1, <1>3 DEF RequestSound
<1>5. QED  BY <1>2, <1>3, <1>4, RequestChanges

\* A request moves to a phase in which nothing is claimed.
LEMMA PhaseSound ==
  ASSUME DeletionInv, NEW c \in Account!Requests, NEW phase,
         phase = "already-deleted" /\ requests[c].call = "delete"
           => accounts[requests[c].uid] = "deleted",
         requests' = [requests EXCEPT ![c].phase = phase], UNCHANGED <<accounts, reported>>
  PROVE  DeletionInv'
<1> DEFINE n == [requests[c] EXCEPT !.phase = phase]
<1>1. RequestTyped(requests[c]) /\ RequestSound(requests[c], accounts)  BY DEF DeletionInv
<1>2. requests' = [requests EXCEPT ![c] = n]  BY DEF DeletionInv
<1>3. /\ RequestTyped(n) /\ n.phase = phase /\ n.answer = requests[c].answer
      /\ n.call = requests[c].call /\ n.uid = requests[c].uid /\ n.previous = requests[c].previous
  BY <1>1 DEF RequestTyped
<1> HIDE DEF n
<1>4. RequestSound(n, accounts')  BY <1>1, <1>3 DEF RequestSound
<1>5. accounts' = [u \in Uids |-> accounts'[u]]  BY DEF DeletionInv
<1>6. QED  BY <1>2, <1>3, <1>4, <1>5, RequestChanges

\* The server's steps serve no deletion.
LEMMA ServerKeeps ==
  ASSUME DeletionInv, NEW c \in Account!Generations \cup {WatchToggle},
         Account!Admitted(c) \/ Account!Failed(c) \/ Account!DocumentRead(c) \/ Account!GoalPut(c)
           \/ Account!WatchPosted(c) \/ Account!WatchDeleted(c)
  PROVE  DeletionInv'
<1>1. c \in Account!Requests  BY DEF Account!Requests
<1>2. accounts = [u \in Uids |-> accounts[u]]  BY DEF DeletionInv
<1>3. CASE Account!Admitted(c)
  BY <1>1, <1>3, PhaseSound DEF Account!Admitted
<1>4. CASE Account!Failed(c)
  BY <1>1, <1>2, <1>4, PlainAnswered DEF Account!Failed
<1>5. ASSUME NEW document, Account!Written(c, document), requests[c].call # "delete"
      PROVE  DeletionInv'
  BY <1>1, <1>2, <1>5, PlainAnswered DEF Account!Written
<1>6. CASE Account!GoalPut(c)  BY <1>5, <1>6 DEF Account!GoalPut
<1>7. CASE Account!WatchPosted(c)  BY <1>5, <1>7 DEF Account!WatchPosted
<1>8. CASE Account!WatchDeleted(c)  BY <1>5, <1>8 DEF Account!WatchDeleted
<1>9. CASE Account!DocumentRead(c)
  <2> DEFINE answer == IF documents[requests[c].uid] = None THEN "not-found" ELSE "found"
             document == documents[requests[c].uid]
  <2>1. /\ requests[c].call = "user-data" /\ UNCHANGED <<accounts, reported>>
        /\ requests' = [Account!Answer(c, answer) EXCEPT ![c].document = document]
    BY <1>9 DEF Account!DocumentRead
  <2> HIDE DEF answer, document
  <2>2. [Account!Answer(c, answer) EXCEPT ![c].document = document] = [requests EXCEPT ![c] =
          [requests[c] EXCEPT !.phase = "answered", !.answer = answer, !.document = document]]
    BY <1>1 DEF DeletionInv, Account!Answer
  <2>3. requests[c].call # "delete"  BY <2>1
  <2>4. QED  BY <1>1, <1>2, <2>1, <2>2, <2>3, DocumentAnswered, Zenon
<1>10. QED  BY <1>3, <1>4, <1>6, <1>7, <1>8, <1>9

LEMMA DeletionKeeps ==
  ASSUME None # "success", DeletionInv, NEW d \in Devices,
         \/ Account!DeletionChecked(d) \/ Account!DeletionRefused(d)
         \/ Account!DeletionOfDocument(d) \/ Account!DeletionOfAuth(d)
         \/ Account!DeletionFails(d) \/ Account!DeletionEnds(d)
  PROVE  DeletionInv'
<1>1. d \in Account!Requests /\ RequestTyped(requests[d]) /\ RequestSound(requests[d], accounts)
  BY DEF DeletionInv, Account!Requests
<1>2. accounts = [u \in Uids |-> accounts[u]]  BY DEF DeletionInv
<1>3. CASE Account!DeletionChecked(d)
  <2>1. PICK check \in Account!RevocationCheck(requests[d].uid) :
          requests' = CASE check = "ok" -> [requests EXCEPT ![d].phase = "active"]
                        [] check = "invalid" -> Account!Answer(d, "error")
                        [] OTHER -> [requests EXCEPT ![d].phase = "already-deleted"]
    BY <1>3 DEF Account!DeletionChecked
  <2>2. UNCHANGED <<accounts, reported>>  BY <1>3 DEF Account!DeletionChecked
  <2>3. CASE check = "ok"
    <3>1. requests' = [requests EXCEPT ![d].phase = "active"]  BY <2>1, <2>3
    <3>2. QED  BY <1>1, <2>2, <3>1, PhaseSound
  <2>4. CASE check = "invalid"
    <3>1. requests' = Account!Answer(d, "error")  BY <2>1, <2>4
    <3>2. QED  BY <1>1, <1>2, <2>2, <3>1, PlainAnswered
  <2>5. CASE check \notin {"ok", "invalid"}
    <3>1. requests' = [requests EXCEPT ![d].phase = "already-deleted"]  BY <2>1, <2>5
    <3>2. accounts[requests[d].uid] = "deleted"  BY <2>5 DEF Account!RevocationCheck
    <3>3. QED  BY <1>1, <2>2, <3>1, <3>2, PhaseSound
  <2>6. QED  BY <2>3, <2>4, <2>5
<1>4. CASE Account!DeletionRefused(d)
  BY <1>1, <1>2, <1>4, PlainAnswered DEF Account!DeletionRefused
<1>5. CASE Account!DeletionOfDocument(d)
  <2>1. /\ requests[d].call = "delete" /\ requests[d].phase \in {"active", "already-deleted"}
        /\ UNCHANGED <<accounts, reported>>
    BY <1>5 DEF Account!DeletionOfDocument
  <2>2. CASE requests[d].phase = "active"
    BY <1>1, <1>5, <2>1, <2>2, PhaseSound DEF Account!DeletionOfDocument
  <2>3. CASE requests[d].phase = "already-deleted"
    <3>1. accounts[requests[d].uid] = "deleted"  BY <1>1, <2>1, <2>3 DEF RequestSound
    <3>2. requests' = Account!Answer(d, "success")
      BY <1>5, <2>3 DEF Account!DeletionOfDocument
    <3>3. QED  BY <1>1, <1>2, <2>1, <3>1, <3>2, PlainAnswered
  <2>4. QED  BY <2>1, <2>2, <2>3
<1>6. CASE Account!DeletionOfAuth(d)
  <2>1. /\ requests[d].call = "delete" /\ requests' = Account!Answer(d, "success")
        /\ accounts' = [accounts EXCEPT ![requests[d].uid] = "deleted"] /\ reported' = reported
    BY <1>6 DEF Account!DeletionOfAuth
  <2>2. requests[d].uid \in Uids  BY <1>1, <2>1 DEF RequestSound
  <2>3. /\ accounts' = [u \in Uids |-> accounts'[u]] /\ accounts'[requests[d].uid] = "deleted"
        /\ \A u \in Uids : accounts[u] = "deleted" => accounts'[u] = "deleted"
    BY <1>2, <2>1, <2>2
  <2>4. QED  BY <1>1, <2>1, <2>3, PlainAnswered
<1>7. CASE Account!DeletionFails(d)
  BY <1>1, <1>2, <1>7, PlainAnswered DEF Account!DeletionFails
<1>8. CASE Account!DeletionEnds(d)
  <2>1. /\ requests[d].call = "delete" /\ requests' = [requests EXCEPT ![d] = Account!Idle]
        /\ accounts' = accounts
        /\ \A u \in reported' \ reported : u = requests[d].uid /\ requests[d].answer = "success"
    BY <1>8 DEF Account!DeletionEnds, Account!Ended
  <2>2. \A u \in reported' \ reported : u \in Uids /\ accounts'[u] = "deleted"
    BY <1>1, <2>1 DEF RequestSound
  <2>3. RequestTyped(Account!Idle) /\ RequestSound(Account!Idle, accounts')
    BY BlankRequests
  <2>4. QED  BY <1>2, <2>1, <2>2, <2>3, RequestChanges
<1>9. QED  BY <1>3, <1>4, <1>5, <1>6, <1>7, <1>8

\* Starting a request, ending one and disabling an account; the pages' own requests are never
\* deletions.
LEMMA RequestBlanked ==
  ASSUME None # "success", DeletionInv, NEW c, NEW call, NEW user, call = "delete" => user \in Uids,
         requests' \in {[requests EXCEPT ![c] = Account!Idle],
                        [requests EXCEPT ![c] = Account!Sent(call, user)], requests},
         UNCHANGED <<accounts, reported>>
  PROVE  DeletionInv'
<1>1. /\ RequestTyped(Account!Idle) /\ RequestSound(Account!Idle, accounts')
      /\ RequestTyped(Account!Sent(call, user)) /\ RequestSound(Account!Sent(call, user), accounts')
  BY BlankRequests
<1>2. accounts' = [u \in Uids |-> accounts'[u]]  BY DEF DeletionInv
<1>3. CASE requests' = requests
  BY <1>3 DEF DeletionInv, Account!Requests, Account!Generations
<1>4. CASE requests' # requests  BY <1>1, <1>2, <1>4, RequestChanges
<1>5. QED  BY <1>3, <1>4

LEMMA DisableKeeps ==
  ASSUME DeletionInv, NEW user, Account!Disable(user)  PROVE DeletionInv'
<1>1. \A u \in Uids : accounts[u] = "deleted" => accounts'[u] = "deleted"
  BY DEF DeletionInv, Account!Disable
<1>2. accounts' = [u \in Uids |-> accounts'[u]] /\ UNCHANGED <<requests, reported>>
  BY DEF DeletionInv, Account!Disable
<1>3. \A c \in Account!Requests : RequestTyped(requests[c]) /\ RequestSound(requests[c], accounts')
  BY <1>1 DEF DeletionInv, RequestSound
<1>4. QED  BY <1>1, <1>2, <1>3 DEF DeletionInv, Account!Requests, Account!Generations

LEMMA HomeKeepsDeletions ==
  ASSUME None # "success", DeletionInv, OwnInv,
         \/ \E user \in Uids \cup {None} : Account!UserChanges(user)
         \/ \E g \in Account!Generations : Account!DataArrives(g) \/ Account!GoalStored(g)
         \/ Account!Toggle \/ Account!ToggleEnds
         \/ \E d \in Devices, user \in Uids : Account!DeleteAccount(d, user)
  PROVE  DeletionInv'
<1>1. CASE \E user \in Uids \cup {None} : Account!UserChanges(user)
  <2>1. PICK user \in Uids \cup {None} : Account!UserChanges(user)  BY <1>1
  <2>2. /\ requests' \in {requests,
             [requests EXCEPT ![identityGeneration + 1] = Account!Sent("user-data", user)]}
        /\ UNCHANGED <<accounts, reported>>
    BY <2>1 DEF Account!UserChanges
  <2>3. QED  BY <2>2, RequestBlanked
<1>2. ASSUME NEW g \in Account!Generations, Account!DataArrives(g) PROVE DeletionInv'
  <2>1. /\ requests' \in {[requests EXCEPT ![g] = Account!Idle],
             [requests EXCEPT ![g] = Account!Sent("seed", uid)],
             [requests EXCEPT ![g] = Account!Sent("heal", uid)]}
        /\ UNCHANGED <<accounts, reported>>
    BY <1>2 DEF Account!DataArrives, Account!Ended
  <2>2. PICK call \in {"seed", "heal"} :
          requests' \in {[requests EXCEPT ![g] = Account!Idle],
             [requests EXCEPT ![g] = Account!Sent(call, uid)], requests}
    BY <2>1
  <2>3. call # "delete"  BY <2>2
  <2>4. QED  BY <2>1, <2>2, <2>3, RequestBlanked
<1>3. ASSUME NEW g \in Account!Generations, Account!GoalStored(g) PROVE DeletionInv'
  BY <1>3, RequestBlanked DEF Account!GoalStored, Account!Ended
<1>4. CASE Account!Toggle
  <2> DEFINE call == IF watch = None THEN "watch" ELSE "unwatch"
             n == [Account!Sent(call, uid) EXCEPT !.previous = watch]
  <2>1. /\ requests' = [requests EXCEPT ![WatchToggle] = n]
        /\ UNCHANGED <<accounts, reported>>
    BY <1>4 DEF Account!Toggle
  <2>2. /\ RequestTyped(n) /\ n.call = call /\ n.previous = watch /\ n.uid = uid
    BY DEF Account!Sent, Account!Idle, RequestTyped
  <2>3. n.call # "delete"  BY <2>2
  <2> HIDE DEF n
  <2>4. RequestSound(n, accounts')  BY <2>2, <2>3 DEF RequestSound, OwnInv
  <2>5. accounts' = [u \in Uids |-> accounts'[u]]  BY <2>1 DEF DeletionInv
  <2>6. QED  BY <2>1, <2>2, <2>4, <2>5, RequestChanges
<1>5. CASE Account!ToggleEnds
  BY <1>5, RequestBlanked DEF Account!ToggleEnds, Account!Ended
<1>6. ASSUME NEW d \in Devices, NEW user \in Uids, Account!DeleteAccount(d, user)
      PROVE  DeletionInv'
  BY <1>6, RequestBlanked DEF Account!DeleteAccount
<1>7. QED  BY <1>1, <1>2, <1>3, <1>4, <1>5, <1>6

\* What the page's own steps do to it, in terms of the requests they end.
LEMMA PageKeepsOwn ==
  ASSUME DeletionInv, OwnInv,
         \/ \E user \in Uids \cup {None} : Account!UserChanges(user)
         \/ \E g \in Account!Generations : Account!DataArrives(g) \/ Account!GoalStored(g)
         \/ Account!Toggle \/ Account!ToggleEnds
  PROVE  OwnInv'
<1>1. ASSUME NEW user \in Uids \cup {None}, Account!UserChanges(user) PROVE OwnInv'
  BY <1>1 DEF OwnInv, Account!UserChanges
<1>2. ASSUME NEW g \in Account!Generations, Account!DataArrives(g) PROVE OwnInv'
  <2>1. /\ goal' \in {None, uid} /\ watch' \in {None, uid}
        /\ UNCHANGED <<uid, identityGeneration, loaded, submit>>
    BY <1>2 DEF OwnInv, Account!DataArrives, Account!Fresh, Account!pageVars
  <2>2. QED  BY <2>1 DEF OwnInv
<1>3. ASSUME NEW g \in Account!Generations, Account!GoalStored(g) PROVE OwnInv'
  <2>1. /\ goal' \in {None, uid} /\ watch' \in {None, uid}
        /\ UNCHANGED <<uid, identityGeneration, loaded, submit>>
    BY <1>3 DEF OwnInv, Account!GoalStored, Account!Fresh, Account!pageVars
  <2>2. QED  BY <2>1 DEF OwnInv
<1>4. CASE Account!Toggle
  BY <1>4 DEF OwnInv, Account!Toggle, Account!pageVars
<1>5. CASE Account!ToggleEnds
  <2>1. requests[WatchToggle].previous \in {None, requests[WatchToggle].uid}
    BY DEF DeletionInv, RequestSound, Account!Requests
  <2>2. /\ watch' \in {None, uid} /\ UNCHANGED <<uid, goal, identityGeneration, loaded, submit>>
    BY <1>5, <2>1 DEF OwnInv, Account!ToggleEnds, Account!Fresh, Account!pageVars
  <2>3. QED  BY <2>2 DEF OwnInv
<1>6. QED  BY <1>1, <1>2, <1>3, <1>4, <1>5

LEMMA SubmissionsKeepOwn ==
  ASSUME OwnInv,
         \/ Account!ListArrives \/ Account!Submit \/ Account!Refreshed
         \/ \E ok \in BOOLEAN : Account!SubmitAnswered(ok)
  PROVE  OwnInv'
<1>1. CASE Account!ListArrives
  BY <1>1 DEF OwnInv, Account!ListArrives, Account!homeVars
<1>2. CASE Account!Submit
  BY <1>2 DEF OwnInv, Account!Submit, Account!homeVars
<1>3. CASE Account!Refreshed
  BY <1>3 DEF OwnInv, Account!Refreshed, Account!SameIdentity, Account!homeVars
<1>4. ASSUME NEW ok \in BOOLEAN, Account!SubmitAnswered(ok) PROVE OwnInv'
  BY <1>4 DEF OwnInv, Account!SubmitAnswered, Account!homeVars
<1>5. QED  BY <1>1, <1>2, <1>3, <1>4

LEMMA AccountInvStep ==
  ASSUME None # "success", AccountInv, [Account!ANext]_accountVars  PROVE AccountInv'
<1> USE DEF AccountInv
<1>1. CASE UNCHANGED accountVars
  BY <1>1 DEF accountVars, DeletionInv, OwnInv, Account!Requests, Account!Generations
<1>2. CASE Account!ServerNext
  <2>1. PICK c \in Account!Generations \cup {WatchToggle} :
          \/ Account!Admitted(c) \/ Account!Failed(c) \/ Account!DocumentRead(c)
          \/ Account!GoalPut(c) \/ Account!WatchPosted(c) \/ Account!WatchDeleted(c)
    BY <1>2 DEF Account!ServerNext
  <2>2. UNCHANGED <<goal, watch, uid, identityGeneration, loaded, submit>>
    BY <2>1 DEF Account!Admitted, Account!Failed, Account!DocumentRead, Account!GoalPut,
                Account!WatchPosted, Account!WatchDeleted, Account!Written,
                Account!homeVars, Account!pageVars
  <2>3. QED  BY <2>1, <2>2, ServerKeeps DEF OwnInv
<1>3. CASE Account!HomeNext
  BY <1>3, HomeKeepsDeletions, PageKeepsOwn DEF Account!HomeNext
<1>4. CASE Account!DeletionNext
  <2>1. DeletionInv'
    BY <1>4, DisableKeeps, DeletionKeeps, HomeKeepsDeletions DEF Account!DeletionNext
  <2>2. UNCHANGED <<goal, watch, uid, identityGeneration, loaded, submit>>
    BY <1>4 DEF Account!DeletionNext, Account!Disable, Account!DeleteAccount,
                Account!DeletionChecked, Account!DeletionRefused, Account!DeletionOfDocument,
                Account!DeletionOfAuth, Account!DeletionFails, Account!DeletionEnds,
                Account!homeVars, Account!pageVars
  <2>3. QED  BY <2>1, <2>2 DEF OwnInv
<1>5. CASE Account!SubmissionsNext
  <2>1. CASE \E user \in Uids \cup {None} : Account!UserChanges(user)
    BY <2>1, HomeKeepsDeletions, PageKeepsOwn
  <2>2. CASE \/ Account!ListArrives \/ Account!Submit \/ Account!Refreshed
             \/ \E ok \in BOOLEAN : Account!SubmitAnswered(ok)
    <3>1. UNCHANGED <<accounts, requests, reported>>
      BY <2>2 DEF Account!ListArrives, Account!Submit, Account!Refreshed, Account!SubmitAnswered
    <3>2. DeletionInv'  BY <3>1 DEF DeletionInv, Account!Requests, Account!Generations
    <3>3. QED  BY <2>2, <3>2, SubmissionsKeepOwn
  <2>3. QED  BY <1>5, <2>1, <2>2 DEF Account!SubmissionsNext
<1>6. QED  BY <1>1, <1>2, <1>3, <1>4, <1>5 DEF Account!ANext

\* The invariant of the signed-in user, for any users, devices and changes of user.
LEMMA AccountsSound ==
  ASSUME None # "success"
  PROVE  Spec => [](part \in {"home", "deletion", "submissions"} => AccountInv)
<1> DEFINE Inv == part \in {"home", "deletion", "submissions"} => AccountInv
<1>1. ASSUME Init PROVE AccountInv
  <2>1. DeletionInv
    BY <1>1, BlankRequests DEF Init, Account!AInit, DeletionInv
  <2>2. OwnInv  BY <1>1 DEF Init, Account!AInit, OwnInv
  <2>3. QED  BY <2>1, <2>2 DEF AccountInv
<1>2. Inv /\ [Next]_vars => Inv'
  <2> SUFFICES ASSUME part \in {"home", "deletion", "submissions"}, AccountInv, [Next]_vars
               PROVE  AccountInv'
    BY DEF Next, vars
  <2>1. [Account!ANext]_accountVars  BY DEF Next, vars, Account!ANext
  <2>2. QED  BY <2>1, AccountInvStep
<1>3. Init => Inv  BY <1>1
<1>4. QED  BY <1>2, <1>3, PTL DEF Spec

\* What a page shows as verified is the signed-in user's own, whatever users change while
\* loads, toggles and refreshes are under way (useInitAuth.ts, authSlice.ts).
THEOREM DataStaysOwn ==
  ASSUME None # "success"  PROVE Spec => []DataIsOwn
<1>1. (part \in {"home", "deletion", "submissions"} => AccountInv) => DataIsOwn
  BY DEF AccountInv, OwnInv, DataIsOwn, Account!DataIsOwn
<1>2. QED  BY <1>1, AccountsSound, PTL

\* Who is told that the account is deleted has no account any more, through lost answers,
\* retries, disabled accounts and other devices (accountDeletion.ts, apiAuth.ts).
THEOREM ToldMeansDeleted ==
  ASSUME None # "success"  PROVE Spec => []SuccessMeansDeleted
<1>1. (part \in {"home", "deletion", "submissions"} => AccountInv) => SuccessMeansDeleted
  BY DEF AccountInv, DeletionInv, SuccessMeansDeleted, Account!SuccessMeansDeleted
<1>2. QED  BY <1>1, AccountsSound, PTL

-----------------------------------------------------------------------------
(***************************************************************************)
(* Players and statistics.  The pairs of releases that calls fetched at    *)
(* one moment are a chain, as releases only move on.  So whichever calls   *)
(* recorded the two releases, the later of their two fetches covers both,  *)
(* and its batches were all in.                                            *)
(***************************************************************************)

\* What the proof needs to know of the season: its releases are numbered and add games.
ReleasesGrow ==
  /\ \E n \in Nat \ {0} : Releases = 1..n
  /\ \A r, s \in Releases : r <= s =>
       GamesIn[r] \subseteq GamesIn[s] /\ ScheduledIn[r] \subseteq ScheduledIn[s]

\* The season of two weeks does.
LEMMA SeasonGrows ==
  ASSUME \E n \in Nat \ {0} : Releases = 1..n  PROVE ReleasesGrow
  BY DEF ReleasesGrow, GamesIn, ScheduledIn

Fetched == [stats : Releases, schedules : Releases]
GamesOf(f) == GamesIn[f.stats] \cap ScheduledIn[f.schedules]
Within(f, g) == f.stats <= g.stats /\ f.schedules <= g.schedules
Copied(f) == \A g \in GamesOf(f) : f \in everWritten[g]

\* One call q, among fetches fs, files published p and rows written w.
SyncTyped(q) ==
  q \in [pc : {"metadata", "fetch", "upsert", "done"}, updatedAt : [stats : Nat, schedules : Nat],
         made : {q.made}, left : {q.left}, recorded : {q.recorded}]
SyncSound(q, fs, p, w) ==
  /\ q.updatedAt.stats <= p["stats"] /\ q.updatedAt.schedules <= p["schedules"]
  /\ q.pc = "upsert" =>
       /\ q.made \in fs /\ Within(q.updatedAt, q.made)
       /\ \A g \in GamesOf(q.made) : g \in q.left \/ q.made \in w[g]

FetchesInv(fs) ==
  /\ fs \subseteq Fetched
  /\ \A f \in fs : f.stats <= published["stats"] /\ f.schedules <= published["schedules"]
  /\ \A f, g \in fs : Within(f, g) \/ Within(g, f)
  /\ \A s \in Syncs : SyncSound(stats[s], fs, published, everWritten)
  /\ syncState["stats"] # 0 => \E f \in fs : Copied(f) /\ syncState["stats"] <= f.stats
  /\ syncState["schedules"] # 0 =>
       \E f \in fs : Copied(f) /\ syncState["schedules"] <= f.schedules

StatsTyped ==
  /\ published \in [Player!Files -> Releases]
  /\ syncState = [f \in Player!Files |-> syncState[f]]
  /\ syncState["stats"] \in Nat /\ syncState["schedules"] \in Nat
  /\ everWritten = [g \in Player!GamesOfSeason |-> everWritten[g]]
  /\ stats = [s \in Syncs |-> stats[s]] /\ \A s \in Syncs : SyncTyped(stats[s])

StatsInv == StatsTyped /\ \E fs : FetchesInv(fs)

LEMMA FilesNamed == Player!Files = {"stats", "schedules", "roster"}  BY DEF Player!Files

\* A call changes; nothing that was written is lost and the fetches only become more.
LEMMA SyncChanges ==
  ASSUME ReleasesGrow, StatsTyped, NEW fs, FetchesInv(fs), NEW s \in Syncs, NEW q, SyncTyped(q),
         stats' = [stats EXCEPT ![s] = q], published' = published,
         NEW gs, fs \subseteq gs, gs \subseteq Fetched,
         \A f \in gs \ fs : f.stats = published["stats"] /\ f.schedules = published["schedules"],
         everWritten' = [g \in Player!GamesOfSeason |-> everWritten'[g]],
         \A g \in Player!GamesOfSeason : everWritten[g] \subseteq everWritten'[g],
         syncState' = syncState, SyncSound(q, gs, published, everWritten')
  PROVE  StatsInv'
<1>1. \A t \in Syncs : stats'[t] = IF t = s THEN q ELSE stats[t]  BY DEF StatsTyped
<1>2. StatsTyped'
  BY <1>1 DEF StatsTyped, Player!Files, Player!GamesOfSeason
<1>3. \A f \in Fetched : GamesOf(f) \subseteq Player!GamesOfSeason
  BY DEF Fetched, GamesOf, Player!GamesOfSeason
<1>4. FetchesInv(gs)'
  <2>1. \A f \in gs : f.stats <= published["stats"] /\ f.schedules <= published["schedules"]
    BY FilesNamed DEF FetchesInv, StatsTyped, ReleasesGrow
  <2>2. \A f, g \in gs : Within(f, g) \/ Within(g, f)
    BY <2>1 DEF FetchesInv, Within
  <2>3. ASSUME NEW t \in Syncs PROVE SyncSound(stats'[t], gs, published, everWritten')
    <3>1. CASE t = s  BY <1>1, <3>1
    <3>2. CASE t # s
      <4>1. stats'[t] = stats[t] /\ SyncSound(stats[t], fs, published, everWritten)
        BY <1>1, <3>2 DEF FetchesInv
      <4>2. QED  BY <1>3, <4>1 DEF SyncSound
    <3>3. QED  BY <3>1, <3>2
  <2>4. \A f \in fs : Copied(f) => Copied(f)'  BY <1>3 DEF Copied, FetchesInv
  <2>5. QED  BY <2>1, <2>2, <2>3, <2>4 DEF FetchesInv
<1>5. QED  BY <1>2, <1>4 DEF StatsInv

LEMMA StatsMetadataKeeps ==
  ASSUME ReleasesGrow, StatsInv, NEW s \in Syncs, NEW file \in {"stats", "schedules"},
         Player!StatsMetadata(s, file)
  PROVE  StatsInv'
<1>1. PICK fs : FetchesInv(fs)  BY DEF StatsInv
<1> DEFINE q == [stats[s] EXCEPT !.updatedAt[file] = published[file]]
<1>2. /\ stats[s].pc = "metadata" /\ stats' = [stats EXCEPT ![s] = q]
      /\ UNCHANGED <<published, syncState, everWritten>>
  BY DEF Player!StatsMetadata, Player!StatsStep
<1>3. SyncTyped(stats[s]) /\ SyncSound(stats[s], fs, published, everWritten)
  BY <1>1 DEF StatsInv, StatsTyped, FetchesInv
<1>4. published["stats"] \in Nat /\ published["schedules"] \in Nat
  BY FilesNamed DEF StatsInv, StatsTyped, ReleasesGrow
<1>5. SyncTyped(q) /\ q.pc = "metadata"
      /\ q.updatedAt.stats \in {stats[s].updatedAt.stats, published["stats"]}
      /\ q.updatedAt.schedules \in {stats[s].updatedAt.schedules, published["schedules"]}
  <2>1. CASE file = "stats"
    <3>1. q = [stats[s] EXCEPT !.updatedAt = [stats[s].updatedAt EXCEPT !.stats = published["stats"]]]
      BY <1>3, <2>1 DEF SyncTyped
    <3>2. QED  BY <1>2, <1>3, <1>4, <3>1 DEF SyncTyped
  <2>2. CASE file = "schedules"
    <3>1. q = [stats[s] EXCEPT !.updatedAt =
                 [stats[s].updatedAt EXCEPT !.schedules = published["schedules"]]]
      BY <1>3, <2>2 DEF SyncTyped
    <3>2. QED  BY <1>2, <1>3, <1>4, <3>1 DEF SyncTyped
  <2>3. QED  BY <2>1, <2>2
<1> HIDE DEF q
<1>6. SyncSound(q, fs, published, everWritten')  BY <1>2, <1>3, <1>4, <1>5 DEF SyncSound
<1>7. QED  BY <1>1, <1>2, <1>5, <1>6, SyncChanges DEF StatsInv, StatsTyped, FetchesInv

LEMMA StatsCompareKeeps ==
  ASSUME ReleasesGrow, StatsInv, NEW s \in Syncs,
         Player!StatsCompare(s) \/ stats' = [stats EXCEPT ![s].pc = "done"],
         UNCHANGED <<published, syncState, everWritten>>
  PROVE  StatsInv'
<1>1. PICK fs : FetchesInv(fs)  BY DEF StatsInv
<1>2. SyncTyped(stats[s]) /\ SyncSound(stats[s], fs, published, everWritten)
  BY <1>1 DEF StatsInv, StatsTyped, FetchesInv
<1>3. PICK pc \in {"done", "fetch"} : stats' = [stats EXCEPT ![s] = [stats[s] EXCEPT !.pc = pc]]
  <2>1. CASE Player!StatsCompare(s)  BY <2>1 DEF Player!StatsCompare, Player!StatsStep
  <2>2. CASE stats' = [stats EXCEPT ![s].pc = "done"]  BY <2>2 DEF StatsInv, StatsTyped
  <2>3. QED  BY <2>1, <2>2
<1> DEFINE q == [stats[s] EXCEPT !.pc = pc]
<1>4. SyncTyped(q) /\ q.pc = pc /\ q.updatedAt = stats[s].updatedAt  BY <1>2 DEF SyncTyped
<1>5. stats' = [stats EXCEPT ![s] = q]  BY <1>3
<1> HIDE DEF q
<1>6. SyncSound(q, fs, published, everWritten')  BY <1>2, <1>4 DEF SyncSound
<1>7. QED  BY <1>1, <1>4, <1>5, <1>6, SyncChanges DEF StatsInv, StatsTyped, FetchesInv

\* A fetch is a new last link of the chain.
LEMMA StatsFetchKeeps ==
  ASSUME ReleasesGrow, StatsInv, NEW s \in Syncs, Player!StatsFetch(s)  PROVE StatsInv'
<1>1. PICK fs : FetchesInv(fs)  BY DEF StatsInv
<1> DEFINE made == Player!Row(published["stats"], published["schedules"])
           q == [stats[s] EXCEPT !.pc = "upsert", !.made = made,
                   !.left = GamesIn[published["stats"]] \cap ScheduledIn[published["schedules"]]]
           gs == fs \cup {made}
<1>2. /\ stats' = [stats EXCEPT ![s] = q] /\ UNCHANGED <<published, syncState, everWritten>>
  BY DEF Player!StatsFetch, Player!StatsStep
<1>3. SyncTyped(stats[s]) /\ SyncSound(stats[s], fs, published, everWritten)
  BY <1>1 DEF StatsInv, StatsTyped, FetchesInv
<1>4. /\ made \in Fetched /\ made.stats = published["stats"]
      /\ made.schedules = published["schedules"]
  BY FilesNamed DEF Player!Row, Fetched, StatsInv, StatsTyped
<1> HIDE DEF made
<1>5. /\ SyncTyped(q) /\ q.pc = "upsert" /\ q.updatedAt = stats[s].updatedAt /\ q.made = made
      /\ q.left = GamesOf(made)
  BY <1>3, <1>4 DEF SyncTyped, GamesOf
<1> HIDE DEF q
<1>6. SyncSound(q, gs, published, everWritten')  BY <1>3, <1>4, <1>5 DEF SyncSound, Within
<1>7. /\ fs \subseteq gs /\ gs \subseteq Fetched
      /\ \A f \in gs \ fs : f.stats = published["stats"] /\ f.schedules = published["schedules"]
  BY <1>1, <1>4 DEF FetchesInv
<1> HIDE DEF gs
<1>8. QED  BY <1>1, <1>2, <1>5, <1>6, <1>7, SyncChanges DEF StatsInv, StatsTyped

LEMMA StatsUpsertKeeps ==
  ASSUME ReleasesGrow, StatsInv, NEW s \in Syncs, NEW g \in Player!GamesOfSeason,
         Player!StatsUpsert(s, g)
  PROVE  StatsInv'
<1>1. PICK fs : FetchesInv(fs)  BY DEF StatsInv
<1> DEFINE q == [stats[s] EXCEPT !.left = @ \ {g}]
<1>2. /\ stats[s].pc = "upsert" /\ stats' = [stats EXCEPT ![s] = q]
      /\ everWritten' = [everWritten EXCEPT ![g] = @ \cup {stats[s].made}]
      /\ UNCHANGED <<published, syncState>>
  BY DEF Player!StatsUpsert, Player!StatsStep
<1>3. SyncTyped(stats[s]) /\ SyncSound(stats[s], fs, published, everWritten)
  BY <1>1 DEF StatsInv, StatsTyped, FetchesInv
<1>4. /\ SyncTyped(q) /\ q.pc = stats[s].pc /\ q.updatedAt = stats[s].updatedAt
      /\ q.made = stats[s].made /\ q.left = stats[s].left \ {g}
  BY <1>3 DEF SyncTyped
<1> HIDE DEF q
<1>5. /\ everWritten' = [h \in Player!GamesOfSeason |-> everWritten'[h]]
      /\ \A h \in Player!GamesOfSeason : everWritten[h] \subseteq everWritten'[h]
      /\ stats[s].made \in everWritten'[g]
  BY <1>2 DEF StatsInv, StatsTyped
<1>6. SyncSound(q, fs, published, everWritten')
  <2>1. stats[s].made \in Fetched  BY <1>1, <1>2, <1>3 DEF SyncSound, FetchesInv
  <2>2. GamesOf(stats[s].made) \subseteq Player!GamesOfSeason
    BY <2>1 DEF Fetched, GamesOf, Player!GamesOfSeason
  <2>3. QED  BY <1>2, <1>3, <1>4, <1>5, <2>2 DEF SyncSound
<1>7. StatsTyped /\ fs \subseteq Fetched  BY <1>1 DEF StatsInv, FetchesInv
<1>8. SyncTyped(q) /\ stats' = [stats EXCEPT ![s] = q] /\ UNCHANGED <<published, syncState>>
      /\ fs \subseteq fs /\ fs \ fs = {}
  BY <1>2, <1>4
<1>9. QED  BY <1>1, <1>5, <1>6, <1>7, <1>8, SyncChanges

\* A release is recorded when its call's batches are all in.
LEMMA StatsRecordKeeps ==
  ASSUME ReleasesGrow, StatsInv, NEW s \in Syncs, NEW file \in {"stats", "schedules"},
         Player!StatsRecord(s, file)
  PROVE  StatsInv'
<1>1. PICK fs : FetchesInv(fs)  BY DEF StatsInv
<1> DEFINE q == [stats[s] EXCEPT !.recorded = @ \cup {file}]
           made == stats[s].made
           at == stats[s].updatedAt
<1>2. /\ stats[s].pc = "upsert" /\ stats[s].left = {} /\ stats' = [stats EXCEPT ![s] = q]
      /\ syncState' = [syncState EXCEPT ![file] = at[file]]
      /\ UNCHANGED <<published, everWritten>>
  BY DEF Player!StatsRecord, Player!StatsStep
<1>3. SyncTyped(stats[s]) /\ SyncSound(stats[s], fs, published, everWritten)
  BY <1>1 DEF StatsInv, StatsTyped, FetchesInv
<1>4. /\ SyncTyped(q) /\ q.pc = stats[s].pc /\ q.updatedAt = at
      /\ q.made = made /\ q.left = stats[s].left
  BY <1>3 DEF SyncTyped
<1>5. made \in fs /\ Copied(made) /\ Within(at, made)
  BY <1>2, <1>3 DEF SyncSound, Copied
<1>6. /\ at["stats"] = at.stats /\ at["schedules"] = at.schedules
      /\ at.stats \in Nat /\ at.schedules \in Nat
  BY <1>3 DEF SyncTyped
<1> HIDE DEF q, made, at
<1>7. StatsTyped'
  <2>1. \A t \in Syncs : stats'[t] = IF t = s THEN q ELSE stats[t]
    BY <1>2 DEF StatsInv, StatsTyped
  <2>2. /\ syncState' = [f \in Player!Files |-> syncState'[f]]
        /\ syncState'["stats"] \in Nat /\ syncState'["schedules"] \in Nat
    BY <1>2, <1>6, FilesNamed DEF StatsInv, StatsTyped
  <2>3. QED  BY <1>2, <1>4, <2>1, <2>2 DEF StatsInv, StatsTyped, Player!Files, Player!GamesOfSeason
<1>8. FetchesInv(fs)'
  <2>1. \A t \in Syncs : stats'[t] = IF t = s THEN q ELSE stats[t]
    BY <1>2 DEF StatsInv, StatsTyped
  <2>2. SyncSound(q, fs, published, everWritten)  BY <1>3, <1>4 DEF SyncSound, made, at
  <2>3. \A t \in Syncs : SyncSound(stats'[t], fs, published, everWritten)
    BY <1>1, <2>1, <2>2 DEF FetchesInv
  <2>4. \A f \in fs : Copied(f)' <=> Copied(f)  BY <1>2 DEF Copied
  <2>5. syncState'["stats"] # 0 => \E f \in fs : Copied(f) /\ syncState'["stats"] <= f.stats
    <3>1. CASE file = "stats"
      <4>1. syncState'["stats"] = at.stats  BY <1>2, <1>6, <3>1, FilesNamed DEF StatsInv, StatsTyped
      <4>2. QED  BY <1>5, <4>1 DEF Within
    <3>2. CASE file # "stats"
      <4>1. syncState'["stats"] = syncState["stats"]
        BY <1>2, <3>2, FilesNamed DEF StatsInv, StatsTyped
      <4>2. QED  BY <1>1, <4>1 DEF FetchesInv
    <3>3. QED  BY <3>1, <3>2
  <2>6. syncState'["schedules"] # 0
          => \E f \in fs : Copied(f) /\ syncState'["schedules"] <= f.schedules
    <3>1. CASE file = "schedules"
      <4>1. syncState'["schedules"] = at.schedules
        BY <1>2, <1>6, <3>1, FilesNamed DEF StatsInv, StatsTyped
      <4>2. QED  BY <1>5, <4>1 DEF Within
    <3>2. CASE file # "schedules"
      <4>1. syncState'["schedules"] = syncState["schedules"]
        BY <1>2, <3>2, FilesNamed DEF StatsInv, StatsTyped
      <4>2. QED  BY <1>1, <4>1 DEF FetchesInv
    <3>3. QED  BY <3>1, <3>2
  <2>7. QED  BY <1>1, <1>2, <2>3, <2>4, <2>5, <2>6 DEF FetchesInv
<1>9. QED  BY <1>7, <1>8 DEF StatsInv

\* Releases only move on; the roster's half leaves all this alone.
LEMMA PublishKeepsStats ==
  ASSUME ReleasesGrow, StatsInv, NEW file \in Player!Files, Player!Publish(file)  PROVE StatsInv'
<1>1. PICK fs : FetchesInv(fs)  BY DEF StatsInv
<1>2. /\ published[file] + 1 \in Releases
      /\ published' = [published EXCEPT ![file] = @ + 1]
      /\ UNCHANGED <<syncState, everWritten, stats>>
  BY DEF Player!Publish
<1>3. published' \in [Player!Files -> Releases]  BY <1>2 DEF StatsInv, StatsTyped
<1>4. \A f \in Player!Files : published[f] <= published'[f]
  BY <1>2 DEF StatsInv, StatsTyped, ReleasesGrow
<1>5. StatsTyped'
  BY <1>2, <1>3 DEF StatsInv, StatsTyped, Player!Files, Player!GamesOfSeason
<1>6. \A f \in Player!Files : published[f] \in Nat /\ published'[f] \in Nat
  BY <1>3 DEF StatsInv, StatsTyped, ReleasesGrow
<1>7. ASSUME NEW s \in Syncs PROVE SyncSound(stats[s], fs, published', everWritten)
  <2>1. SyncTyped(stats[s]) /\ SyncSound(stats[s], fs, published, everWritten)
    BY <1>1 DEF StatsInv, StatsTyped, FetchesInv
  <2>2. stats[s].updatedAt.stats \in Nat /\ stats[s].updatedAt.schedules \in Nat
    BY <2>1 DEF SyncTyped
  <2>3. /\ stats[s].updatedAt.stats <= published'["stats"]
        /\ stats[s].updatedAt.schedules <= published'["schedules"]
    BY <1>4, <1>6, <2>1, <2>2, FilesNamed DEF SyncSound
  <2>4. QED  BY <2>1, <2>3 DEF SyncSound
<1>8. \A f \in fs : f.stats <= published'["stats"] /\ f.schedules <= published'["schedules"]
  <2>1. fs \subseteq Fetched  BY <1>1 DEF FetchesInv
  <2>2. \A f \in fs : f.stats \in Nat /\ f.schedules \in Nat  BY <2>1 DEF Fetched, ReleasesGrow
  <2>3. QED  BY <1>1, <1>4, <1>6, <2>2, FilesNamed DEF FetchesInv
<1>9. \A f \in fs : Copied(f)' <=> Copied(f)  BY <1>2 DEF Copied
<1>10. FetchesInv(fs)'  BY <1>1, <1>2, <1>7, <1>8, <1>9 DEF FetchesInv
<1>11. QED  BY <1>5, <1>10 DEF StatsInv

LEMMA OthersKeepStats ==
  ASSUME ReleasesGrow, StatsInv, UNCHANGED <<published, everWritten, stats>>,
         syncState' = syncState \/ \E t : syncState' = [syncState EXCEPT !["roster"] = t]
  PROVE  StatsInv'
<1>1. PICK fs : FetchesInv(fs)  BY DEF StatsInv
<1>2. /\ syncState'["stats"] = syncState["stats"]
      /\ syncState'["schedules"] = syncState["schedules"]
      /\ syncState' = [f \in Player!Files |-> syncState'[f]]
  BY FilesNamed DEF StatsInv, StatsTyped
<1>3. StatsTyped'  BY <1>2 DEF StatsInv, StatsTyped, Player!Files, Player!GamesOfSeason
<1>4. \A f \in fs : Copied(f)' <=> Copied(f)  BY DEF Copied
<1>5. FetchesInv(fs)'  BY <1>1, <1>2, <1>4 DEF FetchesInv
<1>6. QED  BY <1>3, <1>5 DEF StatsInv

\* Whichever calls recorded the two releases, the later of their fetches covers both.
LEMMA StatsInvCopied ==
  ASSUME ReleasesGrow, StatsInv  PROVE Player!RecordedWasCopied
<1> DEFINE s == syncState["stats"]
           d == syncState["schedules"]
<1> SUFFICES ASSUME s # 0, d # 0, NEW g \in GamesIn[s] \cap ScheduledIn[d]
             PROVE  \E row \in everWritten[g] : row.stats >= s /\ row.schedules >= d
  BY DEF Player!RecordedWasCopied
<1>1. PICK fs : FetchesInv(fs)  BY DEF StatsInv
<1>2. PICK f \in fs : Copied(f) /\ s <= f.stats  BY <1>1 DEF FetchesInv
<1>3. PICK h \in fs : Copied(h) /\ d <= h.schedules  BY <1>1 DEF FetchesInv
<1>4. PICK n \in Nat \ {0} : Releases = 1..n  BY DEF ReleasesGrow
<1>5. f \in Fetched /\ h \in Fetched  BY <1>1 DEF FetchesInv
<1>6. /\ f.stats \in Releases /\ f.schedules \in Releases
      /\ h.stats \in Releases /\ h.schedules \in Releases
  BY <1>5 DEF Fetched
<1>7. s \in Releases /\ d \in Releases
  BY <1>2, <1>3, <1>4, <1>6 DEF StatsInv, StatsTyped
<1>8. PICK k \in {f, h} : s <= k.stats /\ d <= k.schedules
  <2>1. CASE Within(f, h)  BY <1>2, <1>3, <1>4, <1>6, <1>7, <2>1 DEF Within
  <2>2. CASE Within(h, f)  BY <1>2, <1>3, <1>4, <1>6, <1>7, <2>2 DEF Within
  <2>3. QED  BY <1>1, <2>1, <2>2 DEF FetchesInv
<1>9. g \in GamesOf(k)
  BY <1>6, <1>7, <1>8 DEF GamesOf, ReleasesGrow
<1>10. k \in everWritten[g]  BY <1>2, <1>3, <1>9 DEF Copied
<1>11. QED  BY <1>4, <1>6, <1>7, <1>8, <1>10
-----------------------------------------------------------------------------
(* Names: the first match that is stored is everybody's answer. *)

ResolverTyped(q) ==
  q \in [pc : {"idle", "match", "insert", "reread", "done"}, name : {q.name}, event : {q.event},
         match : {q.match}]
ResolverSound(q, c) ==
  /\ q.pc \in {"match", "insert", "reread"} => q.name \in Names
  /\ q.pc = "insert" => q.match # None
  /\ q.pc = "reread" => c[q.name] # None

NamesInv ==
  /\ crosswalk = [n \in Names |-> crosswalk[n]] /\ answered = [n \in Names |-> answered[n]]
  /\ \A n \in Names : /\ answered[n] \subseteq {crosswalk[n]}
                      /\ crosswalk[n] = None => answered[n] = {}
  /\ resolver = [k \in Resolvers |-> resolver[k]]
  /\ \A k \in Resolvers : ResolverTyped(resolver[k]) /\ ResolverSound(resolver[k], crosswalk)

\* A resolver changes; stored matches stay, and answers are stored matches.
LEMMA ResolverChanges ==
  ASSUME NamesInv, NEW k \in Resolvers, NEW q, ResolverTyped(q), ResolverSound(q, crosswalk'),
         resolver' = [resolver EXCEPT ![k] = q],
         crosswalk' = [n \in Names |-> crosswalk'[n]], answered' = [n \in Names |-> answered'[n]],
         \A n \in Names : crosswalk[n] # None => crosswalk'[n] = crosswalk[n],
         \A n \in Names : /\ answered'[n] \subseteq answered[n] \cup {crosswalk'[n]}
                          /\ crosswalk'[n] = None => answered'[n] = {}
  PROVE  NamesInv'
<1>1. \A j \in Resolvers : resolver'[j] = IF j = k THEN q ELSE resolver[j]  BY DEF NamesInv
<1>2. \A j \in Resolvers : ResolverTyped(resolver'[j]) /\ ResolverSound(resolver'[j], crosswalk')
  BY <1>1 DEF NamesInv, ResolverSound
<1>3. \A n \in Names : answered'[n] \subseteq {crosswalk'[n]}  BY DEF NamesInv
<1>4. resolver' = [j \in Resolvers |-> resolver'[j]]  BY DEF NamesInv
<1>5. QED  BY <1>2, <1>3, <1>4 DEF NamesInv

LEMMA ResolvingKeeps ==
  ASSUME None \notin Player!Players, NamesInv, NEW k \in Resolvers,
         \/ Player!Match(k) \/ Player!InsertIfAbsent(k) \/ Player!ReadAgain(k)
         \/ \E n \in Names : \E event : Player!Ask(k, n, event)
  PROVE  NamesInv'
<1>1. ResolverTyped(resolver[k]) /\ ResolverSound(resolver[k], crosswalk)  BY DEF NamesInv
<1>2. CASE Player!Match(k)
  <2> DEFINE found == Player!Matches(resolver[k].name, Player!LatestRoster \cap resolver[k].event)
             chosen == CHOOSE p \in found : TRUE
             q == IF found = {} THEN [resolver[k] EXCEPT !.pc = "done"]
                  ELSE [resolver[k] EXCEPT !.pc = "insert", !.match = chosen]
  <2>1. /\ resolver[k].pc = "match" /\ resolver' = [resolver EXCEPT ![k] = q]
        /\ UNCHANGED <<crosswalk, answered>>
    BY <1>2 DEF Player!Match, Player!ResolverStep
  <2>2. found \subseteq Player!Players  BY DEF Player!Matches, Player!LatestRoster
  <2>3. found # {} => chosen # None  BY <2>2
  <2> HIDE DEF found, chosen
  <2>4. ResolverTyped(q) /\ q.pc \in {"done", "insert"} /\ q.name = resolver[k].name
        /\ (q.pc = "insert" => q.match # None)
    BY <1>1, <2>3 DEF ResolverTyped
  <2> HIDE DEF q
  <2>5. ResolverSound(q, crosswalk')  BY <1>1, <2>1, <2>4 DEF ResolverSound
  <2>6. QED  BY <2>1, <2>4, <2>5, ResolverChanges DEF NamesInv
<1>3. CASE Player!InsertIfAbsent(k)
  <2> DEFINE name == resolver[k].name
             q == [resolver[k] EXCEPT !.pc = "reread"]
  <2>1. /\ resolver[k].pc = "insert" /\ resolver' = [resolver EXCEPT ![k] = q]
        /\ crosswalk' = [crosswalk EXCEPT ![name] = IF @ = None THEN resolver[k].match ELSE @]
        /\ answered' = answered
    BY <1>3 DEF Player!InsertIfAbsent, Player!ResolverStep
  <2>2. ResolverTyped(q) /\ q.pc = "reread" /\ q.name = name  BY <1>1 DEF ResolverTyped
  <2>3. name \in Names /\ resolver[k].match # None  BY <1>1, <2>1 DEF ResolverSound
  <2>4. /\ crosswalk' = [n \in Names |-> crosswalk'[n]] /\ crosswalk'[name] # None
        /\ \A n \in Names : crosswalk[n] # None => crosswalk'[n] = crosswalk[n]
        /\ \A n \in Names : crosswalk'[n] = None => crosswalk[n] = None
    BY <2>1, <2>3 DEF NamesInv
  <2> HIDE DEF q, name
  <2>5. ResolverSound(q, crosswalk')  BY <2>2, <2>3, <2>4 DEF ResolverSound
  <2>6. \A n \in Names : /\ answered'[n] \subseteq answered[n] \cup {crosswalk'[n]}
                         /\ crosswalk'[n] = None => answered'[n] = {}
    BY <2>1, <2>4 DEF NamesInv
  <2>7. answered' = [n \in Names |-> answered'[n]]  BY <2>1 DEF NamesInv
  <2>8. QED  BY <2>1, <2>2, <2>4, <2>5, <2>6, <2>7, ResolverChanges
<1>4. CASE Player!ReadAgain(k)
  <2> DEFINE name == resolver[k].name
             q == [resolver[k] EXCEPT !.pc = "done"]
  <2>1. /\ resolver[k].pc = "reread" /\ resolver' = [resolver EXCEPT ![k] = q]
        /\ answered' = [answered EXCEPT ![name] = @ \cup {crosswalk[name]}]
        /\ crosswalk' = crosswalk
    BY <1>4 DEF Player!ReadAgain, Player!ResolverStep, Player!Answer
  <2>2. ResolverTyped(q) /\ q.pc = "done"  BY <1>1 DEF ResolverTyped
  <2>3. name \in Names /\ crosswalk[name] # None  BY <1>1, <2>1 DEF ResolverSound
  <2> HIDE DEF q, name
  <2>4. ResolverSound(q, crosswalk')  BY <2>2 DEF ResolverSound
  <2>5. \A n \in Names : /\ answered'[n] \subseteq answered[n] \cup {crosswalk'[n]}
                         /\ crosswalk'[n] = None => answered'[n] = {}
    BY <2>1, <2>3 DEF NamesInv
  <2>6. /\ answered' = [n \in Names |-> answered'[n]]
        /\ crosswalk' = [n \in Names |-> crosswalk'[n]]
    BY <2>1 DEF NamesInv
  <2>7. QED  BY <2>1, <2>2, <2>4, <2>5, <2>6, ResolverChanges
<1>5. ASSUME NEW n \in Names, NEW event, Player!Ask(k, n, event) PROVE NamesInv'
  <2> DEFINE q == [resolver[k] EXCEPT !.pc = "done"]
             asked == [pc |-> "match", name |-> n, event |-> event, match |-> None]
  <2>1. crosswalk' = crosswalk  BY <1>5 DEF Player!Ask
  <2>2. crosswalk' = [m \in Names |-> crosswalk'[m]]  BY <2>1 DEF NamesInv
  <2>3. CASE crosswalk[n] # None
    <3>1. /\ resolver' = [resolver EXCEPT ![k] = q]
          /\ answered' = [answered EXCEPT ![n] = @ \cup {crosswalk[n]}]
      BY <1>5, <2>3 DEF Player!Ask, Player!ResolverStep, Player!Answer
    <3>2. ResolverTyped(q) /\ q.pc = "done"  BY <1>1 DEF ResolverTyped
    <3> HIDE DEF q
    <3>3. ResolverSound(q, crosswalk')  BY <3>2 DEF ResolverSound
    <3>4. \A m \in Names : /\ answered'[m] \subseteq answered[m] \cup {crosswalk'[m]}
                           /\ crosswalk'[m] = None => answered'[m] = {}
      BY <2>1, <2>3, <3>1 DEF NamesInv
    <3>5. answered' = [m \in Names |-> answered'[m]]  BY <3>1 DEF NamesInv
    <3>6. QED  BY <2>1, <2>2, <3>1, <3>2, <3>3, <3>4, <3>5, ResolverChanges
  <2>4. CASE crosswalk[n] = None
    <3>1. resolver' = [resolver EXCEPT ![k] = asked] /\ answered' = answered
      BY <1>5, <2>4 DEF Player!Ask, Player!ResolverStep
    <3>2. ResolverTyped(asked) /\ ResolverSound(asked, crosswalk')
      BY DEF ResolverTyped, ResolverSound
    <3> HIDE DEF asked
    <3>3. QED  BY <2>1, <2>2, <3>1, <3>2, ResolverChanges DEF NamesInv
  <2>5. QED  BY <2>3, <2>4
<1>6. QED  BY <1>2, <1>3, <1>4, <1>5

LEMMA PlayerInvStep ==
  ASSUME ReleasesGrow, None \notin Player!Players, StatsInv, NamesInv, [Player!YNext]_playerVars
  PROVE  StatsInv' /\ NamesInv'
<1>1. CASE UNCHANGED playerVars  BY <1>1, OthersKeepStats DEF playerVars, NamesInv
<1>2. CASE UNCHANGED <<crosswalk, resolver, answered>> /\ StatsInv'  BY <1>2 DEF NamesInv
<1>3. ASSUME NEW f \in Player!Files, Player!Publish(f) PROVE StatsInv' /\ NamesInv'
  <2>1. UNCHANGED <<crosswalk, resolver, answered>>  BY <1>3 DEF Player!Publish
  <2>2. QED  BY <1>2, <1>3, <2>1, PublishKeepsStats
<1>4. ASSUME NEW s \in Syncs, NEW f \in {"stats", "schedules"},
             Player!StatsMetadata(s, f) \/ Player!StatsRecord(s, f)
      PROVE  StatsInv' /\ NamesInv'
  <2>1. UNCHANGED <<crosswalk, resolver, answered>>
    BY <1>4 DEF Player!StatsMetadata, Player!StatsRecord, Player!StatsStep
  <2>2. QED  BY <1>2, <1>4, <2>1, StatsMetadataKeeps, StatsRecordKeeps
<1>5. ASSUME NEW s \in Syncs, Player!StatsCompare(s) \/ Player!StatsFetch(s)
      PROVE  StatsInv' /\ NamesInv'
  <2>1. UNCHANGED <<crosswalk, resolver, answered>>
    BY <1>5 DEF Player!StatsCompare, Player!StatsFetch, Player!StatsStep
  <2>2. Player!StatsCompare(s) => UNCHANGED <<published, syncState, everWritten>>
    BY DEF Player!StatsCompare, Player!StatsStep
  <2>3. QED  BY <1>2, <1>5, <2>1, <2>2, StatsCompareKeeps, StatsFetchKeeps
<1>6. ASSUME NEW s \in Syncs, NEW g \in Player!GamesOfSeason, Player!StatsUpsert(s, g)
      PROVE  StatsInv' /\ NamesInv'
  <2>1. UNCHANGED <<crosswalk, resolver, answered>>
    BY <1>6 DEF Player!StatsUpsert, Player!StatsStep
  <2>2. QED  BY <1>2, <1>6, <2>1, StatsUpsertKeeps
<1>7. ASSUME NEW s \in Syncs, Player!Fail(s) PROVE StatsInv' /\ NamesInv'
  <2>1. UNCHANGED <<crosswalk, resolver, answered, published, syncState, everWritten>>
    BY <1>7 DEF Player!Fail
  <2>2. stats' = [stats EXCEPT ![s].pc = "done"] \/ stats' = stats  BY <1>7 DEF Player!Fail
  <2>3. QED  BY <1>2, <2>1, <2>2, StatsCompareKeeps, OthersKeepStats
<1>8. ASSUME NEW s \in Syncs,
             \/ Player!RosterMetadata(s) \/ Player!RosterCompare(s) \/ Player!RosterFetch(s)
             \/ Player!RosterUpsert(s) \/ Player!RosterRecord(s)
      PROVE  StatsInv' /\ NamesInv'
  <2>1. /\ UNCHANGED <<crosswalk, resolver, answered, published, everWritten, stats>>
        /\ syncState' = syncState \/ \E t : syncState' = [syncState EXCEPT !["roster"] = t]
    BY <1>8 DEF Player!RosterMetadata, Player!RosterCompare, Player!RosterFetch,
                Player!RosterUpsert, Player!RosterRecord, Player!RosterStep
  <2>2. QED  BY <1>2, <2>1, OthersKeepStats
<1>9. ASSUME NEW k \in Resolvers,
             \/ Player!Match(k) \/ Player!InsertIfAbsent(k) \/ Player!ReadAgain(k)
             \/ \E n \in Names : \E event : Player!Ask(k, n, event)
      PROVE  StatsInv' /\ NamesInv'
  <2>1. UNCHANGED <<published, syncState, everWritten, stats>>
    BY <1>9 DEF Player!Match, Player!InsertIfAbsent, Player!ReadAgain, Player!Ask,
                Player!ResolverStep
  <2>2. QED  BY <1>9, <2>1, ResolvingKeeps, OthersKeepStats
<1>10. CASE Player!StatsNext
  <2>1. {"stats", "schedules"} \subseteq Player!Files  BY DEF Player!Files
  <2>2. QED  BY <1>3, <1>4, <1>5, <1>6, <1>7, <1>10, <2>1 DEF Player!StatsNext
<1>11. CASE Player!NamesNext
  <2>1. "roster" \in Player!Files  BY DEF Player!Files
  <2>2. QED  BY <1>3, <1>7, <1>8, <1>9, <1>11, <2>1 DEF Player!NamesNext
<1>12. QED  BY <1>1, <1>10, <1>11 DEF Player!YNext

LEMMA PlayerInvInit ==
  ASSUME ReleasesGrow, Player!YInit  PROVE StatsInv /\ NamesInv
<1>1. NamesInv
  BY DEF Player!YInit, NamesInv, ResolverTyped, ResolverSound
<1>2. 1 \in Releases /\ Releases \subseteq Nat  BY DEF ReleasesGrow
<1>3. /\ published = [f \in Player!Files |-> 1] /\ syncState = [f \in Player!Files |-> 0]
      /\ everWritten = [g \in Player!GamesOfSeason |-> {}]
      /\ stats = [s \in Syncs |-> [pc |-> "metadata", updatedAt |-> Player!Row(0, 0),
                                   made |-> None, left |-> {}, recorded |-> {}]]
  BY DEF Player!YInit
<1> DEFINE q == [pc |-> "metadata", updatedAt |-> Player!Row(0, 0),
                 made |-> None, left |-> {}, recorded |-> {}]
<1>4. SyncTyped(q) /\ q.pc = "metadata" /\ q.updatedAt.stats = 0 /\ q.updatedAt.schedules = 0
  BY DEF SyncTyped, Player!Row
<1>5. \A s \in Syncs : stats[s] = q  BY <1>3
<1> HIDE DEF q
<1>6. StatsTyped  BY <1>2, <1>3, <1>4, <1>5, FilesNamed DEF StatsTyped
<1>7. \A s \in Syncs : SyncSound(stats[s], {}, published, everWritten)
  BY <1>3, <1>4, <1>5, FilesNamed DEF SyncSound
<1>8. syncState["stats"] = 0 /\ syncState["schedules"] = 0  BY <1>3, FilesNamed
<1>9. FetchesInv({})  BY <1>7, <1>8 DEF FetchesInv
<1>10. QED  BY <1>1, <1>6, <1>9 DEF StatsInv

\* A name means one player, whoever resolves it and against whichever roster; and what is
\* recorded as copied was copied (playerCrosswalk.ts, playerStatsSync.ts): for any names,
\* scores, players and overlapping calls, and any season whose releases add games.
THEOREM PlayersAreTrue ==
  ASSUME ReleasesGrow, None \notin Player!Players  PROVE Spec => []PlayersTrue
<1> DEFINE Inv == part \in {"stats", "names"} => StatsInv /\ NamesInv
<1>1. Init => Inv  BY PlayerInvInit DEF Init
<1>2. Inv /\ [Next]_vars => Inv'
  <2> SUFFICES ASSUME part \in {"stats", "names"}, StatsInv, NamesInv, [Next]_vars
               PROVE  StatsInv' /\ NamesInv'
    BY DEF Next, vars
  <2>1. [Player!YNext]_playerVars  BY DEF Next, vars, Player!YNext
  <2>2. QED  BY <2>1, PlayerInvStep
<1>3. Inv => PlayersTrue
  <2> SUFFICES ASSUME StatsInv, NamesInv  PROVE Player!PlayersTrue  BY DEF PlayersTrue
  <2>1. Player!OneIdentity  BY DEF NamesInv, Player!OneIdentity
  <2>2. QED  BY <2>1, StatsInvCopied DEF Player!PlayersTrue
<1>4. QED  BY <1>1, <1>2, <1>3, PTL DEF Spec

-----------------------------------------------------------------------------
(***************************************************************************)
(* Prediction.  PredictionProofs speaks of the same steps.                 *)
(***************************************************************************)
PP == INSTANCE PredictionProofs

LEMMA SameAnswers ==
  ASSUME NEW r
  PROVE  /\ Reading!QuerySucceeds(r) <=> PP!QuerySucceeds(r)
         /\ Reading!QueryRefused(r) <=> PP!QueryRefused(r)
         /\ Reading!QueryBreaks(r) <=> PP!QueryBreaks(r)
         /\ \A ok : Reading!Calculate(r, ok) <=> PP!Calculate(r, ok)
<1>1. ASSUME NEW p, NEW answer PROVE Reading!Return(r, p, answer) <=> PP!Return(r, p, answer)
  BY DEF Reading!Return, PP!Return, Reading!Disposed, PP!Disposed
<1>2. ASSUME NEW p PROVE Reading!Refuse(r, p) <=> PP!Refuse(r, p)
  BY <1>1 DEF Reading!Refuse, PP!Refuse
<1>3. ASSUME NEW p, NEW next PROVE Reading!Query(r, p, next) <=> PP!Query(r, p, next)
  BY DEF Reading!Query, PP!Query
<1>4. ASSUME NEW p
      PROVE  /\ Reading!Stopped(p) <=> PP!Stopped(p)
             /\ Reading!Interrupted(p) = PP!Interrupted(p)
  BY DEF Reading!Stopped, PP!Stopped, Reading!Interrupted, PP!Interrupted
<1>5. /\ Reading!Settled(r) = PP!Settled(r)
      /\ Reading!Querying(r) <=> PP!Querying(r)
      /\ Reading!Free(r) <=> PP!Free(r)
  BY DEF Reading!Settled, PP!Settled, Reading!Querying, PP!Querying, Reading!Free, PP!Free
<1>6. Reading!QuerySucceeds(r) <=> PP!QuerySucceeds(r)
  BY <1>1, <1>2, <1>3, <1>4, <1>5 DEF Reading!QuerySucceeds, PP!QuerySucceeds
<1>7. Reading!QueryRefused(r) <=> PP!QueryRefused(r)
  BY <1>2, <1>5 DEF Reading!QueryRefused, PP!QueryRefused
<1>8. Reading!QueryBreaks(r) <=> PP!QueryBreaks(r)
  BY <1>2, <1>4, <1>5 DEF Reading!QueryBreaks, PP!QueryBreaks
<1>9. ASSUME NEW ok PROVE Reading!Calculate(r, ok) <=> PP!Calculate(r, ok)
  BY <1>2, <1>3, <1>4 DEF Reading!Calculate, PP!Calculate
<1>10. QED  BY <1>6, <1>7, <1>8, <1>9

LEMMA SameTimers ==
  ASSUME NEW r
  PROVE  /\ Reading!TimeIsUp(r) <=> PP!TimeIsUp(r)
         /\ Reading!InnerTimer(r) <=> PP!InnerTimer(r)
         /\ Reading!OuterTimer(r) <=> PP!OuterTimer(r)
         /\ Reading!Abort(r) <=> PP!Abort(r)
<1>1. Reading!TimeIsUp(r) <=> PP!TimeIsUp(r)  BY DEF Reading!TimeIsUp, PP!TimeIsUp
<1>2. ASSUME NEW p PROVE Reading!Interrupted(p) = PP!Interrupted(p)
  BY DEF Reading!Interrupted, PP!Interrupted
<1>3. Reading!InnerTimer(r) <=> PP!InnerTimer(r)
  BY DEF Reading!InnerTimer, PP!InnerTimer, Reading!Return, PP!Return,
         Reading!Disposed, PP!Disposed, Reading!Interrupted, PP!Interrupted
<1>4. ASSUME NEW p PROVE Reading!Stop(r, p) <=> PP!Stop(r, p)
  BY DEF Reading!Stop, PP!Stop, Reading!Disposed, PP!Disposed
<1>5. Reading!OuterTimer(r) <=> PP!OuterTimer(r)
  BY <1>4 DEF Reading!OuterTimer, PP!OuterTimer
<1>6. Reading!Abort(r) <=> PP!Abort(r)  BY <1>2, <1>4 DEF Reading!Abort, PP!Abort
<1>7. QED  BY <1>1, <1>3, <1>5, <1>6

LEMMA SamePredictions ==
  /\ Reading!PInit <=> PP!PInit
  /\ Reading!PNext <=> PP!PNext
  /\ Reading!ReadsClean <=> PP!ReadsClean
<1>1. Reading!PInit <=> PP!PInit
  BY DEF Reading!PInit, PP!PInit, Reading!Unread, PP!Unread
<1>2. Reading!Revoke <=> PP!Revoke  BY DEF Reading!Revoke, PP!Revoke
<1>3. ASSUME NEW k PROVE Reading!ServerEnds(k) <=> PP!ServerEnds(k)
  BY DEF Reading!ServerEnds, PP!ServerEnds, Reading!Querying, PP!Querying
<1>4. ASSUME NEW r
      PROVE  /\ \A pooled : Reading!Ask(r, pooled) <=> PP!Ask(r, pooled)
             /\ \A k : Reading!Connect(r, k) <=> PP!Connect(r, k)
             /\ Reading!ConnectFails(r) <=> PP!ConnectFails(r)
  BY DEF Reading!Ask, PP!Ask, Reading!Connect, PP!Connect, Reading!ConnectFails, PP!ConnectFails
<1>5. Reading!PNext <=> PP!PNext
  BY <1>2, <1>3, <1>4, SameAnswers, SameTimers DEF Reading!PNext, PP!PNext
<1>6. Reading!ReadsClean <=> PP!ReadsClean  BY DEF Reading!ReadsClean, PP!ReadsClean
<1>7. QED  BY <1>1, <1>5, <1>6

\* An idle connection runs no statement, none is kept by a task that has ended, and a
\* prediction that is available was authorized after its calculation (predict.ts,
\* predictionOwner.ts): for any number of predictions and connections.
THEOREM PoolStaysSound ==
  ASSUME PP!NamesDistinct  PROVE Spec => []ReadsClean
<1> DEFINE Inv == part = "prediction" => PP!ReadInv
<1>1. Init => Inv  BY SamePredictions, PP!ReadInvInit DEF Init
<1>2. Inv /\ [Next]_vars => Inv'
  <2> SUFFICES ASSUME part = "prediction", PP!ReadInv, [Next]_vars  PROVE PP!ReadInv'
    BY DEF Next, vars
  <2>1. [PP!PNext]_(PP!readVars)
    BY SamePredictions DEF Next, vars, toolVars, readVars, PP!readVars
  <2>2. QED  BY <2>1, PP!ReadInvStep
<1>3. Inv => ReadsClean  BY SamePredictions, PP!ReadInvClean DEF ReadsClean
<1>4. QED  BY <1>1, <1>2, <1>3, PTL DEF Spec

-----------------------------------------------------------------------------
(***************************************************************************)
(* Migrations.  MigrationsProofs speaks of the same steps.                 *)
(***************************************************************************)
MP == INSTANCE MigrationsProofs

LEMMA SamePlans ==
  ASSUME NEW r
  PROVE  /\ Migration!ReadMigrationPlan(r) <=> MP!ReadMigrationPlan(r)
         /\ Migration!ReadCatalog(r) <=> MP!ReadCatalog(r)
<1>1. Migration!ReadMigrationPlan(r) <=> MP!ReadMigrationPlan(r)
  BY DEF Migration!ReadMigrationPlan, MP!ReadMigrationPlan, Migration!HistoryValid, MP!HistoryValid,
         Migration!ComputedPlan, MP!ComputedPlan, Migration!Observed, MP!Observed,
         Migration!Unrecognized, MP!Unrecognized, Migration!Contract, MP!Contract
<1>2. Migration!ReadCatalog(r) <=> MP!ReadCatalog(r)
  BY DEF Migration!ReadCatalog, MP!ReadCatalog, Migration!AsApproved, MP!AsApproved,
         Migration!ScratchPlan, MP!ScratchPlan,
         Migration!ComputedPlan, MP!ComputedPlan, Migration!Observed, MP!Observed,
         Migration!Unrecognized, MP!Unrecognized, Migration!Contract, MP!Contract
<1>3. QED  BY <1>1, <1>2

LEMMA SameTransactions ==
  ASSUME NEW r
  PROVE  /\ Migration!Begin(r) <=> MP!Begin(r)
         /\ Migration!Fail(r) <=> MP!Fail(r)
         /\ Migration!ReadLedger(r) <=> MP!ReadLedger(r)
         /\ Migration!Operate(r) <=> MP!Operate(r)
         /\ Migration!Verify(r) <=> MP!Verify(r)
         /\ \A told : Migration!Commit(r, told) <=> MP!Commit(r, told)
<1>1. Migration!Begin(r) <=> MP!Begin(r)  BY DEF Migration!Begin, MP!Begin
<1>2. Migration!Fail(r) <=> MP!Fail(r)
  BY DEF Migration!Fail, MP!Fail, Migration!Rollback, MP!Rollback, Migration!Runner, MP!Runner
<1>3. Migration!ReadLedger(r) <=> MP!ReadLedger(r)
  BY DEF Migration!ReadLedger, MP!ReadLedger, Migration!HistoryValid, MP!HistoryValid
<1>4. Migration!Operate(r) <=> MP!Operate(r)
  BY DEF Migration!Operate, MP!Operate, Migration!Recorded, MP!Recorded
<1>5. Migration!Verify(r) <=> MP!Verify(r)
  BY DEF Migration!Verify, MP!Verify, Migration!Recorded, MP!Recorded,
         Migration!Contract, MP!Contract
<1>6. ASSUME NEW told PROVE Migration!Commit(r, told) <=> MP!Commit(r, told)
  BY DEF Migration!Commit, MP!Commit, Migration!Recorded, MP!Recorded,
         Migration!Versions, MP!Versions
<1>7. QED  BY <1>1, <1>2, <1>3, <1>4, <1>5, <1>6

LEMMA SameMigrations ==
  /\ Migration!GInit <=> MP!GInit
  /\ Migration!GNext <=> MP!GNext
  /\ Migration!LedgerTrue <=> MP!LedgerTrue
<1>1. Migration!GInit <=> MP!GInit
  BY DEF Migration!GInit, MP!GInit, Migration!Contract, MP!Contract, Migration!Versions, MP!Versions,
         Migration!Runner, MP!Runner
<1>2. ASSUME NEW o PROVE Migration!Drift(o) <=> MP!Drift(o)  BY DEF Migration!Drift, MP!Drift
<1>3. Migration!GNext <=> MP!GNext
  BY <1>2, SamePlans, SameTransactions
  DEF Migration!GNext, MP!GNext, Migration!Versions, MP!Versions
<1>4. Migration!LedgerTrue <=> MP!LedgerTrue
  BY DEF Migration!LedgerTrue, MP!LedgerTrue, Migration!Contract, MP!Contract,
         Migration!Versions, MP!Versions
<1>5. QED  BY <1>1, <1>3, <1>4

\* A version recorded as executed was executed once and any other never, an untouched schema
\* is as its last version promises, and an approved run that succeeds did what was approved
\* (core.mjs, plans.mjs): for any number of runners and of changes by hand, and whatever the
\* migrations create, if they are numbered.
THEOREM LedgerNeverLies ==
  ASSUME MP!MigrationsNumbered  PROVE Spec => []LedgerTrue
<1> DEFINE Inv == part = "migrations" => MP!LedgerInv
<1>1. Init => Inv  BY SameMigrations, MP!LedgerInvInit DEF Init
<1>2. Inv /\ [Next]_vars => Inv'
  <2> SUFFICES ASSUME part = "migrations", MP!LedgerInv, [Next]_vars  PROVE MP!LedgerInv'
    BY DEF Next, vars
  <2>1. [MP!GNext]_(MP!migrationVars)
    BY SameMigrations DEF Next, vars, toolVars, migrationVars, MP!migrationVars
  <2>2. QED  BY <2>1, MP!LedgerInvStep
<1>3. Inv => LedgerTrue
  BY SameMigrations
  DEF LedgerTrue, MP!LedgerInv, MP!LedgerTrue, MP!ExecutedAsRecorded, MP!RunnerSound
<1>4. QED  BY <1>1, <1>2, <1>3, PTL DEF Spec
-----------------------------------------------------------------------------
(***************************************************************************)
(* Odds evidence.  A stored observation is what was captured, its quotes   *)
(* are those of its hash, and at every moment one observation is the       *)
(* latest.  A name is in the quotes of a line in both directions or in     *)
(* neither, so both prices of a pair are of the same name.                 *)
(***************************************************************************)
Directions == {"over", "under"}
Bet(name, direction, point, price) ==
  [name |-> name, direction |-> direction, point |-> point, price |-> price]
Quote(book, name, point, direction, price) ==
  [book |-> book, name |-> name, point |-> point, direction |-> direction, price |-> price]

\* What the proof needs to know of the provider's responses: they are finite, their prices
\* are prices and their names have an order.
ResponsesGiven ==
  /\ \E n \in Nat : RawNames \subseteq 0..n
  /\ \A r \in Responses, b \in Bookmakers :
       r[b] = None \/ /\ IsFiniteSet(r[b])
                      /\ \A o \in r[b] : /\ o.name \in RawNames /\ o.price # None
                                         /\ o = Bet(o.name, o.direction, o.point, o.price)

\* The responses of the run are such.
LEMMA RunResponsesGiven ==
  ASSUME NEW n \in Nat, RawNames \subseteq 0..n, {1, 2} \subseteq RawNames, None \notin Nat
  PROVE  ResponsesGiven
<1> DEFINE Given(os) == /\ IsFiniteSet(os)
                        /\ \A o \in os : /\ o.name \in RawNames /\ o.price # None
                                          /\ o = Bet(o.name, o.direction, o.point, o.price)
<1>1. ASSUME NEW name \in {1, 2}, NEW d \in {"over", "under"}, NEW point,
             NEW price \in 1..3, NEW os, os = {Outcome(name, d, point, price)}
      PROVE  Given(os)
  <2>1. PICK o : o = Outcome(name, d, point, price)  OBVIOUS
  <2>2. o.name = name /\ o.price = price /\ o = Bet(o.name, o.direction, o.point, o.price)
    BY <2>1 DEF Outcome, Bet
  <2>3. IsFiniteSet({o})  BY FS_Singleton
  <2>4. QED  BY <1>1, <2>1, <2>2, <2>3
<1>2. Given({}) /\ \A os, qs : Given(os) /\ Given(qs) => Given(os \cup qs)  BY FS_EmptySet, FS_Union
<1> HIDE DEF Given
<1>3. ASSUME NEW name \in {1, 2}, NEW point, NEW over \in 1..3, NEW under \in 1..3
      PROVE  Given(Pair(name, point, over, under))
  <2>1. Given({Outcome(name, "over", point, over)}) /\ Given({Outcome(name, "under", point, under)})
    BY <1>1
  <2>2. {Outcome(name, "over", point, over)} \cup {Outcome(name, "under", point, under)}
          = Pair(name, point, over, under)
    BY DEF Pair
  <2>3. QED  BY <1>2, <2>1, <2>2
<1>4. ASSUME NEW b \in Bookmakers, NEW first, NEW second,
             first = None \/ Given(first), second = None \/ Given(second)
      PROVE  Market(first, second)[b] = None \/ Given(Market(first, second)[b])
  BY <1>4 DEF Market
<1>5. /\ Given(Pair(1, 1, 2, 2) \cup Pair(2, 1, 3, 3))
      /\ Given(Pair(1, 1, 2, 2) \cup {Outcome(1, "over", 1, 3)})
  <2>1. Given(Pair(1, 1, 2, 2)) /\ Given(Pair(2, 1, 3, 3)) /\ Given({Outcome(1, "over", 1, 3)})
    BY <1>1, <1>3
  <2>2. QED  BY <1>2, <2>1
<1>6. \A r \in Responses, b \in Bookmakers : r[b] = None \/ Given(r[b])
  <2>1. Given(Pair(1, 1, 1, 2)) /\ Given(Pair(1, 1, 2, 2)) /\ Given(Pair(1, 1, 3, 2))
    BY <1>3
  <2>2. Given(Pair(1, 1, 2, 3)) /\ Given(Pair(2, 1, 3, 2)) /\ Given(Pair(1, 2, 2, 2))
    BY <1>3
  <2>3. Given({Outcome(1, "over", 1, 2)})  BY <1>1
  <2>4. QED  BY <1>2, <1>4, <1>5, <2>1, <2>2, <2>3 DEF Responses
<1>7. QED  BY <1>6 DEF ResponsesGiven, Given

\* A set of natural numbers that is not empty has a least one.
Below == {ss \in Nat \X Nat : ss[1] < ss[2]}
LEMMA LeastNumber ==
  ASSUME NEW S \in SUBSET Nat, S # {}  PROVE  \E x \in S : \A y \in S : x <= y
<1>1. IsWellFoundedOn(Below, Nat)  BY NatLessThanWellFounded DEF OpToRel, Below
<1>2. PICK x \in S : \A y \in S : ~ (<<y, x>> \in Below)  BY <1>1, WFMin
<1>3. ASSUME NEW y \in S PROVE x <= y
  <2>1. PICK ss : ss = <<y, x>>  OBVIOUS
  <2>2. ss \in Nat \X Nat /\ ss[1] = y /\ ss[2] = x  BY <2>1
  <2>3. ~ (ss[1] < ss[2])  BY <1>2, <2>1, <2>2 DEF Below
  <2>4. QED  BY <2>2, <2>3
<1>4. QED  BY <1>3

\* Names have a last one.
LEMMA LastName ==
  ASSUME ResponsesGiven, NEW N \in SUBSET RawNames, N # {}
  PROVE  \E n \in N : n \in Nat /\ \A m \in N : m \in Nat /\ m <= n
<1>1. PICK top \in Nat : RawNames \subseteq 0..top  BY DEF ResponsesGiven
<1> DEFINE D == {top - n : n \in N}
<1>2. D \in SUBSET Nat /\ D # {}
  <2>1. \A n \in N : n \in 0..top  BY <1>1
  <2>2. \A n \in N : top - n \in Nat  BY <2>1
  <2>3. QED  BY <2>2
<1>3. PICK d \in D : \A e \in D : d <= e  BY <1>2, LeastNumber
<1>4. PICK n \in N : d = top - n  BY <1>3
<1>5. ASSUME NEW m \in N PROVE m \in Nat /\ m <= n
  <2>1. m \in 0..top /\ n \in 0..top  BY <1>1
  <2>2. top - n <= top - m  BY <1>3, <1>4
  <2>3. QED  BY <2>1, <2>2
<1>6. QED  BY <1>1, <1>4, <1>5

LEMMA SameCardinality == \A S : Odds!Cardinality(S) = Cardinality(S)
BY DEF Odds!Cardinality, Cardinality

\* Bookmaker b offers n at a point in direction d for one price and no other.
OneOffer(r, b, n, point, d, price) ==
  Odds!Offers(r, b, n, point, d) = {Bet(n, d, point, price)}
TwoWay(r, b, n, point) == \A d \in Directions : \E price : OneOffer(r, b, n, point, d, price)

LEMMA OneOfferHolds ==
  ASSUME ResponsesGiven, NEW r \in Responses, NEW b \in Bookmakers, r[b] # None,
         NEW n, NEW point, NEW d
  PROVE  /\ \A o \in Odds!Offers(r, b, n, point, d) :
              /\ o \in r[b] /\ o.price # None /\ Odds!ValidOutcome(o)
              /\ n \in RawNames /\ o = Bet(n, d, point, o.price)
         /\ Cardinality(Odds!Offers(r, b, n, point, d)) = 1
              <=> \E price : OneOffer(r, b, n, point, d, price)
<1> DEFINE offers == Odds!Offers(r, b, n, point, d)
<1>1. IsFiniteSet(r[b]) /\ \A o \in r[b] : /\ o.name \in RawNames /\ o.price # None
                                           /\ o = Bet(o.name, o.direction, o.point, o.price)
  BY DEF ResponsesGiven
<1>2. \A o \in offers : /\ o \in r[b] /\ Odds!ValidOutcome(o) /\ o.name = n /\ o.point = point
                        /\ o.direction = d
  BY DEF Odds!Offers
<1>3. \A o \in offers : /\ o \in r[b] /\ o.price # None /\ Odds!ValidOutcome(o)
                        /\ n \in RawNames /\ o = Bet(n, d, point, o.price)
  BY <1>1, <1>2
<1>4. IsFiniteSet(offers)
  <2>1. offers \in SUBSET r[b]  BY <1>2
  <2>2. QED  BY <1>1, <2>1, FS_Subset
<1>5. Cardinality(offers) = 1 <=> \E x : offers = {x}  BY <1>4, FS_Singleton
<1>6. (\E x : offers = {x}) <=> \E price : offers = {Bet(n, d, point, price)}
  <2>1. ASSUME NEW x, offers = {x} PROVE \E price : offers = {Bet(n, d, point, price)}
    <3>1. x = Bet(n, d, point, x.price)  BY <1>3, <2>1
    <3>2. QED  BY <2>1, <3>1
  <2>2. QED  BY <2>1
<1>7. QED  BY <1>3, <1>5, <1>6 DEF OneOffer

LEMMA PriceIsOne ==
  ASSUME NEW r, NEW b, NEW n, NEW point, NEW d, NEW p, NEW q,
         OneOffer(r, b, n, point, d, p), OneOffer(r, b, n, point, d, q)
  PROVE  p = q
<1>1. Bet(n, d, point, p) = Bet(n, d, point, q)  BY DEF OneOffer
<1>2. Bet(n, d, point, p).price = p /\ Bet(n, d, point, q).price = q  BY DEF Bet
<1>3. QED  BY <1>1, <1>2

\* The outcome o of bookmaker b is kept, as quote q.
Kept(r, b, o, q) ==
  /\ Odds!ValidOutcome(o)
  /\ \A d \in Directions : Cardinality(Odds!Offers(r, b, o.name, o.point, d)) = 1
  /\ q = Quote(b, o.name, o.point, o.direction, o.price)

\* The quotes of a response.
LEMMA QuotesAreOffers ==
  ASSUME ResponsesGiven, NEW r \in Responses
  PROVE  /\ \A q \in Odds!Quotes(r) :
              /\ q.book \in Bookmakers /\ r[q.book] # None /\ q.name \in RawNames
              /\ q.direction \in Directions =>
                   /\ OneOffer(r, q.book, q.name, q.point, q.direction, q.price)
                   /\ TwoWay(r, q.book, q.name, q.point)
         /\ \A n, point, price : \A b \in Bookmakers, d \in Directions :
              r[b] # None /\ TwoWay(r, b, n, point) /\ OneOffer(r, b, n, point, d, price)
                => Quote(b, n, point, d, price) \in Odds!Quotes(r)
<1>1. ASSUME NEW q \in Odds!Quotes(r)
      PROVE  /\ q.book \in Bookmakers /\ r[q.book] # None /\ q.name \in RawNames
             /\ q.direction \in Directions =>
                  /\ OneOffer(r, q.book, q.name, q.point, q.direction, q.price)
                  /\ TwoWay(r, q.book, q.name, q.point)
  <2>1. PICK b \in Bookmakers : r[b] # None /\ \E o \in r[b] : Kept(r, b, o, q)
    BY SameCardinality DEF Odds!Quotes, Quote, Directions, Kept
  <2>2. PICK o \in r[b] : Kept(r, b, o, q)  BY <2>1
  <2>3. /\ q.book = b /\ q.name = o.name /\ q.point = o.point /\ q.direction = o.direction
        /\ q.price = o.price
    BY <2>2 DEF Kept, Quote
  <2>4. TwoWay(r, b, o.name, o.point)  BY <2>1, <2>2, OneOfferHolds DEF Kept, TwoWay
  <2>5. o.name \in RawNames  BY <2>1, <2>2 DEF ResponsesGiven
  <2>6. ASSUME o.direction \in Directions
        PROVE  OneOffer(r, b, o.name, o.point, o.direction, o.price)
    <3>1. PICK price : OneOffer(r, b, o.name, o.point, o.direction, price)
      BY <2>4, <2>6 DEF TwoWay
    <3>2. o \in Odds!Offers(r, b, o.name, o.point, o.direction)  BY <2>2 DEF Kept, Odds!Offers
    <3>3. o.price = price  BY <3>1, <3>2 DEF OneOffer, Bet
    <3>4. QED  BY <3>1, <3>3
  <2>7. QED  BY <2>1, <2>3, <2>4, <2>5, <2>6
<1>2. ASSUME NEW b \in Bookmakers, NEW n, NEW point, NEW price, NEW d \in Directions,
             r[b] # None, TwoWay(r, b, n, point), OneOffer(r, b, n, point, d, price)
      PROVE  Quote(b, n, point, d, price) \in Odds!Quotes(r)
  <2>1. PICK o : o = Bet(n, d, point, price)  OBVIOUS
  <2>2. o \in Odds!Offers(r, b, n, point, d)  BY <1>2, <2>1 DEF OneOffer
  <2>3. o \in r[b] /\ Odds!ValidOutcome(o)  BY <1>2, <2>2, OneOfferHolds
  <2>4. o.name = n /\ o.point = point /\ o.direction = d /\ o.price = price  BY <2>1 DEF Bet
  <2>5. \A e \in Directions : Cardinality(Odds!Offers(r, b, o.name, o.point, e)) = 1
    BY <1>2, <2>4, OneOfferHolds DEF TwoWay
  <2>6. Quote(b, n, point, d, price) = Quote(b, o.name, o.point, o.direction, o.price)
    BY <2>4
  <2>7. Kept(r, b, o, Quote(b, n, point, d, price))  BY <2>3, <2>5, <2>6 DEF Kept
  <2>8. QED  BY <1>2, <2>3, <2>7, SameCardinality DEF Odds!Quotes, Quote, Directions, Kept
<1>3. QED  BY <1>1, <1>2

-----------------------------------------------------------------------------
(* Answers. *)

Mine(name, player) == IF player.kind = "provider-name" THEN name = player.value
                      ELSE resolvedNames[name] = player.value
AtLine(quotes, player, line) == {q \in Odds!OfPlayer(quotes, player) : q.point = line}

\* The names of the player that bookmaker b offers both ways at a line.
NamesAt(r, b, player, line) ==
  {n \in RawNames : Mine(n, player) /\ r[b] # None /\ TwoWay(r, b, n, line)}

LEMMA QuotesAtLine ==
  ASSUME ResponsesGiven, NEW r \in Responses, NEW b \in Bookmakers, NEW player, NEW line,
         NEW d \in Directions
  PROVE  LET S == {q \in AtLine(Odds!Quotes(r), player, line) : q.book = b /\ q.direction = d}
         IN /\ \A q \in S : /\ q.name \in NamesAt(r, b, player, line)
                            /\ OneOffer(r, b, q.name, line, d, q.price)
            /\ \A n \in NamesAt(r, b, player, line) : \E q \in S : q.name = n
<1> DEFINE S == {q \in AtLine(Odds!Quotes(r), player, line) : q.book = b /\ q.direction = d}
<1>1. ASSUME NEW q \in S
      PROVE  q.name \in NamesAt(r, b, player, line) /\ OneOffer(r, b, q.name, line, d, q.price)
  <2>1. q \in Odds!Quotes(r) /\ Mine(q.name, player) /\ q.point = line /\ q.book = b /\ q.direction = d
    BY DEF AtLine, Odds!OfPlayer, Mine
  <2>2. /\ r[b] # None /\ q.name \in RawNames
        /\ OneOffer(r, b, q.name, line, d, q.price) /\ TwoWay(r, b, q.name, line)
    BY <2>1, QuotesAreOffers
  <2>3. QED  BY <2>1, <2>2 DEF NamesAt
<1>2. ASSUME NEW n \in NamesAt(r, b, player, line) PROVE \E q \in S : q.name = n
  <2>1. n \in RawNames /\ Mine(n, player) /\ r[b] # None /\ TwoWay(r, b, n, line)
    BY DEF NamesAt
  <2>2. PICK price : OneOffer(r, b, n, line, d, price)  BY <2>1 DEF TwoWay
  <2>3. PICK q : q = Quote(b, n, line, d, price)  OBVIOUS
  <2>4. q \in Odds!Quotes(r)  BY <2>1, <2>2, <2>3, QuotesAreOffers
  <2>5. q.book = b /\ q.name = n /\ q.point = line /\ q.direction = d  BY <2>3 DEF Quote
  <2>6. q \in S  BY <2>1, <2>4, <2>5 DEF AtLine, Odds!OfPlayer, Mine
  <2>7. QED  BY <2>5, <2>6
<1>3. QED  BY <1>1, <1>2

\* A bookmaker's two prices are offered together, under the last name that it has; they are
\* none where it has no name.
LEMMA PricesAreOffered ==
  ASSUME ResponsesGiven, NEW r \in Responses, NEW b \in Bookmakers, NEW player, NEW line
  PROVE  LET A == AtLine(Odds!Quotes(r), player, line)
             N == NamesAt(r, b, player, line)
         IN /\ N = {} => \A d \in Directions : Odds!PriceOf(A, b, d) = None
            /\ N # {} => \E n \in N : \A d \in Directions :
                           OneOffer(r, b, n, line, d, Odds!PriceOf(A, b, d))
<1> DEFINE A == AtLine(Odds!Quotes(r), player, line)
           N == NamesAt(r, b, player, line)
           S(d) == {q \in A : q.book = b /\ q.direction = d}
<1>1. \A d \in Directions : /\ \A q \in S(d) : q.name \in N /\ OneOffer(r, b, q.name, line, d, q.price)
                            /\ \A n \in N : \E q \in S(d) : q.name = n
  BY QuotesAtLine
<1>2. \A d \in Directions : Odds!PriceOf(A, b, d) =
        IF S(d) = {} THEN None ELSE (CHOOSE q \in S(d) : \A s \in S(d) : s.name <= q.name).price
  BY DEF Odds!PriceOf
<1> HIDE DEF S, A
<1>3. ASSUME N = {} PROVE \A d \in Directions : Odds!PriceOf(A, b, d) = None
  <2> SUFFICES ASSUME NEW d \in Directions PROVE Odds!PriceOf(A, b, d) = None  OBVIOUS
  <2>1. S(d) = {}  BY <1>1, <1>3
  <2>2. QED  BY <1>2, <2>1
<1>4. ASSUME N # {}
      PROVE  \E n \in N : \A d \in Directions : OneOffer(r, b, n, line, d, Odds!PriceOf(A, b, d))
  <2>1. N \in SUBSET RawNames  BY DEF NamesAt
  <2>2. PICK n \in N : n \in Nat /\ \A m \in N : m \in Nat /\ m <= n  BY <1>4, <2>1, LastName
  <2>3. ASSUME NEW d \in Directions PROVE OneOffer(r, b, n, line, d, Odds!PriceOf(A, b, d))
    <3>1. PICK q \in S(d) : q.name = n  BY <1>1
    <3>2. \A s \in S(d) : s.name <= q.name  BY <1>1, <2>2, <3>1
    <3> DEFINE c == CHOOSE e \in S(d) : \A s \in S(d) : s.name <= e.name
    <3>3. c \in S(d) /\ \A s \in S(d) : s.name <= c.name  BY <3>2
    <3>4. Odds!PriceOf(A, b, d) = c.price  BY <1>2, <3>1
    <3> HIDE DEF c
    <3>5. c.name = n
      <4>1. c.name \in N /\ n <= c.name  BY <1>1, <3>1, <3>3
      <4>2. c.name \in Nat /\ c.name <= n  BY <2>2, <4>1
      <4>3. QED  BY <2>2, <4>1, <4>2
    <3>6. QED  BY <1>1, <3>3, <3>4, <3>5
  <2>4. QED  BY <2>3
<1>5. QED  BY <1>3, <1>4 DEF A

\* What a response offers a player at a line, and what its quotes answer.
LEMMA AnswerIsOffered ==
  ASSUME ResponsesGiven, NEW r \in Responses, NEW player, NEW line
  PROVE  LET answer == Odds!Consensus(AtLine(Odds!Quotes(r), player, line))
             offered == Odds!Offered(r, player, line)
         IN /\ {pair.book : pair \in answer} = {pair.book : pair \in offered}
            /\ \A pair \in answer :
                 \E q \in offered : q.book = pair.book /\ q.over = pair.over /\ q.under = pair.under
            /\ answer # {} => \E q \in AtLine(Odds!Quotes(r), player, line) : TRUE
            /\ offered # {} => Odds!Quotes(r) # {}
<1> DEFINE A == AtLine(Odds!Quotes(r), player, line)
           answer == Odds!Consensus(A)
           offered == Odds!Offered(r, player, line)
           N(b) == NamesAt(r, b, player, line)
<1>1. ASSUME NEW pair \in offered
      PROVE  pair.book \in Bookmakers /\ pair.name \in N(pair.book)
  <2>1. /\ pair.book \in Bookmakers /\ pair.name \in RawNames /\ r[pair.book] # None
        /\ Mine(pair.name, player)
        /\ \A d \in Directions : {o.price : o \in Odds!Offers(r, pair.book, pair.name, line, d)} =
                                   {IF d = "over" THEN pair.over ELSE pair.under}
    BY DEF Odds!Offered, Mine, Directions
  <2>2. ASSUME NEW d \in Directions PROVE \E price : OneOffer(r, pair.book, pair.name, line, d, price)
    <3> DEFINE O == Odds!Offers(r, pair.book, pair.name, line, d)
    <3>1. PICK price : {o.price : o \in O} = {price}  BY <2>1
    <3>2. \A o \in O : o = Bet(pair.name, d, line, o.price)  BY <2>1, OneOfferHolds
    <3>3. \A o \in O : o.price = price  BY <3>1
    <3>4. O # {}  BY <3>1
    <3>5. O = {Bet(pair.name, d, line, price)}  BY <3>2, <3>3, <3>4
    <3>6. QED  BY <3>5 DEF OneOffer
  <2>3. QED  BY <2>1, <2>2 DEF NamesAt, TwoWay
<1>2. ASSUME NEW b \in Bookmakers, NEW n \in N(b), NEW over, NEW under,
             OneOffer(r, b, n, line, "over", over), OneOffer(r, b, n, line, "under", under)
      PROVE  \E q \in offered : q.book = b /\ q.over = over /\ q.under = under
  <2> DEFINE q == [book |-> b, name |-> n, over |-> over, under |-> under]
  <2>1. n \in RawNames /\ Mine(n, player) /\ r[b] # None  BY DEF NamesAt
  <2>2. ASSUME NEW d \in Directions, NEW price, OneOffer(r, b, n, line, d, price)
        PROVE  /\ {o.price : o \in Odds!Offers(r, b, n, line, d)} = {price}
               /\ price \in Odds!Prices(r)
    <3>1. PICK o : o = Bet(n, d, line, price)  OBVIOUS
    <3>2. Odds!Offers(r, b, n, line, d) = {o}  BY <2>2, <3>1 DEF OneOffer
    <3>3. o.price = price  BY <3>1 DEF Bet
    <3>4. o \in r[b]  BY <2>1, <3>2, OneOfferHolds
    <3>5. r[b] \in {r[c] : c \in {e \in Bookmakers : r[e] # None}}  BY <2>1
    <3>6. price \in Odds!Prices(r)  BY <3>3, <3>4, <3>5 DEF Odds!Prices
    <3>7. QED  BY <3>2, <3>3, <3>6
  <2>3. over \in Odds!Prices(r) /\ under \in Odds!Prices(r)  BY <1>2, <2>2 DEF Directions
  <2>4. q \in [book : Bookmakers, name : RawNames, over : Odds!Prices(r), under : Odds!Prices(r)]
    BY <2>1, <2>3
  <2>5. \A d \in Directions : {o.price : o \in Odds!Offers(r, b, n, line, d)} =
                                {IF d = "over" THEN over ELSE under}
    BY <1>2, <2>2 DEF Directions
  <2>6. q.book = b /\ q.name = n /\ q.over = over /\ q.under = under  OBVIOUS
  <2> HIDE DEF q
  <2>7. q \in offered  BY <2>1, <2>4, <2>5, <2>6 DEF Odds!Offered, Mine, Directions
  <2>8. QED  BY <2>6, <2>7
<1>3. ASSUME NEW b \in Bookmakers, N(b) # {}
      PROVE  \E over, under : /\ [book |-> b, over |-> over, under |-> under] \in answer
                              /\ over = Odds!PriceOf(A, b, "over") /\ under = Odds!PriceOf(A, b, "under")
                              /\ \E n \in N(b) : /\ OneOffer(r, b, n, line, "over", over)
                                                 /\ OneOffer(r, b, n, line, "under", under)
  <2>1. PICK n \in N(b) : \A d \in Directions : OneOffer(r, b, n, line, d, Odds!PriceOf(A, b, d))
    BY <1>3, PricesAreOffered
  <2>2. PICK over, under : over = Odds!PriceOf(A, b, "over") /\ under = Odds!PriceOf(A, b, "under")
    OBVIOUS
  <2>3. OneOffer(r, b, n, line, "over", over) /\ OneOffer(r, b, n, line, "under", under)
    BY <2>1, <2>2 DEF Directions
  <2>4. r[b] # None  BY DEF NamesAt
  <2>5. over # None /\ under # None
    <3>1. \A d, price : OneOffer(r, b, n, line, d, price) => price # None
      <4> SUFFICES ASSUME NEW d, NEW price, OneOffer(r, b, n, line, d, price) PROVE price # None
        OBVIOUS
      <4>1. PICK o : o = Bet(n, d, line, price)  OBVIOUS
      <4>2. o \in Odds!Offers(r, b, n, line, d)  BY <4>1 DEF OneOffer
      <4>3. o.price # None  BY <2>4, <4>2, OneOfferHolds
      <4>4. QED  BY <4>1, <4>3 DEF Bet
    <3>2. QED  BY <2>3, <3>1
  <2>6. [book |-> b, over |-> over, under |-> under] \in answer
    BY <2>2, <2>5 DEF Odds!Consensus
  <2>7. QED  BY <2>2, <2>3, <2>6
<1>4. ASSUME NEW pair \in answer
      PROVE  /\ pair.book \in Bookmakers /\ N(pair.book) # {}
             /\ pair.over = Odds!PriceOf(A, pair.book, "over")
             /\ pair.under = Odds!PriceOf(A, pair.book, "under")
  <2>1. PICK b \in Bookmakers : /\ pair = [book |-> b, over |-> Odds!PriceOf(A, b, "over"),
                                           under |-> Odds!PriceOf(A, b, "under")]
                                /\ pair.over # None
    BY DEF Odds!Consensus
  <2>2. /\ pair.book = b /\ pair.over = Odds!PriceOf(A, b, "over")
        /\ pair.under = Odds!PriceOf(A, b, "under")
    BY <2>1
  <2>3. N(b) # {}  BY <2>1, <2>2, PricesAreOffered DEF Directions
  <2>4. QED  BY <2>2, <2>3
<1> HIDE DEF answer, offered, N
<1>5. \A pair \in answer : \E q \in offered : q.book = pair.book /\ q.over = pair.over /\ q.under = pair.under
  <2> SUFFICES ASSUME NEW pair \in answer
               PROVE  \E q \in offered : q.book = pair.book /\ q.over = pair.over /\ q.under = pair.under
    OBVIOUS
  <2>1. PICK b \in Bookmakers : b = pair.book  BY <1>4
  <2>2. N(b) # {}  BY <1>4, <2>1
  <2>3. PICK over, under : /\ over = Odds!PriceOf(A, b, "over") /\ under = Odds!PriceOf(A, b, "under")
                           /\ \E n \in N(b) : /\ OneOffer(r, b, n, line, "over", over)
                                              /\ OneOffer(r, b, n, line, "under", under)
    BY <1>3, <2>2
  <2>4. \E q \in offered : q.book = b /\ q.over = over /\ q.under = under  BY <1>2, <2>3
  <2>5. QED  BY <1>4, <2>1, <2>3, <2>4
<1>6. \A q \in offered : \E pair \in answer : pair.book = q.book
  <2> SUFFICES ASSUME NEW q \in offered PROVE \E pair \in answer : pair.book = q.book  OBVIOUS
  <2>1. q.book \in Bookmakers /\ N(q.book) # {}  BY <1>1
  <2>2. PICK over, under : [book |-> q.book, over |-> over, under |-> under] \in answer
    BY <1>3, <2>1
  <2>3. QED  BY <2>2
<1>7. {pair.book : pair \in answer} = {pair.book : pair \in offered}  BY <1>5, <1>6
<1>8. ASSUME NEW pair \in answer PROVE \E q \in A : q \in Odds!Quotes(r)
  <2>1. PICK n : n \in N(pair.book)  BY <1>4
  <2>2. PICK q \in {e \in A : e.book = pair.book /\ e.direction = "over"} : q.name = n
    BY <1>4, <2>1, QuotesAtLine DEF Directions, N
  <2>3. QED  BY <2>2 DEF AtLine, Odds!OfPlayer
<1>9. QED  BY <1>5, <1>6, <1>7, <1>8 DEF answer, offered

-----------------------------------------------------------------------------
(* Storage. *)

Later(p, q) == p.at > q.at \/ (p.at = q.at /\ p.created >= q.created)
By(cutoff) == {p \in evidence : p.at <= cutoff}

Observed(p) ==
  /\ p = [id |-> p.id, at |-> p.at, created |-> p.created, status |-> p.status, hash |-> p.hash]
  /\ p.id \in Observations /\ captures[p.id] # None /\ captures[p.id].at = p.at
  /\ p.at \in Nat /\ p.created \in Nat /\ p.at < EventStart
  /\ p.status = Odds!Status(captures[p.id].response)
  /\ p.hash = Odds!Quotes(captures[p.id].response)
  /\ p.status = "returned" => \E s \in quoteSets : s.hash = p.hash

EvidenceInv ==
  /\ now \in Nat
  /\ captures = [o \in Observations |-> captures[o]]
  /\ \A o \in Observations : captures[o] # None =>
       captures[o] \in [response : Responses, at : Nat]
  /\ \A p \in evidence : Observed(p)
  /\ IsFiniteSet(evidence)
  /\ \A s \in quoteSets : s.quotes = s.hash
  /\ \A cutoff \in Int : By(cutoff) # {} =>
       \E p \in By(cutoff) : \A q \in By(cutoff) : Later(p, q)

\* What a response offers is asked for by its status.
LEMMA OfferedIsReturned ==
  ASSUME ResponsesGiven, NEW r \in Responses, Odds!Quotes(r) # {}  PROVE  Odds!Status(r) = "returned"
<1>1. PICK b \in Bookmakers : r[b] # None /\ \E o \in r[b] : TRUE
  BY DEF Odds!Quotes
<1>2. r[b] \notin {None, {}}  BY <1>1
<1>3. QED  BY <1>1, <1>2 DEF Odds!Status

LEMMA PersistKeeps ==
  ASSUME EvidenceInv, NEW o \in Observations, Odds!PersistObservation(o)  PROVE  EvidenceInv'
<1> DEFINE c == captures[o]
           hash == Odds!Quotes(c.response)
<1>0. PICK e : e = [id |-> o, at |-> c.at, created |-> Odds!Cardinality(evidence),
                    status |-> Odds!Status(c.response), hash |-> hash]
  OBVIOUS
<1>1. /\ c # None /\ c.at < EventStart /\ (\A p \in evidence : p.id # o)
      /\ evidence' = evidence \cup {e}
      /\ quoteSets' = IF Odds!Status(c.response) = "returned" THEN Odds!Stored(hash, hash) ELSE quoteSets
      /\ UNCHANGED <<now, captures, resolvedNames>>
  BY <1>0 DEF Odds!PersistObservation, Odds!ContentHash
<1>2. c \in [response : Responses, at : Nat]  BY <1>1 DEF EvidenceInv
<1>3. IsFiniteSet(evidence') /\ Odds!Cardinality(evidence) \in Nat
  BY <1>1, FS_AddElement, FS_CardinalityType, SameCardinality DEF EvidenceInv
<1>4. /\ \A s \in quoteSets' : s.quotes = s.hash
      /\ quoteSets \subseteq quoteSets'
      /\ Odds!Status(c.response) = "returned" => \E s \in quoteSets' : s.hash = hash
  <2>1. [hash |-> hash, quotes |-> hash].hash = hash /\ [hash |-> hash, quotes |-> hash].quotes = hash
    OBVIOUS
  <2> HIDE DEF hash
  <2>2. QED  BY <1>1, <2>1 DEF EvidenceInv, Odds!Stored
<1>5. /\ e.id = o /\ e.at = c.at /\ e.created = Odds!Cardinality(evidence)
      /\ e.status = Odds!Status(c.response) /\ e.hash = hash
      /\ e = [id |-> e.id, at |-> e.at, created |-> e.created, status |-> e.status, hash |-> e.hash]
  BY <1>0
<1>6. Observed(e)'  BY <1>1, <1>2, <1>3, <1>4, <1>5 DEF Observed
<1>7. ASSUME NEW p \in evidence PROVE Observed(p)'
  BY <1>1, <1>4 DEF EvidenceInv, Observed
<1>8. ASSUME NEW cutoff \in Int, By(cutoff)' # {}
      PROVE  \E p \in By(cutoff)' : \A q \in By(cutoff)' : Later(p, q)
  <2>1. By(cutoff)' = IF e.at <= cutoff THEN By(cutoff) \cup {e} ELSE By(cutoff)  BY <1>1 DEF By
  <2>2. \A p \in By(cutoff) \cup {e} : p.at \in Nat /\ p.created \in Nat
    BY <1>2, <1>3, <1>5 DEF By, EvidenceInv, Observed
  <2>3. By(cutoff) # {} => \E p \in By(cutoff) : \A q \in By(cutoff) : Later(p, q)
    BY DEF EvidenceInv
  <2>4. CASE ~(e.at <= cutoff) \/ By(cutoff) = {}
    <3>1. CASE By(cutoff)' = By(cutoff)  BY <1>8, <2>3, <3>1
    <3>2. CASE By(cutoff)' = {e}  BY <2>2, <3>2 DEF Later
    <3>3. QED  BY <2>1, <2>4, <3>1, <3>2
  <2>5. CASE e.at <= cutoff /\ By(cutoff) # {}
    <3>1. PICK p \in By(cutoff) : \A q \in By(cutoff) : Later(p, q)  BY <2>3, <2>5
    <3>2. CASE Later(p, e)  BY <2>1, <2>5, <3>1, <3>2
    <3>3. CASE ~Later(p, e)
      <4>1. Later(e, p) /\ Later(e, e)  BY <2>2, <3>3 DEF Later
      <4>2. ASSUME NEW q \in By(cutoff) PROVE Later(e, q)  BY <2>2, <3>1, <4>1 DEF Later
      <4>3. QED  BY <2>1, <2>5, <4>1, <4>2
    <3>4. QED  BY <3>2, <3>3
  <2>6. QED  BY <2>4, <2>5
<1>9. \A p \in evidence' : Observed(p)'  BY <1>1, <1>6, <1>7
<1>10. QED  BY <1>1, <1>3, <1>4, <1>8, <1>9 DEF EvidenceInv, Later

LEMMA CaptureKeeps ==
  ASSUME EvidenceInv, NEW o \in Observations, NEW r \in Responses, Odds!Capture(o, r)
  PROVE  EvidenceInv'
<1> DEFINE c == [response |-> r, at |-> now]
<1>1. /\ captures[o] = None /\ captures' = [captures EXCEPT ![o] = c]
      /\ UNCHANGED <<now, evidence, quoteSets, resolvedNames>>
  BY DEF Odds!Capture
<1>2. c \in [response : Responses, at : Nat]  BY DEF EvidenceInv
<1>3. /\ captures' = [p \in Observations |-> captures'[p]]
      /\ \A p \in Observations : captures'[p] = IF p = o THEN c ELSE captures[p]
  BY <1>1 DEF EvidenceInv
<1>4. \A p \in Observations : captures'[p] # None => captures'[p] \in [response : Responses, at : Nat]
  BY <1>2, <1>3 DEF EvidenceInv
<1> HIDE DEF c
<1>5. ASSUME NEW p \in evidence PROVE Observed(p)'
  <2>1. Observed(p)  BY DEF EvidenceInv
  <2>2. captures'[p.id] = captures[p.id]  BY <1>1, <1>3, <2>1 DEF Observed
  <2>3. QED  BY <1>1, <2>1, <2>2 DEF Observed
<1>6. QED  BY <1>1, <1>3, <1>4, <1>5 DEF EvidenceInv, By

LEMMA EvidenceInvStep ==
  ASSUME EvidenceInv, Odds!ENext \/ UNCHANGED Odds!evidenceVars  PROVE  EvidenceInv'
<1>1. CASE \E o \in Observations : Odds!PersistObservation(o)  BY <1>1, PersistKeeps
<1>2. CASE \E o \in Observations, r \in Responses : Odds!Capture(o, r)  BY <1>2, CaptureKeeps
<1>3. CASE UNCHANGED <<captures, evidence, quoteSets>> /\ now' \in {now, now + 1}
  <2>1. now \in Nat /\ now' \in Nat /\ now <= now'  BY <1>3 DEF EvidenceInv
  <2>2. QED  BY <1>3, <2>1 DEF EvidenceInv, Observed, By
<1>4. QED  BY <1>1, <1>2, <1>3 DEF Odds!ENext, Odds!Tick, Odds!Resolve, Odds!evidenceVars

\* An answer is what the last stored response by the moment asked about offers.
LEMMA AnswerTrue ==
  ASSUME ResponsesGiven, EvidenceInv, NEW cutoff \in Int, NEW player, NEW line,
         Odds!Latest(cutoff) # None
  PROVE  LET a == Odds!HistoricalConsensus(cutoff, player, line)
             p == Odds!Latest(cutoff)
             offered == Odds!Offered(captures[p.id].response, player, line)
         IN /\ a.reason # "error" /\ captures[p.id].at = p.at
            /\ {pair.book : pair \in a.pairs} = {pair.book : pair \in offered}
            /\ \A pair \in a.pairs :
                 \E q \in offered : q.book = pair.book /\ q.over = pair.over /\ q.under = pair.under
<1> DEFINE p == Odds!Latest(cutoff)
           r == captures[p.id].response
           a == Odds!HistoricalConsensus(cutoff, player, line)
           offered == Odds!Offered(r, player, line)
           answer == Odds!Consensus(AtLine(Odds!Quotes(r), player, line))
<1>1. p \in By(cutoff)
  <2>1. By(cutoff) # {} /\ p = CHOOSE e \in By(cutoff) : \A q \in By(cutoff) : Later(e, q)
    BY DEF Odds!Latest, By, Later
  <2>2. QED  BY <2>1 DEF EvidenceInv
<1> HIDE DEF p
<1>2. p \in evidence /\ p.at <= cutoff /\ Observed(p)  BY <1>1 DEF By, EvidenceInv
<1>3. r \in Responses  BY <1>2 DEF Observed, EvidenceInv
<1> HIDE DEF r
<1>4. Odds!Provenance(p, cutoff) /\ captures[p.id].at = p.at /\ p.status = Odds!Status(r)
  BY <1>2 DEF Observed, Odds!Provenance, r
<1>5. p.status = "returned" => Odds!StoredQuotes(p) = Odds!Quotes(r)
  <2> SUFFICES ASSUME p.status = "returned" PROVE Odds!StoredQuotes(p) = Odds!Quotes(r)  OBVIOUS
  <2>1. p.hash = Odds!Quotes(r) /\ \E s \in quoteSets : s.hash = p.hash  BY <1>2 DEF Observed, r
  <2>2. \A s \in quoteSets : s.quotes = s.hash  BY DEF EvidenceInv
  <2>3. {s.quotes : s \in {t \in quoteSets : t.hash = p.hash}} = {Odds!Quotes(r)}  BY <2>1, <2>2
  <2>4. QED  BY <2>3 DEF Odds!StoredQuotes
<1>6. /\ {pair.book : pair \in answer} = {pair.book : pair \in offered}
      /\ \A pair \in answer :
           \E q \in offered : q.book = pair.book /\ q.over = pair.over /\ q.under = pair.under
      /\ answer # {} => \E q \in AtLine(Odds!Quotes(r), player, line) : TRUE
      /\ offered # {} => Odds!Quotes(r) # {}
  BY <1>3, AnswerIsOffered
<1>7. a.reason # "error" /\ a.pairs = IF p.status = "returned" THEN answer ELSE {}
  <2> DEFINE ofPlayer == Odds!OfPlayer(Odds!StoredQuotes(p), player)
             atLine == {q \in ofPlayer : q.point = line}
  <2>1. a = IF p.status # "returned" THEN Odds!Unavailable(p.status)
            ELSE IF ofPlayer = {} THEN Odds!Unavailable("player-not-found-in-observation")
            ELSE IF atLine = {} THEN Odds!Unavailable("exact-line-not-found")
            ELSE IF Odds!Consensus(atLine) = {} THEN Odds!Unavailable("no-valid-two-way-quotes")
            ELSE [reason |-> "available", pairs |-> Odds!Consensus(atLine)]
    BY <1>4 DEF Odds!HistoricalConsensus, p
  <2>2. \A reason : Odds!Unavailable(reason).reason = reason /\ Odds!Unavailable(reason).pairs = {}
    BY DEF Odds!Unavailable
  <2>3. p.status \in {"unavailable", "empty", "invalid", "returned"}  BY <1>4 DEF Odds!Status
  <2>4. CASE p.status # "returned"  BY <2>1, <2>2, <2>3, <2>4
  <2>5. CASE p.status = "returned"
    <3>1. atLine = AtLine(Odds!Quotes(r), player, line)  BY <1>5, <2>5 DEF AtLine
    <3>2. ofPlayer = {} => atLine = {}  OBVIOUS
    <3>3. atLine = {} => answer = {}  BY <1>6, <3>1
    <3>4. answer = Odds!Consensus(atLine)  BY <3>1
    <3> HIDE DEF atLine, ofPlayer, answer
    <3>5. CASE answer = {}  BY <2>1, <2>2, <2>5, <3>4, <3>5
    <3>6. CASE answer # {}
      <4>1. a = [reason |-> "available", pairs |-> answer]
        BY <2>1, <2>5, <3>2, <3>3, <3>4, <3>6
      <4>2. QED  BY <2>5, <4>1
    <3>7. QED  BY <3>5, <3>6
  <2>6. QED  BY <2>4, <2>5
<1>8. p.status # "returned" => offered = {}  BY <1>3, <1>4, <1>6, OfferedIsReturned
<1> HIDE DEF a, offered, answer
<1>9. /\ {pair.book : pair \in a.pairs} = {pair.book : pair \in offered}
      /\ \A pair \in a.pairs :
           \E q \in offered : q.book = pair.book /\ q.over = pair.over /\ q.under = pair.under
  <2>1. CASE p.status = "returned"  BY <1>6, <1>7, <2>1
  <2>2. CASE p.status # "returned"  BY <1>7, <1>8, <2>2
  <2>3. QED  BY <2>1, <2>2
<1>10. QED  BY <1>4, <1>7, <1>9 DEF a, offered, p, r

\* A question about a moment in the past never fails for its times and is answered with what
\* the provider offered then (historicalOddsQuery.ts): each bookmaker with a price both ways,
\* and its two prices of one offer, although observations of one content share their quotes
\* and are stored in any order (oddsSnapshot.ts, oddsSnapshotRepo.ts).  For any finite
\* responses, names, lines and players.
THEOREM PastIsAnswered ==
  ASSUME ResponsesGiven  PROVE Spec => []EvidenceTrue
<1> DEFINE Inv == part = "evidence" => EvidenceInv
<1>1. Init => Inv
  <2> SUFFICES ASSUME Init PROVE EvidenceInv  OBVIOUS
  <2>1. /\ now = 0 /\ captures = [o \in Observations |-> None] /\ evidence = {} /\ quoteSets = {}
    BY DEF Init, Odds!EInit
  <2>2. QED  BY <2>1, FS_EmptySet DEF EvidenceInv, By
<1>2. Inv /\ [Next]_vars => Inv'
  <2> SUFFICES ASSUME part = "evidence", EvidenceInv, [Next]_vars  PROVE EvidenceInv'
    BY DEF Next, vars
  <2>1. Odds!ENext \/ UNCHANGED Odds!evidenceVars  BY DEF Next, vars, toolVars, Odds!evidenceVars, evidenceVars
  <2>2. QED  BY <2>1, EvidenceInvStep
<1>3. Inv => EvidenceTrue
  <2> SUFFICES ASSUME part = "evidence", EvidenceInv PROVE Odds!EvidenceTrue  BY DEF EvidenceTrue
  <2>1. QED  BY SMTT(20), AnswerTrue DEF Odds!EvidenceTrue
<1>4. QED  BY <1>1, <1>2, <1>3, PTL DEF Spec
-----------------------------------------------------------------------------
(***************************************************************************)
(* Schedules.  The instant of a wall clock shows that wall clock, and      *)
(* midnights divide the instants as they divide the wall clocks; dues are  *)
(* strictly in order, and each due of a priority target is the next one of *)
(* the due before it.                                                      *)
(***************************************************************************)
\* The wall clock is behind, and more so after the change; no midnight is shown twice; a
\* game begins at six in the morning at the earliest.
ScheduleGiven ==
  /\ Change \in Int /\ WeekOne \in Int /\ Summer \in Nat /\ Winter \in Nat /\ Summer <= Winter
  /\ \A d \in Int : ~(Change - Winter < d * 96 /\ d * 96 < Change - Summer)
  /\ \A k \in Kickoffs : k \in Int /\ Schedule!Instant(Schedule!CalendarDay(k) * 96) <= k - 24
  /\ EveningHours \subseteq 0..23 /\ Activations \subseteq Int
  /\ FarInterval \in Nat \ {0} /\ ActiveInterval \in Nat \ {0}

\* The games of the run, and clocks that change by an hour at two on a Sunday morning, are such.
LEMMA RunScheduleGiven ==
  ASSUME Change = 504, Summer = 16, Winter = 20, WeekOne = 0, EveningHours \subseteq 0..23,
         Activations \subseteq Int, FarInterval \in Nat \ {0}, ActiveInterval \in Nat \ {0}
  PROVE  ScheduleGiven
<1>1. \A d \in Int : ~(Change - Winter < d * 96 /\ d * 96 < Change - Summer)  OBVIOUS
<1>2. ASSUME NEW k \in Kickoffs
      PROVE  k \in Int /\ Schedule!Instant(Schedule!CalendarDay(k) * 96) <= k - 24
  <2>1. PICK d \in 0..13, h \in {38, 52, 65, 81, 88} :
          k = d * 96 + h + (IF d < 5 THEN Summer ELSE Winter)
    BY DEF Kickoffs
  <2>2. h \in 38..88 /\ d \in Int  OBVIOUS
  <2>3. PICK w \in Int : w = d * 96  BY <2>2
  <2>4. k \in Int /\ Schedule!Wall(k) = w + h
    BY <2>1, <2>2, <2>3 DEF Schedule!Wall, Schedule!Offset
  <2>5. Schedule!CalendarDay(k) = d
    BY <2>2, <2>3, <2>4 DEF Schedule!CalendarDay, Schedule!Day, Schedule!Hour
  <2>6. Schedule!Instant(w) <= k - 24
    BY <2>1, <2>2, <2>3 DEF Schedule!Instant, Schedule!Offset
  <2>7. QED  BY <2>3, <2>4, <2>5, <2>6
<1>3. QED  BY <1>1, <1>2 DEF ScheduleGiven

LEMMA InstantShowsWall ==
  ASSUME ScheduleGiven, NEW w \in Int
  PROVE  /\ Schedule!Instant(w) \in Int /\ Schedule!Wall(Schedule!Instant(w)) = w
         /\ w + Summer <= Schedule!Instant(w) /\ Schedule!Instant(w) <= w + Winter
BY DEF ScheduleGiven, Schedule!Instant, Schedule!Wall, Schedule!Offset

LEMMA MidnightDivides ==
  ASSUME ScheduleGiven, NEW d \in Int, NEW t \in Int
  PROVE  Schedule!Instant(d * 96) <= t <=> d * 96 <= Schedule!Wall(t)
<1>1. PICK w \in Int : w = d * 96  OBVIOUS
<1>2. ~(Change - Winter < w /\ w < Change - Summer)  BY <1>1 DEF ScheduleGiven
<1>3. Schedule!Instant(w) <= t <=> w <= Schedule!Wall(t)
  BY <1>2 DEF ScheduleGiven, Schedule!Instant, Schedule!Wall, Schedule!Offset
<1>4. QED  BY <1>1, <1>3

LEMMA DayHasMidnight ==
  ASSUME ScheduleGiven, NEW t \in Int
  PROVE  LET day == Schedule!CalendarDay(t)
         IN day \in Int /\ day * 96 <= Schedule!Wall(t) /\ Schedule!Wall(t) < (day + 1) * 96
<1>1. Schedule!Wall(t) \in Int  BY DEF ScheduleGiven, Schedule!Wall, Schedule!Offset
<1>2. Schedule!CalendarDay(t) = Schedule!Wall(t) \div 96
  BY DEF Schedule!CalendarDay, Schedule!Day, Schedule!Hour
<1>3. QED  BY <1>1, <1>2

\* The Tuesday of an instant's week.
Tuesday(t) == WeekOne + (Schedule!Week(t) - 1) * 7
LEMMA TuesdayIsBefore ==
  ASSUME ScheduleGiven, NEW t \in Int
  PROVE  Tuesday(t) \in Int /\ Tuesday(t) <= Schedule!CalendarDay(t)
         /\ Schedule!CalendarDay(t) < Tuesday(t) + 7
<1>1. Schedule!CalendarDay(t) \in Int  BY DayHasMidnight
<1>2. QED  BY <1>1 DEF Tuesday, Schedule!Week, ScheduleGiven

LEMMA WindowOfWeek ==
  ASSUME ScheduleGiven, NEW t \in Int
  PROVE  LET window == Schedule!SlateWindow(t)
         IN /\ window.start = Schedule!Instant(Tuesday(t) * 96)
            /\ window.end = Schedule!Instant((Tuesday(t) + 7) * 96)
            /\ Schedule!CalendarDay(window.start) = Tuesday(t)
            /\ Schedule!InSlateWindow(t, window)
<1> DEFINE window == Schedule!SlateWindow(t)
<1>1. /\ window.start = Schedule!Instant(Tuesday(t) * 96)
      /\ window.end = Schedule!Instant((Tuesday(t) + 7) * 96)
  BY DEF Schedule!SlateWindow, Tuesday, Schedule!Day, Schedule!Hour
<1>2. /\ Tuesday(t) \in Int /\ Tuesday(t) <= Schedule!CalendarDay(t)
      /\ Schedule!CalendarDay(t) < Tuesday(t) + 7
  BY TuesdayIsBefore
<1>3. Schedule!CalendarDay(window.start) = Tuesday(t)
  <2>1. PICK w \in Int : w = Tuesday(t) * 96  BY <1>2
  <2>2. Schedule!CalendarDay(window.start) = w \div 96
    BY <1>1, <2>1, InstantShowsWall DEF Schedule!CalendarDay, Schedule!Day, Schedule!Hour
  <2>3. QED  BY <1>2, <2>1, <2>2
<1>4. window.start <= t
  <2>1. Tuesday(t) * 96 <= Schedule!Wall(t)  
    <3>1. Schedule!CalendarDay(t) * 96 <= Schedule!Wall(t) /\ Schedule!CalendarDay(t) \in Int  BY DayHasMidnight
    <3>2. Schedule!Wall(t) \in Int  BY DEF ScheduleGiven, Schedule!Wall, Schedule!Offset
    <3>3. QED  BY <1>2, <3>1, <3>2
  <2>2. QED  BY <1>1, <1>2, <2>1, MidnightDivides
<1>5. t < window.end
  <2>1. ~((Tuesday(t) + 7) * 96 <= Schedule!Wall(t))
    <3>1. Schedule!Wall(t) < (Schedule!CalendarDay(t) + 1) * 96 /\ Schedule!CalendarDay(t) \in Int
      BY DayHasMidnight
    <3>2. Schedule!Wall(t) \in Int  BY DEF ScheduleGiven, Schedule!Wall, Schedule!Offset
    <3>3. QED  BY <1>2, <3>1, <3>2
  <2>2. Tuesday(t) + 7 \in Int /\ (Tuesday(t) + 7) * 96 \in Int  BY <1>2
  <2>3. ~(window.end <= t) /\ window.end \in Int  BY <1>1, <2>1, <2>2, MidnightDivides, InstantShowsWall
  <2>4. QED  BY <2>3
<1>6. QED  BY <1>1, <1>3, <1>4, <1>5 DEF Schedule!InSlateWindow

\* The elements of a finite set of numbers in order.
Rank(S, t) == Cardinality({u \in S : u <= t})
LEMMA RankGrows ==
  ASSUME NEW S \in SUBSET Int, IsFiniteSet(S), NEW t \in S
  PROVE  /\ Rank(S, t) \in 1..Cardinality(S)
         /\ \A u \in S : u < t => Rank(S, u) < Rank(S, t)
<1> DEFINE T(x) == {u \in S : u <= x}
<1>1. \A x \in S : IsFiniteSet(T(x)) /\ Cardinality(T(x)) \in Nat
  <2>1. \A x \in S : IsFiniteSet(T(x))  BY FS_Subset
  <2>2. QED  BY <2>1, FS_CardinalityType
<1>2. Cardinality(T(t)) # 0 /\ Cardinality(T(t)) <= Cardinality(S) /\ Cardinality(S) \in Nat
  BY <1>1, FS_EmptySet, FS_Subset, FS_CardinalityType
<1>3. ASSUME NEW u \in S, u < t PROVE Cardinality(T(u)) < Cardinality(T(t))
  <2>0. t \in Int /\ u \in Int /\ \A x \in S : x \in Int  OBVIOUS
  <2>1. T(u) \subseteq T(t) /\ t \in T(t) /\ t \notin T(u)
    <3>1. \A x \in S : x <= u => x <= t  BY <1>3, <2>0
    <3>2. t <= t /\ ~(t <= u)  BY <1>3, <2>0
    <3>3. QED  BY <3>1, <3>2
  <2>2. Cardinality(T(u)) <= Cardinality(T(t)) /\ Cardinality(T(t)) # Cardinality(T(u))
    <3> HIDE DEF T
    <3>1. QED  BY <1>1, <2>1, FS_Subset
  <2>3. QED  BY <1>1, <2>2
<1>4. QED  BY <1>1, <1>2, <1>3 DEF Rank

LEMMA Ordered ==
  ASSUME NEW S \in SUBSET Int, IsFiniteSet(S)
  PROVE  LET s == Schedule!InOrder(S)
             n == Cardinality(S)
         IN /\ n \in Nat /\ s \in Seq(S) /\ Len(s) = n
            /\ \A i, j \in 1..n : i < j => s[i] < s[j]
            /\ \A t \in S : Rank(S, t) \in 1..n /\ s[Rank(S, t)] = t
<1> DEFINE s == Schedule!InOrder(S)
           n == Cardinality(S)
           f == [t \in S |-> Rank(S, t)]
<1>1. n \in Nat  BY FS_CardinalityType
<1>2. f \in Injection(S, 1..n)
  <2>1. \A t \in S : f[t] \in 1..n  BY RankGrows
  <2>2. \A t, u \in S : t # u => f[t] # f[u]
    <3> SUFFICES ASSUME NEW t \in S, NEW u \in S, u < t PROVE f[t] # f[u]  OBVIOUS
    <3>1. f[u] < f[t] /\ f[u] \in Int /\ f[t] \in Int  BY <2>1, RankGrows
    <3>2. QED  BY <3>1
  <2>3. QED  BY <2>1, <2>2 DEF Injection, IsInjective
<1>3. f \in Surjection(S, 1..n)
  <2>1. IsFiniteSet(1..n) /\ Cardinality(1..n) = n  BY <1>1, FS_Interval
  <2>2. QED  BY <1>2, <2>1, FS_Injection
<1>4. \A i \in 1..n : \E t \in S : Rank(S, t) = i  BY <1>3 DEF Surjection
<1>5. s = [i \in 1..n |-> CHOOSE t \in S : Rank(S, t) = i]
  BY DEF Schedule!InOrder, Rank, Schedule!Cardinality, Cardinality
<1>6. \A i \in 1..n : s[i] \in S /\ Rank(S, s[i]) = i  BY <1>4, <1>5
<1>7. s \in Seq(S) /\ Len(s) = n
  <2>1. s = [i \in 1..n |-> s[i]]  BY <1>5
  <2> HIDE DEF s, n
  <2>2. s \in [1..n -> S]  BY <1>6, <2>1
  <2>3. QED  BY <1>1, <2>2
<1> HIDE DEF s
<1>8. ASSUME NEW i \in 1..n, NEW j \in 1..n, i < j PROVE s[i] < s[j]
  <2>1. s[i] \in S /\ s[j] \in S /\ Rank(S, s[i]) = i /\ Rank(S, s[j]) = j  BY <1>6
  <2>2. s[i] \in Int /\ s[j] \in Int /\ i \in Int /\ j \in Int
    <3>1. \A x \in S : x \in Int  OBVIOUS
    <3>2. s[i] \in Int /\ s[j] \in Int  BY <2>1, <3>1
    <3>3. QED  BY <1>1, <3>2
  <2>3. s[j] <= s[i] => j <= i
    <3>1. s[j] < s[i] => j < i  BY <2>1, RankGrows
    <3>2. s[j] = s[i] => j = i  BY <2>1
    <3>3. QED  BY <2>2, <3>1, <3>2
  <2>4. QED  BY <1>8, <2>2, <2>3
<1>9. ASSUME NEW t \in S PROVE Rank(S, t) \in 1..n /\ s[Rank(S, t)] = t
  <2>1. Rank(S, t) \in 1..n  BY RankGrows
  <2>2. f[s[Rank(S, t)]] = f[t] /\ s[Rank(S, t)] \in S  BY <1>6, <2>1
  <2>3. QED  BY <1>2, <2>1, <2>2 DEF Injection, IsInjective
<1>10. QED  BY <1>1, <1>7, <1>8, <1>9 DEF s

\* What a schedule of dues looks like.
LEMMA CheckpointsOf ==
  ASSUME NEW dues \in Seq(Int), NEW kickoff
  PROVE  LET c == Schedule!Checkpoints(dues, kickoff)
             n == Len(dues)
         IN /\ Len(c) = n /\ n \in Nat
            /\ \A i \in 1..n : /\ c[i].due = dues[i]
                               /\ c[i].end = IF i = n THEN kickoff ELSE dues[i + 1]
<1>1. Schedule!Checkpoints(dues, kickoff) =
        [i \in 1..Len(dues) |-> [due |-> dues[i], end |-> IF i = Len(dues) THEN kickoff ELSE dues[i + 1]]]
  BY DEF Schedule!Checkpoints
<1>2. Len(dues) \in Nat  OBVIOUS
<1>3. Len(Schedule!Checkpoints(dues, kickoff)) = Len(dues)  BY <1>1, <1>2
<1> DEFINE n == Len(dues)
<1>4. ASSUME NEW i \in 1..n
      PROVE  /\ Schedule!Checkpoints(dues, kickoff)[i].due = dues[i]
             /\ Schedule!Checkpoints(dues, kickoff)[i].end = IF i = n THEN kickoff ELSE dues[i + 1]
  BY <1>1
<1>5. QED  BY <1>2, <1>3, <1>4

\* The evenings before the kickoff of a game, and the instants of its schedule.
Evening(d, hour) == Schedule!Instant(d * 96 + hour * 4)
EveningsOf(kickoff, hour) ==
  {t \in {Evening(d, hour) : d \in {e \in {Tuesday(kickoff) + m : m \in 0..5} :
                                      e < Schedule!CalendarDay(kickoff)}} : t < kickoff}
DuesOf(kickoff, hour) == EveningsOf(kickoff, hour) \cup {kickoff - 24, kickoff - 1}

LEMMA BaselineDues ==
  ASSUME ScheduleGiven, NEW kickoff \in Kickoffs, NEW hour
  PROVE  Schedule!PlanBaselineCheckpoints(kickoff, hour)
           = Schedule!Checkpoints(Schedule!InOrder(DuesOf(kickoff, hour)), kickoff)
<1>1. kickoff \in Int  BY DEF ScheduleGiven
<1>2. Schedule!CalendarDay(Schedule!SlateWindow(kickoff).start) = Tuesday(kickoff)
  BY <1>1, WindowOfWeek
<1>3. QED
  BY <1>2 DEF Schedule!PlanBaselineCheckpoints, DuesOf, EveningsOf, Evening, Schedule!EveningCheckpoints,
              Schedule!Day, Schedule!Hour

\* An evening comes before the last two checkpoints.
LEMMA EveningIsEarly ==
  ASSUME ScheduleGiven, NEW kickoff \in Kickoffs, NEW hour \in EveningHours, NEW d \in Int,
         Tuesday(kickoff) <= d, d < Schedule!CalendarDay(kickoff)
  PROVE  LET t == Evening(d, hour)
         IN /\ t \in Int /\ t < kickoff - 24
            /\ Schedule!Wall(t) = d * 96 + hour * 4
            /\ Schedule!Instant(Tuesday(kickoff) * 96) <= t
            /\ d * 96 + Summer <= t /\ t <= d * 96 + 96 + Winter
<1> DEFINE t == Evening(d, hour)
<1>1. kickoff \in Int /\ hour \in 0..23  BY DEF ScheduleGiven
<1>2. PICK w \in Int : w = d * 96 + hour * 4  BY <1>1
<1>3. d * 96 <= w /\ w < (d + 1) * 96  BY <1>1, <1>2
<1>4. /\ t \in Int /\ Schedule!Wall(t) = w
      /\ w + Summer <= t /\ t <= w + Winter
  BY <1>2, InstantShowsWall DEF Evening
<1> HIDE DEF t
<1>5. Tuesday(kickoff) \in Int /\ Schedule!CalendarDay(kickoff) \in Int
  BY <1>1, TuesdayIsBefore, DayHasMidnight
<1>6. Schedule!Instant(Tuesday(kickoff) * 96) <= t
  <2>1. Tuesday(kickoff) * 96 <= w  BY <1>2, <1>3, <1>5
  <2>2. QED  BY <1>4, <1>5, <2>1, MidnightDivides
<1>7. t < kickoff - 24
  <2>1. ~(Schedule!CalendarDay(kickoff) * 96 <= w)  BY <1>2, <1>3, <1>5
  <2>2. ~(Schedule!Instant(Schedule!CalendarDay(kickoff) * 96) <= t)
    BY <1>4, <1>5, <2>1, MidnightDivides
  <2>3. Schedule!Instant(Schedule!CalendarDay(kickoff) * 96) <= kickoff - 24  BY DEF ScheduleGiven
  <2>4. PICK m \in Int : m = Schedule!Instant(Schedule!CalendarDay(kickoff) * 96)
    <3>1. Schedule!CalendarDay(kickoff) * 96 \in Int  BY <1>5
    <3>2. QED  BY <3>1, InstantShowsWall
  <2>5. QED  BY <1>1, <1>4, <2>2, <2>3, <2>4
<1>8. d * 96 + Summer <= t /\ t <= d * 96 + 96 + Winter
  <2>1. Summer \in Int /\ Winter \in Int /\ d * 96 \in Int  BY DEF ScheduleGiven
  <2>2. PICK e \in Int : e = d * 96  OBVIOUS
  <2>3. e <= w /\ w < e + 96  BY <1>3, <2>2
  <2>4. QED  BY <1>4, <2>1, <2>2, <2>3
<1>9. QED  BY <1>2, <1>4, <1>6, <1>7, <1>8 DEF t

LEMMA DuesAreFinite ==
  ASSUME ScheduleGiven, NEW kickoff \in Kickoffs, NEW hour \in EveningHours
  PROVE  /\ kickoff \in Int
         /\ DuesOf(kickoff, hour) \in SUBSET Int /\ IsFiniteSet(DuesOf(kickoff, hour))
         /\ \A t \in EveningsOf(kickoff, hour) :
              t < kickoff - 24 /\ Schedule!Instant(Tuesday(kickoff) * 96) <= t
<1> DEFINE E == EveningsOf(kickoff, hour)
           lo == Tuesday(kickoff) * 96 + Summer
           hi == (Tuesday(kickoff) + 5) * 96 + 96 + Winter
<1>1. kickoff \in Int /\ Tuesday(kickoff) \in Int /\ lo \in Int /\ hi \in Int
  BY TuesdayIsBefore DEF ScheduleGiven
<1>2. ASSUME NEW t \in E
      PROVE  t \in lo..hi /\ t < kickoff - 24 /\ Schedule!Instant(Tuesday(kickoff) * 96) <= t
  <2>1. PICK m \in 0..5 : /\ Tuesday(kickoff) + m < Schedule!CalendarDay(kickoff)
                          /\ t = Evening(Tuesday(kickoff) + m, hour)
    BY DEF EveningsOf
  <2>2. PICK d \in Int : d = Tuesday(kickoff) + m  BY <1>1
  <2>3. Tuesday(kickoff) <= d /\ d <= Tuesday(kickoff) + 5  BY <1>1, <2>2
  <2>4. /\ t \in Int /\ t < kickoff - 24 /\ Schedule!Instant(Tuesday(kickoff) * 96) <= t
        /\ d * 96 + Summer <= t /\ t <= d * 96 + 96 + Winter
    BY <2>1, <2>2, <2>3, EveningIsEarly
  <2>5. lo <= d * 96 + Summer /\ d * 96 + 96 + Winter <= hi  BY <1>1, <2>3 DEF ScheduleGiven
  <2>6. d * 96 + Summer \in Int /\ d * 96 + 96 + Winter \in Int  BY DEF ScheduleGiven
  <2> HIDE DEF lo, hi
  <2>7. QED  BY <1>1, <2>4, <2>5, <2>6
<1> HIDE DEF lo, hi, E
<1>3. E \subseteq lo..hi  BY <1>2
<1>4. IsFiniteSet(E)  BY <1>1, <1>3, FS_Interval, FS_Subset
<1>5. IsFiniteSet({kickoff - 24}) /\ IsFiniteSet({kickoff - 1})  BY FS_Singleton
<1>6. IsFiniteSet({kickoff - 24, kickoff - 1})
  <2>1. {kickoff - 24, kickoff - 1} = {kickoff - 24} \cup {kickoff - 1}  OBVIOUS
  <2>2. IsFiniteSet({kickoff - 24} \cup {kickoff - 1})  BY <1>5, FS_AddElement
  <2>3. QED  BY <2>1, <2>2
<1>7. IsFiniteSet(E \cup {kickoff - 24, kickoff - 1})  BY <1>4, <1>6, FS_Union
<1>8. E \cup {kickoff - 24, kickoff - 1} \in SUBSET Int
  <2>1. \A t \in lo..hi : t \in Int  BY <1>1
  <2>2. kickoff - 24 \in Int /\ kickoff - 1 \in Int  BY <1>1
  <2>3. QED  BY <1>3, <2>1, <2>2
<1>9. QED  BY <1>1, <1>2, <1>7, <1>8 DEF E, DuesOf

\* A schedule of a baseline target.
LEMMA BaselineSound ==
  ASSUME ScheduleGiven, NEW kickoff \in Kickoffs, NEW hour \in EveningHours
  PROVE  LET S == Schedule!PlanBaselineCheckpoints(kickoff, hour)
             n == Len(S)
             window == Schedule!SlateWindow(kickoff)
         IN /\ \A i \in 1..n : S[i].due < S[i].end /\ S[i].end = IF i = n THEN kickoff ELSE S[i + 1].due
            /\ \A i \in 1..n : Schedule!InSlateWindow(S[i].due, window)
            /\ \A d \in Schedule!CalendarDay(window.start)..(Schedule!CalendarDay(kickoff) - 1) :
                 d < Schedule!CalendarDay(window.start) + 6 =>
                   \E i \in 1..(n - 2) : Schedule!Wall(S[i].due) = d * 96 + hour * 4
<1> DEFINE S == Schedule!PlanBaselineCheckpoints(kickoff, hour)
           D == DuesOf(kickoff, hour)
           s == Schedule!InOrder(D)
           n == Cardinality(D)
           window == Schedule!SlateWindow(kickoff)
<1>1. /\ kickoff \in Int /\ D \in SUBSET Int /\ IsFiniteSet(D)
      /\ \A t \in EveningsOf(kickoff, hour) :
           t < kickoff - 24 /\ Schedule!Instant(Tuesday(kickoff) * 96) <= t
  BY DuesAreFinite
<1>2. \A t \in D : t \in Int /\ t < kickoff /\ Schedule!Instant(Tuesday(kickoff) * 96) <= t
  <2>1. \A t \in D : t \in Int  BY <1>1
  <2>2. Schedule!Instant(Tuesday(kickoff) * 96) <= kickoff - 24
    <3>1. /\ Schedule!CalendarDay(kickoff) \in Int /\ Tuesday(kickoff) \in Int
          /\ Tuesday(kickoff) <= Schedule!CalendarDay(kickoff)
      BY <1>1, DayHasMidnight, TuesdayIsBefore
    <3>2. Schedule!Instant(Schedule!CalendarDay(kickoff) * 96) <= kickoff - 24  BY DEF ScheduleGiven
    <3>3. Schedule!CalendarDay(kickoff) * 96 <= Schedule!Wall(kickoff - 24)
      BY <1>1, <3>1, <3>2, MidnightDivides
    <3>4. Schedule!Wall(kickoff - 24) \in Int
      BY <1>1 DEF ScheduleGiven, Schedule!Wall, Schedule!Offset
    <3>5. Tuesday(kickoff) * 96 <= Schedule!Wall(kickoff - 24)  BY <3>1, <3>3, <3>4
    <3>6. QED  BY <1>1, <3>1, <3>5, MidnightDivides
  <2>3. Schedule!Instant(Tuesday(kickoff) * 96) \in Int
    <3>1. Tuesday(kickoff) * 96 \in Int  BY <1>1, TuesdayIsBefore
    <3>2. QED  BY <3>1, InstantShowsWall
  <2>4. ASSUME NEW t \in D PROVE t < kickoff /\ Schedule!Instant(Tuesday(kickoff) * 96) <= t
    <3>1. CASE t \in EveningsOf(kickoff, hour)  BY <1>1, <2>1, <3>1
    <3>2. CASE t \in {kickoff - 24, kickoff - 1}  BY <1>1, <2>2, <2>3, <3>2
    <3>3. QED  BY <3>1, <3>2 DEF DuesOf
  <2>5. QED  BY <2>1, <2>4
<1>3. /\ n \in Nat /\ s \in Seq(D) /\ Len(s) = n /\ \A i, j \in 1..n : i < j => s[i] < s[j]
      /\ \A t \in D : Rank(D, t) \in 1..n /\ s[Rank(D, t)] = t
  BY <1>1, Ordered
<1>4. s \in Seq(Int)  BY <1>1, <1>3
<1> HIDE DEF D, s, n
<1>5. /\ Len(S) = n
      /\ \A i \in 1..n : S[i].due = s[i] /\ S[i].end = IF i = n THEN kickoff ELSE s[i + 1]
  <2>1. S = Schedule!Checkpoints(s, kickoff)  BY BaselineDues DEF D, s
  <2>2. Len(s) = n  BY <1>3
  <2> HIDE DEF S
  <2>3. QED  BY <1>4, <2>1, <2>2, CheckpointsOf
<1> HIDE DEF S
<1>6. \A i \in 1..n : s[i] \in D  BY <1>3
<1>7. ASSUME NEW i \in 1..n
      PROVE  S[i].due < S[i].end /\ S[i].end = IF i = n THEN kickoff ELSE S[i + 1].due
  <2>1. CASE i = n  BY <1>2, <1>5, <1>6, <2>1
  <2>2. CASE i # n
    <3>1. i + 1 \in 1..n /\ i < i + 1  BY <1>3, <2>2
    <3>2. s[i] < s[i + 1]  BY <1>3, <3>1
    <3>3. QED  BY <1>5, <2>2, <3>1, <3>2
  <2>3. QED  BY <2>1, <2>2
<1>8. ASSUME NEW i \in 1..n PROVE Schedule!InSlateWindow(S[i].due, window)
  <2>1. /\ window.start = Schedule!Instant(Tuesday(kickoff) * 96)
        /\ Schedule!InSlateWindow(kickoff, window)
    BY <1>1, WindowOfWeek
  <2>2. window.end \in Int
    <3>1. (Tuesday(kickoff) + 7) * 96 \in Int  BY <1>1, TuesdayIsBefore
    <3>2. QED  BY <1>1, <3>1, InstantShowsWall, WindowOfWeek
  <2>3. s[i] \in Int /\ s[i] < kickoff /\ window.start <= s[i]  BY <1>2, <1>6, <2>1
  <2>4. kickoff < window.end  BY <2>1 DEF Schedule!InSlateWindow
  <2> HIDE DEF window
  <2>5. s[i] < window.end  BY <1>1, <2>2, <2>3, <2>4
  <2>6. QED  BY <1>5, <2>3, <2>5 DEF Schedule!InSlateWindow
<1>9. ASSUME NEW d \in Schedule!CalendarDay(window.start)..(Schedule!CalendarDay(kickoff) - 1),
             d < Schedule!CalendarDay(window.start) + 6
      PROVE  \E i \in 1..(n - 2) : Schedule!Wall(S[i].due) = d * 96 + hour * 4
  <2> DEFINE t == Evening(d, hour)
  <2>1. Schedule!CalendarDay(window.start) = Tuesday(kickoff)  BY <1>1, WindowOfWeek
  <2>2. Tuesday(kickoff) \in Int /\ Schedule!CalendarDay(kickoff) \in Int
    BY <1>1, TuesdayIsBefore, DayHasMidnight
  <2>3. d \in Int /\ Tuesday(kickoff) <= d /\ d < Schedule!CalendarDay(kickoff) /\ d < Tuesday(kickoff) + 6
    BY <1>9, <2>1, <2>2
  <2>4. t \in Int /\ t < kickoff - 24 /\ Schedule!Wall(t) = d * 96 + hour * 4  BY <2>3, EveningIsEarly
  <2>5. t \in EveningsOf(kickoff, hour)
    <3>1. PICK m \in 0..5 : d = Tuesday(kickoff) + m
      <4>1. d - Tuesday(kickoff) \in 0..5 /\ d = Tuesday(kickoff) + (d - Tuesday(kickoff))  BY <2>2, <2>3
      <4>2. QED  BY <4>1
    <3>2. t < kickoff  BY <1>1, <2>4
    <3>3. QED  BY <2>3, <3>1, <3>2 DEF EveningsOf
  <2> HIDE DEF t
  <2>6. t \in D  BY <2>5 DEF D, DuesOf
  <2>7. Rank(D, t) \in 1..n /\ s[Rank(D, t)] = t  BY <1>3, <2>6
  <2>8. Rank(D, t) <= n - 2
    <3>1. {kickoff - 24, kickoff - 1} \subseteq D  BY DEF D, DuesOf
    <3>2. Rank(D, t) < Rank(D, kickoff - 24)  BY <1>1, <2>4, <2>6, <3>1, RankGrows
    <3>3. Rank(D, kickoff - 24) < Rank(D, kickoff - 1)  BY <1>1, <3>1, RankGrows
    <3>4. Rank(D, kickoff - 24) \in 1..n /\ Rank(D, kickoff - 1) \in 1..n  BY <1>3, <3>1
    <3>5. QED  BY <1>3, <2>7, <3>2, <3>3, <3>4
  <2>9. Rank(D, t) \in 1..(n - 2)  BY <1>3, <2>7, <2>8
  <2>10. QED  BY <1>5, <2>4, <2>7, <2>9
<1>10. QED  BY <1>5, <1>7, <1>8, <1>9 DEF S

(***************************************************************************)
(* The dues of a priority target, from its activation a to the kickoff k.  *)
(***************************************************************************)
DuesFrom(f, k, t) ==
  IF Schedule!NextDue(t, k) < k THEN <<t>> \o f[Schedule!NextDue(t, k)] ELSE <<t>>

LEMMA NextDueIsLater ==
  ASSUME ScheduleGiven, NEW k \in Int, NEW t \in Int
  PROVE  /\ Schedule!NextDue(t, k) \in Int /\ t < Schedule!NextDue(t, k)
         /\ Schedule!NextDue(t, k) - t <= IF t < k - 24 THEN FarInterval ELSE ActiveInterval
         /\ t < k - 24 => Schedule!NextDue(t, k) < k
BY DEF ScheduleGiven, Schedule!NextDue, Schedule!Hour

\* There are such dues: from the last instant on, each is made of the later ones.
LEMMA DuesExist ==
  ASSUME ScheduleGiven, NEW a \in Int, NEW k \in Int, a < k
  PROVE  \E f : f = [t \in a..k |-> DuesFrom(f, k, t)]
<1> DEFINE Good(m) == \E f : /\ f = [t \in a..k |-> f[t]]
                             /\ \A t \in (k - m)..k : f[t] = DuesFrom(f, k, t)
           wrong == {m \in 0..(k - a) : ~Good(m)}
<1>1. Good(0)
  <2> DEFINE f == [t \in a..k |-> <<t>>]
  <2>1. f = [t \in a..k |-> f[t]]  OBVIOUS
  <2>2. ASSUME NEW t \in (k - 0)..k PROVE f[t] = DuesFrom(f, k, t)
    <3>1. t = k /\ t \in a..k  BY <2>2
    <3>2. Schedule!NextDue(k, k) \in Int /\ k < Schedule!NextDue(k, k)  BY NextDueIsLater
    <3>3. DuesFrom(f, k, t) = <<t>>  BY <3>1, <3>2 DEF DuesFrom
    <3>4. QED  BY <3>1, <3>3
  <2> HIDE DEF f
  <2>3. QED  BY <2>1, <2>2
<1>2. ASSUME NEW m \in 0..(k - a), m # 0, Good(m - 1) PROVE Good(m)
  <2>1. PICK f : /\ f = [t \in a..k |-> f[t]]
                 /\ \A t \in (k - (m - 1))..k : f[t] = DuesFrom(f, k, t)
    BY <1>2
  <2> DEFINE g == [f EXCEPT ![k - m] = DuesFrom(f, k, k - m)]
  <2>2. k - m \in a..k /\ k - m \in Int  BY <1>2
  <2>3. DOMAIN f = a..k  BY <2>1
  <2>4. /\ g = [t \in a..k |-> g[t]] /\ g[k - m] = DuesFrom(f, k, k - m)
        /\ \A t \in a..k : t # k - m => g[t] = f[t]
    BY <2>2, <2>3
  <2> HIDE DEF g
  <2>5. ASSUME NEW t \in (k - m)..k PROVE DuesFrom(g, k, t) = DuesFrom(f, k, t)
    <3>1. t \in Int /\ k - m <= t /\ a <= t  BY <1>2, <2>2
    <3>2. Schedule!NextDue(t, k) \in Int /\ t < Schedule!NextDue(t, k)  BY <3>1, NextDueIsLater
    <3>3. CASE Schedule!NextDue(t, k) < k
      <4>1. Schedule!NextDue(t, k) \in a..k /\ Schedule!NextDue(t, k) # k - m
        BY <1>2, <2>2, <3>1, <3>2, <3>3
      <4>2. g[Schedule!NextDue(t, k)] = f[Schedule!NextDue(t, k)]  BY <2>4, <4>1
      <4>3. QED  BY <4>2 DEF DuesFrom
    <3>4. CASE ~(Schedule!NextDue(t, k) < k)  BY <3>4 DEF DuesFrom
    <3>5. QED  BY <3>3, <3>4
  <2>6. ASSUME NEW t \in (k - m)..k PROVE g[t] = DuesFrom(g, k, t)
    <3>1. CASE t = k - m  BY <2>4, <2>5, <3>1
    <3>2. CASE t # k - m
      <4>1. t \in (k - (m - 1))..k /\ t \in a..k  BY <1>2, <2>2, <3>2
      <4>2. QED  BY <2>1, <2>4, <2>5, <3>2, <4>1
    <3>3. QED  BY <3>1, <3>2
  <2>7. QED  BY <2>4, <2>6
<1> HIDE DEF Good
<1>3. wrong = {}
  <2> SUFFICES ASSUME wrong # {} PROVE FALSE  OBVIOUS
  <2>1. wrong \in SUBSET Nat  OBVIOUS
  <2>2. PICK m \in wrong : \A l \in wrong : m <= l  BY <2>1, LeastNumber
  <2>3. m \in 0..(k - a) /\ m # 0 /\ ~Good(m)  BY <1>1, <2>2
  <2>4. m - 1 \in 0..(k - a) /\ m - 1 \notin wrong  BY <2>2, <2>3
  <2>5. QED  BY <1>2, <2>3, <2>4
<1>4. k - a \in 0..(k - a)  OBVIOUS
<1>5. Good(k - a)  BY <1>3, <1>4
<1>6. PICK f : /\ f = [t \in a..k |-> f[t]]
               /\ \A t \in (k - (k - a))..k : f[t] = DuesFrom(f, k, t)
  BY <1>5 DEF Good
<1>7. k - (k - a) = a  OBVIOUS
<1>8. \A t \in a..k : f[t] = DuesFrom(f, k, t)  BY <1>6, <1>7
<1>9. f = [t \in a..k |-> DuesFrom(f, k, t)]  BY <1>6, <1>8
<1>10. QED  BY <1>9

\* Each due is the next one of the due before it, and the kickoff comes after the last.
DueRight(s, k, t) ==
  /\ s \in Seq(Int) /\ Len(s) >= 1 /\ s[1] = t
  /\ \A i \in 1..Len(s) :
       /\ s[i] < k
       /\ IF i = Len(s) THEN k <= Schedule!NextDue(s[i], k) ELSE s[i + 1] = Schedule!NextDue(s[i], k)

LEMMA DuesFollow ==
  ASSUME ScheduleGiven, NEW a \in Int, NEW k \in Int, a < k, NEW f,
         f = [t \in a..k |-> DuesFrom(f, k, t)]
  PROVE  DueRight(f[a], k, a)
<1> DEFINE wrong == {m \in Nat : m \in 1..(k - a) /\ ~DueRight(f[k - m], k, k - m)}
<1>0. \A t \in a..k : f[t] = DuesFrom(f, k, t)
  <2> DEFINE h == [t \in a..k |-> DuesFrom(f, k, t)]
  <2>1. \A t \in a..k : h[t] = DuesFrom(f, k, t)  OBVIOUS
  <2>2. f = h  OBVIOUS
  <2> HIDE DEF h
  <2>3. QED  BY <2>1, <2>2
<1>1. ASSUME NEW t \in Int, a <= t, t < k,
             Schedule!NextDue(t, k) < k => DueRight(f[Schedule!NextDue(t, k)], k, Schedule!NextDue(t, k))
      PROVE  DueRight(f[t], k, t)
  <2> DEFINE next == Schedule!NextDue(t, k)
  <2>1. f[t] = DuesFrom(f, k, t)
    <3>1. t \in a..k  BY <1>1
    <3>2. QED  BY <1>0, <3>1
  <2>2. next \in Int /\ t < next  BY NextDueIsLater
  <2>3. CASE ~(next < k)
    <3>1. f[t] = <<t>>  BY <2>1, <2>3 DEF DuesFrom
    <3> HIDE DEF next
    <3>2. f[t] \in Seq(Int) /\ Len(f[t]) = 1 /\ f[t][1] = t
      <4>1. <<t>> \in Seq(Int) /\ Len(<<t>>) = 1 /\ <<t>>[1] = t  OBVIOUS
      <4>2. QED  BY <3>1, <4>1
    <3>3. \A i \in 1..Len(f[t]) : i = 1
      <4>1. \A i \in 1..1 : i = 1  OBVIOUS
      <4>2. QED  BY <3>2, <4>1
    <3>4. k <= next  BY <2>2, <2>3
    <3>5. QED  BY <1>1, <3>2, <3>3, <3>4 DEF DueRight, next
  <2>4. CASE next < k
    <3> DEFINE r == f[next]
               s == <<t>> \o r
    <3>1. f[t] = s  BY <2>1, <2>4 DEF DuesFrom
    <3>2. DueRight(r, k, next)  BY <1>1, <2>4
    <3> HIDE DEF r
    <3>3. r \in Seq(Int) /\ Len(r) >= 1 /\ r[1] = next /\ Len(r) \in Nat  BY <3>2 DEF DueRight
    <3>4. <<t>> \in Seq(Int) /\ Len(<<t>>) = 1 /\ <<t>>[1] = t  OBVIOUS
    <3>5. /\ s \in Seq(Int) /\ Len(s) = 1 + Len(r)
          /\ \A i \in 1..(1 + Len(r)) : s[i] = IF i <= 1 THEN t ELSE r[i - 1]
      <4>1. /\ s \in Seq(Int) /\ Len(s) = Len(<<t>>) + Len(r)
            /\ \A i \in 1..(Len(<<t>>) + Len(r)) : s[i] = IF i <= Len(<<t>>) THEN <<t>>[i] ELSE r[i - Len(<<t>>)]
        BY <3>3, <3>4, ConcatProperties
      <4> HIDE DEF s
      <4>2. ASSUME NEW i \in 1..(1 + Len(r)) PROVE s[i] = IF i <= 1 THEN t ELSE r[i - 1]
        <5>1. i <= 1 => i = 1  BY <3>3
        <5>2. s[i] = IF i <= 1 THEN <<t>>[i] ELSE r[i - 1]  BY <3>3, <3>4, <4>1
        <5>3. QED  BY <3>4, <5>1, <5>2
      <4>3. QED  BY <3>4, <4>1, <4>2
    <3> HIDE DEF s
    <3>6. ASSUME NEW i \in 1..Len(s)
          PROVE  /\ s[i] < k
                 /\ IF i = Len(s) THEN k <= Schedule!NextDue(s[i], k)
                                  ELSE s[i + 1] = Schedule!NextDue(s[i], k)
      <4>1. CASE i = 1
        <5>1. s[1] = t /\ s[2] = next /\ i # Len(s)  BY <3>3, <3>5, <4>1
        <5>2. QED  BY <1>1, <4>1, <5>1
      <4>2. CASE i # 1
        <5>1. i - 1 \in 1..Len(r) /\ s[i] = r[i - 1] /\ (i = Len(s) <=> i - 1 = Len(r))
          BY <3>3, <3>5, <4>2
        <5>2. i # Len(s) => s[i + 1] = r[(i - 1) + 1]
          <6>1. i # Len(s) => i + 1 \in 1..(1 + Len(r)) /\ ~(i + 1 <= 1) /\ (i + 1) - 1 = (i - 1) + 1
            BY <3>3, <3>5, <4>2
          <6>2. QED  BY <3>5, <6>1
        <5>3. /\ r[i - 1] < k
              /\ IF i - 1 = Len(r) THEN k <= Schedule!NextDue(r[i - 1], k)
                                   ELSE r[(i - 1) + 1] = Schedule!NextDue(r[i - 1], k)
          BY <3>2, <5>1 DEF DueRight
        <5>4. QED  BY <5>1, <5>2, <5>3
      <4>3. QED  BY <4>1, <4>2
    <3>7. Len(s) >= 1 /\ s[1] = t  BY <3>3, <3>5
    <3>8. QED  BY <3>1, <3>5, <3>6, <3>7 DEF DueRight
  <2>5. QED  BY <2>3, <2>4
<1>2. wrong = {}
  <2> SUFFICES ASSUME wrong # {} PROVE FALSE  OBVIOUS
  <2>1. wrong \in SUBSET Nat  OBVIOUS
  <2>2. PICK m \in wrong : \A l \in wrong : m <= l  BY <2>1, LeastNumber
  <2>3. m \in 1..(k - a) /\ ~DueRight(f[k - m], k, k - m)  BY <2>2
  <2> DEFINE t == k - m
             next == Schedule!NextDue(t, k)
  <2>4. t \in Int /\ a <= t /\ t < k  BY <2>3
  <2>5. next \in Int /\ t < next  BY <2>4, NextDueIsLater
  <2>6. ASSUME next < k PROVE DueRight(f[next], k, next)
    <3> HIDE DEF next
    <3>1. k - next \in 1..(k - a) /\ k - next < m /\ k - next \in Nat /\ m \in Int  BY <2>3, <2>4, <2>5, <2>6
    <3>2. k - next \notin wrong
      <4> SUFFICES ASSUME k - next \in wrong PROVE FALSE  OBVIOUS
      <4> HIDE DEF wrong
      <4>1. m <= k - next  BY <2>2
      <4>2. QED  BY <3>1, <4>1
    <3>3. k - (k - next) = next  BY <2>5
    <3>4. DueRight(f[k - (k - next)], k, k - (k - next))  BY <3>1, <3>2
    <3>5. QED  BY <3>3, <3>4
  <2>7. QED  BY <1>1, <2>3, <2>4, <2>6
<1>3. k - a \in 1..(k - a) /\ k - a \in Nat /\ k - (k - a) = a  OBVIOUS
<1>4. DueRight(f[k - (k - a)], k, k - (k - a))  BY <1>2, <1>3
<1>5. QED  BY <1>3, <1>4

\* A schedule of a priority target.
LEMMA PrioritySound ==
  ASSUME ScheduleGiven, NEW k \in Int, NEW a \in Int, a < k
  PROVE  LET S == Schedule!PlanPriorityCheckpoints(a, k)
             n == Len(S)
         IN /\ \A i \in 1..n : S[i].due < S[i].end /\ S[i].end = IF i = n THEN k ELSE S[i + 1].due
            /\ S[1].due = a
            /\ \A i \in 1..n :
                 S[i].end - S[i].due <= IF S[i].due < k - 24 THEN FarInterval ELSE ActiveInterval
<1> DEFINE S == Schedule!PlanPriorityCheckpoints(a, k)
           Body(f) == [t \in a..k |-> IF Schedule!NextDue(t, k) < k THEN <<t>> \o f[Schedule!NextDue(t, k)]
                                      ELSE <<t>>]
           g == CHOOSE f : f = Body(f)
           s == g[a]
           n == Len(s)
<1>1. S = Schedule!Checkpoints(s, k)  BY DEF Schedule!PlanPriorityCheckpoints
<1>2. g = Body(g)
  <2>1. PICK f : f = [t \in a..k |-> DuesFrom(f, k, t)]  BY DuesExist
  <2>2. f = Body(f)  BY <2>1, Zenon DEF DuesFrom
  <2>3. QED  BY <2>2, Zenon
<1> HIDE DEF g, S
<1>3. DueRight(s, k, a)
  <2>1. g = [t \in a..k |-> DuesFrom(g, k, t)]  BY <1>2 DEF DuesFrom
  <2>2. QED  BY <2>1, DuesFollow
<1> HIDE DEF s
<1>4. s \in Seq(Int) /\ n \in Nat /\ n >= 1 /\ s[1] = a  BY <1>3 DEF DueRight
<1>5. Len(S) = n /\ \A i \in 1..n : S[i].due = s[i] /\ S[i].end = IF i = n THEN k ELSE s[i + 1]
  BY <1>1, <1>4, CheckpointsOf
<1>6. ASSUME NEW i \in 1..n
      PROVE  /\ S[i].due < S[i].end /\ S[i].end = IF i = n THEN k ELSE S[i + 1].due
             /\ S[i].end - S[i].due <= IF S[i].due < k - 24 THEN FarInterval ELSE ActiveInterval
  <2> DEFINE next == Schedule!NextDue(s[i], k)
  <2>1. s[i] \in Int  BY <1>4
  <2>2. /\ next \in Int /\ s[i] < next /\ s[i] < k
        /\ next - s[i] <= IF s[i] < k - 24 THEN FarInterval ELSE ActiveInterval
        /\ s[i] < k - 24 => next < k
        /\ IF i = n THEN k <= next ELSE s[i + 1] = next
    BY <1>3, <2>1, NextDueIsLater DEF DueRight
  <2> HIDE DEF next
  <2>3. CASE i = n
    <3>1. S[i].due = s[i] /\ S[i].end = k  BY <1>5, <2>3
    <3>2. FarInterval \in Int /\ ActiveInterval \in Int  BY DEF ScheduleGiven
    <3>3. ~(s[i] < k - 24)  BY <2>1, <2>2, <2>3
    <3>4. next - s[i] <= ActiveInterval /\ k <= next  BY <2>2, <2>3, <3>3
    <3>5. k - s[i] <= ActiveInterval  BY <2>1, <2>2, <3>2, <3>4
    <3>6. QED  BY <2>2, <2>3, <3>1, <3>3, <3>5
  <2>4. CASE i # n
    <3>1. i + 1 \in 1..n  BY <1>4, <2>4
    <3>2. S[i].due = s[i] /\ S[i].end = next /\ S[i + 1].due = next  BY <1>5, <2>2, <2>4, <3>1
    <3>3. QED  BY <2>2, <2>4, <3>2
  <2>5. QED  BY <2>3, <2>4
<1>7. 1 \in 1..n  BY <1>4
<1>8. QED  BY <1>4, <1>5, <1>6, <1>7 DEF S

\* A schedule p is sound.
PlanSound(p) ==
  LET S == p.checkpoints
      n == Len(S)
      window == Schedule!SlateWindow(p.kickoff)
  IN p.kind # "none" =>
       /\ \A i \in 1..n : S[i].due < S[i].end /\ S[i].end = IF i = n THEN p.kickoff ELSE S[i + 1].due
       /\ Schedule!InSlateWindow(p.kickoff, window)
       /\ p.kind = "baseline" =>
            /\ \A i \in 1..n : Schedule!InSlateWindow(S[i].due, window)
            /\ \A d \in Schedule!CalendarDay(window.start)..(Schedule!CalendarDay(p.kickoff) - 1) :
                 d < Schedule!CalendarDay(window.start) + 6 =>
                   \E i \in 1..(n - 2) : Schedule!Wall(S[i].due) = d * 96 + p.from * 4
       /\ p.kind = "priority" =>
            /\ S[1].due = p.from
            /\ \A i \in 1..n :
                 S[i].end - S[i].due <= IF S[i].due < p.kickoff - 24 THEN FarInterval ELSE ActiveInterval

\* The windows of a game's checkpoints follow each other without gap or overlap up to the
\* kickoff, in the week that the game counts for; every evening has one at its hour, also when
\* the clocks change; and a priority target is never left longer than an interval (nflWeek.ts,
\* oddsCollectionPolicy.ts).  For any kickoffs from six in the morning on, evening hours,
\* activations and intervals, and for any change of the clocks that shows no midnight twice.
THEOREM GamesAreLookedAt ==
  ASSUME ScheduleGiven  PROVE Spec => []ScheduleSound
<1> DEFINE Inv == part = "schedule" => PlanSound(plan)
<1>1. Init => Inv
  <2>1. Init => plan.kind = "none"  BY DEF Init, Schedule!LInit
  <2>2. QED  BY <2>1 DEF PlanSound
<1>2. Inv /\ [Next]_vars => Inv'
  <2> SUFFICES ASSUME part = "schedule", PlanSound(plan), [Next]_vars  PROVE PlanSound(plan')
    BY DEF Next, vars, PlanSound
  <2>1. CASE plan' = plan  BY <2>1
  <2>2. ASSUME NEW k \in Kickoffs, NEW hour \in EveningHours, Schedule!PlanBaseline(k, hour)
        PROVE  PlanSound(plan')
    <3>1. PICK p : p = [kind |-> "baseline", kickoff |-> k, from |-> hour,
                        checkpoints |-> Schedule!PlanBaselineCheckpoints(k, hour)]
      OBVIOUS
    <3>2. plan' = p  BY <2>2, <3>1 DEF Schedule!PlanBaseline
    <3>3. /\ p.kind = "baseline" /\ p.kickoff = k /\ p.from = hour
          /\ p.checkpoints = Schedule!PlanBaselineCheckpoints(k, hour)
      BY <3>1
    <3>4. Schedule!InSlateWindow(k, Schedule!SlateWindow(k))  BY WindowOfWeek DEF ScheduleGiven
    <3>5. PlanSound(p)  BY <3>3, <3>4, BaselineSound DEF PlanSound
    <3>6. QED  BY <3>2, <3>5
  <2>3. ASSUME NEW k \in Kickoffs, NEW a \in Int, Schedule!PlanPriority(k, a)
        PROVE  PlanSound(plan')
    <3>1. PICK p : p = [kind |-> "priority", kickoff |-> k, from |-> a,
                        checkpoints |-> Schedule!PlanPriorityCheckpoints(a, k)]
      OBVIOUS
    <3>2. plan' = p /\ a < k  BY <2>3, <3>1 DEF Schedule!PlanPriority
    <3>3. /\ p.kind = "priority" /\ p.kickoff = k /\ p.from = a
          /\ p.checkpoints = Schedule!PlanPriorityCheckpoints(a, k)
      BY <3>1
    <3>4. k \in Int /\ Schedule!InSlateWindow(k, Schedule!SlateWindow(k))
      BY WindowOfWeek DEF ScheduleGiven
    <3>5. PlanSound(p)  BY <3>2, <3>3, <3>4, PrioritySound DEF PlanSound
    <3>6. QED  BY <3>2, <3>5
  <2>4. Schedule!LNext \/ plan' = plan  BY DEF Next, vars, toolVars
  <2>5. \A k \in Kickoffs, before \in Activations : k - before \in Int  BY DEF ScheduleGiven
  <2>6. QED  BY <2>1, <2>2, <2>3, <2>4, <2>5 DEF Schedule!LNext
<1>3. Inv => ScheduleSound
  BY DEF ScheduleSound, Schedule!ScheduleSound, PlanSound, Schedule!Day, Schedule!Hour
<1>4. QED  BY <1>1, <1>2, <1>3, PTL DEF Spec
=============================================================================
