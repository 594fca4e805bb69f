----------------------------- MODULE CapturePage -----------------------------
(***************************************************************************)
(* The capture page (review/capture.js) against the capture routes of the  *)
(* review server: one save in flight, scope reloads that may be answered   *)
(* in any order, a text box for the selected video, and drafts in memory   *)
(* of the texts typed for the others.  A text is the number of its typing. *)
(***************************************************************************)
EXTENDS Integers, FiniteSets, SequencesExt

CONSTANTS
  Included, Flagged,  \* videos, numbered by publication; the wider scope has both
  CreatorOf,          \* function from them to creators
  None,
  MaxTyped,           \* bound: texts typed
  MaxLoads,           \* bound: scope reloads
  MaxOthers           \* bound: saves of another page

VARIABLES
  scope, creator, selected, box, drafts, queue, sending, loads,   \* the page
  log, standing, expired,                                         \* the server
  typed,     \* text last typed for a video outside the windows of AtRisk
  counts     \* typed texts, reloads, saves of others

cvars == <<scope, creator, selected, box, drafts, queue, sending, loads,
           log, standing, expired, typed, counts>>
page == <<scope, creator, selected, box, drafts, queue>>
server == <<log, standing, expired>>

Listed == Included \cup Flagged

\* buildCaptureQueue: nothing is listed while the discovery data are too old.
Queue(sc) == [blocked |-> expired, standing |-> standing,
              items |-> IF expired THEN {}
                        ELSE IF sc = "included" THEN Included ELSE Listed]

Items(q, c) == {v \in q.items : CreatorOf[v] = c}

\* The form is on the page.
Form == selected \in Items(queue, creator)

\* nextVideoId: the oldest that needs a transcript.
NextVideo(q, c) ==
  LET open == {v \in Items(q, c) : q.standing[v] = "needs-capture"}
  IN IF open = {} THEN None ELSE Min(open)

CInit ==
  /\ scope = "included" /\ expired = FALSE
  /\ standing = [v \in Listed |-> "needs-capture"]
  /\ log = [v \in Listed |-> {}]
  /\ queue = Queue(scope)
  /\ creator = CreatorOf[Min(Listed)]
  /\ selected = NextVideo(queue, creator)
  /\ box = 0
  /\ drafts = [v \in Listed |-> 0] /\ typed = drafts
  /\ sending = None /\ loads = {}
  /\ counts = [typed |-> 0, loads |-> 0, others |-> 0]
-----------------------------------------------------------------------------
\* stashDraft: an empty text is no draft.
Stashed == IF Form THEN [drafts EXCEPT ![selected] = box] ELSE drafts

\* render, selectedItem, renderCurrent: the form is made anew from the draft.
Render(q, sel, ds) ==
  LET own == Items(q, creator')
      sel2 == IF sel \in own \/ q.blocked THEN sel
              ELSE IF NextVideo(q, creator') # None THEN NextVideo(q, creator')
              ELSE IF own # {} THEN Min(own) ELSE None
  IN /\ queue' = q /\ selected' = sel2 /\ drafts' = ds
     /\ box' = IF sel2 \in own THEN ds[sel2] ELSE 0

\* Text typed now may be gone with the answer that is under way.
AtRisk ==
  \/ loads # {}
  \/ sending # None /\ sending.video = selected

Type ==
  /\ Form
  /\ \E text \in {0, counts.typed + 1} :
       /\ text <= MaxTyped /\ text # box
       /\ box' = text
       /\ typed' = [typed EXCEPT ![selected] = IF AtRisk THEN 0 ELSE text]
       /\ counts' = [counts EXCEPT !.typed = IF text = 0 THEN @ ELSE text]
  /\ UNCHANGED <<scope, creator, selected, drafts, queue, sending, loads, server>>

\* select, skipToNext
Select(v) ==
  /\ v \in Items(queue, creator)
  /\ selected' = v /\ drafts' = Stashed /\ box' = Stashed[v]
  /\ UNCHANGED <<scope, creator, queue, sending, loads, server, typed, counts>>

ChooseCreator(c) ==
  /\ creator' = c
  /\ Render(queue, NextVideo(queue, c), Stashed)
  /\ UNCHANGED <<scope, sending, loads, server, typed, counts>>

ChangeScope ==
  /\ counts.loads < MaxLoads
  /\ drafts' = Stashed
  /\ scope' = IF scope = "included" THEN "included-and-flagged" ELSE "included"
  /\ loads' = loads \cup {[id |-> counts.loads, scope |-> scope', answer |-> None]}
  /\ counts' = [counts EXCEPT !.loads = @ + 1]
  /\ UNCHANGED <<creator, selected, box, queue, sending, server, typed>>

\* GET /api/captures reads the files.
ReadQueue(l) ==
  /\ l.answer = None
  /\ loads' = (loads \ {l}) \cup {[l EXCEPT !.answer = Queue(l.scope)]}
  /\ UNCHANGED <<page, sending, server, typed, counts>>

\* load
Loaded(l) ==
  /\ l.answer # None
  /\ loads' = loads \ {l} /\ creator' = creator
  /\ Render(l.answer, selected, drafts)
  /\ UNCHANGED <<scope, sending, server, typed, counts>>

LoadFails(l) ==
  /\ loads' = loads \ {l}
  /\ UNCHANGED <<page, sending, server, typed, counts>>
-----------------------------------------------------------------------------
\* submit: one at a time; an owner who marks a video unavailable drops the text.
Submit(action) ==
  /\ sending = None /\ Form
  /\ IF action = "unavailable" THEN queue.standing[selected] # "captured"
     ELSE /\ box # 0
          /\ action = "replace" <=> queue.standing[selected] = "captured"
  /\ sending' = [video |-> selected, action |-> action,
                 text |-> IF action = "unavailable" THEN 0 ELSE box, scope |-> scope,
                 saved |-> FALSE, answer |-> None]
  /\ typed' = IF action = "unavailable" THEN [typed EXCEPT ![selected] = 0] ELSE typed
  /\ UNCHANGED <<page, loads, server, counts>>

\* transitionProblem and the checks of the store.
MayFollow(action, was) ==
  CASE action = "capture" -> was # "captured"
    [] action = "replace" -> was = "captured"
    [] action = "unavailable" -> was = "needs-capture"

Accepted(v, action, sc) ==
  /\ v \in Queue(sc).items
  /\ MayFollow(action, standing[v])

Appended(v, action, text) ==
  /\ standing' = [standing EXCEPT ![v] = IF action = "unavailable" THEN action ELSE "captured"]
  /\ log' = [log EXCEPT ![v] = @ \cup {text}]

\* POST /api/capture: append, then the queue.
ServerSaves ==
  /\ sending # None /\ ~sending.saved
  /\ Accepted(sending.video, sending.action, sending.scope)
  /\ Appended(sending.video, sending.action, sending.text)
  /\ sending' = [sending EXCEPT !.saved = TRUE]
  /\ UNCHANGED <<page, loads, expired, typed, counts>>

ServerAnswers ==
  /\ sending # None /\ sending.saved /\ sending.answer = None
  /\ sending' = [sending EXCEPT !.answer = Queue(sending.scope)]
  /\ UNCHANGED <<page, loads, server, typed, counts>>

\* The discovery data pass their age limit while the page is open.
Expire ==
  /\ ~expired /\ expired' = TRUE
  /\ UNCHANGED <<page, sending, loads, log, standing, typed, counts>>

\* A refusal, a busy file or a connection that fails: nothing is rendered anew.
SaveFails ==
  /\ sending # None
  /\ sending' = None
  /\ UNCHANGED <<page, loads, server, typed, counts>>

\* Variant with a fault: what is typed for another video meanwhile is not stashed.
AnsweredUnstashed ==
  /\ sending # None /\ sending.answer # None
  /\ sending' = None /\ creator' = creator
  /\ LET v == sending.video
     IN Render(sending.answer,
               IF selected = v THEN NextVideo(sending.answer, creator) ELSE selected,
               [drafts EXCEPT ![v] = 0])
  /\ UNCHANGED <<scope, loads, server, typed, counts>>

\* The rest of submit: the owner may have moved on while the text was saved.
Answered ==
  /\ sending # None /\ sending.answer # None
  /\ sending' = None /\ creator' = creator
  /\ LET v == sending.video
         here == selected = v
     IN Render(sending.answer,
               IF here THEN NextVideo(sending.answer, creator) ELSE selected,
               [(IF here THEN drafts ELSE Stashed) EXCEPT ![v] = 0])
  /\ UNCHANGED <<scope, loads, server, typed, counts>>

\* A second page saves.
OtherSaves(v) ==
  /\ counts.others < MaxOthers
  /\ Accepted(v, "capture", "included") /\ Appended(v, "capture", 0)
  /\ counts' = [counts EXCEPT !.others = @ + 1]
  /\ UNCHANGED <<page, sending, loads, expired, typed>>

CNext ==
  \/ Type \/ ChangeScope \/ ServerSaves \/ ServerAnswers \/ Expire
  \/ SaveFails \/ Answered
  \/ \E v \in Listed : Select(v) \/ OtherSaves(v)
  \/ \E c \in {CreatorOf[v] : v \in Listed} : ChooseCreator(c)
  \/ \E l \in loads : ReadQueue(l) \/ Loaded(l) \/ LoadFails(l)
  \/ \E action \in {"capture", "replace", "unavailable"} : Submit(action)
-----------------------------------------------------------------------------
\* A text the owner typed is in the box, among the drafts or in the log, whatever
\* answers arrive in whatever order and wherever the owner has moved meanwhile;
\* except what was typed in the windows of AtRisk.
DraftsKept ==
  \A v \in Listed :
    \/ typed[v] \in log[v] \cup {0, drafts[v]}
    \/ selected = v /\ Form /\ box = typed[v]
=============================================================================
