----------------------------- MODULE ReviewPage -----------------------------
(***************************************************************************)
(* The review page (review/client.js) against the decision routes of the   *)
(* review server: filters over the data that the last answer brought, a    *)
(* reason box per listed video, and one decision in flight.  Every answer  *)
(* makes the page anew; another process decides meanwhile.                 *)
(***************************************************************************)
EXTENDS Integers, Sequences, FiniteSets, SequencesExt

CONSTANTS
  Videos, None,
  ChannelOf,     \* the creator of a video
  WeekOf,        \* its week
  Rule,          \* what the inclusion rule says of it
  MaxDecisions   \* bound: decisions in the file

VARIABLES
  reviewLog,     \* the decision file
  outdated,      \* the discovery data are past their age limit
  shown,         \* state.data: the file and the age when the last answer was made
  view,          \* the creator and the filters chosen
  forms,         \* for each listed video: reason typed, decision by key
  busy,
  deciding       \* requests under way

rvars == <<reviewLog, outdated, shown, view, forms, busy, deciding>>

NoForm == [reason |-> FALSE, pending |-> None]
Filters == {"needs-review", "decided"}

\* The decision a file holds for a video; these come from one clock.
DecisionIn(events, v) ==
  LET own == SelectSeq(events, LAMBDA e : e.video = v)
  IN IF own = <<>> \/ Last(own).decision = "clear" THEN None ELSE Last(own).decision

\* buildReviewState: statuses are computed for the page, not by it.
ReviewStatus(v) ==
  CASE DecisionIn(shown.log, v) = "include" -> "present"
    [] DecisionIn(shown.log, v) = "exclude" -> "excluded"
    [] DecisionIn(shown.log, v) = None -> Rule[v]

\* visibleVideos: a chosen week shows whatever its status.
Visible ==
  {v \in Videos :
     /\ shown # None /\ ChannelOf[v] = view.creator
     /\ CASE view.week # None -> WeekOf[v] = view.week
          [] view.week = None /\ view.filter = "decided" -> DecisionIn(shown.log, v) # None
          [] OTHER -> ReviewStatus(v) = view.filter}

\* renderBusy
Enabled(v, decision) ==
  /\ ~busy /\ ~shown.blocked
  /\ decision = "clear" => DecisionIn(shown.log, v) # None

RInit ==
  /\ reviewLog = <<>> /\ outdated = FALSE /\ shown = None
  /\ view = [creator |-> ChannelOf[CHOOSE v \in Videos : TRUE], filter |-> "needs-review", week |-> None]
  /\ forms = [v \in Videos |-> NoForm]
  /\ busy = FALSE /\ deciding = {}

\* renderList: every form is made anew, empty.
RenderList == forms' = [v \in Videos |-> NoForm]
-----------------------------------------------------------------------------
\* start: GET /api/data, in one step with its answer.
StartPage ==
  /\ shown = None
  /\ shown' = [log |-> reviewLog, blocked |-> outdated]
  /\ RenderList
  /\ UNCHANGED <<reviewLog, outdated, view, busy, deciding>>

ShowCreator ==
  /\ shown # None
  /\ \E v \in Videos : view' = [view EXCEPT !.creator = ChannelOf[v], !.week = None]
  /\ RenderList
  /\ UNCHANGED <<reviewLog, outdated, shown, busy, deciding>>

\* A week of the grid; selecting it again goes back.
ShowWeek ==
  /\ shown # None
  /\ \E v \in Videos : view' = [view EXCEPT !.week = IF @ = WeekOf[v] THEN None ELSE WeekOf[v]]
  /\ RenderList
  /\ UNCHANGED <<reviewLog, outdated, shown, busy, deciding>>

ShowFilter ==
  /\ shown # None
  /\ \E filter \in Filters : view' = [view EXCEPT !.filter = filter, !.week = None]
  /\ RenderList
  /\ UNCHANGED <<reviewLog, outdated, shown, busy, deciding>>

\* Typing a reason, or the keys i and e on a video.
Fill(v) ==
  /\ v \in Visible
  /\ \/ forms' = [forms EXCEPT ![v].reason = ~@]
     \/ /\ ~shown.blocked
        /\ \E d \in {"include", "exclude"} : forms' = [forms EXCEPT ![v].pending = d]
  /\ UNCHANGED <<reviewLog, outdated, shown, view, busy, deciding>>

\* A button, or Enter in the box after a key.
Asked(v, decision) ==
  /\ v \in Visible
  /\ Enabled(v, decision) \/ forms[v].pending = decision

\* Variant with a fault: Enter is not stopped while a decision is in flight.
DecideBusy(v, decision) ==
  /\ Asked(v, decision)
  /\ ~shown.blocked /\ forms[v].reason
  /\ busy' = TRUE
  /\ deciding' = deciding \cup {[video |-> v, decision |-> decision, stage |-> "sent", answer |-> None]}
  /\ UNCHANGED <<reviewLog, outdated, shown, view, forms>>

\* decide
DecideOn(v, decision) ==
  /\ Asked(v, decision)
  /\ ~busy /\ ~shown.blocked /\ forms[v].reason
  /\ busy' = TRUE
  /\ deciding' = deciding \cup {[video |-> v, decision |-> decision, stage |-> "sent", answer |-> None]}
  /\ UNCHANGED <<reviewLog, outdated, shown, view, forms>>

\* store.append: with its checks of age and of what there is to clear.
Decides(v, decision) ==
  /\ Len(reviewLog) < MaxDecisions /\ ~outdated
  /\ decision = "clear" => DecisionIn(reviewLog, v) # None
  /\ reviewLog' = Append(reviewLog, [video |-> v, decision |-> decision])

ServerDecides(r) ==
  /\ r.stage = "sent"
  /\ Decides(r.video, r.decision)
  /\ deciding' = (deciding \ {r}) \cup {[r EXCEPT !.stage = "saved"]}
  /\ UNCHANGED <<outdated, shown, view, forms, busy>>

\* state() after the append.
ServerStates(r) ==
  /\ r.stage = "saved"
  /\ deciding' = (deciding \ {r}) \cup
       {[r EXCEPT !.stage = "answered", !.answer = [log |-> reviewLog, blocked |-> outdated]]}
  /\ UNCHANGED <<reviewLog, outdated, shown, view, forms, busy>>

\* The whole page is made anew, boxes and all.
DecisionSaved(r) ==
  /\ r.stage = "answered"
  /\ deciding' = deciding \ {r} /\ busy' = FALSE
  /\ shown' = r.answer
  /\ RenderList
  /\ UNCHANGED <<reviewLog, outdated, view>>

\* Refused, or the answer is lost.
DecisionFails(r) ==
  /\ deciding' = deciding \ {r} /\ busy' = FALSE
  /\ UNCHANGED <<reviewLog, outdated, shown, view, forms>>

OtherDecides ==
  /\ \E v \in Videos, d \in {"include", "clear"} : Decides(v, d)
  /\ UNCHANGED <<outdated, shown, view, forms, busy, deciding>>

Outdate ==
  /\ ~outdated /\ outdated' = TRUE
  /\ UNCHANGED <<reviewLog, shown, view, forms, busy, deciding>>

RNext ==
  \/ StartPage \/ ShowCreator \/ ShowWeek \/ ShowFilter \/ OtherDecides \/ Outdate
  \/ \E v \in Videos : Fill(v) \/ \E d \in {"include", "exclude", "clear"} : DecideOn(v, d)
  \/ \E r \in deciding : \/ ServerDecides(r) \/ ServerStates(r)
                        \/ DecisionSaved(r) \/ DecisionFails(r)
-----------------------------------------------------------------------------
\* The page never goes back to an older state of the decisions, whatever answers
\* are late or lost: what it shows only gets newer.
ShownNeverOlder ==
  [][shown # None /\ shown' # shown => IsPrefix(shown.log, shown'.log)]_rvars
=============================================================================
