--------------------------- MODULE CorpusManifest ---------------------------
(***************************************************************************)
(* What the corpus tool says of a creator's videos, twice: from the        *)
(* private files, for the review and capture pages (creatorVideoRule.ts,   *)
(* creatorCorpusManifest.ts, creatorDecisions.ts, captureQueue.ts), and    *)
(* from the tables of the last import, for the readiness report            *)
(* (readinessReport.ts), which has rules of its own for the same things.   *)
(*                                                                         *)
(* A title or description is the set of the rule's signals that it has.    *)
(***************************************************************************)
EXTENDS Integers, Sequences

CONSTANTS
  Videos, Weeks,
  Samples,     \* for each video, what it may be: records of week, late, ...
  Outside,     \* week of a video outside the registered seasons
  None,
  Instants,    \* decidedAt: two review processes need not write them in order
  MaxLog       \* bound: events in the two files

VARIABLES
  sample,      \* what each video is
  listed,      \* the videos the last discovery returned
  decided,     \* the owner's decision events
  captured,    \* the owner's capture events
  tables       \* what was imported

mvars == <<sample, listed, decided, captured, tables>>

NoTables == [captured |-> <<>>, decided |-> <<>>, listed |-> {}, api |-> <<>>]

MInit ==
  /\ sample \in {s \in [Videos -> UNION {Samples[v] : v \in Videos}] :
                   \A v \in Videos : s[v] \in Samples[v]}
  /\ listed = {}
  /\ decided = <<>> /\ captured = <<>>
  /\ tables = NoTables
-----------------------------------------------------------------------------
(* The inclusion rule, v1. *)

InWindow(v) == sample[v].week # Outside /\ ~sample[v].late

\* classifyVideo, up to the signals in the texts.
Excluded(s) ==
  \/ s.week = Outside \/ s.late \/ s.live \/ s.short
  \/ "other league" \in s.title /\ "nfl" \notin s.title
  \/ "fantasy" \in s.title /\ "props" \notin s.title

\* The football signal of a title may be the number of a week.
Signals(s) ==
  LET prop == s.title \cap {"props", "dfs"} # {}
      football == "nfl" \in s.title \/ s.titleWeeks # {}
  IN IF "other league" \in s.title THEN "needs-review"
     ELSE IF prop /\ football THEN "candidate"
     ELSE IF \/ prop /\ ("team" \in s.title \/ "nfl" \in s.description)
             \/ ~prop /\ football /\ ("picks" \in s.title \/ "props" \in s.description)
          THEN "needs-review" ELSE "excluded"

\* A stated week that disagrees, several of them, or an unknown length must not
\* be decided automatically.
Unclear(s) == s.titleWeeks \notin {{}, {s.week}} \/ s.unknownLength

Classified(v) ==
  LET s == sample[v] IN
  IF Excluded(s) \/ Signals(s) = "excluded" THEN "excluded"
  ELSE IF Unclear(s) THEN "needs-review" ELSE Signals(s)
-----------------------------------------------------------------------------
(* From the files. *)

\* effectiveDecisions: the latest by time, file order breaks ties.
Latest(events, v) ==
  LET own == {i \in DOMAIN events : events[i].video = v}
  IN CHOOSE i \in own : \A j \in own :
       \/ events[j].time < events[i].time
       \/ events[j].time = events[i].time /\ j <= i

Active(events, v) ==
  IF \A i \in DOMAIN events : events[i].video # v THEN None
  ELSE LET e == events[Latest(events, v)]
       IN IF e.decision = "clear" THEN None ELSE e.decision

\* resolveDecisions, statusFor
StatusOf(v) ==
  LET d == IF InWindow(v) THEN Active(decided, v) ELSE None
  IN CASE d = "include" -> "present"
       [] d = "exclude" -> "excluded"
       [] d = None -> IF Classified(v) = "candidate" THEN "present" ELSE Classified(v)

\* applyDecisions: decisions of videos that are gone, not listed or outside.
NotApplied == {v \in Videos : Active(decided, v) # None /\ ~(v \in listed /\ InWindow(v))}

\* buildCreatorManifest: the slot of a week.
SlotOf(w) ==
  LET status == {StatusOf(v) : v \in {u \in listed : sample[u].week = w}}
  IN CASE "present" \in status -> "present"
       [] "present" \notin status /\ "needs-review" \in status -> "needs-review"
       [] OTHER -> "missing"

\* buildCaptureQueue in the included scope.
Queue == {v \in listed : sample[v].week # Outside /\ StatusOf(v) = "present"}

\* activeCaptures: an event takes the place of the one before it.
CaptureOf(v) ==
  LET last[n \in 0..Len(captured)] ==
        IF n = 0 THEN 0 ELSE IF captured[n].video = v THEN n ELSE last[n - 1]
      final == last[Len(captured)]
  IN IF final = 0 THEN "needs-capture"
     ELSE IF captured[final].event = "unavailable" THEN "unavailable" ELSE "captured"

QueueCaptured == {v \in Queue : CaptureOf(v) = "captured"}
-----------------------------------------------------------------------------
(* From the tables. *)

\* Variant with a fault: the last row counts, whatever its time.
ReportedByPosition(v) ==
  LET own == {i \in DOMAIN tables.decided : tables.decided[i].video = v}
  IN own # {} /\ tables.decided[CHOOSE i \in own : \A j \in own : j <= i].decision # "clear"

\* activeDecisions of readinessReport.ts: row after row, the later time or position stays.
ReportedDecision(v) ==
  LET rows == tables.decided
      latest[n \in 0..Len(rows)] ==
        IF n = 0 THEN 0
        ELSE LET best == latest[n - 1]
             IN IF rows[n].video = v /\ (best = 0 \/ rows[n].time >= rows[best].time)
                THEN n ELSE best
      final == latest[Len(rows)]
  IN final # 0 /\ rows[final].decision # "clear"

ReportedUnapplied ==
  {v \in Videos : /\ ReportedDecision(v)
                  /\ v \in DOMAIN tables.api =>
                       tables.api[v].week = Outside \/ tables.api[v].late}

\* latestCaptureEvents
ReportedCapture(v) ==
  LET own == {i \in DOMAIN tables.captured : tables.captured[i].video = v}
  IN IF own = {} THEN "missing"
     ELSE tables.captured[CHOOSE i \in own : \A j \in own : j <= i].event

ReportedIncluded == {v \in DOMAIN tables.api : tables.api[v].review = "present"}

\* captureRate.capturedIncludedVideos
ReportedCaptured ==
  {v \in ReportedIncluded : ReportedCapture(v) \in {"captured", "replaced"}}

ReportedSlot(w) ==
  LET inWeek == {v \in DOMAIN tables.api : tables.api[v].week = w}
  IN IF inWeek \cap ReportedIncluded # {} THEN "present"
     ELSE IF \E v \in inWeek : tables.api[v].review = "needs-review" THEN "needs-review"
     ELSE "missing"
-----------------------------------------------------------------------------
\* An event of the decision store; only an active decision is cleared.
Decide(v) ==
  /\ Len(decided) + Len(captured) < MaxLog
  /\ v \in listed /\ InWindow(v)
  /\ \E d \in {"include", "exclude", "clear"}, t \in Instants :
       /\ d = "clear" => Active(decided, v) # None
       /\ decided' = Append(decided, [video |-> v, decision |-> d, time |-> t])
  /\ UNCHANGED <<sample, listed, captured, tables>>

\* An event of the capture store; the wider scope also takes flagged videos.
SaveTranscript(v) ==
  /\ Len(decided) + Len(captured) < MaxLog
  /\ v \in listed /\ InWindow(v)
  /\ StatusOf(v) \in {"present", "needs-review"}
  /\ \E e \in CASE CaptureOf(v) = "needs-capture" -> {"captured", "unavailable"}
                [] CaptureOf(v) = "unavailable" -> {"captured"}
                [] CaptureOf(v) = "captured" -> {"replaced"} :
       captured' = Append(captured, [video |-> v, event |-> e])
  /\ UNCHANGED <<sample, listed, decided, tables>>

\* A new discovery: a video may have been removed or made private since.
Rediscover ==
  /\ listed' \in SUBSET Videos
  /\ UNCHANGED <<sample, decided, captured, tables>>

\* planCorpusImport rebuilds the manifest and stores its rows.
Import ==
  /\ tables' = [captured |-> captured, decided |-> decided, listed |-> listed,
                api |-> [v \in listed |-> [week |-> sample[v].week, late |-> sample[v].late,
                                           review |-> StatusOf(v)]]]
  /\ UNCHANGED <<sample, listed, decided, captured>>

MNext == Rediscover \/ Import \/ \E v \in Videos : Decide(v) \/ SaveTranscript(v)
-----------------------------------------------------------------------------
\* The report and the pages agree on every video, week and decision once the files
\* are imported, although different code reads them: also when decisions were
\* written out of order, or a decided or captured video is gone or flagged since.
ReportAgrees ==
  tables.captured = captured /\ tables.decided = decided /\ tables.listed = listed =>
    /\ ReportedIncluded = Queue
    /\ ReportedCaptured = QueueCaptured
    /\ ReportedUnapplied = NotApplied
    /\ \A w \in Weeks : ReportedSlot(w) = SlotOf(w)
=============================================================================
