------------------------------ MODULE MCCorpus ------------------------------
(***************************************************************************)
(* The parts of the creator corpus tool.  They share no state here, so one *)
(* part is chosen at the start and only it takes steps.                    *)
(***************************************************************************)
EXTENDS Integers, Sequences, TLC

CONSTANTS
  None, Procs, Videos, video1,
  Requests, MaxSaves, MaxFaults,
  Importers, Creators, MaxAge, MaxEvents, MaxDecisionEvents, MaxDay,
  Weeks, Outside, Instants, MaxLog,
  Included, Flagged, MaxTyped, MaxLoads, MaxOthers,
  KeySets, Start, WindowEnd, PageSize, MaxUnits, NewVideos, Today, MaxGone, MaxDecisions

VARIABLES
  part,
  file, content, torn, lock, claims, save, since, saved, faults,
  day, captureLog, decisionLog, discovered, written, stored, dbLock, importer,
  sample, listed, decided, captured, tables,
  scope, creator, selected, box, drafts, queue, sending, loads, log, standing, expired,
  typed, counts,
  playlist, gone, before, removals, registry, run, discovery, record, gate, step,
  reviewLog, outdated, shown, view, forms, busy, deciding

\* Videos of the manifest: one plain, and one that a single thing may be odd about.
Plain == [week |-> 1, late |-> FALSE, live |-> FALSE, short |-> FALSE, title |-> {"props", "nfl"},
          titleWeeks |-> {}, description |-> {}, unknownLength |-> FALSE]
Odd == {[Plain EXCEPT !.title = {"dfs"}, !.titleWeeks = {1}],
        [Plain EXCEPT !.week = 2, !.titleWeeks = {1}],
        [Plain EXCEPT !.week = 3, !.late = TRUE],
        [Plain EXCEPT !.week = Outside],
        [Plain EXCEPT !.title = {"props", "fantasy", "team"}]}
Samples == [v \in Videos |-> IF v = video1 THEN {Plain} ELSE Odd]

CreatorOf == [v \in Included \cup Flagged |-> "creator"]

\* Two videos of one creator to review, in different weeks.
ChannelOf == [v \in Videos |-> "creator"]
WeekOf == [v \in Videos |-> IF v = video1 THEN 1 ELSE 2]
Rule == [v \in Videos |-> "needs-review"]

\* Channels: without dates at the head and in the middle, one that reaches far back, and
\* one with a video in the margin at either end. The first has a video after the window.
Entry(id, on, dated) == [id |-> id, day |-> on, dated |-> dated]
Playlists ==
  {<<Entry(1, 8, TRUE), Entry(2, 6, FALSE), Entry(3, 5, TRUE)>>,
   <<Entry(1, 5, FALSE), Entry(2, 5, FALSE), Entry(3, 5, TRUE)>>,
   <<Entry(1, 6, TRUE), Entry(2, 1, TRUE), Entry(3, 1, FALSE)>>,
   <<Entry(1, 7, TRUE), Entry(2, 6, TRUE), Entry(3, 4, TRUE)>>}

Lock == INSTANCE PrivateFile
Imports == INSTANCE CorpusImport
Manifest == INSTANCE CorpusManifest
Page == INSTANCE CapturePage
Discovery == INSTANCE CorpusDiscovery
Review == INSTANCE ReviewPage

lockVars == <<file, content, torn, lock, claims, save, since, saved, faults>>
importVars == <<day, captureLog, decisionLog, discovered, written, stored, dbLock, importer>>
manifestVars == <<sample, listed, decided, captured, tables>>
pageVars == <<scope, creator, selected, box, drafts, queue, sending, loads, log, standing, expired,
              typed, counts>>
discoveryVars == <<playlist, gone, before, removals, registry, run, discovery, record, gate, step>>
reviewVars == <<reviewLog, outdated, shown, view, forms, busy, deciding>>
vars == <<part, lockVars, importVars, manifestVars, pageVars, discoveryVars,
          reviewVars>>

Init ==
  /\ part \in {"lock", "import", "manifest", "page", "discovery", "gate", "review"}
  /\ Lock!PInit /\ (part # "lock" => file = "captures")
  /\ Imports!IInit
  /\ Manifest!MInit /\ (part # "manifest" => sample = [v \in Videos |-> CHOOSE s \in Samples[v] : TRUE])
  /\ Page!CInit
  /\ Discovery!DInit /\ (part # "discovery" => playlist = CHOOSE l \in Playlists : TRUE)
  /\ Review!RInit

Next ==
  /\ part' = part
  /\ \/ part = "lock" /\ Lock!PNext
        /\ UNCHANGED <<importVars, manifestVars, pageVars, discoveryVars, reviewVars>>
     \/ part = "import" /\ Imports!INext
        /\ UNCHANGED <<lockVars, manifestVars, pageVars, discoveryVars, reviewVars>>
     \/ part = "manifest" /\ Manifest!MNext
        /\ UNCHANGED <<lockVars, importVars, pageVars, discoveryVars, reviewVars>>
     \/ part = "page" /\ Page!CNext
        /\ UNCHANGED <<lockVars, importVars, manifestVars, discoveryVars, reviewVars>>
     \/ part = "discovery" /\ Discovery!RunNext
        /\ UNCHANGED <<lockVars, importVars, manifestVars, pageVars, reviewVars>>
     \/ part = "gate" /\ Discovery!GateNext
        /\ UNCHANGED <<lockVars, importVars, manifestVars, pageVars, reviewVars>>
     \/ part = "review" /\ Review!RNext
        /\ UNCHANGED <<lockVars, importVars, manifestVars, pageVars, discoveryVars>>

\* The importers are alike, and so are the processes, which are given the same values.
Symmetry == Permutations(Importers)

Spec == Init /\ [][Next]_vars

\* Each property is evaluated in the part it is about: the others stay in their first state.

\* A save that was reported as done stays in a file the tool can read (PrivateFile,
\* privateOutput.ts, captureStore.ts).
SavesKept == part = "lock" => Lock!SavesKept

\* Every audited import is still what the histories begin with (CorpusImport, importPublisher.ts).
ImportsTrue == part = "import" => Imports!ImportsTrue

\* Nothing committed is lost to an overlapping import (CorpusImport, importPublisher.ts).
NothingOverwritten == Imports!NothingOverwritten

\* The readiness report and the pages agree (CorpusManifest, readinessReport.ts).
ReportAgrees == part = "manifest" => Manifest!ReportAgrees

\* A typed text is in the box, a draft or the log (CapturePage, capture.js).
DraftsKept == part = "page" => Page!DraftsKept

\* A discovery accounts for the listed videos of the window but for as many as left the list
\* meanwhile, and the public gate commits to the private record beside it (CorpusDiscovery,
\* commands.ts, readinessGate.ts).
DiscoveryTrue == part \in {"discovery", "gate"} => Discovery!DiscoveryTrue

\* The review page's data only get newer (ReviewPage, client.js).
ShownNeverOlder == Review!ShownNeverOlder
=============================================================================
