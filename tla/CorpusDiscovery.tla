--------------------------- MODULE CorpusDiscovery ---------------------------
(***************************************************************************)
(* The commands of the corpus tool that come before an import: resolve,    *)
(* confirm and discover for one creator against the YouTube API (external) *)
(* and a channel that changes meanwhile, purge, and gate-register by two   *)
(* processes that may stop anywhere.  Every output file is created         *)
(* exclusively.                                                            *)
(*                                                                         *)
(* A playlist is a sequence of videos, newest first; a page token is the   *)
(* position where the next page starts.                                    *)
(***************************************************************************)
EXTENDS Integers, Sequences, FiniteSets, SequencesExt

CONSTANTS
  Playlists,    \* the channels there may be: sequences of [id, day, dated]
  Procs,        \* processes that register the gate
  KeySets,      \* creators files they may be given
  None,
  Start,        \* first day of the registered window
  WindowEnd,    \* the day after its last
  PageSize,     \* MAX_VIDEOS_PER_REQUEST
  MaxUnits,     \* the run's quota
  NewVideos,    \* bound: the videos uploaded meanwhile
  Today,        \* their day
  MaxGone       \* bound: videos made private or removed

VARIABLES
  playlist, gone,           \* the channel: its list, and videos no longer public
  before,                   \* history: the entries of the list when the run began,
  removals,                 \* and how many left it while the run listed it
  registry,                 \* what the registry file says of the creator
  run,                      \* the discovery under way
  discovery,                \* its output file
  record, gate, step        \* the two gate files and the registrations

channel == <<playlist, gone>>
gates == <<record, gate, step>>
history == <<before, removals>>

NoRun == [stage |-> "idle", at |-> 1, ids |-> <<>>, fetched |-> {}, asked |-> 0, units |-> 0]

DInit ==
  /\ playlist \in Playlists
  /\ gone = {} /\ before = {} /\ removals = 0
  /\ registry = "none" /\ run = NoRun /\ discovery = None
  /\ record = None /\ gate = None
  /\ step = [p \in Procs |-> [at |-> "idle"]]
-----------------------------------------------------------------------------
(* The channel. *)

Upload(v) ==
  /\ v \notin gone /\ \A i \in DOMAIN playlist : playlist[i].id # v
  /\ playlist' = <<[id |-> v, day |-> Today, dated |-> TRUE]>> \o playlist
  /\ UNCHANGED <<gone, history, registry, run, discovery, gates>>

\* A video is made private or removed: videos.list no longer returns it.
MakePrivate(v) ==
  /\ Cardinality(gone) < MaxGone
  /\ gone' = gone \cup {v}
  /\ UNCHANGED <<playlist, history, registry, run, discovery, gates>>

\* It leaves the list too, at once or later, and those below it move up.
Unlist(i) ==
  /\ playlist[i].id \in gone
  /\ playlist' = RemoveAt(playlist, i)
  /\ removals' = IF run.stage = "list" THEN removals + 1 ELSE removals
  /\ UNCHANGED <<gone, before, registry, run, discovery, gates>>
-----------------------------------------------------------------------------
(* resolve and confirm. *)

\* resolveCreators: the seed video names the channel; its title may not match.
Resolve ==
  /\ registry = "none"
  /\ registry' \in {"match", "mismatch"}
  /\ UNCHANGED <<channel, history, run, discovery, gates>>

\* confirmCreators
Confirm ==
  /\ registry = "match"
  /\ registry' = "confirmed"
  /\ UNCHANGED <<channel, history, run, discovery, gates>>

\* Saved channel details are API data too: stale ones are resolved again.
RegistryGetsStale ==
  /\ registry # "none" /\ run.stage = "idle"
  /\ registry' = "none"
  /\ UNCHANGED <<channel, history, run, discovery, gates>>
-----------------------------------------------------------------------------
(* discover. *)

\* The checks of the command, before any unit of quota is spent.
BeginRun ==
  /\ run.stage = "idle" /\ registry = "confirmed" /\ discovery = None
  /\ run' = [NoRun EXCEPT !.stage = "list"]
  /\ before' = {playlist[i] : i \in DOMAIN playlist} /\ removals' = 0
  /\ UNCHANGED <<channel, registry, discovery, gates>>

\* charge: before the request, within the limit of the meter.
Charged == [run EXCEPT !.units = @ + 1]
MayCharge == run.units + 1 <= MaxUnits

\* Variant with a fault: an entry without a date counts as old.
AllOldUndated(items) == items # <<>> /\ \A i \in DOMAIN items : ~items[i].dated \/ items[i].day < Start - 1

\* An entry without a date never ends the listing.
AllOld(items) == items # <<>> /\ \A i \in DOMAIN items : items[i].dated /\ items[i].day < Start - 1

InWindow(e) == Start <= e.day /\ e.day < WindowEnd

\* discoverCreator keeps a day of margin at either end and every entry without a date.
Keep(e) == e.dated => (Start - 1 <= e.day /\ e.day < WindowEnd + 1)
Kept(items) == {items[i].id : i \in {j \in DOMAIN items : Keep(items[j])}}

\* listUploads: one page; the ids are kept once each.
ListPage ==
  /\ run.stage = "list" /\ MayCharge
  /\ LET items == SubSeq(playlist, run.at, Min({run.at + PageSize - 1, Len(playlist)}))
         more == run.at + PageSize <= Len(playlist)
         new == Kept(items) \ ToSet(run.ids)
     IN run' = [Charged EXCEPT !.ids = @ \o SetToSeq(new), !.at = @ + PageSize,
                               !.stage = IF AllOld(items) \/ ~more THEN "enrich" ELSE "list"]
  /\ UNCHANGED <<channel, history, registry, discovery, gates>>

\* videos.list for the next batch of ids.
FetchBatch ==
  /\ run.stage = "enrich" /\ run.asked < Len(run.ids) /\ MayCharge
  /\ LET batch == ToSet(SubSeq(run.ids, run.asked + 1, Min({run.asked + PageSize, Len(run.ids)})))
     IN run' = [Charged EXCEPT !.asked = @ + PageSize, !.fetched = @ \cup (batch \ gone)]
  /\ UNCHANGED <<channel, history, registry, discovery, gates>>

\* The output; ids that were not returned are reported as unavailable.
WriteDiscovery ==
  /\ run.stage = "enrich" /\ run.asked >= Len(run.ids)
  /\ discovery' = [videos |-> run.fetched, unavailable |-> ToSet(run.ids) \ run.fetched, stale |-> FALSE]
  /\ run' = NoRun
  /\ UNCHANGED <<channel, history, registry, gates>>

\* A request fails or the meter is at its limit: no file is written.
RunFails ==
  /\ run.stage # "idle"
  /\ run' = NoRun /\ before' = {} /\ removals' = 0
  /\ UNCHANGED <<channel, registry, discovery, gates>>

DiscoveryGetsStale ==
  /\ discovery # None /\ ~discovery.stale
  /\ discovery' = [discovery EXCEPT !.stale = TRUE]
  /\ UNCHANGED <<channel, history, registry, run, gates>>

\* purge: only a stale file is deleted, unless forced.
Purge(force) ==
  /\ discovery # None /\ run.stage = "idle"
  /\ discovery.stale \/ force
  /\ discovery' = None /\ before' = {} /\ removals' = 0
  /\ UNCHANGED <<channel, registry, run, gates>>
-----------------------------------------------------------------------------
(* gate-register. A salt is the name of the process that drew it. *)

others == <<channel, history, registry, run, discovery>>

Stop(p) == step' = [step EXCEPT ![p] = [at |-> "stopped"]]

Torn == [whole |-> FALSE, keys |-> None, salt |-> None]
WithoutTorn == IF record # None /\ ~record.whole THEN None ELSE record

\* assertPublicGateAvailable
CheckPublic(p) ==
  /\ step[p].at = "idle"
  /\ IF gate = None
     THEN \E keys \in KeySets : step' = [step EXCEPT ![p] = [at |-> "read", keys |-> keys]]
     ELSE Stop(p)
  /\ UNCHANGED <<others, record, gate>>

\* An existing record is reused if it is whole and of the same creators.
ReadRecord(p) ==
  /\ step[p].at = "read"
  /\ IF record = None THEN step' = [step EXCEPT ![p].at = "create"]
     ELSE IF ~record.whole \/ record.keys # step[p].keys THEN Stop(p)
     ELSE step' = [step EXCEPT ![p] = [at |-> "link", gate |-> record]]
  /\ UNCHANGED <<others, record, gate>>

\* writePrivateJson opens exclusively, then writes.
CreateRecord(p) ==
  /\ step[p].at = "create"
  /\ IF record = None THEN record' = Torn /\ step' = [step EXCEPT ![p].at = "write"]
     ELSE Stop(p) /\ UNCHANGED record
  /\ UNCHANGED <<others, gate>>

WriteRecord(p) ==
  /\ step[p].at = "write"
  /\ record' = [whole |-> TRUE, keys |-> step[p].keys, salt |-> p]
  /\ step' = [step EXCEPT ![p] = [at |-> "link", gate |-> record']]
  /\ UNCHANGED <<others, gate>>

\* writePublicGate: a link to a synced temporary file, refused when one exists.
LinkGate(p) ==
  /\ step[p].at = "link"
  /\ gate' = IF gate = None THEN step[p].gate ELSE gate
  /\ Stop(p)
  /\ UNCHANGED <<others, record>>

\* The process stops; the owner may start it again, or remove a torn record.
CrashRegister(p) ==
  /\ step[p].at \notin {"idle", "stopped"}
  /\ Stop(p)
  /\ UNCHANGED <<others, record, gate>>

RunAgain(p) ==
  /\ step[p].at = "stopped" /\ gate = None
  /\ step' = [step EXCEPT ![p] = [at |-> "idle"]]
  /\ record' \in {record, IF \A q \in Procs : step[q].at \in {"idle", "stopped"}
                          THEN WithoutTorn ELSE record}
  /\ UNCHANGED <<others, gate>>

RunNext ==
  \/ Resolve \/ Confirm \/ RegistryGetsStale \/ BeginRun \/ ListPage \/ FetchBatch
  \/ WriteDiscovery \/ RunFails \/ DiscoveryGetsStale
  \/ \E force \in BOOLEAN : Purge(force)
  \/ \E v \in NewVideos : Upload(v)
  \/ \E i \in DOMAIN playlist : MakePrivate(playlist[i].id) \/ Unlist(i)

GateNext ==
  \E p \in Procs : \/ CheckPublic(p) \/ ReadRecord(p) \/ CreateRecord(p) \/ WriteRecord(p)
                  \/ LinkGate(p) \/ CrashRegister(p) \/ RunAgain(p)
-----------------------------------------------------------------------------
\* The listed videos of the window that a discovery says nothing of.
Missed ==
  {e \in before : InWindow(e) /\ e.id \notin discovery.videos \cup discovery.unavailable}

\* What a discovery records is so.  Of the videos of the window that were listed when it
\* began it misses at most as many as left the list while it was listed, so none if none
\* did: an entry that leaves may itself not be read any more, or let one below slip onto
\* a page already read, which the code does not notice.  All others it accounts for,
\* whichever pages and batches they fell on, although uploads and removals move the
\* pages: fetched, or reported unavailable, and then they really are.  And a published gate
\* commits to the private record beside it, which no later or concurrent registration
\* changes (commands.ts, youtubeApi.ts, readinessGate.ts).
DiscoveryTrue ==
  /\ discovery # None =>
       /\ Cardinality(Missed) <= removals
       /\ discovery.unavailable \subseteq gone
  /\ gate # None => record = gate
=============================================================================
