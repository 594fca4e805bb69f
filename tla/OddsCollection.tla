--------------------------- MODULE OddsCollection ---------------------------
(***************************************************************************)
(* The scheduled odds collector (oddsCollector.ts) over its checkpoint     *)
(* ledger (oddsCollectionRepo.ts).  Every wake of the cron route is a run  *)
(* with an owner id of its own: it reads the provider's slate, selects or  *)
(* reads the week's pilot event, supersedes and upserts checkpoints,       *)
(* claims the due ones under a lease, and then fetches, persists and       *)
(* completes them one by one.  Runs overlap and die at any await; they     *)
(* meet only in the ledger, and every SQL statement is one action.         *)
(*                                                                         *)
(* One NFL week under the free-pilot profile, with priority targets.  A    *)
(* run slot is used again by later runs: a run only settles checkpoints    *)
(* that it has claimed itself, so owner ids may be used again too.         *)
(***************************************************************************)
EXTENDS Integers, Sequences, FiniteSets, SequencesExt

CONSTANTS
  Runs, Nobody,      \* collector runs; claim_owner IS NULL
  Events, NoEvent,
  Sundays,           \* events played on Sunday
  KickoffTimes,      \* [Events -> SUBSET Nat]: where the schedule may put them
  TargetStart,       \* event_start_time of the priority targets
  Override,          \* [Runs -> Events \cup {NoEvent}]: ODDS_FREE_PILOT_EVENT_ID
  Checkpoints, EventOf, Pilot,   \* all; their events; the free-pilot ones
  Before, Until,     \* due_at and due_window_end, as time before kickoff
  Rank, Cost,        \* priority_rank, cardinality(market_keys)
  MaxAttempts, Lease, ClaimLimit, RequestTimeout, RetryDelay, Reserve,
  Listings,          \* sets of events the provider may list
  Quotas, Unknown,   \* what x-requests-remaining may say, or that it is missing
  MaxTime            \* bound: the clock stops here

ASSUME CollectorAssumption ==
  /\ Nobody \notin Runs /\ NoEvent \notin Events /\ Unknown \notin Int
  /\ IsFiniteSet(Runs) /\ IsFiniteSet(Checkpoints)
  /\ Pilot \subseteq Checkpoints /\ EventOf \in [Checkpoints -> Events]
  /\ Override \in [Runs -> Events \cup {NoEvent}]
  /\ KickoffTimes \in [Events -> SUBSET Nat] /\ TargetStart \in [Checkpoints \ Pilot -> Nat]
  /\ Listings \subseteq SUBSET Events
  /\ Before \in [Checkpoints -> Nat] /\ Until \in [Checkpoints -> Nat]
  /\ \A c \in Checkpoints : Before[c] > Until[c]
  /\ {MaxAttempts, Lease, ClaimLimit, RequestTimeout, RetryDelay} \subseteq Nat \ {0}

VARIABLES
  now,
  kickoff,   \* the provider's current schedule
  pin,       \* the row of odds_free_pilot_selections
  ledger,    \* odds_collection_checkpoints
  observed,  \* the checkpoints that have rows in odds_observations
  fetched,   \* how often a checkpoint has been requested from the provider
  pc,        \* the await a run is at
  local      \* its locals

vars == <<now, kickoff, pin, ledger, observed, fetched, pc, local>>

Terminal == {"completed", "skipped"}
Settling == {"persisting", "completing", "failing", "skipping"}
Steps == {"idle", "selecting", "pinning", "superseding", "upserting", "claiming",
          "next", "fetching"} \cup Settling

Fresh == [listed |-> {}, slate |-> [e \in Events |-> 0], quota |-> Unknown,
          event |-> NoEvent, start |-> 0, todo |-> {}, at |-> 0, queue |-> <<>>]

NoPin == [event |-> NoEvent, start |-> 0]
Absent == [status |-> "absent", owner |-> Nobody, until |-> 0, attempts |-> 0,
           next |-> 0, due |-> 0, end |-> 0, start |-> 0]

Init ==
  /\ now = 0
  /\ kickoff \in {k \in [Events -> Nat \cap UNION {KickoffTimes[e] : e \in Events}] :
                    \A e \in Events : k[e] \in KickoffTimes[e]}
  /\ pin = NoPin
  /\ ledger = [c \in Checkpoints |-> Absent]
  /\ observed = {} /\ fetched = [c \in Checkpoints |-> 0]
  /\ pc = [r \in Runs |-> "idle"]
  /\ local = [r \in Runs |-> Fresh]

Goto(r, step, l) == pc' = [pc EXCEPT ![r] = step] /\ local' = [local EXCEPT ![r] = l]
End(r) == Goto(r, "idle", Fresh)
-----------------------------------------------------------------------------
(* Planning. *)

\* listActiveOddsPriorityTargets: the targets whose event has not begun.
ActiveTargets(t) == {c \in Checkpoints \ Pilot : TargetStart[c] > t}

\* fetchSlateEvents: which events the provider lists, when they start, and
\* what it says about the quota.  Others spend the same credits.
Wake(r) ==
  /\ pc[r] = "idle"
  /\ \E listed \in Listings, quota \in Quotas :
       Goto(r, "selecting", [Fresh EXCEPT !.listed = listed, !.slate = kickoff,
                                          !.quota = quota, !.todo = ActiveTargets(now)])
  /\ UNCHANGED <<now, kickoff, pin, ledger, observed, fetched>>

\* The event is known, and when it starts: by the slate, or else by the pin.
Selected(r, row) ==
  LET l == local[r] IN
  Goto(r, "superseding",
       [Fresh EXCEPT !.quota = l.quota, !.event = row.event,
                     !.start = IF row.event \in l.listed THEN l.slate[row.event] ELSE row.start,
                     !.todo = l.todo \cup {c \in Pilot : EventOf[c] = row.event}])

\* selectBaselineEvents without an override; the ids decide among events that
\* start together, which is either way here.
LatestSundays(l) ==
  {e \in l.listed \cap Sundays :
     \A f \in l.listed \cap Sundays : l.slate[f] <= l.slate[e]}

\* An override that is not in the slate ends the run with an error.
SelectEvent(r) ==
  /\ pc[r] = "selecting"
  /\ LET l == local[r] IN
     \/ /\ Override[r] # NoEvent
        /\ IF Override[r] \in l.listed
           THEN Goto(r, "pinning", [l EXCEPT !.event = Override[r]])
           ELSE End(r)
     \/ /\ Override[r] = NoEvent
        /\ pin # NoPin \/ LatestSundays(l) = {}
        /\ Selected(r, pin)
     \/ /\ Override[r] = NoEvent /\ pin = NoPin
        /\ \E e \in LatestSundays(l) : Goto(r, "pinning", [l EXCEPT !.event = e])
  /\ UNCHANGED <<now, kickoff, pin, ledger, observed, fetched>>

\* Variant with a fault: every conflict updates the row.
PinnedLast(r) == [event |-> local[r].event, start |-> local[r].slate[local[r].event]]

\* The row that INSERT ... ON CONFLICT leaves: an explicit override replaces
\* the week's pin, an automatic choice only fills it.
Pinned(r) ==
  IF pin = NoPin \/ Override[r] # NoEvent
  THEN [event |-> local[r].event, start |-> local[r].slate[local[r].event]]
  ELSE pin

PinEvent(r) ==
  /\ pc[r] = "pinning"
  /\ pin' = Pinned(r)
  /\ Selected(r, pin')
  /\ UNCHANGED <<now, kickoff, ledger, observed, fetched>>

\* Nothing is left to upsert: deps.now() is read for the claim.
Plan(r, l) ==
  IF l.todo = {} THEN Goto(r, "claiming", [Fresh EXCEPT !.quota = l.quota, !.at = now])
                 ELSE Goto(r, "upserting", l)

Skipped(row) == [row EXCEPT !.status = "skipped", !.owner = Nobody, !.until = 0]

SupersedeCheckpoints(r) ==
  /\ pc[r] = "superseding"
  /\ ledger' = [c \in Checkpoints |->
       IF /\ local[r].event # NoEvent
          /\ c \in Pilot /\ EventOf[c] # local[r].event
          /\ ledger[c].status \in {"pending", "failed"}
       THEN Skipped(ledger[c]) ELSE ledger[c]]
  /\ Plan(r, local[r])
  /\ UNCHANGED <<now, kickoff, pin, observed, fetched>>

Planned(row, c, start) ==
  [row EXCEPT !.due = IF start > Before[c] THEN start - Before[c] ELSE 0,
              !.end = start - Until[c], !.start = start]

\* Variant with a fault: without the WHERE clause a finished checkpoint whose
\* event moved is pending again.
UpsertedAlways(c, start) == [Planned(Absent, c, start) EXCEPT !.status = "pending"]

\* UPSERT_CHECKPOINTS_SQL: only work that is neither claimed nor finished moves.
Upserted(c, start) ==
  IF ledger[c].status = "absent"
  THEN [Planned(Absent, c, start) EXCEPT !.status = "pending"]
  ELSE IF ledger[c].status \in {"pending", "failed"} THEN Planned(ledger[c], c, start)
       ELSE ledger[c]

\* One statement per rank; a later one does not depend on an earlier one.
UpsertCheckpoints(r) ==
  /\ pc[r] = "upserting"
  /\ \E k \in {Rank[c] : c \in local[r].todo} :
       LET l == local[r]
           batch == {c \in l.todo : Rank[c] = k}
       IN /\ ledger' = [c \in Checkpoints |->
                          IF c \in batch
                          THEN Upserted(c, IF c \in Pilot THEN l.start ELSE TargetStart[c])
                          ELSE ledger[c]]
          /\ Plan(r, [l EXCEPT !.todo = @ \ batch])
  /\ UNCHANGED <<now, kickoff, pin, observed, fetched>>
-----------------------------------------------------------------------------
(* Claiming. *)

\* getOddsCollectionQuotaLimits, for the cost of a whole baseline request.
FullCost == CHOOSE m \in {Cost[c] : c \in Checkpoints} : \A c \in Checkpoints : Cost[c] <= m

MaxRank(quota) ==
  IF quota = 0 THEN 0
  ELSE IF quota = Unknown THEN 20
  ELSE IF quota <= Reserve THEN 20
  ELSE IF quota <= Reserve + FullCost THEN 30 ELSE 40

MaxCost(quota) == IF quota = Unknown THEN FullCost ELSE quota

Limit(quota) ==
  IF quota = Unknown THEN 1
  ELSE IF quota <= Reserve + FullCost THEN 1 ELSE ClaimLimit

\* A claim whose run has not settled it in time.
Lapsed(row, t) == row.status = "claimed" /\ row.until <= t

\* Variant with a fault: the claim of a run that died is not swept.
FinishedUnclaimed(row, t) ==
  /\ row.status \in {"pending", "failed"}
  /\ row.due <= t
  /\ row.end <= t \/ row.attempts >= MaxAttempts

\* The terminal CTE of CLAIM_DUE_SQL.
Finished(row, t) ==
  /\ row.status \in {"pending", "failed"} \/ Lapsed(row, t)
  /\ row.due <= t
  /\ row.end <= t \/ row.attempts >= MaxAttempts

\* Variants with a fault: attempts are not limited; a running lease is taken.
ClaimableAgain(row, t) ==
  /\ row.due <= t /\ row.end > t
  /\ \/ row.status = "pending"
     \/ row.status = "failed" /\ row.next <= t
     \/ Lapsed(row, t)
ClaimableLeased(row, t) ==
  /\ row.due <= t /\ row.end > t /\ row.attempts < MaxAttempts
  /\ \/ row.status \in {"pending", "claimed"}
     \/ row.status = "failed" /\ row.next <= t

\* Its candidate CTE, before the limits of rank and cost.
Claimable(row, t) ==
  /\ row.due <= t /\ row.end > t /\ row.attempts < MaxAttempts
  /\ \/ row.status = "pending"
     \/ row.status = "failed" /\ row.next <= t
     \/ Lapsed(row, t)

\* ORDER BY, up to the ids of rows that are due together.
Sooner(c, d) ==
  \/ Rank[c] < Rank[d]
  \/ Rank[c] = Rank[d] /\ ledger[c].due < ledger[d].due

\* Rows that a statement of another run may hold locked: SKIP LOCKED.
MayBeLocked(c, r) ==
  \E q \in Runs \ {r} :
    \/ pc[q] \in {"superseding", "upserting", "claiming"}
    \/ pc[q] \in Settling /\ Head(local[q].queue).id = c

Claimed(row, r, until) ==
  [row EXCEPT !.status = "claimed", !.owner = r, !.until = until,
              !.attempts = row.attempts + 1, !.next = 0]

\* What a run keeps of a row that its claim returns.
Job(c, until) ==
  [id |-> c, start |-> ledger[c].start, end |-> ledger[c].end, until |-> until]

\* The claim statement on the rows it has found, in their order.
TakeInOrder(r, order) ==
  LET l == local[r]
      taken == {i \in DOMAIN order : i <= Limit(l.quota)}
  IN /\ ledger' = [c \in Checkpoints |->
          IF \E i \in taken : order[i] = c THEN Claimed(ledger[c], r, l.at + Lease)
          ELSE IF Finished(ledger[c], l.at) THEN Skipped(ledger[c])
          ELSE ledger[c]]
     /\ IF taken = {} THEN End(r)
        ELSE Goto(r, "next", [Fresh EXCEPT !.queue =
                                [i \in taken |-> Job(order[i], l.at + Lease)]])

Due(l) ==
  {c \in Checkpoints : /\ Claimable(ledger[c], l.at)
                       /\ Rank[c] <= MaxRank(l.quota) /\ Cost[c] <= MaxCost(l.quota)}

ClaimDue(r) ==
  /\ pc[r] = "claiming"
  /\ \E free \in SUBSET Due(local[r]) : \E order \in SetToSeqs(free) :
       /\ \A c \in Due(local[r]) \ free : MayBeLocked(c, r)
       /\ \A i, j \in DOMAIN order : i < j => ~Sooner(order[j], order[i])
       /\ TakeInOrder(r, order)
  /\ UNCHANGED <<now, kickoff, pin, observed, fetched>>
-----------------------------------------------------------------------------
(* Collecting. *)

Current(r) == Head(local[r].queue)
Stay(r, step) == Goto(r, step, [local[r] EXCEPT !.at = now])

\* The checkpoint is settled, or lost: go on with the next one.
Advance(r) ==
  IF Len(local[r].queue) = 1 THEN End(r)
  ELSE Goto(r, "next", [local[r] EXCEPT !.queue = Tail(@), !.at = 0])

\* Variant with a fault: only the kickoff is looked at.
TooLateForKickoff(r) == now >= Current(r).start

\* Too late to request: at or after kickoff or the end of the window.
TooLate(r) == now >= Current(r).start \/ now >= Current(r).end

BeginFetch(r) ==
  /\ pc[r] = "next"
  /\ IF TooLate(r)
     THEN Stay(r, "skipping") /\ UNCHANGED fetched
     ELSE Stay(r, "fetching") /\ fetched' = [fetched EXCEPT ![Current(r).id] = @ + 1]
  /\ UNCHANGED <<now, kickoff, pin, ledger, observed>>

\* local.at is now capturedAt.
FetchAnswers(r) ==
  /\ pc[r] = "fetching"
  /\ Stay(r, IF now >= Current(r).start THEN "skipping" ELSE "persisting")
  /\ UNCHANGED <<now, kickoff, pin, ledger, observed, fetched>>

\* The catch block: another attempt, if there is time for one.
Caught(r) ==
  LET retryAt == now + RetryDelay IN
  Stay(r, IF retryAt >= Current(r).end \/ retryAt >= Current(r).start
          THEN "skipping" ELSE "failing")

FetchFails(r) ==
  /\ pc[r] = "fetching"
  /\ Caught(r)
  /\ UNCHANGED <<now, kickoff, pin, ledger, observed, fetched>>

\* persistOddsObservation, under a new observation id.
PersistObservation(r) ==
  /\ pc[r] = "persisting"
  /\ observed' = observed \cup {Current(r).id}
  /\ Goto(r, "completing", [local[r] EXCEPT !.at = 0])
  /\ UNCHANGED <<now, kickoff, pin, ledger, fetched>>

\* The statement fails, or only its answer is lost.
PersistFails(r) ==
  /\ pc[r] = "persisting"
  /\ observed' \in {observed, observed \cup {Current(r).id}}
  /\ Caught(r)
  /\ UNCHANGED <<now, kickoff, pin, ledger, fetched>>

\* WHERE status = 'claimed' AND claim_owner = $2: otherwise the lease is lost.
Owns(r) == ledger[Current(r).id].owner = r

Released(row, status, next) ==
  [row EXCEPT !.status = status, !.owner = Nobody, !.until = 0, !.next = next]

\* What complete, fail or skip leaves of the rows.
Settled(r, status, next) ==
  IF Owns(r) THEN [ledger EXCEPT ![Current(r).id] = Released(@, status, next)]
  ELSE ledger

CompleteCheckpoint(r) ==
  /\ pc[r] = "completing"
  /\ ledger' = Settled(r, "completed", 0)
  /\ Advance(r)
  /\ UNCHANGED <<now, kickoff, pin, observed, fetched>>

CompleteFails(r) ==
  /\ pc[r] = "completing"
  /\ ledger' \in {ledger, Settled(r, "completed", 0)}
  /\ Caught(r)
  /\ UNCHANGED <<now, kickoff, pin, observed, fetched>>

FailCheckpoint(r) ==
  /\ pc[r] = "failing"
  /\ ledger' = Settled(r, "failed", local[r].at + RetryDelay)
  /\ Advance(r)
  /\ UNCHANGED <<now, kickoff, pin, observed, fetched>>

SkipCheckpoint(r) ==
  /\ pc[r] = "skipping"
  /\ ledger' = Settled(r, "skipped", 0)
  /\ Advance(r)
  /\ UNCHANGED <<now, kickoff, pin, observed, fetched>>

\* A statement outside the try block throws, or the platform ends the run.
Crash(r) ==
  /\ pc[r] # "idle"
  /\ End(r)
  /\ UNCHANGED <<now, kickoff, pin, ledger, observed, fetched>>
-----------------------------------------------------------------------------
\* The provider postpones an event; events at once later or earlier are a bound.
Reschedule(e) ==
  /\ kickoff' \in {[kickoff EXCEPT ![e] = t] : t \in {u \in KickoffTimes[e] : u > kickoff[e]}}
  /\ UNCHANGED <<now, pin, ledger, observed, fetched, pc, local>>

\* AbortSignal.timeout ends a request in time.
Tick ==
  /\ now < MaxTime
  /\ \A r \in Runs : pc[r] = "fetching" => now < local[r].at + RequestTimeout
  /\ now' = now + 1
  /\ UNCHANGED <<kickoff, pin, ledger, observed, fetched, pc, local>>

RunStep(r) ==
  \/ Wake(r) \/ SelectEvent(r) \/ PinEvent(r)
  \/ SupersedeCheckpoints(r) \/ UpsertCheckpoints(r) \/ ClaimDue(r)
  \/ BeginFetch(r) \/ FetchAnswers(r) \/ FetchFails(r)
  \/ PersistObservation(r) \/ PersistFails(r)
  \/ CompleteCheckpoint(r) \/ CompleteFails(r)
  \/ FailCheckpoint(r) \/ SkipCheckpoint(r)

Next ==
  \/ Tick
  \/ \E e \in Events : Reschedule(e)
  \/ \E r \in Runs : RunStep(r) \/ Crash(r)

Spec == Init /\ [][Next]_vars

\* Time passes, the cron trigger keeps waking runs, and in the end they are no
\* longer killed or failing in their planning every time.
FairSpec ==
  /\ Spec /\ WF_vars(Tick)
  /\ \A r \in Runs : WF_vars(RunStep(r))
  /\ <>[][\A r \in Runs : Crash(r) => RunStep(r)]_vars
-----------------------------------------------------------------------------
\* However leases lapse and runs die, a checkpoint is requested at most once for
\* each attempt the ledger has counted, so it costs at most three requests
\* (odds-collector-operations.md: "at most three attempts").
FetchesBounded ==
  \A c \in Checkpoints : fetched[c] <= ledger[c].attempts /\ ledger[c].attempts <= MaxAttempts

\* Two runs never request the same checkpoint at once while the lease of both is
\* running: a second run takes over a lapsed lease only.
OneRunningLease ==
  \A q, r \in Runs :
    /\ pc[q] = "fetching" /\ pc[r] = "fetching" /\ q # r
    /\ Current(q).id = Current(r).id
    => Current(q).until <= now \/ Current(r).until <= now

\* Finished work stays finished: no upsert, supersession, sweep or late settler
\* touches a completed or skipped checkpoint, and a completed one has evidence.
FinishedIsFinal ==
  [][\A c \in Checkpoints :
       /\ ledger[c].status \in Terminal => ledger'[c] = ledger[c]
       /\ ledger'[c].status = "completed" => c \in observed']_vars

\* The week's first automatic choice is kept by every later automatic run, and by
\* runs that were choosing at the same time; only an override replaces it.
PinHeld ==
  [][pin' # pin => pin = NoPin \/ \E r \in Runs : Override[r] = pin'.event]_vars

\* Evidence belongs to its checkpoint's window: it is captured at most one request
\* timeout after the window closed, never reconstructed later.
CapturedInWindow ==
  \A r \in Runs :
    pc[r] = "persisting" =>
      /\ local[r].at < Current(r).start
      /\ local[r].at < Current(r).end + RequestTimeout

\* Every planned checkpoint is completed or skipped in the end, also when the run
\* that holds it has died.
CheckpointsSettle ==
  <>[](\A c \in Checkpoints : ledger[c].status \in {"absent"} \cup Terminal)
=============================================================================
