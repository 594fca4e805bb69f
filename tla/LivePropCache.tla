---------------------------- MODULE LivePropCache ----------------------------
(***************************************************************************)
(* getOrRefresh (packages/db/src/livePropRefresh.ts) over one row of       *)
(* live_prop_inputs_cache (livePropCache.ts): callers in any number of     *)
(* instances share one upstream fetch.  PostgreSQL owns the refresh lease; *)
(* its holder fetches, renews on a timer, and writes the answer if it      *)
(* still owns the lease.  The others poll, and take over a lapsed lease.   *)
(*                                                                         *)
(* Rows of different keys share nothing, so one row is modelled; the row   *)
(* that is missing and the row that is all NULL are the same to every      *)
(* statement.  A payload stands for the instant its fetch began.           *)
(***************************************************************************)
EXTENDS Integers

CONSTANTS
  Callers,          \* calls of getOrRefresh, one ownerId each
  Nobody,           \* refresh_owner IS NULL
  Ttl, Lease, RefreshTimeout, MaxWait,   \* the options
  AnswerLag,        \* how long the answer to a granted lease takes at most
  StartBy, MaxTime  \* bounds: the last start of a call, the end of the clock

\* getOrRefresh refuses any other timeout.
ASSUME OptionsAssumption ==
  /\ {Ttl, Lease, RefreshTimeout, MaxWait, AnswerLag, StartBy, MaxTime} \subseteq Nat
  /\ RefreshTimeout < Lease
  /\ Nobody \notin Callers

VARIABLES
  now,          \* the clock of callers and database
  fetchedAt,    \* fetched_at, or 0 for NULL
  asked,        \* the payload
  owner,        \* refresh_owner
  leaseUntil,   \* refresh_lease_until, or 0 for NULL
  pc,           \* the await a call is at
  startedAt,    \* startedAtMs
  since,        \* when a call's lease was granted, then when its fetch began
  renewing,     \* renewalInFlight
  aborted       \* the callers whose controller is aborted

row == <<fetchedAt, asked, owner, leaseUntil>>
timers == <<startedAt, since>>
vars == <<now, row, pc, timers, renewing, aborted>>

Refreshing == {"fetching", "writing", "unstored", "giveUp"}
Ended == {"returned", "threw"}
Steps == {"idle", "reading", "acquiring", "refused", "granted"} \cup Refreshing \cup Ended

\* Values the columns and the locals of a call can hold; the clock starts late
\* enough for startedAtMs - ttlMs to be an instant.
TypeOK ==
  /\ now \in Nat /\ fetchedAt \in Nat /\ asked \in Nat /\ leaseUntil \in Nat
  /\ now >= Ttl
  /\ owner \in Callers \cup {Nobody}
  /\ pc \in [Callers -> Steps]
  /\ startedAt \in [Callers -> Nat] /\ since \in [Callers -> Nat]
  /\ renewing \subseteq Callers /\ aborted \subseteq Callers

Goto(c, step) == pc' = [pc EXCEPT ![c] = step]

\* The call is over: its locals are forgotten, and nothing reads its signal.
End(c, step) ==
  /\ Goto(c, step)
  /\ startedAt' = [startedAt EXCEPT ![c] = 0]
  /\ since' = [since EXCEPT ![c] = 0]
  /\ aborted' = aborted \ {c}
Continue(c, step) == Goto(c, step) /\ UNCHANGED <<timers, aborted>>
FreshAfter(c) == startedAt[c] - Ttl

\* The last instant stands for all later ones.
Due(t) == now >= t \/ now = MaxTime

Init ==
  /\ now = Ttl
  /\ fetchedAt = 0 /\ asked = 0 /\ owner = Nobody /\ leaseUntil = 0
  /\ pc = [c \in Callers |-> "idle"]
  /\ startedAt = [c \in Callers |-> 0]
  /\ since = [c \in Callers |-> 0]
  /\ renewing = {} /\ aborted = {}
-----------------------------------------------------------------------------
(* Reading, acquiring and waiting. *)

Call(c) ==
  /\ pc[c] = "idle" /\ now <= StartBy
  /\ startedAt' = [startedAt EXCEPT ![c] = now]
  /\ Goto(c, "reading")
  /\ UNCHANGED <<now, row, since, renewing, aborted>>

Read(c) ==
  /\ pc[c] = "reading"
  /\ IF fetchedAt > FreshAfter(c) THEN End(c, "returned") ELSE Continue(c, "acquiring")
  /\ UNCHANGED <<now, row, renewing>>

\* Variants with a fault: what was written since the read is not looked at; a
\* lease is taken from a holder that is still refreshing.
AcquirableStale(c) == leaseUntil <= now
AcquirableLeased(c) == fetchedAt <= FreshAfter(c)

\* The WHERE clause of tryAcquireRefresh.
Acquirable(c) == fetchedAt <= FreshAfter(c) /\ leaseUntil <= now

TryAcquireRefresh(c) ==
  /\ pc[c] = "acquiring"
  /\ IF Acquirable(c)
     THEN /\ owner' = c /\ leaseUntil' = now + Lease
          /\ since' = [since EXCEPT ![c] = now]
          /\ Goto(c, "granted")
     ELSE Goto(c, "refused") /\ UNCHANGED <<owner, leaseUntil, since>>
  /\ UNCHANGED <<now, fetchedAt, asked, startedAt, renewing, aborted>>

\* Another turn of the loop after waitIntervalMs, or maxWaitMs has passed.
Wait(c) ==
  /\ pc[c] = "refused"
  /\ IF Due(startedAt[c] + MaxWait) THEN End(c, "threw") ELSE Continue(c, "reading")
  /\ UNCHANGED <<now, row, renewing>>
-----------------------------------------------------------------------------
(* The refresh, its timeout and its renewals. *)

\* The lease was granted: start both timers and fetch.
BeginRefresh(c) ==
  /\ pc[c] = "granted"
  /\ since' = [since EXCEPT ![c] = now]
  /\ Goto(c, "fetching")
  /\ UNCHANGED <<now, row, startedAt, renewing, aborted>>

\* Variant with a fault: the signal is not aborted.
AbortNobody(c) == UNCHANGED aborted

\* Nothing reads the signal of a call that has ended.
AbortRefresh(c) == aborted' = IF pc[c] \in Refreshing THEN aborted \cup {c} ELSE aborted

RefreshTimesOut(c) ==
  /\ pc[c] = "fetching" /\ Due(since[c] + RefreshTimeout) /\ c \notin aborted
  /\ AbortRefresh(c)
  /\ UNCHANGED <<now, row, pc, timers, renewing>>

\* The interval fires, at any time: it does nothing while a renewal is in flight
\* or after an abort, and is cleared when the call ends.
RenewalFires(c) ==
  /\ pc[c] \in Refreshing /\ c \notin renewing \cup aborted
  /\ renewing' = renewing \cup {c}
  /\ UNCHANGED <<now, row, pc, timers, aborted>>

\* renew reaches the row, perhaps after the call has ended.
Renew(c) ==
  /\ c \in renewing
  /\ renewing' = renewing \ {c}
  /\ IF owner = c THEN leaseUntil' = now + Lease /\ UNCHANGED aborted
                  ELSE AbortRefresh(c) /\ UNCHANGED leaseUntil
  /\ UNCHANGED <<now, fetchedAt, asked, owner, pc, timers>>

RenewFails(c) ==
  /\ c \in renewing
  /\ renewing' = renewing \ {c}
  /\ AbortRefresh(c)
  /\ UNCHANGED <<now, row, pc, timers>>

\* An answer counts only if nothing has aborted meanwhile.
FetchAnswers(c) ==
  /\ pc[c] = "fetching" /\ c \notin aborted
  /\ Goto(c, "writing")
  /\ UNCHANGED <<now, row, timers, renewing, aborted>>

\* fetchFresh: the odds and the weather are asked for together, one failure aborts the
\* other, and neither may be missing; storing the response as evidence never fails it.
FetchFails(c) ==
  /\ pc[c] = "fetching"
  /\ Goto(c, "giveUp")
  /\ UNCHANGED <<now, row, timers, renewing, aborted>>
-----------------------------------------------------------------------------
(* Writing and releasing. *)

\* What write leaves in the row.
Stored(c) ==
  /\ fetchedAt' = now /\ asked' = since[c]
  /\ owner' = Nobody /\ leaseUntil' = 0

\* Variant with a fault: the row is written whoever owns it.
WriteUnguarded(c) ==
  /\ pc[c] = "writing"
  /\ Stored(c) /\ End(c, "returned")
  /\ UNCHANGED <<now, renewing>>

\* The owner writes; a lost lease is an error that is reported and survived.
Write(c) ==
  /\ pc[c] = "writing"
  /\ IF owner = c THEN Stored(c) /\ End(c, "returned")
                  ELSE Continue(c, "unstored") /\ UNCHANGED row
  /\ UNCHANGED <<now, renewing>>

\* The statement fails, or only its answer is lost.
WriteFails(c) ==
  /\ pc[c] = "writing"
  /\ (owner = c /\ Stored(c)) \/ UNCHANGED row
  /\ Continue(c, "unstored")
  /\ UNCHANGED <<now, renewing>>

\* What release leaves in the row.
Dropped(c) ==
  IF owner = c THEN owner' = Nobody /\ leaseUntil' = 0
               ELSE UNCHANGED <<owner, leaseUntil>>

\* release, whose own failure is ignored; then the fresh payload or the error.
Release(c) ==
  /\ pc[c] \in {"unstored", "giveUp"}
  /\ Dropped(c) \/ UNCHANGED <<owner, leaseUntil>>
  /\ End(c, IF pc[c] = "unstored" THEN "returned" ELSE "threw")
  /\ UNCHANGED <<now, fetchedAt, asked, renewing>>
-----------------------------------------------------------------------------
\* The instance dies, or read or tryAcquireRefresh throws, perhaps after the
\* lease was granted.
Crash(c) ==
  /\ pc[c] \notin {"idle"} \cup Ended
  /\ End(c, "threw")
  /\ UNCHANGED <<now, row, renewing>>

\* Statements and fetches take any time, but the answer to a granted lease is
\* not late, and a timeout that is due fires and ends its fetch.
Tick ==
  /\ now < MaxTime
  /\ \A c \in Callers :
       /\ pc[c] = "granted" => now < since[c] + AnswerLag
       /\ pc[c] = "fetching" => now < since[c] + RefreshTimeout
  /\ now' = now + 1
  /\ UNCHANGED <<row, pc, timers, renewing, aborted>>

Step(c) ==
  \/ Call(c) \/ Read(c) \/ TryAcquireRefresh(c) \/ Wait(c)
  \/ BeginRefresh(c) \/ RefreshTimesOut(c)
  \/ RenewalFires(c) \/ Renew(c) \/ RenewFails(c)
  \/ FetchAnswers(c) \/ FetchFails(c)
  \/ Write(c) \/ WriteFails(c) \/ Release(c)
  \/ Crash(c)

Next == Tick \/ \E c \in Callers : Step(c)

Spec == Init /\ [][Next]_vars

\* Time passes, and every await ends; a fetch is only sure to once it is aborted.
FairSpec ==
  /\ Spec /\ WF_vars(Tick)
  /\ \A c \in Callers :
       /\ WF_vars(Read(c) \/ TryAcquireRefresh(c) \/ Wait(c) \/ BeginRefresh(c))
       /\ WF_vars(RefreshTimesOut(c)) /\ WF_vars(c \in aborted /\ FetchFails(c))
       /\ WF_vars(Write(c) \/ WriteFails(c)) /\ WF_vars(Release(c))
-----------------------------------------------------------------------------
\* Two callers are never both at the upstream (livePropRefresh.ts:34), as long
\* as the answer to a granted lease and the timeout fit into the lease.
OneFetch ==
  \A c, d \in Callers : pc[c] = "fetching" /\ pc[d] = "fetching" => c = d

\* An observation is only replaced by one that was asked for after it had been
\* written, however late a write lands and however often the lease changed hands.
NoOlderOverwrite == [][asked' # asked => asked' >= fetchedAt]_vars

\* Nobody fetches what another caller has refreshed since its own start less
\* the TTL: a follower consumes the leader's observation.
FollowersConsume ==
  [][\A c \in Callers :
       pc[c] # "fetching" /\ pc'[c] = "fetching" => fetchedAt <= FreshAfter(c)]_vars

\* Every call returns or throws, whatever the upstream, the database and the
\* other callers do.
CallsEnd == \A c \in Callers : pc[c] = "reading" ~> pc[c] \in Ended
=============================================================================
