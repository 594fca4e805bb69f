------------------------- MODULE LivePropCacheProofs -------------------------
(***************************************************************************)
(* Proofs about LivePropCache for any number of callers and any options.   *)
(* A fetch holds a lease that outlasts its timeout, so nobody else can     *)
(* acquire one; the owner guard of every statement does the rest.          *)
(***************************************************************************)
EXTENDS LivePropCache, TLAPS

\* The answer to a granted lease and the timeout fit into the lease: with the
\* defaults, PostgreSQL answers within ten seconds.
Timely == AnswerLag + RefreshTimeout < Lease

\* Whoever was granted a lease, or fetches under it, owns it beyond its timeout.
LeaseHeld ==
  /\ leaseUntil <= now + Lease
  /\ \A c \in Callers : pc[c] = "granted" =>
       /\ owner = c /\ leaseUntil >= since[c] + Lease
       /\ now <= since[c] + AnswerLag
  /\ \A c \in Callers : pc[c] = "fetching" =>
       /\ owner = c /\ leaseUntil > since[c] + RefreshTimeout
       /\ now <= since[c] + RefreshTimeout

\* The owner asks for an observation after the one in the row was written.
OwnerIsNewer ==
  /\ fetchedAt <= now
  /\ \A c \in Callers :
       owner = c /\ pc[c] \in {"granted", "fetching", "writing"} => since[c] >= fetchedAt

\* What the grant of a lease found stale is still stale when its fetch begins.
GrantedIsStale == \A c \in Callers : pc[c] = "granted" => fetchedAt <= FreshAfter(c)

-----------------------------------------------------------------------------
LEMMA TypedStep == TypeOK /\ [Next]_vars => TypeOK'
<1>. SUFFICES ASSUME TypeOK, [Next]_vars PROVE TypeOK'
  OBVIOUS
<1>. USE OptionsAssumption DEF TypeOK, row, timers, Goto, End, Continue, Steps, Refreshing, Ended
<1>1. CASE UNCHANGED vars
  BY <1>1 DEF vars
<1>2. CASE Tick
  BY <1>2 DEF Tick
<1>3. ASSUME NEW c \in Callers, Step(c) PROVE TypeOK'
  <2>1. CASE Call(c)  BY <2>1 DEF Call
  <2>2. CASE Read(c)  BY <2>2 DEF Read
  <2>3. CASE TryAcquireRefresh(c)  BY <2>3 DEF TryAcquireRefresh
  <2>4. CASE Wait(c)  BY <2>4 DEF Wait
  <2>5. CASE BeginRefresh(c)  BY <2>5 DEF BeginRefresh
  <2>6. CASE RefreshTimesOut(c)  BY <2>6 DEF RefreshTimesOut, AbortRefresh
  <2>7. CASE RenewalFires(c)  BY <2>7 DEF RenewalFires
  <2>8. CASE Renew(c)  BY <2>8 DEF Renew, AbortRefresh
  <2>9. CASE RenewFails(c)  BY <2>9 DEF RenewFails, AbortRefresh
  <2>10. CASE FetchAnswers(c)  BY <2>10 DEF FetchAnswers
  <2>11. CASE FetchFails(c)  BY <2>11 DEF FetchFails
  <2>12. CASE Write(c)  BY <2>12 DEF Write, Stored
  <2>13. CASE WriteFails(c)  BY <2>13 DEF WriteFails, Stored
  <2>14. CASE Release(c)  BY <2>14 DEF Release, Dropped
  <2>15. CASE Crash(c)  BY <2>15 DEF Crash
  <2>. QED
    BY <1>3, <2>1, <2>2, <2>3, <2>4, <2>5, <2>6, <2>7, <2>8, <2>9, <2>10, <2>11,
       <2>12, <2>13, <2>14, <2>15 DEF Step
<1>. QED
  BY <1>1, <1>2, <1>3 DEF Next

\* Columns and locals keep their types.
THEOREM CacheTyped == Spec => []TypeOK
<1>1. Init => TypeOK
  BY OptionsAssumption DEF Init, TypeOK, Steps
<1>. QED
  BY <1>1, TypedStep, PTL DEF Spec
-----------------------------------------------------------------------------
LEMMA LeaseStep ==
  ASSUME Timely, TypeOK, LeaseHeld, [Next]_vars
  PROVE  LeaseHeld'
<1>. USE OptionsAssumption DEF TypeOK, LeaseHeld, row, timers, Goto, End, Continue, Timely
<1>1. CASE UNCHANGED vars
  BY <1>1 DEF vars
<1>2. CASE Tick
  BY <1>2 DEF Tick
<1>3. ASSUME NEW c \in Callers, Step(c) PROVE LeaseHeld'
  <2>1. CASE Call(c)  BY <2>1 DEF Call
  <2>2. CASE Read(c)  BY <2>2 DEF Read
  <2>3. CASE TryAcquireRefresh(c)  BY <2>3 DEF TryAcquireRefresh, Acquirable
  <2>4. CASE Wait(c)  BY <2>4 DEF Wait
  <2>5. CASE BeginRefresh(c)  BY <2>5 DEF BeginRefresh
  <2>6. CASE RefreshTimesOut(c)  BY <2>6 DEF RefreshTimesOut
  <2>7. CASE RenewalFires(c)  BY <2>7 DEF RenewalFires
  <2>8. CASE Renew(c)  BY <2>8 DEF Renew
  <2>9. CASE RenewFails(c)  BY <2>9 DEF RenewFails
  <2>10. CASE FetchAnswers(c)  BY <2>10 DEF FetchAnswers
  <2>11. CASE FetchFails(c)  BY <2>11 DEF FetchFails
  <2>12. CASE Write(c)  BY <2>12 DEF Write, Stored
  <2>13. CASE WriteFails(c)  BY <2>13 DEF WriteFails, Stored
  <2>14. CASE Release(c)  BY <2>14 DEF Release, Dropped
  <2>15. CASE Crash(c)  BY <2>15 DEF Crash
  <2>. QED
    BY <1>3, <2>1, <2>2, <2>3, <2>4, <2>5, <2>6, <2>7, <2>8, <2>9, <2>10, <2>11,
       <2>12, <2>13, <2>14, <2>15 DEF Step
<1>. QED
  BY <1>1, <1>2, <1>3 DEF Next

\* LeaseHeld is inductive together with the types.
THEOREM LeaseInvariant ==
  ASSUME Timely PROVE Spec => [](TypeOK /\ LeaseHeld)
<1>1. Init => TypeOK /\ LeaseHeld
  BY OptionsAssumption DEF Init, TypeOK, Steps, LeaseHeld
<1>2. TypeOK /\ LeaseHeld /\ [Next]_vars => (TypeOK /\ LeaseHeld)'
  BY TypedStep, LeaseStep
<1>. QED
  BY <1>1, <1>2, PTL DEF Spec

\* Two callers are never both at the upstream (livePropRefresh.ts:34).
THEOREM OneCallerFetches ==
  ASSUME Timely PROVE Spec => []OneFetch
<1>1. TypeOK /\ LeaseHeld => OneFetch
  BY DEF LeaseHeld, OneFetch
<1>. QED
  BY <1>1, LeaseInvariant, PTL
-----------------------------------------------------------------------------
LEMMA NewerStep ==
  ASSUME TypeOK, OwnerIsNewer, [Next]_vars
  PROVE  OwnerIsNewer'
<1>. USE OptionsAssumption DEF TypeOK, OwnerIsNewer, row, timers, Goto, End, Continue
<1>1. CASE UNCHANGED vars
  BY <1>1 DEF vars
<1>2. CASE Tick
  BY <1>2 DEF Tick
<1>3. ASSUME NEW c \in Callers, Step(c) PROVE OwnerIsNewer'
  <2>1. CASE Call(c)  BY <2>1 DEF Call
  <2>2. CASE Read(c)  BY <2>2 DEF Read
  <2>3. CASE TryAcquireRefresh(c)  BY <2>3 DEF TryAcquireRefresh
  <2>4. CASE Wait(c)  BY <2>4 DEF Wait
  <2>5. CASE BeginRefresh(c)  BY <2>5 DEF BeginRefresh
  <2>6. CASE RefreshTimesOut(c)  BY <2>6 DEF RefreshTimesOut
  <2>7. CASE RenewalFires(c)  BY <2>7 DEF RenewalFires
  <2>8. CASE Renew(c)  BY <2>8 DEF Renew
  <2>9. CASE RenewFails(c)  BY <2>9 DEF RenewFails
  <2>10. CASE FetchAnswers(c)  BY <2>10 DEF FetchAnswers
  <2>11. CASE FetchFails(c)  BY <2>11 DEF FetchFails
  <2>12. CASE Write(c)  BY <2>12 DEF Write, Stored
  <2>13. CASE WriteFails(c)  BY <2>13 DEF WriteFails, Stored
  <2>14. CASE Release(c)  BY <2>14 DEF Release, Dropped
  <2>15. CASE Crash(c)  BY <2>15 DEF Crash
  <2>. QED
    BY <1>3, <2>1, <2>2, <2>3, <2>4, <2>5, <2>6, <2>7, <2>8, <2>9, <2>10, <2>11,
       <2>12, <2>13, <2>14, <2>15 DEF Step
<1>. QED
  BY <1>1, <1>2, <1>3 DEF Next

\* Only a write changes the payload.
LEMMA WriterOwns ==
  ASSUME [Next]_vars, asked' # asked
  PROVE  \E c \in Callers : owner = c /\ pc[c] = "writing" /\ asked' = since[c]
<1>1. ~UNCHANGED vars
  BY DEF vars, row
<1>2. ~Tick
  BY DEF Tick, row
<1>3. PICK c \in Callers : Step(c)
  BY <1>1, <1>2 DEF Next
<1>4. Write(c) \/ WriteFails(c)
  BY <1>3 DEF Step, Call, Read, TryAcquireRefresh, Wait, BeginRefresh, RefreshTimesOut,
    RenewalFires, Renew, RenewFails, FetchAnswers, FetchFails, Release, Crash, row
<1>5. CASE Write(c)
  BY <1>5 DEF Write, Stored, row
<1>6. CASE WriteFails(c)
  BY <1>6 DEF WriteFails, Stored, row
<1>. QED
  BY <1>4, <1>5, <1>6

\* An observation is only replaced by one that was asked for after it had been
\* written; no assumption about timing is needed, the owner guard suffices.
THEOREM NothingOlderStored == Spec => NoOlderOverwrite
<1>1. Init => TypeOK /\ OwnerIsNewer
  BY OptionsAssumption DEF Init, TypeOK, Steps, OwnerIsNewer
<1>2. TypeOK /\ OwnerIsNewer /\ [Next]_vars => (TypeOK /\ OwnerIsNewer)'
  BY TypedStep, NewerStep
<1>3. TypeOK /\ OwnerIsNewer /\ [Next]_vars => [asked' # asked => asked' >= fetchedAt]_vars
  BY WriterOwns DEF OwnerIsNewer
<1>. QED
  BY <1>1, <1>2, <1>3, PTL DEF Spec, NoOlderOverwrite
-----------------------------------------------------------------------------
LEMMA StaleStep ==
  ASSUME TypeOK, LeaseHeld, GrantedIsStale, [Next]_vars
  PROVE  GrantedIsStale'
<1>. USE DEF TypeOK, GrantedIsStale, FreshAfter, row, timers, Goto, End, Continue
<1>1. CASE UNCHANGED vars
  BY <1>1 DEF vars
<1>2. CASE Tick
  BY <1>2 DEF Tick
<1>3. ASSUME NEW c \in Callers, Step(c) PROVE GrantedIsStale'
  <2>1. CASE Call(c)  BY <2>1 DEF Call
  <2>2. CASE Read(c)  BY <2>2 DEF Read
  <2>3. CASE TryAcquireRefresh(c)  BY <2>3 DEF TryAcquireRefresh, Acquirable
  <2>4. CASE Wait(c)  BY <2>4 DEF Wait
  <2>5. CASE BeginRefresh(c)  BY <2>5 DEF BeginRefresh
  <2>6. CASE RefreshTimesOut(c)  BY <2>6 DEF RefreshTimesOut
  <2>7. CASE RenewalFires(c)  BY <2>7 DEF RenewalFires
  <2>8. CASE Renew(c)  BY <2>8 DEF Renew
  <2>9. CASE RenewFails(c)  BY <2>9 DEF RenewFails
  <2>10. CASE FetchAnswers(c)  BY <2>10 DEF FetchAnswers
  <2>11. CASE FetchFails(c)  BY <2>11 DEF FetchFails
  <2>12. CASE Write(c)  BY <2>12 DEF Write, Stored, LeaseHeld
  <2>13. CASE WriteFails(c)  BY <2>13 DEF WriteFails, Stored, LeaseHeld
  <2>14. CASE Release(c)  BY <2>14 DEF Release, Dropped
  <2>15. CASE Crash(c)  BY <2>15 DEF Crash
  <2>. QED
    BY <1>3, <2>1, <2>2, <2>3, <2>4, <2>5, <2>6, <2>7, <2>8, <2>9, <2>10, <2>11,
       <2>12, <2>13, <2>14, <2>15 DEF Step
<1>. QED
  BY <1>1, <1>2, <1>3 DEF Next

\* A fetch begins only from a grant.
LEMMA FetchersWereGranted ==
  ASSUME TypeOK, [Next]_vars, NEW c \in Callers, pc[c] # "fetching", pc'[c] = "fetching"
  PROVE  pc[c] = "granted"
<1>1. ~UNCHANGED vars
  BY DEF vars
<1>2. ~Tick
  BY DEF Tick
<1>3. PICK d \in Callers : Step(d)
  BY <1>1, <1>2 DEF Next
<1>. USE <1>3 DEF TypeOK, Goto, End, Continue
<1>4. CASE BeginRefresh(d)
  BY <1>4 DEF BeginRefresh
<1>5. CASE ~BeginRefresh(d)
  BY <1>5 DEF Step, Call, Read, TryAcquireRefresh, Wait, RefreshTimesOut,
    RenewalFires, Renew, RenewFails, FetchAnswers, FetchFails, Write, WriteFails, Release, Crash
<1>. QED
  BY <1>4, <1>5

\* Nobody fetches what was refreshed since its own start less the TTL.
THEOREM FollowersConsumeAnswer ==
  ASSUME Timely PROVE Spec => FollowersConsume
<1>. DEFINE Step1 ==
       \A c \in Callers :
         pc[c] # "fetching" /\ pc'[c] = "fetching" => fetchedAt <= FreshAfter(c)
<1>1. Init => GrantedIsStale
  BY DEF Init, GrantedIsStale
<1>2. TypeOK /\ LeaseHeld /\ GrantedIsStale /\ [Next]_vars => GrantedIsStale'
  BY StaleStep
<1>3. TypeOK /\ GrantedIsStale /\ [Next]_vars => [Step1]_vars
  BY FetchersWereGranted DEF GrantedIsStale
<1>. QED
  BY <1>1, <1>2, <1>3, LeaseInvariant, PTL DEF Spec, FollowersConsume
=============================================================================
