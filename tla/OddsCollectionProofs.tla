------------------------ MODULE OddsCollectionProofs ------------------------
(***************************************************************************)
(* Proofs about OddsCollection for any number of runs, checkpoints and     *)
(* events and for any options.  What a run holds in its queue is tied to   *)
(* the ledger in three ways: the rows it still leases are its own          *)
(* (LeaseHeld), what it is about to complete has evidence (EvidenceKept),  *)
(* and what it has claimed and not yet requested is paid for               *)
(* (RequestsCovered).                                                      *)
(***************************************************************************)
EXTENDS OddsCollection, FiniteSetTheorems, SequenceTheorems, TLAPS

Working == {"next", "fetching"} \cup Settling

Statuses == {"absent", "pending", "claimed", "failed"} \cup Terminal
Rows == [status : Statuses, owner : Runs \cup {Nobody}, until : Nat, attempts : Nat,
         next : Nat, due : Nat, end : Int, start : Nat]
Jobs == [id : Checkpoints, start : Nat, end : Int, until : Nat]
Locals == [listed : SUBSET Events, slate : [Events -> Nat], quota : Quotas \cup {Unknown},
           event : Events \cup {NoEvent}, start : Nat, todo : SUBSET Checkpoints,
           at : Nat, queue : Seq(Jobs)]

\* A run that collects has a checkpoint at hand, and none of them twice.
HasWork(l) ==
  /\ l.queue # <<>>
  /\ \A i, j \in 1..Len(l.queue) : l.queue[i].id = l.queue[j].id => i = j

\* What a run may pin.
PinChoices(r) == IF Override[r] = NoEvent THEN Events ELSE {Override[r]}

TypeOK ==
  /\ now \in Nat
  /\ kickoff \in [Events -> Nat]
  /\ pin \in [event : Events \cup {NoEvent}, start : Nat]
  /\ ledger \in [Checkpoints -> Rows]
  /\ observed \in SUBSET Checkpoints
  /\ fetched \in [Checkpoints -> Nat]
  /\ pc \in [Runs -> Steps]
  /\ local \in [Runs -> Locals]
  /\ \A r \in Runs : pc[r] \in Working => HasWork(local[r])
  /\ \A r \in Runs : pc[r] = "pinning" => local[r].event \in PinChoices(r)
-----------------------------------------------------------------------------
(* Types. *)

LEMMA FreshTyped ==
  /\ Fresh \in Locals /\ Absent \in Rows
  /\ NoPin \in [event : Events \cup {NoEvent}, start : Nat]
BY DEF Fresh, Locals, Absent, Rows, Statuses, NoPin

\* A run that goes on to a step keeps the types if its locals have theirs.
LEMMA GotoTyped ==
  ASSUME TypeOK, NEW r \in Runs, NEW step \in Steps, NEW l \in Locals,
         step \in Working => HasWork(l),
         step = "pinning" => l.event \in PinChoices(r), Goto(r, step, l)
  PROVE  /\ pc' \in [Runs -> Steps] /\ local' \in [Runs -> Locals]
         /\ \A q \in Runs : pc'[q] \in Working => HasWork(local'[q])
         /\ \A q \in Runs : pc'[q] = "pinning" => local'[q].event \in PinChoices(q)
         /\ pc'[r] = step /\ local'[r] = l
         /\ \A q \in Runs \ {r} : pc'[q] = pc[q] /\ local'[q] = local[q]
BY DEF TypeOK, Goto

\* The head of a queue and what is left when it is done.
LEMMA QueueParts ==
  ASSUME TypeOK, NEW r \in Runs, pc[r] \in Working
  PROVE  /\ local[r].queue \in Seq(Jobs) /\ Len(local[r].queue) \in Nat \ {0}
         /\ Current(r) = local[r].queue[1] /\ Current(r) \in Jobs
         /\ Tail(local[r].queue) \in Seq(Jobs)
         /\ Len(Tail(local[r].queue)) = Len(local[r].queue) - 1
         /\ \A i \in 1..(Len(local[r].queue) - 1) :
              Tail(local[r].queue)[i] = local[r].queue[i + 1]
<1>1. local[r].queue \in Seq(Jobs) /\ local[r].queue # <<>>
  BY DEF TypeOK, HasWork, Locals
<1>2. Len(local[r].queue) \in Nat \ {0}
  BY <1>1, EmptySeq
<1>3. Head(local[r].queue) = local[r].queue[1] /\ local[r].queue[1] \in Jobs
  BY <1>1, <1>2, ElementOfSeq
<1>. QED
  BY <1>1, <1>2, <1>3, HeadTailProperties DEF Current

\* Going on with the next checkpoint.
LEMMA AdvanceTyped ==
  ASSUME TypeOK, NEW r \in Runs, pc[r] \in Working, Advance(r)
  PROVE  /\ pc' \in [Runs -> Steps] /\ local' \in [Runs -> Locals]
         /\ \A q \in Runs : pc'[q] \in Working => HasWork(local'[q])
         /\ \A q \in Runs : pc'[q] = "pinning" => local'[q].event \in PinChoices(q)
         /\ \A q \in Runs \ {r} : pc'[q] = pc[q] /\ local'[q] = local[q]
         /\ \/ pc'[r] = "idle" /\ local'[r] = Fresh
            \/ /\ pc'[r] = "next" /\ local'[r].at = 0
               /\ local'[r].queue = Tail(local[r].queue)
<1>1. CASE Len(local[r].queue) = 1
  <2>1. /\ Goto(r, "idle", Fresh) /\ "idle" \in Steps
        /\ "idle" \notin Working /\ "idle" # "pinning"
    BY <1>1 DEF Advance, End, Steps, Working, Settling
  <2>. QED
    BY <2>1, FreshTyped, GotoTyped
<1>2. CASE Len(local[r].queue) # 1
  <2>. DEFINE l == [local[r] EXCEPT !.queue = Tail(@), !.at = 0]
  <2>a. local[r] \in Locals /\ HasWork(local[r])
    BY DEF TypeOK
  <2>1. l \in Locals /\ l.queue = Tail(local[r].queue) /\ l.at = 0
    BY <2>a, QueueParts DEF Locals
  <2>. HIDE DEF l
  <2>2. HasWork(l)
    <3>1. Len(l.queue) = Len(local[r].queue) - 1 /\ Len(l.queue) \in Nat \ {0}
      BY <1>2, <2>1, QueueParts
    <3>2. l.queue # <<>>
      BY <3>1, EmptySeq
    <3>3. \A i, j \in 1..Len(l.queue) : l.queue[i].id = l.queue[j].id => i = j
      BY <2>a, <2>1, <3>1, QueueParts DEF HasWork
    <3>. QED
      BY <3>2, <3>3 DEF HasWork
  <2>3. Goto(r, "next", l)
    BY <1>2 DEF Advance, l
  <2>4. "next" \in Steps /\ "next" # "pinning"
    BY DEF Steps
  <2>. QED
    BY <2>1, <2>2, <2>3, <2>4, GotoTyped
<1>. QED
  BY <1>1, <1>2

\* Staying with the checkpoint at hand.
LEMMA StayTyped ==
  ASSUME TypeOK, NEW r \in Runs, pc[r] \in Working, NEW step \in Working, Stay(r, step)
  PROVE  /\ pc' \in [Runs -> Steps] /\ local' \in [Runs -> Locals]
         /\ \A q \in Runs : pc'[q] \in Working => HasWork(local'[q])
         /\ \A q \in Runs : pc'[q] = "pinning" => local'[q].event \in PinChoices(q)
         /\ \A q \in Runs \ {r} : pc'[q] = pc[q] /\ local'[q] = local[q]
         /\ pc'[r] = step /\ local'[r].at = now /\ local'[r].queue = local[r].queue
<1>. DEFINE l == [local[r] EXCEPT !.at = now]
<1>1. l \in Locals /\ l.queue = local[r].queue /\ l.at = now
  BY ZenonT(40) DEF TypeOK, Locals
<1>2. HasWork(l)
  BY <1>1 DEF TypeOK, HasWork
<1>3. Goto(r, step, l) /\ step \in Steps /\ step # "pinning"
  BY DEF Stay, Steps, Working, Settling
<1>. HIDE DEF l
<1>. QED
  BY <1>1, <1>2, <1>3, GotoTyped

\* A function on the first n numbers is a sequence of length n.
LEMMA FunctionIsSequence ==
  ASSUME NEW S, NEW n \in Nat, NEW f \in [1..n -> S]
  PROVE  f \in Seq(S) /\ Len(f) = n
<1>1. f \in Seq(S)
  BY SeqDef
<1>2. DOMAIN f = 1..Len(f) /\ Len(f) \in Nat
  BY <1>1, LenProperties
<1>3. DOMAIN f = 1..n
  OBVIOUS
<1>4. \A m \in Nat : 1..m = 1..n => m = n
  <2>. SUFFICES ASSUME NEW m \in Nat, 1..m = 1..n PROVE m = n
    OBVIOUS
  <2>1. ~(m < n)
    <3>. SUFFICES ASSUME m < n PROVE FALSE
      OBVIOUS
    <3>1. n \in 1..n /\ n \notin 1..m
      OBVIOUS
    <3>. QED
      BY <3>1
  <2>2. ~(n < m)
    <3>. SUFFICES ASSUME n < m PROVE FALSE
      OBVIOUS
    <3>1. m \in 1..m /\ m \notin 1..n
      OBVIOUS
    <3>. QED
      BY <3>1
  <2>. QED
    BY <2>1, <2>2
<1>. QED
  BY <1>1, <1>2, <1>3, <1>4

\* What the statements write into a row is a row.
LEMMA RowsTyped ==
  ASSUME NEW row \in Rows
  PROVE  /\ Skipped(row) \in Rows
         /\ \A r \in Runs, until \in Nat : Claimed(row, r, until) \in Rows
         /\ \A c \in Checkpoints, start \in Nat : Planned(row, c, start) \in Rows
<1>1. Skipped(row) \in Rows
  BY DEF Rows, Skipped, Statuses, Terminal
<1>2. ASSUME NEW r \in Runs, NEW until \in Nat PROVE Claimed(row, r, until) \in Rows
  <2>. DEFINE attempts == row.attempts + 1
  <2>1. attempts \in Nat
    BY DEF Rows
  <2>2. Claimed(row, r, until) =
          [row EXCEPT !.status = "claimed", !.owner = r, !.until = until,
                      !.attempts = attempts, !.next = 0]
    BY DEF Claimed
  <2>. HIDE DEF attempts
  <2>3. "claimed" \in Statuses /\ r \in Runs \cup {Nobody} /\ until \in Nat /\ 0 \in Nat
    BY <1>2 DEF Statuses
  <2>. DEFINE leased == [row EXCEPT !.status = "claimed", !.owner = r, !.until = until]
  <2>4. leased \in Rows
    BY <2>3 DEF Rows
  <2>5. Claimed(row, r, until) = [leased EXCEPT !.attempts = attempts, !.next = 0]
    BY <2>2
  <2>. HIDE DEF leased
  <2>. QED
    BY <2>1, <2>3, <2>4, <2>5 DEF Rows
<1>3. ASSUME NEW c \in Checkpoints, NEW start \in Nat PROVE Planned(row, c, start) \in Rows
  <2>. DEFINE due == IF start > Before[c] THEN start - Before[c] ELSE 0
              end == start - Until[c]
  <2>1. due \in Nat /\ end \in Int
    BY CollectorAssumption
  <2>2. Planned(row, c, start) = [row EXCEPT !.due = due, !.end = end, !.start = start]
    BY DEF Planned
  <2>. HIDE DEF due, end
  <2>. QED
    BY <2>1, <2>2 DEF Rows
<1>. QED
  BY <1>1, <1>2, <1>3

LEMMA UpsertTyped ==
  ASSUME TypeOK, NEW c \in Checkpoints, NEW start \in Nat
  PROVE  Upserted(c, start) \in Rows
<1>1. Planned(Absent, c, start) \in Rows /\ Planned(ledger[c], c, start) \in Rows
  BY FreshTyped, RowsTyped DEF TypeOK
<1>. QED
  BY <1>1 DEF TypeOK, Upserted, Rows, Statuses

\* A claim takes rows that are claimable, for the same lease, none of them twice.
LEMMA ClaimTakes ==
  ASSUME TypeOK, NEW r \in Runs, ClaimDue(r)
  PROVE  \E taken \in SUBSET Checkpoints :
           /\ \A c \in taken : Claimable(ledger[c], local[r].at)
           /\ ledger' = [c \in Checkpoints |->
                IF c \in taken THEN Claimed(ledger[c], r, local[r].at + Lease)
                ELSE IF Finished(ledger[c], local[r].at) THEN Skipped(ledger[c])
                ELSE ledger[c]]
           /\ \/ End(r)
              \/ \E l \in Locals :
                   /\ HasWork(l) /\ Goto(r, "next", l) /\ l.at = 0
                   /\ \A i \in 1..Len(l.queue) :
                        /\ l.queue[i].id \in taken
                        /\ l.queue[i].until = local[r].at + Lease
<1>. DEFINE at == local[r].at
            until == at + Lease
<1>1. at \in Nat /\ until \in Nat
  BY CollectorAssumption DEF TypeOK, Locals
<1>a. \E free \in SUBSET Due(local[r]) : \E order \in SetToSeqs(free) : TakeInOrder(r, order)
  BY DEF ClaimDue
<1>b. PICK free \in SUBSET Due(local[r]) : \E order \in SetToSeqs(free) : TakeInOrder(r, order)
  BY <1>a
<1>2. PICK order \in SetToSeqs(free) : TakeInOrder(r, order)
  BY <1>b
<1>. DEFINE turns == {i \in DOMAIN order : i <= Limit(local[r].quota)}
            taken == {c \in Checkpoints : \E i \in turns : order[i] = c}
            queue == [i \in turns |-> Job(order[i], until)]
            l == [Fresh EXCEPT !.queue = queue]
<1>3. Cardinality(free) \in Nat
  BY CollectorAssumption, FS_Subset, FS_CardinalityType DEF Due
<1>4. /\ order \in [1..Cardinality(free) -> free]
      /\ \A i, j \in 1..Cardinality(free) : i # j => order[i] # order[j]
  BY <1>2 DEF SetToSeqs
<1>5. taken \in SUBSET Checkpoints /\ \A c \in taken : Claimable(ledger[c], at)
  BY <1>4 DEF Due
<1>6. ledger' = [c \in Checkpoints |->
                IF c \in taken THEN Claimed(ledger[c], r, until)
                ELSE IF Finished(ledger[c], at) THEN Skipped(ledger[c])
                ELSE ledger[c]]
  BY <1>2 DEF TakeInOrder
<1>7. ASSUME turns # {}
      PROVE  l \in Locals /\ HasWork(l) /\ l.at = 0
             /\ \A i \in 1..Len(l.queue) : l.queue[i].id \in taken /\ l.queue[i].until = until
  <2>1. PICK n \in Nat \ {0} : turns = 1..n
    <3>1. Limit(local[r].quota) \in Nat \ {0}
      BY CollectorAssumption DEF Limit
    <3>2. CASE Cardinality(free) <= Limit(local[r].quota)
      BY <1>3, <1>4, <1>7, <3>1, <3>2
    <3>3. CASE ~(Cardinality(free) <= Limit(local[r].quota))
      BY <1>3, <1>4, <3>1, <3>3
    <3>. QED
      BY <3>2, <3>3
  <2>2. \A i \in turns : order[i] \in taken /\ order[i] \in Checkpoints
    BY <1>4 DEF Due
  <2>3. \A i \in turns : Job(order[i], until) \in Jobs
    BY <1>1, <2>2 DEF Job, Jobs, TypeOK, Rows
  <2>4. queue \in [1..n -> Jobs]
    BY <2>1, <2>3
  <2>5. queue \in Seq(Jobs) /\ Len(queue) = n
    BY <2>4, FunctionIsSequence
  <2>6. l \in Locals /\ l.at = 0 /\ l.queue = queue
    BY <2>5, FreshTyped DEF Locals, Fresh
  <2>7. \A i \in 1..n : queue[i].id = order[i] /\ queue[i].until = until
    BY <2>1 DEF Job
  <2>8. \A i, j \in 1..n : order[i] = order[j] => i = j
    BY <1>4, <2>1
  <2>9. queue # <<>>
    BY <2>5, EmptySeq
  <2>. HIDE DEF turns, taken, queue, l
  <2>. QED
    BY <2>1, <2>2, <2>5, <2>6, <2>7, <2>8, <2>9 DEF HasWork
<1>8. IF turns = {} THEN End(r) ELSE Goto(r, "next", l)
  BY <1>2 DEF TakeInOrder
<1>. HIDE DEF turns, taken, queue, l
<1>9. \/ End(r)
      \/ \E k \in Locals :
           /\ HasWork(k) /\ Goto(r, "next", k) /\ k.at = 0
           /\ \A i \in 1..Len(k.queue) :
                k.queue[i].id \in taken /\ k.queue[i].until = until
  BY <1>7, <1>8
<1>. QED
  BY <1>5, <1>6, <1>9

LEMMA SettledTyped ==
  ASSUME TypeOK, NEW r \in Runs, pc[r] \in Working,
         NEW status \in {"completed", "failed", "skipped"}, NEW next \in Nat
  PROVE  Settled(r, status, next) \in [Checkpoints -> Rows]
<1>1. Current(r).id \in Checkpoints
  BY QueueParts DEF Jobs
<1>2. \A row \in Rows : Released(row, status, next) \in Rows
  BY DEF Rows, Released, Statuses, Terminal
<1>. QED
  BY <1>1, <1>2 DEF TypeOK, Settled

\* Every step of a run keeps the types.
LEMMA RunTyped ==
  ASSUME TypeOK, NEW r \in Runs, RunStep(r) \/ Crash(r)
  PROVE  TypeOK'
<1>. DEFINE MovesOn ==
       /\ pc' \in [Runs -> Steps] /\ local' \in [Runs -> Locals]
       /\ \A q \in Runs : pc'[q] \in Working => HasWork(local'[q])
       /\ \A q \in Runs : pc'[q] = "pinning" => local'[q].event \in PinChoices(q)
<1>a. /\ now \in Nat /\ kickoff \in [Events -> Nat] /\ local[r] \in Locals
      /\ pin \in [event : Events \cup {NoEvent}, start : Nat]
      /\ ledger \in [Checkpoints -> Rows] /\ observed \in SUBSET Checkpoints
      /\ fetched \in [Checkpoints -> Nat]
  BY DEF TypeOK
<1>b. ASSUME NEW step \in Steps, step \notin Working, NEW l \in Locals,
             step = "pinning" => l.event \in PinChoices(r), Goto(r, step, l)
      PROVE  MovesOn
  BY <1>b, GotoTyped
<1>c. ASSUME End(r) PROVE MovesOn
  BY <1>b, <1>c, FreshTyped DEF End, Steps, Working, Settling
<1>d. ASSUME NEW row \in [event : Events \cup {NoEvent}, start : Nat], Selected(r, row)
      PROVE  MovesOn
  <2>. DEFINE l == local[r]
              start == IF row.event \in l.listed THEN l.slate[row.event] ELSE row.start
              todo == l.todo \cup {c \in Pilot : EventOf[c] = row.event}
  <2>1. start \in Nat /\ todo \in SUBSET Checkpoints /\ row.event \in Events \cup {NoEvent}
    BY SMTT(20), <1>a, CollectorAssumption DEF Locals
  <2>2. Goto(r, "superseding", [Fresh EXCEPT !.quota = l.quota, !.event = row.event,
                                             !.start = start, !.todo = todo])
    BY <1>d DEF Selected
  <2>. HIDE DEF start, todo
  <2>3. [Fresh EXCEPT !.quota = l.quota, !.event = row.event,
                      !.start = start, !.todo = todo] \in Locals
    BY <1>a, <2>1, FreshTyped DEF Locals
  <2>. QED
    BY <1>b, <2>2, <2>3 DEF Steps, Working, Settling
<1>e. ASSUME NEW l \in Locals, Plan(r, l) PROVE MovesOn
  <2>1. [Fresh EXCEPT !.quota = l.quota, !.at = now] \in Locals
    BY <1>a, FreshTyped DEF Locals
  <2>. QED
    BY <1>b, <1>e, <2>1 DEF Plan, Steps, Working, Settling
<1>f. ASSUME pc[r] \in Working, NEW step \in Working, Stay(r, step) PROVE MovesOn
  BY <1>f, StayTyped
<1>g. ASSUME pc[r] \in Working, Caught(r) PROVE MovesOn
  BY <1>f, <1>g DEF Caught, Working, Settling
<1>h. ASSUME pc[r] \in Working, Advance(r) PROVE MovesOn
  BY <1>h, AdvanceTyped
<1>. HIDE DEF MovesOn
<1>1. CASE Wake(r)
  <2>. SUFFICES ASSUME NEW listed \in Listings, NEW quota \in Quotas,
                       Goto(r, "selecting",
                            [Fresh EXCEPT !.listed = listed, !.slate = kickoff,
                                          !.quota = quota, !.todo = ActiveTargets(now)])
                PROVE  TypeOK'
    BY <1>1 DEF Wake
  <2>1. [Fresh EXCEPT !.listed = listed, !.slate = kickoff,
                      !.quota = quota, !.todo = ActiveTargets(now)] \in Locals
    <3>1. ActiveTargets(now) \in SUBSET Checkpoints /\ listed \in SUBSET Events
      BY CollectorAssumption DEF ActiveTargets
    <3>. QED
      BY <1>a, <3>1, FreshTyped DEF Locals
  <2>2. MovesOn
    BY <1>b, <2>1 DEF Steps, Working, Settling
  <2>. QED
    BY <1>1, <1>a, <2>2 DEF Wake, TypeOK, MovesOn
<1>2. CASE SelectEvent(r)
  <2>1. ASSUME NEW e \in PinChoices(r) \cap Events,
               Goto(r, "pinning", [local[r] EXCEPT !.event = e])
        PROVE  MovesOn
    <3>1. [local[r] EXCEPT !.event = e] \in Locals
          /\ [local[r] EXCEPT !.event = e].event \in PinChoices(r)
      BY <1>a, <2>1 DEF Locals
    <3>. QED
      BY <1>b, <2>1, <3>1 DEF Steps, Working, Settling
  <2>2. local[r].listed \subseteq Events
    BY <1>a DEF Locals
  <2>3. MovesOn
    BY <1>2, <1>a, <1>c, <1>d, <2>1, <2>2 DEF SelectEvent, LatestSundays, PinChoices
  <2>. QED
    BY <1>2, <1>a, <2>3 DEF SelectEvent, TypeOK, MovesOn
<1>3. CASE PinEvent(r)
  <2>1. Pinned(r) \in [event : Events \cup {NoEvent}, start : Nat]
    <3>1. local[r].event \in Events
      BY <1>3, <1>a, CollectorAssumption DEF PinEvent, TypeOK, PinChoices, Locals
    <3>2. local[r].slate[local[r].event] \in Nat
      BY <1>a, <3>1 DEF Locals
    <3>. QED
      BY <1>a, <3>1, <3>2 DEF Pinned
  <2>2. MovesOn
    BY <1>3, <1>d, <2>1 DEF PinEvent
  <2>. QED
    BY <1>3, <1>a, <2>1, <2>2 DEF PinEvent, TypeOK, MovesOn
<1>4. CASE SupersedeCheckpoints(r)
  <2>1. ledger' \in [Checkpoints -> Rows]
    BY <1>4, <1>a, RowsTyped DEF SupersedeCheckpoints
  <2>2. MovesOn
    BY <1>4, <1>a, <1>e DEF SupersedeCheckpoints
  <2>. QED
    BY <1>4, <1>a, <2>1, <2>2 DEF SupersedeCheckpoints, TypeOK, MovesOn
<1>5. CASE UpsertCheckpoints(r)
  <2>. SUFFICES ASSUME NEW k \in {Rank[c] : c \in local[r].todo},
                       LET batch == {c \in local[r].todo : Rank[c] = k}
                       IN /\ ledger' = [c \in Checkpoints |->
                               IF c \in batch
                               THEN Upserted(c, IF c \in Pilot THEN local[r].start
                                                ELSE TargetStart[c])
                               ELSE ledger[c]]
                          /\ Plan(r, [local[r] EXCEPT !.todo = @ \ batch])
                PROVE  TypeOK'
    BY <1>5 DEF UpsertCheckpoints
  <2>. DEFINE batch == {c \in local[r].todo : Rank[c] = k}
              l == [local[r] EXCEPT !.todo = @ \ batch]
  <2>1. \A c \in Checkpoints : (IF c \in Pilot THEN local[r].start ELSE TargetStart[c]) \in Nat
    BY <1>a, CollectorAssumption DEF Locals
  <2>2. ledger' \in [Checkpoints -> Rows]
    BY <1>a, <2>1, UpsertTyped
  <2>3. l \in Locals
    BY <1>a DEF Locals
  <2>4. MovesOn
    BY <1>e, <2>3
  <2>. QED
    BY <1>5, <1>a, <2>2, <2>4 DEF UpsertCheckpoints, TypeOK, MovesOn
<1>6. CASE ClaimDue(r)
  <2>1. PICK taken \in SUBSET Checkpoints :
          /\ ledger' = [c \in Checkpoints |->
               IF c \in taken THEN Claimed(ledger[c], r, local[r].at + Lease)
               ELSE IF Finished(ledger[c], local[r].at) THEN Skipped(ledger[c])
               ELSE ledger[c]]
          /\ \/ End(r)
             \/ \E l \in Locals : HasWork(l) /\ Goto(r, "next", l)
    BY <1>6, ClaimTakes
  <2>2. local[r].at + Lease \in Nat
    BY SMTT(20), <1>a, CollectorAssumption DEF Locals
  <2>3. ledger' \in [Checkpoints -> Rows]
    BY <1>a, <2>1, <2>2, RowsTyped
  <2>4. MovesOn
    <3>1. ASSUME NEW l \in Locals, HasWork(l), Goto(r, "next", l) PROVE MovesOn
      BY <3>1, GotoTyped DEF MovesOn, Steps
    <3>. QED
      BY <1>c, <2>1, <3>1
  <2>. QED
    BY <1>6, <1>a, <2>3, <2>4 DEF ClaimDue, TypeOK, MovesOn
<1>7. CASE BeginFetch(r)
  <2>1. pc[r] \in Working
    BY <1>7 DEF BeginFetch, Working
  <2>2. MovesOn
    BY <1>7, <1>f, <2>1 DEF BeginFetch, Working, Settling
  <2>3. fetched' \in [Checkpoints -> Nat]
    BY <1>7, <1>a, <2>1, QueueParts DEF BeginFetch, Jobs
  <2>. QED
    BY <1>7, <1>a, <2>2, <2>3 DEF BeginFetch, TypeOK, MovesOn
<1>8. CASE FetchAnswers(r)
  <2>1. pc[r] \in Working
    BY <1>8 DEF FetchAnswers, Working
  <2>2. MovesOn
    BY <1>8, <1>f, <2>1 DEF FetchAnswers, Working, Settling
  <2>. QED
    BY <1>8, <1>a, <2>2 DEF FetchAnswers, TypeOK, MovesOn
<1>9. CASE FetchFails(r)
  <2>1. MovesOn
    BY <1>9, <1>g DEF FetchFails, Working
  <2>. QED
    BY <1>9, <1>a, <2>1 DEF FetchFails, TypeOK, MovesOn
<1>10. CASE PersistObservation(r)
  <2>1. pc[r] \in Working
    BY <1>10 DEF PersistObservation, Working, Settling
  <2>2. [local[r] EXCEPT !.at = 0] \in Locals /\ HasWork([local[r] EXCEPT !.at = 0])
    BY <1>a, <2>1 DEF TypeOK, HasWork, Locals
  <2>3. MovesOn
    BY <1>10, <2>2, GotoTyped DEF PersistObservation, MovesOn, Steps, Settling
  <2>. QED
    BY <1>10, <1>a, <2>1, <2>3, QueueParts DEF PersistObservation, TypeOK, MovesOn, Jobs
<1>11. CASE PersistFails(r)
  <2>1. pc[r] \in Working
    BY <1>11 DEF PersistFails, Working, Settling
  <2>2. MovesOn
    BY <1>11, <1>g, <2>1 DEF PersistFails
  <2>. QED
    BY <1>11, <1>a, <2>1, <2>2, QueueParts DEF PersistFails, TypeOK, MovesOn, Jobs
<1>12. CASE CompleteCheckpoint(r)
  <2>1. pc[r] \in Working
    BY <1>12 DEF CompleteCheckpoint, Working, Settling
  <2>. QED
    BY <1>12, <1>a, <1>h, <2>1, SettledTyped DEF CompleteCheckpoint, TypeOK, MovesOn
<1>13. CASE CompleteFails(r)
  <2>1. pc[r] \in Working
    BY <1>13 DEF CompleteFails, Working, Settling
  <2>. QED
    BY <1>13, <1>a, <1>g, <2>1, SettledTyped DEF CompleteFails, TypeOK, MovesOn
<1>14. CASE FailCheckpoint(r)
  <2>1. pc[r] \in Working /\ local[r].at + RetryDelay \in Nat
    BY SMTT(20), <1>14, <1>a, CollectorAssumption DEF FailCheckpoint, Working, Settling, Locals
  <2>. QED
    BY <1>14, <1>a, <1>h, <2>1, SettledTyped DEF FailCheckpoint, TypeOK, MovesOn
<1>15. CASE SkipCheckpoint(r)
  <2>1. pc[r] \in Working
    BY <1>15 DEF SkipCheckpoint, Working, Settling
  <2>. QED
    BY <1>15, <1>a, <1>h, <2>1, SettledTyped DEF SkipCheckpoint, TypeOK, MovesOn
<1>16. CASE Crash(r)
  BY <1>16, <1>a, <1>c DEF Crash, TypeOK, MovesOn
<1>. QED
  BY <1>1, <1>2, <1>3, <1>4, <1>5, <1>6, <1>7, <1>8, <1>9, <1>10, <1>11, <1>12,
     <1>13, <1>14, <1>15, <1>16 DEF RunStep

LEMMA TypedStep == TypeOK /\ [Next]_vars => TypeOK'
<1>. SUFFICES ASSUME TypeOK, [Next]_vars PROVE TypeOK'
  OBVIOUS
<1>1. CASE UNCHANGED vars
  BY <1>1 DEF vars, TypeOK
<1>2. CASE Tick
  BY <1>2 DEF Tick, TypeOK
<1>3. ASSUME NEW e \in Events, Reschedule(e) PROVE TypeOK'
  BY <1>3, CollectorAssumption DEF Reschedule, TypeOK
<1>. QED
  BY <1>1, <1>2, <1>3, RunTyped DEF Next

LEMMA TypedInit == Init => TypeOK
<1>. SUFFICES ASSUME Init PROVE TypeOK
  OBVIOUS
<1>1. kickoff \in [Events -> Nat]
  BY DEF Init
<1>2. ledger \in [Checkpoints -> Rows] /\ local \in [Runs -> Locals] /\ pin = NoPin
  BY FreshTyped DEF Init
<1>. QED
  BY <1>1, <1>2, FreshTyped DEF Init, TypeOK, Steps, Working, Settling

\* Rows, jobs and the locals of every run keep their types, and a run that
\* collects has a checkpoint at hand.
THEOREM CollectorTyped == Spec => []TypeOK
BY TypedInit, TypedStep, PTL DEF Spec
-----------------------------------------------------------------------------
(* What one step of a run may do to its own control and to the ledger. *)

\* Rows that nobody owns are not claimed, and rows not yet planned are blank.
RowsSound ==
  \A c \in Checkpoints :
    /\ ledger[c].status = "absent" => ledger[c] = Absent
    /\ ledger[c].owner # Nobody => ledger[c].status = "claimed"

Closing == {"completing", "failing", "skipping"}

\* A run leaves its queue, starts one, stays with its head or goes on.
ControlStep(r) ==
  \/ pc'[r] \notin Working /\ fetched' = fetched
  \/ ClaimDue(r) /\ pc'[r] = "next" /\ fetched' = fetched
  \/ /\ pc[r] \in Working \ {"failing", "skipping"} /\ pc'[r] \in Working \ {"next"}
     /\ local'[r].queue = local[r].queue
     /\ pc[r] = "completing" => pc'[r] \in {"failing", "skipping"}
     /\ pc'[r] = "completing" => pc[r] = "persisting" /\ Current(r).id \in observed'
     /\ pc'[r] = "persisting" => pc[r] = "fetching" /\ now < Current(r).start
     /\ pc'[r] = "fetching" => pc[r] = "next" /\ ~TooLate(r)
     /\ pc'[r] \in {"fetching", "persisting"} => local'[r].at = now
     /\ fetched' = IF pc'[r] = "fetching"
                   THEN [fetched EXCEPT ![Current(r).id] = @ + 1] ELSE fetched
  \/ /\ pc[r] \in Closing /\ pc'[r] = "next" /\ fetched' = fetched
     /\ local'[r].queue = Tail(local[r].queue)

\* A row is re-planned, swept, claimed or settled by its owner, or it stays.
RowStep(r, c) ==
  \/ ledger'[c] = ledger[c]
  \/ /\ ledger[c].status \in {"absent", "pending", "failed"}
     /\ ledger'[c].status \in {"pending", "failed", "skipped"}
     /\ ledger'[c].owner = Nobody /\ ledger'[c].attempts = ledger[c].attempts
  \/ /\ pc[r] = "claiming" /\ Finished(ledger[c], local[r].at)
     /\ ledger'[c] = Skipped(ledger[c])
  \/ /\ pc[r] = "claiming" /\ Claimable(ledger[c], local[r].at)
     /\ ledger'[c] = Claimed(ledger[c], r, local[r].at + Lease)
  \/ /\ pc[r] \in Closing /\ c = Current(r).id /\ Owns(r)
     /\ \E status \in {"completed", "failed", "skipped"}, next \in Nat :
          /\ ledger'[c] = Released(ledger[c], status, next)
          /\ status = "completed" => pc[r] = "completing"

LEMMA Control ==
  ASSUME TypeOK, NEW r \in Runs, RunStep(r) \/ Crash(r)
  PROVE  /\ ControlStep(r)
         /\ \A q \in Runs \ {r} : pc'[q] = pc[q] /\ local'[q] = local[q]
         /\ now' = now /\ observed \subseteq observed'
         /\ local'[r].at \in {0, now, local[r].at}
<1>. DEFINE Rest ==
       /\ \A q \in Runs \ {r} : pc'[q] = pc[q] /\ local'[q] = local[q]
       /\ now' = now /\ observed \subseteq observed'
       /\ local'[r].at \in {0, now, local[r].at}
<1>a. pc \in [Runs -> Steps] /\ local \in [Runs -> Locals]
  BY DEF TypeOK
<1>b. ASSUME NEW step, NEW l, l.at \in {0, now, local[r].at}, Goto(r, step, l),
             now' = now, observed \subseteq observed'
      PROVE  Rest /\ pc'[r] = step
  BY <1>a, <1>b DEF Goto
<1>c. ASSUME End(r), now' = now, observed \subseteq observed', fetched' = fetched
      PROVE  Rest /\ ControlStep(r)
  BY <1>b, <1>c DEF End, Fresh, ControlStep, Working, Settling
<1>d. ASSUME pc[r] \in {"fetching", "persisting", "completing"}, Caught(r), now' = now,
             observed \subseteq observed', fetched' = fetched
      PROVE  Rest /\ ControlStep(r)
  <2>1. PICK step \in {"skipping", "failing"} : Stay(r, step)
    BY <1>d DEF Caught
  <2>2. pc'[r] = step /\ local'[r].at = now /\ local'[r].queue = local[r].queue
        /\ \A q \in Runs \ {r} : pc'[q] = pc[q] /\ local'[q] = local[q]
    BY <1>d, <2>1, StayTyped DEF Working, Settling
  <2>. QED
    BY <1>d, <2>2 DEF ControlStep, Working, Settling
<1>e. ASSUME pc[r] \in Closing, Advance(r), now' = now, observed \subseteq observed',
             fetched' = fetched
      PROVE  Rest /\ ControlStep(r)
  <2>1. pc[r] \in Working
    BY <1>e DEF Closing, Working, Settling
  <2>2. /\ \A q \in Runs \ {r} : pc'[q] = pc[q] /\ local'[q] = local[q]
        /\ \/ pc'[r] = "idle" /\ local'[r] = Fresh
           \/ /\ pc'[r] = "next" /\ local'[r].at = 0
              /\ local'[r].queue = Tail(local[r].queue)
    BY <1>e, <2>1, AdvanceTyped
  <2>. QED
    BY <1>e, <2>2 DEF ControlStep, Working, Settling, Fresh
<1>f. ASSUME NEW row, Selected(r, row), now' = now, observed' = observed, fetched' = fetched
      PROVE  Rest /\ ControlStep(r)
  <2>1. PICK l : l.at = 0 /\ Goto(r, "superseding", l)
    BY <1>f DEF Selected, Fresh
  <2>. QED
    BY <1>b, <1>f, <2>1 DEF ControlStep, Working, Settling
<1>g. ASSUME NEW l, l.at = local[r].at, Plan(r, l), now' = now, observed' = observed,
             fetched' = fetched
      PROVE  Rest /\ ControlStep(r)
  <2>. DEFINE m == [Fresh EXCEPT !.quota = l.quota, !.at = now]
  <2>1. m.at = now
    BY DEF Fresh
  <2>2. Goto(r, "claiming", m) \/ Goto(r, "upserting", l)
    BY <1>g DEF Plan
  <2>. HIDE DEF m
  <2>3. Rest /\ pc'[r] \in {"claiming", "upserting"}
    BY <1>b, <1>g, <2>1, <2>2
  <2>. QED
    BY <1>g, <2>3 DEF ControlStep, Working, Settling
<1>. HIDE DEF Rest
<1>1. CASE Wake(r)
  <2>1. PICK l : l.at = 0 /\ Goto(r, "selecting", l)
    BY <1>1 DEF Wake, Fresh
  <2>. QED
    BY <1>1, <1>b, <2>1 DEF Wake, Rest, ControlStep, Working, Settling
<1>2. CASE SelectEvent(r)
  <2>1. ASSUME NEW e, Goto(r, "pinning", [local[r] EXCEPT !.event = e])
        PROVE  Rest /\ ControlStep(r)
    <3>. DEFINE m == [local[r] EXCEPT !.event = e]
    <3>1. m.at = local[r].at
      BY <1>a DEF Locals
    <3>2. now' = now /\ observed' = observed /\ fetched' = fetched
      BY <1>2 DEF SelectEvent
    <3>3. Goto(r, "pinning", m)
      BY <2>1
    <3>. HIDE DEF m
    <3>4. Rest /\ pc'[r] = "pinning"
      BY <1>b, <3>1, <3>2, <3>3
    <3>. QED
      BY <3>2, <3>4 DEF ControlStep, Working, Settling
  <2>. QED
    BY <1>2, <1>c, <1>f, <2>1 DEF SelectEvent, Rest
<1>3. CASE PinEvent(r)
  BY <1>3, <1>f DEF PinEvent, Rest
<1>4. CASE SupersedeCheckpoints(r)
  BY <1>4, <1>g DEF SupersedeCheckpoints, Rest
<1>5. CASE UpsertCheckpoints(r)
  <2>1. PICK batch : Plan(r, [local[r] EXCEPT !.todo = @ \ batch])
    BY <1>5 DEF UpsertCheckpoints
  <2>2. [local[r] EXCEPT !.todo = @ \ batch].at = local[r].at
    BY <1>a DEF Locals
  <2>. QED
    BY <1>5, <1>g, <2>1, <2>2 DEF UpsertCheckpoints, Rest
<1>6. CASE ClaimDue(r)
  <2>1. \/ End(r) \/ \E l \in Locals : Goto(r, "next", l) /\ l.at = 0
    BY <1>6, ClaimTakes
  <2>2. now' = now /\ observed' = observed /\ fetched' = fetched
    BY <1>6 DEF ClaimDue
  <2>. QED
    BY <1>6, <1>b, <1>c, <2>1, <2>2 DEF Rest, ControlStep
<1>7. CASE BeginFetch(r)
  <2>1. pc[r] = "next" /\ pc[r] \in Working /\ now' = now /\ observed' = observed
    BY <1>7 DEF BeginFetch, Working
  <2>2. CASE TooLate(r)
    <3>1. Stay(r, "skipping") /\ fetched' = fetched /\ "skipping" \in Working
      BY <1>7, <2>2 DEF BeginFetch, Working, Settling
    <3>2. pc'[r] = "skipping" /\ local'[r].at = now /\ local'[r].queue = local[r].queue
          /\ \A q \in Runs \ {r} : pc'[q] = pc[q] /\ local'[q] = local[q]
      BY <2>1, <3>1, StayTyped
    <3>. QED
      BY <2>1, <3>1, <3>2 DEF Rest, ControlStep, Working
  <2>3. CASE ~TooLate(r)
    <3>1. Stay(r, "fetching") /\ fetched' = [fetched EXCEPT ![Current(r).id] = @ + 1]
          /\ "fetching" \in Working
      BY <1>7, <2>3 DEF BeginFetch, Working
    <3>2. pc'[r] = "fetching" /\ local'[r].at = now /\ local'[r].queue = local[r].queue
          /\ \A q \in Runs \ {r} : pc'[q] = pc[q] /\ local'[q] = local[q]
      BY <2>1, <3>1, StayTyped
    <3>. QED
      BY <2>1, <2>3, <3>1, <3>2 DEF Rest, ControlStep, Working
  <2>. QED
    BY <2>2, <2>3
<1>8. CASE FetchAnswers(r)
  <2>1. pc[r] = "fetching" /\ pc[r] \in Working /\ now' = now /\ observed' = observed
        /\ fetched' = fetched
    BY <1>8 DEF FetchAnswers, Working
  <2>2. PICK step \in {"skipping", "persisting"} :
          Stay(r, step) /\ (step = "persisting" => ~(now >= Current(r).start))
    BY <1>8 DEF FetchAnswers
  <2>3. step \in Working
    BY DEF Working, Settling
  <2>4. pc'[r] = step /\ local'[r].at = now /\ local'[r].queue = local[r].queue
        /\ \A q \in Runs \ {r} : pc'[q] = pc[q] /\ local'[q] = local[q]
    BY <2>1, <2>2, <2>3, StayTyped
  <2>5. step = "persisting" => now < Current(r).start
    BY <2>1, <2>2, QueueParts DEF Jobs, TypeOK
  <2>. QED
    BY <2>1, <2>2, <2>3, <2>4, <2>5 DEF Rest, ControlStep, Working
<1>9. CASE FetchFails(r)
  BY <1>9, <1>d DEF FetchFails, Rest
<1>10. CASE PersistObservation(r)
  <2>1. pc[r] = "persisting" /\ pc[r] \in Working \ {"failing", "skipping"}
        /\ now' = now /\ observed' = observed \cup {Current(r).id} /\ fetched' = fetched
        /\ Goto(r, "completing", [local[r] EXCEPT !.at = 0])
    BY <1>10 DEF PersistObservation, Working, Settling
  <2>2. pc'[r] = "completing" /\ local'[r].queue = local[r].queue /\ local'[r].at = 0
        /\ \A q \in Runs \ {r} : pc'[q] = pc[q] /\ local'[q] = local[q]
    BY <1>a, <2>1 DEF Goto, Locals
  <2>. QED
    BY <2>1, <2>2 DEF Rest, ControlStep, Working, Settling
<1>11. CASE PersistFails(r)
  BY <1>11, <1>d DEF PersistFails, Rest
<1>12. CASE CompleteCheckpoint(r)
  BY <1>12, <1>e DEF CompleteCheckpoint, Closing, Rest
<1>13. CASE CompleteFails(r)
  BY <1>13, <1>d DEF CompleteFails, Rest
<1>14. CASE FailCheckpoint(r)
  BY <1>14, <1>e DEF FailCheckpoint, Closing, Rest
<1>15. CASE SkipCheckpoint(r)
  BY <1>15, <1>e DEF SkipCheckpoint, Closing, Rest
<1>16. CASE Crash(r)
  BY <1>16, <1>c DEF Crash, Rest
<1>. QED
  BY <1>1, <1>2, <1>3, <1>4, <1>5, <1>6, <1>7, <1>8, <1>9, <1>10, <1>11, <1>12,
     <1>13, <1>14, <1>15, <1>16 DEF RunStep, Rest

LEMMA RowFields ==
  ASSUME NEW row \in Rows
  PROVE  /\ Skipped(row).status = "skipped" /\ Skipped(row).owner = Nobody
         /\ Skipped(row).attempts = row.attempts
         /\ \A r, until : /\ Claimed(row, r, until).status = "claimed"
                          /\ Claimed(row, r, until).owner = r
                          /\ Claimed(row, r, until).until = until
                          /\ Claimed(row, r, until).attempts = row.attempts + 1
         /\ \A status, next : /\ Released(row, status, next).status = status
                              /\ Released(row, status, next).owner = Nobody
                              /\ Released(row, status, next).attempts = row.attempts
         /\ \A c, start : /\ Planned(row, c, start).status = row.status
                          /\ Planned(row, c, start).owner = row.owner
                          /\ Planned(row, c, start).attempts = row.attempts
<1>1. /\ Skipped(row).status = "skipped" /\ Skipped(row).owner = Nobody
      /\ Skipped(row).attempts = row.attempts
  BY DEF Rows, Skipped
<1>2. ASSUME NEW r, NEW until
      PROVE  /\ Claimed(row, r, until).status = "claimed" /\ Claimed(row, r, until).owner = r
             /\ Claimed(row, r, until).until = until
             /\ Claimed(row, r, until).attempts = row.attempts + 1
  BY DEF Rows, Claimed
<1>3. ASSUME NEW status, NEW next
      PROVE  /\ Released(row, status, next).status = status
             /\ Released(row, status, next).owner = Nobody
             /\ Released(row, status, next).attempts = row.attempts
  BY DEF Rows, Released
<1>4. ASSUME NEW c, NEW start
      PROVE  /\ Planned(row, c, start).status = row.status
             /\ Planned(row, c, start).owner = row.owner
             /\ Planned(row, c, start).attempts = row.attempts
  BY DEF Rows, Planned
<1>. QED
  BY <1>1, <1>2, <1>3, <1>4

LEMMA RowSteps ==
  ASSUME TypeOK, RowsSound, NEW r \in Runs, RunStep(r) \/ Crash(r)
  PROVE  \A c \in Checkpoints : RowStep(r, c)
<1>a. ASSUME ledger' = ledger PROVE \A c \in Checkpoints : RowStep(r, c)
  BY <1>a DEF RowStep
<1>b. ASSUME pc[r] \in Closing, NEW status \in {"completed", "failed", "skipped"},
             NEW next \in Nat, status = "completed" => pc[r] = "completing",
             ledger' = Settled(r, status, next)
      PROVE  \A c \in Checkpoints : RowStep(r, c)
  <2>1. CASE Owns(r)
    <3>1. \A c \in Checkpoints :
            ledger'[c] = IF c = Current(r).id THEN Released(ledger[c], status, next)
                         ELSE ledger[c]
      BY <1>b, <2>1 DEF Settled, TypeOK
    <3>. QED
      BY <1>b, <2>1, <3>1 DEF RowStep
  <2>2. CASE ~Owns(r)
    BY <1>a, <1>b, <2>2 DEF Settled
  <2>. QED
    BY <2>1, <2>2
<1>1. CASE Wake(r)  BY <1>1, <1>a DEF Wake
<1>2. CASE SelectEvent(r)  BY <1>2, <1>a DEF SelectEvent
<1>3. CASE PinEvent(r)  BY <1>3, <1>a DEF PinEvent
<1>4. CASE SupersedeCheckpoints(r)
  <2>. SUFFICES ASSUME NEW c \in Checkpoints PROVE RowStep(r, c)
    OBVIOUS
  <2>1. \/ ledger'[c] = ledger[c]
        \/ ledger[c].status \in {"pending", "failed"} /\ ledger'[c] = Skipped(ledger[c])
    BY <1>4 DEF SupersedeCheckpoints
  <2>2. ledger[c] \in Rows
    BY DEF TypeOK
  <2>. QED
    BY <2>1, <2>2, RowFields DEF RowStep
<1>5. CASE UpsertCheckpoints(r)
  <2>. SUFFICES ASSUME NEW c \in Checkpoints PROVE RowStep(r, c)
    OBVIOUS
  <2>1. \/ ledger'[c] = ledger[c]
        \/ \E start : ledger'[c] = Upserted(c, start)
    BY <1>5 DEF UpsertCheckpoints
  <2>2. ledger[c] \in Rows /\ Absent \in Rows
    BY FreshTyped DEF TypeOK
  <2>3. ASSUME NEW start, ledger'[c] = Upserted(c, start) PROVE RowStep(r, c)
    <3>1. CASE ledger[c].status = "absent"
      <4>. DEFINE blank == Planned(Absent, c, start)
      <4>1. blank.owner = Nobody /\ blank.attempts = 0
        BY <2>2, RowFields DEF Absent
      <4>2. ledger[c].attempts = 0
        BY <3>1 DEF RowsSound, Absent
      <4>3. /\ ledger'[c] = [blank EXCEPT !.status = "pending"]
            /\ blank = [Absent EXCEPT !.due = blank.due, !.end = blank.end,
                                      !.start = blank.start]
        BY <2>3, <3>1 DEF Upserted, Planned, Absent
      <4>4. /\ ledger'[c].status = "pending" /\ ledger'[c].owner = Nobody
            /\ ledger'[c].attempts = 0
        BY ZenonT(40), <4>3 DEF Absent
      <4>. QED
        BY <3>1, <4>2, <4>4 DEF RowStep
    <3>2. CASE ledger[c].status \in {"pending", "failed"}
      <4>1. ledger'[c] = Planned(ledger[c], c, start) /\ ledger[c].owner = Nobody
        BY <2>3, <3>2 DEF Upserted, RowsSound
      <4>. QED
        BY <2>2, <3>2, <4>1, RowFields DEF RowStep
    <3>3. CASE ledger[c].status \notin {"absent", "pending", "failed"}
      BY <2>3, <3>3 DEF Upserted, RowStep
    <3>. QED
      BY <3>1, <3>2, <3>3
  <2>. QED
    BY <2>1, <2>3 DEF RowStep
<1>6. CASE ClaimDue(r)
  <2>1. pc[r] = "claiming"
    BY <1>6 DEF ClaimDue
  <2>2. PICK taken \in SUBSET Checkpoints :
          /\ \A c \in taken : Claimable(ledger[c], local[r].at)
          /\ ledger' = [c \in Checkpoints |->
               IF c \in taken THEN Claimed(ledger[c], r, local[r].at + Lease)
               ELSE IF Finished(ledger[c], local[r].at) THEN Skipped(ledger[c])
               ELSE ledger[c]]
    BY <1>6, ClaimTakes
  <2>. QED
    BY <2>1, <2>2 DEF RowStep
<1>7. CASE BeginFetch(r)  BY <1>7, <1>a DEF BeginFetch
<1>8. CASE FetchAnswers(r)  BY <1>8, <1>a DEF FetchAnswers
<1>9. CASE FetchFails(r)  BY <1>9, <1>a DEF FetchFails
<1>10. CASE PersistObservation(r)  BY <1>10, <1>a DEF PersistObservation
<1>11. CASE PersistFails(r)  BY <1>11, <1>a DEF PersistFails
<1>12. CASE CompleteCheckpoint(r)  BY <1>12, <1>b DEF CompleteCheckpoint, Closing
<1>13. CASE CompleteFails(r)  BY <1>13, <1>a, <1>b DEF CompleteFails, Closing
<1>14. CASE FailCheckpoint(r)
  <2>1. local[r].at + RetryDelay \in Nat
    BY SMTT(20), CollectorAssumption DEF TypeOK, Locals
  <2>. QED
    BY <1>14, <1>b, <2>1 DEF FailCheckpoint, Closing
<1>15. CASE SkipCheckpoint(r)  BY <1>15, <1>b DEF SkipCheckpoint, Closing
<1>16. CASE Crash(r)  BY <1>16, <1>a DEF Crash
<1>. QED
  BY <1>1, <1>2, <1>3, <1>4, <1>5, <1>6, <1>7, <1>8, <1>9, <1>10, <1>11, <1>12,
     <1>13, <1>14, <1>15, <1>16 DEF RunStep
-----------------------------------------------------------------------------
(* The pin. *)

\* The week's automatic choice is filled once; only an override replaces it.
THEOREM AutomaticPinHeld == Spec => PinHeld
<1>1. TypeOK /\ [Next]_vars
      => [pin' # pin => pin = NoPin \/ \E r \in Runs : Override[r] = pin'.event]_vars
  <2>. DEFINE Held == pin' # pin => pin = NoPin \/ \E r \in Runs : Override[r] = pin'.event
  <2>. SUFFICES ASSUME TypeOK, Next PROVE Held
    OBVIOUS
  <2>. SUFFICES ASSUME pin' # pin, pin # NoPin
                PROVE  \E r \in Runs : Override[r] = pin'.event
    OBVIOUS
  <2>1. PICK r \in Runs : PinEvent(r)
    BY DEF Next, RunStep, Tick, Reschedule, Wake, SelectEvent, SupersedeCheckpoints,
       UpsertCheckpoints, ClaimDue, BeginFetch, FetchAnswers, FetchFails,
       PersistObservation, PersistFails, CompleteCheckpoint, CompleteFails,
       FailCheckpoint, SkipCheckpoint, Crash
  <2>2. Override[r] # NoEvent /\ pin'.event = local[r].event
    BY <2>1 DEF PinEvent, Pinned
  <2>3. local[r].event = Override[r]
    BY <2>1, <2>2 DEF PinEvent, TypeOK, PinChoices
  <2>. QED
    BY <2>2, <2>3
<1>. QED
  BY <1>1, CollectorTyped, PTL DEF Spec, PinHeld
-----------------------------------------------------------------------------
(* Finished work. *)

\* What is completed, or about to be, has its observation.
EvidenceKept ==
  /\ \A c \in Checkpoints : ledger[c].status = "completed" => c \in observed
  /\ \A r \in Runs : pc[r] = "completing" => Current(r).id \in observed

\* What time and the provider do touches neither the ledger nor a run.
LEMMA Environment ==
  ASSUME [Next]_vars, ~\E r \in Runs : RunStep(r) \/ Crash(r)
  PROVE  /\ ledger' = ledger /\ observed' = observed /\ fetched' = fetched
         /\ pc' = pc /\ local' = local
         /\ now' = now \/ Tick
BY DEF Next, Tick, Reschedule, vars

LEMMA SoundStep ==
  ASSUME TypeOK, RowsSound, [Next]_vars
  PROVE  RowsSound'
<1>1. ASSUME NEW r \in Runs, RunStep(r) \/ Crash(r) PROVE RowsSound'
  <2>. SUFFICES ASSUME NEW c \in Checkpoints
                PROVE  /\ ledger'[c].status = "absent" => ledger'[c] = Absent
                       /\ ledger'[c].owner # Nobody => ledger'[c].status = "claimed"
    BY DEF RowsSound
  <2>1. RowStep(r, c) /\ ledger[c] \in Rows
    BY <1>1, RowSteps DEF TypeOK
  <2>. QED
    BY <2>1, RowFields DEF RowStep, RowsSound
<1>. QED
  BY <1>1, Environment DEF RowsSound

\* Finished rows stay as they are, in every step of a run.
LEMMA FinishedStep ==
  ASSUME TypeOK, RowsSound, EvidenceKept, NEW r \in Runs, RunStep(r) \/ Crash(r),
         NEW c \in Checkpoints
  PROVE  /\ ledger[c].status \in Terminal => ledger'[c] = ledger[c]
         /\ ledger'[c].status = "completed" => c \in observed'
<1>1. RowStep(r, c) /\ ledger[c] \in Rows /\ observed \subseteq observed'
  BY RowSteps, Control DEF TypeOK
<1>2. CASE ledger'[c] = ledger[c]
  BY <1>1, <1>2 DEF EvidenceKept
<1>3. CASE /\ ledger[c].status \in {"absent", "pending", "failed"}
           /\ ledger'[c].status \in {"pending", "failed", "skipped"}
  BY <1>3 DEF Terminal
<1>4. CASE Finished(ledger[c], local[r].at) /\ ledger'[c] = Skipped(ledger[c])
  BY <1>1, <1>4, RowFields DEF Finished, Lapsed, Terminal
<1>5. CASE /\ Claimable(ledger[c], local[r].at)
           /\ ledger'[c] = Claimed(ledger[c], r, local[r].at + Lease)
  BY <1>1, <1>5, RowFields DEF Claimable, Lapsed, Terminal
<1>6. ASSUME c = Current(r).id, Owns(r), NEW status \in {"completed", "failed", "skipped"},
             NEW next \in Nat, ledger'[c] = Released(ledger[c], status, next),
             status = "completed" => pc[r] = "completing"
      PROVE  /\ ledger[c].status \in Terminal => ledger'[c] = ledger[c]
             /\ ledger'[c].status = "completed" => c \in observed'
  <2>1. ledger[c].status = "claimed"
    BY <1>6, CollectorAssumption DEF Owns, RowsSound
  <2>. QED
    BY <1>1, <1>6, <2>1, RowFields DEF Terminal, EvidenceKept
<1>. QED
  BY <1>1, <1>2, <1>3, <1>4, <1>5, <1>6 DEF RowStep

LEMMA EvidenceStep ==
  ASSUME TypeOK, RowsSound, EvidenceKept, [Next]_vars
  PROVE  EvidenceKept'
<1>1. ASSUME NEW r \in Runs, RunStep(r) \/ Crash(r) PROVE EvidenceKept'
  <2>1. \A c \in Checkpoints : ledger'[c].status = "completed" => c \in observed'
    BY <1>1, FinishedStep
  <2>2. ASSUME NEW q \in Runs, pc'[q] = "completing" PROVE Current(q)'.id \in observed'
    <3>1. CASE q # r
      BY <1>1, <2>2, <3>1, Control DEF EvidenceKept, Current
    <3>2. CASE q = r
      BY <1>1, <2>2, <3>2, Control DEF ControlStep, Working, Settling, Current
    <3>. QED
      BY <3>1, <3>2
  <2>. QED
    BY <2>1, <2>2 DEF EvidenceKept
<1>. QED
  BY <1>1, Environment DEF EvidenceKept, Current

LEMMA EvidenceInvariant == Spec => [](RowsSound /\ EvidenceKept)
<1>1. Init => RowsSound /\ EvidenceKept
  BY DEF Init, RowsSound, EvidenceKept, Absent
<1>2. TypeOK /\ RowsSound /\ EvidenceKept /\ [Next]_vars => (RowsSound /\ EvidenceKept)'
  BY SoundStep, EvidenceStep
<1>. QED
  BY <1>1, <1>2, CollectorTyped, PTL DEF Spec

\* No statement touches a completed or skipped row, and nothing is completed
\* without evidence.
THEOREM FinishedWorkStays == Spec => FinishedIsFinal
<1>1. TypeOK /\ RowsSound /\ EvidenceKept /\ [Next]_vars
      => [\A c \in Checkpoints :
            /\ ledger[c].status \in Terminal => ledger'[c] = ledger[c]
            /\ ledger'[c].status = "completed" => c \in observed']_vars
  <2>. SUFFICES ASSUME TypeOK, RowsSound, EvidenceKept, Next, NEW c \in Checkpoints
                PROVE  /\ ledger[c].status \in Terminal => ledger'[c] = ledger[c]
                       /\ ledger'[c].status = "completed" => c \in observed'
    OBVIOUS
  <2>1. CASE \E r \in Runs : RunStep(r) \/ Crash(r)
    BY <2>1, FinishedStep
  <2>2. CASE ~\E r \in Runs : RunStep(r) \/ Crash(r)
    BY <2>2, Environment DEF EvidenceKept
  <2>. QED
    BY <2>1, <2>2
<1>. QED
  BY <1>1, CollectorTyped, EvidenceInvariant, PTL DEF Spec, FinishedIsFinal
-----------------------------------------------------------------------------
(* Capture. *)

\* A request begins before kickoff and in the window, and is aborted in time.
RequestInTime ==
  \A r \in Runs : pc[r] = "fetching" =>
    /\ local[r].at < Current(r).start /\ local[r].at < Current(r).end
    /\ now <= local[r].at + RequestTimeout

LEMMA CaptureStep ==
  ASSUME TypeOK, RequestInTime, CapturedInWindow, [Next]_vars
  PROVE  RequestInTime' /\ CapturedInWindow'
<1>a. \A q \in Runs : local[q].at \in Nat
  BY DEF TypeOK, Locals
<1>b. now \in Nat /\ RequestTimeout \in Nat \ {0}
  BY CollectorAssumption DEF TypeOK
<1>1. ASSUME NEW r \in Runs, RunStep(r) \/ Crash(r), NEW q \in Runs
      PROVE  /\ pc'[q] = "fetching" =>
                  /\ local'[q].at < Current(q)'.start /\ local'[q].at < Current(q)'.end
                  /\ now' <= local'[q].at + RequestTimeout
             /\ pc'[q] = "persisting" =>
                  /\ local'[q].at < Current(q)'.start
                  /\ local'[q].at < Current(q)'.end + RequestTimeout
  <2>1. CASE q # r
    BY <1>1, <2>1, Control DEF RequestInTime, CapturedInWindow, Current
  <2>2. CASE q = r /\ pc'[q] \in {"fetching", "persisting"}
    <3>1. /\ now' = now /\ local'[r].at = now /\ Current(r)' = Current(r)
          /\ pc[r] \in Working
          /\ pc'[r] = "fetching" => ~TooLate(r)
          /\ pc'[r] = "persisting" => pc[r] = "fetching" /\ now < Current(r).start
      BY <1>1, <2>2, Control DEF ControlStep, Current, Working, Settling
    <3>2. Current(r).start \in Nat /\ Current(r).end \in Int
      BY <3>1, QueueParts DEF Jobs
    <3>3. CASE pc'[r] = "fetching"
      BY <1>b, <2>2, <3>1, <3>2, <3>3 DEF TooLate
    <3>4. CASE pc'[r] = "persisting"
      BY <1>a, <1>b, <2>2, <3>1, <3>2, <3>4 DEF RequestInTime
    <3>. QED
      BY <2>2, <3>3, <3>4
  <2>. QED
    BY <2>1, <2>2
<1>2. ASSUME Tick PROVE RequestInTime' /\ CapturedInWindow'
  BY <1>a, <1>b, <1>2 DEF Tick, RequestInTime, CapturedInWindow, Current
<1>3. ASSUME pc' = pc, local' = local, now' = now
      PROVE  RequestInTime' /\ CapturedInWindow'
  BY <1>3 DEF RequestInTime, CapturedInWindow, Current
<1>. QED
  BY <1>1, <1>2, <1>3, Environment DEF RequestInTime, CapturedInWindow

\* Evidence that is stored was captured before kickoff, and at most one request
\* timeout after the end of its window.
THEOREM EvidenceCapturedInWindow == Spec => []CapturedInWindow
<1>1. Init => RequestInTime /\ CapturedInWindow
  BY DEF Init, RequestInTime, CapturedInWindow
<1>. QED
  BY <1>1, CaptureStep, CollectorTyped, PTL DEF Spec
-----------------------------------------------------------------------------
(* Leases. *)

\* The jobs of a queue that its run has not tried to settle yet.
Open(step, queue) ==
  {i \in 1..Len(queue) : i > 1 \/ step \notin {"failing", "skipping"}}

\* A job whose lease still runs is the run's own in the ledger.
Held(r, job, rows, t) ==
  job.until > t =>
    /\ rows[job.id].owner = r /\ rows[job.id].status = "claimed"
    /\ rows[job.id].until = job.until

LeaseHeld ==
  /\ \A r \in Runs : local[r].at <= now
  /\ \A r \in Runs : pc[r] \in Working =>
       \A i \in Open(pc[r], local[r].queue) : Held(r, local[r].queue[i], ledger, now)

\* The jobs of a run that has not begun to settle are all open.
LEMMA OpenJobs ==
  ASSUME TypeOK, NEW r \in Runs, pc[r] \in Working
  PROVE  /\ \A i \in Open(pc[r], local[r].queue) :
              local[r].queue[i] \in Jobs /\ i \in Nat \ {0}
         /\ \A i \in 1..Len(local[r].queue) :
              local[r].queue[i].id = Current(r).id => i = 1
<1>1. HasWork(local[r]) /\ local[r].queue \in Seq(Jobs)
  BY QueueParts DEF TypeOK
<1>2. \A i \in 1..Len(local[r].queue) : local[r].queue[i] \in Jobs
  BY <1>1, ElementOfSeq
<1>3. 1 \in 1..Len(local[r].queue) /\ Current(r) = local[r].queue[1]
  BY QueueParts
<1>. QED
  BY <1>1, <1>2, <1>3 DEF Open, HasWork

\* A step of another run leaves a job alone whose lease runs, and so does a step
\* of the run itself unless it settles that job.
LEMMA JobStaysHeld ==
  ASSUME TypeOK, RowsSound, LeaseHeld, NEW r \in Runs, RunStep(r) \/ Crash(r),
         NEW q \in Runs, NEW job \in Jobs, Held(q, job, ledger, now),
         q = r => pc[r] # "claiming" /\ (pc[r] \in Closing => job.id # Current(r).id)
  PROVE  Held(q, job, ledger', now')
<1>. SUFFICES ASSUME job.until > now
              PROVE  /\ ledger'[job.id].owner = q /\ ledger'[job.id].status = "claimed"
                     /\ ledger'[job.id].until = job.until
  BY Control DEF Held
<1>1. /\ ledger[job.id].owner = q /\ ledger[job.id].status = "claimed"
      /\ ledger[job.id].until = job.until
  BY DEF Held
<1>2. job.id \in Checkpoints /\ RowStep(r, job.id)
  BY RowSteps DEF Jobs
<1>3. now \in Nat /\ job.until \in Nat /\ local[r].at \in Nat /\ local[r].at <= now
  BY DEF TypeOK, Jobs, Locals, LeaseHeld
<1>4. ~Lapsed(ledger[job.id], local[r].at)
  BY <1>1, <1>3 DEF Lapsed
<1>5. ~Claimable(ledger[job.id], local[r].at) /\ ~Finished(ledger[job.id], local[r].at)
  BY <1>1, <1>4 DEF Claimable, Finished
<1>6. ~(pc[r] \in Closing /\ job.id = Current(r).id /\ Owns(r))
  BY <1>1 DEF Owns
<1>7. ledger'[job.id] = ledger[job.id]
  BY <1>1, <1>2, <1>5, <1>6 DEF RowStep
<1>. QED
  BY <1>1, <1>7

LEMMA LeaseStep ==
  ASSUME TypeOK, RowsSound, LeaseHeld, [Next]_vars
  PROVE  LeaseHeld'
<1>a. now \in Nat /\ \A q \in Runs : local[q].at \in Nat
  BY DEF TypeOK, Locals
<1>1. ASSUME NEW r \in Runs, RunStep(r) \/ Crash(r) PROVE LeaseHeld'
  <2>1. \A q \in Runs : local'[q].at <= now'
    <3>1. local'[r].at \in {0, now, local[r].at} /\ now' = now
      BY <1>1, Control
    <3>2. local'[r].at <= now'
      BY <1>a, <3>1 DEF LeaseHeld
    <3>3. \A q \in Runs \ {r} : local'[q] = local[q]
      BY <1>1, Control
    <3>. QED
      BY <3>1, <3>2, <3>3 DEF LeaseHeld
  <2>2. ASSUME NEW q \in Runs, q # r, pc'[q] \in Working, NEW i \in Open(pc'[q], local'[q].queue)
        PROVE  Held(q, local'[q].queue[i], ledger', now')
    <3>1. pc'[q] = pc[q] /\ local'[q] = local[q]
      BY <1>1, <2>2, Control
    <3>2. pc[q] \in Working /\ i \in Open(pc[q], local[q].queue)
      BY <2>2, <3>1 DEF Open
    <3>3. Held(q, local[q].queue[i], ledger, now) /\ local[q].queue[i] \in Jobs
      BY <3>2, OpenJobs DEF LeaseHeld
    <3>4. \A j \in Jobs : Held(q, j, ledger, now) => Held(q, j, ledger', now')
      BY <1>1, <2>2, JobStaysHeld
    <3>. QED
      BY <3>1, <3>3, <3>4
  <2>3. ASSUME pc'[r] \in Working, NEW i \in Open(pc'[r], local'[r].queue)
        PROVE  Held(r, local'[r].queue[i], ledger', now')
    <3>1. CASE ClaimDue(r) /\ pc'[r] = "next"
      <4>1. PICK taken \in SUBSET Checkpoints :
              /\ \A c \in taken : Claimable(ledger[c], local[r].at)
              /\ ledger' = [c \in Checkpoints |->
                   IF c \in taken THEN Claimed(ledger[c], r, local[r].at + Lease)
                   ELSE IF Finished(ledger[c], local[r].at) THEN Skipped(ledger[c])
                   ELSE ledger[c]]
              /\ \/ End(r)
                 \/ \E l \in Locals :
                      /\ HasWork(l) /\ Goto(r, "next", l) /\ l.at = 0
                      /\ \A j \in 1..Len(l.queue) :
                           /\ l.queue[j].id \in taken
                           /\ l.queue[j].until = local[r].at + Lease
        BY <3>1, ClaimTakes
      <4>2. ~End(r)
        BY <3>1 DEF End, Goto, TypeOK
      <4>3. PICK l \in Locals :
              /\ Goto(r, "next", l)
              /\ \A j \in 1..Len(l.queue) :
                   l.queue[j].id \in taken /\ l.queue[j].until = local[r].at + Lease
        BY <4>1, <4>2
      <4>4. local'[r] = l /\ i \in 1..Len(l.queue)
        BY <2>3, <4>3 DEF Goto, TypeOK, Open
      <4>5. local'[r].queue[i].id \in taken /\ local'[r].queue[i].until = local[r].at + Lease
        BY <4>3, <4>4
      <4>6. ledger[local'[r].queue[i].id] \in Rows
        BY <4>5 DEF TypeOK
      <4>. QED
        BY <4>1, <4>5, <4>6, RowFields DEF Held
    <3>2. CASE /\ pc[r] \in Working \ {"failing", "skipping"} /\ pc'[r] \in Working \ {"next"}
               /\ local'[r].queue = local[r].queue
               /\ pc[r] = "completing" => pc'[r] \in {"failing", "skipping"}
      <4>1. /\ i \in Open(pc[r], local[r].queue) /\ local[r].queue[i] \in Jobs
            /\ Held(r, local[r].queue[i], ledger, now)
        <5>1. i \in 1..Len(local[r].queue)
          BY <2>3, <3>2 DEF Open
        <5>2. i \in Open(pc[r], local[r].queue)
          BY <3>2, <5>1 DEF Open
        <5>. QED
          BY <3>2, <5>2, OpenJobs DEF LeaseHeld
      <4>2. pc[r] \in Closing => local[r].queue[i].id # Current(r).id
        <5>. SUFFICES ASSUME pc[r] \in Closing PROVE local[r].queue[i].id # Current(r).id
          OBVIOUS
        <5>1. pc'[r] \in {"failing", "skipping"}
          BY <3>2 DEF Closing
        <5>2. i # 1 /\ i \in 1..Len(local[r].queue)
          BY <2>3, <3>2, <5>1 DEF Open
        <5>. QED
          BY <3>2, <5>2, OpenJobs
      <4>3. pc[r] # "claiming"
        BY <3>2 DEF Working, Settling
      <4>4. \A j \in Jobs : Held(r, j, ledger, now) /\ (pc[r] \in Closing => j.id # Current(r).id)
                            => Held(r, j, ledger', now')
        BY <1>1, <4>3, JobStaysHeld
      <4>. QED
        BY <3>2, <4>1, <4>2, <4>4
    <3>3. CASE /\ pc[r] \in Closing /\ pc'[r] = "next"
               /\ local'[r].queue = Tail(local[r].queue)
      <4>1. pc[r] \in Working /\ pc[r] # "claiming"
        BY <3>3 DEF Closing, Working, Settling
      <4>2. i \in 1..(Len(local[r].queue) - 1)
        BY <2>3, <3>3, <4>1, QueueParts DEF Open
      <4>3. local'[r].queue[i] = local[r].queue[i + 1]
        BY <3>3, <4>1, <4>2, QueueParts
      <4>4. /\ i + 1 \in Open(pc[r], local[r].queue)
            /\ i + 1 \in 1..Len(local[r].queue) /\ i + 1 # 1
        BY <4>1, <4>2, QueueParts DEF Open
      <4>5. /\ local[r].queue[i + 1] \in Jobs /\ Held(r, local[r].queue[i + 1], ledger, now)
            /\ local[r].queue[i + 1].id # Current(r).id
        BY <4>1, <4>4, OpenJobs DEF LeaseHeld
      <4>6. \A j \in Jobs : Held(r, j, ledger, now) /\ (pc[r] \in Closing => j.id # Current(r).id)
                            => Held(r, j, ledger', now')
        BY <1>1, <4>1, JobStaysHeld
      <4>. QED
        BY <4>3, <4>5, <4>6
    <3>. QED
      BY SMTT(20), <1>1, <2>3, <3>1, <3>2, <3>3, Control DEF ControlStep
  <2>. QED
    BY <2>1, <2>2, <2>3 DEF LeaseHeld
<1>2. ASSUME pc' = pc, local' = local, ledger' = ledger, now' = now \/ Tick
      PROVE  LeaseHeld'
  <2>1. now' >= now /\ now' \in Nat
    BY <1>a, <1>2 DEF Tick
  <2>2. \A q \in Runs : local'[q].at <= now'
    BY <1>a, <1>2, <2>1 DEF LeaseHeld
  <2>3. ASSUME NEW q \in Runs, pc'[q] \in Working, NEW i \in Open(pc'[q], local'[q].queue)
        PROVE  Held(q, local'[q].queue[i], ledger', now')
    <3>1. pc[q] \in Working /\ i \in Open(pc[q], local[q].queue)
      BY <1>2, <2>3 DEF Open
    <3>2. Held(q, local[q].queue[i], ledger, now) /\ local[q].queue[i].until \in Nat
      BY <3>1, OpenJobs DEF LeaseHeld, Jobs
    <3>. QED
      BY <1>a, <1>2, <2>1, <3>2 DEF Held
  <2>. QED
    BY <2>2, <2>3 DEF LeaseHeld
<1>. QED
  BY <1>1, <1>2, Environment

\* Two runs that request the same checkpoint never both have a running lease.
THEOREM LeasesExclude == Spec => []OneRunningLease
<1>1. Init => LeaseHeld
  BY DEF Init, LeaseHeld, Working, Settling, Fresh
<1>2. TypeOK /\ LeaseHeld => OneRunningLease
  <2>. SUFFICES ASSUME TypeOK, LeaseHeld, NEW q \in Runs, NEW r \in Runs,
                       pc[q] = "fetching", pc[r] = "fetching", q # r,
                       Current(q).id = Current(r).id
                PROVE  Current(q).until <= now \/ Current(r).until <= now
    BY DEF OneRunningLease
  <2>1. ASSUME NEW p \in {q, r}
        PROVE  /\ Current(p).until \in Nat
               /\ Current(p).until > now => ledger[Current(p).id].owner = p
    <3>1. p \in Runs /\ pc[p] \in Working /\ pc[p] = "fetching"
      BY DEF Working
    <3>2. 1 \in Open(pc[p], local[p].queue) /\ Current(p) = local[p].queue[1]
          /\ Current(p).until \in Nat
      BY <3>1, QueueParts DEF Open, Jobs
    <3>. QED
      BY <3>1, <3>2 DEF LeaseHeld, Held
  <2>2. now \in Nat
    BY DEF TypeOK
  <2>. QED
    BY <2>1, <2>2
<1>3. TypeOK /\ RowsSound /\ LeaseHeld /\ [Next]_vars => LeaseHeld'
  BY LeaseStep
<1>. QED
  BY <1>1, <1>2, <1>3, CollectorTyped, EvidenceInvariant, PTL DEF Spec
-----------------------------------------------------------------------------
(* Requests. *)

\* A queue whose run, at this step, has not requested the checkpoint yet.
Unrequested(c, step, queue) ==
  /\ step \in Working
  /\ \E i \in 1..Len(queue) : queue[i].id = c /\ (i > 1 \/ step = "next")

Waiting(c, steps, locals) == {r \in Runs : Unrequested(c, steps[r], locals[r].queue)}

\* Each attempt that the ledger counts has been requested, or waits in a queue, or
\* was given up.
RequestsCovered ==
  \A c \in Checkpoints :
    /\ fetched[c] + Cardinality(Waiting(c, pc, local)) <= ledger[c].attempts
    /\ ledger[c].attempts <= MaxAttempts

LEMMA AttemptsStep ==
  ASSUME TypeOK, RowsSound, NEW r \in Runs, RunStep(r) \/ Crash(r), NEW c \in Checkpoints,
         ledger[c].attempts <= MaxAttempts
  PROVE  /\ ledger'[c].attempts >= ledger[c].attempts
         /\ ledger'[c].attempts <= MaxAttempts
<1>1. RowStep(r, c) /\ ledger[c] \in Rows /\ ledger[c].attempts \in Nat
  BY RowSteps DEF TypeOK, Rows
<1>2. ledger'[c].attempts = ledger[c].attempts
      \/ /\ Claimable(ledger[c], local[r].at)
         /\ ledger'[c].attempts = ledger[c].attempts + 1
  BY <1>1, RowFields DEF RowStep
<1>3. MaxAttempts \in Nat
  BY CollectorAssumption
<1>. QED
  BY <1>1, <1>2, <1>3 DEF Claimable

\* A claim counts an attempt for everything it puts into the queue.
LEMMA ClaimCounts ==
  ASSUME TypeOK, NEW r \in Runs, ClaimDue(r), pc'[r] = "next", NEW c \in Checkpoints,
         Unrequested(c, pc'[r], local'[r].queue)
  PROVE  ledger'[c].attempts = ledger[c].attempts + 1
<1>1. PICK taken \in SUBSET Checkpoints :
        /\ \A d \in taken : Claimable(ledger[d], local[r].at)
        /\ ledger' = [d \in Checkpoints |->
             IF d \in taken THEN Claimed(ledger[d], r, local[r].at + Lease)
             ELSE IF Finished(ledger[d], local[r].at) THEN Skipped(ledger[d])
             ELSE ledger[d]]
        /\ \/ End(r)
           \/ \E l \in Locals :
                /\ HasWork(l) /\ Goto(r, "next", l) /\ l.at = 0
                /\ \A j \in 1..Len(l.queue) :
                     /\ l.queue[j].id \in taken
                     /\ l.queue[j].until = local[r].at + Lease
  BY ClaimTakes
<1>2. ~End(r)
  BY DEF End, Goto, TypeOK
<1>3. PICK l \in Locals :
        /\ Goto(r, "next", l)
        /\ \A j \in 1..Len(l.queue) : l.queue[j].id \in taken
  BY <1>1, <1>2
<1>4. local'[r] = l
  BY <1>3 DEF Goto, TypeOK
<1>5. c \in taken
  BY <1>3, <1>4 DEF Unrequested
<1>. QED
  BY <1>1, <1>5, RowFields DEF TypeOK

\* Who waits for a checkpoint after a step: the same runs; or one more, which has
\* claimed it; or one less, which has requested it.
LEMMA WaitingStep ==
  ASSUME TypeOK, NEW r \in Runs, RunStep(r) \/ Crash(r), NEW c \in Checkpoints
  PROVE  LET W == Waiting(c, pc, local)
             V == Waiting(c, pc', local')
         IN \/ V \subseteq W /\ fetched'[c] = fetched[c]
            \/ /\ V \subseteq W \cup {r} /\ fetched'[c] = fetched[c]
               /\ ledger'[c].attempts = ledger[c].attempts + 1
            \/ V \subseteq W \ {r} /\ r \in W /\ fetched'[c] = fetched[c] + 1
<1>. DEFINE W == Waiting(c, pc, local)
            V == Waiting(c, pc', local')
<1>. SUFFICES \/ V \subseteq W /\ fetched'[c] = fetched[c]
              \/ /\ V \subseteq W \cup {r} /\ fetched'[c] = fetched[c]
                 /\ ledger'[c].attempts = ledger[c].attempts + 1
              \/ V \subseteq W \ {r} /\ r \in W /\ fetched'[c] = fetched[c] + 1
  OBVIOUS
<1>1. \A q \in Runs \ {r} : q \in V <=> q \in W
  BY Control DEF Waiting
<1>2. V \subseteq Runs /\ W \subseteq Runs
  BY DEF Waiting
<1>3. r \in V <=> Unrequested(c, pc'[r], local'[r].queue)
  BY DEF Waiting
<1>4. r \in W <=> Unrequested(c, pc[r], local[r].queue)
  BY DEF Waiting
<1>. HIDE DEF V, W
<1>5. CASE pc'[r] \notin Working /\ fetched' = fetched
  BY <1>1, <1>2, <1>3, <1>5 DEF Unrequested
<1>6. CASE ClaimDue(r) /\ pc'[r] = "next" /\ fetched' = fetched
  <2>1. CASE r \in V
    BY <1>1, <1>2, <1>3, <1>6, <2>1, ClaimCounts
  <2>2. CASE r \notin V
    BY <1>1, <1>2, <1>6, <2>2
  <2>. QED
    BY <2>1, <2>2
<1>7. CASE /\ pc[r] \in Working \ {"failing", "skipping"} /\ pc'[r] \in Working \ {"next"}
           /\ local'[r].queue = local[r].queue
           /\ pc'[r] = "fetching" => pc[r] = "next"
           /\ fetched' = IF pc'[r] = "fetching"
                         THEN [fetched EXCEPT ![Current(r).id] = @ + 1] ELSE fetched
  <2>1. r \in V => r \in W
    BY <1>3, <1>4, <1>7 DEF Unrequested
  <2>2. CASE pc'[r] = "fetching" /\ c = Current(r).id
    <3>1. r \in W
      BY <1>4, <1>7, <2>2, QueueParts DEF Unrequested
    <3>2. r \notin V
      BY <1>3, <1>7, <2>2, OpenJobs DEF Unrequested
    <3>3. fetched'[c] = fetched[c] + 1
      BY <1>7, <2>2 DEF TypeOK
    <3>. QED
      BY <1>1, <1>2, <3>1, <3>2, <3>3
  <2>3. CASE ~(pc'[r] = "fetching" /\ c = Current(r).id)
    <3>1. fetched'[c] = fetched[c]
      BY <1>7, <2>3 DEF TypeOK
    <3>. QED
      BY <1>1, <1>2, <2>1, <3>1
  <2>. QED
    BY <2>2, <2>3
<1>8. CASE /\ pc[r] \in Closing /\ pc'[r] = "next" /\ fetched' = fetched
           /\ local'[r].queue = Tail(local[r].queue)
  <2>1. pc[r] \in Working
    BY <1>8 DEF Closing, Working, Settling
  <2>2. r \in V => r \in W
    <3>. SUFFICES ASSUME NEW i \in 1..Len(local'[r].queue), local'[r].queue[i].id = c
                  PROVE  r \in W
      BY <1>3 DEF Unrequested
    <3>1. i \in 1..(Len(local[r].queue) - 1)
      BY <1>8, <2>1, QueueParts
    <3>2. /\ i + 1 \in 1..Len(local[r].queue) /\ i + 1 > 1
          /\ local[r].queue[i + 1].id = c
      BY <1>8, <2>1, <3>1, QueueParts
    <3>. QED
      BY <1>4, <2>1, <3>2 DEF Unrequested
  <2>. QED
    BY <1>1, <1>2, <1>8, <2>2
<1>. QED
  BY <1>5, <1>6, <1>7, <1>8, Control DEF ControlStep

LEMMA CoveredStep ==
  ASSUME TypeOK, RowsSound, RequestsCovered, [Next]_vars
  PROVE  RequestsCovered'
<1>1. ASSUME NEW r \in Runs, RunStep(r) \/ Crash(r) PROVE RequestsCovered'
  <2>. SUFFICES ASSUME NEW c \in Checkpoints
                PROVE  /\ fetched'[c] + Cardinality(Waiting(c, pc', local'))
                            <= ledger'[c].attempts
                       /\ ledger'[c].attempts <= MaxAttempts
    BY DEF RequestsCovered
  <2>. DEFINE W == Waiting(c, pc, local)
              V == Waiting(c, pc', local')
  <2>1. /\ ledger'[c].attempts >= ledger[c].attempts
        /\ ledger'[c].attempts <= MaxAttempts
    BY <1>1, AttemptsStep DEF RequestsCovered
  <2>2. \/ V \subseteq W /\ fetched'[c] = fetched[c]
        \/ /\ V \subseteq W \cup {r} /\ fetched'[c] = fetched[c]
           /\ ledger'[c].attempts = ledger[c].attempts + 1
        \/ V \subseteq W \ {r} /\ r \in W /\ fetched'[c] = fetched[c] + 1
    BY <1>1, WaitingStep
  <2>3. IsFiniteSet(W)
    BY CollectorAssumption, FS_Subset DEF Waiting
  <2>4. fetched[c] + Cardinality(W) <= ledger[c].attempts
    BY DEF RequestsCovered
  <2>5. fetched[c] \in Nat /\ ledger[c].attempts \in Nat /\ ledger'[c].attempts \in Nat
    BY <1>1, TypedStep DEF TypeOK, Rows
  <2>. HIDE DEF V, W
  <2>6. Cardinality(W) \in Nat
    BY <2>3, FS_CardinalityType
  <2>7. CASE V \subseteq W /\ fetched'[c] = fetched[c]
    <3>1. Cardinality(V) <= Cardinality(W) /\ Cardinality(V) \in Nat
      BY <2>3, <2>7, FS_Subset, FS_CardinalityType
    <3>2. fetched'[c] + Cardinality(V) <= ledger'[c].attempts
      BY <2>1, <2>4, <2>5, <2>6, <2>7, <3>1
    <3>. QED
      BY <2>1, <3>2 DEF V
  <2>8. CASE /\ V \subseteq W \cup {r} /\ fetched'[c] = fetched[c]
             /\ ledger'[c].attempts = ledger[c].attempts + 1
    <3>1. IsFiniteSet(W \cup {r}) /\ Cardinality(W \cup {r}) \in Nat
          /\ Cardinality(W \cup {r}) <= Cardinality(W) + 1
      <4>1. /\ IsFiniteSet(W \cup {r})
            /\ Cardinality(W \cup {r}) = IF r \in W THEN Cardinality(W) ELSE Cardinality(W) + 1
        BY <2>3, FS_AddElement
      <4>. QED
        BY <2>6, <4>1
    <3>2. Cardinality(V) <= Cardinality(W \cup {r}) /\ Cardinality(V) \in Nat
      BY <2>8, <3>1, FS_Subset, FS_CardinalityType
    <3>3. fetched'[c] + Cardinality(V) <= ledger'[c].attempts
      BY <2>4, <2>5, <2>6, <2>8, <3>1, <3>2
    <3>. QED
      BY <2>1, <3>3 DEF V
  <2>9. CASE V \subseteq W \ {r} /\ r \in W /\ fetched'[c] = fetched[c] + 1
    <3>1. IsFiniteSet(W \ {r}) /\ Cardinality(W \ {r}) = Cardinality(W) - 1
          /\ Cardinality(W \ {r}) \in Nat
      <4>1. /\ IsFiniteSet(W \ {r})
            /\ Cardinality(W \ {r}) = IF r \in W THEN Cardinality(W) - 1 ELSE Cardinality(W)
        BY <2>3, FS_RemoveElement
      <4>. QED
        BY <2>9, <4>1, FS_CardinalityType
    <3>2. Cardinality(V) <= Cardinality(W \ {r}) /\ Cardinality(V) \in Nat
      BY <2>9, <3>1, FS_Subset, FS_CardinalityType
    <3>3. fetched'[c] + Cardinality(V) <= ledger'[c].attempts
      BY <2>1, <2>4, <2>5, <2>6, <2>9, <3>1, <3>2
    <3>. QED
      BY <2>1, <3>3 DEF V
  <2>. QED
    BY <2>2, <2>7, <2>8, <2>9
<1>2. ASSUME pc' = pc, local' = local, ledger' = ledger, fetched' = fetched
      PROVE  RequestsCovered'
  BY <1>2 DEF RequestsCovered, Waiting
<1>. QED
  BY <1>1, <1>2, Environment

\* Requests never exceed the attempts that the ledger counts, nor their limit.
THEOREM RequestsBounded == Spec => []FetchesBounded
<1>1. Init => RequestsCovered
  <2>. SUFFICES ASSUME Init, NEW c \in Checkpoints
                PROVE  /\ fetched[c] + Cardinality(Waiting(c, pc, local))
                            <= ledger[c].attempts
                       /\ ledger[c].attempts <= MaxAttempts
    BY DEF RequestsCovered
  <2>1. Waiting(c, pc, local) = {}
    BY DEF Init, Waiting, Unrequested, Working, Settling
  <2>2. Cardinality(Waiting(c, pc, local)) = 0
    BY <2>1, FS_EmptySet
  <2>3. fetched[c] = 0 /\ ledger[c].attempts = 0 /\ MaxAttempts \in Nat
    BY CollectorAssumption DEF Init, Absent
  <2>. QED
    BY <2>2, <2>3
<1>2. TypeOK /\ RequestsCovered => FetchesBounded
  <2>. SUFFICES ASSUME TypeOK, RequestsCovered, NEW c \in Checkpoints
                PROVE  /\ fetched[c] <= ledger[c].attempts
                       /\ ledger[c].attempts <= MaxAttempts
    BY DEF FetchesBounded
  <2>. DEFINE n == Cardinality(Waiting(c, pc, local))
  <2>1. n \in Nat
    BY CollectorAssumption, FS_Subset, FS_CardinalityType DEF Waiting
  <2>2. fetched[c] + n <= ledger[c].attempts /\ ledger[c].attempts <= MaxAttempts
    BY DEF RequestsCovered
  <2>3. fetched[c] \in Nat /\ ledger[c].attempts \in Nat
    BY DEF TypeOK, Rows
  <2>. HIDE DEF n
  <2>. QED
    BY <2>1, <2>2, <2>3
<1>3. TypeOK /\ RowsSound /\ RequestsCovered /\ [Next]_vars => RequestsCovered'
  BY CoveredStep
<1>. QED
  BY <1>1, <1>2, <1>3, CollectorTyped, EvidenceInvariant, PTL DEF Spec
=============================================================================
