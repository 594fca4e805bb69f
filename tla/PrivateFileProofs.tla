-------------------------- MODULE PrivateFileProofs --------------------------
(***************************************************************************)
(* Proofs about PrivateFile, for any review processes, saves and requests. *)
(*                                                                         *)
(* A process in its save owns the lock.  A lock whose process is gone is   *)
(* removed only under the claim that is named for it, which one process    *)
(* holds: the removal cannot meet a lock that was taken since.  That is so *)
(* while at most one process ends; the run of MCLockTakeover shows what    *)
(* two of them lead to.                                                    *)
(***************************************************************************)
EXTENDS PrivateFile, SequenceTheorems, TLAPS

Tokens == Procs \X (Nat \ {0})
Asks == [video : Videos, event : Requests]
Events == [video : Videos, event : Requests, by : Tokens]

\* No token is written as None.
NoneIsNoToken == None \notin Tokens

Holding == {"looking again", "judging again", "removing", "unclaiming"}
Taking == {"reaping", "claiming"} \cup Holding
Owning == {"reading", "writing", "releasing", "failing"}
Stages == {"idle", "acquiring", "looking", "judging"} \cup Taking \cup Owning
Saves == [at : Stages, n : Nat, ask : Asks \cup {None}, seen : Tokens \cup {None},
          key : Tokens \cup {None}, read : Seq(Events)]

\* A token's event is in the file.
Kept(t) == \E i \in DOMAIN content : content[i].by = t

\* A save s of process p: its number, its process.
NumberSound(s, p) ==
  /\ s \in Saves
  /\ since[p] \in Nat \ {0} /\ since[p] <= s.n + 1
  /\ s.at # "idle" => s.n >= 1 /\ since[p] <= s.n /\ s.ask \in Asks

\* What a takeover knows: a lock that is stale now is the one its claim is named for.
TakeoverSound(s, p) ==
  /\ s.at \in Taking => faults >= 1
  /\ s.at \in Taking \ {"reaping"} => s.key \in Tokens
  /\ s.at \in (Taking \ {"reaping", "unclaiming"}) /\ Stale(lock) => s.key = lock
  /\ s.at \in Holding => s.key \in DOMAIN claims /\ claims[s.key] = <<p, s.n>>
  /\ s.at = "judging again" /\ Stale(s.seen) => lock = s.seen
  /\ s.at = "removing" => Stale(lock)

\* What the owner of the lock knows.
WorkSound(s, p) ==
  /\ s.at \in Owning => lock = <<p, s.n>>
  /\ s.at = "writing" /\ file = "captures" =>
       Readable /\ CaptureAllowed(LastOf(content, s.ask.video), s.ask.event)
  /\ s.at = "writing" /\ file = "decisions" => s.read = content
  /\ s.at = "releasing" => Kept(<<p, s.n>>)

SaveSound(s, p) == NumberSound(s, p) /\ TakeoverSound(s, p) /\ WorkSound(s, p)

FilesSound ==
  /\ file \in {"captures", "decisions"}
  /\ content \in Seq(Events)
  /\ file = "decisions" => ~torn
  /\ torn \/ Readable
  /\ lock \in Tokens \cup {None}
  /\ faults \in Nat
  /\ since = [p \in Procs |-> since[p]]
  /\ \A p \in Procs : since[p] > 1 => faults >= 1
  /\ \A t \in saved : Kept(t)

LockSound ==
  /\ FilesSound
  /\ save = [p \in Procs |-> save[p]]
  /\ \A p \in Procs : SaveSound(save[p], p)
-----------------------------------------------------------------------------
(* Tokens. *)

\* The process of a save that is under way is there.
LEMMA LiveToken ==
  ASSUME NEW p \in Procs, NEW s, NumberSound(s, p), s.at # "idle"
  PROVE  /\ <<p, s.n>> \in Tokens /\ ~Gone(<<p, s.n>>) /\ ~Stale(<<p, s.n>>)
         /\ s.ask \in Asks
<1>1. s.n \in Nat \ {0} /\ since[p] \in Nat /\ since[p] <= s.n
  BY DEF NumberSound, Saves
<1>2. <<p, s.n>> \in Tokens  BY <1>1 DEF Tokens
<1>3. ~(s.n < since[p])  BY <1>1
<1>4. QED  BY <1>2, <1>3 DEF Gone, Stale, NumberSound

\* A stale lock is a process that ended.
LEMMA StaleMeansFault ==
  ASSUME LockSound, NEW t \in Tokens \cup {None}, Stale(t)
  PROVE  t \in Tokens /\ faults >= 1
<1>1. t \in Tokens  BY DEF Stale
<1>2. PICK q \in Procs, n \in Nat \ {0} : t = <<q, n>>  BY <1>1 DEF Tokens
<1>3. n < since[q]  BY <1>2 DEF Stale, Gone
<1>4. since[q] \in Nat  BY DEF LockSound, SaveSound, NumberSound
<1>5. since[q] > 1  BY <1>3, <1>4
<1>6. QED  BY <1>1, <1>5 DEF LockSound, FilesSound

\* The steps of a save, as far as the record of the save goes.
LEMMA ToMoves ==
  ASSUME LockSound, NEW p \in Procs, NEW r, r = save[p], NEW a \in Stages, To(p, a)
  PROVE  \E s \in Saves : /\ save' = [save EXCEPT ![p] = s]
                          /\ s.at = a /\ s.n = r.n /\ s.ask = r.ask
                          /\ s.seen = r.seen /\ s.key = r.key /\ s.read = r.read
<1>1. PICK s : s = [r EXCEPT !.at = a]  OBVIOUS
<1>2. r \in Saves  BY DEF LockSound, SaveSound, NumberSound
<1>3. s \in Saves /\ s.at = a /\ s.n = r.n /\ s.ask = r.ask
      /\ s.seen = r.seen /\ s.key = r.key /\ s.read = r.read
  BY <1>1, <1>2 DEF Saves
<1>4. save' = [save EXCEPT ![p] = s]  BY <1>1 DEF To
<1>5. QED  BY <1>3, <1>4

LEMMA WaitMoves ==
  ASSUME LockSound, NEW p \in Procs, NEW r, r = save[p], r.at # "idle", WaitOrFail(p)
  PROVE  \E s \in Saves : /\ save' = [save EXCEPT ![p] = s]
                          /\ s.at \in {"idle", "acquiring"} /\ s.n = r.n
                          /\ s.at # "idle" => s.ask = r.ask
<1>1. r \in Saves  BY DEF LockSound, SaveSound, NumberSound
<1>2. CASE Again(p)
  <2>1. PICK s : s = [r EXCEPT !.at = "acquiring", !.seen = None, !.key = None]  OBVIOUS
  <2>2. s \in Saves /\ s.at = "acquiring" /\ s.n = r.n /\ s.ask = r.ask
    BY <1>1, <2>1 DEF Saves, Stages
  <2>3. save' = [save EXCEPT ![p] = s]  BY <1>2, <2>1 DEF Again
  <2>4. QED  BY <2>2, <2>3
<1>3. CASE Over(p)
  <2>1. PICK s : s = Idle(r.n)  OBVIOUS
  <2>2. s \in Saves /\ s.at = "idle" /\ s.n = r.n
    BY <1>1, <2>1 DEF Saves, Stages, Idle
  <2>3. save' = [save EXCEPT ![p] = s]  BY <1>3, <2>1 DEF Over
  <2>4. QED  BY <2>2, <2>3
<1>4. QED  BY <1>2, <1>3 DEF WaitOrFail

\* A save that neither takes over nor works has nothing to know.
LEMMA AtRest ==
  ASSUME NEW s, NEW p, NumberSound(s, p), s.at \notin Taking \cup Owning
  PROVE  SaveSound(s, p)
  BY DEF SaveSound, TakeoverSound, WorkSound, Taking, Holding, Owning

LEMMA MovedNumber ==
  ASSUME LockSound, NEW p \in Procs, NEW r, r = save[p], r.at # "idle",
         NEW s \in Saves, s.n = r.n, s.at # "idle" => s.ask = r.ask
  PROVE  NumberSound(s, p)
  BY DEF LockSound, SaveSound, NumberSound

\* One save moves on; each of the others is sound still.
LEMMA OneMoves ==
  ASSUME LockSound, NEW p \in Procs, NEW s, save' = [save EXCEPT ![p] = s],
         FilesSound', SaveSound(s, p)',
         \A q \in Procs \ {p} : \A r : r = save[q] => SaveSound(r, q)'
  PROVE  LockSound'
<1>1. \A q \in Procs : save'[q] = IF q = p THEN s ELSE save[q]  BY DEF LockSound
<1>2. save' = [q \in Procs |-> save'[q]]  BY DEF LockSound
<1>3. ASSUME NEW q \in Procs  PROVE SaveSound(save[q], q)'
  <2>1. CASE q = p
    <3>1. save'[q] = s  BY <1>1, <2>1
    <3>2. QED  BY <2>1, <3>1
  <2>2. CASE q # p
    <3>1. PICK r : r = save[q]  OBVIOUS
    <3>2. save'[q] = r  BY <1>1, <2>2, <3>1
    <3>3. SaveSound(r, q)'  BY <2>2, <3>1
    <3>4. QED  BY <3>2, <3>3
  <2>3. QED  BY <2>1, <2>2
<1>4. QED  BY <1>2, <1>3 DEF LockSound

\* A step of one save that changes no file.
LEMMA SaveMoves ==
  ASSUME LockSound, NEW p \in Procs, NEW s, save' = [save EXCEPT ![p] = s],
         UNCHANGED <<file, content, torn, lock, claims, since, saved, faults>>,
         SaveSound(s, p)
  PROVE  LockSound'
<1>1. ASSUME NEW q, NEW r, SaveSound(r, q)  PROVE SaveSound(r, q)'
  <2>1. NumberSound(r, q)'  BY <1>1 DEF SaveSound, NumberSound
  <2>2. TakeoverSound(r, q)'  BY <1>1 DEF SaveSound, TakeoverSound, Stale, Gone
  <2>3. Readable => Readable'  BY DEF Readable
  <2>4. WorkSound(r, q)'  BY <1>1, <2>3 DEF SaveSound, WorkSound, Kept
  <2>5. QED  BY <2>1, <2>2, <2>4 DEF SaveSound
<1>2. FilesSound'  BY DEF LockSound, FilesSound, Kept, Readable
<1>3. QED  BY <1>1, <1>2, OneMoves DEF LockSound
-----------------------------------------------------------------------------
(* Reading and writing. *)

\* An event the file allows makes a file that can be read.
LEMMA ReadableGrows ==
  ASSUME content \in Seq(Events), Readable, NEW e \in Events,
         file = "captures" => CaptureAllowed(LastOf(content, e.video), e.event),
         content' = Append(content, e), UNCHANGED <<file, torn>>
  PROVE  Readable'
<1>1. PICK c : c = content  OBVIOUS
<1>2. PICK d : d = Append(c, e)  OBVIOUS
<1>3. /\ c \in Seq(Events) /\ d \in Seq(Events) /\ DOMAIN c = 1..Len(c)
      /\ DOMAIN d = 1..(Len(c) + 1) /\ Len(c) \in Nat /\ Len(d) = Len(c) + 1
      /\ d[Len(c) + 1] = e /\ \A i \in 1..Len(c) : d[i] = c[i]
  BY <1>1, <1>2
<1>4. ASSUME NEW i \in 1..(Len(c) + 1)  PROVE SubSeq(d, 1, i - 1) = SubSeq(c, 1, i - 1)
  <2>1. PICK m \in Int : m = i - 1 /\ m <= Len(c)  BY <1>3
  <2>2. \A k \in 1..m : c[k] \in Events /\ d[k] \in Events /\ d[k] = c[k]  BY <1>3, <2>1
  <2>3. /\ SubSeq(d, 1, m) \in Seq(Events) /\ SubSeq(c, 1, m) \in Seq(Events)
        /\ Len(SubSeq(d, 1, m)) = Len(SubSeq(c, 1, m))
        /\ \A k \in 1..(m - 1 + 1) : /\ SubSeq(d, 1, m)[k] = d[1 + k - 1]
                                     /\ SubSeq(c, 1, m)[k] = c[1 + k - 1]
        /\ Len(SubSeq(c, 1, m)) = IF 1 <= m THEN m - 1 + 1 ELSE 0
    BY <2>2, SubSeqProperties
  <2>4. \A k \in 1..Len(SubSeq(c, 1, m)) : SubSeq(d, 1, m)[k] = SubSeq(c, 1, m)[k]
    BY <2>2, <2>3
  <2>5. SubSeq(d, 1, m) = SubSeq(c, 1, m)  BY <2>3, <2>4, SeqEqual
  <2>6. QED  BY <2>1, <2>5
<1>5. SubSeq(c, 1, (Len(c) + 1) - 1) = c
  <2>1. (Len(c) + 1) - 1 = Len(c)  BY <1>3
  <2>2. SubSeq(c, 1, Len(c)) = c  BY <1>3, SubSeqFull
  <2>3. QED  BY <2>1, <2>2
<1>6. ASSUME file = "captures", NEW i \in DOMAIN d
      PROVE  CaptureAllowed(LastOf(SubSeq(d, 1, i - 1), d[i].video), d[i].event)
  <2>1. SubSeq(d, 1, i - 1) = SubSeq(c, 1, i - 1)  BY <1>3, <1>4
  <2>2. CASE i \in DOMAIN c
    <3>1. d[i] = c[i]  BY <1>3, <2>2
    <3>2. CaptureAllowed(LastOf(SubSeq(c, 1, i - 1), c[i].video), c[i].event)
      BY <1>1, <1>6, <2>2 DEF Readable
    <3>3. QED  BY <2>1, <3>1, <3>2
  <2>3. CASE i = Len(c) + 1
    <3>1. d[i] = e /\ SubSeq(d, 1, i - 1) = c  BY <1>3, <1>5, <2>1, <2>3
    <3>2. QED  BY <1>1, <1>6, <3>1
  <2>4. QED  BY <1>3, <2>2, <2>3
<1>7. content' = d /\ ~torn'  BY <1>1, <1>2 DEF Readable
<1>8. QED
  <2>1. \A i \in DOMAIN d : file = "captures" =>
          CaptureAllowed(LastOf(SubSeq(d, 1, i - 1), d[i].video), d[i].event)
    BY <1>6
  <2>2. QED  BY <1>7, <2>1 DEF Readable

\* A written event is in the file, and the others stay.
LEMMA KeptGrows ==
  ASSUME content \in Seq(Events), NEW e \in Events, content' = Append(content, e)
  PROVE  content' \in Seq(Events) /\ Kept(e.by)' /\ \A t : Kept(t) => Kept(t)'
<1>1. /\ content' \in Seq(Events) /\ DOMAIN content = 1..Len(content) /\ Len(content) \in Nat
      /\ DOMAIN content' = 1..(Len(content) + 1) /\ content'[Len(content) + 1] = e
      /\ \A i \in 1..Len(content) : content'[i] = content[i]
  OBVIOUS
<1>2. Kept(e.by)'
  <2>1. Len(content) + 1 \in DOMAIN content'  BY <1>1
  <2>2. QED  BY <1>1, <2>1 DEF Kept
<1>3. ASSUME NEW t, Kept(t)  PROVE Kept(t)'
  <2>1. PICK i \in DOMAIN content : content[i].by = t  BY <1>3 DEF Kept
  <2>2. i \in DOMAIN content' /\ content'[i].by = t  BY <1>1, <2>1
  <2>3. QED  BY <2>2 DEF Kept
<1>4. QED  BY <1>1, <1>2, <1>3

\* What the owner of the lock writes, whole or in part.
LEMMA WrittenSound ==
  ASSUME LockSound, NEW p \in Procs, NEW r, r = save[p], r.at = "writing", UNCHANGED file,
         \/ HalfWritten(p)
         \/ /\ content' = Append(IF file = "captures" THEN content ELSE r.read, Event(p))
            /\ UNCHANGED torn
  PROVE  /\ content' \in Seq(Events) /\ (file = "decisions" => ~torn')
         /\ torn' \/ Readable'
         /\ \A t : Kept(t) => Kept(t)'

<1>1. /\ SaveSound(r, p) /\ content \in Seq(Events) /\ (torn \/ Readable)
      /\ file \in {"captures", "decisions"} /\ (file = "decisions" => ~torn)
  BY DEF LockSound, FilesSound
<1>2. PICK e : e = Event(p)  OBVIOUS
<1>3. e \in Events /\ e.video = r.ask.video /\ e.event = r.ask.event
  <2>1. r.ask \in Asks /\ <<p, r.n>> \in Tokens  BY <1>1, LiveToken DEF SaveSound
  <2>2. e = [video |-> r.ask.video, event |-> r.ask.event, by |-> <<p, r.n>>]
    BY <1>2 DEF Event, Token
  <2>3. QED  BY <2>1, <2>2 DEF Asks, Events
<1>4. /\ file = "captures" =>
           Readable /\ CaptureAllowed(LastOf(content, e.video), e.event)
      /\ file = "decisions" => r.read = content
  BY <1>1, <1>3 DEF SaveSound, WorkSound
<1>5. CASE UNCHANGED <<content, torn>>
  <2>1. Readable => Readable'  BY <1>5 DEF Readable
  <2>2. \A t : Kept(t) => Kept(t)'  BY <1>5 DEF Kept
  <2>3. QED  BY <1>1, <1>5, <2>1, <2>2
<1>6. CASE content' = Append(content, e) /\ UNCHANGED torn
  <2>1. Readable  BY <1>1, <1>4
  <2>2. Readable'  BY <1>1, <1>3, <1>4, <1>6, <2>1, ReadableGrows
  <2>3. QED  BY <1>1, <1>3, <1>6, <2>2, KeptGrows
<1>7. CASE file = "captures" /\ torn' = TRUE /\ UNCHANGED content
  <2>1. \A t : Kept(t) => Kept(t)'  BY <1>7 DEF Kept
  <2>2. QED  BY <1>1, <1>7, <2>1
<1>8. \/ UNCHANGED <<content, torn>>
      \/ content' = Append(content, e) /\ UNCHANGED torn
      \/ file = "captures" /\ torn' = TRUE /\ UNCHANGED content
  <2>1. CASE HalfWritten(p)  BY <1>1, <1>2, <1>4, <2>1 DEF HalfWritten
  <2>2. CASE ~HalfWritten(p)  BY <1>1, <1>2, <1>4, <2>2
  <2>3. QED  BY <2>1, <2>2
<1>9. QED  BY <1>5, <1>6, <1>7, <1>8
-----------------------------------------------------------------------------
(* The steps of a save. *)

\* The others know what they knew, when no file they look at changes.
LEMMA OthersTakeOver ==
  ASSUME NEW r, NEW q, TakeoverSound(r, q), faults \in Nat, faults' \in Nat, faults' >= faults,
         UNCHANGED <<lock, claims, since>>
  PROVE  TakeoverSound(r, q)'
<1>1. faults >= 1 => faults' >= 1  OBVIOUS
<1>2. QED  BY <1>1 DEF TakeoverSound, Stale, Gone

\* Only one save owns the lock.
LEMMA OneOwner ==
  ASSUME LockSound, NEW p \in Procs, save[p].at \in Owning,
         NEW q \in Procs \ {p}, NEW r, r = save[q]
  PROVE  r.at \notin Owning
<1>1. WorkSound(r, q) /\ WorkSound(save[p], p)  BY DEF LockSound, SaveSound
<1>2. <<p, save[p].n>> # <<q, r.n>>  OBVIOUS
<1>3. QED  BY <1>1, <1>2 DEF WorkSound

LEMMA IdleWork ==
  ASSUME NEW r, NEW q, r.at \notin Owning
  PROVE  WorkSound(r, q)'
  BY DEF WorkSound, Owning

\* Before the work: the lock is taken when it is free.
LEMMA BeforeWork ==
  ASSUME LockSound, NoneIsNoToken, NEW p \in Procs,
         BeginSave(p) \/ AcquireLock(p)
  PROVE  LockSound'
<1>1. PICK r : r = save[p]  OBVIOUS
<1>2. SaveSound(r, p) /\ NumberSound(r, p) /\ r \in Saves
  BY <1>1 DEF LockSound, SaveSound, NumberSound
<1>3. CASE BeginSave(p)
  <2>1. PICK v \in Videos, e \in Requests :
          save' = [save EXCEPT ![p] = [Idle(@.n + 1) EXCEPT !.at = "acquiring",
                                                                 !.ask = [video |-> v, event |-> e]]]
    BY <1>3 DEF BeginSave
  <2>2. PICK ask : ask = [video |-> v, event |-> e]  OBVIOUS
  <2>3. PICK n \in Nat : n = r.n + 1  BY <1>2 DEF Saves
  <2>4. PICK s : s = [Idle(n) EXCEPT !.at = "acquiring", !.ask = ask]  OBVIOUS
  <2>5. s \in Saves /\ s.at = "acquiring" /\ s.n = n /\ s.ask \in Asks
    <3>1. ask \in Asks  BY <2>2 DEF Asks
    <3>2. s = [at |-> "acquiring", n |-> n, ask |-> ask, seen |-> None, key |-> None,
               read |-> << >>]
      BY <2>4 DEF Idle
    <3>3. QED  BY <3>1, <3>2 DEF Saves, Stages
  <2>6. NumberSound(s, p)  BY <1>2, <2>3, <2>5 DEF NumberSound, Saves
  <2>7. SaveSound(s, p)  BY <2>5, <2>6, AtRest DEF Taking, Holding, Owning
  <2>8. save' = [save EXCEPT ![p] = s]  BY <1>1, <2>1, <2>2, <2>3, <2>4
  <2>9. QED  BY <1>3, <2>7, <2>8, SaveMoves DEF BeginSave
<1>4. CASE AcquireLock(p) /\ lock = None
  <2>1. /\ r.at = "acquiring" /\ lock' = <<p, r.n>> /\ To(p, "reading")
        /\ UNCHANGED <<file, content, torn, claims, since, saved, faults>>
    BY <1>1, <1>4 DEF AcquireLock, Token
  <2>2. /\ lock' \in Tokens /\ ~Gone(lock)' /\ ~Stale(lock)'
    BY <1>2, <2>1, LiveToken DEF Gone, Stale
  <2>3. PICK a : a = "reading"  OBVIOUS
  <2>4. PICK s \in Saves : /\ save' = [save EXCEPT ![p] = s]
                           /\ s.at = a /\ s.n = r.n /\ s.ask = r.ask
                           /\ s.seen = r.seen /\ s.key = r.key /\ s.read = r.read
    <3>1. a \in Stages /\ To(p, a)
      BY <1>1, <2>1, <2>3 DEF Stages, Owning
    <3>2. QED  BY <1>1, <3>1, ToMoves
  <2>5. NumberSound(s, p)'
    BY <1>1, <2>1, <2>3, <2>4, MovedNumber DEF NumberSound
  <2>6. SaveSound(s, p)'
    BY <2>1, <2>3, <2>4, <2>5 DEF SaveSound, TakeoverSound, WorkSound, Taking, Holding
  <2>7. ASSUME NEW q \in Procs \ {p}, NEW o, o = save[q]  PROVE SaveSound(o, q)'
    <3>1. NumberSound(o, q) /\ TakeoverSound(o, q) /\ WorkSound(o, q)
      BY <2>7 DEF LockSound, SaveSound
    <3>2. NumberSound(o, q)'  BY <2>1, <3>1 DEF NumberSound
    <3>3. o.at \notin Owning
      <4>1. o.at \in Owning => <<q, o.n>> \in Tokens
        BY <3>1, LiveToken DEF Owning
      <4>2. QED  BY <1>4, <3>1, <4>1 DEF WorkSound, NoneIsNoToken
    <3>4. TakeoverSound(o, q)'
      <4>1. ~Stale(lock)  BY <1>4 DEF Stale
      <4>2. ~(o.at = "judging again" /\ Stale(o.seen))
        BY <1>4, <3>1 DEF TakeoverSound, Stale
      <4>3. Stale(o.seen)' = Stale(o.seen)  BY <2>1 DEF Stale, Gone
      <4>4. QED  BY <2>1, <2>2, <3>1, <4>1, <4>2, <4>3 DEF TakeoverSound
    <3>5. QED  BY <3>2, <3>3, <3>4, IdleWork DEF SaveSound
  <2>8. FilesSound'
    <3>1. Readable => Readable'  BY <2>1 DEF Readable
    <3>2. QED  BY <2>1, <2>2, <3>1 DEF LockSound, FilesSound, Kept
  <2>9. QED  BY <2>4, <2>6, <2>7, <2>8, OneMoves
<1>5. CASE AcquireLock(p) /\ lock # None
  <2>1. /\ r.at = "acquiring" /\ To(p, "looking")
        /\ UNCHANGED <<file, content, torn, lock, claims, since, saved, faults>>
    BY <1>1, <1>5 DEF AcquireLock
  <2>2. PICK a : a = "looking"  OBVIOUS
  <2>3. PICK s \in Saves : /\ save' = [save EXCEPT ![p] = s]
                           /\ s.at = a /\ s.n = r.n /\ s.ask = r.ask
                           /\ s.seen = r.seen /\ s.key = r.key /\ s.read = r.read
    <3>1. a \in Stages /\ To(p, a)
      BY <1>1, <2>1, <2>2 DEF Stages, Owning
    <3>2. QED  BY <1>1, <3>1, ToMoves
  <2>4. SaveSound(s, p)
    BY <1>1, <2>1, <2>2, <2>3, MovedNumber, AtRest DEF Taking, Holding, Owning
  <2>5. QED  BY <2>1, <2>3, <2>4, SaveMoves
<1>6. QED  BY <1>3, <1>4, <1>5

\* A save waits, or ends without an answer, wherever it was.
LEMMA WaitKeeps ==
  ASSUME LockSound, NEW p \in Procs, save[p].at # "idle", WaitOrFail(p),
         UNCHANGED <<file, content, torn, lock, claims, since, saved, faults>>
  PROVE  LockSound'
<1>1. PICK r : r = save[p]  OBVIOUS
<1>2. PICK s \in Saves : /\ save' = [save EXCEPT ![p] = s] /\ s.at \in {"idle", "acquiring"}
                         /\ s.n = r.n
                         /\ s.at # "idle" => s.ask = r.ask
  BY <1>1, WaitMoves
<1>3. SaveSound(s, p)  BY <1>1, <1>2, MovedNumber, AtRest DEF Taking, Holding, Owning
<1>4. QED  BY <1>2, <1>3, SaveMoves

\* A look at the lock, and the judgement of it.
LEMMA LookKeeps ==
  ASSUME LockSound, NEW p \in Procs,
         LookAtLock(p) \/ JudgeLock(p) \/ NameClaim(p) \/ JudgeAgain(p)
  PROVE  LockSound'
<1>1. PICK r : r = save[p]  OBVIOUS
<1>2. /\ SaveSound(r, p) /\ NumberSound(r, p) /\ TakeoverSound(r, p) /\ r \in Saves
      /\ lock \in Tokens \cup {None}
  BY <1>1 DEF LockSound, SaveSound, NumberSound, FilesSound
<1>3. PICK held : held = lock  OBVIOUS
<1>4. CASE LookAtLock(p)
  <2>1. /\ r.at \in {"looking", "looking again"}
        /\ UNCHANGED <<file, content, torn, lock, claims, since, saved, faults>>
    BY <1>1, <1>4 DEF LookAtLock
  <2>2. PICK a : a = IF r.at = "looking" THEN "judging" ELSE "judging again"  OBVIOUS
  <2>3. PICK s : s = [r EXCEPT !.seen = held, !.at = a]  OBVIOUS
  <2>4. save' = [save EXCEPT ![p] = s]  BY <1>1, <1>2, <1>3, <1>4, <2>2, <2>3
    DEF LookAtLock, LockSound, Saves
  <2>5. a \in Stages /\ held \in Tokens \cup {None}
    BY <1>2, <1>3, <2>2 DEF Stages, Taking, Holding
  <2>6. /\ s \in Saves /\ s.at = a /\ s.n = r.n /\ s.ask = r.ask /\ s.seen = held /\ s.key = r.key
    BY <1>2, <2>3, <2>5 DEF Saves
  <2>7. NumberSound(s, p)  BY <1>1, <2>1, <2>6, MovedNumber
  <2>8. CASE r.at = "looking"
    <3>1. SaveSound(s, p)  BY <2>2, <2>6, <2>7, <2>8, AtRest DEF Taking, Holding, Owning
    <3>2. QED  BY <2>1, <2>4, <3>1, SaveMoves
  <2>9. CASE r.at = "looking again"
    <3>1. s.at = "judging again"  BY <2>2, <2>6, <2>9
    <3>2. TakeoverSound(s, p)
      BY <1>2, <1>3, <2>6, <2>9, <3>1 DEF TakeoverSound, Taking, Holding
    <3>3. WorkSound(s, p)  BY <3>1 DEF WorkSound, Owning
    <3>4. QED  BY <2>1, <2>4, <2>7, <3>2, <3>3, SaveMoves DEF SaveSound
  <2>10. QED  BY <2>1, <2>8, <2>9
<1>5. CASE JudgeLock(p)
  <2>1. /\ r.at = "judging"
        /\ UNCHANGED <<file, content, torn, lock, claims, since, saved, faults>>
    BY <1>1, <1>5 DEF JudgeLock
  <2>2. CASE Stale(r.seen)
    <3>1. save' = [save EXCEPT ![p].at = "reaping", ![p].seen = None]
      BY <1>1, <1>5, <2>2 DEF JudgeLock
    <3>2. PICK s : s = [r EXCEPT !.at = "reaping", !.seen = None]  OBVIOUS
    <3>3. save' = [save EXCEPT ![p] = s]  BY <1>1, <1>2, <3>1, <3>2 DEF LockSound, Saves
    <3>4. /\ s \in Saves /\ s.at = "reaping" /\ s.n = r.n /\ s.ask = r.ask
      BY <1>2, <3>2 DEF Saves, Stages, Taking
    <3>5. NumberSound(s, p)  BY <1>1, <2>1, <3>4, MovedNumber
    <3>6. faults >= 1  BY <1>2, <2>2, StaleMeansFault DEF Saves
    <3>7. TakeoverSound(s, p) /\ WorkSound(s, p)
      BY <3>4, <3>6 DEF TakeoverSound, WorkSound, Taking, Holding, Owning
    <3>8. QED  BY <2>1, <3>3, <3>5, <3>7, SaveMoves DEF SaveSound
  <2>3. CASE ~Stale(r.seen)
    <3>1. WaitOrFail(p)  BY <1>1, <1>5, <2>3 DEF JudgeLock
    <3>2. QED  BY <1>1, <2>1, <3>1, WaitKeeps
  <2>4. QED  BY <2>2, <2>3
<1>6. CASE NameClaim(p)
  <2>1. /\ r.at = "reaping"
        /\ UNCHANGED <<file, content, torn, lock, claims, since, saved, faults>>
    BY <1>1, <1>6 DEF NameClaim
  <2>2. CASE lock # None
    <3>1. save' = [save EXCEPT ![p].at = "claiming", ![p].key = lock]
      BY <1>6, <2>2 DEF NameClaim
    <3>2. PICK s : s = [r EXCEPT !.at = "claiming", !.key = held]  OBVIOUS
    <3>3. save' = [save EXCEPT ![p] = s]  BY <1>1, <1>2, <1>3, <3>1, <3>2 DEF LockSound, Saves
    <3>4. held \in Tokens  BY <1>2, <1>3, <2>2
    <3>5. /\ s \in Saves /\ s.at = "claiming" /\ s.n = r.n /\ s.ask = r.ask /\ s.key = held
      BY <1>2, <3>2, <3>4 DEF Saves, Stages, Taking
    <3>6. NumberSound(s, p)  BY <1>1, <2>1, <3>5, MovedNumber
    <3>7. TakeoverSound(s, p) /\ WorkSound(s, p)
      BY <1>2, <1>3, <2>1, <3>4, <3>5 DEF TakeoverSound, WorkSound, Taking, Holding, Owning
    <3>8. QED  BY <2>1, <3>3, <3>6, <3>7, SaveMoves DEF SaveSound
  <2>3. CASE lock = None
    <3>1. WaitOrFail(p)  BY <1>6, <2>3 DEF NameClaim
    <3>2. QED  BY <1>1, <2>1, <3>1, WaitKeeps
  <2>4. QED  BY <2>2, <2>3
<1>7. CASE JudgeAgain(p)
  <2>1. /\ r.at = "judging again"
        /\ UNCHANGED <<file, content, torn, lock, claims, since, saved, faults>>
    BY <1>1, <1>7 DEF JudgeAgain
  <2>2. PICK a : a = IF Stale(r.seen) THEN "removing" ELSE "unclaiming"  OBVIOUS
  <2>3. PICK s : s = [r EXCEPT !.at = a, !.seen = None]  OBVIOUS
  <2>4. save' = [save EXCEPT ![p] = s]
    <3>1. save' = [save EXCEPT ![p].at = a, ![p].seen = None]
      BY <1>1, <1>7, <2>2 DEF JudgeAgain
    <3>2. QED  BY <1>1, <1>2, <2>3, <3>1 DEF LockSound, Saves
  <2>5. /\ s \in Saves /\ s.at = a /\ s.n = r.n /\ s.ask = r.ask /\ s.key = r.key
    BY <1>2, <2>2, <2>3 DEF Saves, Stages, Taking, Holding
  <2>6. NumberSound(s, p)  BY <1>1, <2>1, <2>5, MovedNumber
  <2>7. a \in {"removing", "unclaiming"}  BY <2>2
  <2>8. a = "removing" => Stale(lock)
    <3>1. a = "removing" => Stale(r.seen)  BY <2>2
    <3>2. Stale(r.seen) => lock = r.seen  BY <1>2, <2>1 DEF TakeoverSound
    <3>3. QED  BY <3>1, <3>2 DEF Stale, Gone
  <2>9. TakeoverSound(s, p) /\ WorkSound(s, p)
    BY <1>2, <2>1, <2>5, <2>7, <2>8 DEF TakeoverSound, WorkSound, Taking, Holding, Owning
  <2>10. QED  BY <2>1, <2>4, <2>6, <2>9, SaveMoves DEF SaveSound
<1>8. QED  BY <1>4, <1>5, <1>6, <1>7

\* A record of another save that works keeps what it knows, unless the file changes.
LEMMA OthersWork ==
  ASSUME NEW r, NEW q, WorkSound(r, q), UNCHANGED <<file, content, torn, lock>>
  PROVE  WorkSound(r, q)'
<1>1. Readable => Readable'  BY DEF Readable
<1>2. QED  BY <1>1 DEF WorkSound, Kept

\* Files that are not written.
LEMMA FilesKept ==
  ASSUME LockSound, UNCHANGED <<file, content, torn, since, faults, saved>>,
         lock' \in Tokens \cup {None}
  PROVE  FilesSound'
<1>1. Readable => Readable'  BY DEF Readable
<1>2. QED  BY <1>1 DEF LockSound, FilesSound, Kept

\* A claim has one holder.
LEMMA OneHolder ==
  ASSUME NEW p, NEW r, TakeoverSound(r, p), r.at \in Holding,
         NEW q, NEW o, TakeoverSound(o, q), o.at \in Holding, o.key = r.key
  PROVE  p = q
<1>1. claims[r.key] = <<p, r.n>> /\ claims[r.key] = <<q, o.n>>  BY DEF TakeoverSound
<1>2. QED  BY <1>1

\* A claim is made and let go.
LEMMA ClaimKeeps ==
  ASSUME LockSound, NEW p \in Procs, ClaimTakeover(p) \/ ReleaseClaim(p)
  PROVE  LockSound'
<1>1. PICK r : r = save[p]  OBVIOUS
<1>2. SaveSound(r, p) /\ NumberSound(r, p) /\ TakeoverSound(r, p)
  BY <1>1 DEF LockSound, SaveSound
<1>3. ASSUME NEW q \in Procs \ {p}, NEW o, o = save[q]
      PROVE  NumberSound(o, q) /\ TakeoverSound(o, q) /\ WorkSound(o, q)
  BY <1>3 DEF LockSound, SaveSound
<1>4. lock \in Tokens \cup {None}  BY DEF LockSound, FilesSound
<1>5. CASE ClaimTakeover(p) /\ r.key \notin DOMAIN claims
  <2>1. /\ r.at = "claiming" /\ To(p, "looking again")
        /\ claims' = [k \in DOMAIN claims \cup {r.key} |-> IF k = r.key THEN <<p, r.n>> ELSE claims[k]]
        /\ UNCHANGED <<file, content, torn, lock, since, saved, faults>>
    BY <1>1, <1>5 DEF ClaimTakeover, Token
  <2>2. PICK a : a = "looking again"  OBVIOUS
  <2>3. a \in Stages /\ To(p, a)  BY <2>1, <2>2 DEF Stages, Taking, Holding
  <2>4. PICK s \in Saves : /\ save' = [save EXCEPT ![p] = s]
                           /\ s.at = a /\ s.n = r.n /\ s.ask = r.ask
                           /\ s.seen = r.seen /\ s.key = r.key /\ s.read = r.read
    BY <1>1, <2>3, ToMoves
  <2>5. NumberSound(s, p)'
    BY <1>1, <2>1, <2>2, <2>4, MovedNumber DEF NumberSound
  <2>6. /\ s.key \in DOMAIN claims' /\ claims'[s.key] = <<p, s.n>>
        /\ \A k \in DOMAIN claims : k \in DOMAIN claims' /\ claims'[k] = claims[k]
    BY <1>5, <2>1, <2>4
  <2>7. Stale(lock)' = Stale(lock)  BY <2>1 DEF Stale, Gone
  <2>8. TakeoverSound(s, p)'
    BY <1>2, <2>1, <2>2, <2>4, <2>6, <2>7 DEF TakeoverSound, Taking, Holding
  <2>9. WorkSound(s, p)'  BY <2>2, <2>4 DEF WorkSound, Owning
  <2>10. ASSUME NEW q \in Procs \ {p}, NEW o, o = save[q]  PROVE SaveSound(o, q)'
    <3>1. NumberSound(o, q)'  BY <1>3, <2>1, <2>10 DEF NumberSound
    <3>2. WorkSound(o, q)'  BY <1>3, <2>1, <2>10, OthersWork
    <3>3. Stale(o.seen)' = Stale(o.seen)  BY <2>1 DEF Stale, Gone
    <3>4. TakeoverSound(o, q)
      BY <1>3, <2>10
    <3>5. TakeoverSound(o, q)'
      BY <2>1, <2>6, <2>7, <3>3, <3>4 DEF TakeoverSound
    <3>6. QED  BY <3>1, <3>2, <3>5 DEF SaveSound
  <2>11. FilesSound'  BY <1>4, <2>1, FilesKept
  <2>12. QED  BY <2>4, <2>5, <2>8, <2>9, <2>10, <2>11, OneMoves DEF SaveSound
<1>6. CASE ClaimTakeover(p) /\ r.key \in DOMAIN claims
  <2>1. /\ r.at = "claiming" /\ WaitOrFail(p)
        /\ UNCHANGED <<file, content, torn, lock, claims, since, saved, faults>>
    BY <1>1, <1>6 DEF ClaimTakeover, WaitOrFail
  <2>2. QED  BY <1>1, <2>1, WaitKeeps
<1>7. CASE ReleaseClaim(p)
  <2>1. /\ r.at = "unclaiming" /\ WaitOrFail(p)
        /\ claims' = [k \in DOMAIN claims \ {r.key} |-> claims[k]]
        /\ UNCHANGED <<file, content, torn, lock, since, saved, faults>>
    BY <1>1, <1>7 DEF ReleaseClaim
  <2>2. PICK s \in Saves : /\ save' = [save EXCEPT ![p] = s]
                           /\ s.at \in {"idle", "acquiring"} /\ s.n = r.n
                           /\ s.at # "idle" => s.ask = r.ask
    BY <1>1, <2>1, WaitMoves
  <2>3. NumberSound(s, p)'
    BY <1>1, <2>1, <2>2, MovedNumber DEF NumberSound
  <2>4. TakeoverSound(s, p)' /\ WorkSound(s, p)'
    BY <2>2 DEF TakeoverSound, WorkSound, Taking, Holding, Owning
  <2>5. ASSUME NEW q \in Procs \ {p}, NEW o, o = save[q]  PROVE SaveSound(o, q)'
    <3>1. NumberSound(o, q)'  BY <1>3, <2>1, <2>5 DEF NumberSound
    <3>2. WorkSound(o, q)'  BY <1>3, <2>1, <2>5, OthersWork
    <3>3. /\ Stale(o.seen)' = Stale(o.seen) /\ Stale(lock)' = Stale(lock)
      BY <2>1 DEF Stale, Gone
    <3>4. TakeoverSound(o, q)  BY <1>3, <2>5
    <3>5. o.at \in Holding => o.key # r.key
      BY <1>2, <2>1, <3>4, OneHolder DEF Holding
    <3>6. o.at \in Holding => o.key \in DOMAIN claims' /\ claims'[o.key] = claims[o.key]
      BY <2>1, <3>4, <3>5 DEF TakeoverSound
    <3>7. TakeoverSound(o, q)'
      BY <2>1, <3>3, <3>4, <3>6 DEF TakeoverSound
    <3>8. QED  BY <3>1, <3>2, <3>7 DEF SaveSound
  <2>6. FilesSound'  BY <1>4, <2>1, FilesKept
  <2>7. QED  BY <2>2, <2>3, <2>4, <2>5, <2>6, OneMoves DEF SaveSound
<1>8. QED  BY <1>1, <1>5, <1>6, <1>7

\* Only a stale lock is removed, and only by the holder of its claim.
LEMMA RemoveKeeps ==
  ASSUME LockSound, NEW p \in Procs, RemoveLock(p)
  PROVE  LockSound'
<1>1. PICK r : r = save[p]  OBVIOUS
<1>2. SaveSound(r, p) /\ NumberSound(r, p) /\ TakeoverSound(r, p)
  BY <1>1 DEF LockSound, SaveSound
<1>3. /\ r.at = "removing" /\ lock' = None /\ To(p, "unclaiming")
      /\ UNCHANGED <<file, content, torn, claims, since, saved, faults>>
  BY <1>1 DEF RemoveLock
<1>4. Stale(lock) /\ r.key = lock  BY <1>2, <1>3 DEF TakeoverSound, Taking, Holding
<1>5. ~Stale(lock)'  BY <1>3 DEF Stale
<1>6. PICK a : a = "unclaiming"  OBVIOUS
<1>7. a \in Stages /\ To(p, a)  BY <1>3, <1>6 DEF Stages, Taking, Holding
<1>8. PICK s \in Saves : /\ save' = [save EXCEPT ![p] = s]
                         /\ s.at = a /\ s.n = r.n /\ s.ask = r.ask
                         /\ s.seen = r.seen /\ s.key = r.key /\ s.read = r.read
  BY <1>1, <1>7, ToMoves
<1>9. SaveSound(s, p)'
  <2>1. NumberSound(s, p)'
    BY <1>1, <1>3, <1>6, <1>8, MovedNumber DEF NumberSound
  <2>2. TakeoverSound(s, p)' /\ WorkSound(s, p)'
    BY <1>2, <1>3, <1>5, <1>6, <1>8 DEF TakeoverSound, WorkSound, Taking, Holding, Owning
  <2>3. QED  BY <2>1, <2>2 DEF SaveSound
<1>10. ASSUME NEW q \in Procs \ {p}, NEW o, o = save[q]  PROVE SaveSound(o, q)'
  <2>1. NumberSound(o, q) /\ TakeoverSound(o, q) /\ WorkSound(o, q)
    BY <1>10 DEF LockSound, SaveSound
  <2>2. NumberSound(o, q)'  BY <1>3, <2>1 DEF NumberSound
  <2>3. o.at \notin Owning
    <3>1. o.at \in Owning => ~Stale(<<q, o.n>>)  BY <2>1, LiveToken DEF Owning
    <3>2. QED  BY <1>4, <2>1, <3>1 DEF WorkSound
  <2>4. o.at \in Holding => o.key # lock
    BY <1>2, <1>3, <1>4, <2>1, OneHolder DEF Holding
  <2>5. o.at # "removing"  BY <1>4, <2>1, <2>4 DEF TakeoverSound, Taking, Holding
  <2>6. o.at = "judging again" => ~Stale(o.seen)
    BY <1>4, <2>1, <2>4 DEF TakeoverSound, Taking, Holding
  <2>7. Stale(o.seen)' = Stale(o.seen)  BY <1>3 DEF Stale, Gone
  <2>8. TakeoverSound(o, q)'
    BY <1>3, <1>5, <2>1, <2>5, <2>6, <2>7 DEF TakeoverSound
  <2>9. QED  BY <2>2, <2>3, <2>8, IdleWork DEF SaveSound
<1>11. FilesSound'  BY <1>3, FilesKept
<1>12. QED  BY <1>8, <1>9, <1>10, <1>11, OneMoves

\* The file is read under the lock.
LEMMA ReadKeeps ==
  ASSUME LockSound, NEW p \in Procs, ReadCaptures(p) \/ ReadDecisions(p)
  PROVE  LockSound'
<1>1. PICK r : r = save[p]  OBVIOUS
<1>2. SaveSound(r, p) /\ NumberSound(r, p) /\ WorkSound(r, p) /\ content \in Seq(Events)
  BY <1>1 DEF LockSound, SaveSound, FilesSound
<1>3. /\ r.at = "reading" /\ lock = <<p, r.n>>
      /\ UNCHANGED <<file, content, torn, lock, claims, since, saved, faults>>
  BY <1>1, <1>2 DEF ReadCaptures, ReadDecisions, WorkSound, Owning
<1>4. CASE ReadCaptures(p)
  <2>1. PICK a : a = IF Readable /\
                        CaptureAllowed(LastOf(content, r.ask.video), r.ask.event)
                     THEN "writing" ELSE "failing"
    OBVIOUS
  <2>2. file = "captures" /\ To(p, a)  BY <1>1, <1>4, <2>1 DEF ReadCaptures
  <2>3. a \in Stages  BY <2>1 DEF Stages, Owning
  <2>4. PICK s \in Saves : /\ save' = [save EXCEPT ![p] = s]
                           /\ s.at = a /\ s.n = r.n /\ s.ask = r.ask
                           /\ s.seen = r.seen /\ s.key = r.key /\ s.read = r.read
    BY <1>1, <2>2, <2>3, ToMoves
  <2>5. a \in {"writing", "failing"}  BY <2>1
  <2>6. a = "writing" =>
          Readable /\ CaptureAllowed(LastOf(content, s.ask.video), s.ask.event)
    BY <2>1, <2>4
  <2>7. NumberSound(s, p)  BY <1>1, <1>3, <2>4, <2>5, MovedNumber
  <2>8. WorkSound(s, p)  BY <1>3, <2>2, <2>4, <2>5, <2>6 DEF WorkSound
  <2>9. TakeoverSound(s, p)  BY <2>4, <2>5 DEF TakeoverSound, Taking, Holding
  <2>10. QED  BY <1>3, <2>4, <2>7, <2>8, <2>9, SaveMoves DEF SaveSound
<1>5. CASE ReadDecisions(p)
  <2>1. PICK a : a = IF DecisionAllowed(LastOf(content, r.ask.video), r.ask.event)
                     THEN "writing" ELSE "failing"
    OBVIOUS
  <2>2. PICK c : c = content  OBVIOUS
  <2>3. PICK s : s = [r EXCEPT !.read = c, !.at = a]  OBVIOUS
  <2>4. file = "decisions" /\ save' = [save EXCEPT ![p].read = c, ![p].at = a]
    BY <1>1, <1>5, <2>1, <2>2 DEF ReadDecisions
  <2>5. save' = [save EXCEPT ![p] = s]
    BY <1>1, <1>2, <2>3, <2>4 DEF LockSound, NumberSound, Saves
  <2>6. a \in Stages /\ a \in {"writing", "failing"}  BY <2>1 DEF Stages, Owning
  <2>7. s \in Saves /\ s.at = a /\ s.n = r.n /\ s.ask = r.ask /\ s.read = c
    BY <1>2, <2>2, <2>3, <2>6 DEF Saves, NumberSound
  <2>8. NumberSound(s, p)  BY <1>1, <1>3, <2>7, MovedNumber
  <2>9. WorkSound(s, p)  BY <1>3, <2>2, <2>4, <2>6, <2>7 DEF WorkSound
  <2>10. TakeoverSound(s, p)  BY <2>6, <2>7 DEF TakeoverSound, Taking, Holding
  <2>11. QED  BY <1>3, <2>5, <2>8, <2>9, <2>10, SaveMoves DEF SaveSound
<1>6. QED  BY <1>4, <1>5

\* The event is written, or the write fails.
LEMMA WriteSteps ==
  ASSUME LockSound, NEW p \in Procs,
         AppendLine(p) \/ ReplaceFile(p) \/ WriteFails(p)
  PROVE  LockSound'
<1>1. PICK r : r = save[p]  OBVIOUS
<1>2. SaveSound(r, p) /\ NumberSound(r, p) /\ WorkSound(r, p) /\ TakeoverSound(r, p)
  BY <1>1 DEF LockSound, SaveSound
<1>3. /\ file \in {"captures", "decisions"} /\ content \in Seq(Events) /\ faults \in Nat
      /\ lock \in Tokens \cup {None}
  BY DEF LockSound, FilesSound
<1>4. /\ r.at = "writing" /\ UNCHANGED <<file, lock, claims, since, saved>>
      /\ faults' \in Nat /\ faults' >= faults
  BY <1>1, <1>3 DEF AppendLine, ReplaceFile, WriteFails
<1>5. lock = <<p, r.n>>  BY <1>2, <1>4 DEF WorkSound, Owning
<1>6. /\ content' \in Seq(Events) /\ (file = "decisions" => ~torn')
      /\ torn' \/ Readable'
      /\ \A t : Kept(t) => Kept(t)'
  <2>1. CASE AppendLine(p)
    <3>1. /\ content' = Append(IF file = "captures" THEN content ELSE r.read, Event(p))
          /\ UNCHANGED torn
      BY <2>1 DEF AppendLine
    <3>2. QED  BY <1>1, <1>4, <3>1, WrittenSound
  <2>2. CASE ReplaceFile(p)
    <3>1. /\ content' = Append(IF file = "captures" THEN content ELSE r.read, Event(p))
          /\ UNCHANGED torn
      BY <1>1, <2>2 DEF ReplaceFile
    <3>2. QED  BY <1>1, <1>4, <3>1, WrittenSound
  <2>3. CASE WriteFails(p)
    <3>1. HalfWritten(p)  BY <2>3 DEF WriteFails, HalfWritten
    <3>2. QED  BY <1>1, <1>4, <3>1, WrittenSound
  <2>4. QED  BY <2>1, <2>2, <2>3
<1>7. PICK a \in {"releasing", "failing"} :
        To(p, a) /\ (a = "releasing" => AppendLine(p) \/ ReplaceFile(p))
  BY DEF AppendLine, ReplaceFile, WriteFails
<1>8. a = "releasing" => Kept(<<p, r.n>>)'
  <2> SUFFICES ASSUME a = "releasing"  PROVE Kept(<<p, r.n>>)'  OBVIOUS
  <2>1. PICK e : e = Event(p)  OBVIOUS
  <2>2. e \in Events /\ e.by = <<p, r.n>>
    <3>1. r.ask \in Asks /\ <<p, r.n>> \in Tokens  BY <1>2, <1>4, LiveToken
    <3>2. e = [video |-> r.ask.video, event |-> r.ask.event, by |-> <<p, r.n>>]
      BY <1>1, <2>1 DEF Event, Token
    <3>3. QED  BY <3>1, <3>2 DEF Asks, Events
  <2>3. content' = Append(content, e)
    BY <1>1, <1>2, <1>4, <1>7, <2>1 DEF AppendLine, ReplaceFile, WorkSound
  <2>4. QED  BY <1>3, <2>2, <2>3, KeptGrows
<1>9. a \in Stages  BY DEF Stages, Owning
<1>10. PICK s \in Saves : /\ save' = [save EXCEPT ![p] = s]
                          /\ s.at = a /\ s.n = r.n /\ s.ask = r.ask
                          /\ s.seen = r.seen /\ s.key = r.key /\ s.read = r.read
  BY <1>1, <1>7, <1>9, ToMoves
<1>11. SaveSound(s, p)'
  <2>1. NumberSound(s, p)'
    BY <1>1, <1>4, <1>10, MovedNumber DEF NumberSound
  <2>2. TakeoverSound(s, p)'  BY <1>10 DEF TakeoverSound, Taking, Holding
  <2>3. WorkSound(s, p)'  BY <1>4, <1>5, <1>8, <1>10 DEF WorkSound
  <2>4. QED  BY <2>1, <2>2, <2>3 DEF SaveSound
<1>12. ASSUME NEW q \in Procs \ {p}, NEW o, o = save[q]  PROVE SaveSound(o, q)'
  <2>1. NumberSound(o, q) /\ TakeoverSound(o, q)
    BY <1>12 DEF LockSound, SaveSound
  <2>2. NumberSound(o, q)'  BY <1>4, <2>1 DEF NumberSound
  <2>3. TakeoverSound(o, q)'  BY <1>3, <1>4, <2>1, OthersTakeOver
  <2>4. save[p].at \in Owning  BY <1>1, <1>4 DEF Owning
  <2>5. o.at \notin Owning  BY <1>12, <2>4, OneOwner
  <2>6. QED  BY <2>2, <2>3, <2>5, IdleWork DEF SaveSound
<1>13. FilesSound'
  <2>1. \A q \in Procs : since[q] > 1 => faults' >= 1
    <3>1. \A q \in Procs : since[q] > 1 => faults >= 1  BY DEF LockSound, FilesSound
    <3>2. faults >= 1 => faults' >= 1  BY <1>3, <1>4
    <3>3. QED  BY <3>1, <3>2
  <2>2. \A t \in saved : Kept(t)'  BY <1>6 DEF LockSound, FilesSound
  <2>3. QED  BY <1>3, <1>4, <1>6, <2>1, <2>2 DEF LockSound, FilesSound
<1>14. QED  BY <1>10, <1>11, <1>12, <1>13, OneMoves

\* The owner lets the lock go, and answers.
LEMMA ReleaseKeeps ==
  ASSUME LockSound, NEW p \in Procs, ReleaseLock(p)
  PROVE  LockSound'
<1>1. PICK r : r = save[p]  OBVIOUS
<1>2. SaveSound(r, p) /\ NumberSound(r, p) /\ WorkSound(r, p)
  BY <1>1 DEF LockSound, SaveSound
<1>3. /\ r.at \in {"releasing", "failing"} /\ WaitOrFail(p)
      /\ saved' = IF r.at = "releasing" THEN saved \cup {<<p, r.n>>} ELSE saved
      /\ lock' = IF lock = <<p, r.n>> THEN None ELSE lock
      /\ UNCHANGED <<file, content, torn, claims, since, faults>>
  BY <1>1 DEF ReleaseLock, WaitOrFail, Token
<1>4. lock = <<p, r.n>> /\ ~Stale(lock)  BY <1>2, <1>3, LiveToken DEF WorkSound, Owning
<1>5. lock' = None /\ ~Stale(lock)'  BY <1>3, <1>4 DEF Stale
<1>6. PICK s \in Saves : /\ save' = [save EXCEPT ![p] = s]
                         /\ s.at \in {"idle", "acquiring"} /\ s.n = r.n
                         /\ s.at # "idle" => s.ask = r.ask
  BY <1>1, <1>3, WaitMoves
<1>7. SaveSound(s, p)'
  <2>1. NumberSound(s, p)'
    BY <1>1, <1>3, <1>6, MovedNumber DEF NumberSound
  <2>2. TakeoverSound(s, p)' /\ WorkSound(s, p)'
    BY <1>6 DEF TakeoverSound, WorkSound, Taking, Holding, Owning
  <2>3. QED  BY <2>1, <2>2 DEF SaveSound
<1>8. ASSUME NEW q \in Procs \ {p}, NEW o, o = save[q]  PROVE SaveSound(o, q)'
  <2>1. NumberSound(o, q) /\ TakeoverSound(o, q)
    BY <1>8 DEF LockSound, SaveSound
  <2>2. NumberSound(o, q)'  BY <1>3, <2>1 DEF NumberSound
  <2>3. save[p].at \in Owning  BY <1>1, <1>3 DEF Owning
  <2>4. o.at \notin Owning  BY <1>8, <2>3, OneOwner
  <2>5. o.at # "removing"  BY <1>4, <2>1 DEF TakeoverSound
  <2>6. o.at = "judging again" => ~Stale(o.seen)  BY <1>4, <2>1 DEF TakeoverSound
  <2>7. Stale(o.seen)' = Stale(o.seen)  BY <1>3 DEF Stale, Gone
  <2>8. TakeoverSound(o, q)'
    BY <1>3, <1>5, <2>1, <2>5, <2>6, <2>7 DEF TakeoverSound
  <2>9. QED  BY <2>2, <2>4, <2>8, IdleWork DEF SaveSound
<1>9. FilesSound'
  <2>1. r.at = "releasing" => Kept(<<p, r.n>>)  BY <1>2 DEF WorkSound
  <2>2. \A t \in saved' : Kept(t)  BY <1>3, <2>1 DEF LockSound, FilesSound
  <2>3. \A t \in saved' : Kept(t)'  BY <1>3, <2>2 DEF Kept
  <2>4. Readable => Readable'  BY <1>3 DEF Readable
  <2>5. QED  BY <1>3, <1>5, <2>3, <2>4 DEF LockSound, FilesSound
<1>10. QED  BY <1>6, <1>7, <1>8, <1>9, OneMoves

\* The one process that may end: nobody takes a lock over yet.
LEMMA EndKeeps ==
  ASSUME LockSound, MaxFaults \in Int, MaxFaults <= 1, NEW p \in Procs, End(p)
  PROVE  LockSound'
<1>1. PICK r : r = save[p]  OBVIOUS
<1>2. SaveSound(r, p) /\ NumberSound(r, p) /\ r \in Saves /\ r.n \in Nat
  BY <1>1 DEF LockSound, SaveSound, NumberSound, Saves
<1>3. /\ file \in {"captures", "decisions"} /\ content \in Seq(Events) /\ faults \in Nat
      /\ lock \in Tokens \cup {None} /\ (torn \/ Readable)
      /\ (file = "decisions" => ~torn) /\ since = [q \in Procs |-> since[q]]
      /\ \A t \in saved : Kept(t)
  BY DEF LockSound, FilesSound
<1>4. /\ r.at # "idle" /\ Over(p) /\ since' = [since EXCEPT ![p] = r.n + 1]
      /\ faults' = faults + 1 /\ faults < MaxFaults
      /\ UNCHANGED <<file, lock, claims, saved>>
  BY <1>1 DEF End
<1>5. faults = 0 /\ faults' = 1  BY <1>3, <1>4
<1>6. /\ content' \in Seq(Events) /\ (file = "decisions" => ~torn')
      /\ torn' \/ Readable'
      /\ \A t : Kept(t) => Kept(t)'
      /\ \A q \in Procs \ {p} : \A o : o = save[q] => WorkSound(o, q)'
  <2>1. CASE r.at = "writing" /\ HalfWritten(p)
    <3>1. /\ content' \in Seq(Events) /\ (file = "decisions" => ~torn')
          /\ torn' \/ Readable'
          /\ \A t : Kept(t) => Kept(t)'
      BY <1>1, <1>4, <2>1, WrittenSound
    <3>2. save[p].at \in Owning  BY <1>1, <2>1 DEF Owning
    <3>3. ASSUME NEW q \in Procs \ {p}, NEW o, o = save[q]  PROVE WorkSound(o, q)'
      BY <3>2, <3>3, OneOwner, IdleWork
    <3>4. QED  BY <3>1, <3>3
  <2>2. CASE UNCHANGED <<content, torn>>
    <3>1. ASSUME NEW q \in Procs \ {p}, NEW o, o = save[q]  PROVE WorkSound(o, q)'
      <4>1. WorkSound(o, q)  BY <3>1 DEF LockSound, SaveSound
      <4>2. QED  BY <1>4, <2>2, <4>1, OthersWork
    <3>2. Readable => Readable'  BY <1>4, <2>2 DEF Readable
    <3>3. \A t : Kept(t) => Kept(t)'  BY <2>2 DEF Kept
    <3>4. QED  BY <1>3, <2>2, <3>1, <3>2, <3>3
  <2>3. QED  BY <1>1, <2>1, <2>2 DEF End
<1>7. PICK s : s = Idle(r.n)  OBVIOUS
<1>8. save' = [save EXCEPT ![p] = s]  BY <1>1, <1>4, <1>7 DEF Over
<1>9. s \in Saves /\ s.at = "idle" /\ s.n = r.n
  BY <1>2, <1>7 DEF Saves, Stages, Idle
<1>10. \A q \in Procs : since'[q] = IF q = p THEN r.n + 1 ELSE since[q]  BY <1>3, <1>4
<1>11. SaveSound(s, p)'
  <2>1. NumberSound(s, p)'
    <3>1. since'[p] = r.n + 1 /\ r.n + 1 \in Nat \ {0} /\ r.n + 1 <= s.n + 1
      BY <1>2, <1>9, <1>10
    <3>2. QED  BY <1>9, <3>1 DEF NumberSound
  <2>2. TakeoverSound(s, p)' /\ WorkSound(s, p)'
    BY <1>9 DEF TakeoverSound, WorkSound, Taking, Holding, Owning
  <2>3. QED  BY <2>1, <2>2 DEF SaveSound
<1>12. ASSUME NEW q \in Procs \ {p}, NEW o, o = save[q]  PROVE SaveSound(o, q)'
  <2>1. NumberSound(o, q) /\ TakeoverSound(o, q)
    BY <1>12 DEF LockSound, SaveSound
  <2>2. since'[q] = since[q]  BY <1>10
  <2>3. NumberSound(o, q)'  BY <2>1, <2>2 DEF NumberSound
  <2>4. o.at \notin Taking
    <3>1. ~(faults >= 1)  BY <1>5
    <3>2. o.at \in Taking => faults >= 1  BY <2>1 DEF TakeoverSound
    <3>3. QED  BY <3>1, <3>2
  <2>5. TakeoverSound(o, q)'  BY <2>4 DEF TakeoverSound, Taking, Holding
  <2>6. QED  BY <1>6, <1>12, <2>3, <2>5 DEF SaveSound
<1>13. FilesSound'
  <2>1. since' = [q \in Procs |-> since'[q]]  BY <1>3, <1>4
  <2>2. \A t \in saved' : Kept(t)'  BY <1>3, <1>4, <1>6
  <2>3. QED  BY <1>3, <1>4, <1>5, <1>6, <2>1, <2>2 DEF FilesSound
<1>14. QED  BY <1>8, <1>11, <1>12, <1>13, OneMoves

\* In the first state nothing is saved and nobody is in a save.
LEMMA InitSound ==
  ASSUME PInit  PROVE LockSound
<1>1. /\ file \in {"captures", "decisions"} /\ content = << >> /\ torn = FALSE
      /\ lock = None /\ save = [p \in Procs |-> Idle(0)] /\ since = [p \in Procs |-> 1]
      /\ saved = {} /\ faults = 0
  BY DEF PInit
<1>2. ASSUME NEW p \in Procs  PROVE SaveSound(save[p], p)
  <2>1. PICK s : s = Idle(0)  OBVIOUS
  <2>2. s \in Saves /\ s.at = "idle" /\ s.n = 0
    BY <2>1 DEF Idle, Saves, Stages
  <2>3. NumberSound(s, p)  BY <1>1, <2>2 DEF NumberSound
  <2>4. SaveSound(s, p)  BY <2>2, <2>3, AtRest DEF Taking, Holding, Owning
  <2>5. QED  BY <1>1, <2>1, <2>4
<1>3. Readable  BY <1>1 DEF Readable
<1>4. FilesSound  BY <1>1, <1>3 DEF FilesSound
<1>5. QED  BY <1>1, <1>2, <1>4 DEF LockSound

\* Every step keeps what the processes know.
LEMMA StepSound ==
  ASSUME MaxFaults \in Int, MaxFaults <= 1, NoneIsNoToken, LockSound, [PNext]_pvars
  PROVE  LockSound'
<1>1. CASE PNext
  <2>1. PICK p \in Procs : BeginSave(p) \/ PStep(p) \/ WriteFails(p) \/ End(p)
    BY <1>1 DEF PNext
  <2>2. CASE End(p)  BY <2>2, EndKeeps
  <2>3. CASE BeginSave(p) \/ WriteFails(p)  BY <2>3, BeforeWork, WriteSteps
  <2>4. CASE PStep(p)
    BY <2>4, BeforeWork, LookKeeps, ClaimKeeps, RemoveKeeps, ReadKeeps, WriteSteps, ReleaseKeeps
    DEF PStep
  <2>5. QED  BY <2>1, <2>2, <2>3, <2>4
<1>2. CASE UNCHANGED pvars
  <2>1. ASSUME NEW p \in Procs  PROVE SaveSound(save[p], p)'
    <3>1. PICK r : r = save[p]  OBVIOUS
    <3>2. SaveSound(r, p)  BY <3>1 DEF LockSound
    <3>3. NumberSound(r, p)'  BY <1>2, <3>2 DEF pvars, SaveSound, NumberSound
    <3>4. TakeoverSound(r, p)'
      BY <1>2, <3>2, OthersTakeOver DEF pvars, SaveSound, LockSound, FilesSound
    <3>5. WorkSound(r, p)'  BY <1>2, <3>2, OthersWork DEF pvars, SaveSound
    <3>6. save'[p] = r  BY <1>2, <3>1 DEF pvars
    <3>7. QED  BY <3>3, <3>4, <3>5, <3>6 DEF SaveSound
  <2>2. FilesSound'  BY <1>2, FilesKept DEF pvars, LockSound, FilesSound
  <2>3. QED  BY <1>2, <2>1, <2>2 DEF pvars, LockSound
<1>3. QED  BY <1>1, <1>2

\* A save that was reported as done stays in its file, and the file can be read unless a
\* write was cut short (privateOutput.ts, captureStore.ts, decisionStore.ts): for any
\* number of review processes, saves and requests, and at most one process that ends or
\* write that fails.
THEOREM SavesStay ==
  ASSUME MaxFaults \in Int, MaxFaults <= 1, NoneIsNoToken
  PROVE  PSpec => []SavesKept
<1>1. LockSound => SavesKept
  BY DEF SavesKept, LockSound, FilesSound, Kept
<1>2. QED  BY <1>1, InitSound, StepSound, PTL DEF PSpec

\* "Removes a stale lock without ever removing a live one" (privateOutput.ts:252) is so
\* while no second process ends: the lock of a process that is still there goes only when
\* that process releases it.  With two, the run lock_takeover shows how it goes.
THEOREM LiveLockStays ==
  ASSUME MaxFaults \in Int, MaxFaults <= 1, NoneIsNoToken
  PROVE  PSpec => LiveLockKept
<1> DEFINE Released == lock # None /\ ~Gone(lock) /\ lock' # lock
                         => save[lock[1]].at \in {"releasing", "failing"}
<1>1. LockSound /\ [PNext]_pvars => [Released]_pvars
  <2> SUFFICES ASSUME LockSound, PNext  PROVE Released
    BY Zenon
  <2> SUFFICES ASSUME lock' # lock  PROVE Released
    OBVIOUS
  <2>1. PICK p \in Procs : AcquireLock(p) \/ RemoveLock(p) \/ ReleaseLock(p)
    BY DEF PNext, BeginSave, PStep, WriteFails, End, LookAtLock, JudgeLock, NameClaim,
       ClaimTakeover, JudgeAgain, ReleaseClaim, ReadCaptures, ReadDecisions, AppendLine, ReplaceFile
  <2>2. CASE AcquireLock(p)  BY <2>2 DEF AcquireLock
  <2>3. CASE RemoveLock(p)
    <3>1. TakeoverSound(save[p], p)  BY DEF LockSound, SaveSound
    <3>2. Stale(lock)  BY <2>3, <3>1 DEF TakeoverSound, RemoveLock
    <3>3. QED  BY <3>2 DEF Stale
  <2>4. CASE ReleaseLock(p)
    <3>1. save[p].at \in {"releasing", "failing"}  BY <2>4 DEF ReleaseLock
    <3>2. lock = <<p, save[p].n>>  BY <2>4 DEF ReleaseLock, Token
    <3>3. lock[1] = p  BY <3>2
    <3>4. QED  BY <3>1, <3>3
  <2>5. QED  BY <2>1, <2>2, <2>3, <2>4
<1>2. QED  BY <1>1, InitSound, StepSound, PTL DEF PSpec, LiveLockKept
=============================================================================
