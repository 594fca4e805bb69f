----------------------------- MODULE PrivateFile -----------------------------
(***************************************************************************)
(* Saves to the owner's private files by review processes that do not know *)
(* of each other (privateOutput.ts, captureStore.ts, decisionStore.ts).    *)
(* A save takes a lock file next to the private file, reads the file,      *)
(* checks, writes and lets go.  A lock whose process is gone is taken over *)
(* under a claim, which is a file of the same kind, named for that lock.   *)
(*                                                                         *)
(* Every operation on a path is one step; a process ends between any two.  *)
(* A token is a process slot and the number of its save; it is gone when   *)
(* the process that made it is (process.kill(pid, 0)).  Damage from        *)
(* outside, which makes a lock unreadable, is left out.                    *)
(***************************************************************************)
EXTENDS Integers, Sequences, FiniteSets, SequencesExt

CONSTANTS
  Procs,      \* slots for review processes
  Videos,
  None,
  Requests,   \* the events that are asked for
  MaxSaves,   \* bound: saves by each slot
  MaxFaults   \* bound: processes that end in a save, writes that fail

VARIABLES
  file,       \* which private file this is about: "captures" or "decisions"
  content,    \* its events, in file order
  torn,       \* the last line was cut short
  lock,       \* the token in the lock file
  claims,     \* the claim files: the token of a lock |-> the token in its claim
  save,       \* the save a process is at, and its locals
  since,      \* the first save of the process now in a slot
  saved,      \* the tokens of the saves that were reported as done
  faults

pvars == <<file, content, torn, lock, claims, save, since, saved, faults>>

Decisions == {"include", "exclude", "clear"}
CaptureEvents == {"captured", "replaced", "unavailable"}

Idle(n) == [at |-> "idle", n |-> n, ask |-> None, seen |-> None, key |-> None,
            read |-> <<>>]

PInit ==
  /\ file \in {"captures", "decisions"}
  /\ content = <<>> /\ torn = FALSE
  /\ lock = None /\ claims = <<>>
  /\ save = [p \in Procs |-> Idle(0)]
  /\ since = [p \in Procs |-> 1]
  /\ saved = {} /\ faults = 0

Token(p) == <<p, save[p].n>>
Gone(token) == token[2] < since[token[1]]
To(p, at) == save' = [save EXCEPT ![p].at = at]
Over(p) == save' = [save EXCEPT ![p] = Idle(@.n)]
Again(p) == save' = [save EXCEPT ![p] = [@ EXCEPT !.at = "acquiring", !.seen = None, !.key = None]]
-----------------------------------------------------------------------------
(* What the files say. *)

\* activeCaptures and effectiveDecisions of a video: its last event.
LastOf(events, v) ==
  LET own == SelectSeq(events, LAMBDA e : e.video = v)
  IN IF own = <<>> THEN None ELSE Last(own).event

\* transitionProblem: a captured video only changes by an explicit replace.
CaptureAllowed(last, event) ==
  CASE last = None -> event # "replaced"
    [] last \in {"captured", "replaced"} -> event = "replaced"
    [] last = "unavailable" -> event = "captured"

\* Only an active decision can be cleared.
DecisionAllowed(last, event) ==
  event = "clear" => last \in {"include", "exclude"}

Allowed(last, event) ==
  IF file = "captures" THEN CaptureAllowed(last, event) ELSE DecisionAllowed(last, event)

\* parseCaptureLog: every event is legal after the ones before it, and the last
\* line is whole.
Readable ==
  /\ ~torn
  /\ file = "captures" =>
       \A i \in DOMAIN content :
         CaptureAllowed(LastOf(SubSeq(content, 1, i - 1), content[i].video), content[i].event)
-----------------------------------------------------------------------------
(* The lock. *)

\* apply() of either store, after its checks of the request; its in-process
\* queue lets a process make one save at a time.
BeginSave(p) ==
  /\ save[p].at = "idle" /\ save[p].n < MaxSaves
  /\ \E v \in Videos, e \in Requests \cap (IF file = "captures" THEN CaptureEvents ELSE Decisions) :
       save' = [save EXCEPT ![p] = [Idle(@.n + 1) EXCEPT !.at = "acquiring",
                                                         !.ask = [video |-> v, event |-> e]]]
  /\ UNCHANGED <<file, content, torn, lock, claims, since, saved, faults>>

\* acquireOwned: a whole record is linked into place, if the path is free.
AcquireLock(p) ==
  /\ save[p].at = "acquiring"
  /\ IF lock = None THEN lock' = Token(p) /\ To(p, "reading")
                    ELSE To(p, "looking") /\ UNCHANGED lock
  /\ UNCHANGED <<file, content, torn, claims, since, saved, faults>>

\* Wait and look again, or file-busy once the deadline has passed.
WaitOrFail(p) == Again(p) \/ Over(p)

\* readOwner of the lock, outside and inside the takeover.
LookAtLock(p) ==
  /\ save[p].at \in {"looking", "looking again"}
  /\ save' = [save EXCEPT ![p].seen = lock,
                          ![p].at = IF @ = "looking" THEN "judging" ELSE "judging again"]
  /\ UNCHANGED <<file, content, torn, lock, claims, since, saved, faults>>

\* Variant with a fault: a lock is stale because it is there.
StalePresent(owner) == owner # None

\* ownedFileIsStale, ownerIsGone: age alone never frees a lock.
Stale(owner) == owner # None /\ Gone(owner)

JudgeLock(p) ==
  /\ save[p].at = "judging"
  /\ IF Stale(save[p].seen)
     THEN save' = [save EXCEPT ![p].at = "reaping", ![p].seen = None]
     ELSE WaitOrFail(p)
  /\ UNCHANGED <<file, content, torn, lock, claims, since, saved, faults>>

\* reapStaleLock: the claim is named for the lock that is there now.
NameClaim(p) ==
  /\ save[p].at = "reaping"
  /\ IF lock = None THEN WaitOrFail(p)
     ELSE save' = [save EXCEPT ![p].at = "claiming", ![p].key = lock]
  /\ UNCHANGED <<file, content, torn, lock, claims, since, saved, faults>>

\* A claim whose claimant is gone is left for the owner of the machine: the save
\* fails with takeover-claim-abandoned.
ClaimTakeover(p) ==
  /\ save[p].at = "claiming"
  /\ LET key == save[p].key IN
     IF key \notin DOMAIN claims
     THEN /\ claims' = [k \in DOMAIN claims \cup {key} |->
                          IF k = key THEN Token(p) ELSE claims[k]]
          /\ To(p, "looking again")
     ELSE /\ IF Gone(claims[key]) THEN Over(p) ELSE WaitOrFail(p)
          /\ UNCHANGED claims
  /\ UNCHANGED <<file, content, torn, lock, since, saved, faults>>

JudgeAgain(p) ==
  /\ save[p].at = "judging again"
  /\ save' = [save EXCEPT ![p].at = IF Stale(save[p].seen) THEN "removing" ELSE "unclaiming",
                          ![p].seen = None]
  /\ UNCHANGED <<file, content, torn, lock, claims, since, saved, faults>>

\* rename takes away whatever is at the path.
RemoveLock(p) ==
  /\ save[p].at = "removing"
  /\ lock' = None
  /\ To(p, "unclaiming")
  /\ UNCHANGED <<file, content, torn, claims, since, saved, faults>>

ReleaseClaim(p) ==
  /\ save[p].at = "unclaiming"
  /\ claims' = [k \in DOMAIN claims \ {save[p].key} |-> claims[k]]
  /\ WaitOrFail(p)
  /\ UNCHANGED <<file, content, torn, lock, since, saved, faults>>
-----------------------------------------------------------------------------
(* The work under the lock. *)

\* readCapturesFile and the transition check: what cannot be read is refused.
ReadCaptures(p) ==
  /\ file = "captures" /\ save[p].at = "reading"
  /\ LET ask == save[p].ask IN
     To(p, IF Readable /\ CaptureAllowed(LastOf(content, ask.video), ask.event)
           THEN "writing" ELSE "failing")
  /\ UNCHANGED <<file, content, torn, lock, claims, since, saved, faults>>

ReadDecisions(p) ==
  /\ file = "decisions" /\ save[p].at = "reading"
  /\ LET ask == save[p].ask IN
     save' = [save EXCEPT ![p].read = content,
                ![p].at = IF DecisionAllowed(LastOf(content, ask.video), ask.event)
                          THEN "writing" ELSE "failing"]
  /\ UNCHANGED <<file, content, torn, lock, claims, since, saved, faults>>

Event(p) == [video |-> save[p].ask.video, event |-> save[p].ask.event, by |-> Token(p)]

\* One write in append mode, flushed.
AppendLine(p) ==
  /\ file = "captures" /\ save[p].at = "writing"
  /\ content' = Append(content, Event(p))
  /\ To(p, "releasing")
  /\ UNCHANGED <<file, torn, lock, claims, since, saved, faults>>

\* The file that was read, with the new event, is renamed over the target.
ReplaceFile(p) ==
  /\ file = "decisions" /\ save[p].at = "writing"
  /\ content' = Append(save[p].read, Event(p))
  /\ To(p, "releasing")
  /\ UNCHANGED <<file, torn, lock, claims, since, saved, faults>>

\* What a write that fails, or whose process ends in it, may leave: nothing, a
\* whole line, or a part of one; a replacement is made whole or not at all.
HalfWritten(p) ==
  \/ UNCHANGED <<content, torn>>
  \/ IF file = "captures"
     THEN \/ content' = Append(content, Event(p)) /\ UNCHANGED torn
          \/ torn' = TRUE /\ UNCHANGED content
     ELSE content' = Append(save[p].read, Event(p)) /\ UNCHANGED torn

WriteFails(p) ==
  /\ faults < MaxFaults
  /\ save[p].at = "writing"
  /\ IF file = "captures" THEN HalfWritten(p) ELSE UNCHANGED <<content, torn>>
  /\ To(p, "failing")
  /\ faults' = faults + 1
  /\ UNCHANGED <<file, lock, claims, since, saved>>

\* releaseOwned in the finally block, and the answer.
ReleaseLock(p) ==
  /\ save[p].at \in {"releasing", "failing"}
  /\ lock' = IF lock = Token(p) THEN None ELSE lock
  /\ saved' = IF save[p].at = "releasing" THEN saved \cup {Token(p)} ELSE saved
  /\ Over(p)
  /\ UNCHANGED <<file, content, torn, claims, since, faults>>

\* The process ends; another one is started later.
End(p) ==
  /\ faults < MaxFaults
  /\ save[p].at # "idle"
  /\ IF save[p].at = "writing" THEN HalfWritten(p) ELSE UNCHANGED <<content, torn>>
  /\ Over(p)
  /\ since' = [since EXCEPT ![p] = save[p].n + 1]
  /\ faults' = faults + 1
  /\ UNCHANGED <<file, lock, claims, saved>>

PStep(p) ==
  \/ AcquireLock(p) \/ LookAtLock(p) \/ JudgeLock(p) \/ NameClaim(p)
  \/ ClaimTakeover(p) \/ JudgeAgain(p) \/ RemoveLock(p) \/ ReleaseClaim(p)
  \/ ReadCaptures(p) \/ ReadDecisions(p) \/ AppendLine(p) \/ ReplaceFile(p)
  \/ ReleaseLock(p)

PNext == \E p \in Procs : BeginSave(p) \/ PStep(p) \/ WriteFails(p) \/ End(p)

PSpec == PInit /\ [][PNext]_pvars
-----------------------------------------------------------------------------
\* A save that was reported as done stays in its file, whichever processes save
\* at the same time, end in the middle or take over a lock; and no interleaving of
\* saves makes a file that the tool then refuses to read, only a write that was cut
\* short does (privateOutput.ts, savePrivateOutput and its lock).
SavesKept ==
  /\ \A t \in saved : \E i \in DOMAIN content : content[i].by = t
  /\ torn \/ Readable

\* "Removes a stale lock without ever removing a live one" (privateOutput.ts:252):
\* the lock of a process that is still there goes only when that process releases
\* it.
LiveLockKept ==
  [][lock # None /\ ~Gone(lock) /\ lock' # lock
       => save[lock[1]].at \in {"releasing", "failing"}]_pvars
=============================================================================
