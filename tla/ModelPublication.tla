-------------------------- MODULE ModelPublication --------------------------
(***************************************************************************)
(* publishQbModelRun (modelManifests.ts): HEAD every object, enroll the    *)
(* absent ones for orphan cleanup in a transaction of their own, PUT every *)
(* object, and commit the run in a transaction that holds its address      *)
(* locks from guard_model_publication to COMMIT.  An object that its PUT   *)
(* re-created although the preflight had seen it is enrolled before BEGIN. *)
(* Nothing is re-queued on a refusal: enrollment is what owns the bytes.   *)
(***************************************************************************)
EXTENDS GovernanceTables

\* withPinnedQbReport authorized every dataset the run pins.
BeginRun(p) ==
  /\ pc[p] = "idle"
  /\ \A d \in Inputs[Target[p]] : Live(d)
  /\ InputsLive(Target[p])
  /\ todo' = [todo EXCEPT ![p] = Files[Target[p]]]
  /\ Goto(p, "preflight")
  /\ UNCHANGED <<bytes, tables, lock, at, absent, inflight>>

\* One HEAD of the preflight loop.
PreflightHead(p, a) ==
  /\ pc[p] = "preflight" /\ a \in todo[p]
  /\ absent' = [absent EXCEPT ![p] = IF a \in bytes THEN @ ELSE @ \cup {a}]
  /\ todo' = [todo EXCEPT ![p] = @ \ {a}]
  /\ UNCHANGED <<bytes, tables, lock, pc, at, inflight>>

\* Variant with a fault: what a run references is observed too.
EnrollReferenced(A) == observed' = Marked(observed, A, "fresh")

\* enroll_model_objects: refuse a tombstone; observe, from now on, what no run
\* of any status references.
EnrollmentAllowed(A) == LockFree(A) /\ \A a \in A : ~Tombstoned(a)
Enroll(A) == observed' = Marked(observed, {a \in A : References(a) = {}}, "fresh")

\* The enrollment of what the preflight found missing, possibly nothing.
EnrollAbsent(p) ==
  /\ pc[p] = "preflight" /\ todo[p] = {}
  /\ EnrollmentAllowed(absent[p])
  /\ Enroll(absent[p])
  /\ todo' = [todo EXCEPT ![p] = Files[Target[p]]]
  /\ Goto(p, "upload")
  /\ UNCHANGED <<bytes, row, outcome, elapsed, lock, job, at, absent, inflight>>

\* One PUT.  If it created what the preflight had seen, that is enrolled next.
UploadObject(p, a) ==
  /\ pc[p] = "upload" /\ a \in todo[p]
  /\ bytes' = bytes \cup {a}
  /\ todo' = [todo EXCEPT ![p] = @ \ {a}]
  /\ IF a \notin bytes /\ a \notin absent[p]
     THEN Goto(p, "reenroll") /\ at' = [at EXCEPT ![p] = {a}]
     ELSE UNCHANGED <<pc, at>>
  /\ UNCHANGED <<tables, lock, absent, inflight>>

Reenroll(p) ==
  /\ pc[p] = "reenroll"
  /\ EnrollmentAllowed(at[p])
  /\ Enroll(at[p])
  /\ at' = [at EXCEPT ![p] = {}]
  /\ Goto(p, "upload")
  /\ UNCHANGED <<bytes, row, outcome, elapsed, lock, job, todo, absent, inflight>>

\* Variant with a fault: the guard trusts the inputs that were authorized.
GuardAllowsInputs(x) ==
  /\ row[x] # "withdrawn"
  /\ Live(x) \/ \A a \in Files[x] : ~Tombstoned(a)

\* guard_model_publication after its lock waits: no pinned dataset or snapshot
\* and not the run itself has been withdrawn, and no object has a tombstone,
\* unless this exact run is already live.
GuardAllows(x) ==
  /\ row[x] # "withdrawn"
  /\ \A d \in Inputs[x] : Live(d)
  /\ InputsLive(x)
  /\ Live(x) \/ \A a \in Files[x] : ~Tombstoned(a)

\* Variant with a fault: the guard does not wait for the address locks.
GuardRunUnlocked(p) ==
  /\ pc[p] = "upload" /\ todo[p] = {}
  /\ GuardAllows(Target[p])
  /\ todo' = [todo EXCEPT ![p] = Files[Target[p]]]
  /\ Goto(p, "verify")
  /\ UNCHANGED <<bytes, tables, lock, at, absent, inflight>>

\* BEGIN and the guard; todo is then what is left of the HEAD loop.
GuardRun(p) ==
  /\ pc[p] = "upload" /\ todo[p] = {}
  /\ LockFree(Files[Target[p]])
  /\ GuardAllows(Target[p])
  /\ Acquire(p, Files[Target[p]])
  /\ todo' = [todo EXCEPT ![p] = Files[Target[p]]]
  /\ Goto(p, "verify")
  /\ UNCHANGED <<bytes, tables, at, absent, inflight>>

\* Variant with a fault: any answer to the HEAD will do.
VerifyHeadSkipped(p, a) ==
  /\ pc[p] = "verify" /\ a \in todo[p]
  /\ todo' = [todo EXCEPT ![p] = @ \ {a}]
  /\ UNCHANGED <<bytes, tables, lock, pc, at, absent, inflight>>

VerifyHead(p, a) ==
  /\ pc[p] = "verify" /\ a \in todo[p] /\ a \in bytes
  /\ todo' = [todo EXCEPT ![p] = @ \ {a}]
  /\ UNCHANGED <<bytes, tables, lock, pc, at, absent, inflight>>

\* What every return and every throw leaves behind.
Returns(p) ==
  /\ Release(p)
  /\ todo' = [todo EXCEPT ![p] = {}]
  /\ at' = [at EXCEPT ![p] = {}]
  /\ absent' = [absent EXCEPT ![p] = {}]
  /\ Goto(p, "idle")

\* publish_model_run, which repeats the guard, and COMMIT: a new run or the
\* existing one, and the end of every observation of its objects.
PublishRun(p) ==
  /\ pc[p] = "verify" /\ todo[p] = {}
  /\ GuardAllows(Target[p])
  /\ SetRow(Target[p], "live")
  /\ observed' = Marked(observed, Files[Target[p]], "none")
  /\ Returns(p)
  /\ UNCHANGED <<bytes, outcome, elapsed, job, inflight>>

\* Any refusal, missing object, ROLLBACK, lost session or crash: only what was
\* committed before, the enrollment, survives.
AbortRun(p) ==
  /\ pc[p] # "idle"
  /\ Returns(p)
  /\ UNCHANGED <<bytes, tables, inflight>>

\* A PUT that timed out, or whose caller died, and that may still land.
UploadOutlivesCaller(p, a) ==
  /\ LatePuts /\ pc[p] = "upload" /\ a \in todo[p]
  /\ latePut' = latePut \cup {a}
  /\ Returns(p)
  /\ UNCHANGED <<bytes, tables, lateDelete>>

RunStep(p) ==
  \/ BeginRun(p)
  \/ \E a \in todo[p] : PreflightHead(p, a)
  \/ EnrollAbsent(p)
  \/ \E a \in todo[p] : UploadObject(p, a)
  \/ Reenroll(p)
  \/ GuardRun(p)
  \/ \E a \in todo[p] : VerifyHead(p, a)
  \/ PublishRun(p)
  \/ AbortRun(p)
  \/ \E a \in todo[p] : UploadOutlivesCaller(p, a)

ModelNext == \E p \in ModelPublishers : RunStep(p)
=============================================================================
