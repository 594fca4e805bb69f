-------------------------- MODULE PublishedObjects --------------------------
(***************************************************************************)
(* What the feature store promises, without locks, transactions, queues or *)
(* sweeps: bytes come and go, but a row is published only over bytes that  *)
(* are there and were never deleted, rows are withdrawn together with all  *)
(* that was derived from them, and bytes of a live row are not reclaimed.  *)
(***************************************************************************)
CONSTANTS Items, Address, Files, Inputs, Preloaded

VARIABLES
  bytes,      \* the addresses that hold bytes
  row,        \* absent, live or withdrawn
  deleted     \* addresses whose content must not be published again

vars == <<bytes, row, deleted>>

Live(x) == row[x] = "live"
InUse(a) == \E x \in Items : Live(x) /\ a \in Files[x]

Init ==
  /\ bytes = UNION {Files[x] : x \in Preloaded}
  /\ row = [x \in Items |-> IF x \in Preloaded THEN "live" ELSE "absent"]
  /\ deleted = {}

Store ==
  /\ bytes \subseteq bytes' /\ bytes' \subseteq Address
  /\ UNCHANGED <<row, deleted>>

\* A row is published once, from live inputs, over bytes that are present.
Publish(x) ==
  /\ row[x] = "absent"
  /\ Files[x] \subseteq bytes \ deleted
  /\ \A d \in Inputs[x] : Live(d)
  /\ row' = [row EXCEPT ![x] = "live"]
  /\ UNCHANGED <<bytes, deleted>>

\* Rows are withdrawn with everything derived from them, for good.
Withdraw(X) ==
  /\ \A x \in X : row[x] # "absent"
  /\ \A x \in Items : Inputs[x] \cap X # {} /\ Live(x) => x \in X
  /\ row' = [x \in Items |-> IF x \in X THEN "withdrawn" ELSE row[x]]
  /\ deleted' = deleted \cup UNION {Files[x] : x \in X}
  /\ UNCHANGED bytes

Reclaim ==
  /\ bytes' \subseteq bytes
  /\ \A a \in bytes \ bytes' : ~InUse(a)
  /\ UNCHANGED <<row, deleted>>

Next ==
  \/ Store
  \/ Reclaim
  \/ \E x \in Items : Publish(x)
  \/ \E X \in SUBSET Items : Withdraw(X)

Spec == Init /\ [][Next]_vars
=============================================================================
