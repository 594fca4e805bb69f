---------------------------- MODULE CorpusProofs ----------------------------
(***************************************************************************)
(* The corpus run's properties, proved for every value of the constants:   *)
(* the imports into the database, the review page, the capture page,       *)
(* discovery and the readiness gate, the readiness report; and, from       *)
(* PrivateFileProofs, the saves to the private files.                      *)
(*                                                                         *)
(* The run takes the steps of one part only.  Each theorem says what the   *)
(* part's inductive invariant says while that part is the one chosen.      *)
(***************************************************************************)
EXTENDS MCCorpus, FiniteSetTheorems, WellFoundedInduction, TLAPS

-----------------------------------------------------------------------------
(***************************************************************************)
(* Imports.  What an importer is about to commit extends the snapshot it   *)
(* planned against.  A commit is refused unless that snapshot is what is   *)
(* stored, so stored tables are only ever extended.                        *)
(***************************************************************************)
Histories == Seq(Int)
Sources == [captures : Histories, decisions : Histories, fetched : Int]
Snapshots == [Creators -> Int \cup {None}]
Tables == [captures : Histories, decisions : Histories, gate : BOOLEAN, api : Snapshots,
           imports : Seq(Sources)]

\* What a transaction that replaces tables t by u leaves as it was.
Extends(t, u) ==
  /\ Imports!IsPrefix(t.captures, u.captures)
  /\ Imports!IsPrefix(t.decisions, u.decisions)
  /\ Imports!IsPrefix(t.imports, u.imports)

\* The audit of tables t tells the truth.
AuditTrue(t) ==
  \A m, n \in DOMAIN t.imports :
    /\ Imports!IsPrefix(t.imports[m].captures, t.captures)
    /\ Imports!IsPrefix(t.imports[m].decisions, t.decisions)
    /\ m # n => t.imports[m] # t.imports[n]

\* In its transaction an importer has a snapshot.
InTransaction == {"lock import", "lock expiry", "plan", "delete", "commit"}

\* What importer i holds.
HoldsSound(l) ==
  /\ l.captures \in Histories /\ l.decisions \in Histories /\ l.fetched \in Int
  /\ l.at \in InTransaction => l.tables \in Tables /\ AuditTrue(l.tables)
  /\ l.at = "commit" => l.next \in Tables /\ AuditTrue(l.next) /\ Extends(l.tables, l.next)

\* Where an importer can be.
Places == {"resting", "decisions", "discovery", "begin", "expire"} \cup InTransaction

Locals == [at : Places, captures : Histories, decisions : Histories, fetched : Int, now : Int,
           tables : Tables \cup {None}, next : Tables \cup {None}]

\* The inductive invariant.
ImportsSound ==
  /\ day \in Int /\ discovered \in Int /\ written \in Int
  /\ captureLog \in Histories /\ decisionLog \in Histories
  /\ stored \in Tables /\ AuditTrue(stored)
  /\ importer \in [Importers -> Locals]
  /\ \A i \in Importers : HoldsSound(importer[i])

OwnerMoves == \/ Imports!SaveCapture \/ Imports!SaveDecision \/ Imports!RestoreCaptures
              \/ Imports!Discover \/ Imports!NextDay
ImporterMoves(i) == \/ Imports!LoadCaptures(i) \/ Imports!LoadDecisions(i)
                    \/ Imports!LoadDiscovery(i) \/ Imports!BeginExpiry(i)
                    \/ Imports!Snapshot(i) \/ Imports!TryLock(i) \/ Imports!PlanImport(i)
                    \/ Imports!DeleteExpired(i) \/ Imports!Abort(i)
-----------------------------------------------------------------------------
(* Prefixes. *)

\* A history begins with itself.
LEMMA PrefixReflexive ==
  ASSUME NEW S, NEW s \in Seq(S)
  PROVE  Imports!IsPrefix(s, s)
  BY DEF Imports!IsPrefix

\* What a history begins with, element by element.
LEMMA PrefixElements ==
  ASSUME NEW S, NEW s \in Seq(S), NEW t \in Seq(S)
  PROVE  Imports!IsPrefix(s, t) <=> Len(s) <= Len(t) /\ \A k \in 1..Len(s) : s[k] = t[k]
<1>1. ASSUME Imports!IsPrefix(s, t), NEW k \in 1..Len(s)
      PROVE  s[k] = t[k]
  <2>1. SubSeq(s, 1, Len(s))[k] = s[k] /\ SubSeq(t, 1, Len(s))[k] = t[k]
    BY <1>1 DEF Imports!IsPrefix
  <2>2. QED  BY <1>1, <2>1 DEF Imports!IsPrefix
<1>2. ASSUME Len(s) <= Len(t), \A k \in 1..Len(s) : s[k] = t[k]
      PROVE  SubSeq(s, 1, Len(s)) = SubSeq(t, 1, Len(s))
  BY <1>2
<1>3. QED  BY <1>1, <1>2 DEF Imports!IsPrefix

\* What begins a beginning begins the whole.
LEMMA PrefixTransitive ==
  ASSUME NEW S, NEW s \in Seq(S), NEW t \in Seq(S), NEW u \in Seq(S),
         Imports!IsPrefix(s, t), Imports!IsPrefix(t, u)
  PROVE  Imports!IsPrefix(s, u)
<1>1. Len(s) <= Len(t) /\ \A k \in 1..Len(s) : s[k] = t[k]
  BY PrefixElements
<1>2. Len(t) <= Len(u) /\ \A k \in 1..Len(t) : t[k] = u[k]
  BY PrefixElements
<1>3. Len(s) <= Len(u) /\ \A k \in 1..Len(s) : s[k] = u[k]
  BY <1>1, <1>2
<1>4. QED  BY <1>3, PrefixElements

\* Appending keeps the beginning.
LEMMA PrefixAppend ==
  ASSUME NEW S, NEW s \in Seq(S), NEW x \in S
  PROVE  /\ Append(s, x) \in Seq(S)
         /\ Imports!IsPrefix(s, Append(s, x))
<1>1. /\ Append(s, x) \in Seq(S) /\ Len(s) <= Len(Append(s, x))
      /\ \A k \in 1..Len(s) : s[k] = Append(s, x)[k]
  OBVIOUS
<1>2. QED  BY <1>1, PrefixElements
-----------------------------------------------------------------------------
(* What a transaction is about to commit. *)

\* Tables extend themselves, and extensions compose.
LEMMA TablesExtendThemselves ==
  ASSUME NEW t \in Tables
  PROVE  Extends(t, t)
<1>1. t.captures \in Histories /\ t.decisions \in Histories /\ t.imports \in Seq(Sources)
  BY DEF Tables
<1>2. QED  BY <1>1, PrefixReflexive DEF Extends, Histories

\* A plan to append publishes tables that extend the planned ones, with a true audit:
\* the files continue both histories, and no earlier import was made of the same files.
LEMMA PublishedExtends ==
  ASSUME NEW t \in Tables, AuditTrue(t),
         NEW l \in Locals, Imports!Plan(l, t) = "append"
  PROVE  /\ Imports!Published(l, t) \in Tables
         /\ AuditTrue(Imports!Published(l, t))
         /\ Extends(t, Imports!Published(l, t))
<1> DEFINE u == Imports!Published(l, t)
<1>1. /\ t.captures \in Histories /\ t.decisions \in Histories /\ t.imports \in Seq(Sources)
      /\ l.captures \in Histories /\ l.decisions \in Histories /\ l.fetched \in Int
  BY DEF Tables, Locals
<1>2. /\ Imports!IsPrefix(t.captures, l.captures) /\ Imports!IsPrefix(t.decisions, l.decisions)
      /\ ~Imports!Matches(l, t)
  BY DEF Imports!Plan, Imports!Continues
<1>3. Imports!Audit(l) \in Sources
  BY <1>1 DEF Imports!Audit, Sources
<1>4. /\ u.captures = l.captures /\ u.decisions = l.decisions
      /\ u.imports = Append(t.imports, Imports!Audit(l))
  BY DEF Imports!Published, Imports!Rows
<1>5. u \in Tables
  <2>1. Append(t.imports, Imports!Audit(l)) \in Seq(Sources)  BY <1>1, <1>3
  <2>2. [c \in Creators |-> l.fetched] \in Snapshots  BY <1>1 DEF Snapshots
  <2>3. QED  BY <1>1, <2>1, <2>2 DEF Imports!Published, Imports!Rows, Tables
<1>6. Extends(t, u)
  BY <1>1, <1>2, <1>3, <1>4, PrefixAppend DEF Extends
<1>7. AuditTrue(u)
  <2>1. /\ Len(u.imports) = Len(t.imports) + 1 /\ Len(t.imports) \in Nat
        /\ DOMAIN u.imports = 1..(Len(t.imports) + 1) /\ DOMAIN t.imports = 1..Len(t.imports)
        /\ \A m \in 1..Len(t.imports) : u.imports[m] = t.imports[m] /\ t.imports[m] \in Sources
        /\ u.imports[Len(t.imports) + 1] = Imports!Audit(l)
    BY <1>1, <1>3, <1>4
  <2>2. \A m \in 1..Len(t.imports) : t.imports[m] # Imports!Audit(l)
    BY <1>2 DEF Imports!Matches, Imports!Contains
  <2>3. ASSUME NEW m \in 1..Len(t.imports)
        PROVE  /\ Imports!IsPrefix(t.imports[m].captures, l.captures)
               /\ Imports!IsPrefix(t.imports[m].decisions, l.decisions)
    <3>1. /\ t.imports[m].captures \in Histories /\ t.imports[m].decisions \in Histories
      BY <2>1 DEF Sources
    <3>2. /\ Imports!IsPrefix(t.imports[m].captures, t.captures)
          /\ Imports!IsPrefix(t.imports[m].decisions, t.decisions)
      BY <2>1 DEF AuditTrue
    <3>3. QED  BY <1>1, <1>2, <3>1, <3>2, PrefixTransitive DEF Histories
  <2>4. /\ Imports!IsPrefix(Imports!Audit(l).captures, l.captures)
        /\ Imports!IsPrefix(Imports!Audit(l).decisions, l.decisions)
    BY <1>1, PrefixReflexive DEF Imports!Audit, Histories
  <2>5. ASSUME NEW m \in 1..(Len(t.imports) + 1)
        PROVE  /\ Imports!IsPrefix(u.imports[m].captures, u.captures)
               /\ Imports!IsPrefix(u.imports[m].decisions, u.decisions)
    <3>1. CASE m \in 1..Len(t.imports)  BY <3>1, <2>1, <2>3, <1>4
    <3>2. CASE m = Len(t.imports) + 1  BY <3>2, <2>1, <2>4, <1>4
    <3>3. QED  BY <2>1, <3>1, <3>2
  <2>6. ASSUME NEW m \in 1..(Len(t.imports) + 1), NEW n \in 1..(Len(t.imports) + 1), m # n
        PROVE  u.imports[m] # u.imports[n]
    <3>1. CASE m \in 1..Len(t.imports) /\ n \in 1..Len(t.imports)
      <4>1. u.imports[m] = t.imports[m] /\ u.imports[n] = t.imports[n]  BY <3>1, <2>1
      <4>2. m \in DOMAIN t.imports /\ n \in DOMAIN t.imports  BY <3>1, <2>1
      <4>3. QED  BY <2>6, <4>1, <4>2, Zenon DEF AuditTrue
    <3>2. CASE m = Len(t.imports) + 1
      <4>1. n \in 1..Len(t.imports)  BY <3>2, <2>1, <2>6
      <4>2. QED  BY <3>2, <2>1, <2>2, <4>1, Zenon
    <3>3. CASE n = Len(t.imports) + 1
      <4>1. m \in 1..Len(t.imports)  BY <3>3, <2>1, <2>6
      <4>2. QED  BY <3>3, <2>1, <2>2, <4>1, Zenon
    <3>4. QED  BY <2>1, <3>1, <3>2, <3>3
  <2>7. QED  BY <2>1, <2>5, <2>6 DEF AuditTrue
<1>8. QED  BY <1>5, <1>6, <1>7

\* An expiry touches neither history nor audit.
LEMMA ExpiredExtends ==
  ASSUME NEW t \in Tables, AuditTrue(t), NEW api \in Snapshots
  PROVE  LET u == [t EXCEPT !.api = api]
         IN u \in Tables /\ AuditTrue(u) /\ Extends(t, u)
<1> DEFINE u == [t EXCEPT !.api = api]
<1>1. u \in Tables  BY DEF Tables
<1>2. u.captures = t.captures /\ u.decisions = t.decisions /\ u.imports = t.imports
  BY DEF Tables
<1>3. Extends(t, u)  BY <1>2, TablesExtendThemselves DEF Extends
<1>4. AuditTrue(u)  BY <1>2 DEF AuditTrue
<1>5. QED  BY <1>1, <1>3, <1>4
-----------------------------------------------------------------------------
(* The invariant. *)

\* Steps that leave the database alone, for importer i at most.
LEMMA LocalStep ==
  ASSUME ImportsSound, NEW i \in Importers, NEW l \in Locals, HoldsSound(l),
         importer' = [importer EXCEPT ![i] = l]
  PROVE  /\ importer' \in [Importers -> Locals]
         /\ \A j \in Importers : HoldsSound(importer'[j])
<1>1. importer' \in [Importers -> Locals]
  BY DEF ImportsSound
<1>2. \A j \in Importers : importer'[j] = IF j = i THEN l ELSE importer[j]
  BY DEF ImportsSound
<1>3. QED  BY <1>1, <1>2 DEF ImportsSound

\* An importer that rests holds nothing.
LEMMA RestingSound == Imports!Resting \in Locals /\ HoldsSound(Imports!Resting)
<1>1. <<>> \in Histories  BY DEF Histories
<1>2. "resting" \notin InTransaction /\ "resting" # "commit"  BY DEF InTransaction
<1>3. QED  BY <1>1, <1>2 DEF Imports!Resting, Locals, Places, HoldsSound, InTransaction

\* Initially the database is empty and every importer rests.
LEMMA InvInit == Imports!IInit => ImportsSound
<1> SUFFICES ASSUME Imports!IInit PROVE ImportsSound
  OBVIOUS
<1>1. <<>> \in Histories /\ <<>> \in Seq(Sources)  BY DEF Histories
<1>2. stored \in Tables /\ AuditTrue(stored)
  BY <1>1 DEF Imports!IInit, Tables, Snapshots, AuditTrue
<1>3. QED  BY <1>1, <1>2, RestingSound DEF Imports!IInit, ImportsSound

\* The owner's steps.
LEMMA OwnerStep ==
  ASSUME ImportsSound,
         OwnerMoves
  PROVE  ImportsSound' /\ UNCHANGED stored
<1>0. UNCHANGED <<stored, importer>>
  BY DEF OwnerMoves, Imports!SaveCapture, Imports!SaveDecision,
         Imports!RestoreCaptures, Imports!Discover, Imports!NextDay
<1>1. day' \in Int /\ discovered' \in Int /\ written' \in Int
  BY DEF ImportsSound, OwnerMoves, Imports!SaveCapture, Imports!SaveDecision,
         Imports!RestoreCaptures, Imports!Discover, Imports!NextDay
<1>2. captureLog' \in Histories
  <2>1. CASE Imports!SaveCapture  BY <2>1, <1>1 DEF ImportsSound, Imports!SaveCapture, Histories
  <2>2. CASE Imports!RestoreCaptures
    BY <2>2 DEF ImportsSound, Imports!RestoreCaptures, Histories, Imports!Front
  <2>3. CASE UNCHANGED captureLog  BY <2>3 DEF ImportsSound
  <2>4. QED  BY <2>1, <2>2, <2>3
    DEF OwnerMoves, Imports!SaveDecision, Imports!Discover, Imports!NextDay
<1>3. decisionLog' \in Histories
  <2>1. CASE Imports!SaveDecision
    BY <2>1, <1>1 DEF ImportsSound, Imports!SaveDecision, Histories
  <2>2. CASE UNCHANGED decisionLog  BY <2>2 DEF ImportsSound
  <2>3. QED  BY <2>1, <2>2
    DEF OwnerMoves, Imports!SaveCapture, Imports!RestoreCaptures, Imports!Discover,
        Imports!NextDay
<1>4. stored' \in Tables /\ AuditTrue(stored')
  BY <1>0 DEF ImportsSound
<1>5. importer' \in [Importers -> Locals] /\ \A i \in Importers : HoldsSound(importer'[i])
  BY <1>0 DEF ImportsSound
<1>6. QED  BY <1>0, <1>1, <1>2, <1>3, <1>4, <1>5 DEF ImportsSound

\* What importer i does to its own state before it commits.
LEMMA ImporterStep ==
  ASSUME ImportsSound, NEW i \in Importers,
         ImporterMoves(i)
  PROVE  \E l \in Locals : HoldsSound(l) /\ importer' = [importer EXCEPT ![i] = l]
<1> DEFINE l == importer[i]
<1>0. l \in Locals /\ HoldsSound(l) /\ captureLog \in Histories /\ decisionLog \in Histories
      /\ discovered \in Int /\ day \in Int /\ stored \in Tables /\ AuditTrue(stored)
  BY DEF ImportsSound
<1>1. CASE Imports!LoadCaptures(i)
  <2> DEFINE n == [l EXCEPT !.at = "decisions", !.captures = captureLog]
  <2>1. importer' = [importer EXCEPT ![i] = n]  BY <1>1 DEF Imports!LoadCaptures, ImportsSound
  <2>2. n \in Locals /\ HoldsSound(n)  BY <1>0 DEF Locals, Places, HoldsSound, InTransaction
  <2>3. QED  BY <2>1, <2>2
<1>2. CASE Imports!LoadDecisions(i)
  <2> DEFINE n == [l EXCEPT !.at = "discovery", !.decisions = decisionLog]
  <2>1. importer' = [importer EXCEPT ![i] = n]  BY <1>2 DEF Imports!LoadDecisions, ImportsSound
  <2>2. n \in Locals /\ HoldsSound(n)  BY <1>0 DEF Locals, Places, HoldsSound, InTransaction
  <2>3. QED  BY <2>1, <2>2
<1>3. CASE Imports!LoadDiscovery(i)
  <2> DEFINE n == [l EXCEPT !.at = "begin", !.fetched = discovered, !.now = day]
  <2>1. importer' = [importer EXCEPT ![i] = n]  BY <1>3 DEF Imports!LoadDiscovery, ImportsSound
  <2>2. n \in Locals /\ HoldsSound(n)  BY <1>0 DEF Locals, Places, HoldsSound, InTransaction
  <2>3. QED  BY <2>1, <2>2
<1>4. CASE Imports!BeginExpiry(i)
  <2> DEFINE n == [l EXCEPT !.at = "expire"]
  <2>1. importer' = [importer EXCEPT ![i] = n]
    BY <1>4 DEF Imports!BeginExpiry, Imports!Goto, ImportsSound
  <2>2. n \in Locals /\ HoldsSound(n)  BY <1>0 DEF Locals, Places, HoldsSound, InTransaction
  <2>3. QED  BY <2>1, <2>2
<1>5. CASE Imports!Snapshot(i)
  <2> DEFINE at == IF l.at = "begin" THEN "lock import" ELSE "lock expiry"
             n == [l EXCEPT !.tables = stored, !.at = at]
  <2>1. importer' = [importer EXCEPT ![i] = n]  BY <1>5 DEF Imports!Snapshot, ImportsSound
  <2>2. n \in Locals /\ HoldsSound(n)  BY <1>0 DEF Locals, Places, HoldsSound, InTransaction
  <2>3. QED  BY <2>1, <2>2
<1>6. CASE Imports!TryLock(i)
  <2> DEFINE at == IF l.at = "lock import" THEN "plan" ELSE "delete"
             n == [l EXCEPT !.at = at]
  <2>1. \/ importer' = [importer EXCEPT ![i] = n]
        \/ importer' = [importer EXCEPT ![i] = Imports!Resting]
    BY <1>6 DEF Imports!TryLock, Imports!Goto, Imports!Finish, ImportsSound
  <2>2. n \in Locals /\ HoldsSound(n)
    BY <1>0, <1>6 DEF Imports!TryLock, Locals, Places, HoldsSound, InTransaction
  <2>3. QED  BY <2>1, <2>2, RestingSound
<1>7. CASE Imports!PlanImport(i)
  <2>1. CASE Imports!Plan(l, l.tables) = "append"
    <3> DEFINE n == [Imports!Resting EXCEPT !.at = "commit", !.tables = l.tables,
                                    !.next = Imports!Published(l, l.tables)]
    <3>1. importer' = [importer EXCEPT ![i] = n]  BY <1>7, <2>1 DEF Imports!PlanImport
    <3>2. l.tables \in Tables /\ AuditTrue(l.tables)
      BY <1>0, <1>7 DEF Imports!PlanImport, HoldsSound, InTransaction
    <3>3. /\ Imports!Published(l, l.tables) \in Tables
          /\ AuditTrue(Imports!Published(l, l.tables))
          /\ Extends(l.tables, Imports!Published(l, l.tables))
      BY <1>0, <2>1, <3>2, PublishedExtends
    <3>4. /\ n \in Locals /\ n.at = "commit"
          /\ n.tables = l.tables /\ n.next = Imports!Published(l, l.tables)
          /\ n.captures = Imports!Resting.captures /\ n.decisions = Imports!Resting.decisions
          /\ n.fetched = Imports!Resting.fetched
      <4> DEFINE t == l.tables
                 u == Imports!Published(l, t)
      <4>1. t \in Tables /\ u \in Tables /\ Imports!Resting \in Locals
        BY <3>2, <3>3, RestingSound
      <4>2. n = [Imports!Resting EXCEPT !.at = "commit", !.tables = t, !.next = u]
        OBVIOUS
      <4> HIDE DEF n, t, u
      <4>3. /\ n \in Locals /\ n.at = "commit" /\ n.tables = t /\ n.next = u
            /\ n.captures = Imports!Resting.captures /\ n.decisions = Imports!Resting.decisions
            /\ n.fetched = Imports!Resting.fetched
        BY <4>1, <4>2 DEF Locals, Places, InTransaction
      <4>4. t = l.tables /\ u = Imports!Published(l, l.tables)
        BY DEF t, u
      <4>5. QED  BY <4>3, <4>4
    <3> HIDE DEF n
    <3>5. HoldsSound(n)  BY <3>2, <3>3, <3>4, RestingSound DEF HoldsSound, InTransaction
    <3>6. QED  BY <3>1, <3>4, <3>5
  <2>2. CASE Imports!Plan(l, l.tables) # "append"
    BY <1>7, <2>2, RestingSound DEF Imports!PlanImport, Imports!Finish
  <2>3. QED  BY <2>1, <2>2
<1>8. CASE Imports!DeleteExpired(i)
  <2>1. l.tables \in Tables /\ AuditTrue(l.tables)
    BY <1>0, <1>8 DEF Imports!DeleteExpired, HoldsSound, InTransaction
  <2>2. PICK api : /\ api = [c \in Creators |->
                             IF l.tables.api[c] # None /\ l.tables.api[c] < day - MaxAge
                             THEN None ELSE l.tables.api[c]]
    OBVIOUS
  <2>3. api \in Snapshots  BY <2>1, <2>2 DEF Tables, Snapshots
  <2> DEFINE u == [l.tables EXCEPT !.api = api]
             n == [l EXCEPT !.at = "commit", !.next = u]
  <2>4. importer' = [importer EXCEPT ![i] = n]
    BY <1>8, <2>1, <2>2 DEF Imports!DeleteExpired, ImportsSound, Tables
  <2>5. u \in Tables /\ AuditTrue(u) /\ Extends(l.tables, u)
    BY <2>1, <2>3, ExpiredExtends
  <2>6. n \in Locals /\ n.at = "commit" /\ n.next = u /\ n.tables = l.tables
        /\ n.captures = l.captures /\ n.decisions = l.decisions /\ n.fetched = l.fetched
    BY <1>0, <2>5 DEF Locals, Places, InTransaction
  <2> HIDE DEF n, u
  <2>7. HoldsSound(n)  BY <1>0, <2>1, <2>5, <2>6 DEF HoldsSound
  <2>8. QED  BY <2>4, <2>6, <2>7
<1>9. CASE Imports!Abort(i)
  BY <1>9, RestingSound DEF Imports!Abort, Imports!Finish
<1>10. QED  BY <1>1, <1>2, <1>3, <1>4, <1>5, <1>6, <1>7, <1>8, <1>9 DEF ImporterMoves

\* A step keeps the invariant and only extends what is stored.
LEMMA ImportStepSound ==
  ASSUME ImportsSound, [Imports!INext]_(Imports!ivars)
  PROVE  ImportsSound' /\ Extends(stored, stored')
<1>0. stored \in Tables  BY DEF ImportsSound
<1>1. CASE UNCHANGED Imports!ivars
  BY <1>0, <1>1, TablesExtendThemselves DEF Imports!ivars, ImportsSound
<1>2. CASE OwnerMoves
  BY <1>0, <1>2, OwnerStep, TablesExtendThemselves
<1>3. ASSUME NEW i \in Importers,
             ImporterMoves(i)
      PROVE  ImportsSound' /\ Extends(stored, stored')
  <2>1. UNCHANGED <<day, captureLog, decisionLog, discovered, written, stored>>
    BY <1>3 DEF ImporterMoves, Imports!LoadCaptures, Imports!LoadDecisions,
                Imports!LoadDiscovery, Imports!BeginExpiry, Imports!Snapshot, Imports!TryLock,
                Imports!PlanImport, Imports!DeleteExpired, Imports!Abort
  <2>2. importer' \in [Importers -> Locals] /\ \A j \in Importers : HoldsSound(importer'[j])
    BY <1>3, ImporterStep, LocalStep
  <2>3. ImportsSound'  BY <2>1, <2>2 DEF ImportsSound
  <2>4. QED  BY <1>0, <2>1, <2>3, TablesExtendThemselves
<1>4. ASSUME NEW i \in Importers, Imports!Commit(i)
      PROVE  ImportsSound' /\ Extends(stored, stored')
  <2> DEFINE l == importer[i]
  <2>1. UNCHANGED <<day, captureLog, decisionLog, discovered, written>>
    BY <1>4 DEF Imports!Commit
  <2>2. l.next \in Tables /\ AuditTrue(l.next) /\ Extends(l.tables, l.next)
    BY <1>4 DEF Imports!Commit, ImportsSound, HoldsSound
  <2>3. stored' \in Tables /\ AuditTrue(stored') /\ Extends(stored, stored')
    <3>1. CASE Imports!Commits(i)  BY <1>4, <2>2, <3>1 DEF Imports!Commit, Imports!Commits
    <3>2. CASE ~Imports!Commits(i)
      BY <1>0, <1>4, <3>2, TablesExtendThemselves DEF Imports!Commit, ImportsSound
    <3>3. QED  BY <3>1, <3>2
  <2>4. importer' \in [Importers -> Locals] /\ \A j \in Importers : HoldsSound(importer'[j])
    BY <1>4, RestingSound, LocalStep DEF Imports!Commit, Imports!Finish
  <2>5. QED  BY <2>1, <2>3, <2>4 DEF ImportsSound
<1>5. QED  BY <1>1, <1>2, <1>3, <1>4 DEF Imports!INext, OwnerMoves, ImporterMoves

\* The invariant holds while imports are what is looked at.
LEMMA ImportsAlwaysSound ==
  Spec => [](part = "import" => ImportsSound)
<1>1. Init => ImportsSound  BY InvInit DEF Init
<1>2. (part = "import" => ImportsSound) /\ [Next]_vars => (part = "import" => ImportsSound)'
  <2> SUFFICES ASSUME part = "import", ImportsSound, [Next]_vars  PROVE ImportsSound'
    BY DEF Next, vars
  <2>1. [Imports!INext]_(Imports!ivars)  BY DEF Next, vars, importVars, Imports!ivars
  <2>2. QED  BY <2>1, ImportStepSound
<1>3. QED  BY <1>1, <1>2, PTL DEF Spec

\* The audit keeps telling the truth: each import is there once, and the histories in the
\* database begin with exactly the files it was made of, whatever the owner's files have
\* become since (importPublisher.ts).
THEOREM AuditKeepsTrue == Spec => []ImportsTrue
<1>1. (part = "import" => ImportsSound) => ImportsTrue
  BY DEF ImportsSound, AuditTrue, ImportsTrue, Imports!ImportsTrue
<1>2. QED  BY <1>1, ImportsAlwaysSound, PTL

\* Nothing that was committed is lost to an import planned before it: histories and audit
\* only get longer, for any number of importers and expiries that overlap
\* (importPublisher.ts, apiExpiry.ts).
THEOREM CommittedStays == Spec => NothingOverwritten
<1> DEFINE Longer == /\ Imports!IsPrefix(stored.captures, stored'.captures)
                     /\ Imports!IsPrefix(stored.decisions, stored'.decisions)
                     /\ Imports!IsPrefix(stored.imports, stored'.imports)
<1>1. (part = "import" => ImportsSound) /\ [Next]_vars => [Longer]_(Imports!ivars)
  <2> SUFFICES ASSUME part = "import" => ImportsSound, [Next]_vars
               PROVE  [Longer]_(Imports!ivars)
    OBVIOUS
  <2>1. CASE part # "import"  BY <2>1 DEF Next, vars, importVars, Imports!ivars
  <2>2. CASE part = "import"
    <3>1. [Imports!INext]_(Imports!ivars)
      BY <2>2 DEF Next, vars, importVars, Imports!ivars
    <3>2. QED  BY <2>2, <3>1, ImportStepSound DEF Extends
  <2>3. QED  BY <2>1, <2>2
<1>2. QED  BY <1>1, ImportsAlwaysSound, PTL
  DEF Spec, NothingOverwritten, Imports!NothingOverwritten

-----------------------------------------------------------------------------
(***************************************************************************)
(* The review page.  There is one decision under way at most, so its       *)
(* answer is never older than what the page shows by then.                 *)
(***************************************************************************)
ReviewEvents == [video : Videos, decision : {"include", "exclude", "clear"}]
ReviewLogs == Seq(ReviewEvents)

\* What a page knows, or will: the log as it was at some time.
Past(known) == known.log \in ReviewLogs /\ Imports!IsPrefix(known.log, reviewLog)

RequestSound(r) ==
  /\ r \in [video : Videos, decision : {"include", "exclude", "clear"},
            stage : {"sent", "saved", "answered"}, answer : {r.answer}]
  /\ r.stage = "answered" => Past(r.answer) /\ Imports!IsPrefix(shown.log, r.answer.log)

ReviewSound ==
  /\ reviewLog \in ReviewLogs
  /\ shown # None => Past(shown)
  /\ deciding # {} => busy /\ shown # None
  /\ \A r, s \in deciding : r = s
  /\ \A r \in deciding : RequestSound(r)

\* The log is as long or longer, and the page and its request are as they were or are
\* what the three cases of a step make of them.
LEMMA LogGrows ==
  ASSUME NEW known, Past(known), reviewLog \in ReviewLogs, reviewLog' \in ReviewLogs,
         Imports!IsPrefix(reviewLog, reviewLog')
  PROVE  known.log \in ReviewLogs /\ Imports!IsPrefix(known.log, reviewLog')
<1>1. known.log \in ReviewLogs /\ Imports!IsPrefix(known.log, reviewLog)  BY Zenon DEF Past
<1>2. QED  BY <1>1, PrefixTransitive DEF ReviewLogs

LEMMA ReviewLogChanges ==
  ASSUME ReviewSound, Review!RNext
  PROVE  reviewLog' \in ReviewLogs /\ Imports!IsPrefix(reviewLog, reviewLog')
<1>1. ASSUME NEW v \in Videos, NEW d \in {"include", "exclude", "clear"}, Review!Decides(v, d)
      PROVE  reviewLog' \in ReviewLogs /\ Imports!IsPrefix(reviewLog, reviewLog')
  <2>1. [video |-> v, decision |-> d] \in ReviewEvents  BY DEF ReviewEvents
  <2>2. QED  BY <1>1, <2>1, PrefixAppend DEF Review!Decides, ReviewSound, ReviewLogs
<1>2. CASE UNCHANGED reviewLog
  BY <1>2, PrefixReflexive DEF ReviewSound, ReviewLogs
<1>3. CASE Review!OtherDecides
  <2>1. PICK v \in Videos, d \in {"include", "clear"} : Review!Decides(v, d)
    BY <1>3 DEF Review!OtherDecides
  <2>2. d \in {"include", "exclude", "clear"}  OBVIOUS
  <2>3. QED  BY <1>1, <2>1, <2>2
<1>4. ASSUME NEW r \in deciding, Review!ServerDecides(r)
      PROVE  reviewLog' \in ReviewLogs /\ Imports!IsPrefix(reviewLog, reviewLog')
  BY <1>1, <1>4 DEF Review!ServerDecides, ReviewSound, RequestSound
<1>5. QED
  BY <1>2, <1>3, <1>4
  DEF Review!RNext, Review!StartPage, Review!ShowCreator, Review!ShowWeek, Review!ShowFilter,
      Review!Outdate, Review!Fill, Review!DecideOn, Review!ServerStates,
      Review!DecisionSaved, Review!DecisionFails

\* What becomes of the one request: it stays, is gone, or is replaced.
LEMMA RequestsChange ==
  ASSUME ReviewSound, reviewLog' \in ReviewLogs, Imports!IsPrefix(reviewLog, reviewLog'),
         UNCHANGED <<shown, busy>>,
         \/ UNCHANGED deciding
         \/ \E r \in deciding : \E n :
              deciding' = (deciding \ {r}) \cup {n} /\ RequestSound(n)'
  PROVE  ReviewSound'
<1>1. shown' # None => Past(shown)'  BY LogGrows DEF ReviewSound, Past
<1>2. CASE UNCHANGED deciding
  <2>1. ASSUME NEW r \in deciding  PROVE RequestSound(r)'
    BY <2>1, LogGrows DEF ReviewSound, RequestSound, Past
  <2>2. QED  BY <1>1, <1>2, <2>1 DEF ReviewSound
<1>3. ASSUME NEW r \in deciding, NEW n,
             deciding' = (deciding \ {r}) \cup {n}, RequestSound(n)'
      PROVE  ReviewSound'
  <2>1. deciding \ {r} = {}  BY <1>3, Zenon DEF ReviewSound
  <2>2. deciding' = {n}
    <3>1. {} \cup {n} = {n}  BY Zenon
    <3>2. QED  BY <1>3, <2>1, <3>1, Zenon
  <2>3. QED  BY <1>1, <1>3, <2>2 DEF ReviewSound
<1>4. QED  BY <1>2, <1>3

\* A step of the page, the server or another process keeps the invariant, and what the
\* page shows is only replaced by a state of the log that has at least as many decisions.
LEMMA ReviewStep ==
  ASSUME ReviewSound, Review!RNext
  PROVE  ReviewSound' /\ (shown # None => Imports!IsPrefix(shown.log, shown'.log))
<1>0. reviewLog' \in ReviewLogs /\ Imports!IsPrefix(reviewLog, reviewLog')
  BY ReviewLogChanges
<1>1. shown # None => Imports!IsPrefix(shown.log, shown.log)
  BY PrefixReflexive DEF ReviewSound, Past, ReviewLogs
<1>2. CASE Review!StartPage
  <2>1. /\ shown = None /\ deciding = {} /\ deciding' = {}
        /\ shown' = [log |-> reviewLog, blocked |-> outdated] /\ UNCHANGED reviewLog
    BY <1>2 DEF Review!StartPage, ReviewSound
  <2>2. Past(shown)'  BY <2>1, PrefixReflexive DEF ReviewSound, Past, ReviewLogs
  <2>3. QED  BY <1>0, <2>1, <2>2 DEF ReviewSound
<1>3. CASE UNCHANGED <<shown, busy, deciding>>
  <2>1. ReviewSound'  BY <1>0, <1>3, RequestsChange
  <2>2. QED  BY <1>1, <1>3, <2>1
<1>4. ASSUME NEW v \in Videos, NEW d \in {"include", "exclude", "clear"}, Review!DecideOn(v, d)
      PROVE  ReviewSound' /\ (shown # None => Imports!IsPrefix(shown.log, shown'.log))
  <2> DEFINE n == [video |-> v, decision |-> d, stage |-> "sent", answer |-> None]
  <2>1. /\ deciding = {} /\ busy' = TRUE /\ shown # None /\ UNCHANGED <<shown, reviewLog>>
        /\ deciding' = deciding \cup {n}
    BY <1>4 DEF Review!DecideOn, Review!Asked, Review!Visible, ReviewSound
  <2>2. RequestSound(n)'  BY DEF RequestSound
  <2> HIDE DEF n
  <2>3. deciding' = {n} /\ Past(shown)'  BY <2>1 DEF ReviewSound, Past
  <2>4. ReviewSound'  BY <1>0, <2>1, <2>2, <2>3 DEF ReviewSound
  <2>5. QED  BY <1>1, <2>1, <2>4
<1>5. ASSUME NEW r \in deciding, Review!ServerDecides(r)
      PROVE  ReviewSound' /\ (shown # None => Imports!IsPrefix(shown.log, shown'.log))
  <2> DEFINE n == [r EXCEPT !.stage = "saved"]
  <2>1. deciding' = (deciding \ {r}) \cup {n} /\ UNCHANGED <<shown, busy>>
    BY <1>5 DEF Review!ServerDecides
  <2>2. RequestSound(r)  BY DEF ReviewSound
  <2>3. RequestSound(n)'  BY <2>2 DEF RequestSound
  <2> HIDE DEF n
  <2>4. ReviewSound'  BY <1>0, <2>1, <2>3, RequestsChange
  <2>5. QED  BY <1>1, <2>1, <2>4
<1>6. ASSUME NEW r \in deciding, Review!ServerStates(r)
      PROVE  ReviewSound' /\ (shown # None => Imports!IsPrefix(shown.log, shown'.log))
  <2>0. PICK a : a = [log |-> reviewLog, blocked |-> outdated]  OBVIOUS
  <2> DEFINE n == [r EXCEPT !.stage = "answered", !.answer = a]
  <2>1. deciding' = (deciding \ {r}) \cup {n} /\ UNCHANGED <<shown, busy, reviewLog>>
    BY <1>6, <2>0 DEF Review!ServerStates
  <2>2. RequestSound(r) /\ shown # None /\ Past(shown) /\ a.log = reviewLog
    BY <2>0 DEF ReviewSound
  <2>3. Past(a)  BY <2>2, PrefixReflexive DEF Past, ReviewSound, ReviewLogs
  <2>4. /\ n.answer = a /\ n.stage = "answered"
        /\ n \in [video : Videos, decision : {"include", "exclude", "clear"},
                  stage : {"sent", "saved", "answered"}, answer : {a}]
    BY <2>2 DEF RequestSound
  <2> HIDE DEF n
  <2>5. RequestSound(n)'
    <3>1. Past(a)' /\ Imports!IsPrefix(shown'.log, a.log)  BY <2>1, <2>2, <2>3 DEF Past
    <3>2. QED  BY <2>4, <3>1 DEF RequestSound
  <2>6. ReviewSound'  BY <1>0, <2>1, <2>5, RequestsChange
  <2>7. QED  BY <1>1, <2>1, <2>6
<1>7. ASSUME NEW r \in deciding, Review!DecisionSaved(r)
      PROVE  ReviewSound' /\ (shown # None => Imports!IsPrefix(shown.log, shown'.log))
  <2>1. /\ deciding' = {} /\ shown' = r.answer /\ UNCHANGED reviewLog
        /\ Past(r.answer) /\ Imports!IsPrefix(shown.log, r.answer.log)
    BY <1>7 DEF Review!DecisionSaved, ReviewSound, RequestSound
  <2>2. Past(shown)'  BY <2>1 DEF Past
  <2>3. QED  BY <1>0, <2>1, <2>2 DEF ReviewSound
<1>8. ASSUME NEW r \in deciding, Review!DecisionFails(r)
      PROVE  ReviewSound' /\ (shown # None => Imports!IsPrefix(shown.log, shown'.log))
  <2>1. deciding' = {} /\ UNCHANGED <<shown, reviewLog>>
    BY <1>8 DEF Review!DecisionFails, ReviewSound
  <2>2. shown' # None => Past(shown)'  BY <2>1 DEF ReviewSound, Past
  <2>3. ReviewSound'  BY <1>0, <2>1, <2>2 DEF ReviewSound
  <2>4. QED  BY <1>1, <2>1, <2>3
<1>9. QED
  BY <1>2, <1>3, <1>4, <1>5, <1>6, <1>7, <1>8
  DEF Review!RNext, Review!ShowCreator, Review!ShowWeek, Review!ShowFilter, Review!Outdate,
      Review!OtherDecides, Review!Fill

\* The review page never goes back to an older state of the decisions, whatever answers are
\* late or lost and whoever else decides (client.js): for any videos and decisions.
THEOREM ReviewGetsNewer == Spec => ShownNeverOlder
<1> DEFINE Inv == part = "review" => ReviewSound
           Newer == shown # None => Review!IsPrefix(shown.log, shown'.log)
<1>1. Init => Inv
  <2>1. << >> \in ReviewLogs  BY DEF ReviewLogs
  <2>2. QED  BY <2>1 DEF Init, Review!RInit, ReviewSound
<1>2. Inv /\ [Next]_vars => Inv' /\ [Newer]_(Review!rvars)
  <2> SUFFICES ASSUME Inv, [Next]_vars  PROVE Inv' /\ [Newer]_(Review!rvars)
    OBVIOUS
  <2>1. CASE part # "review"  BY <2>1 DEF Next, vars, reviewVars, Review!rvars
  <2>2. CASE part = "review" /\ Review!RNext
    <3>1. ReviewSound' /\ (shown # None => Imports!IsPrefix(shown.log, shown'.log))
      BY <2>2, ReviewStep
    <3>2. ASSUME NEW s, NEW t, Imports!IsPrefix(s, t)  PROVE Review!IsPrefix(s, t)
      BY <3>2 DEF Imports!IsPrefix, Review!IsPrefix
    <3>3. QED  BY <3>1, <3>2
  <2>3. CASE part = "review" /\ UNCHANGED Review!rvars
    <3>1. part' = part  BY DEF Next, vars
    <3>2. ReviewSound'
      BY <2>3 DEF ReviewSound, RequestSound, Past, Review!rvars
    <3>3. QED  BY <2>3, <3>2
  <2>4. QED  BY <2>1, <2>2, <2>3 DEF Next, vars, reviewVars, Review!rvars
<1>3. QED  BY <1>1, <1>2, PTL DEF Spec, ShownNeverOlder, Review!ShownNeverOlder

-----------------------------------------------------------------------------
(***************************************************************************)
(* The capture page.  While its form is open a video may have its text in  *)
(* the box only; an answer that makes the page anew takes the boxes from   *)
(* the drafts, so while one may come every text is a draft as well, except *)
(* one that was typed at risk.  A saved text is in the log before its      *)
(* draft goes.                                                             *)
(***************************************************************************)
QueueSound(q) == q.items \subseteq Page!Listed
LoadSound(l) ==
  /\ l \in [id : {l.id}, scope : {l.scope}, answer : {l.answer}]
  /\ l.answer # None => QueueSound(l.answer)

\* The save under way: what was typed for its video is the text sent, or saved before.
SendingSound(s) ==
  /\ s \in [video : Page!Listed, action : {s.action}, text : {s.text}, scope : {s.scope},
            saved : BOOLEAN, answer : {s.answer}]
  /\ typed[s.video] \in log[s.video] \cup {0, s.text}
  /\ s.saved => s.text \in log[s.video]
  /\ s.answer # None => s.saved /\ QueueSound(s.answer)

\* The text typed for v is safe where ds are the drafts.
Drafted(ds, v) == typed[v] \in log[v] \cup {0, ds[v]}

PageSound ==
  /\ QueueSound(queue)
  /\ drafts = [v \in Page!Listed |-> drafts[v]]
  /\ typed = [v \in Page!Listed |-> typed[v]]
  /\ log = [v \in Page!Listed |-> log[v]]
  /\ \A l \in loads : LoadSound(l)
  /\ sending # None => SendingSound(sending)
  /\ Page!Form => typed[selected] \in log[selected] \cup {0, box}
  /\ \A v \in Page!Listed : v # selected \/ ~Page!Form \/ loads # {} => Drafted(drafts, v)

LEMMA FormListed ==
  ASSUME PageSound, Page!Form  PROVE selected \in Page!Listed
BY DEF PageSound, QueueSound, Page!Form, Page!Items

\* With the box among them, the drafts hold every text.
LEMMA StashedHolds ==
  ASSUME PageSound
  PROVE  /\ Page!Stashed = [v \in Page!Listed |-> Page!Stashed[v]]
         /\ \A v \in Page!Listed : Drafted(Page!Stashed, v)
<1>1. CASE Page!Form
  <2>1. Page!Stashed = [drafts EXCEPT ![selected] = box] /\ selected \in Page!Listed
    BY <1>1, FormListed DEF Page!Stashed
  <2>2. \A v \in Page!Listed : Page!Stashed[v] = IF v = selected THEN box ELSE drafts[v]
    BY <2>1 DEF PageSound
  <2>3. QED  BY <1>1, <2>1, <2>2 DEF PageSound, Drafted
<1>2. CASE ~Page!Form
  BY <1>2 DEF PageSound, Page!Stashed
<1>3. QED  BY <1>1, <1>2

\* The page made anew from drafts that hold every text.
LEMMA RenderKeeps ==
  ASSUME PageSound, NEW q, NEW sel, NEW ds, QueueSound(q),
         ds = [v \in Page!Listed |-> ds[v]],
         \A v \in Page!Listed : Drafted(ds, v), Page!Render(q, sel, ds),
         UNCHANGED <<log, typed>>,
         \A l \in loads' : LoadSound(l), sending' # None => SendingSound(sending)'
  PROVE  PageSound'
<1> DEFINE sel2 == selected'
<1>1. /\ queue' = q /\ drafts' = ds
      /\ box' = IF sel2 \in Page!Items(q, creator') THEN ds[sel2] ELSE 0
  BY DEF Page!Render
<1>2. Page!Form' <=> sel2 \in Page!Items(q, creator')
  BY <1>1 DEF Page!Form, Page!Items
<1>3. sel2 \in Page!Items(q, creator') => sel2 \in Page!Listed
  BY DEF QueueSound, Page!Items
<1>4. \A v \in Page!Listed : Drafted(drafts, v)'  BY <1>1 DEF Drafted, Page!Listed
<1>5. Page!Form' => typed'[sel2] \in log'[sel2] \cup {0, box'}
  BY <1>1, <1>2, <1>3 DEF Drafted
<1>6. \A l \in loads' : LoadSound(l)'  BY DEF LoadSound, QueueSound, Page!Listed
<1>7. QueueSound(queue)'  BY <1>1 DEF QueueSound, Page!Listed
<1>8. QED  BY <1>1, <1>4, <1>5, <1>6, <1>7 DEF PageSound, Page!Listed

\* Steps of the server and of requests: the page itself stays.
LEMMA BehindThePage ==
  ASSUME PageSound, UNCHANGED <<creator, selected, box, drafts, queue>>,
         log' = [v \in Page!Listed |-> log'[v]], typed' = [v \in Page!Listed |-> typed'[v]],
         \A v \in Page!Listed : log[v] \subseteq log'[v] /\ typed'[v] \in {0, typed[v]},
         \A l \in loads' : LoadSound(l), loads' # {} => loads # {},
         sending' # None => SendingSound(sending)'
  PROVE  PageSound'
<1>1. Page!Form' <=> Page!Form  BY DEF Page!Form, Page!Items
<1>2. \A v \in Page!Listed : Drafted(drafts, v) => Drafted(drafts, v)'
  BY DEF Drafted
<1>3. Page!Form' => typed'[selected'] \in log'[selected'] \cup {0, box'}
  BY <1>1, FormListed DEF PageSound
<1>4. \A l \in loads' : LoadSound(l)'  BY DEF LoadSound, QueueSound, Page!Listed
<1>5. QueueSound(queue)' /\ drafts' = [v \in Page!Listed |-> drafts'[v]]
  BY DEF PageSound, QueueSound, Page!Listed
<1>6. \A v \in Page!Listed : v # selected' \/ ~Page!Form' \/ loads' # {} => Drafted(drafts, v)'
  BY <1>1, <1>2 DEF PageSound
<1>7. QED  BY <1>1, <1>3, <1>4, <1>5, <1>6 DEF PageSound, Page!Listed

\* The save under way stays sound as texts go to the log, and none are typed for its video.
LEMMA SendingKeeps ==
  ASSUME PageSound, sending # None, UNCHANGED sending,
         \A v \in Page!Listed : log[v] \subseteq log'[v],
         typed'[sending.video] \in {0, typed[sending.video]}
  PROVE  SendingSound(sending)'
BY DEF PageSound, SendingSound, QueueSound, Page!Listed

\* What the owner does with the form: types, moves on, widens the scope, submits.
LEMMA OwnerKeepsDrafts ==
  ASSUME PageSound,
         \/ Page!Type \/ Page!ChangeScope
         \/ \E v : Page!Select(v) \/ Page!ChooseCreator(v) \/ Page!Submit(v)
  PROVE  PageSound'
<1>1. CASE Page!Type
  <2>1. /\ Page!Form /\ selected \in Page!Listed
        /\ UNCHANGED <<scope, creator, selected, drafts, queue, sending, loads, log>>
    BY <1>1, FormListed DEF Page!Type, Page!server
  <2>2. PICK text : box' = text /\ typed' = [typed EXCEPT ![selected] =
                                               IF Page!AtRisk THEN 0 ELSE text]
    BY <1>1 DEF Page!Type
  <2>3. /\ typed' = [v \in Page!Listed |-> typed'[v]]
        /\ \A v \in Page!Listed : typed'[v] = IF v # selected THEN typed[v]
                                               ELSE IF Page!AtRisk THEN 0 ELSE text
    BY <2>1, <2>2 DEF PageSound
  <2>4. Page!Form' <=> Page!Form  BY <2>1 DEF Page!Form, Page!Items
  <2>5. typed'[selected'] \in log'[selected'] \cup {0, box'}  BY <2>1, <2>2, <2>3
  <2>6. ASSUME NEW v \in Page!Listed, v # selected' \/ ~Page!Form' \/ loads' # {}
        PROVE  Drafted(drafts, v)'
    <3>1. CASE v # selected  BY <2>1, <2>3, <3>1 DEF PageSound, Drafted
    <3>2. CASE v = selected  BY <2>1, <2>3, <2>4, <2>6, <3>2 DEF Drafted, Page!AtRisk
    <3>3. QED  BY <3>1, <3>2
  <2>7. sending' # None => SendingSound(sending)'
    <3> SUFFICES ASSUME sending # None  PROVE SendingSound(sending)'  BY <2>1
    <3>1. sending.video \in Page!Listed  BY DEF PageSound, SendingSound
    <3>2. typed'[sending.video] \in {0, typed[sending.video]}
      BY <2>3, <3>1 DEF Page!AtRisk
    <3>3. QED  BY <2>1, <3>2, SendingKeeps
  <2>8. \A l \in loads' : LoadSound(l)'
    BY <2>1 DEF PageSound, LoadSound, QueueSound, Page!Listed
  <2>9. QED
    BY <2>1, <2>3, <2>5, <2>6, <2>7, <2>8 DEF PageSound, QueueSound, Page!Listed
<1>2. CASE Page!ChangeScope
  <2>1. /\ drafts' = Page!Stashed
        /\ UNCHANGED <<creator, selected, box, queue, sending, typed, log>>
    BY <1>2 DEF Page!ChangeScope, Page!server
  <2>2. PICK id, sc : loads' = loads \cup {[id |-> id, scope |-> sc, answer |-> None]}
    BY <1>2 DEF Page!ChangeScope
  <2>3. \A l \in loads' : LoadSound(l)  BY <2>2 DEF PageSound, LoadSound
  <2>4. \A l \in loads' : LoadSound(l)'  BY <2>3 DEF LoadSound, QueueSound, Page!Listed
  <2>5. sending' # None => SendingSound(sending)'
    <3> SUFFICES ASSUME sending # None  PROVE SendingSound(sending)'  BY <2>1
    <3>1. QED  BY <2>1, SendingKeeps
  <2>6. Page!Form' <=> Page!Form  BY <2>1 DEF Page!Form, Page!Items
  <2>7. /\ drafts' = [v \in Page!Listed |-> drafts'[v]]
        /\ \A v \in Page!Listed : Drafted(drafts, v)'
    BY <2>1, StashedHolds DEF Drafted
  <2>8. Page!Form' => typed'[selected'] \in log'[selected'] \cup {0, box'}
    BY <2>1, <2>6 DEF PageSound
  <2>9. QED
    BY <2>1, <2>4, <2>5, <2>7, <2>8 DEF PageSound, QueueSound, Page!Listed
<1>3. ASSUME NEW v, Page!Select(v)  PROVE PageSound'
  <2>1. /\ selected' = v /\ drafts' = Page!Stashed /\ box' = Page!Stashed[v]
        /\ UNCHANGED <<creator, queue, sending, loads, typed, log>> /\ v \in Page!Listed
    BY <1>3 DEF Page!Select, Page!server, PageSound, QueueSound, Page!Items
  <2>2. /\ drafts' = [w \in Page!Listed |-> drafts'[w]]
        /\ \A w \in Page!Listed : Drafted(drafts, w)'
    BY <2>1, StashedHolds DEF Drafted
  <2>3. typed'[selected'] \in log'[selected'] \cup {0, box'}
    BY <2>1, StashedHolds DEF Drafted
  <2>4. \A l \in loads' : LoadSound(l)'
    BY <2>1 DEF PageSound, LoadSound, QueueSound, Page!Listed
  <2>5. sending' # None => SendingSound(sending)'
    <3> SUFFICES ASSUME sending # None  PROVE SendingSound(sending)'  BY <2>1
    <3>1. QED  BY <2>1, SendingKeeps
  <2>6. QED
    BY <2>1, <2>2, <2>3, <2>4, <2>5 DEF PageSound, QueueSound, Page!Listed
<1>4. ASSUME NEW c, Page!ChooseCreator(c)  PROVE PageSound'
  <2>1. PICK sel : Page!Render(queue, sel, Page!Stashed)
    BY <1>4 DEF Page!ChooseCreator
  <2>2. UNCHANGED <<sending, loads, typed, log>>  BY <1>4 DEF Page!ChooseCreator, Page!server
  <2>3. \A l \in loads' : LoadSound(l)  BY <2>2 DEF PageSound
  <2>4. sending' # None => SendingSound(sending)'
    <3> SUFFICES ASSUME sending # None  PROVE SendingSound(sending)'  BY <2>2
    <3>1. QED  BY <2>2, SendingKeeps
  <2>5. QueueSound(queue)  BY DEF PageSound
  <2>6. QED  BY <2>1, <2>2, <2>3, <2>4, <2>5, StashedHolds, RenderKeeps
<1>5. ASSUME NEW action, Page!Submit(action)  PROVE PageSound'
  <2>1. /\ Page!Form /\ selected \in Page!Listed
        /\ UNCHANGED <<creator, selected, box, drafts, queue, loads, log>>
    BY <1>5, FormListed DEF Page!Submit, Page!page, Page!server
  <2>2. \/ typed' = typed
        \/ typed' = [typed EXCEPT ![selected] = 0]
    BY <1>5 DEF Page!Submit
  <2>3. /\ typed' = [v \in Page!Listed |-> typed'[v]]
        /\ \A v \in Page!Listed : typed'[v] \in {0, typed[v]}
    BY <2>2 DEF PageSound
  <2>4. PICK sc, text :
          /\ sending' = [video |-> selected, action |-> action, text |-> text,
                         scope |-> sc, saved |-> FALSE, answer |-> None]
          /\ text = box \/ typed' = [typed EXCEPT ![selected] = 0]
    BY <1>5 DEF Page!Submit
  <2>5. SendingSound(sending)'
    <3>1. typed'[selected] \in log[selected] \cup {0, text}
      BY <2>1, <2>3, <2>4 DEF PageSound
    <3>2. QED  BY <2>1, <2>4, <3>1 DEF SendingSound, Page!Listed
  <2>6. log' = [v \in Page!Listed |-> log'[v]] /\ \A v \in Page!Listed : log[v] \subseteq log'[v]
    BY <2>1 DEF PageSound
  <2>7. (\A l \in loads' : LoadSound(l)) /\ (loads' # {} => loads # {})
    BY <2>1 DEF PageSound
  <2>8. QED  BY <2>1, <2>3, <2>5, <2>6, <2>7, BehindThePage
<1>6. QED  BY <1>1, <1>2, <1>3, <1>4, <1>5

\* A text that a save adds to the log of its video.
LEMMA LogAdds ==
  ASSUME PageSound, NEW v \in Page!Listed, NEW action, NEW text,
         Page!Appended(v, action, text)
  PROVE  /\ log' = [w \in Page!Listed |-> log'[w]]
         /\ \A w \in Page!Listed : log[w] \subseteq log'[w]
         /\ text \in log'[v]
BY DEF PageSound, Page!Appended

\* An answer lists known videos.
LEMMA QueuesSound ==
  ASSUME NEW sc  PROVE QueueSound(Page!Queue(sc))
BY DEF QueueSound, Page!Queue, Page!Listed

\* The server and another page: what is saved is in the log first, then in an answer.
LEMMA ServerKeepsDrafts ==
  ASSUME PageSound,
         \/ Page!ServerSaves \/ Page!ServerAnswers \/ Page!Expire \/ Page!SaveFails
         \/ \E v \in Page!Listed : Page!OtherSaves(v)
         \/ \E l \in loads : Page!ReadQueue(l) \/ Page!LoadFails(l)
  PROVE  PageSound'
<1>1. /\ UNCHANGED <<creator, selected, box, drafts, queue, typed>>
      /\ typed' = [v \in Page!Listed |-> typed'[v]]
      /\ \A v \in Page!Listed : typed'[v] \in {0, typed[v]}
  BY DEF PageSound, Page!ServerSaves, Page!ServerAnswers, Page!Expire, Page!SaveFails,
         Page!OtherSaves, Page!ReadQueue, Page!LoadFails, Page!page
<1>2. ASSUME UNCHANGED log
      PROVE  log' = [v \in Page!Listed |-> log'[v]] /\ \A v \in Page!Listed : log[v] \subseteq log'[v]
  BY <1>2 DEF PageSound
<1>3. ASSUME UNCHANGED loads
      PROVE  (\A l \in loads' : LoadSound(l)) /\ (loads' # {} => loads # {})
  BY <1>3 DEF PageSound
<1>4. ASSUME UNCHANGED sending, \A v \in Page!Listed : log[v] \subseteq log'[v]
      PROVE  sending' # None => SendingSound(sending)'
  <2> SUFFICES ASSUME sending # None  PROVE SendingSound(sending)'  BY <1>4
  <2>1. typed'[sending.video] \in {0, typed[sending.video]}  BY <1>1
  <2>2. QED  BY <1>4, <2>1, SendingKeeps
<1>5. CASE Page!ServerSaves
  <2> DEFINE s == [sending EXCEPT !.saved = TRUE]
  <2>1. sending # None /\ sending' = s /\ UNCHANGED loads
    BY <1>5 DEF Page!ServerSaves
  <2>2. SendingSound(sending) /\ sending.video \in Page!Listed
    BY <2>1 DEF PageSound, SendingSound
  <2>3. Page!Appended(sending.video, sending.action, sending.text)
    BY <1>5 DEF Page!ServerSaves
  <2>4. /\ log' = [w \in Page!Listed |-> log'[w]] /\ sending.text \in log'[sending.video]
        /\ \A w \in Page!Listed : log[w] \subseteq log'[w]
    BY <2>2, <2>3, LogAdds
  <2>5. SendingSound(sending)'
    BY <1>1, <2>1, <2>2, <2>4 DEF SendingSound, QueueSound, Page!Listed
  <2>6. (\A l \in loads' : LoadSound(l)) /\ (loads' # {} => loads # {})  BY <1>3, <2>1
  <2>7. QED  BY <1>1, <2>4, <2>5, <2>6, BehindThePage
<1>6. CASE Page!ServerAnswers
  <2>0. PICK q : q = Page!Queue(sending.scope)  OBVIOUS
  <2>1. QueueSound(q) /\ sending' = [sending EXCEPT !.answer = q]
    BY <1>6, <2>0, QueuesSound DEF Page!ServerAnswers
  <2>2. /\ UNCHANGED <<loads, log>> /\ sending.saved /\ SendingSound(sending)
    BY <1>6 DEF Page!ServerAnswers, Page!server, PageSound
  <2>3. SendingSound(sending)'
    BY <1>1, <2>1, <2>2 DEF SendingSound, QueueSound, Page!Listed
  <2>4. log' = [v \in Page!Listed |-> log'[v]] /\ \A v \in Page!Listed : log[v] \subseteq log'[v]
    BY <1>2, <2>2
  <2>5. (\A l \in loads' : LoadSound(l)) /\ (loads' # {} => loads # {})  BY <1>3, <2>2
  <2>6. QED  BY <1>1, <2>3, <2>4, <2>5, BehindThePage
<1>7. CASE Page!Expire
  <2>1. UNCHANGED <<loads, log, sending>>  BY <1>7 DEF Page!Expire
  <2>2. log' = [v \in Page!Listed |-> log'[v]] /\ \A v \in Page!Listed : log[v] \subseteq log'[v]
    BY <1>2, <2>1
  <2>3. (\A l \in loads' : LoadSound(l)) /\ (loads' # {} => loads # {})  BY <1>3, <2>1
  <2>4. sending' # None => SendingSound(sending)'  BY <1>4, <2>1, <2>2
  <2>5. QED  BY <1>1, <2>2, <2>3, <2>4, BehindThePage
<1>8. CASE Page!SaveFails
  <2>1. UNCHANGED <<loads, log>> /\ sending' = None  BY <1>8 DEF Page!SaveFails, Page!server
  <2>2. log' = [v \in Page!Listed |-> log'[v]] /\ \A v \in Page!Listed : log[v] \subseteq log'[v]
    BY <1>2, <2>1
  <2>3. (\A l \in loads' : LoadSound(l)) /\ (loads' # {} => loads # {})  BY <1>3, <2>1
  <2>4. QED  BY <1>1, <2>1, <2>2, <2>3, BehindThePage
<1>9. ASSUME NEW v \in Page!Listed, Page!OtherSaves(v)  PROVE PageSound'
  <2>1. UNCHANGED <<loads, sending>> /\ Page!Appended(v, "capture", 0)
    BY <1>9 DEF Page!OtherSaves
  <2>2. /\ log' = [w \in Page!Listed |-> log'[w]]
        /\ \A w \in Page!Listed : log[w] \subseteq log'[w]
    BY <2>1, LogAdds
  <2>3. (\A l \in loads' : LoadSound(l)) /\ (loads' # {} => loads # {})  BY <1>3, <2>1
  <2>4. sending' # None => SendingSound(sending)'  BY <1>4, <2>1, <2>2
  <2>5. QED  BY <1>1, <2>2, <2>3, <2>4, BehindThePage
<1>10. ASSUME NEW l \in loads, Page!ReadQueue(l) \/ Page!LoadFails(l)  PROVE PageSound'
  <2>1. UNCHANGED <<log, sending>>  BY <1>10 DEF Page!ReadQueue, Page!LoadFails, Page!server
  <2>2. log' = [v \in Page!Listed |-> log'[v]] /\ \A v \in Page!Listed : log[v] \subseteq log'[v]
    BY <1>2, <2>1
  <2>3. sending' # None => SendingSound(sending)'  BY <1>4, <2>1, <2>2
  <2>4. (\A m \in loads' : LoadSound(m)) /\ (loads' # {} => loads # {})
    <3>1. CASE Page!LoadFails(l)  BY <3>1 DEF Page!LoadFails, PageSound
    <3>2. CASE Page!ReadQueue(l)
      <4>0. PICK q : q = Page!Queue(l.scope)  OBVIOUS
      <4>1. QueueSound(q) /\ loads' = (loads \ {l}) \cup {[l EXCEPT !.answer = q]}
        BY <3>2, <4>0, QueuesSound DEF Page!ReadQueue
      <4>2. LoadSound(l)  BY DEF PageSound
      <4>3. LoadSound([l EXCEPT !.answer = q])  BY <4>1, <4>2 DEF LoadSound
      <4>4. QED  BY <4>1, <4>3 DEF PageSound
    <3>3. QED  BY <1>10, <3>1, <3>2
  <2>5. QED  BY <1>1, <2>2, <2>3, <2>4, BehindThePage
<1>11. QED  BY <1>5, <1>6, <1>7, <1>8, <1>9, <1>10

\* An answer arrives: of a reload, which takes the boxes from the drafts, or of the save,
\* after which the draft of its video is gone and the text in the log.
LEMMA AnswersKeepDrafts ==
  ASSUME PageSound, Page!Answered \/ \E l \in loads : Page!Loaded(l)
  PROVE  PageSound'
<1>1. CASE Page!Answered
  <2> DEFINE v == sending.video
             ds == [(IF selected = v THEN drafts ELSE Page!Stashed) EXCEPT ![v] = 0]
  <2>1. /\ SendingSound(sending) /\ sending.answer # None /\ sending' = None
        /\ UNCHANGED <<loads, log, typed>>
    BY <1>1 DEF Page!Answered, PageSound, Page!server
  <2>2. v \in Page!Listed /\ typed[v] \in log[v] \cup {0} /\ QueueSound(sending.answer)
    BY <2>1 DEF SendingSound
  <2>3. PICK sel : Page!Render(sending.answer, sel, ds)
    BY <1>1 DEF Page!Answered
  <2>4. /\ ds = [w \in Page!Listed |-> ds[w]]
        /\ \A w \in Page!Listed : Drafted(ds, w)
    <3>1. CASE selected = v
      <4>1. ds = [drafts EXCEPT ![v] = 0]  BY <3>1
      <4>2. /\ \A w \in Page!Listed : ds[w] = IF w = v THEN 0 ELSE drafts[w]
            /\ ds = [w \in Page!Listed |-> ds[w]]
        BY <4>1 DEF PageSound
      <4> HIDE DEF ds
      <4>3. ASSUME NEW w \in Page!Listed  PROVE Drafted(ds, w)
        BY <2>2, <3>1, <4>2 DEF PageSound, Drafted
      <4>4. QED  BY <4>2, <4>3
    <3>2. CASE selected # v
      <4>1. ds = [Page!Stashed EXCEPT ![v] = 0]  BY <3>2
      <4>2. /\ \A w \in Page!Listed : ds[w] = IF w = v THEN 0 ELSE Page!Stashed[w]
            /\ ds = [w \in Page!Listed |-> ds[w]]
        BY <4>1, StashedHolds
      <4> HIDE DEF ds
      <4>3. ASSUME NEW w \in Page!Listed  PROVE Drafted(ds, w)
        BY <2>2, <4>2, StashedHolds DEF Drafted
      <4>4. QED  BY <4>2, <4>3
    <3>3. QED  BY <3>1, <3>2
  <2> HIDE DEF ds
  <2>5. (\A l \in loads' : LoadSound(l)) /\ (sending' # None => SendingSound(sending)')
    BY <2>1 DEF PageSound
  <2>6. QED  BY <2>1, <2>2, <2>3, <2>4, <2>5, RenderKeeps
<1>2. ASSUME NEW l \in loads, Page!Loaded(l)  PROVE PageSound'
  <2>1. /\ Page!Render(l.answer, selected, drafts) /\ QueueSound(l.answer)
        /\ loads' \subseteq loads /\ loads # {}
        /\ UNCHANGED <<sending, log, typed>>
    BY <1>2 DEF Page!Loaded, Page!server, PageSound, LoadSound
  <2>2. drafts = [v \in Page!Listed |-> drafts[v]] /\ \A v \in Page!Listed : Drafted(drafts, v)
    BY <2>1 DEF PageSound
  <2>3. \A m \in loads' : LoadSound(m)  BY <2>1 DEF PageSound
  <2>4. sending' # None => SendingSound(sending)'
    <3> SUFFICES ASSUME sending # None  PROVE SendingSound(sending)'  BY <2>1
    <3>1. QED  BY <2>1, SendingKeeps
  <2>5. QED  BY <2>1, <2>2, <2>3, <2>4, RenderKeeps
<1>3. QED  BY <1>1, <1>2

\* A text the owner typed is in the box, among the drafts or in the log, whatever answers
\* arrive in whatever order and wherever the owner has moved meanwhile (capture.js): for
\* any videos, texts, reloads and other pages.
THEOREM TypedTextsStay == Spec => []DraftsKept
<1> DEFINE Inv == part = "page" => PageSound
<1>1. Init => Inv
  <2> SUFFICES ASSUME Page!CInit  PROVE PageSound  BY DEF Init
  <2>1. QueueSound(queue) /\ loads = {} /\ sending = None
    BY DEF Page!CInit, Page!Queue, QueueSound, Page!Listed
  <2>2. /\ drafts = [v \in Page!Listed |-> 0] /\ typed = [v \in Page!Listed |-> 0]
        /\ log = [v \in Page!Listed |-> {}]
    BY DEF Page!CInit
  <2>3. QED  BY <2>1, <2>2, <2>1 DEF PageSound, Drafted, Page!Form, Page!Items, QueueSound
<1>2. Inv /\ [Next]_vars => Inv'
  <2> SUFFICES ASSUME part = "page", PageSound, [Next]_vars  PROVE PageSound'
    BY DEF Next, vars
  <2>1. CASE Page!CNext
    BY <2>1, OwnerKeepsDrafts, ServerKeepsDrafts, AnswersKeepDrafts DEF Page!CNext
  <2>2. CASE UNCHANGED pageVars
    BY <2>2 DEF PageSound, QueueSound, LoadSound, SendingSound, Drafted, pageVars,
                Page!Form, Page!Items, Page!Listed
  <2>3. QED  BY <2>1, <2>2 DEF Next, vars
<1>3. Inv => DraftsKept
  BY DEF DraftsKept, Page!DraftsKept, PageSound, Drafted
<1>4. QED  BY <1>1, <1>2, <1>3, PTL DEF Spec

-----------------------------------------------------------------------------
(***************************************************************************)
(* Discovery.  A listed video of the window is among the ids, on a page    *)
(* that is still to come, or excused.  Uploads only move the list down; a  *)
(* removal excuses the entry that slips onto a page already read or, if it *)
(* was still to come, the one that is removed.  The listing stops early at *)
(* a page from which on everything is older.                               *)
(***************************************************************************)
Uploads == [id : Int, day : Int, dated : BOOLEAN]

\* Newest first, to within the day of margin: below a dated entry that is older than the
\* window and its margin there is nothing of the window.
InOrder(l) ==
  \A i, j \in DOMAIN l : i < j /\ l[i].dated /\ l[i].day < Start - 1 => l[j].day < Start

\* The API's playlists (external) are in order, and a new upload is not that old.
ListsInOrder ==
  /\ Start \in Int /\ WindowEnd \in Int /\ PageSize \in Nat \ {0}
  /\ NewVideos \subseteq Int /\ Today \in Int /\ Start <= Today + 1
  /\ \A l \in Playlists : l \in Seq(Uploads) /\ InOrder(l)

\* The playlists of the run are.
LEMMA RunListsInOrder ==
  ASSUME Start \in Int, WindowEnd \in Int, PageSize \in Nat \ {0},
         NewVideos \subseteq Int, Today \in Int, Start <= Today + 1
  PROVE  ListsInOrder
<1>1. ASSUME NEW a \in Uploads, NEW b \in Uploads, NEW c \in Uploads,
             a.day >= b.day, b.day >= c.day
      PROVE  <<a, b, c>> \in Seq(Uploads) /\ InOrder(<<a, b, c>>)
  <2> DEFINE l == <<a, b, c>>
  <2>1. /\ l \in Seq(Uploads) /\ DOMAIN l = 1..3 /\ l[1] = a /\ l[2] = b /\ l[3] = c
    OBVIOUS
  <2> HIDE DEF l
  <2>2. \A i, j \in DOMAIN l : i < j => l[i].day >= l[j].day /\ l[i].day \in Int /\ l[j].day \in Int
    BY <1>1, <2>1 DEF Uploads
  <2>3. InOrder(l)  BY <2>2 DEF InOrder
  <2>4. QED  BY <2>1, <2>3
<1>2. \A l \in Playlists : \E a, b, c \in Uploads :
        l = <<a, b, c>> /\ a.day >= b.day /\ b.day >= c.day
  <2>1. /\ Entry(1, 8, TRUE) \in Uploads /\ Entry(2, 6, FALSE) \in Uploads
        /\ Entry(3, 5, TRUE) \in Uploads
        /\ Entry(1, 8, TRUE).day >= Entry(2, 6, FALSE).day
        /\ Entry(2, 6, FALSE).day >= Entry(3, 5, TRUE).day
    BY DEF Entry, Uploads
  <2>2. /\ Entry(1, 5, FALSE) \in Uploads /\ Entry(2, 5, FALSE) \in Uploads
        /\ Entry(1, 5, FALSE).day >= Entry(2, 5, FALSE).day
        /\ Entry(2, 5, FALSE).day >= Entry(3, 5, TRUE).day
    BY DEF Entry, Uploads
  <2>3. /\ Entry(1, 6, TRUE) \in Uploads
        /\ Entry(2, 1, TRUE) \in Uploads /\ Entry(3, 1, FALSE) \in Uploads
        /\ Entry(1, 6, TRUE).day >= Entry(2, 1, TRUE).day
        /\ Entry(2, 1, TRUE).day >= Entry(3, 1, FALSE).day
    BY DEF Entry, Uploads
  <2>4. /\ Entry(1, 7, TRUE) \in Uploads /\ Entry(2, 6, TRUE) \in Uploads
        /\ Entry(3, 4, TRUE) \in Uploads
        /\ Entry(1, 7, TRUE).day >= Entry(2, 6, TRUE).day
        /\ Entry(2, 6, TRUE).day >= Entry(3, 4, TRUE).day
    BY DEF Entry, Uploads
  <2>5. QED  BY <2>1, <2>2, <2>3, <2>4 DEF Playlists
<1>3. ASSUME NEW l \in Playlists  PROVE l \in Seq(Uploads) /\ InOrder(l)
  <2>1. PICK a \in Uploads, b \in Uploads, c \in Uploads :
          l = <<a, b, c>> /\ a.day >= b.day /\ b.day >= c.day
    BY <1>2
  <2>2. QED  BY <1>1, <2>1
<1>4. QED  BY <1>3 DEF ListsInOrder

\* A set of entries as a sequence has those elements.
LEMMA SetAsSequence ==
  ASSUME NEW T, NEW S \in SUBSET T, IsFiniteSet(S)
  PROVE  /\ Discovery!SetToSeq(S) \in Seq(T)
         /\ Discovery!ToSet(Discovery!SetToSeq(S)) = S
<1> DEFINE n == Cardinality(S)
           f == Discovery!SetToSeq(S)
<1>1. Discovery!Cardinality(S) = n
  BY DEF Discovery!Cardinality, Cardinality, Discovery!IsFiniteSet, IsFiniteSet
<1>2. n \in Nat /\ ExistsBijection(1..n, S)  BY FS_CardinalityType
<1>3. PICK g \in [1..n -> S] : Discovery!IsInjective(g)
  BY <1>2 DEF ExistsBijection, Bijection, Injection, IsInjective, Discovery!IsInjective
<1>4. f \in [1..n -> S] /\ Discovery!IsInjective(f)
  BY <1>1, <1>3 DEF Discovery!SetToSeq
<1> HIDE DEF f
<1>5. f \in Injection(1..n, S)
  BY <1>4 DEF Injection, IsInjective, Discovery!IsInjective
<1>6. Cardinality(1..n) = n  BY <1>2, FS_Interval
<1> HIDE DEF n
<1>7. f \in Surjection(1..n, S)  BY <1>2, <1>5, <1>6, FS_Injection DEF n
<1>8. f \in Seq(T)  BY <1>2, <1>4
<1>9. Discovery!ToSet(f) = S
  <2>1. DOMAIN f = 1..n  BY <1>4
  <2>2. S \subseteq Discovery!ToSet(f)  BY <1>7, <2>1 DEF Surjection, Discovery!ToSet
  <2>3. Discovery!ToSet(f) \subseteq S  BY <1>4, <2>1 DEF Discovery!ToSet
  <2>4. QED  BY <2>2, <2>3
<1>10. QED  BY <1>8, <1>9 DEF f

LEMMA BothSets ==
  ASSUME NEW T, NEW s \in Seq(T), NEW t \in Seq(T)
  PROVE  Discovery!ToSet(s \o t) = Discovery!ToSet(s) \cup Discovery!ToSet(t)
<1>0. PICK u : u = s \o t  OBVIOUS
<1>1. u \in Seq(T)  BY <1>0
<1>2. /\ DOMAIN s = 1..Len(s) /\ DOMAIN t = 1..Len(t) /\ DOMAIN u = 1..(Len(s) + Len(t))
      /\ Len(s) \in Nat /\ Len(t) \in Nat
      /\ \A k \in 1..Len(s) : u[k] = s[k]
      /\ \A k \in 1..Len(t) : u[Len(s) + k] = t[k]
  BY <1>0
<1>3. ASSUME NEW k \in DOMAIN u  PROVE u[k] \in Discovery!ToSet(s) \cup Discovery!ToSet(t)
  <2>1. CASE k <= Len(s)  BY <1>2, <1>3, <2>1 DEF Discovery!ToSet
  <2>2. CASE ~(k <= Len(s))
    <3>1. k - Len(s) \in 1..Len(t) /\ Len(s) + (k - Len(s)) = k  BY <1>2, <2>2
    <3>2. u[k] = t[k - Len(s)]  BY <1>2, <3>1
    <3>3. QED  BY <1>2, <3>1, <3>2 DEF Discovery!ToSet
  <2>3. QED  BY <2>1, <2>2
<1>4. ASSUME NEW k \in DOMAIN s  PROVE s[k] \in Discovery!ToSet(u)
  <2>1. k \in DOMAIN u /\ u[k] = s[k]  BY <1>2
  <2>2. QED  BY <2>1 DEF Discovery!ToSet
<1>5. ASSUME NEW k \in DOMAIN t  PROVE t[k] \in Discovery!ToSet(u)
  <2>1. Len(s) + k \in DOMAIN u /\ u[Len(s) + k] = t[k]  BY <1>2
  <2>2. QED  BY <2>1 DEF Discovery!ToSet
<1>6. Discovery!ToSet(u) \subseteq Discovery!ToSet(s) \cup Discovery!ToSet(t)
  BY <1>3 DEF Discovery!ToSet
<1>7. Discovery!ToSet(s) \subseteq Discovery!ToSet(u)  BY <1>4 DEF Discovery!ToSet
<1>8. Discovery!ToSet(t) \subseteq Discovery!ToSet(u)  BY <1>5 DEF Discovery!ToSet
<1>9. Discovery!ToSet(u) = Discovery!ToSet(s) \cup Discovery!ToSet(t)  BY <1>6, <1>7, <1>8
<1>10. QED  BY <1>0, <1>9

LEMMA Lesser ==
  ASSUME NEW a \in Int, NEW b \in Int
  PROVE  Discovery!Min({a, b}) = IF a <= b THEN a ELSE b
<1>1. ASSUME NEW c \in {a, b}, \A y \in {a, b} : c <= y  PROVE c = IF a <= b THEN a ELSE b
  BY <1>1
<1>2. \E c \in {a, b} : \A y \in {a, b} : c <= y  OBVIOUS
<1>3. Discovery!Min({a, b}) \in {a, b} /\ \A y \in {a, b} : Discovery!Min({a, b}) <= y
  BY <1>2 DEF Discovery!Min
<1>4. QED  BY <1>1, <1>3

\* One page of a list, from position n on.
PageAt(l, n) == SubSeq(l, n, Discovery!Min({n + PageSize - 1, Len(l)}))

LEMMA SubSequence ==
  ASSUME NEW S, NEW l \in Seq(S), NEW n \in Nat \ {0}, NEW m \in Nat, m <= Len(l),
         NEW items, items = SubSeq(l, n, m)
  PROVE  /\ items \in Seq(S)
         /\ \A k \in n..m : k - n + 1 \in DOMAIN items /\ items[k - n + 1] = l[k]
         /\ items # << >> => n <= m /\ 1 \in DOMAIN items /\ items[1] = l[n]
<1>1. CASE n <= m
  <2>1. /\ items \in Seq(S) /\ DOMAIN items = 1..(m - n + 1)
        /\ \A k \in 1..(m - n + 1) : items[k] = l[n + k - 1]
    BY <1>1
  <2>2. ASSUME NEW k \in n..m
        PROVE  k - n + 1 \in 1..(m - n + 1) /\ n + (k - n + 1) - 1 = k
    OBVIOUS
  <2>3. 1 \in 1..(m - n + 1) /\ n + 1 - 1 = n  BY <1>1
  <2>4. QED  BY <1>1, <2>1, <2>2, <2>3
<1>2. CASE ~(n <= m)
  <2>1. items = << >>  BY <1>2
  <2>2. n..m = {}  BY <1>2
  <2>3. QED  BY <2>1, <2>2
<1>3. QED  BY <1>1, <1>2

\* What a page has of its list.
IsPage(items, l, n) ==
  /\ \A k \in n..(n + PageSize - 1) : k \in DOMAIN l =>
       k - n + 1 \in DOMAIN items /\ items[k - n + 1] = l[k]
  /\ items # << >> => n \in DOMAIN l /\ 1 \in DOMAIN items /\ items[1] = l[n]

LEMMA PageOfList ==
  ASSUME NEW S, NEW l \in Seq(S), NEW n \in Nat \ {0}, PageSize \in Nat \ {0}
  PROVE  PageAt(l, n) \in Seq(S) /\ IsPage(PageAt(l, n), l, n)
<1>1. ASSUME NEW m \in Nat, m <= Len(l), m = Len(l) \/ m = n + PageSize - 1
      PROVE  SubSeq(l, n, m) \in Seq(S) /\ IsPage(SubSeq(l, n, m), l, n)
  <2>1. \A k \in n..(n + PageSize - 1) : k \in DOMAIN l => k \in n..m  BY <1>1
  <2>2. n <= m => n \in DOMAIN l  BY <1>1
  <2>3. PICK items : items = SubSeq(l, n, m)  OBVIOUS
  <2>4. /\ items \in Seq(S)
        /\ \A k \in n..m : k - n + 1 \in DOMAIN items /\ items[k - n + 1] = l[k]
        /\ items # << >> => n <= m /\ 1 \in DOMAIN items /\ items[1] = l[n]
    BY <1>1, <2>3, SubSequence
  <2>5. IsPage(items, l, n)  BY <2>1, <2>2, <2>4 DEF IsPage
  <2>6. QED  BY <2>3, <2>4, <2>5
<1>2. Len(l) \in Nat /\ n + PageSize - 1 \in Nat  OBVIOUS
<1>3. /\ Discovery!Min({n + PageSize - 1, Len(l)}) \in Nat
      /\ Discovery!Min({n + PageSize - 1, Len(l)}) <= Len(l)
      /\ \/ Discovery!Min({n + PageSize - 1, Len(l)}) = Len(l)
         \/ Discovery!Min({n + PageSize - 1, Len(l)}) = n + PageSize - 1
  <2>1. CASE n + PageSize - 1 <= Len(l)  BY <1>2, <2>1, Lesser
  <2>2. CASE ~(n + PageSize - 1 <= Len(l))  BY <1>2, <2>2, Lesser
  <2>3. QED  BY <2>1, <2>2
<1>4. QED  BY <1>1, <1>3 DEF PageAt

RunTyped(r) ==
  r \in [stage : {"idle", "list", "enrich"}, at : Nat \ {0}, ids : Seq(Int),
         fetched : {r.fetched}, asked : Nat, units : {r.units}]
Known(r) == Discovery!ToSet(r.ids)
Ahead(l, n, e) == \E k \in DOMAIN l : k >= n /\ l[k] = e

\* Whether an entry is owed, when those of L are excused.
Owed(e, L) == Discovery!InWindow(e) /\ e \notin L

Listing(r, L) ==
  /\ r.asked = 0
  /\ \A e \in before : Owed(e, L) => e.id \in Known(r) \/ Ahead(playlist, r.at, e)
Enriching(r, L) ==
  /\ \A e \in before : Owed(e, L) => e.id \in Known(r)
  /\ \A k \in DOMAIN r.ids : k <= r.asked => r.ids[k] \in r.fetched \cup gone
RunSound(r, L) ==
  /\ RunTyped(r)
  /\ r.stage = "list" => Listing(r, L)
  /\ r.stage = "enrich" => Enriching(r, L)

RecordTrue(d, L) ==
  /\ d \in [videos : {d.videos}, unavailable : {d.unavailable}, stale : BOOLEAN]
  /\ \A e \in before : Owed(e, L) => e.id \in d.videos \cup d.unavailable
  /\ d.unavailable \subseteq gone

SoundBut(L) ==
  /\ playlist \in Seq(Uploads) /\ InOrder(playlist)
  /\ RunSound(run, L)
  /\ run.stage # "idle" => discovery = None
  /\ discovery # None => RecordTrue(discovery, L)

\* Every removal excuses one entry.
Excused(L) == IsFiniteSet(L) /\ removals \in Nat /\ Cardinality(L) <= removals

DiscoverySound == \E L : Excused(L) /\ SoundBut(L)

\* An upload moves the list down.
LEMMA UploadKeeps ==
  ASSUME ListsInOrder, NEW L, SoundBut(L), NEW v \in NewVideos, Discovery!Upload(v)
  PROVE  SoundBut(L)'
<1>1. PICK u : u = [id |-> v, day |-> Today, dated |-> TRUE]  OBVIOUS
<1>2. PICK l \in Seq(Uploads) : l = playlist  BY DEF SoundBut
<1>3. u \in Uploads /\ u.day = Today  BY <1>1 DEF Uploads, ListsInOrder
<1>4. playlist' = <<u>> \o l /\ UNCHANGED <<gone, before, run, discovery>>
  BY <1>1, <1>2 DEF Discovery!Upload, Discovery!history, Discovery!gates
<1>5. /\ playlist' \in Seq(Uploads) /\ playlist'[1] = u /\ DOMAIN l = 1..Len(l)
      /\ Len(l) \in Nat /\ DOMAIN playlist' = 1..(Len(l) + 1)
      /\ \A k \in 1..Len(l) : playlist'[k + 1] = l[k]
  BY <1>3, <1>4
<1>6. ASSUME NEW i \in DOMAIN playlist', NEW j \in DOMAIN playlist', i < j,
             playlist'[i].dated, playlist'[i].day < Start - 1
      PROVE  playlist'[j].day < Start
  <2>1. i # 1  BY <1>3, <1>5, <1>6 DEF ListsInOrder
  <2>2. /\ i - 1 \in DOMAIN l /\ j - 1 \in DOMAIN l /\ i - 1 < j - 1
        /\ (i - 1) + 1 = i /\ (j - 1) + 1 = j
    BY <1>5, <1>6, <2>1
  <2>3. l[i - 1] = playlist'[i] /\ l[j - 1] = playlist'[j]  BY <1>5, <2>2
  <2>4. QED  BY <1>2, <1>6, <2>2, <2>3 DEF SoundBut, InOrder
<1>7. ASSUME NEW e, NEW n \in Nat \ {0}, Ahead(playlist, n, e)  PROVE Ahead(playlist, n, e)'
  <2>1. PICK k \in DOMAIN l : k >= n /\ l[k] = e  BY <1>2, <1>7 DEF Ahead
  <2>2. k + 1 \in DOMAIN playlist' /\ k + 1 >= n /\ playlist'[k + 1] = e  BY <1>5, <2>1
  <2>3. QED  BY <2>2 DEF Ahead
<1>8. run.at \in Nat \ {0}  BY DEF SoundBut, RunSound, RunTyped
<1>9. RunSound(run, L)'
  BY <1>4, <1>7, <1>8 DEF SoundBut, RunSound, RunTyped, Listing, Enriching, Known
<1>10. QED  BY <1>4, <1>5, <1>6, <1>9 DEF SoundBut, InOrder, RecordTrue

\* What is left of a list l without its entry i: those below it move up by one.
IsWithout(m, l, i) ==
  /\ \A k \in DOMAIN l : k < i => k \in DOMAIN m /\ m[k] = l[k]
  /\ \A k \in DOMAIN l : k > i => k - 1 \in DOMAIN m /\ m[k - 1] = l[k]
  /\ \A k \in DOMAIN m : k < i => k \in DOMAIN l /\ m[k] = l[k]
  /\ \A k \in DOMAIN m : ~(k < i) => k + 1 \in DOMAIN l /\ m[k] = l[k + 1]

LEMMA WithoutEntry ==
  ASSUME NEW S, NEW l \in Seq(S), NEW i \in DOMAIN l, NEW m, m = Discovery!RemoveAt(l, i)
  PROVE  m \in Seq(S) /\ IsWithout(m, l, i)
<1> DEFINE head == SubSeq(l, 1, i - 1)
           tail == SubSeq(l, i + 1, Len(l))
<1>1. i \in Nat /\ 1 <= i /\ i <= Len(l) /\ Len(l) \in Nat /\ DOMAIN l = 1..Len(l)  OBVIOUS
<1>2. /\ head \in Seq(S) /\ Len(head) = i - 1
      /\ \A k \in 1..(i - 1) : head[k] = l[k]
  BY <1>1
<1>3. /\ tail \in Seq(S) /\ Len(tail) = Len(l) - i
      /\ \A k \in 1..(Len(l) - i) : tail[k] = l[k + i]
  BY <1>1
<1>4. m = head \o tail  BY DEF Discovery!RemoveAt
<1> HIDE DEF head, tail
<1>5. /\ m \in Seq(S) /\ DOMAIN m = 1..(Len(l) - 1)
      /\ \A k \in 1..(i - 1) : m[k] = head[k]
      /\ \A k \in 1..(Len(l) - i) : m[(i - 1) + k] = tail[k]
  <2>1. PICK s \in Seq(S), t \in Seq(S) : s = head /\ t = tail  BY <1>2, <1>3
  <2>2. PICK u : u = s \o t  OBVIOUS
  <2>3. /\ u \in Seq(S) /\ DOMAIN u = 1..(Len(s) + Len(t))
        /\ \A k \in 1..Len(s) : u[k] = s[k]
        /\ \A k \in 1..Len(t) : u[Len(s) + k] = t[k]
    BY <2>2
  <2>4. Len(s) = i - 1 /\ Len(t) = Len(l) - i /\ m = u  BY <1>2, <1>3, <1>4, <2>1, <2>2
  <2>5. (i - 1) + (Len(l) - i) = Len(l) - 1  BY <1>1
  <2>6. QED  BY <2>1, <2>3, <2>4, <2>5
<1>6. \A k \in 1..(i - 1) : k \in DOMAIN m /\ m[k] = l[k]  BY <1>1, <1>2, <1>5
<1>7. ASSUME NEW k \in i..(Len(l) - 1)  PROVE k \in DOMAIN m /\ m[k] = l[k + 1]
  <2>1. PICK j : j = k - i + 1  OBVIOUS
  <2>2. j \in 1..(Len(l) - i) /\ (i - 1) + j = k /\ j + i = k + 1 /\ k \in 1..(Len(l) - 1)
    BY <1>1, <2>1
  <2>3. m[(i - 1) + j] = tail[j]  BY <1>5, <2>2
  <2>4. tail[j] = l[j + i]  BY <1>3, <2>2
  <2>5. QED  BY <1>5, <2>2, <2>3, <2>4
<1>8. ASSUME NEW k \in DOMAIN l
      PROVE  /\ k < i => k \in DOMAIN m /\ m[k] = l[k]
             /\ k > i => k - 1 \in DOMAIN m /\ m[k - 1] = l[k]
  <2>1. CASE k < i
    <3>1. k \in 1..(i - 1)  BY <1>1, <2>1
    <3>2. QED  BY <1>1, <1>6, <2>1, <3>1
  <2>2. CASE k > i
    <3>1. k - 1 \in i..(Len(l) - 1) /\ (k - 1) + 1 = k  BY <1>1, <2>2
    <3>2. QED  BY <1>1, <1>7, <2>2, <3>1
  <2>3. QED  BY <2>1, <2>2
<1>9. ASSUME NEW k \in DOMAIN m
      PROVE  /\ k < i => k \in DOMAIN l /\ m[k] = l[k]
             /\ ~(k < i) => k + 1 \in DOMAIN l /\ m[k] = l[k + 1]
  <2>1. CASE k < i
    <3>1. k \in 1..(i - 1) /\ k \in DOMAIN l  BY <1>1, <1>5, <2>1
    <3>2. QED  BY <1>6, <2>1, <3>1
  <2>2. CASE ~(k < i)
    <3>1. k \in i..(Len(l) - 1) /\ k >= i /\ k + 1 \in DOMAIN l  BY <1>1, <1>5, <2>2
    <3>2. QED  BY <1>7, <3>1
  <2>3. QED  BY <2>1, <2>2
<1>10. QED  BY <1>5, <1>8, <1>9 DEF IsWithout

\* An entry leaves the list.  If it was above the position, the entry at the position slips
\* onto a page already read, else it is itself not read any more; no other is lost.
LEMMA UnlistKeeps ==
  ASSUME DiscoverySound, NEW i \in DOMAIN playlist, Discovery!Unlist(i)
  PROVE  DiscoverySound'
<1>1. PICK L : Excused(L) /\ SoundBut(L)  BY DEF DiscoverySound
<1>2. PICK l \in Seq(Uploads) : l = playlist /\ InOrder(l)  BY <1>1 DEF SoundBut
<1>3. PICK n \in Nat \ {0} : n = run.at  BY <1>1 DEF SoundBut, RunSound, RunTyped
<1>4. PICK m : m = playlist'  OBVIOUS
<1>5. /\ m = Discovery!RemoveAt(l, i) /\ i \in DOMAIN l
      /\ removals' = IF run.stage = "list" THEN removals + 1 ELSE removals
      /\ UNCHANGED <<gone, before, run, discovery>>
  BY <1>2, <1>4 DEF Discovery!Unlist, Discovery!gates
<1>6. m \in Seq(Uploads) /\ IsWithout(m, l, i)  BY <1>5, WithoutEntry
<1>7. /\ \A k \in DOMAIN l : k < i => k \in DOMAIN m /\ m[k] = l[k]
      /\ \A k \in DOMAIN l : k > i => k - 1 \in DOMAIN m /\ m[k - 1] = l[k]
  BY <1>6 DEF IsWithout
<1>8. i \in Nat /\ DOMAIN l \subseteq Nat /\ DOMAIN m \subseteq Nat  BY <1>5, <1>6
<1>9. InOrder(m)
  <2> SUFFICES ASSUME NEW j \in DOMAIN m, NEW k \in DOMAIN m, j < k,
                      m[j].dated, m[j].day < Start - 1
               PROVE  m[k].day < Start
    BY DEF InOrder
  <2>1. PICK a \in DOMAIN l : m[j] = l[a] /\ ((j < i /\ a = j) \/ (~(j < i) /\ a = j + 1))
    BY <1>6 DEF IsWithout
  <2>2. PICK b \in DOMAIN l : m[k] = l[b] /\ ((k < i /\ b = k) \/ (~(k < i) /\ b = k + 1))
    BY <1>6 DEF IsWithout
  <2>3. a < b  BY <1>8, <2>1, <2>2
  <2>4. QED  BY <1>2, <2>1, <2>2, <2>3 DEF InOrder
<1>10. CASE run.stage # "list"
  <2>1. RunSound(run, L)'  BY <1>1, <1>5, <1>10 DEF SoundBut, RunSound, RunTyped, Enriching, Known
  <2>2. SoundBut(L)'  BY <1>1, <1>4, <1>5, <1>6, <1>9, <2>1 DEF SoundBut, RecordTrue, InOrder
  <2>3. Excused(L)'  BY <1>1, <1>5, <1>10 DEF Excused
  <2>4. QED  BY <2>2, <2>3 DEF DiscoverySound
<1>11. CASE run.stage = "list"
  <2> DEFINE x == IF i < n /\ n \in DOMAIN l THEN l[n] ELSE l[i]
             M == L \cup {x}
  <2>1. Excused(M)'
    <3>1. /\ IsFiniteSet(L) /\ removals \in Nat /\ Cardinality(L) <= removals
          /\ removals' = removals + 1
      BY <1>1, <1>5, <1>11 DEF Excused
    <3>2. /\ IsFiniteSet(M) /\ Cardinality(L) \in Nat
          /\ Cardinality(M) = Cardinality(L) \/ Cardinality(M) = Cardinality(L) + 1
      BY <3>1, FS_AddElement, FS_CardinalityType
    <3> HIDE DEF M
    <3>3. QED  BY <3>1, <3>2 DEF Excused
  <2>2. ASSUME NEW e \in before, Owed(e, M)  PROVE e.id \in Known(run) \/ Ahead(m, n, e)
    <3>1. Owed(e, L) /\ e # x  BY <2>2 DEF Owed
    <3> HIDE DEF M
    <3>2. e.id \in Known(run) \/ Ahead(l, n, e)
      BY <1>1, <1>2, <1>3, <1>11, <3>1 DEF SoundBut, RunSound, Listing
    <3>3. ASSUME NEW k \in DOMAIN l, k >= n, l[k] = e  PROVE Ahead(m, n, e)
      <4>1. CASE k < i
        <5>1. k \in DOMAIN m /\ m[k] = e  BY <1>7, <3>3, <4>1
        <5>2. QED  BY <3>3, <5>1 DEF Ahead
      <4>2. CASE k > i
        <5>1. ~(i < n /\ k = n)  BY <3>1, <3>3
        <5>2. k - 1 >= n  BY <1>8, <3>3, <4>2, <5>1
        <5>3. k - 1 \in DOMAIN m /\ m[k - 1] = e  BY <1>7, <3>3, <4>2
        <5>4. QED  BY <5>2, <5>3 DEF Ahead
      <4>3. CASE k = i  BY <1>8, <3>1, <3>3, <4>3
      <4>4. QED  BY <1>8, <4>1, <4>2, <4>3
    <3>4. QED  BY <3>2, <3>3 DEF Ahead
  <2> HIDE DEF M
  <2>3. RunTyped(run) /\ run.asked = 0 /\ discovery = None
    BY <1>1, <1>11 DEF SoundBut, RunSound, Listing
  <2>4. Listing(run, M)'  BY <1>3, <1>4, <1>5, <2>2, <2>3 DEF Listing, Known
  <2>5. RunSound(run, M)'  BY <1>5, <1>11, <2>3, <2>4 DEF RunSound, RunTyped
  <2>6. SoundBut(M)'  BY <1>4, <1>5, <1>6, <1>9, <2>3, <2>5 DEF SoundBut, InOrder
  <2>7. QED  BY <2>1, <2>6 DEF DiscoverySound
<1>12. QED  BY <1>10, <1>11

\* A page of the list: every entry of the window on it is kept, and when it is the last
\* one that is read, nothing of the window is below it.
LEMMA ListPageKeeps ==
  ASSUME ListsInOrder, NEW L, SoundBut(L), Discovery!ListPage  PROVE SoundBut(L)'
<1>1. PICK l \in Seq(Uploads) : l = playlist /\ InOrder(l)  BY DEF SoundBut
<1>2. PICK n \in Nat \ {0} : n = run.at  BY DEF SoundBut, RunSound, RunTyped
<1>3. PICK items : items = PageAt(l, n)  OBVIOUS
<1>4. items \in Seq(Uploads) /\ IsPage(items, l, n)
  BY <1>3, PageOfList DEF ListsInOrder
<1>5. PICK new : new = Discovery!Kept(items) \ Known(run)  OBVIOUS
<1>6. Discovery!Kept(items) \subseteq Int /\ IsFiniteSet(Discovery!Kept(items))
  <2> DEFINE D == {j \in DOMAIN items : Discovery!Keep(items[j])}
             f == [i \in D |-> items[i].id]
  <2>1. Discovery!Kept(items) = {items[i].id : i \in D}  BY DEF Discovery!Kept
  <2>2. DOMAIN items = 1..Len(items) /\ Len(items) \in Nat  BY <1>4
  <2>3. IsFiniteSet(D)
    <3>1. IsFiniteSet(DOMAIN items)  BY <2>2, FS_Interval
    <3>2. QED  BY <3>1, FS_Subset
  <2>4. \A i \in D : items[i] \in Uploads  BY <1>4
  <2>5. Discovery!Kept(items) \subseteq Int  BY <2>1, <2>4 DEF Uploads
  <2> HIDE DEF D
  <2>6. f \in Surjection(D, Discovery!Kept(items))  BY <2>1 DEF Surjection
  <2>7. QED  BY <2>3, <2>5, <2>6, FS_Surjection
<1>7. PICK q : q = Discovery!SetToSeq(new)  OBVIOUS
<1>8. q \in Seq(Int) /\ Discovery!ToSet(q) = new
  <2>1. IsFiniteSet(new) /\ new \subseteq Int  BY <1>5, <1>6, FS_Subset
  <2>2. QED  BY <1>7, <2>1, SetAsSequence
<1>9. PICK r : r = run  OBVIOUS
<1>10. RunTyped(r) /\ Listing(r, L) /\ r.stage = "list" /\ r.at = n /\ discovery = None
  BY <1>2, <1>9 DEF SoundBut, RunSound, Discovery!ListPage
<1>11. PICK next : next = IF Discovery!AllOld(items) \/ ~(n + PageSize <= Len(l))
                          THEN "enrich" ELSE "list"
  OBVIOUS
<1>12. PICK units : units = r.units + 1  OBVIOUS
<1>13. PICK s : s = [r EXCEPT !.units = units, !.ids = @ \o q, !.at = @ + PageSize,
                              !.stage = next]
  OBVIOUS
<1>14. run' = s /\ UNCHANGED <<playlist, gone, before, discovery>>
  BY <1>1, <1>2, <1>3, <1>5, <1>7, <1>9, <1>10, <1>11, <1>12, <1>13
  DEF Discovery!ListPage, Discovery!Charged, Discovery!channel, Discovery!history, Discovery!gates, PageAt, Known,
      RunTyped
<1>15. /\ RunTyped(s) /\ s.asked = 0 /\ s.ids = r.ids \o q /\ s.at = n + PageSize
       /\ s.stage = next
  <2>0. PICK ids : ids = r.ids \o q  OBVIOUS
  <2>1. ids \in Seq(Int) /\ ids = r.ids \o q  BY <1>8, <1>10, <2>0 DEF RunTyped
  <2>2. PICK at \in Nat \ {0} : at = r.at + PageSize  BY <1>10 DEF ListsInOrder
  <2>3. s = [r EXCEPT !.units = units, !.ids = ids, !.at = at, !.stage = next]
    BY <1>13, <2>1, <2>2
  <2>4. next \in {"idle", "list", "enrich"}  BY <1>11
  <2>5. RunTyped(s) /\ s.asked = r.asked /\ s.ids = ids /\ s.at = at /\ s.stage = next
    BY <1>10, <2>1, <2>2, <2>3, <2>4 DEF RunTyped
  <2>6. QED  BY <1>10, <2>1, <2>2, <2>5 DEF Listing
<1>16. /\ Known(s) = Known(r) \cup new /\ Discovery!Kept(items) \subseteq Known(s)
  <2>1. r.ids \in Seq(Int)  BY <1>10 DEF RunTyped
  <2>2. Discovery!ToSet(r.ids \o q) = Discovery!ToSet(r.ids) \cup Discovery!ToSet(q)
    BY <1>8, <2>1, BothSets
  <2>3. QED  BY <1>5, <1>8, <1>9, <1>15, <2>2 DEF Known
<1>17. ASSUME NEW e \in before, Owed(e, L)
       PROVE  \/ e.id \in Known(s)
              \/ \E k \in DOMAIN l : k >= n + PageSize /\ l[k] = e
  <2>1. CASE e.id \in Known(r)  BY <1>16, <2>1
  <2>2. ASSUME NEW k \in DOMAIN l, k >= n, l[k] = e, ~(k >= n + PageSize)
        PROVE  e.id \in Known(s)
    <3>1. k \in n..(n + PageSize - 1)  BY <2>2 DEF ListsInOrder
    <3>2. k - n + 1 \in DOMAIN items /\ items[k - n + 1] = e  BY <1>4, <2>2, <3>1 DEF IsPage
    <3>3. Discovery!Keep(e)
      <4>1. e \in Uploads  BY <2>2
      <4>2. QED  BY <1>17, <4>1 DEF ListsInOrder, Uploads, Owed, Discovery!InWindow, Discovery!Keep
    <3>4. e.id \in Discovery!Kept(items)  BY <3>2, <3>3 DEF Discovery!Kept
    <3>5. QED  BY <1>16, <3>4
  <2>3. QED  BY <1>1, <1>10, <1>17, <2>1, <2>2 DEF Listing, Ahead
<1>18. ASSUME next = "enrich", NEW e \in before, Owed(e, L),
              NEW k \in DOMAIN l, k >= n + PageSize, l[k] = e
       PROVE  FALSE
  <2>1. k <= Len(l) /\ k \in Nat  BY <1>18
  <2>2. Discovery!AllOld(items)  BY <1>11, <1>18, <2>1 DEF ListsInOrder
  <2>3. /\ n \in DOMAIN l /\ l[n].dated /\ l[n].day < Start - 1
    BY <1>4, <2>2 DEF Discovery!AllOld, IsPage
  <2>4. n < k  BY <1>18, <2>1 DEF ListsInOrder
  <2>5. l[k].day < Start  BY <1>1, <2>3, <2>4 DEF InOrder
  <2>6. e \in Uploads  BY <1>18
  <2>7. QED  BY <1>18, <2>5, <2>6 DEF ListsInOrder, Uploads, Owed, Discovery!InWindow
<1>19. next \in {"list", "enrich"} /\ (next = "list" => Listing(s, L)')
  BY <1>1, <1>11, <1>14, <1>15, <1>17 DEF Listing, Ahead
<1>20. next = "enrich" => Enriching(s, L)'
  <2> SUFFICES ASSUME next = "enrich"  PROVE Enriching(s, L)'  OBVIOUS
  <2>1. \A e \in before : Owed(e, L) => e.id \in Known(s)  BY <1>17, <1>18
  <2>2. \A k \in DOMAIN s.ids : ~(k <= s.asked)
    <3>1. s.ids \in Seq(Int) /\ s.asked = 0  BY <1>15 DEF RunTyped
    <3>2. QED  BY <3>1
  <2>3. QED  BY <1>14, <2>1, <2>2 DEF Enriching
<1>21. RunSound(run, L)'  BY <1>14, <1>15, <1>19, <1>20 DEF RunSound
<1>22. QED  BY <1>10, <1>14, <1>21 DEF SoundBut

\* A batch of ids: each of it is fetched, or gone.
LEMMA FetchBatchKeeps ==
  ASSUME ListsInOrder, NEW L, SoundBut(L), Discovery!FetchBatch  PROVE SoundBut(L)'
<1>1. PICK r : r = run  OBVIOUS
<1>2. /\ RunTyped(r) /\ Enriching(r, L) /\ r.stage = "enrich" /\ r.asked < Len(r.ids)
      /\ discovery = None /\ r.ids \in Seq(Int) /\ r.asked \in Nat /\ PageSize \in Nat \ {0}
  BY <1>1 DEF SoundBut, RunSound, RunTyped, Discovery!FetchBatch, ListsInOrder
<1>3. PICK ids : ids = r.ids  OBVIOUS
<1>4. PICK n : n = r.asked + 1  OBVIOUS
<1>5. ids \in Seq(Int) /\ n \in Nat \ {0}  BY <1>2, <1>3, <1>4
<1>6. PICK items : items = SubSeq(ids, n, Discovery!Min({r.asked + PageSize, Len(ids)}))
  OBVIOUS
<1>7. items = PageAt(ids, n)
  <2>1. n + PageSize - 1 = r.asked + PageSize  BY <1>2, <1>4
  <2>2. QED  BY <1>6, <2>1 DEF PageAt
<1>8. IsPage(items, ids, n)  BY <1>2, <1>5, <1>7, PageOfList
<1>9. PICK batch : batch = Discovery!ToSet(items)  OBVIOUS
<1>10. PICK units : units = r.units + 1  OBVIOUS
<1>11. PICK fetched : fetched = r.fetched \cup (batch \ gone)  OBVIOUS
<1>12. PICK asked : asked = r.asked + PageSize  OBVIOUS
<1>13. PICK s : s = [r EXCEPT !.units = units, !.asked = asked, !.fetched = fetched]  OBVIOUS
<1>14. run' = s /\ UNCHANGED <<playlist, gone, before, discovery>>
  BY <1>1, <1>2, <1>3, <1>4, <1>6, <1>9, <1>10, <1>11, <1>12, <1>13
  DEF Discovery!FetchBatch, Discovery!Charged, Discovery!channel, Discovery!history, Discovery!gates, RunTyped
<1>15. asked \in Nat  BY <1>2, <1>12
<1>16. /\ RunTyped(s) /\ s.ids = ids /\ s.asked = asked /\ s.fetched = fetched
       /\ s.stage = "enrich"
  BY <1>2, <1>3, <1>13, <1>15 DEF RunTyped
<1>17. ASSUME NEW k \in DOMAIN ids, k <= asked  PROVE ids[k] \in fetched \cup gone
  <2>1. CASE k <= r.asked  BY <1>2, <1>3, <1>11, <1>17, <2>1 DEF Enriching
  <2>2. CASE ~(k <= r.asked)
    <3>0. k \in Nat  BY <1>5
    <3>1. k \in n..(n + PageSize - 1)  BY <3>0, <1>2, <1>4, <1>12, <1>17, <2>2
    <3>2. k - n + 1 \in DOMAIN items /\ items[k - n + 1] = ids[k]  BY <1>8, <1>17, <3>1 DEF IsPage
    <3>3. ids[k] \in batch  BY <1>9, <3>2 DEF Discovery!ToSet
    <3>4. QED  BY <1>11, <3>3
  <2>3. QED  BY <2>1, <2>2
<1>18. Enriching(s, L)'
  <2>1. \A e \in before : Owed(e, L) => e.id \in Known(s)
    BY <1>2, <1>3, <1>16 DEF Enriching, Known
  <2>2. QED  BY <1>14, <1>16, <1>17, <2>1 DEF Enriching
<1>19. RunSound(run, L)'  BY <1>14, <1>16, <1>18 DEF RunSound
<1>20. QED  BY <1>2, <1>14, <1>19 DEF SoundBut

LEMMA NoRunSound ==
  /\ RunTyped(Discovery!NoRun) /\ Discovery!NoRun.stage = "idle"
  /\ Discovery!NoRun.at = 1 /\ Discovery!NoRun.ids = << >> /\ Discovery!NoRun.asked = 0
  BY DEF Discovery!NoRun, RunTyped

\* The output: every id was asked for.
LEMMA WriteKeeps ==
  ASSUME NEW L, SoundBut(L), Discovery!WriteDiscovery  PROVE SoundBut(L)'
<1>1. PICK r : r = run  OBVIOUS
<1>2. /\ Enriching(r, L) /\ r.asked >= Len(r.ids) /\ r.ids \in Seq(Int) /\ r.asked \in Nat
  BY <1>1 DEF SoundBut, RunSound, RunTyped, Discovery!WriteDiscovery
<1>3. PICK d : d = [videos |-> r.fetched, unavailable |-> Known(r) \ r.fetched, stale |-> FALSE]
  OBVIOUS
<1>4. /\ discovery' = d /\ run' = Discovery!NoRun /\ UNCHANGED <<playlist, gone, before>>
  BY <1>1, <1>3 DEF Discovery!WriteDiscovery, Discovery!channel, Discovery!history, Known
<1>5. /\ d \in [videos : {d.videos}, unavailable : {d.unavailable}, stale : BOOLEAN]
      /\ d.videos = r.fetched /\ d.unavailable = Known(r) \ r.fetched
  BY <1>3
<1>6. ASSUME NEW k \in DOMAIN r.ids  PROVE r.ids[k] \in r.fetched \cup gone
  <2>1. k <= r.asked  BY <1>2, <1>6
  <2>2. QED  BY <1>2, <1>6, <2>1 DEF Enriching
<1>7. d.unavailable \subseteq gone  BY <1>5, <1>6 DEF Known, Discovery!ToSet
<1>8. \A e \in before : Owed(e, L) => e.id \in d.videos \cup d.unavailable
  BY <1>2, <1>5 DEF Enriching
<1>9. RecordTrue(d, L)'  BY <1>4, <1>5, <1>7, <1>8 DEF RecordTrue
<1>10. RunSound(run, L)'  BY <1>4, NoRunSound DEF RunSound
<1>11. QED  BY <1>4, <1>9, <1>10, NoRunSound DEF SoundBut

\* A run starts: the list it is about is the channel's.
LEMMA BeginRunKeeps ==
  ASSUME NEW L, NEW M, SoundBut(L), Discovery!BeginRun  PROVE SoundBut(M)'
<1>1. PICK s : s = [Discovery!NoRun EXCEPT !.stage = "list"]  OBVIOUS
<1>2. /\ run' = s /\ before' = {playlist[i] : i \in DOMAIN playlist} /\ discovery = None
      /\ UNCHANGED <<playlist, gone, discovery>>
  BY <1>1 DEF Discovery!BeginRun, Discovery!channel
<1>3. RunTyped(s) /\ s.stage = "list" /\ s.at = 1 /\ s.asked = 0
  BY <1>1, NoRunSound DEF RunTyped
<1>4. \A i \in DOMAIN playlist : i >= 1  BY DEF SoundBut
<1>5. ASSUME NEW e \in before'  PROVE Ahead(playlist, 1, e)
  BY <1>2, <1>4, <1>5 DEF Ahead
<1>6. Listing(s, M)'  BY <1>2, <1>3, <1>5 DEF Listing, Ahead
<1>7. RunSound(run, M)'  BY <1>2, <1>3, <1>6 DEF RunSound
<1>8. QED  BY <1>2, <1>7 DEF SoundBut

\* A run fails, or its output is deleted: nothing is owed any more.
LEMMA RunEnds ==
  ASSUME NEW L, NEW M, SoundBut(L),
         Discovery!RunFails \/ \E force \in BOOLEAN : Discovery!Purge(force)
  PROVE  SoundBut(M)'
<1>1. /\ UNCHANGED playlist /\ discovery' = None
      /\ run' = Discovery!NoRun \/ (run' = run /\ run.stage = "idle")
  BY DEF Discovery!RunFails, Discovery!Purge, Discovery!channel, SoundBut
<1>2. RunSound(run, M)' /\ run'.stage = "idle"
  BY <1>1, NoRunSound DEF SoundBut, RunSound, RunTyped
<1>3. QED  BY <1>1, <1>2 DEF SoundBut, InOrder

\* The other steps: they make more videos private, or leave the run alone.
LEMMA OtherDiscoverySteps ==
  ASSUME NEW L, SoundBut(L),
         \/ Discovery!Resolve \/ Discovery!Confirm \/ Discovery!RegistryGetsStale
         \/ Discovery!DiscoveryGetsStale
         \/ \E i \in DOMAIN playlist : Discovery!MakePrivate(playlist[i].id)
         \/ UNCHANGED <<playlist, gone, before, run, discovery>>
  PROVE  SoundBut(L)'
<1>1. /\ playlist' = playlist /\ gone \subseteq gone'
      /\ \/ run' = run /\ before' = before /\ discovery' = discovery
         \/ /\ discovery # None /\ run' = run /\ before' = before
            /\ discovery' = [discovery EXCEPT !.stale = TRUE]
  BY DEF Discovery!Resolve, Discovery!Confirm, Discovery!RegistryGetsStale,
         Discovery!DiscoveryGetsStale, Discovery!MakePrivate, Discovery!channel, Discovery!history
<1>2. playlist' \in Seq(Uploads) /\ InOrder(playlist)'  BY <1>1 DEF SoundBut, InOrder
<1>3. CASE run' = run /\ before' = before /\ discovery' = discovery
  <2>1. RunSound(run, L)'
    BY <1>1, <1>3 DEF SoundBut, RunSound, RunTyped, Listing, Enriching, Ahead, Known
  <2>2. discovery # None => RecordTrue(discovery, L)'
    BY <1>1, <1>3 DEF SoundBut, RecordTrue
  <2>3. QED  BY <1>2, <1>3, <2>1, <2>2 DEF SoundBut
<1>4. CASE /\ discovery # None /\ run' = run /\ before' = before
           /\ discovery' = [discovery EXCEPT !.stale = TRUE]
  <2>1. RunSound(run, L)' /\ run.stage = "idle"
    BY <1>1, <1>4 DEF SoundBut, RunSound, RunTyped
  <2>2. PICK d : d = discovery'  OBVIOUS
  <2>3. /\ d \in [videos : {d.videos}, unavailable : {d.unavailable}, stale : BOOLEAN]
        /\ d.videos = discovery.videos /\ d.unavailable = discovery.unavailable
    BY <1>4, <2>2 DEF SoundBut, RecordTrue
  <2>4. RecordTrue(d, L)'  BY <1>1, <1>4, <2>3 DEF SoundBut, RecordTrue
  <2>5. RecordTrue(discovery, L)'  BY <2>2, <2>4
  <2>6. QED  BY <1>2, <1>4, <2>1, <2>5 DEF SoundBut
<1>5. QED  BY <1>1, <1>3, <1>4
\* Every step of the run and the channel.
LEMMA DiscoveryStep ==
  ASSUME ListsInOrder, DiscoverySound, Discovery!RunNext  PROVE DiscoverySound'
<1>1. PICK L : Excused(L) /\ SoundBut(L)  BY DEF DiscoverySound
<1>2. CASE \E i \in DOMAIN playlist : Discovery!Unlist(i)  BY <1>2, UnlistKeeps
<1>3. CASE Discovery!BeginRun \/ Discovery!RunFails \/ \E force \in BOOLEAN : Discovery!Purge(force)
  <2>1. SoundBut({})'  BY <1>1, <1>3, BeginRunKeeps, RunEnds
  <2>2. removals' = 0  BY <1>3 DEF Discovery!BeginRun, Discovery!RunFails, Discovery!Purge
  <2>3. Excused({})'  BY <2>2, FS_EmptySet DEF Excused
  <2>4. QED  BY <2>1, <2>3 DEF DiscoverySound
<1>4. CASE \/ Discovery!ListPage \/ Discovery!FetchBatch \/ Discovery!WriteDiscovery
           \/ \E v \in NewVideos : Discovery!Upload(v)
           \/ Discovery!Resolve \/ Discovery!Confirm \/ Discovery!RegistryGetsStale
           \/ Discovery!DiscoveryGetsStale
           \/ \E i \in DOMAIN playlist : Discovery!MakePrivate(playlist[i].id)
  <2>1. SoundBut(L)'
    BY <1>1, <1>4, UploadKeeps, ListPageKeeps, FetchBatchKeeps, WriteKeeps, OtherDiscoverySteps
  <2>2. removals' = removals
    BY <1>4 DEF Discovery!ListPage, Discovery!FetchBatch, Discovery!WriteDiscovery, Discovery!Upload,
                Discovery!Resolve, Discovery!Confirm, Discovery!RegistryGetsStale,
                Discovery!DiscoveryGetsStale, Discovery!MakePrivate, Discovery!history
  <2>3. Excused(L)'  BY <1>1, <2>2 DEF Excused
  <2>4. QED  BY <2>1, <2>3 DEF DiscoverySound
<1>5. QED  BY <1>2, <1>3, <1>4 DEF Discovery!RunNext
-----------------------------------------------------------------------------
(***************************************************************************)
(* The gate.  Only the process that created the record writes it, while it *)
(* is torn; a whole record never changes, and every link is to it.         *)
(***************************************************************************)
Records == [whole : BOOLEAN, keys : KeySets \cup {None}, salt : Procs \cup {None}]

\* No record is written as None.
NoneIsNoRecord == None \notin Records

Writing(p) == step[p].at = "write"
StepTyped(s) == s.at \in {"read", "create", "write"} =>
  s \in [at : {"read", "create", "write"}, keys : KeySets]
StepSound(s) ==
  /\ StepTyped(s)
  /\ s.at = "write" => record = Discovery!Torn
  /\ s.at = "link" => record # None /\ record.whole /\ s.gate = record

GateSound ==
  /\ record # None => record \in Records
  /\ step = [p \in Procs |-> step[p]]
  /\ \A p \in Procs : StepSound(step[p])
  /\ \A p, q \in Procs : Writing(p) /\ Writing(q) => p = q
  /\ gate # None => record = gate /\ gate.whole

LEMMA TornIsRecord ==
  Discovery!Torn \in Records /\ ~Discovery!Torn.whole
  BY DEF Discovery!Torn, Records

\* A process moves to a step that is sound, and the record is what it was.
LEMMA StepMoves ==
  ASSUME GateSound, NEW p \in Procs, NEW s, StepSound(s),
         s.at = "write" => \A q \in Procs : q # p => ~Writing(q),
         step' = [step EXCEPT ![p] = s], UNCHANGED <<record, gate>>
  PROVE  GateSound'
<1>1. \A q \in Procs : step'[q] = IF q = p THEN s ELSE step[q]  BY DEF GateSound
<1>2. step' = [q \in Procs |-> step'[q]]  BY DEF GateSound
<1>3. ASSUME NEW q \in Procs  PROVE StepSound(step[q])'
  BY <1>1 DEF GateSound, StepSound, StepTyped
<1>4. ASSUME NEW q \in Procs, NEW o \in Procs, Writing(q)', Writing(o)'  PROVE q = o
  BY <1>1, <1>4 DEF GateSound, Writing
<1>5. QED  BY <1>2, <1>3, <1>4 DEF GateSound

\* The record changes while there is no gate and nobody else is about to write or link it.
LEMMA RecordMoves ==
  ASSUME GateSound, NEW p \in Procs, NEW s, gate = None, gate' = None,
         record' # None => record' \in Records,
         \A q \in Procs \ {p} : step[q].at \notin {"write", "link"},
         step' = [step EXCEPT ![p] = s], StepSound(s)'
  PROVE  GateSound'
<1>1. \A q \in Procs : step'[q] = IF q = p THEN s ELSE step[q]  BY DEF GateSound
<1>2. step' = [q \in Procs |-> step'[q]]  BY DEF GateSound
<1>3. ASSUME NEW q \in Procs  PROVE StepSound(step[q])'
  BY <1>1 DEF GateSound, StepSound, StepTyped
<1>4. ASSUME NEW q \in Procs, NEW o \in Procs, Writing(q)', Writing(o)'  PROVE q = o
  BY <1>1, <1>4 DEF Writing
<1>5. QED  BY <1>2, <1>3, <1>4 DEF GateSound

LEMMA StoppedSound ==
  StepSound([at |-> "stopped"]) /\ StepSound([at |-> "idle"])
  BY DEF StepSound, StepTyped

LEMMA RegistrationKeeps ==
  ASSUME GateSound, NoneIsNoRecord, NEW p \in Procs,
         \/ Discovery!CheckPublic(p) \/ Discovery!ReadRecord(p) \/ Discovery!CreateRecord(p)
         \/ Discovery!WriteRecord(p)
  PROVE  GateSound'
<1>1. CASE Discovery!CheckPublic(p)
  <2>1. UNCHANGED <<record, gate>>  BY <1>1 DEF Discovery!CheckPublic
  <2>2. CASE step' = [step EXCEPT ![p] = [at |-> "stopped"]]
    BY <2>1, <2>2, StoppedSound, StepMoves
  <2>3. ASSUME NEW keys \in KeySets, step' = [step EXCEPT ![p] = [at |-> "read", keys |-> keys]]
        PROVE  GateSound'
    <3>1. StepSound([at |-> "read", keys |-> keys])  BY DEF StepSound, StepTyped
    <3>2. QED  BY <2>1, <2>3, <3>1, StepMoves
  <2>4. QED  BY <1>1, <2>2, <2>3 DEF Discovery!CheckPublic, Discovery!Stop
<1>2. CASE Discovery!ReadRecord(p)
  <2>1. UNCHANGED <<record, gate>> /\ step[p].at = "read" /\ StepTyped(step[p])
    BY <1>2 DEF Discovery!ReadRecord, GateSound, StepSound
  <2>2. CASE step' = [step EXCEPT ![p] = [at |-> "stopped"]]
    BY <2>1, <2>2, StoppedSound, StepMoves
  <2>3. CASE step' = [step EXCEPT ![p].at = "create"]
    <3>1. PICK s : s = [step[p] EXCEPT !.at = "create"]  OBVIOUS
    <3>2. s \in [at : {"create"}, keys : KeySets]  BY <2>1, <3>1 DEF StepTyped
    <3>3. StepSound(s) /\ s.at # "write"  BY <3>2 DEF StepSound, StepTyped
    <3>4. step' = [step EXCEPT ![p] = s]  BY <2>3, <3>1
    <3>5. QED  BY <2>1, <3>3, <3>4, StepMoves
  <2>4. CASE /\ record # None /\ record.whole
             /\ step' = [step EXCEPT ![p] = [at |-> "link", gate |-> record]]
    <3>1. StepSound([at |-> "link", gate |-> record])  BY <2>4 DEF StepSound, StepTyped
    <3>2. QED  BY <2>1, <2>4, <3>1, StepMoves
  <2>5. QED  BY <1>2, <2>2, <2>3, <2>4 DEF Discovery!ReadRecord, Discovery!Stop
<1>3. CASE Discovery!CreateRecord(p)
  <2>1. UNCHANGED gate /\ step[p].at = "create" /\ StepTyped(step[p])
    BY <1>3 DEF Discovery!CreateRecord, GateSound, StepSound
  <2>2. CASE UNCHANGED record /\ step' = [step EXCEPT ![p] = [at |-> "stopped"]]
    BY <2>1, <2>2, StoppedSound, StepMoves
  <2>3. CASE record = None /\ record' = Discovery!Torn /\ step' = [step EXCEPT ![p].at = "write"]
    <3>1. PICK s : s = [step[p] EXCEPT !.at = "write"]  OBVIOUS
    <3>2. s \in [at : {"write"}, keys : KeySets]  BY <2>1, <3>1 DEF StepTyped
    <3>3. step' = [step EXCEPT ![p] = s]  BY <2>3, <3>1
    <3>4. gate = None /\ gate' = None
      BY <2>1, <2>3 DEF GateSound
    <3>5. \A q \in Procs : step[q].at \notin {"write", "link"}
      BY <2>3, TornIsRecord DEF GateSound, StepSound, NoneIsNoRecord
    <3>6. StepSound(s)'  BY <2>3, <3>2 DEF StepSound, StepTyped, Discovery!Torn
    <3>7. QED  BY <2>3, <3>3, <3>4, <3>5, <3>6, TornIsRecord, RecordMoves
  <2>4. QED  BY <1>3, <2>2, <2>3 DEF Discovery!CreateRecord, Discovery!Stop
<1>4. CASE Discovery!WriteRecord(p)
  <2>1. /\ UNCHANGED gate /\ step[p].at = "write" /\ StepTyped(step[p])
        /\ record = Discovery!Torn
    BY <1>4 DEF Discovery!WriteRecord, GateSound, StepSound
  <2>2. PICK r : r = [whole |-> TRUE, keys |-> step[p].keys, salt |-> p]  OBVIOUS
  <2>3. PICK s : s = [at |-> "link", gate |-> r]  OBVIOUS
  <2>4. record' = r /\ step' = [step EXCEPT ![p] = s]
    BY <1>4, <2>2, <2>3 DEF Discovery!WriteRecord
  <2>5. r \in Records /\ r.whole  BY <2>1, <2>2 DEF Records, StepTyped
  <2>6. StepSound(s)'
    BY <2>3, <2>4, <2>5 DEF StepSound, StepTyped, NoneIsNoRecord
  <2>7. gate = None /\ gate' = None  BY <2>1, TornIsRecord DEF GateSound
  <2>8. \A q \in Procs \ {p} : step[q].at \notin {"write", "link"}
    BY <2>1, TornIsRecord DEF GateSound, StepSound, Writing
  <2>9. QED  BY <2>4, <2>5, <2>6, <2>7, <2>8, RecordMoves
<1>5. QED  BY <1>1, <1>2, <1>3, <1>4

LEMMA LinkKeeps ==
  ASSUME GateSound, NoneIsNoRecord, NEW p \in Procs,
         \/ Discovery!LinkGate(p) \/ Discovery!CrashRegister(p) \/ Discovery!RunAgain(p)
  PROVE  GateSound'
<1>1. CASE Discovery!CrashRegister(p)
  BY <1>1, StoppedSound, StepMoves DEF Discovery!CrashRegister, Discovery!Stop
<1>2. CASE Discovery!LinkGate(p)
  <2>1. /\ step[p].at = "link" /\ StepSound(step[p]) /\ record' = record
        /\ step' = [step EXCEPT ![p] = [at |-> "stopped"]]
        /\ gate' = IF gate = None THEN step[p].gate ELSE gate
    BY <1>2 DEF Discovery!LinkGate, Discovery!Stop, GateSound
  <2>2. gate' # None => record' = gate' /\ gate'.whole
    BY <2>1 DEF GateSound, StepSound
  <2>3. \A q \in Procs : step'[q] = IF q = p THEN [at |-> "stopped"] ELSE step[q]
    BY <2>1 DEF GateSound
  <2>4. step' = [q \in Procs |-> step'[q]]  BY <2>1 DEF GateSound
  <2>5. ASSUME NEW q \in Procs  PROVE StepSound(step[q])'
    BY <2>1, <2>3 DEF GateSound, StepSound, StepTyped
  <2>6. ASSUME NEW q \in Procs, NEW o \in Procs, Writing(q)', Writing(o)'  PROVE q = o
    BY <2>3, <2>6 DEF GateSound, Writing
  <2>7. QED  BY <2>1, <2>2, <2>4, <2>5, <2>6 DEF GateSound
<1>3. CASE Discovery!RunAgain(p)
  <2>1. /\ gate = None /\ gate' = None
        /\ step' = [step EXCEPT ![p] = [at |-> "idle"]]
    BY <1>3 DEF Discovery!RunAgain
  <2>2. CASE record' = record  BY <2>1, <2>2, StoppedSound, StepMoves
  <2>3. CASE /\ \A q \in Procs : step[q].at \in {"idle", "stopped"}
             /\ record' = Discovery!WithoutTorn
    <3>1. record' # None => record' \in Records  BY <2>3 DEF Discovery!WithoutTorn, GateSound
    <3>2. StepSound([at |-> "idle"])'  BY DEF StepSound, StepTyped
    <3>3. QED  BY <2>1, <2>3, <3>1, <3>2, RecordMoves
  <2>4. QED  BY <1>3, <2>2, <2>3 DEF Discovery!RunAgain
<1>4. QED  BY <1>1, <1>2, <1>3
-----------------------------------------------------------------------------
\* Of the videos of the window that were listed when the run began, a discovery record says
\* nothing of at most as many as left the list while it was listed; it reports only videos
\* that are gone as unavailable; and a published gate is the private record beside it,
\* whichever processes register and stop (youtubeApi.ts, commands.ts, readinessGate.ts).
\* For lists that are in order to within the day of margin, any window, page size, quota and
\* creators files, and any number of uploads and removals at any moment.
THEOREM DiscoveriesAreTrue ==
  ASSUME ListsInOrder, NoneIsNoRecord
  PROVE  Spec => []DiscoveryTrue
<1> DEFINE Inv == /\ part = "discovery" => DiscoverySound /\ gate = None
                  /\ part = "gate" => GateSound /\ discovery = None
<1>1. Init => Inv
  <2> SUFFICES ASSUME Init  PROVE Inv  OBVIOUS
  <2>1. Discovery!DInit  BY DEF Init
  <2>2. RunSound(run, {})  BY <2>1, NoRunSound DEF Discovery!DInit, RunSound
  <2>3. DiscoverySound
    <3>1. SoundBut({})
      BY <2>1, <2>2, NoRunSound DEF Discovery!DInit, SoundBut, ListsInOrder
    <3>2. Excused({})  BY <2>1, FS_EmptySet DEF Discovery!DInit, Excused
    <3>3. QED  BY <3>1, <3>2 DEF DiscoverySound
  <2>4. \A p \in Procs : step[p] = [at |-> "idle"]  BY <2>1 DEF Discovery!DInit
  <2>5. GateSound
    BY <2>1, <2>4, StoppedSound DEF Discovery!DInit, GateSound, Writing
  <2>6. QED  BY <2>1, <2>3, <2>5 DEF Discovery!DInit
<1>2. Inv /\ [Next]_vars => Inv'
  <2>1. ASSUME part = "discovery", DiscoverySound, gate = None, [Next]_vars
        PROVE  DiscoverySound' /\ gate' = None
    <3>1. CASE Discovery!RunNext
      <4>1. gate' = None
        BY <2>1, <3>1 DEF Discovery!RunNext, Discovery!gates, Discovery!Upload, Discovery!Unlist, Discovery!Resolve,
          Discovery!Confirm, Discovery!RegistryGetsStale, Discovery!BeginRun, Discovery!ListPage,
          Discovery!FetchBatch, Discovery!WriteDiscovery, Discovery!RunFails,
          Discovery!DiscoveryGetsStale, Discovery!Purge, Discovery!MakePrivate
      <4>2. DiscoverySound'
        BY <2>1, <3>1, DiscoveryStep
      <4>3. QED  BY <4>1, <4>2
    <3>2. CASE UNCHANGED discoveryVars
      <4>1. UNCHANGED <<playlist, gone, before, run, discovery, removals, gate>>
        BY <3>2 DEF discoveryVars
      <4>2. PICK L : Excused(L) /\ SoundBut(L)  BY <2>1 DEF DiscoverySound
      <4>3. SoundBut(L)'  BY <4>1, <4>2, OtherDiscoverySteps
      <4>4. QED  BY <2>1, <4>1, <4>2, <4>3 DEF DiscoverySound, Excused
    <3>3. QED  BY <2>1, <3>1, <3>2 DEF Next, vars
  <2>2. ASSUME part = "gate", GateSound, discovery = None, [Next]_vars
        PROVE  GateSound' /\ discovery' = None
    <3>1. CASE Discovery!GateNext
      <4>1. discovery' = None
        BY <2>2, <3>1 DEF Discovery!GateNext, Discovery!others, Discovery!CheckPublic,
          Discovery!ReadRecord, Discovery!CreateRecord, Discovery!WriteRecord, Discovery!LinkGate,
          Discovery!CrashRegister, Discovery!RunAgain
      <4>2. GateSound'
        BY <2>2, <3>1, RegistrationKeeps, LinkKeeps DEF Discovery!GateNext
      <4>3. QED  BY <4>1, <4>2
    <3>2. CASE UNCHANGED discoveryVars
      BY <2>2, <3>2 DEF discoveryVars, GateSound, StepSound, StepTyped, Writing
    <3>3. QED  BY <2>2, <3>1, <3>2 DEF Next, vars
  <2>3. QED  BY <2>1, <2>2 DEF Next, vars
<1>3. Inv => DiscoveryTrue
  <2>1. ASSUME part = "discovery", DiscoverySound, gate = None  PROVE Discovery!DiscoveryTrue
    <3> SUFFICES ASSUME discovery # None
                 PROVE  /\ Discovery!Cardinality(Discovery!Missed) <= removals
                        /\ discovery.unavailable \subseteq gone
      BY <2>1 DEF Discovery!DiscoveryTrue
    <3>1. PICK L : Excused(L) /\ SoundBut(L)  BY <2>1 DEF DiscoverySound
    <3>2. Discovery!Missed \subseteq L /\ discovery.unavailable \subseteq gone
      BY <3>1 DEF SoundBut, RecordTrue, Owed, Discovery!Missed
    <3>3. /\ Cardinality(Discovery!Missed) <= Cardinality(L)
          /\ Cardinality(Discovery!Missed) \in Nat /\ Cardinality(L) \in Nat
      BY <3>1, <3>2, FS_Subset, FS_CardinalityType DEF Excused
    <3>4. Cardinality(Discovery!Missed) <= removals  BY <3>1, <3>3 DEF Excused
    <3>5. Discovery!Cardinality(Discovery!Missed) = Cardinality(Discovery!Missed)
      BY DEF Discovery!Cardinality, Cardinality, Discovery!IsFiniteSet, IsFiniteSet
    <3>6. QED  BY <3>2, <3>4, <3>5
  <2>2. ASSUME part = "gate", GateSound, discovery = None  PROVE Discovery!DiscoveryTrue
    BY <2>2 DEF Discovery!DiscoveryTrue, GateSound
  <2>3. QED  BY <2>1, <2>2 DEF DiscoveryTrue
<1>4. QED  BY <1>1, <1>2, <1>3, PTL DEF Spec

-----------------------------------------------------------------------------
(***************************************************************************)
(* Private files.  PrivateFileProofs speaks of the same steps.             *)
(***************************************************************************)
LP == INSTANCE PrivateFileProofs

LEMMA SameLook ==
  ASSUME NEW p
  PROVE  /\ Lock!BeginSave(p) <=> LP!BeginSave(p)
         /\ Lock!AcquireLock(p) <=> LP!AcquireLock(p)
         /\ Lock!LookAtLock(p) <=> LP!LookAtLock(p)
         /\ Lock!JudgeLock(p) <=> LP!JudgeLock(p)
         /\ Lock!NameClaim(p) <=> LP!NameClaim(p)
         /\ Lock!JudgeAgain(p) <=> LP!JudgeAgain(p)
<1>1. Lock!BeginSave(p) <=> LP!BeginSave(p)
  BY DEF Lock!BeginSave, LP!BeginSave, Lock!Idle, LP!Idle, Lock!CaptureEvents, LP!CaptureEvents,
         Lock!Decisions, LP!Decisions
<1>2. Lock!WaitOrFail(p) <=> LP!WaitOrFail(p)
  BY DEF Lock!WaitOrFail, LP!WaitOrFail, Lock!Again, LP!Again, Lock!Over, LP!Over,
         Lock!Idle, LP!Idle
<1>3. ASSUME NEW t PROVE Lock!Stale(t) <=> LP!Stale(t)
  BY DEF Lock!Stale, LP!Stale, Lock!Gone, LP!Gone
<1>4. Lock!AcquireLock(p) <=> LP!AcquireLock(p)
  BY DEF Lock!AcquireLock, LP!AcquireLock, Lock!Token, LP!Token, Lock!To, LP!To
<1>5. Lock!LookAtLock(p) <=> LP!LookAtLock(p)  BY DEF Lock!LookAtLock, LP!LookAtLock
<1>6. Lock!JudgeLock(p) <=> LP!JudgeLock(p)
  BY <1>2, <1>3 DEF Lock!JudgeLock, LP!JudgeLock
<1>7. Lock!NameClaim(p) <=> LP!NameClaim(p)  BY <1>2 DEF Lock!NameClaim, LP!NameClaim
<1>8. Lock!JudgeAgain(p) <=> LP!JudgeAgain(p)
  <2>1. Lock!Stale(save[p].seen) <=> LP!Stale(save[p].seen)  BY <1>3
  <2>2. CASE Lock!Stale(save[p].seen)  BY <2>1, <2>2 DEF Lock!JudgeAgain, LP!JudgeAgain
  <2>3. CASE ~Lock!Stale(save[p].seen)  BY <2>1, <2>3 DEF Lock!JudgeAgain, LP!JudgeAgain
  <2>4. QED  BY <2>2, <2>3
<1>9. QED  BY <1>1, <1>4, <1>5, <1>6, <1>7, <1>8

LEMMA SameLastOf ==
  ASSUME NEW l, NEW v  PROVE Lock!LastOf(l, v) = LP!LastOf(l, v)
  BY DEF Lock!LastOf, LP!LastOf, Lock!Last, LP!Last

LEMMA SameReading ==
  ASSUME NEW p
  PROVE  /\ Lock!Readable <=> LP!Readable
         /\ Lock!ReadCaptures(p) <=> LP!ReadCaptures(p)
         /\ Lock!ReadDecisions(p) <=> LP!ReadDecisions(p)
<1>1. ASSUME NEW l, NEW v, NEW e
      PROVE  /\ Lock!CaptureAllowed(Lock!LastOf(l, v), e) <=> LP!CaptureAllowed(LP!LastOf(l, v), e)
             /\ Lock!DecisionAllowed(Lock!LastOf(l, v), e) <=> LP!DecisionAllowed(LP!LastOf(l, v), e)
  BY SameLastOf DEF Lock!CaptureAllowed, LP!CaptureAllowed, Lock!DecisionAllowed, LP!DecisionAllowed
<1>2. Lock!Readable <=> LP!Readable  BY <1>1 DEF Lock!Readable, LP!Readable
<1>3. Lock!ReadCaptures(p) <=> LP!ReadCaptures(p)
  BY <1>1, <1>2 DEF Lock!ReadCaptures, LP!ReadCaptures, Lock!To, LP!To
<1>4. Lock!ReadDecisions(p) <=> LP!ReadDecisions(p)
  BY <1>1 DEF Lock!ReadDecisions, LP!ReadDecisions
<1>5. QED  BY <1>2, <1>3, <1>4

LEMMA SameWriting ==
  ASSUME NEW p
  PROVE  /\ Lock!ClaimTakeover(p) <=> LP!ClaimTakeover(p)
         /\ Lock!RemoveLock(p) <=> LP!RemoveLock(p)
         /\ Lock!ReleaseClaim(p) <=> LP!ReleaseClaim(p)
         /\ Lock!AppendLine(p) <=> LP!AppendLine(p)
         /\ Lock!ReplaceFile(p) <=> LP!ReplaceFile(p)
         /\ Lock!WriteFails(p) <=> LP!WriteFails(p)
         /\ Lock!ReleaseLock(p) <=> LP!ReleaseLock(p)
         /\ Lock!End(p) <=> LP!End(p)
<1>1. Lock!Event(p) = LP!Event(p) /\ Lock!Token(p) = LP!Token(p)
  BY DEF Lock!Event, LP!Event, Lock!Token, LP!Token
<1>2. Lock!HalfWritten(p) <=> LP!HalfWritten(p)
  BY <1>1 DEF Lock!HalfWritten, LP!HalfWritten
<1>3. Lock!Over(p) <=> LP!Over(p)  BY DEF Lock!Over, LP!Over, Lock!Idle, LP!Idle
<1>4. Lock!WaitOrFail(p) <=> LP!WaitOrFail(p)
  BY <1>3 DEF Lock!WaitOrFail, LP!WaitOrFail, Lock!Again, LP!Again
<1>5. ASSUME NEW a PROVE Lock!To(p, a) <=> LP!To(p, a)  BY DEF Lock!To, LP!To
<1>6. ASSUME NEW t PROVE Lock!Gone(t) <=> LP!Gone(t)  BY DEF Lock!Gone, LP!Gone
<1>7. Lock!ClaimTakeover(p) <=> LP!ClaimTakeover(p)
  BY <1>1, <1>3, <1>4, <1>5, <1>6 DEF Lock!ClaimTakeover, LP!ClaimTakeover
<1>8. Lock!RemoveLock(p) <=> LP!RemoveLock(p)  BY <1>5 DEF Lock!RemoveLock, LP!RemoveLock
<1>9. Lock!ReleaseClaim(p) <=> LP!ReleaseClaim(p)
  BY <1>4 DEF Lock!ReleaseClaim, LP!ReleaseClaim
<1>10. Lock!AppendLine(p) <=> LP!AppendLine(p)
  BY <1>1, <1>5 DEF Lock!AppendLine, LP!AppendLine
<1>11. Lock!ReplaceFile(p) <=> LP!ReplaceFile(p)
  BY <1>1, <1>5 DEF Lock!ReplaceFile, LP!ReplaceFile
<1>12. Lock!WriteFails(p) <=> LP!WriteFails(p)
  BY <1>2, <1>5 DEF Lock!WriteFails, LP!WriteFails
<1>13. Lock!ReleaseLock(p) <=> LP!ReleaseLock(p)
  BY <1>1, <1>3 DEF Lock!ReleaseLock, LP!ReleaseLock
<1>14. Lock!End(p) <=> LP!End(p)  BY <1>2, <1>3 DEF Lock!End, LP!End
<1>15. QED  BY <1>7, <1>8, <1>9, <1>10, <1>11, <1>12, <1>13, <1>14

LEMMA SameLock ==
  /\ Lock!PInit <=> LP!PInit
  /\ Lock!PNext <=> LP!PNext
  /\ Lock!SavesKept <=> LP!SavesKept
<1>1. Lock!PInit <=> LP!PInit  BY DEF Lock!PInit, LP!PInit, Lock!Idle, LP!Idle
<1>2. Lock!PNext <=> LP!PNext
  BY SameLook, SameReading, SameWriting DEF Lock!PNext, LP!PNext, Lock!PStep, LP!PStep
<1>3. Lock!SavesKept <=> LP!SavesKept
  BY SameReading DEF Lock!SavesKept, LP!SavesKept
<1>4. QED  BY <1>1, <1>2, <1>3

\* A save that was reported as done stays in its file, and the file can be read unless a
\* write was cut short (privateOutput.ts, captureStore.ts, decisionStore.ts): for any
\* number of review processes, saves and requests, and at most one process that ends or
\* write that fails.
THEOREM SavesStay ==
  ASSUME MaxFaults \in Int, MaxFaults <= 1, LP!NoneIsNoToken
  PROVE  Spec => []SavesKept
<1> DEFINE Inv == part = "lock" => LP!LockSound
<1>1. Init => Inv  BY SameLock, LP!InitSound DEF Init
<1>2. Inv /\ [Next]_vars => Inv'
  <2> SUFFICES ASSUME part = "lock", LP!LockSound, [Next]_vars  PROVE LP!LockSound'
    BY DEF Next, vars
  <2>1. [LP!PNext]_(LP!pvars)
    BY SameLock DEF Next, vars, lockVars, LP!pvars
  <2>2. QED  BY <2>1, LP!StepSound
<1>3. Inv => SavesKept
  <2>1. LP!LockSound => LP!SavesKept
    BY DEF LP!SavesKept, LP!LockSound, LP!FilesSound, LP!Kept
  <2>2. QED  BY <2>1, SameLock DEF SavesKept
<1>4. QED  BY <1>1, <1>2, <1>3, PTL DEF Spec
-----------------------------------------------------------------------------
(***************************************************************************)
(* The readiness report.  Two loops over the events, one over captures and *)
(* one over decisions, end at the last and at the latest event of a video; *)
(* the rows of the videos are what the rule makes of the decisions that    *)
(* were imported with them.                                                *)
(***************************************************************************)
\* A set of natural numbers that is not empty has a least one.
Below == {ss \in Nat \X Nat : ss[1] < ss[2]}
LEMMA LeastNumber ==
  ASSUME NEW S \in SUBSET Nat, S # {}  PROVE  \E x \in S : \A y \in S : x <= y
<1>1. IsWellFoundedOn(Below, Nat)  BY NatLessThanWellFounded DEF OpToRel, Below
<1>2. PICK x \in S : \A y \in S : ~ (<<y, x>> \in Below)  BY <1>1, WFMin
<1>3. ASSUME NEW y \in S PROVE x <= y
  <2>1. PICK ss : ss = <<y, x>>  OBVIOUS
  <2>2. ss \in Nat \X Nat /\ ss[1] = y /\ ss[2] = x  BY <2>1
  <2>3. ~ (ss[1] < ss[2])  BY <1>2, <2>1, <2>2 DEF Below
  <2>4. QED  BY <2>2, <2>3
<1>4. QED  BY <1>3

\* i is the latest of S: by its time, then by its position.
IsLatest(i, S, time) ==
  i \in S /\ \A j \in S : time[j] < time[i] \/ (time[j] = time[i] /\ j <= i)

\* What a loop over positions 1 to N has as the latest of own so far.
Loop(f, N, own, time) ==
  f = [n \in 0..N |-> IF n = 0 THEN 0
                      ELSE IF n \in own /\ (f[n - 1] = 0 \/ time[n] >= time[f[n - 1]])
                           THEN n ELSE f[n - 1]]
SoFar(own, n) == own \cap (1..n)
LoopNext(f, own, time, n) ==
  IF n \in own /\ (f[n - 1] = 0 \/ time[n] >= time[f[n - 1]]) THEN n ELSE f[n - 1]

LEMMA LoopUnfolds ==
  ASSUME NEW N \in Nat, NEW own, NEW time, NEW f
  PROVE  Loop(f, N, own, time) <=> /\ f = [n \in 0..N |-> f[n]] /\ f[0] = 0
                                   /\ \A n \in 1..N : f[n] = LoopNext(f, own, time, n)
<1> DEFINE h == [n \in 0..N |-> IF n = 0 THEN 0 ELSE LoopNext(f, own, time, n)]
<1>1. Loop(f, N, own, time) <=> f = h  BY DEF Loop, LoopNext
<1>2. \A n \in 0..N : h[n] = IF n = 0 THEN 0 ELSE LoopNext(f, own, time, n)  OBVIOUS
<1>3. h = [n \in 0..N |-> h[n]]  OBVIOUS
<1> HIDE DEF h
<1>4. ASSUME f = [n \in 0..N |-> f[n]], \A n \in 0..N : f[n] = h[n]  PROVE f = h
  BY <1>3, <1>4
<1>5. QED  BY <1>1, <1>2, <1>3, <1>4

LEMMA LoopStep ==
  ASSUME NEW N \in Nat, NEW own \in SUBSET (1..N), NEW time, \A i \in own : time[i] \in Int,
         NEW n \in 1..N, NEW last,
         IF SoFar(own, n - 1) = {} THEN last = 0 ELSE IsLatest(last, SoFar(own, n - 1), time)
  PROVE  LET next == IF n \in own /\ (last = 0 \/ time[n] >= time[last]) THEN n ELSE last
         IN IF SoFar(own, n) = {} THEN next = 0 ELSE IsLatest(next, SoFar(own, n), time)
<1>1. SoFar(own, n) = SoFar(own, n - 1) \cup (IF n \in own THEN {n} ELSE {})  BY DEF SoFar
<1>2. \A i \in SoFar(own, n) : i \in 1..N /\ time[i] \in Int  BY DEF SoFar
<1>3. \A i \in SoFar(own, n - 1) : i \in 1..(n - 1) /\ i < n  BY DEF SoFar
<1>4. CASE n \notin own  BY <1>1, <1>4
<1>5. CASE n \in own /\ SoFar(own, n - 1) = {}
  BY <1>1, <1>2, <1>5 DEF IsLatest
<1>6. CASE n \in own /\ SoFar(own, n - 1) # {}
  <2>1. last \in SoFar(own, n - 1) /\ IsLatest(last, SoFar(own, n - 1), time)  BY <1>6 DEF IsLatest
  <2>2. last # 0  BY <1>3, <2>1
  <2>3. CASE time[n] >= time[last]  BY <1>1, <1>2, <1>3, <1>6, <2>1, <2>2, <2>3 DEF IsLatest
  <2>4. CASE ~(time[n] >= time[last])  BY <1>1, <1>2, <1>3, <1>6, <2>1, <2>2, <2>4 DEF IsLatest
  <2>5. QED  BY <2>3, <2>4
<1>7. QED  BY <1>4, <1>5, <1>6

LEMMA LoopFindsLatest ==
  ASSUME NEW N \in Nat, NEW own \in SUBSET (1..N), NEW time, \A i \in own : time[i] \in Int,
         NEW f, Loop(f, N, own, time)
  PROVE  IF own = {} THEN f[N] = 0 ELSE IsLatest(f[N], own, time)
<1> DEFINE Right(n) == IF SoFar(own, n) = {} THEN f[n] = 0 ELSE IsLatest(f[n], SoFar(own, n), time)
           wrong == {n \in 0..N : ~Right(n)}
<1>1. /\ f[0] = 0
      /\ \A n \in 1..N : f[n] = IF n \in own /\ (f[n - 1] = 0 \/ time[n] >= time[f[n - 1]])
                                THEN n ELSE f[n - 1]
  BY DEF Loop
<1>2. Right(0)  BY <1>1 DEF SoFar
<1>3. ASSUME NEW n \in 1..N, Right(n - 1) PROVE Right(n)
  <2> DEFINE last == f[n - 1]
  <2>1. IF SoFar(own, n - 1) = {} THEN last = 0 ELSE IsLatest(last, SoFar(own, n - 1), time)
    BY <1>3
  <2>2. f[n] = IF n \in own /\ (last = 0 \/ time[n] >= time[last]) THEN n ELSE last  BY <1>1
  <2> HIDE DEF last
  <2>3. QED  BY <2>1, <2>2, LoopStep
<1> HIDE DEF Right
<1>4. wrong = {}
  <2> SUFFICES ASSUME wrong # {} PROVE FALSE  OBVIOUS
  <2>1. wrong \in SUBSET Nat  OBVIOUS
  <2>2. PICK n \in wrong : \A m \in wrong : n <= m  BY <2>1, LeastNumber
  <2>3. n \in 1..N /\ ~Right(n)  BY <1>2, <2>2
  <2>4. n - 1 \in 0..N /\ n - 1 \notin wrong  BY <2>2, <2>3
  <2>5. QED  BY <1>3, <2>3, <2>4
<1>5. Right(N)  BY <1>4
<1>6. SoFar(own, N) = own  BY DEF SoFar
<1>7. QED  BY <1>5, <1>6 DEF Right

\* There is such a loop.
LEMMA LatestSoFar ==
  ASSUME NEW N \in Nat, NEW own \in SUBSET (1..N), NEW time, \A i \in own : time[i] \in Int
  PROVE  \A n \in 0..N : SoFar(own, n) # {} => \E i : IsLatest(i, SoFar(own, n), time)
<1> DEFINE Some(n) == SoFar(own, n) # {} => \E i : IsLatest(i, SoFar(own, n), time)
           wrong == {n \in 0..N : ~Some(n)}
<1>1. Some(0)  BY DEF SoFar
<1>2. ASSUME NEW n \in 1..N, Some(n - 1) PROVE Some(n)
  <2>1. PICK last : IF SoFar(own, n - 1) = {} THEN last = 0 ELSE IsLatest(last, SoFar(own, n - 1), time)
    BY <1>2
  <2>2. QED  BY <2>1, LoopStep
<1> HIDE DEF Some
<1>3. wrong = {}
  <2> SUFFICES ASSUME wrong # {} PROVE FALSE  OBVIOUS
  <2>1. wrong \in SUBSET Nat  OBVIOUS
  <2>2. PICK n \in wrong : \A m \in wrong : n <= m  BY <2>1, LeastNumber
  <2>3. n \in 1..N /\ ~Some(n)  BY <1>1, <2>2
  <2>4. n - 1 \in 0..N /\ n - 1 \notin wrong  BY <2>2, <2>3
  <2>5. QED  BY <1>2, <2>3, <2>4
<1>4. QED  BY <1>3 DEF Some

LEMMA LatestIsOne ==
  ASSUME NEW S \in SUBSET Nat, NEW time, \A i \in S : time[i] \in Int, NEW i, NEW j,
         IsLatest(i, S, time), IsLatest(j, S, time)
  PROVE  i = j
BY DEF IsLatest

LEMMA LoopExists ==
  ASSUME NEW N \in Nat, NEW own \in SUBSET (1..N), NEW time, \A i \in own : time[i] \in Int
  PROVE  \E f : Loop(f, N, own, time)
<1> DEFINE L(n) == IF SoFar(own, n) = {} THEN 0 ELSE CHOOSE i : IsLatest(i, SoFar(own, n), time)
           f == [n \in 0..N |-> L(n)]
<1>1. \A n \in 0..N : IF SoFar(own, n) = {} THEN L(n) = 0 ELSE IsLatest(L(n), SoFar(own, n), time)
  BY LatestSoFar
<1>2. L(0) = 0  BY DEF SoFar
<1> HIDE DEF L
<1>3. ASSUME NEW n \in 1..N
      PROVE  L(n) = IF n \in own /\ (L(n - 1) = 0 \/ time[n] >= time[L(n - 1)]) THEN n ELSE L(n - 1)
  <2> DEFINE next == IF n \in own /\ (L(n - 1) = 0 \/ time[n] >= time[L(n - 1)]) THEN n ELSE L(n - 1)
  <2>1. n - 1 \in 0..N /\ n \in 0..N  OBVIOUS
  <2>2. IF SoFar(own, n) = {} THEN next = 0 ELSE IsLatest(next, SoFar(own, n), time)
    BY <1>1, <2>1, LoopStep
  <2>3. SoFar(own, n) \in SUBSET Nat /\ \A i \in SoFar(own, n) : time[i] \in Int  BY DEF SoFar
  <2> HIDE DEF next
  <2>4. L(n) = next  BY <1>1, <2>1, <2>2, <2>3, LatestIsOne
  <2>5. QED  BY <2>4 DEF next
<1>4. Loop(f, N, own, time)
  <2>1. \A n \in 0..N : f[n] = L(n)  OBVIOUS
  <2>2. \A n \in 0..N : L(n) = IF n = 0 THEN 0
                               ELSE IF n \in own /\ (f[n - 1] = 0 \/ time[n] >= time[f[n - 1]])
                                    THEN n ELSE f[n - 1]
    <3> SUFFICES ASSUME NEW n \in 0..N
                 PROVE  L(n) = IF n = 0 THEN 0
                               ELSE IF n \in own /\ (f[n - 1] = 0 \/ time[n] >= time[f[n - 1]])
                                    THEN n ELSE f[n - 1]
      OBVIOUS
    <3>1. n # 0 => n \in 1..N /\ f[n - 1] = L(n - 1)  BY <2>1
    <3>2. QED  BY <1>2, <1>3, <3>1
  <2>3. QED  BY <2>2 DEF Loop
<1>5. QED  BY <1>4

\* What a loop has is a position, or none yet.
LEMMA LoopHasPositions ==
  ASSUME NEW N \in Nat, NEW f, f[0] = 0, \A n \in 1..N : f[n] = n \/ f[n] = f[n - 1]
  PROVE  \A n \in 0..N : f[n] \in 0..n
<1> DEFINE wrong == {n \in 0..N : f[n] \notin 0..n}
<1>1. wrong = {}
  <2> SUFFICES ASSUME wrong # {} PROVE FALSE  OBVIOUS
  <2>1. wrong \in SUBSET Nat  OBVIOUS
  <2>2. PICK n \in wrong : \A m \in wrong : n <= m  BY <2>1, LeastNumber
  <2>3. n \in 1..N /\ f[n] \notin 0..n  BY <2>2
  <2>4. n - 1 \in 0..N /\ n - 1 \notin wrong  BY <2>2, <2>3
  <2>5. QED  BY <2>3, <2>4
<1>2. QED  BY <1>1

\* activeCaptures finds the last event.
CaptureState(event) == IF event = "unavailable" THEN "unavailable" ELSE "captured"
LEMMA LastCapture ==
  ASSUME NEW E, captured \in Seq([video : Videos, event : E]), NEW v
  PROVE  LET own == {i \in DOMAIN captured : captured[i].video = v}
             last == CHOOSE i \in own : \A j \in own : j <= i
         IN IF own = {} THEN Manifest!CaptureOf(v) = "needs-capture"
            ELSE /\ last \in own
                 /\ Manifest!CaptureOf(v) = CaptureState(captured[last].event)
<1> DEFINE N == Len(captured)
           own == {i \in DOMAIN captured : captured[i].video = v}
           last == CHOOSE i \in own : \A j \in own : j <= i
           time == [i \in 0..N |-> 0]
           Body(f) == [n \in 0..N |-> IF n = 0 THEN 0 ELSE IF captured[n].video = v THEN n ELSE f[n - 1]]
           g == CHOOSE f : f = Body(f)
<1>1. N \in Nat /\ own \in SUBSET (1..N) /\ \A i \in own : time[i] \in Int  OBVIOUS
<1>2. \A n \in 1..N : n \in own <=> captured[n].video = v  OBVIOUS
<1> HIDE DEF own
<1>3. \A n, m \in 0..N : time[n] >= time[m]  OBVIOUS
<1>4. \E f : f = Body(f)
  <2>1. PICK f : Loop(f, N, own, time)  BY <1>1, LoopExists
  <2>2. /\ f = [n \in 0..N |-> f[n]] /\ f[0] = 0
        /\ \A n \in 1..N : f[n] = IF n \in own /\ (f[n - 1] = 0 \/ time[n] >= time[f[n - 1]])
                                  THEN n ELSE f[n - 1]
    <3>1. /\ f = [n \in 0..N |-> f[n]] /\ f[0] = 0
          /\ \A n \in 1..N : f[n] = LoopNext(f, own, time, n)
      BY <1>1, <2>1, LoopUnfolds
    <3>2. QED  BY <3>1, Zenon DEF LoopNext
  <2>3. \A n \in 0..N : f[n] \in 0..n  BY <1>1, <2>2, LoopHasPositions
  <2>4. \A n \in 1..N : f[n] = IF captured[n].video = v THEN n ELSE f[n - 1]
    <3> SUFFICES ASSUME NEW n \in 1..N PROVE f[n] = IF captured[n].video = v THEN n ELSE f[n - 1]
      OBVIOUS
    <3>1. f[n - 1] \in 0..N /\ n \in 0..N  BY <1>1, <2>3
    <3>2. QED  BY <1>2, <1>3, <2>2, <3>1
  <2>5. \A n \in 0..N : f[n] = IF n = 0 THEN 0 ELSE IF captured[n].video = v THEN n ELSE f[n - 1]
    <3>1. \A n \in 0..N : n = 0 \/ n \in 1..N  BY <1>1
    <3>2. QED  BY <2>2, <2>4, <3>1
  <2>6. f = Body(f)  BY <2>2, <2>5
  <2>7. QED  BY <2>6
<1>5. g = Body(g)  BY <1>4
<1>6. Manifest!CaptureOf(v) = IF g[N] = 0 THEN "needs-capture" ELSE CaptureState(captured[g[N]].event)
  BY DEF Manifest!CaptureOf, CaptureState
<1> HIDE DEF g
<1>7. /\ g = [n \in 0..N |-> g[n]] /\ g[0] = 0
      /\ \A n \in 1..N : g[n] = IF captured[n].video = v THEN n ELSE g[n - 1]
  <2> DEFINE At(n) == IF n = 0 THEN 0 ELSE IF captured[n].video = v THEN n ELSE g[n - 1]
  <2>1. g = [n \in 0..N |-> At(n)]  BY <1>5
  <2> HIDE DEF At
  <2>2. g = [n \in 0..N |-> g[n]] /\ \A n \in 0..N : g[n] = At(n)  BY <2>1
  <2>3. 0 \in 0..N /\ \A n \in 1..N : n \in 0..N /\ n # 0  BY <1>1
  <2>4. QED  BY <2>2, <2>3 DEF At
<1>8. \A n \in 0..N : g[n] \in 0..n  BY <1>1, <1>7, LoopHasPositions
<1>9. \A n \in 1..N : g[n] = IF n \in own /\ (g[n - 1] = 0 \/ time[n] >= time[g[n - 1]])
                             THEN n ELSE g[n - 1]
  <2> SUFFICES ASSUME NEW n \in 1..N
               PROVE  g[n] = IF n \in own /\ (g[n - 1] = 0 \/ time[n] >= time[g[n - 1]])
                             THEN n ELSE g[n - 1]
    OBVIOUS
  <2>1. g[n - 1] \in 0..N /\ n \in 0..N  BY <1>1, <1>8
  <2>2. QED  BY <1>2, <1>3, <1>7, <2>1
<1>10. Loop(g, N, own, time)  BY <1>1, <1>7, <1>9, LoopUnfolds DEF LoopNext
<1>11. IF own = {} THEN g[N] = 0 ELSE IsLatest(g[N], own, time)  BY <1>1, <1>10, LoopFindsLatest
<1>12. CASE own = {}  BY <1>6, <1>11, <1>12 DEF own
<1>13. CASE own # {}
  <2>1. g[N] \in own /\ \A j \in own : j <= g[N]
    <3>1. IsLatest(g[N], own, time)  BY <1>11, <1>13
    <3>2. \A j \in own : time[j] = 0  BY <1>1
    <3>3. QED  BY <3>1, <3>2 DEF IsLatest
  <2>2. last \in own /\ \A j \in own : j <= last  BY <2>1
  <2>3. last = g[N] /\ g[N] # 0  BY <1>1, <2>1, <2>2
  <2>4. QED  BY <1>6, <1>13, <2>2, <2>3 DEF own
<1>14. QED  BY <1>12, <1>13

\* activeDecisions finds the event that effectiveDecisions takes.
DecisionEvents == [video : Videos, decision : {"include", "exclude", "clear"}, time : Instants]
LEMMA LatestDecision ==
  ASSUME NEW rows \in Seq(DecisionEvents), rows = tables.decided, Instants \subseteq Int, NEW v
  PROVE  LET own == {i \in DOMAIN rows : rows[i].video = v}
         IN IF own = {} THEN ~Manifest!ReportedDecision(v)
            ELSE /\ Manifest!Latest(rows, v) \in own
                 /\ Manifest!ReportedDecision(v) <=> rows[Manifest!Latest(rows, v)].decision # "clear"
<1> DEFINE N == Len(rows)
           own == {i \in DOMAIN rows : rows[i].video = v}
           time == [i \in 0..N |-> IF i = 0 THEN 0 ELSE rows[i].time]
           Body(f) == [n \in 0..N |->
                         IF n = 0 THEN 0
                         ELSE IF rows[n].video = v /\ (f[n - 1] = 0 \/ rows[n].time >= rows[f[n - 1]].time)
                              THEN n ELSE f[n - 1]]
           g == CHOOSE f : f = Body(f)
<1>1. N \in Nat /\ own \in SUBSET (1..N) /\ \A i \in 1..N : rows[i].time \in Int
  <2>1. N \in Nat /\ DOMAIN rows = 1..N /\ \A i \in 1..N : rows[i] \in DecisionEvents  OBVIOUS
  <2>2. \A e \in DecisionEvents : e.time \in Int  BY DEF DecisionEvents
  <2>3. QED  BY <2>1, <2>2
<1>2. \A n \in 1..N : n \in own <=> rows[n].video = v  OBVIOUS
<1>3. \A n \in 1..N : time[n] = rows[n].time  OBVIOUS
<1>4. \A i \in own : time[i] \in Int  BY <1>1, <1>3
<1> HIDE DEF own, time
<1> DEFINE Next1(f, n) == IF rows[n].video = v /\ (f[n - 1] = 0 \/ rows[n].time >= rows[f[n - 1]].time)
                          THEN n ELSE f[n - 1]
<1>5. ASSUME NEW f, \A n \in 0..N : f[n] \in 0..n, NEW n \in 1..N
      PROVE  Next1(f, n) = LoopNext(f, own, time, n)
  <2>1. f[n - 1] # 0 => f[n - 1] \in 1..N  BY <1>1, <1>5
  <2>2. QED  BY <1>2, <1>3, <2>1 DEF LoopNext
<1>6. \E f : f = Body(f)
  <2>1. PICK f : Loop(f, N, own, time)  BY <1>1, <1>4, LoopExists
  <2>2. f = [n \in 0..N |-> f[n]] /\ f[0] = 0 /\ \A n \in 1..N : f[n] = LoopNext(f, own, time, n)
    BY <1>1, <2>1, LoopUnfolds
  <2>3. \A n \in 0..N : f[n] \in 0..n  BY <1>1, <2>2, LoopHasPositions DEF LoopNext
  <2>4. \A n \in 1..N : f[n] = Next1(f, n)  BY <1>5, <2>2, <2>3
  <2>5. \A n \in 0..N : f[n] = IF n = 0 THEN 0 ELSE Next1(f, n)
    <3>1. \A n \in 0..N : n = 0 \/ n \in 1..N  BY <1>1
    <3> HIDE DEF Next1
    <3>2. QED  BY <2>2, <2>4, <3>1
  <2>6. f = Body(f)  BY <2>2, <2>5, Zenon
  <2>7. QED  BY <2>6
<1>7. g = Body(g)  BY <1>6, Zenon
<1>8. Manifest!ReportedDecision(v) <=> g[N] # 0 /\ rows[g[N]].decision # "clear"
  BY DEF Manifest!ReportedDecision
<1> HIDE DEF g
<1>9. g = [n \in 0..N |-> g[n]] /\ g[0] = 0 /\ \A n \in 1..N : g[n] = Next1(g, n)
  <2> DEFINE At(n) == IF n = 0 THEN 0 ELSE Next1(g, n)
  <2>1. g = [n \in 0..N |-> At(n)]  BY <1>7
  <2> HIDE DEF At
  <2>2. g = [n \in 0..N |-> g[n]] /\ \A n \in 0..N : g[n] = At(n)  BY <2>1
  <2>3. 0 \in 0..N /\ \A n \in 1..N : n \in 0..N /\ n # 0  BY <1>1
  <2>4. g[0] = At(0) /\ \A n \in 1..N : g[n] = At(n)  BY <2>2, <2>3, Zenon
  <2> HIDE DEF Next1
  <2>5. At(0) = 0 /\ \A n : n # 0 => At(n) = Next1(g, n)  BY DEF At
  <2>6. QED  BY <2>2, <2>3, <2>4, <2>5, Zenon
<1>10. \A n \in 0..N : g[n] \in 0..n  BY <1>1, <1>9, LoopHasPositions
<1>11. \A n \in 1..N : g[n] = LoopNext(g, own, time, n)  BY <1>5, <1>9, <1>10
<1>12. Loop(g, N, own, time)  BY <1>1, <1>9, <1>11, LoopUnfolds
<1>13. IF own = {} THEN g[N] = 0 ELSE IsLatest(g[N], own, time)
  BY <1>1, <1>4, <1>12, LoopFindsLatest
<1>14. CASE own = {}  BY <1>8, <1>13, <1>14 DEF own
<1>15. CASE own # {}
  <2> DEFINE NotAfter(j, i) == (rows[j].time < rows[i].time) \/ (rows[j].time = rows[i].time /\ j <= i)
             Top(i) == i \in own /\ \A j \in own : NotAfter(j, i)
             last == CHOOSE i \in own : \A j \in own : NotAfter(j, i)
  <2>1. Top(g[N])
    <3>1. IsLatest(g[N], own, time)  BY <1>13, <1>15
    <3>2. \A j \in own : time[j] = rows[j].time  BY <1>1, <1>3
    <3>3. QED  BY <3>1, <3>2 DEF IsLatest
  <2>2. Top(last)  BY <2>1
  <2>3. Manifest!Latest(rows, v) = last  BY DEF Manifest!Latest, own
  <2> HIDE DEF last
  <2>4. last = g[N] /\ g[N] # 0
    <3>1. /\ last \in 1..N /\ g[N] \in 1..N /\ rows[last].time \in Int /\ rows[g[N]].time \in Int
      BY <1>1, <2>1, <2>2
    <3>2. NotAfter(last, g[N]) /\ NotAfter(g[N], last)  BY <2>1, <2>2
    <3> DEFINE i == last
               j == g[N]
               x == rows[last].time
               y == rows[g[N]].time
    <3>3. i \in Int /\ j \in Int /\ x \in Int /\ y \in Int  BY <3>1
    <3>4. /\ x < y \/ (x = y /\ i <= j)
          /\ y < x \/ (y = x /\ j <= i)
      BY <3>2
    <3> HIDE DEF i, j, x, y
    <3>5. i = j  BY <3>3, <3>4
    <3>6. last = g[N]  BY <3>5 DEF i, j
    <3>7. QED  BY <1>1, <3>1, <3>6
  <2>5. QED  BY <1>8, <1>15, <2>2, <2>3, <2>4 DEF own
<1>16. QED  BY <1>14, <1>15

CaptureEvents == [video : Videos, event : {"captured", "unavailable", "replaced"}]

\* The review status of video v, from the decisions given.
StatusFrom(events, v) ==
  LET d == IF Manifest!InWindow(v) THEN Manifest!Active(events, v) ELSE None
  IN CASE d = "include" -> "present"
       [] d = "exclude" -> "excluded"
       [] d = None -> IF Manifest!Classified(v) = "candidate" THEN "present" ELSE Manifest!Classified(v)

\* The rows of the videos are what the rule makes of the decisions imported with them.
ManifestSound ==
  /\ decided \in Seq(DecisionEvents) /\ captured \in Seq(CaptureEvents)
  /\ listed \subseteq Videos
  /\ DOMAIN tables.api = tables.listed
  /\ \A v \in tables.listed :
       tables.api[v] = [week |-> sample[v].week, late |-> sample[v].late,
                        review |-> StatusFrom(tables.decided, v)]

\* None is no decision, and times are numbers.
DecisionsGiven == None \notin {"include", "exclude"} /\ Instants \subseteq Int

LEMMA SameStatus == \A v : Manifest!StatusOf(v) = StatusFrom(decided, v)
BY DEF Manifest!StatusOf, StatusFrom

\* A status depends on the sample and on nothing else that changes.
LEMMA RowsKeep ==
  ASSUME ManifestSound, sample' = sample, tables' = tables
  PROVE  /\ (DOMAIN tables.api = tables.listed)'
         /\ (\A v \in tables.listed :
               tables.api[v] = [week |-> sample[v].week, late |-> sample[v].late,
                                review |-> StatusFrom(tables.decided, v)])'
<1>1. \A v : StatusFrom(tables.decided, v)' = StatusFrom(tables'.decided, v)
  BY DEF StatusFrom, Manifest!InWindow, Manifest!Active, Manifest!Latest,
     Manifest!Classified, Manifest!Excluded, Manifest!Signals, Manifest!Unclear
<1>2. QED  BY <1>1 DEF ManifestSound

LEMMA DecideKeeps ==
  ASSUME ManifestSound, NEW v \in Videos, Manifest!Decide(v)  PROVE ManifestSound'
<1>1. PICK d \in {"include", "exclude", "clear"}, t \in Instants :
        decided' = Append(decided, [video |-> v, decision |-> d, time |-> t])
  BY DEF Manifest!Decide
<1>2. [video |-> v, decision |-> d, time |-> t] \in DecisionEvents  BY DEF DecisionEvents
<1>3. decided' \in Seq(DecisionEvents)  BY <1>1, <1>2 DEF ManifestSound
<1>4. UNCHANGED <<sample, listed, captured, tables>>  BY DEF Manifest!Decide
<1>5. QED  BY <1>3, <1>4, RowsKeep DEF ManifestSound

LEMMA SaveTranscriptKeeps ==
  ASSUME ManifestSound, NEW v \in Videos, Manifest!SaveTranscript(v)  PROVE ManifestSound'
<1>1. Manifest!CaptureOf(v) \in {"needs-capture", "unavailable", "captured"}
  BY DEF Manifest!CaptureOf
<1>2. PICK e : /\ e \in CASE Manifest!CaptureOf(v) = "needs-capture" -> {"captured", "unavailable"}
                          [] Manifest!CaptureOf(v) = "unavailable" -> {"captured"}
                          [] Manifest!CaptureOf(v) = "captured" -> {"replaced"}
               /\ captured' = Append(captured, [video |-> v, event |-> e])
  BY DEF Manifest!SaveTranscript
<1>3. e \in {"captured", "unavailable", "replaced"}  BY <1>1, <1>2
<1>4. [video |-> v, event |-> e] \in CaptureEvents  BY <1>3 DEF CaptureEvents
<1>5. captured' \in Seq(CaptureEvents)  BY <1>2, <1>4 DEF ManifestSound
<1>6. UNCHANGED <<sample, listed, decided, tables>>  BY DEF Manifest!SaveTranscript
<1>7. QED  BY <1>5, <1>6, RowsKeep DEF ManifestSound

LEMMA ImportKeeps ==
  ASSUME ManifestSound, Manifest!Import  PROVE ManifestSound'
<1>1. UNCHANGED <<sample, listed, decided, captured>>  BY DEF Manifest!Import
<1>2. /\ tables'.listed = listed /\ tables'.decided = decided
      /\ tables'.api = [v \in listed |-> [week |-> sample[v].week, late |-> sample[v].late,
                                          review |-> Manifest!StatusOf(v)]]
  BY DEF Manifest!Import
<1>3. \A v : Manifest!StatusOf(v) = StatusFrom(tables'.decided, v)  BY <1>2, SameStatus
<1>4. \A v : StatusFrom(tables'.decided, v) = StatusFrom(tables.decided, v)'
  BY <1>1 DEF StatusFrom, Manifest!InWindow, Manifest!Active, Manifest!Latest,
     Manifest!Classified, Manifest!Excluded, Manifest!Signals, Manifest!Unclear
<1>5. QED  BY <1>1, <1>2, <1>3, <1>4 DEF ManifestSound

LEMMA ManifestSoundStep ==
  ASSUME ManifestSound, [Manifest!MNext]_(manifestVars)  PROVE ManifestSound'
<1>1. CASE Manifest!Rediscover
  <2>1. listed' \subseteq Videos /\ UNCHANGED <<sample, decided, captured, tables>>
    BY <1>1 DEF Manifest!Rediscover
  <2>2. QED  BY <2>1, RowsKeep DEF ManifestSound
<1>2. CASE UNCHANGED manifestVars
  BY <1>2, RowsKeep DEF manifestVars, ManifestSound
<1>3. QED  BY <1>1, <1>2, DecideKeeps, SaveTranscriptKeeps, ImportKeeps DEF Manifest!MNext

\* A decision counts for the report if it is in effect for the pages.
LEMMA DecisionsAgree ==
  ASSUME ManifestSound, DecisionsGiven, tables.decided = decided, NEW v
  PROVE  Manifest!ReportedDecision(v) <=> Manifest!Active(decided, v) # None
<1> DEFINE own == {i \in DOMAIN decided : decided[i].video = v}
<1>1. IF own = {} THEN ~Manifest!ReportedDecision(v)
      ELSE /\ Manifest!Latest(decided, v) \in own
           /\ Manifest!ReportedDecision(v) <=> decided[Manifest!Latest(decided, v)].decision # "clear"
  BY LatestDecision DEF ManifestSound, DecisionsGiven
<1>2. CASE own = {}
  BY <1>1, <1>2 DEF Manifest!Active
<1>3. CASE own # {}
  <2> DEFINE i == Manifest!Latest(decided, v)
  <2>1. i \in own  BY <1>1, <1>3
  <2>2. decided[i] \in DecisionEvents  BY <2>1 DEF ManifestSound
  <2>3. decided[i].decision \in {"include", "exclude", "clear"}  BY <2>2 DEF DecisionEvents
  <2>4. Manifest!Active(decided, v) = IF decided[i].decision = "clear" THEN None ELSE decided[i].decision
    BY <2>1 DEF Manifest!Active
  <2> HIDE DEF i
  <2>5. QED  BY <1>1, <1>3, <2>3, <2>4 DEF DecisionsGiven, i
<1>4. QED  BY <1>2, <1>3

LEMMA CapturesAgree ==
  ASSUME ManifestSound, tables.captured = captured, NEW v
  PROVE  Manifest!ReportedCapture(v) \in {"captured", "replaced"} <=> Manifest!CaptureOf(v) = "captured"
<1> DEFINE own == {i \in DOMAIN captured : captured[i].video = v}
           last == CHOOSE i \in own : \A j \in own : j <= i
<1>1. IF own = {} THEN Manifest!CaptureOf(v) = "needs-capture"
      ELSE last \in own /\ Manifest!CaptureOf(v) = CaptureState(captured[last].event)
  BY LastCapture DEF ManifestSound, CaptureEvents
<1>2. Manifest!ReportedCapture(v) = IF own = {} THEN "missing" ELSE captured[last].event
  BY DEF Manifest!ReportedCapture
<1>3. \A i \in own : captured[i].event \in {"captured", "unavailable", "replaced"}
  <2>1. \A e \in CaptureEvents : e.event \in {"captured", "unavailable", "replaced"}
    BY DEF CaptureEvents
  <2>2. \A i \in own : captured[i] \in CaptureEvents  BY DEF ManifestSound
  <2>3. QED  BY <2>1, <2>2
<1> HIDE DEF own, last
<1>4. QED  BY <1>1, <1>2, <1>3 DEF CaptureState

LEMMA AllAgrees ==
  ASSUME ManifestSound, DecisionsGiven  PROVE Manifest!ReportAgrees
<1> SUFFICES ASSUME tables.captured = captured, tables.decided = decided, tables.listed = listed
             PROVE  /\ Manifest!ReportedIncluded = Manifest!Queue
                    /\ Manifest!ReportedCaptured = Manifest!QueueCaptured
                    /\ Manifest!ReportedUnapplied = Manifest!NotApplied
                    /\ \A w \in Weeks : Manifest!ReportedSlot(w) = Manifest!SlotOf(w)
  BY DEF Manifest!ReportAgrees
<1>1. /\ DOMAIN tables.api = listed
      /\ \A v \in listed : /\ tables.api[v].week = sample[v].week
                           /\ tables.api[v].late = sample[v].late
                           /\ tables.api[v].review = Manifest!StatusOf(v)
  <2>1. \A v : Manifest!StatusOf(v) = StatusFrom(tables.decided, v)  BY SameStatus
  <2>2. DOMAIN tables.api = listed  BY DEF ManifestSound
  <2>3. ASSUME NEW v \in listed
        PROVE  /\ tables.api[v].week = sample[v].week
               /\ tables.api[v].late = sample[v].late
               /\ tables.api[v].review = StatusFrom(tables.decided, v)
    <3>1. tables.api[v] = [week |-> sample[v].week, late |-> sample[v].late,
                           review |-> StatusFrom(tables.decided, v)]
      BY DEF ManifestSound
    <3>2. QED  BY <3>1
  <2>4. QED  BY <2>1, <2>2, <2>3
<1>2. Manifest!ReportedIncluded = Manifest!Queue
  <2>1. ASSUME NEW v, sample[v].week = Outside PROVE Manifest!StatusOf(v) # "present"
    <3>1. ~Manifest!InWindow(v)  BY <2>1 DEF Manifest!InWindow
    <3>2. Manifest!Classified(v) = "excluded"  BY <2>1 DEF Manifest!Classified, Manifest!Excluded
    <3>3. QED  BY <3>1, <3>2 DEF Manifest!StatusOf, DecisionsGiven
  <2>2. QED  BY <1>1, <2>1 DEF Manifest!ReportedIncluded, Manifest!Queue
<1>3. Manifest!ReportedCaptured = Manifest!QueueCaptured
  BY <1>2, CapturesAgree DEF Manifest!ReportedCaptured, Manifest!QueueCaptured
<1>4. Manifest!ReportedUnapplied = Manifest!NotApplied
  BY <1>1, DecisionsAgree DEF Manifest!ReportedUnapplied, Manifest!NotApplied, Manifest!InWindow
<1>5. ASSUME NEW w \in Weeks PROVE Manifest!ReportedSlot(w) = Manifest!SlotOf(w)
  <2> DEFINE inWeek == {v \in DOMAIN tables.api : tables.api[v].week = w}
             status == {Manifest!StatusOf(v) : v \in {u \in listed : sample[u].week = w}}
  <2>1. inWeek = {u \in listed : sample[u].week = w}  BY <1>1
  <2>2. inWeek \cap Manifest!ReportedIncluded # {} <=> "present" \in status
    BY <1>1, <2>1 DEF Manifest!ReportedIncluded
  <2>3. (\E v \in inWeek : tables.api[v].review = "needs-review") <=> "needs-review" \in status
    BY <1>1, <2>1
  <2>4. Manifest!ReportedSlot(w) = IF inWeek \cap Manifest!ReportedIncluded # {} THEN "present"
                                   ELSE IF \E v \in inWeek : tables.api[v].review = "needs-review"
                                        THEN "needs-review" ELSE "missing"
    BY DEF Manifest!ReportedSlot
  <2>5. Manifest!SlotOf(w) = IF "present" \in status THEN "present"
                             ELSE IF "needs-review" \in status THEN "needs-review" ELSE "missing"
    BY DEF Manifest!SlotOf
  <2> HIDE DEF inWeek, status
  <2>6. QED  BY <2>2, <2>3, <2>4, <2>5
<1>6. QED  BY <1>2, <1>3, <1>4, <1>5

\* Once the files are imported the readiness report says of every video, week and decision
\* what the pages say (readinessReport.ts against creatorDecisions.ts, captureQueue.ts and
\* creatorCorpusManifest.ts), in whatever order decisions were written: for any videos, any
\* number of events and any times.
THEOREM ReportAndPagesAgree ==
  ASSUME DecisionsGiven  PROVE Spec => []ReportAgrees
<1> DEFINE Inv == part = "manifest" => ManifestSound
<1>1. Init => Inv
  <2> SUFFICES ASSUME Init PROVE ManifestSound  OBVIOUS
  <2>1. /\ listed = {} /\ decided = <<>> /\ captured = <<>>
        /\ tables.listed = {} /\ tables.api = <<>>
    BY DEF Init, Manifest!MInit, Manifest!NoTables
  <2>2. QED  BY <2>1 DEF ManifestSound
<1>2. Inv /\ [Next]_vars => Inv'
  <2> SUFFICES ASSUME part = "manifest", ManifestSound, [Next]_vars  PROVE ManifestSound'
    BY DEF Next, vars
  <2>1. [Manifest!MNext]_(manifestVars)  BY DEF Next, vars
  <2>2. QED  BY <2>1, ManifestSoundStep
<1>3. Inv => ReportAgrees  BY AllAgrees DEF ReportAgrees
<1>4. QED  BY <1>1, <1>2, <1>3, PTL DEF Spec
=============================================================================
