------------------------------ MODULE Accounts ------------------------------
(***************************************************************************)
(* The signed-in user and what the pages show for them.  Every change of   *)
(* user blanks the page and loads that user's document (useInitAuth.ts);   *)
(* watching a prop is applied first and taken back when the server refuses *)
(* (watchlistToggle.ts); the owner's list of submissions is loaded per     *)
(* user (admin/creator-submissions); deleting the account removes the      *)
(* document and then the Auth record (accountDeletion.ts).  Answers come   *)
(* in any order, or never, and users change while they are under way.      *)
(***************************************************************************)
EXTENDS Integers

CONSTANTS
  None,
  Uids,
  Devices,          \* pages from which an account is deleted
  WatchToggle,      \* the request of the page's watch button
  MaxGenerations    \* bound: changes of the user

VARIABLES
  accounts,         \* [Uids -> "active", "disabled" or "deleted"]: Firebase Auth
  documents,        \* [Uids -> None or the user's document]: Firestore
  uid, identityGeneration, dataVerified,
  goal, watch,      \* whose goal and whose watched prop the page holds, or None
  requests,         \* requests under way: a load for each generation, a toggle, deletions
  loaded,           \* submissions on the page: loaded as whose, with whose token, or None
  pageFetch,        \* whether the fetch of the page's latest effect is under way
  submit,           \* the submission under way
  reported          \* users told that their account is deleted

homeVars == <<uid, identityGeneration, dataVerified, goal, watch>>
pageVars == <<loaded, pageFetch, submit>>
accountVars == <<accounts, documents, homeVars, requests, pageVars, reported>>

Generations == 1..MaxGenerations
Requests == Generations \cup {WatchToggle} \cup Devices
Idle == [call |-> "none", uid |-> None, phase |-> "none", answer |-> None, document |-> None,
         previous |-> None]
Sent(call, user) == [Idle EXCEPT !.call = call, !.uid = user, !.phase = "sent"]
Answer(c, answer) == [requests EXCEPT ![c].phase = "answered", ![c].answer = answer]
Ended(c) == [requests EXCEPT ![c] = Idle]

Empty == [goal |-> FALSE, watched |-> FALSE]

(***************************************************************************)
(* The server.                                                             *)
(***************************************************************************)
\* verifyWithRevocationCheck: a token outlives its account, and may be void for other reasons;
\* a version that takes every void token for one of a deleted account.
RevocationCheckLax(user) ==
  {"user-not-found"} \cup (IF accounts[user] = "active" THEN {"ok"} ELSE {})
RevocationCheck(user) ==
  {"invalid"} \cup (CASE accounts[user] = "active" -> {"ok"}
                      [] accounts[user] = "deleted" -> {"user-not-found"}
                      [] OTHER -> {})

Serving(c) == requests[c].call \in {"user-data", "seed", "heal", "watch", "unwatch"}

\* requireUid: the check lets the route go on, or the caller is refused.
Admitted(c) ==
  /\ Serving(c) /\ requests[c].phase = "sent"
  /\ "ok" \in RevocationCheck(requests[c].uid)
  /\ requests' = [requests EXCEPT ![c].phase = "admitted"]
  /\ UNCHANGED <<accounts, documents, homeVars, pageVars, reported>>

\* Refused, failed, or answered while the answer is lost.
Failed(c) ==
  /\ Serving(c) /\ requests[c].phase # "none" /\ requests[c].answer # "error"
  /\ requests' = Answer(c, "error")
  /\ UNCHANGED <<accounts, documents, homeVars, pageVars, reported>>

DocumentRead(c) ==
  /\ requests[c].call = "user-data" /\ requests[c].phase = "admitted"
  /\ requests' = [Answer(c, IF documents[requests[c].uid] = None THEN "not-found" ELSE "found")
                EXCEPT ![c].document = documents[requests[c].uid]]
  /\ UNCHANGED <<accounts, documents, homeVars, pageVars, reported>>

\* The document after a write that creates it when there is none.
Merged(user) == IF documents[user] = None THEN Empty ELSE documents[user]
Written(c, document) ==
  /\ requests[c].phase = "admitted"
  /\ documents' = [documents EXCEPT ![requests[c].uid] = document]
  /\ requests' = Answer(c, "success")
  /\ UNCHANGED <<accounts, homeVars, pageVars, reported>>

GoalPut(c) ==
  requests[c].call \in {"seed", "heal"} /\ Written(c, [Merged(requests[c].uid) EXCEPT !.goal = TRUE])

WatchPosted(c) ==
  requests[c].call = "watch" /\ Written(c, [Merged(requests[c].uid) EXCEPT !.watched = TRUE])

\* Nothing to unwatch in a document that does not exist.
WatchDeleted(c) ==
  /\ requests[c].call = "unwatch"
  /\ Written(c, IF documents[requests[c].uid] = None THEN None
                ELSE [documents[requests[c].uid] EXCEPT !.watched = FALSE])

\* checkUidForDeletion: an account that no longer exists is not one with a void token.
DeletionChecked(d) ==
  /\ requests[d].call = "delete" /\ requests[d].phase = "sent"
  /\ \E check \in RevocationCheck(requests[d].uid) :
       requests' = CASE check = "ok" -> [requests EXCEPT ![d].phase = "active"]
                  [] check = "invalid" -> Answer(d, "error")
                  [] OTHER -> [requests EXCEPT ![d].phase = "already-deleted"]
  /\ UNCHANGED <<accounts, documents, homeVars, pageVars, reported>>

\* The second check of a token whose account is gone finds that it has expired meanwhile.
DeletionRefused(d) ==
  /\ requests[d].call = "delete" /\ requests[d].phase = "already-deleted"
  /\ requests' = Answer(d, "error")
  /\ UNCHANGED <<accounts, documents, homeVars, pageVars, reported>>

\* performAccountDeletion, the document first.
DeletionOfDocument(d) ==
  /\ requests[d].call = "delete" /\ requests[d].phase \in {"active", "already-deleted"}
  /\ documents' = [documents EXCEPT ![requests[d].uid] = None]
  /\ requests' = IF requests[d].phase = "active" THEN [requests EXCEPT ![d].phase = "auth"]
              ELSE Answer(d, "success")
  /\ UNCHANGED <<accounts, homeVars, pageVars, reported>>

\* Then the Auth record; one that is gone is as good as deleted.
DeletionOfAuth(d) ==
  /\ requests[d].call = "delete" /\ requests[d].phase = "auth"
  /\ accounts' = [accounts EXCEPT ![requests[d].uid] = "deleted"]
  /\ requests' = Answer(d, "success")
  /\ UNCHANGED <<documents, homeVars, pageVars, reported>>

\* A step fails before it has done anything, or the answer is lost.
DeletionFails(d) ==
  /\ requests[d].call = "delete" /\ requests[d].phase \in {"sent", "active", "auth", "answered"}
  /\ requests[d].answer # "error"
  /\ requests' = Answer(d, "error")
  /\ UNCHANGED <<accounts, documents, homeVars, pageVars, reported>>

Disable(user) ==
  /\ accounts[user] = "active"
  /\ accounts' = [accounts EXCEPT ![user] = "disabled"]
  /\ UNCHANGED <<documents, homeVars, requests, pageVars, reported>>

(***************************************************************************)
(* The user changes: the store, the page and the effects of both pages.    *)
(***************************************************************************)
\* setUser, and syncDataFromServer up to its first answer.
UserChanges(user) ==
  /\ user # uid /\ (user # None => accounts[user] = "active")
  /\ identityGeneration < MaxGenerations
  /\ uid' = user /\ identityGeneration' = identityGeneration + 1
  /\ goal' = None /\ watch' = None
  /\ dataVerified' = (user = None)
  /\ requests' = IF user = None THEN requests
              ELSE [requests EXCEPT ![identityGeneration + 1] = Sent("user-data", user)]
  /\ pageFetch' = (user # None)
  /\ UNCHANGED <<accounts, documents, loaded, submit, reported>>

Fresh(g) == uid = requests[g].uid

\* syncDataFromServer goes on with the document, or asks for the first goal to be written.
DataArrives(g) ==
  /\ requests[g].call = "user-data" /\ requests[g].phase = "answered"
  /\ LET answer == requests[g].answer document == requests[g].document
     IN \/ /\ ~Fresh(g) \/ answer = "error"
           /\ requests' = Ended(g)
           /\ UNCHANGED <<goal, watch, dataVerified>>
        \/ /\ Fresh(g) /\ answer = "not-found"
           /\ requests' = [requests EXCEPT ![g] = Sent("seed", uid)]
           /\ UNCHANGED <<goal, watch, dataVerified>>
        \/ /\ Fresh(g) /\ answer = "found"
           /\ goal' = (IF document.goal THEN requests[g].uid ELSE None)
           /\ watch' = (IF document.watched THEN requests[g].uid ELSE None)
           /\ dataVerified' = TRUE
           /\ requests' = IF document.goal THEN Ended(g) ELSE [requests EXCEPT ![g] = Sent("heal", uid)]
  /\ UNCHANGED <<accounts, documents, uid, identityGeneration, pageVars, reported>>

\* The first goal is stored or not: the page of a new user opens either way.
GoalStored(g) ==
  /\ requests[g].call \in {"seed", "heal"} /\ requests[g].phase = "answered"
  /\ requests' = Ended(g)
  /\ LET persisted == IF requests[g].answer = "success" THEN requests[g].uid ELSE None
     IN \/ ~Fresh(g) /\ UNCHANGED <<goal, watch, dataVerified>>
        \/ /\ Fresh(g) /\ requests[g].call = "seed"
           /\ goal' = persisted /\ watch' = None /\ dataVerified' = TRUE
        \/ /\ Fresh(g) /\ requests[g].call = "heal"
           /\ goal' = (IF persisted # None THEN persisted ELSE goal)
           /\ UNCHANGED <<watch, dataVerified>>
  /\ UNCHANGED <<accounts, documents, uid, identityGeneration, pageVars, reported>>

(***************************************************************************)
(* What the user does.                                                     *)
(***************************************************************************)
\* toggleWatchedProp: applied at once.
Toggle ==
  /\ uid # None /\ dataVerified /\ requests[WatchToggle].call = "none"
  /\ watch' = (IF watch = None THEN uid ELSE None)
  /\ requests' = [requests EXCEPT ![WatchToggle] =
       [Sent(IF watch = None THEN "watch" ELSE "unwatch", uid) EXCEPT !.previous = watch]]
  /\ UNCHANGED <<accounts, documents, uid, identityGeneration, dataVerified, goal, pageVars, reported>>

\* Taken back when it failed, unless the page is another user's by now.
ToggleEnds ==
  /\ requests[WatchToggle].call \in {"watch", "unwatch"} /\ requests[WatchToggle].phase = "answered"
  /\ watch' = (IF requests[WatchToggle].answer = "error" /\ Fresh(WatchToggle)
                 THEN requests[WatchToggle].previous ELSE watch)
  /\ requests' = Ended(WatchToggle)
  /\ UNCHANGED <<accounts, documents, uid, identityGeneration, dataVerified, goal, pageVars, reported>>

\* handleDeleteAccount, on any device the user is signed in on.
DeleteAccount(d, user) ==
  /\ requests[d].call = "none"
  /\ requests' = [requests EXCEPT ![d] = Sent("delete", user)]
  /\ UNCHANGED <<accounts, documents, homeVars, pageVars, reported>>

DeletionEnds(d) ==
  /\ requests[d].call = "delete" /\ requests[d].phase = "answered"
  /\ requests' = Ended(d)
  /\ reported' = IF requests[d].answer = "success" THEN reported \cup {requests[d].uid} ELSE reported
  /\ UNCHANGED <<accounts, documents, homeVars, pageVars>>

(***************************************************************************)
(* The page of submissions.                                                *)
(***************************************************************************)
\* applyFetchResult, with what the page's latest effect fetched for its user.
ListArrives ==
  /\ pageFetch /\ pageFetch' = FALSE
  /\ loaded' = [uid |-> uid, by |-> uid]
  /\ UNCHANGED <<accounts, documents, homeVars, requests, submit, reported>>

Submit ==
  /\ uid # None /\ submit.phase = "idle"
  /\ submit' = [phase |-> "posting", uid |-> uid, generation |-> identityGeneration, by |-> None]
  /\ UNCHANGED <<accounts, documents, homeVars, requests, loaded, pageFetch, reported>>

\* The submission failed, or the list is fetched again, as whoever is signed in now.
SubmitAnswered(ok) ==
  /\ submit.phase = "posting"
  /\ submit' = IF ok THEN [submit EXCEPT !.phase = "refreshing", !.by = uid]
               ELSE [submit EXCEPT !.phase = "idle"]
  /\ UNCHANGED <<accounts, documents, homeVars, requests, loaded, pageFetch, reported>>

\* The refreshed list counts while the user has never changed since;
\* a version that only compares the users at both ends.
SameUid == submit.uid = uid
SameIdentity == submit.generation = identityGeneration

Refreshed ==
  /\ submit.phase = "refreshing"
  /\ submit' = [submit EXCEPT !.phase = "idle"]
  /\ loaded' = IF SameIdentity /\ uid # None THEN [uid |-> uid, by |-> submit.by] ELSE loaded
  /\ UNCHANGED <<accounts, documents, homeVars, requests, pageFetch, reported>>

AInit ==
  /\ accounts = [u \in Uids |-> "active"]
  /\ documents \in [Uids -> {None, [goal |-> FALSE, watched |-> TRUE]}]
  /\ uid = None /\ identityGeneration = 0 /\ dataVerified = FALSE
  /\ goal = None /\ watch = None
  /\ requests = [c \in Requests |-> Idle]
  /\ loaded = None /\ pageFetch = FALSE
  /\ submit = [phase |-> "idle", uid |-> None, generation |-> 0, by |-> None]
  /\ reported = {}

ServerNext == \E c \in Generations \cup {WatchToggle} :
  \/ Admitted(c) \/ Failed(c) \/ DocumentRead(c) \/ GoalPut(c) \/ WatchPosted(c) \/ WatchDeleted(c)

HomeNext ==
  \/ \E user \in Uids \cup {None} : UserChanges(user)
  \/ \E g \in Generations : DataArrives(g) \/ GoalStored(g)
  \/ Toggle \/ ToggleEnds

DeletionNext ==
  \/ \E user \in Uids : Disable(user)
  \/ \E d \in Devices :
       \/ \E user \in Uids : DeleteAccount(d, user)
       \/ DeletionChecked(d) \/ DeletionRefused(d) \/ DeletionOfDocument(d) \/ DeletionOfAuth(d)
       \/ DeletionFails(d) \/ DeletionEnds(d)

SubmissionsNext ==
  \/ \E user \in Uids \cup {None} : UserChanges(user)
  \/ ListArrives \/ Submit \/ Refreshed
  \/ \E ok \in BOOLEAN : SubmitAnswered(ok)

ANext == ServerNext \/ HomeNext \/ DeletionNext \/ SubmissionsNext

\* What a page shows as verified is the signed-in user's own, also when users change and change
\* back while loads, toggles and refreshes are under way (useInitAuth.ts, authSlice.ts).
DataIsOwn ==
  /\ dataVerified => goal \in {None, uid} /\ watch \in {None, uid}
  /\ loaded # None /\ loaded.uid = uid => loaded.by = uid

\* Who is told that the account is deleted has no account any more, through lost answers,
\* retries, disabled accounts and a second device (accountDeletion.ts, apiAuth.ts).
SuccessMeansDeleted == \A user \in reported : accounts[user] = "deleted"
=============================================================================
