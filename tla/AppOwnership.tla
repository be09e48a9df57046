----------------------------- MODULE AppOwnership -----------------------------
(* App.owner_id and the AppCollaborator rows of some apps, and the requests *)
(* that change them: app_ownership_service.py (offer, accept, decline,      *)
(* cancel, transfer_direct) and app_collaboration_service.py (invite,       *)
(* respond, change role, remove, leave), in any number of backend           *)
(* processes on one PostgreSQL database at READ COMMITTED.                  *)
(*                                                                          *)
(* A request runs as a sequence of steps, each a statement that may wait    *)
(* for a row lock or that reads what other requests have committed.  What   *)
(* it stages reaches the database when it commits.  A request that waits    *)
(* for its first lock has no effect yet and is not represented.             *)
EXTENDS Naturals, FiniteSets

CONSTANTS Apps, Users, Rows, Requests,
          Limit,      \* apps that the tier of a user allows (SaaS deployment)
          None        \* no app, user, row or request

(* Viewers and editors are one role here: no code of this module tells them *)
(* apart.  OWNER is the role of an ownership offer, never of the owner.     *)
Roles == {"owner", "administrator", "editor"}
Statuses == {"pending", "accepted", "declined"}
Collaboration == [app : Apps, user : Users, role : Roles, status : Statuses]

ASSUME NoneAssumption == /\ None \notin Apps \cup Users \cup Rows \cup Requests
                         /\ None \notin Collaboration
ASSUME LimitAssumption == Limit \in Nat
ASSUME FiniteAssumption == IsFiniteSet(Rows) /\ IsFiniteSet(Requests)

VARIABLES
  owner,      \* App.owner_id
  collab,     \* the AppCollaborator table, None where there is no row
  appLock,    \* who holds the App row locked (FOR UPDATE or a write)
  rowLock,    \* who holds the AppCollaborator row locked
  req         \* what each request is doing

vars == <<owner, collab, appLock, rowLock, req>>

Job == [pc : {"idle", "offer", "offers", "cancel", "accept", "respond", "reassign",
              "invite", "reinvite", "answer", "role", "remove"},
        how : {"direct", "legacy", "admin"},   \* which path reassigns the owner
        app : Apps \cup {None}, user : Users \cup {None}, prev : Users \cup {None},
        row : Rows \cup {None},                \* the row the request names
        mine : Rows \cup {None},               \* the new owner's row, to delete
        theirs : Rows \cup {None},             \* the old owner's row, to demote
        todo : SUBSET Rows]                    \* rows still to be locked

Idle == [pc |-> "idle", how |-> "admin", app |-> None, user |-> None, prev |-> None,
         row |-> None, mine |-> None, theirs |-> None, todo |-> {}]

Init ==
  /\ owner \in [Apps -> Users]
  /\ collab = [k \in Rows |-> None]
  /\ appLock = [a \in Apps |-> None]
  /\ rowLock = [k \in Rows |-> None]
  /\ req = [r \in Requests |-> Idle]
-----------------------------------------------------------------------------
RowsOf(a, u) == {k \in Rows : collab[k] # None /\ collab[k].app = a /\ collab[k].user = u}

(* .first() of a query without an order: any of the rows, None without one. *)
FirstOf(a, u) == IF RowsOf(a, u) = {} THEN {None} ELSE RowsOf(a, u)

Is(k, role, status) == collab[k] # None /\ collab[k].role = role /\ collab[k].status = status

Offers(a) == {k \in Rows : Is(k, "owner", "pending") /\ collab[k].app = a}

Administers(a, u) == \E k \in RowsOf(a, u) : Is(k, "administrator", "accepted")

AtLimit(u) == Cardinality({a \in Apps : owner[a] = u}) >= Limit

Held(r) == {k \in Rows : rowLock[k] = r}

(* Where a request is that may still add a row.                             *)
Adding == {"offer", "offers", "accept", "respond", "reassign", "invite"}

(* Keys are never reused: a row may take the place of a deleted one only    *)
(* when no request remembers that one.                                      *)
Unused == {k \in Rows : /\ collab[k] = None
                        /\ \A r \in Requests :
                             k \notin {req[r].row, req[r].mine, req[r].theirs} \cup req[r].todo}

(* The bound: each request in flight finds a place for the row it may add.  *)
Room == Cardinality(Unused) > Cardinality({r \in Requests : req[r].pc \in Adding})

Start(r, job) == req[r] = Idle /\ req' = [req EXCEPT ![r] = job]

(* Variant: the end of the session leaves the row locks behind. *)
Finish_KeepsRows(r) ==
  /\ appLock' = [a \in Apps |-> IF appLock[a] = r THEN None ELSE appLock[a]]
  /\ UNCHANGED rowLock
  /\ req' = [req EXCEPT ![r] = Idle]

(* The commit or the rollback of the session of r releases what it locked.  *)
Finish(r) ==
  /\ appLock' = [a \in Apps |-> IF appLock[a] = r THEN None ELSE appLock[a]]
  /\ rowLock' = [k \in Rows |-> IF rowLock[k] = r THEN None ELSE rowLock[k]]
  /\ req' = [req EXCEPT ![r] = Idle]

Insert(k, a, u, role, status) ==
  [collab EXCEPT ![k] = [app |-> a, user |-> u, role |-> role, status |-> status]]
-----------------------------------------------------------------------------
(* Variant: offer reads the app without locking it. *)
OfferBegin_Unlocked(r, a, u) ==
  /\ Room
  /\ owner[a] # u
  /\ Start(r, [Idle EXCEPT !.pc = "offer", !.app = a, !.user = u])
  /\ UNCHANGED <<owner, collab, appLock, rowLock>>

(* Offer: lock the app, lock its pending offers, keep the one for the       *)
(* recipient and delete the others.                                         *)
OfferBegin(r, a, u) ==
  /\ Room
  /\ appLock[a] = None
  /\ owner[a] # u
  /\ Start(r, [Idle EXCEPT !.pc = "offer", !.app = a, !.user = u])
  /\ appLock' = [appLock EXCEPT ![a] = r]
  /\ UNCHANGED <<owner, collab, rowLock>>

OfferSelect(r) ==
  /\ req[r].pc = "offer"
  /\ req' = [req EXCEPT ![r].pc = "offers", ![r].todo = Offers(req[r].app)]
  /\ UNCHANGED <<owner, collab, appLock, rowLock>>

CancelSelect(r, a) ==
  /\ Offers(a) # {}
  /\ Start(r, [Idle EXCEPT !.pc = "cancel", !.app = a, !.todo = Offers(a)])
  /\ UNCHANGED <<owner, collab, appLock, rowLock>>

(* SELECT ... FOR UPDATE looks at each row again once it has its lock.      *)
LockOffer(r, k) ==
  /\ req[r].pc \in {"offers", "cancel"}
  /\ k \in req[r].todo
  /\ rowLock[k] = None
  /\ req' = [req EXCEPT ![r].todo = @ \ {k}]
  /\ rowLock' = IF k \in Offers(req[r].app) THEN [rowLock EXCEPT ![k] = r] ELSE rowLock
  /\ UNCHANGED <<owner, collab, appLock>>

OfferRefresh(r) ==
  /\ req[r].pc = "offers" /\ req[r].todo = {}
  /\ \E same \in Held(r) :
       /\ collab[same].user = req[r].user
       /\ collab' = [k \in Rows |-> IF k \in Held(r) /\ collab[k].user # req[r].user
                                    THEN None ELSE collab[k]]
  /\ Finish(r)
  /\ UNCHANGED owner

OfferCreate(r) ==
  /\ req[r].pc = "offers" /\ req[r].todo = {}
  /\ \A k \in Held(r) : collab[k].user # req[r].user
  /\ \E new \in Unused :
       collab' = [k \in Rows |->
                    IF k = new THEN [app |-> req[r].app, user |-> req[r].user,
                                     role |-> "owner", status |-> "pending"]
                    ELSE IF k \in Held(r) THEN None ELSE collab[k]]
  /\ Finish(r)
  /\ UNCHANGED owner

(* With no row left the request answers 404 and changes nothing.            *)
CancelCommit(r) ==
  /\ req[r].pc = "cancel" /\ req[r].todo = {}
  /\ collab' = [k \in Rows |-> IF k \in Held(r) THEN None ELSE collab[k]]
  /\ Finish(r)
  /\ UNCHANGED owner
-----------------------------------------------------------------------------
(* Variant: accept reads the offer without locking it. *)
AcceptLock_PlainRead(r, k) ==
  /\ Room
  /\ Is(k, "owner", "pending")
  /\ Start(r, [Idle EXCEPT !.pc = "accept", !.how = "direct", !.row = k,
                           !.app = collab[k].app, !.user = collab[k].user])
  /\ UNCHANGED <<owner, collab, appLock, rowLock>>

(* Accept: lock the offer, then the app, then reassign the owner.           *)
AcceptLock(r, k) ==
  /\ Room
  /\ rowLock[k] = None
  /\ Is(k, "owner", "pending")
  /\ Start(r, [Idle EXCEPT !.pc = "accept", !.how = "direct", !.row = k,
                           !.app = collab[k].app, !.user = collab[k].user])
  /\ rowLock' = [rowLock EXCEPT ![k] = r]
  /\ UNCHANGED <<owner, collab, appLock>>

DeclineOffer(k) ==
  /\ rowLock[k] = None
  /\ Is(k, "owner", "pending")
  /\ collab' = [collab EXCEPT ![k].status = "declined"]
  /\ UNCHANGED <<owner, appLock, rowLock, req>>

(* The invitation endpoint reads the row without a lock and works on what   *)
(* it read: the later SELECT ... FOR UPDATE does not refresh the object.    *)
RespondRead(r, k) ==
  /\ Room
  /\ collab[k] # None
  /\ collab[k].status = "pending"
  /\ Start(r, [Idle EXCEPT !.pc = IF collab[k].role = "owner" THEN "respond" ELSE "answer",
                           !.how = "legacy", !.row = k,
                           !.app = collab[k].app, !.user = collab[k].user])
  /\ UNCHANGED <<owner, collab, appLock, rowLock>>

RespondAccept(r) ==
  /\ req[r].pc = "respond"
  /\ rowLock[req[r].row] = None
  /\ collab[req[r].row] # None
  /\ rowLock' = [rowLock EXCEPT ![req[r].row] = r]
  /\ req' = [req EXCEPT ![r].pc = "accept"]
  /\ UNCHANGED <<owner, collab, appLock>>

(* Variant: a refused acceptance keeps its transaction open. *)
AcceptRefused_NoRollback(r) ==
  /\ req[r].pc = "accept"
  /\ appLock[req[r].app] = None
  /\ owner[req[r].app] = req[r].user \/ AtLimit(req[r].user)
  /\ req' = [req EXCEPT ![r] = Idle]
  /\ UNCHANGED <<owner, collab, appLock, rowLock>>

(* The app is not the recipient's already and the tier allows one more, or  *)
(* the transaction is rolled back.  The reads of _reassign_owner and of the *)
(* former owner's row are one step.                                         *)
AcceptRefused(r) ==
  /\ req[r].pc = "accept"
  /\ appLock[req[r].app] = None
  /\ owner[req[r].app] = req[r].user \/ AtLimit(req[r].user)
  /\ Finish(r)
  /\ UNCHANGED <<owner, collab>>

(* Variant: accept reads the app without locking it. *)
AcceptReassign_PlainRead(r) ==
  LET a == req[r].app
      u == req[r].user IN
  /\ req[r].pc = "accept"
  /\ owner[a] # u /\ ~AtLimit(u)
  /\ \E mine \in FirstOf(a, u), theirs \in FirstOf(a, owner[a]) :
       req' = [req EXCEPT ![r].pc = "reassign", ![r].prev = owner[a],
                          ![r].mine = mine, ![r].theirs = theirs,
                          ![r].todo = {mine, theirs} \ (Held(r) \cup {None})]
  /\ UNCHANGED <<owner, collab, appLock, rowLock>>

AcceptReassign(r) ==
  LET a == req[r].app
      u == req[r].user IN
  /\ req[r].pc = "accept"
  /\ appLock[a] = None
  /\ owner[a] # u /\ ~AtLimit(u)
  /\ \E mine \in FirstOf(a, u), theirs \in FirstOf(a, owner[a]) :
       req' = [req EXCEPT ![r].pc = "reassign", ![r].prev = owner[a],
                          ![r].mine = mine, ![r].theirs = theirs,
                          ![r].todo = {mine, theirs} \ (Held(r) \cup {None})]
  /\ appLock' = [appLock EXCEPT ![a] = r]
  /\ UNCHANGED <<owner, collab, rowLock>>

TransferBegin(r, a, u) ==
  /\ appLock[a] = None
  /\ owner[a] # u /\ ~AtLimit(u)
  /\ \E mine \in FirstOf(a, u) :
       Start(r, [Idle EXCEPT !.pc = "reassign", !.how = "admin", !.app = a, !.user = u,
                             !.mine = mine, !.todo = {mine} \ {None}])
  /\ appLock' = [appLock EXCEPT ![a] = r]
  /\ UNCHANGED <<owner, collab, rowLock>>

(* The flush of a staged UPDATE or DELETE waits for the lock of its row; a  *)
(* row that is gone leaves nothing to lock.                                 *)
LockWrite(r, k) ==
  /\ req[r].pc = "reassign"
  /\ k \in req[r].todo
  /\ rowLock[k] = None
  /\ req' = [req EXCEPT ![r].todo = @ \ {k}]
  /\ rowLock' = IF collab[k] # None THEN [rowLock EXCEPT ![k] = r] ELSE rowLock
  /\ UNCHANGED <<owner, collab, appLock>>

TransferCommit(r) ==
  /\ req[r].pc = "reassign" /\ req[r].how = "admin" /\ req[r].todo = {}
  /\ owner' = [owner EXCEPT ![req[r].app] = req[r].user]
  /\ collab' = [k \in Rows |-> IF k = req[r].mine THEN None ELSE collab[k]]
  /\ Finish(r)

AcceptDemote(r) ==
  /\ req[r].pc = "reassign" /\ req[r].how # "admin" /\ req[r].todo = {}
  /\ req[r].theirs # None
  /\ collab[req[r].theirs] # None
  /\ owner' = [owner EXCEPT ![req[r].app] = req[r].user]
  /\ collab' = [k \in Rows |->
                  IF k = req[r].mine THEN None
                  ELSE IF k = req[r].theirs
                       THEN [collab[k] EXCEPT !.role = "administrator", !.status = "accepted"]
                       ELSE collab[k]]
  /\ Finish(r)

AcceptAdd(r) ==
  /\ req[r].pc = "reassign" /\ req[r].how # "admin" /\ req[r].todo = {}
  /\ req[r].theirs = None
  /\ owner' = [owner EXCEPT ![req[r].app] = req[r].user]
  /\ \E new \in Unused :
       collab' = [k \in Rows |->
                    IF k = req[r].mine THEN None
                    ELSE IF k = new
                         THEN [app |-> req[r].app, user |-> req[r].prev,
                               role |-> "administrator", status |-> "accepted"]
                         ELSE collab[k]]
  /\ Finish(r)

(* An UPDATE that matches no row fails the flush: everything is rolled back. *)
AcceptStale(r) ==
  /\ req[r].pc = "reassign" /\ req[r].how # "admin" /\ req[r].todo = {}
  /\ req[r].theirs # None
  /\ collab[req[r].theirs] = None
  /\ Finish(r)
  /\ UNCHANGED <<owner, collab>>
-----------------------------------------------------------------------------
(* Collaboration requests read a row, check it, and write it in a later     *)
(* statement, with no lock in between.                                      *)
InviteRead(r, a, u) ==
  /\ Room
  /\ owner[a] # u
  /\ RowsOf(a, u) = {}
  /\ Start(r, [Idle EXCEPT !.pc = "invite", !.app = a, !.user = u])
  /\ UNCHANGED <<owner, collab, appLock, rowLock>>

InviteWrite(r) ==
  /\ req[r].pc = "invite"
  /\ \E new \in Unused : collab' = Insert(new, req[r].app, req[r].user, "editor", "pending")
  /\ Finish(r)
  /\ UNCHANGED owner

ReinviteRead(r, k) ==
  /\ collab[k] # None
  /\ collab[k].status = "declined"
  /\ owner[collab[k].app] # collab[k].user
  /\ Start(r, [Idle EXCEPT !.pc = "reinvite", !.row = k])
  /\ UNCHANGED <<owner, collab, appLock, rowLock>>

RoleRead(r, k) ==
  /\ collab[k] # None
  /\ collab[k].status = "accepted"
  /\ Start(r, [Idle EXCEPT !.pc = "role", !.row = k])
  /\ UNCHANGED <<owner, collab, appLock, rowLock>>

RemoveRead(r, k) ==
  /\ collab[k] # None
  /\ Start(r, [Idle EXCEPT !.pc = "remove", !.row = k])
  /\ UNCHANGED <<owner, collab, appLock, rowLock>>

LeaveRead(r, k) ==
  /\ collab[k] # None
  /\ collab[k].status = "accepted"
  /\ owner[collab[k].app] # collab[k].user
  /\ Start(r, [Idle EXCEPT !.pc = "remove", !.row = k])
  /\ UNCHANGED <<owner, collab, appLock, rowLock>>

(* What each of them writes, once it has the lock of the row.               *)
RowWrite(r, new) ==
  /\ rowLock[req[r].row] = None
  /\ collab[req[r].row] # None
  /\ collab' = [collab EXCEPT ![req[r].row] = new]
  /\ Finish(r)
  /\ UNCHANGED owner

ReinviteWrite(r) ==
  /\ req[r].pc = "reinvite"
  /\ RowWrite(r, [collab[req[r].row] EXCEPT !.role = "editor", !.status = "pending"])

RoleWrite(r) ==
  /\ req[r].pc = "role"
  /\ \E role \in {"administrator", "editor"} :
       RowWrite(r, [collab[req[r].row] EXCEPT !.role = role])

RemoveWrite(r) ==
  /\ req[r].pc = "remove"
  /\ RowWrite(r, None)

AnswerWrite(r) ==
  /\ req[r].pc = "answer"
  /\ \E status \in {"accepted", "declined"} :
       RowWrite(r, [collab[req[r].row] EXCEPT !.status = status])

RespondDecline(r) ==
  /\ req[r].pc = "respond"
  /\ RowWrite(r, [collab[req[r].row] EXCEPT !.status = "declined"])

(* The row was deleted meanwhile: the request fails and changes nothing.    *)
RowGone(r) ==
  /\ req[r].pc \in {"respond", "reinvite", "answer", "role", "remove"}
  /\ collab[req[r].row] = None
  /\ Finish(r)
  /\ UNCHANGED <<owner, collab>>
-----------------------------------------------------------------------------
(* PostgreSQL aborts a request of a cycle of requests that wait for each    *)
(* other; the session is rolled back and the request answers 500.           *)
Waiting(r, S) ==
  \/ req[r].pc = "accept" /\ appLock[req[r].app] \in S
  \/ /\ req[r].pc \in {"offers", "cancel", "reassign"}
     /\ req[r].todo # {}
     /\ \A k \in req[r].todo : rowLock[k] \in S

Deadlocked(r) == \E S \in SUBSET Requests : r \in S /\ \A x \in S : Waiting(x, S)

Abort(r) ==
  /\ Deadlocked(r)
  /\ Finish(r)
  /\ UNCHANGED <<owner, collab>>

Continue(r) ==
  \/ OfferSelect(r)
  \/ \E k \in Rows : LockOffer(r, k) \/ LockWrite(r, k)
  \/ OfferRefresh(r)
  \/ OfferCreate(r)
  \/ CancelCommit(r)
  \/ RespondAccept(r)
  \/ AcceptRefused(r)
  \/ AcceptReassign(r)
  \/ TransferCommit(r)
  \/ AcceptDemote(r)
  \/ AcceptAdd(r)
  \/ AcceptStale(r)
  \/ InviteWrite(r)
  \/ ReinviteWrite(r)
  \/ RoleWrite(r)
  \/ RemoveWrite(r)
  \/ AnswerWrite(r)
  \/ RespondDecline(r)
  \/ RowGone(r)
  \/ Abort(r)

Arrive(r) ==
  \/ \E a \in Apps, u \in Users : OfferBegin(r, a, u) \/ TransferBegin(r, a, u) \/ InviteRead(r, a, u)
  \/ \E a \in Apps : CancelSelect(r, a)
  \/ \E k \in Rows : \/ AcceptLock(r, k)
                     \/ RespondRead(r, k)
                     \/ ReinviteRead(r, k)
                     \/ RoleRead(r, k)
                     \/ RemoveRead(r, k)
                     \/ LeaveRead(r, k)

Next ==
  \/ \E r \in Requests : Arrive(r) \/ Continue(r)
  \/ \E k \in Rows : DeclineOffer(k)

Spec == Init /\ [][Next]_vars

-----------------------------------------------------------------------------
(* A locked row exists and its holder is at work; only the request that has *)
(* the app locked is about to change its owner or its offers.               *)
TypeOK ==
  /\ owner \in [Apps -> Users]
  /\ collab \in [Rows -> Collaboration \cup {None}]
  /\ appLock \in [Apps -> Requests \cup {None}]
  /\ rowLock \in [Rows -> Requests \cup {None}]
  /\ req \in [Requests -> Job]
  /\ \A k \in Rows : rowLock[k] # None =>
       /\ collab[k] # None
       /\ req[rowLock[k]].pc \in {"offers", "cancel", "accept", "reassign"}
  /\ \A r \in Requests : req[r].pc \in {"offer", "offers", "reassign"} =>
       req[r].app \in Apps /\ appLock[req[r].app] = r

(* An app has at most one pending ownership offer, however offers, answers, *)
(* cancellations and transfers overlap (the promise of offer that accept    *)
(* and cancel never face competing rows).                                   *)
OneOfferPerApp == \A a \in Apps : \A j, k \in Offers(a) : j = k

(* Whoever loses an app because an offer was accepted is an administrator   *)
(* of it afterwards, also when the app was transferred or the rows were     *)
(* changed while the acceptance was on its way.                             *)
DemotedOwnerStays ==
  \A a \in Apps, u \in Users, r \in Requests :
    (/\ req[r].pc = "reassign" /\ req[r].how # "admin" /\ req[r].app = a
     /\ req'[r].pc = "idle" /\ owner[a] = u /\ owner'[a] # u) => Administers(a, u)'
PreviousOwnerKeepsAccess == [][DemotedOwnerStays]_vars

(* An acceptance through the ownership endpoint takes effect only while its *)
(* offer is still pending: a cancelled, superseded, removed or declined     *)
(* offer transfers nothing.                                                 *)
OfferTaken ==
  \A r \in Requests :
    (/\ req[r].pc = "reassign" /\ req[r].how = "direct"
     /\ req'[r].pc = "idle" /\ owner' # owner) =>
       /\ Is(req[r].row, "owner", "pending")
       /\ collab[req[r].row].app = req[r].app
       /\ owner'[req[r].app] = collab[req[r].row].user
AcceptedOfferStands == [][OfferTaken]_vars

(* The guards of what r does next, all but Arrive's: a free row of its      *)
(* list, a place for the row it adds, a cycle that the database breaks.     *)
Inserts(r) == req[r].pc \in Adding /\ ~(req[r].pc = "reassign" /\ req[r].how = "admin")

MayGoOn(r) ==
  \/ req[r].pc = "offer"
  \/ req[r].pc = "accept" /\ appLock[req[r].app] = None
  \/ /\ req[r].pc \in {"offers", "cancel", "reassign"}
     /\ \/ \E k \in req[r].todo : rowLock[k] = None
        \/ req[r].todo = {} /\ (Inserts(r) => Unused # {})
  \/ req[r].pc = "invite" /\ Unused # {}
  \/ /\ req[r].pc \in {"respond", "reinvite", "answer", "role", "remove"}
     /\ rowLock[req[r].row] = None \/ collab[req[r].row] = None
  \/ Deadlocked(r)

(* While requests are in flight one of them can go on, although acceptances *)
(* lock the offer before the app and offers and transfers lock the app      *)
(* first: a refusal gives its locks back and a cycle is broken.             *)
SomeGoOn == (\E r \in Requests : req[r].pc # "idle") => \E r \in Requests : MayGoOn(r)
GuardsTell == \A r \in Requests : MayGoOn(r) <=> ENABLED Continue(r)
NobodyStuck == GuardsTell /\ SomeGoOn

=============================================================================
