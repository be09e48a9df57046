-------------------------- MODULE AppOwnershipProofs --------------------------
(* Theorems about AppOwnership for any apps, users, rows and requests.      *)
EXTENDS AppOwnership, FiniteSetTheorems, TLAPS

USE NoneAssumption

(* What a request in flight knows of its own fields.                        *)
Shape(r) ==
  /\ req[r].pc \in {"offer", "offers", "accept", "respond", "reassign", "invite", "answer"} =>
       req[r].app \in Apps /\ req[r].user \in Users
  /\ req[r].pc = "cancel" => req[r].app \in Apps
  /\ req[r].pc \in {"respond", "reinvite", "answer", "role", "remove"} => req[r].row \in Rows
  /\ req[r].pc = "accept" => req[r].how # "admin"
  /\ req[r].pc = "respond" => req[r].how = "legacy"

(* A row that a reassignment is to write is the one it read, or deleted; it *)
(* is locked once it is off the list.  The former owner is still the owner. *)
Names(r, k, u) ==
  k # None /\ collab[k] # None =>
    /\ collab[k].app = req[r].app /\ collab[k].user = u
    /\ k \notin req[r].todo => rowLock[k] = r

Reassigning(r) ==
  req[r].pc = "reassign" =>
    /\ Names(r, req[r].mine, req[r].user)
    /\ Names(r, req[r].theirs, req[r].prev)
    /\ req[r].how = "admin" => req[r].theirs = None
    /\ req[r].how # "admin" => /\ req[r].prev = owner[req[r].app]
                               /\ req[r].prev \in Users
                               /\ req[r].prev # req[r].user

(* An acceptance through the ownership endpoint has its offer locked.       *)
Accepting(r) ==
  req[r].pc \in {"accept", "reassign"} /\ req[r].how = "direct" =>
    /\ req[r].row \in Rows /\ rowLock[req[r].row] = r
    /\ Is(req[r].row, "owner", "pending")
    /\ collab[req[r].row].app = req[r].app /\ collab[req[r].row].user = req[r].user

(* An offer misses no pending offer of its app.                             *)
Collected(r) == req[r].pc = "offers" => Offers(req[r].app) \subseteq req[r].todo \cup Held(r)

Inv ==
  /\ TypeOK
  /\ OneOfferPerApp
  /\ \A r \in Requests : Shape(r) /\ Reassigning(r) /\ Accepting(r) /\ Collected(r)
-----------------------------------------------------------------------------
LEMMA InitInv == Init => Inv
  <1> SUFFICES ASSUME Init PROVE Inv
    OBVIOUS
  <1>1. TypeOK
    BY DEF Init, TypeOK, Idle, Job
  <1>2. OneOfferPerApp
    BY DEF Init, OneOfferPerApp, Offers, Is
  <1>3. ASSUME NEW r \in Requests
        PROVE  Shape(r) /\ Reassigning(r) /\ Accepting(r) /\ Collected(r)
    BY DEF Init, Idle, Shape, Reassigning, Accepting, Collected
  <1>4. QED
    BY <1>1, <1>2, <1>3 DEF Inv
-----------------------------------------------------------------------------
(* What a step of request x leaves alone.                                   *)
Frame(x) ==
  /\ \A r \in Requests \ {x} : req'[r] = req[r]
  /\ \A r \in Requests \ {x}, k \in Rows : rowLock'[k] = r <=> rowLock[k] = r
  /\ \A r \in Requests \ {x}, a \in Apps : appLock'[a] = r <=> appLock[a] = r
  /\ \A k \in Rows : rowLock[k] \notin {None, x} => collab'[k] = collab[k]
  /\ \A k \in Rows : collab[k] = None /\ collab'[k] # None => k \in Unused
  /\ \A k \in Rows : collab[k] # None /\ collab'[k] # None =>
                       collab'[k].app = collab[k].app /\ collab'[k].user = collab[k].user
  /\ \A a \in Apps : owner'[a] # owner[a] => appLock[a] = x
  /\ \A a \in Apps : \/ Offers(a)' \subseteq Offers(a)
                     \/ x \in Requests /\ req[x].pc = "offers" /\ req[x].app = a

(* Then every other request keeps its part of the invariant.                *)
LEMMA OthersKeep ==
  ASSUME Inv, NEW x \in Requests \cup {None}, Frame(x),
         NEW r \in Requests, r # x
  PROVE  Shape(r)' /\ Reassigning(r)' /\ Accepting(r)' /\ Collected(r)'
  <1>1. /\ TypeOK /\ req'[r] = req[r] /\ req[r] \in Job
        /\ Shape(r) /\ Reassigning(r) /\ Accepting(r) /\ Collected(r)
    BY DEF Inv, TypeOK, Frame
  <1>2. Shape(r)'
    BY <1>1 DEF Shape
  <1>3. \A a \in Apps : appLock[a] = r => owner'[a] = owner[a]
    BY DEF Frame
  <1>4. ASSUME NEW k \in Rows, NEW u, Names(r, k, u),
               k \in {req[r].mine, req[r].theirs}
        PROVE  Names(r, k, u)'
    BY <1>1, <1>4 DEF Names, Frame, Unused
  <1>5. Reassigning(r)'
    <2> SUFFICES ASSUME req[r].pc = "reassign" PROVE Reassigning(r)'
      BY <1>1 DEF Reassigning
    <2>1. Names(r, req[r].mine, req[r].user)' /\ Names(r, req[r].theirs, req[r].prev)'
      <3>1. Names(r, req[r].mine, req[r].user) /\ Names(r, req[r].theirs, req[r].prev)
        BY <1>1 DEF Reassigning
      <3>2. req[r].mine \in Rows \cup {None} /\ req[r].theirs \in Rows \cup {None}
        BY <1>1 DEF Job
      <3>3. req[r].mine \in Rows => Names(r, req[r].mine, req[r].user)'
        BY <3>1, <1>4, <1>1 DEF Names
      <3>4. req[r].theirs \in Rows => Names(r, req[r].theirs, req[r].prev)'
        BY <3>1, <1>4, <1>1 DEF Names
      <3>5. QED
        BY <3>2, <3>3, <3>4, <1>1 DEF Names
    <2>2. owner'[req[r].app] = owner[req[r].app]
      BY <1>1, <1>3 DEF TypeOK, Shape
    <2>3. QED
      BY <1>1, <2>1, <2>2 DEF Reassigning
  <1>6. Accepting(r)'
    BY <1>1 DEF Accepting, Frame, Is
  <1>7. Collected(r)'
    <2> SUFFICES ASSUME req[r].pc = "offers" PROVE Collected(r)'
      BY <1>1 DEF Collected
    <2>1. req[r].app \in Apps /\ appLock[req[r].app] = r
      BY <1>1 DEF TypeOK, Shape
    <2>2. x \in Requests => ~(req[x].pc = "offers" /\ req[x].app = req[r].app)
      BY <1>1, <2>1 DEF TypeOK
    <2>3. Held(r)' = Held(r)
      BY DEF Held, Frame
    <2>4. QED
      BY <1>1, <2>1, <2>2, <2>3 DEF Collected, Frame
  <1>8. QED
    BY <1>2, <1>5, <1>6, <1>7

(* A step that commits or rolls back: what the tables must satisfy.         *)
LEMMA FinishStep ==
  ASSUME Inv, NEW x \in Requests, Finish(x), OneOfferPerApp',
         owner' \in [Apps -> Users], collab' \in [Rows -> Collaboration \cup {None}],
         \A k \in Rows : rowLock[k] \notin {None, x} => collab'[k] = collab[k],
         \A k \in Rows : collab[k] = None /\ collab'[k] # None => k \in Unused,
         \A k \in Rows : collab[k] # None /\ collab'[k] # None =>
                           collab'[k].app = collab[k].app /\ collab'[k].user = collab[k].user,
         \A a \in Apps : owner'[a] # owner[a] => appLock[a] = x,
         \A a \in Apps : \/ Offers(a)' \subseteq Offers(a)
                         \/ req[x].pc = "offers" /\ req[x].app = a
  PROVE  Inv'
  <1>1. TypeOK
    BY DEF Inv
  <1>2. /\ req' \in [Requests -> Job] /\ req'[x] = Idle
        /\ \A r \in Requests \ {x} : req'[r] = req[r]
    BY <1>1 DEF TypeOK, Finish, Idle, Job
  <1>3. /\ appLock' \in [Apps -> Requests \cup {None}]
        /\ \A r \in Requests \ {x}, a \in Apps : appLock'[a] = r <=> appLock[a] = r
        /\ rowLock' \in [Rows -> Requests \cup {None}]
        /\ \A r \in Requests \ {x}, k \in Rows : rowLock'[k] = r <=> rowLock[k] = r
        /\ \A k \in Rows : rowLock'[k] # x
    BY <1>1 DEF TypeOK, Finish
  <1>4. TypeOK'
    <2>1. ASSUME NEW k \in Rows, rowLock'[k] # None
          PROVE  /\ collab'[k] # None
                 /\ req'[rowLock'[k]].pc \in {"offers", "cancel", "accept", "reassign"}
      BY <1>1, <1>2, <1>3, <2>1 DEF TypeOK
    <2>2. ASSUME NEW r \in Requests, req'[r].pc \in {"offer", "offers", "reassign"}
          PROVE  req'[r].app \in Apps /\ appLock'[req'[r].app] = r
      <3>1. r # x
        BY <1>2, <2>2 DEF Idle
      <3>2. QED
        BY <1>1, <1>2, <1>3, <2>2, <3>1 DEF TypeOK
    <2>3. QED
      BY <1>2, <1>3, <2>1, <2>2 DEF TypeOK
  <1>5. Frame(x)
    BY <1>2, <1>3 DEF Frame
  <1>6. Shape(x)' /\ Reassigning(x)' /\ Accepting(x)' /\ Collected(x)'
    BY <1>2 DEF Idle, Shape, Reassigning, Accepting, Collected
  <1>7. QED
    BY <1>4, <1>5, <1>6, OthersKeep DEF Inv

(* A step that only locks or reads on behalf of x.                          *)
LEMMA QuietStep ==
  ASSUME Inv, NEW x \in Requests, owner' = owner, collab' = collab,
         NEW job \in Job, req' = [req EXCEPT ![x] = job],
         appLock' \in [Apps -> Requests \cup {None}],
         rowLock' \in [Rows -> Requests \cup {None}],
         \A a \in Apps : appLock'[a] # appLock[a] => appLock[a] = None /\ appLock'[a] = x,
         \A k \in Rows : rowLock'[k] # rowLock[k] =>
                           rowLock[k] = None /\ rowLock'[k] = x /\ collab[k] # None,
         \A k \in Rows : rowLock'[k] = x => job.pc \in {"offers", "cancel", "accept", "reassign"},
         job.pc \in {"offer", "offers", "reassign"} => job.app \in Apps /\ appLock'[job.app] = x,
         Shape(x)', Reassigning(x)', Accepting(x)', Collected(x)'
  PROVE  Inv'
  <1>1. TypeOK
    BY DEF Inv
  <1>2. /\ req' \in [Requests -> Job] /\ req'[x] = job
        /\ \A r \in Requests \ {x} : req'[r] = req[r]
    BY <1>1 DEF TypeOK
  <1>3. TypeOK'
    <2>1. ASSUME NEW k \in Rows, rowLock'[k] # None
          PROVE  /\ collab'[k] # None
                 /\ req'[rowLock'[k]].pc \in {"offers", "cancel", "accept", "reassign"}
      BY <1>1, <1>2, <2>1 DEF TypeOK
    <2>2. ASSUME NEW r \in Requests, req'[r].pc \in {"offer", "offers", "reassign"}
          PROVE  req'[r].app \in Apps /\ appLock'[req'[r].app] = r
      BY <1>1, <1>2, <2>2 DEF TypeOK
    <2>3. QED
      BY <1>1, <1>2, <2>1, <2>2 DEF TypeOK
  <1>4. Frame(x)
    BY <1>1, <1>2 DEF Frame, Offers, Is
  <1>5. OneOfferPerApp'
    BY DEF Inv, OneOfferPerApp, Offers, Is
  <1>6. QED
    BY <1>3, <1>4, <1>5, OthersKeep DEF Inv

LEMMA FewerOffers ==
  ASSUME OneOfferPerApp, \A a \in Apps : Offers(a)' \subseteq Offers(a)
  PROVE  OneOfferPerApp'
  BY DEF OneOfferPerApp

LEMMA Rollback ==
  ASSUME Inv, NEW x \in Requests, Finish(x), UNCHANGED <<owner, collab>>
  PROVE  Inv'
  <1>1. \A a \in Apps : Offers(a)' = Offers(a)
    BY DEF Offers, Is
  <1>2. OneOfferPerApp'
    BY <1>1, FewerOffers DEF Inv
  <1>3. QED
    BY <1>1, <1>2, FinishStep DEF Inv, TypeOK

(* The write of a collaboration request never makes a pending offer.        *)
LEMMA RowWriteStep ==
  ASSUME Inv, NEW x \in Requests, req[x].row \in Rows, NEW new, RowWrite(x, new),
         new = None \/ (/\ new \in Collaboration
                        /\ new.app = collab[req[x].row].app
                        /\ new.user = collab[req[x].row].user
                        /\ ~(new.role = "owner" /\ new.status = "pending"))
  PROVE  Inv'
  <1>1. /\ TypeOK /\ collab' = [collab EXCEPT ![req[x].row] = new]
        /\ rowLock[req[x].row] = None /\ collab[req[x].row] # None
    BY DEF Inv, RowWrite
  <1>2. \A a \in Apps : Offers(a)' \subseteq Offers(a)
    BY <1>1 DEF Offers, Is, TypeOK
  <1>3. OneOfferPerApp'
    BY <1>2, FewerOffers DEF Inv
  <1>4. collab' \in [Rows -> Collaboration \cup {None}]
    BY <1>1 DEF TypeOK
  <1>5. /\ \A k \in Rows : k # req[x].row => collab'[k] = collab[k]
        /\ collab'[req[x].row] = new
    BY <1>1 DEF TypeOK
  <1>6. Finish(x) /\ owner' = owner /\ owner \in [Apps -> Users]
    BY <1>1 DEF RowWrite, TypeOK
  <1>7. QED
    BY <1>1, <1>2, <1>3, <1>4, <1>5, <1>6, FinishStep

LEMMA CollaborationWrites ==
  ASSUME Inv, NEW x \in Requests,
         ReinviteWrite(x) \/ RoleWrite(x) \/ RemoveWrite(x) \/ AnswerWrite(x) \/ RespondDecline(x)
  PROVE  Inv'
  <1>1. TypeOK /\ Shape(x)
    BY DEF Inv
  <1>2. req[x].row \in Rows /\ collab[req[x].row] \in Collaboration
    BY <1>1 DEF TypeOK, Shape, ReinviteWrite, RoleWrite, RemoveWrite, AnswerWrite,
                RespondDecline, RowWrite
  <1>3. CASE ReinviteWrite(x)
    <2> DEFINE new == [collab[req[x].row] EXCEPT !.role = "editor", !.status = "pending"]
    <2>1. RowWrite(x, new)
      BY <1>3 DEF ReinviteWrite
    <2>2. new \in Collaboration /\ new.role = "editor"
          /\ new.app = collab[req[x].row].app /\ new.user = collab[req[x].row].user
      BY <1>2 DEF Collaboration, Roles, Statuses
    <2>3. QED
      BY <1>2, <2>1, <2>2, RowWriteStep
  <1>4. CASE RoleWrite(x)
    <2>1. PICK role \in {"administrator", "editor"} :
            RowWrite(x, [collab[req[x].row] EXCEPT !.role = role])
      BY <1>4 DEF RoleWrite
    <2> DEFINE new == [collab[req[x].row] EXCEPT !.role = role]
    <2>2. new \in Collaboration /\ new.role # "owner"
          /\ new.app = collab[req[x].row].app /\ new.user = collab[req[x].row].user
      BY <1>2 DEF Collaboration, Roles, Statuses
    <2>3. QED
      BY <1>2, <2>1, <2>2, RowWriteStep
  <1>5. CASE RemoveWrite(x)
    BY <1>2, <1>5, RowWriteStep DEF RemoveWrite
  <1>6. CASE AnswerWrite(x) \/ RespondDecline(x)
    <2>1. PICK status \in {"accepted", "declined"} :
            RowWrite(x, [collab[req[x].row] EXCEPT !.status = status])
      BY <1>6 DEF AnswerWrite, RespondDecline
    <2> DEFINE new == [collab[req[x].row] EXCEPT !.status = status]
    <2>2. new \in Collaboration /\ new.status # "pending"
          /\ new.app = collab[req[x].row].app /\ new.user = collab[req[x].row].user
      BY <1>2 DEF Collaboration, Roles, Statuses
    <2>3. QED
      BY <1>2, <2>1, <2>2, RowWriteStep
  <1>7. QED
    BY <1>3, <1>4, <1>5, <1>6

LEMMA Invited ==
  ASSUME Inv, NEW x \in Requests, InviteWrite(x)
  PROVE  Inv'
  <1>1. TypeOK /\ req[x].app \in Apps /\ req[x].user \in Users
    BY DEF Inv, Shape, InviteWrite
  <1>2. PICK new \in Unused : collab' = Insert(new, req[x].app, req[x].user, "editor", "pending")
    BY DEF InviteWrite
  <1>3. new \in Rows /\ collab[new] = None
    BY DEF Unused
  <1>4. /\ \A k \in Rows : k # new => collab'[k] = collab[k]
        /\ collab'[new] = [app |-> req[x].app, user |-> req[x].user,
                           role |-> "editor", status |-> "pending"]
    BY <1>1, <1>2, <1>3 DEF Insert, TypeOK
  <1>5. \A a \in Apps : Offers(a)' \subseteq Offers(a)
    BY <1>4 DEF Offers, Is
  <1>6. OneOfferPerApp'
    BY <1>5, FewerOffers DEF Inv
  <1>7. collab' \in [Rows -> Collaboration \cup {None}]
    <2>1. collab'[new] \in Collaboration
      BY <1>1, <1>4 DEF Collaboration, Roles, Statuses
    <2>2. QED
      BY <1>1, <1>2, <1>4, <2>1 DEF Insert, TypeOK
  <1>8. Finish(x) /\ owner' = owner /\ owner \in [Apps -> Users]
    BY <1>1 DEF InviteWrite, TypeOK
  <1>9. rowLock[new] = None
    BY <1>1, <1>3 DEF TypeOK
  <1>10. QED
    BY <1>3, <1>4, <1>5, <1>6, <1>7, <1>8, <1>9, FinishStep
-----------------------------------------------------------------------------
(* The commits of offer, cancel, transfer and accept.                       *)
LEMMA OfferRefreshed ==
  ASSUME Inv, NEW x \in Requests, OfferRefresh(x)
  PROVE  Inv'
  <1>1. TypeOK /\ Collected(x) /\ req[x].pc = "offers" /\ req[x].todo = {} /\ req[x].app \in Apps
    BY DEF Inv, Shape, OfferRefresh
  <1>2. collab' = [k \in Rows |-> IF k \in Held(x) /\ collab[k].user # req[x].user
                                  THEN None ELSE collab[k]]
    BY DEF OfferRefresh
  <1>3. \A a \in Apps : Offers(a)' \subseteq Offers(a)
    BY <1>2 DEF Offers, Is
  <1>4. OneOfferPerApp'
    BY <1>3, FewerOffers DEF Inv
  <1>5. collab' \in [Rows -> Collaboration \cup {None}]
    BY <1>1, <1>2 DEF TypeOK
  <1>6. Finish(x) /\ owner' = owner /\ owner \in [Apps -> Users]
    BY <1>1 DEF OfferRefresh, TypeOK
  <1>7. QED
    BY <1>2, <1>3, <1>4, <1>5, <1>6, FinishStep DEF Held

LEMMA OfferCreated ==
  ASSUME Inv, NEW x \in Requests, OfferCreate(x)
  PROVE  Inv'
  <1>1. /\ TypeOK /\ Collected(x) /\ req[x].pc = "offers" /\ req[x].todo = {}
        /\ req[x].app \in Apps /\ req[x].user \in Users
    BY DEF Inv, Shape, OfferCreate
  <1> DEFINE offer == [app |-> req[x].app, user |-> req[x].user,
                       role |-> "owner", status |-> "pending"]
  <1>2. PICK new \in Unused :
          collab' = [k \in Rows |-> IF k = new THEN offer
                                    ELSE IF k \in Held(x) THEN None ELSE collab[k]]
    BY DEF OfferCreate
  <1>3. new \in Rows /\ collab[new] = None /\ rowLock[new] = None
    BY <1>1 DEF Unused, TypeOK
  <1>4. offer \in Collaboration /\ offer # None
    BY <1>1, <1>2, <1>3 DEF Collaboration, Roles, Statuses, Is
  <1>5. collab' \in [Rows -> Collaboration \cup {None}]
    BY <1>1, <1>2, <1>4 DEF TypeOK
  <1>6. \A k \in Rows : k # new => collab'[k] = IF k \in Held(x) THEN None ELSE collab[k]
    BY <1>2
  <1>7. \A a \in Apps \ {req[x].app} : Offers(a)' \subseteq Offers(a)
    BY <1>2, <1>3 DEF Offers, Is
  <1>8. \A a \in Apps : a = req[x].app => Offers(a)' \subseteq {new}
    BY <1>1, <1>6 DEF Collected, Offers, Is
  <1>9. OneOfferPerApp'
    BY <1>7, <1>8 DEF Inv, OneOfferPerApp
  <1>10. Finish(x) /\ owner' = owner /\ owner \in [Apps -> Users]
    BY <1>1 DEF OfferCreate, TypeOK
  <1>11. QED
    BY <1>1, <1>3, <1>5, <1>6, <1>7, <1>9, <1>10, FinishStep DEF Held

LEMMA OfferCancelled ==
  ASSUME Inv, NEW x \in Requests, CancelCommit(x)
  PROVE  Inv'
  <1>1. TypeOK /\ collab' = [k \in Rows |-> IF k \in Held(x) THEN None ELSE collab[k]]
    BY DEF Inv, CancelCommit
  <1>2. \A a \in Apps : Offers(a)' \subseteq Offers(a)
    BY <1>1 DEF Offers, Is
  <1>3. OneOfferPerApp'
    BY <1>2, FewerOffers DEF Inv
  <1>4. collab' \in [Rows -> Collaboration \cup {None}]
    BY <1>1 DEF TypeOK
  <1>5. Finish(x) /\ owner' = owner /\ owner \in [Apps -> Users]
    BY <1>1 DEF CancelCommit, TypeOK
  <1>6. QED
    BY <1>1, <1>2, <1>3, <1>4, <1>5, FinishStep DEF Held

(* A row that the reassignment deletes is locked by it or already gone.     *)
LEMMA Transferred ==
  ASSUME Inv, NEW x \in Requests, TransferCommit(x)
  PROVE  Inv'
  <1>1. /\ TypeOK /\ Reassigning(x) /\ req[x].pc = "reassign" /\ req[x].todo = {}
        /\ req[x].user \in Users /\ req[x].app \in Apps /\ appLock[req[x].app] = x
    BY DEF Inv, Shape, TransferCommit, TypeOK
  <1>2. /\ collab' = [k \in Rows |-> IF k = req[x].mine THEN None ELSE collab[k]]
        /\ owner' = [owner EXCEPT ![req[x].app] = req[x].user]
    BY DEF TransferCommit
  <1>3. \A k \in Rows : rowLock[k] \notin {None, x} => collab'[k] = collab[k]
    BY <1>1, <1>2 DEF Reassigning, Names
  <1>4. \A a \in Apps : Offers(a)' \subseteq Offers(a)
    BY <1>2 DEF Offers, Is
  <1>5. OneOfferPerApp'
    BY <1>4, FewerOffers DEF Inv
  <1>6. /\ collab' \in [Rows -> Collaboration \cup {None}] /\ owner' \in [Apps -> Users]
        /\ \A a \in Apps : owner'[a] # owner[a] => appLock[a] = x
    BY <1>1, <1>2 DEF TypeOK
  <1>7. Finish(x)
    BY DEF TransferCommit
  <1>8. QED
    BY <1>2, <1>3, <1>4, <1>5, <1>6, <1>7, FinishStep

LEMMA Demoted ==
  ASSUME Inv, NEW x \in Requests, AcceptDemote(x)
  PROVE  /\ Inv'
         /\ \A a \in Apps, u \in Users :
              a = req[x].app /\ u = owner[a] => Administers(a, u)'
  <1>1. /\ TypeOK /\ Reassigning(x) /\ req[x].pc = "reassign" /\ req[x].how # "admin"
        /\ req[x].todo = {} /\ req[x].user \in Users
        /\ req[x].app \in Apps /\ appLock[req[x].app] = x
    BY DEF Inv, Shape, AcceptDemote, TypeOK
  <1> DEFINE mine == req[x].mine
             theirs == req[x].theirs
             demoted == [collab[theirs] EXCEPT !.role = "administrator", !.status = "accepted"]
  <1>2. /\ collab' = [k \in Rows |-> IF k = mine THEN None
                                     ELSE IF k = theirs
                                          THEN [collab[k] EXCEPT !.role = "administrator",
                                                                 !.status = "accepted"]
                                          ELSE collab[k]]
        /\ owner' = [owner EXCEPT ![req[x].app] = req[x].user]
        /\ theirs # None /\ collab[theirs] # None
    BY DEF AcceptDemote
  <1>3. /\ theirs \in Rows /\ collab[theirs] \in Collaboration /\ rowLock[theirs] = x
        /\ collab[theirs].app = req[x].app /\ collab[theirs].user = req[x].prev
        /\ req[x].prev # req[x].user /\ req[x].prev = owner[req[x].app]
    <2>1. theirs \in Rows
      BY <1>1, <1>2 DEF TypeOK, Job
    <2>2. collab[theirs] \in Collaboration
      BY <1>1, <1>2, <2>1 DEF TypeOK
    <2>3. QED
      BY <1>1, <1>2, <2>1, <2>2 DEF Reassigning, Names
  <1>4. theirs # mine
    BY <1>1, <1>2, <1>3 DEF Reassigning, Names
  <1>5. /\ demoted \in Collaboration
        /\ demoted.app = collab[theirs].app /\ demoted.user = collab[theirs].user
        /\ demoted.role = "administrator" /\ demoted.status = "accepted"
    BY <1>3 DEF Collaboration, Roles, Statuses
  <1>6. /\ collab'[theirs] = demoted
        /\ mine \in Rows => collab'[mine] = None
        /\ \A k \in Rows \ {mine, theirs} : collab'[k] = collab[k]
    BY <1>2, <1>3, <1>4
  <1>7. \A k \in Rows : rowLock[k] \notin {None, x} => collab'[k] = collab[k]
    BY <1>1, <1>2, <1>3, <1>6 DEF Reassigning, Names
  <1>8. \A a \in Apps : Offers(a)' \subseteq Offers(a)
    BY <1>5, <1>6 DEF Offers, Is
  <1>9. OneOfferPerApp'
    BY <1>8, FewerOffers DEF Inv
  <1>10. /\ collab' \in [Rows -> Collaboration \cup {None}] /\ owner' \in [Apps -> Users]
         /\ \A a \in Apps : owner'[a] # owner[a] => appLock[a] = x
    <2>1. \A k \in Rows : collab'[k] \in Collaboration \cup {None}
      BY <1>1, <1>5, <1>6 DEF TypeOK
    <2>2. QED
      BY <1>1, <1>2, <2>1 DEF TypeOK
  <1>11. Finish(x)
    BY DEF AcceptDemote
  <1>12. Inv'
    BY <1>2, <1>3, <1>5, <1>6, <1>7, <1>8, <1>9, <1>10, <1>11, FinishStep
  <1>13. ASSUME NEW a \in Apps, NEW u \in Users, a = req[x].app, u = owner[a]
         PROVE  Administers(a, u)'
    <2>1. PICK k \in Rows : k = theirs
      BY <1>3
    <2>2. /\ collab'[k] # None /\ collab'[k].app = a /\ collab'[k].user = u
          /\ collab'[k].role = "administrator" /\ collab'[k].status = "accepted"
      BY <1>3, <1>5, <1>6, <1>13, <2>1
    <2>3. QED
      BY <2>2 DEF Administers, RowsOf, Is
  <1>14. QED
    BY <1>12, <1>13

LEMMA Added ==
  ASSUME Inv, NEW x \in Requests, AcceptAdd(x)
  PROVE  /\ Inv'
         /\ \A a \in Apps, u \in Users :
              a = req[x].app /\ u = owner[a] => Administers(a, u)'
  <1>1. /\ TypeOK /\ Reassigning(x) /\ req[x].pc = "reassign" /\ req[x].how # "admin"
        /\ req[x].todo = {} /\ req[x].user \in Users
        /\ req[x].app \in Apps /\ appLock[req[x].app] = x
    BY DEF Inv, Shape, AcceptAdd, TypeOK
  <1> DEFINE mine == req[x].mine
             added == [app |-> req[x].app, user |-> req[x].prev,
                       role |-> "administrator", status |-> "accepted"]
  <1>2. PICK new \in Unused :
          collab' = [k \in Rows |-> IF k = mine THEN None
                                    ELSE IF k = new THEN added ELSE collab[k]]
    BY DEF AcceptAdd
  <1>3. /\ new \in Rows /\ collab[new] = None /\ new # mine
        /\ req[x].prev \in Users /\ req[x].prev = owner[req[x].app]
    BY <1>1, <1>2 DEF Unused, Reassigning
  <1>4. added \in Collaboration
    BY <1>1, <1>3 DEF Collaboration, Roles, Statuses
  <1>5. /\ collab'[new] = added
        /\ mine \in Rows => collab'[mine] = None
        /\ \A k \in Rows \ {mine, new} : collab'[k] = collab[k]
    BY <1>2, <1>3
  <1>6. rowLock[new] = None
    BY <1>1, <1>3 DEF TypeOK
  <1>7. \A k \in Rows : rowLock[k] \notin {None, x} => collab'[k] = collab[k]
    BY <1>1, <1>3, <1>5, <1>6 DEF Reassigning, Names
  <1>8. \A a \in Apps : Offers(a)' \subseteq Offers(a)
    BY <1>5 DEF Offers, Is
  <1>9. OneOfferPerApp'
    BY <1>8, FewerOffers DEF Inv
  <1>10. owner' = [owner EXCEPT ![req[x].app] = req[x].user] /\ Finish(x)
    BY DEF AcceptAdd
  <1>11. /\ collab' \in [Rows -> Collaboration \cup {None}] /\ owner' \in [Apps -> Users]
         /\ \A a \in Apps : owner'[a] # owner[a] => appLock[a] = x
    <2>1. \A k \in Rows : collab'[k] \in Collaboration \cup {None}
      BY <1>1, <1>4, <1>5 DEF TypeOK
    <2>2. QED
      BY <1>1, <1>2, <1>10, <2>1 DEF TypeOK
  <1>12. Inv'
    BY <1>2, <1>3, <1>5, <1>7, <1>8, <1>9, <1>10, <1>11, FinishStep
  <1>13. ASSUME NEW a \in Apps, NEW u \in Users, a = req[x].app, u = owner[a]
         PROVE  Administers(a, u)'
    <2>1. /\ collab'[new] # None /\ collab'[new].app = a /\ collab'[new].user = u
          /\ collab'[new].role = "administrator" /\ collab'[new].status = "accepted"
      BY <1>3, <1>4, <1>5, <1>13
    <2>2. QED
      BY <1>3, <2>1 DEF Administers, RowsOf, Is
  <1>14. QED
    BY <1>12, <1>13

LEMMA Declined ==
  ASSUME Inv, NEW k \in Rows, DeclineOffer(k)
  PROVE  Inv'
  <1>1. TypeOK /\ rowLock[k] = None /\ collab[k] \in Collaboration
    BY DEF Inv, TypeOK, DeclineOffer, Is
  <1>2. /\ collab'[k] = [collab[k] EXCEPT !.status = "declined"]
        /\ \A j \in Rows \ {k} : collab'[j] = collab[j]
        /\ UNCHANGED <<owner, appLock, rowLock, req>>
    BY <1>1 DEF DeclineOffer, TypeOK
  <1>3. /\ collab'[k] \in Collaboration
        /\ collab'[k].app = collab[k].app /\ collab'[k].user = collab[k].user
        /\ collab'[k].status = "declined"
    BY <1>1, <1>2 DEF Collaboration, Statuses
  <1>4. \A a \in Apps : Offers(a)' \subseteq Offers(a)
    BY <1>2, <1>3 DEF Offers, Is
  <1>5. OneOfferPerApp'
    BY <1>4, FewerOffers DEF Inv
  <1>6. TypeOK'
    <2>1. collab' \in [Rows -> Collaboration \cup {None}]
      BY <1>1, <1>3 DEF TypeOK, DeclineOffer
    <2>2. QED
      BY <1>1, <1>2, <1>3, <2>1 DEF TypeOK
  <1>7. Frame(None)
    BY <1>1, <1>2, <1>3, <1>4 DEF Frame
  <1>8. QED
    BY <1>5, <1>6, <1>7, OthersKeep DEF Inv
-----------------------------------------------------------------------------
(* Steps that read or lock.  A request that starts holds no lock.           *)
LEMMA StartStep ==
  ASSUME Inv, NEW x \in Requests, NEW job \in Job, Start(x, job),
         UNCHANGED <<owner, collab, appLock, rowLock>>,
         job.pc \in {"cancel", "respond", "invite", "reinvite", "answer", "role", "remove"},
         job.pc \in {"respond", "invite", "answer"} => job.app \in Apps /\ job.user \in Users,
         job.pc = "cancel" => job.app \in Apps,
         job.pc = "respond" => job.how = "legacy",
         job.pc \in {"respond", "reinvite", "answer", "role", "remove"} => job.row \in Rows
  PROVE  Inv'
  <1>1. TypeOK /\ req[x] = Idle /\ req' = [req EXCEPT ![x] = job] /\ req'[x] = job
    BY DEF Inv, TypeOK, Start
  <1>2. \A k \in Rows : rowLock[k] # x
    BY <1>1 DEF TypeOK, Idle
  <1>3. Shape(x)' /\ Reassigning(x)' /\ Accepting(x)' /\ Collected(x)'
    BY <1>1 DEF Shape, Reassigning, Accepting, Collected
  <1>4. QED
    BY <1>1, <1>2, <1>3, QuietStep DEF TypeOK

LEMMA IdleJob == Idle \in Job
  BY DEF Idle, Job

LEMMA Reads ==
  ASSUME Inv, NEW x \in Requests, NEW k \in Rows,
         \/ RespondRead(x, k) \/ ReinviteRead(x, k) \/ RoleRead(x, k) \/ RemoveRead(x, k) \/ LeaveRead(x, k)
  PROVE  Inv'
  <1>1. TypeOK
    BY DEF Inv
  <1>2. CASE RespondRead(x, k)
    <2> DEFINE job == [Idle EXCEPT !.pc = IF collab[k].role = "owner" THEN "respond" ELSE "answer",
                                   !.how = "legacy", !.row = k,
                                   !.app = collab[k].app, !.user = collab[k].user]
    <2>1. collab[k].app \in Apps /\ collab[k].user \in Users
      BY <1>1, <1>2 DEF TypeOK, Collaboration, RespondRead
    <2>2. /\ job \in Job /\ job.pc \in {"respond", "answer"} /\ job.row = k
          /\ job.how = "legacy"
          /\ job.app \in Apps /\ job.user \in Users
      BY <2>1 DEF Idle, Job
    <2>3. QED
      BY <1>2, <2>2, StartStep DEF RespondRead
  <1>3. CASE ReinviteRead(x, k) \/ RoleRead(x, k) \/ RemoveRead(x, k) \/ LeaveRead(x, k)
    <2>1. PICK pc \in {"reinvite", "role", "remove"} :
            /\ Start(x, [Idle EXCEPT !.pc = pc, !.row = k])
            /\ UNCHANGED <<owner, collab, appLock, rowLock>>
      BY <1>3 DEF ReinviteRead, RoleRead, RemoveRead, LeaveRead
    <2> DEFINE job == [Idle EXCEPT !.pc = pc, !.row = k]
    <2>2. job \in Job /\ job.pc = pc /\ job.row = k
      BY DEF Idle, Job
    <2>3. QED
      BY <2>1, <2>2, StartStep
  <1>4. QED
    BY <1>2, <1>3

LEMMA OfferBegun ==
  ASSUME Inv, NEW x \in Requests, NEW a \in Apps, NEW u \in Users, OfferBegin(x, a, u)
  PROVE  Inv'
  <1>0. PICK job : job = [Idle EXCEPT !.pc = "offer", !.app = a, !.user = u]
    OBVIOUS
  <1>1. TypeOK /\ req[x] = Idle /\ req' = [req EXCEPT ![x] = job] /\ req'[x] = job
    BY <1>0 DEF Inv, TypeOK, OfferBegin, Start
  <1>2. job \in Job /\ job.pc = "offer" /\ job.app = a /\ job.user = u
    BY <1>0 DEF Idle, Job
  <1>3. Shape(x)' /\ Reassigning(x)' /\ Accepting(x)' /\ Collected(x)'
    BY <1>1, <1>2 DEF Shape, Reassigning, Accepting, Collected
  <1>4. \A k \in Rows : rowLock[k] # x
    BY <1>1 DEF TypeOK, Idle
  <1>5. /\ appLock[a] = None /\ appLock' = [appLock EXCEPT ![a] = x]
        /\ UNCHANGED <<owner, collab, rowLock>>
    BY DEF OfferBegin
  <1>6. /\ appLock' \in [Apps -> Requests \cup {None}] /\ appLock'[a] = x
        /\ \A b \in Apps : appLock'[b] # appLock[b] => appLock[b] = None /\ appLock'[b] = x
        /\ rowLock' \in [Rows -> Requests \cup {None}]
    BY <1>1, <1>5 DEF TypeOK
  <1>7. QED
    BY <1>1, <1>2, <1>3, <1>4, <1>5, <1>6, QuietStep

LEMMA OfferSelected ==
  ASSUME Inv, NEW x \in Requests, OfferSelect(x)
  PROVE  Inv'
  <1> DEFINE job == [req[x] EXCEPT !.pc = "offers", !.todo = Offers(req[x].app)]
  <1>1. /\ TypeOK /\ Shape(x) /\ req[x] \in Job /\ req[x].pc = "offer"
        /\ Offers(req[x].app) \subseteq Rows
    BY DEF Inv, TypeOK, OfferSelect, Offers
  <1>2. /\ job \in Job /\ job.pc = "offers" /\ job.app = req[x].app
        /\ job.user = req[x].user /\ job.todo = Offers(req[x].app)
    BY <1>1 DEF Job
  <1>3. /\ req' = [req EXCEPT ![x] = job] /\ req'[x] = job
        /\ UNCHANGED <<owner, collab, appLock, rowLock>>
    BY <1>1 DEF OfferSelect, TypeOK
  <1>4. Shape(x)' /\ Reassigning(x)' /\ Accepting(x)'
    BY <1>1, <1>2, <1>3 DEF Shape, Reassigning, Accepting
  <1>5. \A k \in Rows : \A a \in Apps :
          a = req[x].app /\ k \in Offers(a)' => k \in job.todo
    BY <1>2, <1>3 DEF Offers, Is
  <1>6. Collected(x)'
    <2>1. PICK a \in Apps : a = req[x].app
      BY <1>1 DEF Shape
    <2>2. Offers(a)' \subseteq req'[x].todo
      BY <1>3, <1>5, <2>1 DEF Offers
    <2>3. req'[x].app = a
      BY <1>2, <1>3, <2>1
    <2>4. QED
      BY <2>2, <2>3 DEF Collected, Offers
  <1>7. QED
    BY <1>1, <1>2, <1>3, <1>4, <1>6, QuietStep DEF TypeOK

LEMMA OfferLocked ==
  ASSUME Inv, NEW x \in Requests, NEW k \in Rows, LockOffer(x, k)
  PROVE  Inv'
  <1>0. PICK job : job = [req[x] EXCEPT !.todo = @ \ {k}]
    OBVIOUS
  <1>1. /\ TypeOK /\ Shape(x) /\ Collected(x) /\ req[x] \in Job
        /\ req[x].pc \in {"offers", "cancel"}
        /\ rowLock[k] = None
    BY DEF Inv, TypeOK, LockOffer
  <1>2. /\ job \in Job /\ job.pc = req[x].pc /\ job.app = req[x].app
        /\ job.user = req[x].user /\ job.todo = req[x].todo \ {k}
    BY <1>0, <1>1 DEF Job
  <1>3. /\ req' = [req EXCEPT ![x] = job] /\ req'[x] = job
        /\ rowLock' = IF k \in Offers(req[x].app) THEN [rowLock EXCEPT ![k] = x] ELSE rowLock
        /\ UNCHANGED <<owner, collab, appLock>>
    BY <1>0, <1>1 DEF LockOffer, TypeOK
  <1>4. Shape(x)' /\ Reassigning(x)' /\ Accepting(x)'
    BY <1>1, <1>2, <1>3 DEF Shape, Reassigning, Accepting
  <1>5. Collected(x)'
    <2> SUFFICES ASSUME req[x].pc = "offers" PROVE Collected(x)'
      BY <1>2, <1>3 DEF Collected
    <2>1. PICK a \in Apps : a = req[x].app
      BY <1>1 DEF Shape
    <2>2. Offers(a)' = Offers(a) /\ Offers(a) \subseteq req[x].todo \cup Held(x)
      BY <1>1, <1>3, <2>1 DEF Offers, Is, Collected
    <2>3. Offers(a)' \subseteq req'[x].todo \cup Held(x)'
      BY <1>1, <1>2, <1>3, <2>1, <2>2 DEF Held, TypeOK
    <2>4. req'[x].app = a
      BY <1>2, <1>3, <2>1
    <2>5. QED
      BY <2>3, <2>4 DEF Collected
  <1>6. k \in Offers(req[x].app) => collab[k] # None
    BY DEF Offers, Is
  <1>7. /\ rowLock' \in [Rows -> Requests \cup {None}]
        /\ \A j \in Rows : rowLock'[j] # rowLock[j] =>
                             rowLock[j] = None /\ rowLock'[j] = x /\ collab[j] # None
    BY <1>1, <1>3, <1>6 DEF TypeOK
  <1>8. /\ appLock' \in [Apps -> Requests \cup {None}] /\ appLock' = appLock
        /\ owner' = owner /\ collab' = collab
        /\ job.pc \in {"offers", "cancel"}
        /\ job.pc = "offers" => job.app \in Apps /\ appLock'[job.app] = x
    BY <1>1, <1>2, <1>3 DEF TypeOK
  <1>9. job \in Job /\ req' = [req EXCEPT ![x] = job]
    BY <1>2, <1>3
  <1>10. QED
    BY <1>4, <1>5, <1>7, <1>8, <1>9, QuietStep

LEMMA OfferTakenUp ==
  ASSUME Inv, NEW x \in Requests, NEW k \in Rows, AcceptLock(x, k)
  PROVE  Inv'
  <1>0. PICK job : job = [Idle EXCEPT !.pc = "accept", !.how = "direct", !.row = k,
                                 !.app = collab[k].app, !.user = collab[k].user]
    OBVIOUS
  <1>1. /\ TypeOK /\ req[x] = Idle /\ req' = [req EXCEPT ![x] = job] /\ req'[x] = job
        /\ rowLock[k] = None /\ rowLock' = [rowLock EXCEPT ![k] = x]
        /\ Is(k, "owner", "pending") /\ collab[k] # None
        /\ UNCHANGED <<owner, collab, appLock>>
    BY <1>0 DEF Inv, TypeOK, AcceptLock, Start, Is
  <1>2. collab[k].app \in Apps /\ collab[k].user \in Users
    BY <1>1 DEF TypeOK, Collaboration
  <1>3. /\ job \in Job /\ job.pc = "accept" /\ job.how = "direct" /\ job.row = k
        /\ job.app = collab[k].app /\ job.user = collab[k].user
    BY <1>0, <1>2 DEF Idle, Job
  <1>4. /\ appLock' \in [Apps -> Requests \cup {None}]
        /\ rowLock' \in [Rows -> Requests \cup {None}]
        /\ rowLock'[k] = x /\ \A j \in Rows \ {k} : rowLock'[j] = rowLock[j]
    BY <1>1 DEF TypeOK
  <1>5. Shape(x)' /\ Reassigning(x)' /\ Collected(x)'
    BY <1>1, <1>2, <1>3 DEF Shape, Reassigning, Collected
  <1>6. Accepting(x)'
    BY <1>1, <1>3, <1>4 DEF Accepting, Is
  <1>7. /\ appLock' = appLock /\ owner' = owner /\ collab' = collab
        /\ \A j \in Rows : rowLock'[j] # rowLock[j] =>
                             rowLock[j] = None /\ rowLock'[j] = x /\ collab[j] # None
    BY <1>1, <1>4
  <1>8. job \in Job /\ req' = [req EXCEPT ![x] = job] /\ job.pc = "accept"
    BY <1>1, <1>3
  <1>9. QED
    BY <1>4, <1>5, <1>6, <1>7, <1>8, QuietStep

LEMMA InvitationTakenUp ==
  ASSUME Inv, NEW x \in Requests, RespondAccept(x)
  PROVE  Inv'
  <1>0. PICK job : job = [req[x] EXCEPT !.pc = "accept"]
    OBVIOUS
  <1>1. /\ TypeOK /\ Shape(x) /\ req[x] \in Job /\ req[x].pc = "respond"
        /\ req[x].row \in Rows /\ rowLock[req[x].row] = None /\ collab[req[x].row] # None
        /\ rowLock' = [rowLock EXCEPT ![req[x].row] = x]
        /\ UNCHANGED <<owner, collab, appLock>>
    BY DEF Inv, TypeOK, Shape, RespondAccept
  <1>2. /\ job \in Job /\ job.pc = "accept" /\ job.how = "legacy"
        /\ job.app = req[x].app /\ job.user = req[x].user
    BY <1>0, <1>1 DEF Job, Shape
  <1>3. req' = [req EXCEPT ![x] = job] /\ req'[x] = job
    BY <1>0, <1>1 DEF RespondAccept, TypeOK
  <1>4. /\ appLock' \in [Apps -> Requests \cup {None}]
        /\ rowLock' \in [Rows -> Requests \cup {None}]
        /\ \A j \in Rows : rowLock'[j] # rowLock[j] =>
                             rowLock[j] = None /\ rowLock'[j] = x /\ collab[j] # None
    BY <1>1 DEF TypeOK
  <1>5. Shape(x)' /\ Reassigning(x)' /\ Accepting(x)' /\ Collected(x)'
    BY <1>1, <1>2, <1>3 DEF Shape, Reassigning, Accepting, Collected
  <1>6. QED
    BY <1>1, <1>2, <1>3, <1>4, <1>5, QuietStep

(* What .first() names is a row of the app and the user.                    *)
LEMMA FirstNames ==
  ASSUME NEW a \in Apps, NEW u \in Users, NEW k \in FirstOf(a, u)
  PROVE  /\ k \in Rows \cup {None}
         /\ k # None => k \in Rows /\ collab[k] # None /\ collab[k].app = a /\ collab[k].user = u
  BY DEF FirstOf, RowsOf

LEMMA TransferBegun ==
  ASSUME Inv, NEW x \in Requests, NEW a \in Apps, NEW u \in Users, TransferBegin(x, a, u)
  PROVE  Inv'
  <1>1. PICK mine \in FirstOf(a, u) :
          Start(x, [Idle EXCEPT !.pc = "reassign", !.how = "admin", !.app = a, !.user = u,
                                !.mine = mine, !.todo = {mine} \ {None}])
    BY DEF TransferBegin
  <1>0. PICK job : job = [Idle EXCEPT !.pc = "reassign", !.how = "admin", !.app = a, !.user = u,
                                 !.mine = mine, !.todo = {mine} \ {None}]
    OBVIOUS
  <1>2. /\ mine \in Rows \cup {None}
        /\ mine # None => mine \in Rows /\ collab[mine] # None
                          /\ collab[mine].app = a /\ collab[mine].user = u
    BY FirstNames
  <1>3. /\ job \in Job /\ job.pc = "reassign" /\ job.how = "admin" /\ job.app = a /\ job.user = u
        /\ job.mine = mine /\ job.theirs = None /\ job.todo = {mine} \ {None}
    BY <1>0, <1>2 DEF Idle, Job
  <1>4. /\ TypeOK /\ req[x] = Idle /\ req' = [req EXCEPT ![x] = job] /\ req'[x] = job
        /\ appLock[a] = None /\ appLock' = [appLock EXCEPT ![a] = x]
        /\ UNCHANGED <<owner, collab, rowLock>>
    BY <1>0, <1>1 DEF Inv, TypeOK, TransferBegin, Start
  <1>5. /\ appLock' \in [Apps -> Requests \cup {None}] /\ appLock'[a] = x
        /\ \A b \in Apps : appLock'[b] # appLock[b] => appLock[b] = None /\ appLock'[b] = x
        /\ rowLock' \in [Rows -> Requests \cup {None}]
    BY <1>4 DEF TypeOK
  <1>6. \A k \in Rows : rowLock[k] # x
    BY <1>4 DEF TypeOK, Idle
  <1>7. Shape(x)' /\ Accepting(x)' /\ Collected(x)'
    BY <1>3, <1>4 DEF Shape, Accepting, Collected
  <1>8. Reassigning(x)'
    BY <1>2, <1>3, <1>4 DEF Reassigning, Names
  <1>9. QED
    BY <1>3, <1>4, <1>5, <1>6, <1>7, <1>8, QuietStep

LEMMA AcceptReassigned ==
  ASSUME Inv, NEW x \in Requests, AcceptReassign(x)
  PROVE  Inv'
  <1>1. /\ TypeOK /\ Shape(x) /\ Accepting(x) /\ req[x] \in Job
        /\ req[x].pc = "accept" /\ req[x].how # "admin"
    BY DEF Inv, TypeOK, Shape, AcceptReassign
  <1>2. PICK a \in Apps, u \in Users, o \in Users :
          a = req[x].app /\ u = req[x].user /\ o = owner[a]
    BY <1>1 DEF Shape, TypeOK
  <1>3. PICK mine \in FirstOf(a, u), theirs \in FirstOf(a, o) :
          req' = [req EXCEPT ![x].pc = "reassign", ![x].prev = o,
                             ![x].mine = mine, ![x].theirs = theirs,
                             ![x].todo = {mine, theirs} \ (Held(x) \cup {None})]
    BY <1>2 DEF AcceptReassign
  <1>0. PICK job : job = [req[x] EXCEPT !.pc = "reassign", !.prev = o, !.mine = mine, !.theirs = theirs,
                                   !.todo = {mine, theirs} \ (Held(x) \cup {None})]
    OBVIOUS
  <1>4. /\ mine \in Rows \cup {None} /\ theirs \in Rows \cup {None}
        /\ mine # None => mine \in Rows /\ collab[mine] # None
                          /\ collab[mine].app = a /\ collab[mine].user = u
        /\ theirs # None => theirs \in Rows /\ collab[theirs] # None
                            /\ collab[theirs].app = a /\ collab[theirs].user = o
    BY FirstNames
  <1>5. /\ job \in Job /\ job.pc = "reassign" /\ job.how = req[x].how /\ job.app = a /\ job.user = u
        /\ job.prev = o /\ job.row = req[x].row /\ job.mine = mine /\ job.theirs = theirs
        /\ job.todo = {mine, theirs} \ (Held(x) \cup {None})
    BY <1>0, <1>1, <1>2, <1>4 DEF Job
  <1>6. /\ req' = [req EXCEPT ![x] = job] /\ req'[x] = job
        /\ appLock[a] = None /\ appLock' = [appLock EXCEPT ![a] = x]
        /\ o # u /\ UNCHANGED <<owner, collab, rowLock>>
    <2>1. req' = [req EXCEPT ![x] = job] /\ req'[x] = job
      BY <1>0, <1>1, <1>3 DEF TypeOK
    <2>2. /\ appLock[a] = None /\ appLock' = [appLock EXCEPT ![a] = x]
          /\ o # u /\ UNCHANGED <<owner, collab, rowLock>>
      BY <1>2 DEF AcceptReassign
    <2>3. QED
      BY <2>1, <2>2
  <1>7. /\ appLock' \in [Apps -> Requests \cup {None}] /\ appLock'[a] = x
        /\ \A b \in Apps : appLock'[b] # appLock[b] => appLock[b] = None /\ appLock'[b] = x
        /\ rowLock' \in [Rows -> Requests \cup {None}]
    BY <1>1, <1>6 DEF TypeOK
  <1>8. Shape(x)' /\ Collected(x)'
    BY <1>5, <1>6 DEF Shape, Collected
  <1>9. Accepting(x)'
    BY <1>1, <1>2, <1>5, <1>6 DEF Accepting, Is
  <1>10. Reassigning(x)'
    BY <1>1, <1>2, <1>4, <1>5, <1>6 DEF Reassigning, Names, Held
  <1>11. QED
    BY <1>5, <1>6, <1>7, <1>8, <1>9, <1>10, QuietStep

LEMMA WriteLocked ==
  ASSUME Inv, NEW x \in Requests, NEW k \in Rows, LockWrite(x, k)
  PROVE  Inv'
  <1>0. PICK job : job = [req[x] EXCEPT !.todo = @ \ {k}]
    OBVIOUS
  <1>1. /\ TypeOK /\ Shape(x) /\ Reassigning(x) /\ Accepting(x)
        /\ req[x] \in Job /\ req[x].pc = "reassign" /\ rowLock[k] = None
    BY DEF Inv, TypeOK, LockWrite
  <1>2. /\ job \in Job /\ job.todo = req[x].todo \ {k} /\ job.pc = "reassign"
        /\ job.how = req[x].how /\ job.app = req[x].app /\ job.user = req[x].user
        /\ job.prev = req[x].prev /\ job.row = req[x].row
        /\ job.mine = req[x].mine /\ job.theirs = req[x].theirs
    BY <1>0, <1>1 DEF Job
  <1>3. /\ req' = [req EXCEPT ![x] = job] /\ req'[x] = job
        /\ rowLock' = IF collab[k] # None THEN [rowLock EXCEPT ![k] = x] ELSE rowLock
        /\ UNCHANGED <<owner, collab, appLock>>
    BY <1>0, <1>1 DEF LockWrite, TypeOK
  <1>4. /\ appLock' \in [Apps -> Requests \cup {None}]
        /\ rowLock' \in [Rows -> Requests \cup {None}]
        /\ collab[k] # None => rowLock'[k] = x
        /\ \A j \in Rows \ {k} : rowLock'[j] = rowLock[j]
        /\ \A j \in Rows : rowLock'[j] # rowLock[j] =>
                             rowLock[j] = None /\ rowLock'[j] = x /\ collab[j] # None
    BY <1>1, <1>3 DEF TypeOK
  <1>5. job.app \in Apps /\ appLock'[job.app] = x
    BY <1>1, <1>2, <1>3 DEF TypeOK
  <1>6. Shape(x)' /\ Collected(x)'
    BY <1>1, <1>2, <1>3 DEF Shape, Collected
  <1>7. Accepting(x)'
    BY <1>1, <1>2, <1>3, <1>4 DEF Accepting, Is
  <1>8. Reassigning(x)'
    <2>1. ASSUME NEW j \in Rows \cup {None}, NEW u, Names(x, j, u)
          PROVE  Names(x, j, u)'
      BY <1>1, <1>2, <1>3, <1>4, <2>1 DEF Names
    <2>2. Names(x, req[x].mine, req[x].user) /\ Names(x, req[x].theirs, req[x].prev)
      BY <1>1 DEF Reassigning
    <2>3. req'[x].mine \in Rows \cup {None} /\ req'[x].theirs \in Rows \cup {None}
      BY <1>2, <1>3 DEF Job
    <2>4. Names(x, req[x].mine, req[x].user)' /\ Names(x, req[x].theirs, req[x].prev)'
      BY <1>2, <1>3, <2>1, <2>2, <2>3 DEF Names
    <2>5. QED
      BY <1>1, <1>2, <1>3, <2>4 DEF Reassigning
  <1>9. /\ appLock' = appLock /\ owner' = owner /\ collab' = collab
        /\ job \in Job /\ req' = [req EXCEPT ![x] = job] /\ job.pc = "reassign"
    BY <1>2, <1>3
  <1>10. QED
    BY <1>4, <1>5, <1>6, <1>7, <1>8, <1>9, QuietStep
-----------------------------------------------------------------------------
(* Every step keeps the invariant.                                          *)
LEMMA ArriveKeeps ==
  ASSUME Inv, NEW x \in Requests, Arrive(x)
  PROVE  Inv'
  <1>1. CASE \E a \in Apps, u \in Users : OfferBegin(x, a, u) \/ TransferBegin(x, a, u)
    BY <1>1, OfferBegun, TransferBegun
  <1>2. CASE \E a \in Apps, u \in Users : InviteRead(x, a, u)
    <2>1. ASSUME NEW a \in Apps, NEW u \in Users, InviteRead(x, a, u)
          PROVE  Inv'
      <3> DEFINE job == [Idle EXCEPT !.pc = "invite", !.app = a, !.user = u]
      <3>1. job \in Job /\ job.pc = "invite" /\ job.app = a /\ job.user = u
        BY DEF Idle, Job
      <3>2. QED
        BY <2>1, <3>1, StartStep DEF InviteRead
    <2>2. QED
      BY <1>2, <2>1
  <1>3. CASE \E a \in Apps : CancelSelect(x, a)
    <2>1. ASSUME NEW a \in Apps, CancelSelect(x, a)
          PROVE  Inv'
      <3> DEFINE job == [Idle EXCEPT !.pc = "cancel", !.app = a, !.todo = Offers(a)]
      <3>1. job \in Job /\ job.pc = "cancel" /\ job.app = a
        BY DEF Idle, Job, Offers
      <3>2. QED
        BY <2>1, <3>1, StartStep DEF CancelSelect
    <2>2. QED
      BY <1>3, <2>1
  <1>4. CASE \E k \in Rows : \/ AcceptLock(x, k) \/ RespondRead(x, k) \/ ReinviteRead(x, k)
                              \/ RoleRead(x, k) \/ RemoveRead(x, k) \/ LeaveRead(x, k)
    BY <1>4, OfferTakenUp, Reads
  <1>5. QED
    BY <1>1, <1>2, <1>3, <1>4 DEF Arrive

LEMMA ContinueKeeps ==
  ASSUME Inv, NEW x \in Requests, Continue(x)
  PROVE  Inv'
  <1>1. CASE OfferSelect(x) \/ OfferRefresh(x) \/ OfferCreate(x) \/ CancelCommit(x)
    BY <1>1, OfferSelected, OfferRefreshed, OfferCreated, OfferCancelled
  <1>2. CASE \E k \in Rows : LockOffer(x, k) \/ LockWrite(x, k)
    BY <1>2, OfferLocked, WriteLocked
  <1>3. CASE RespondAccept(x) \/ AcceptReassign(x)
    BY <1>3, InvitationTakenUp, AcceptReassigned
  <1>4. CASE TransferCommit(x) \/ AcceptDemote(x) \/ AcceptAdd(x)
    BY <1>4, Transferred, Demoted, Added
  <1>5. CASE AcceptRefused(x) \/ AcceptStale(x) \/ RowGone(x) \/ Abort(x)
    BY <1>5, Rollback DEF AcceptRefused, AcceptStale, RowGone, Abort
  <1>6. CASE InviteWrite(x)
    BY <1>6, Invited
  <1>7. CASE ReinviteWrite(x) \/ RoleWrite(x) \/ RemoveWrite(x) \/ AnswerWrite(x) \/ RespondDecline(x)
    BY <1>7, CollaborationWrites
  <1>8. QED
    BY <1>1, <1>2, <1>3, <1>4, <1>5, <1>6, <1>7 DEF Continue

LEMMA StutterKeeps ==
  ASSUME Inv, UNCHANGED vars
  PROVE  Inv'
  <1>1. /\ owner' = owner /\ collab' = collab /\ appLock' = appLock
        /\ rowLock' = rowLock /\ req' = req
    BY DEF vars
  <1>2. TypeOK' /\ OneOfferPerApp'
    BY <1>1 DEF Inv, TypeOK, OneOfferPerApp, Offers, Is
  <1>3. Frame(None)
    BY <1>1 DEF Frame, Offers, Is
  <1>4. QED
    BY <1>2, <1>3, OthersKeep DEF Inv

LEMMA NextKeeps == Inv /\ [Next]_vars => Inv'
  <1>1. ASSUME Inv, NEW x \in Requests, Arrive(x) \/ Continue(x)
        PROVE  Inv'
    BY <1>1, ArriveKeeps, ContinueKeeps
  <1>2. QED
    BY <1>1, Declined, StutterKeeps DEF Next

LEMMA InvHolds == Spec => []Inv
  <1>1. QED
    BY InitInv, NextKeeps, PTL DEF Spec

(* Only the commit of a reassignment changes an owner.                      *)
LEMMA OwnerChange ==
  ASSUME Inv, [Next]_vars, owner' # owner
  PROVE  \E x \in Requests : /\ TransferCommit(x) \/ AcceptDemote(x) \/ AcceptAdd(x)
                            /\ \A r \in Requests \ {x} : req'[r] = req[r]
  <1>1. PICK x \in Requests : TransferCommit(x) \/ AcceptDemote(x) \/ AcceptAdd(x)
    <2>1. PICK x \in Requests : Arrive(x) \/ Continue(x)
      BY DEF Next, DeclineOffer, vars
    <2>2. ~Arrive(x)
      BY DEF Arrive, OfferBegin, TransferBegin, InviteRead, CancelSelect, AcceptLock,
             RespondRead, ReinviteRead, RoleRead, RemoveRead, LeaveRead
    <2>3. QED
      BY <2>1, <2>2 DEF Continue, OfferSelect, LockOffer, LockWrite, OfferRefresh, OfferCreate,
             CancelCommit, RespondAccept, AcceptRefused, AcceptReassign, AcceptStale,
             InviteWrite, ReinviteWrite, RoleWrite, RemoveWrite, AnswerWrite, RespondDecline,
             RowWrite, RowGone, Abort
  <1>2. Finish(x)
    BY <1>1 DEF TransferCommit, AcceptDemote, AcceptAdd
  <1>3. \A r \in Requests \ {x} : req'[r] = req[r]
    BY <1>2 DEF Finish, Inv, TypeOK
  <1>4. QED
    BY <1>1, <1>3

LEMMA TakenStep == Inv /\ [Next]_vars => OfferTaken
  <1> SUFFICES ASSUME Inv, [Next]_vars, NEW r \in Requests,
                      req[r].pc = "reassign", req[r].how = "direct",
                      req'[r].pc = "idle", owner' # owner
               PROVE  /\ Is(req[r].row, "owner", "pending")
                      /\ collab[req[r].row].app = req[r].app
                      /\ owner'[req[r].app] = collab[req[r].row].user
    BY DEF OfferTaken
  <1>1. TransferCommit(r) \/ AcceptDemote(r) \/ AcceptAdd(r)
    BY OwnerChange
  <1>2. owner' = [owner EXCEPT ![req[r].app] = req[r].user]
    BY <1>1 DEF TransferCommit, AcceptDemote, AcceptAdd
  <1>3. TypeOK /\ Accepting(r) /\ req[r].app \in Apps
    BY DEF Inv, Shape
  <1>4. QED
    BY <1>2, <1>3 DEF Accepting, TypeOK

LEMMA DemotedStep == Inv /\ [Next]_vars => DemotedOwnerStays
  <1> SUFFICES ASSUME Inv, [Next]_vars, NEW a \in Apps, NEW u \in Users, NEW r \in Requests,
                      req[r].pc = "reassign", req[r].how # "admin", req[r].app = a,
                      req'[r].pc = "idle", owner[a] = u, owner'[a] # u
               PROVE  Administers(a, u)'
    BY DEF DemotedOwnerStays
  <1>1. TransferCommit(r) \/ AcceptDemote(r) \/ AcceptAdd(r)
    BY OwnerChange
  <1>2. AcceptDemote(r) \/ AcceptAdd(r)
    BY <1>1 DEF TransferCommit
  <1>3. QED
    BY <1>2, Demoted, Added
-----------------------------------------------------------------------------
(* Why somebody can go on.  Whoever has an app locked is offering or        *)
(* reassigning, and the requests that may still insert find a place each.   *)
Inserters == {r \in Requests : Inserts(r)}

AppHeld ==
  \A a \in Apps : appLock[a] # None => req[appLock[a]].pc \in {"offer", "offers", "reassign"}

RoomKept == Cardinality(Inserters) <= Cardinality(Unused)

(* The rows that a request remembers.                                       *)
Refs(job) == {job.row, job.mine, job.theirs} \cup job.todo

(* What a step of x does to locks of apps and to what is remembered ...     *)
Moves(x) ==
  /\ \A r \in Requests \ {x} : req'[r] = req[r]
  /\ \A k \in Rows : k \in Refs(req'[x]) => k \in Refs(req[x]) \/ collab[k] # None
  /\ \A a \in Apps : /\ appLock'[a] \in {None, appLock[a], x}
                     /\ appLock'[a] = x => req'[x].pc \in {"offer", "offers", "reassign"}

(* ... and to the places: none is needed, one is set aside, one is taken.   *)
Keeps(x) == (Inserts(x)' => Inserts(x)) /\ \A k \in Unused : collab'[k] = None
Starts(x) == Room /\ req[x] = Idle /\ collab' = collab
Takes(x) ==
  /\ Inserts(x) /\ ~Inserts(x)'
  /\ \E new \in Unused : \A k \in Unused \ {new} : collab'[k] = None

LEMMA UnusedFinite ==
  /\ IsFiniteSet(Unused) /\ IsFiniteSet(Inserters)
  /\ IsFiniteSet({r \in Requests : req[r].pc \in Adding})
  <1>1. Unused \subseteq Rows /\ Inserters \subseteq Requests
        /\ {r \in Requests : req[r].pc \in Adding} \subseteq Requests
    BY DEF Unused, Inserters
  <1>2. QED
    BY <1>1, FiniteAssumption, FS_Subset

(* A place that nobody takes stays a place.                                 *)
LEMMA PlaceStays ==
  ASSUME NEW x \in Requests, Moves(x), NEW k \in Unused, collab'[k] = None
  PROVE  k \in Unused'
  <1>1. /\ k \in Rows /\ collab[k] = None
        /\ \A r \in Requests : k \notin Refs(req[r])
    BY DEF Unused, Refs
  <1>2. \A r \in Requests : k \notin Refs(req'[r])
    BY <1>1 DEF Moves
  <1>3. QED
    BY <1>1, <1>2 DEF Unused, Refs

LEMMA RoomKeeps ==
  ASSUME RoomKept, NEW x \in Requests, Moves(x), Keeps(x) \/ Starts(x) \/ Takes(x)
  PROVE  RoomKept'
  <1>1. \A r \in Requests \ {x} : Inserts(r)' = Inserts(r)
    BY DEF Moves, Inserts
  <1>2. /\ IsFiniteSet(Unused) /\ IsFiniteSet(Inserters)
        /\ Cardinality(Unused) \in Nat /\ Cardinality(Inserters) \in Nat
    BY UnusedFinite, FS_CardinalityType
  <1>3. IsFiniteSet(Unused') /\ Cardinality(Unused') \in Nat /\ Cardinality(Inserters') \in Nat
    <2>1. Unused' \subseteq Rows /\ Inserters' \subseteq Requests
      BY DEF Unused, Inserters
    <2>2. QED
      BY <2>1, FiniteAssumption, FS_Subset, FS_CardinalityType
  <1>4. CASE Keeps(x)
    <2>1. Inserters' \subseteq Inserters
      BY <1>1, <1>4 DEF Keeps, Inserters
    <2>2. Unused \subseteq Unused'
      BY <1>4, PlaceStays DEF Keeps
    <2>3. Cardinality(Inserters') <= Cardinality(Inserters) /\ Cardinality(Unused) <= Cardinality(Unused')
      BY <1>2, <1>3, <2>1, <2>2, FS_Subset
    <2>4. QED
      BY <1>2, <1>3, <2>3 DEF RoomKept
  <1>5. CASE Starts(x)
    <2> DEFINE A == {r \in Requests : req[r].pc \in Adding}
    <2>1. Inserters \subseteq A /\ Inserters' \subseteq A \cup {x} /\ IsFiniteSet(A)
      BY <1>1, UnusedFinite DEF Inserters, Inserts
    <2>2. Cardinality(A) \in Nat /\ Cardinality(A \cup {x}) \in Nat /\ IsFiniteSet(A \cup {x})
          /\ Cardinality(A \cup {x}) <= Cardinality(A) + 1
      <3>1. IsFiniteSet(A \cup {x})
            /\ Cardinality(A \cup {x}) = IF x \in A THEN Cardinality(A) ELSE Cardinality(A) + 1
        BY <2>1, FS_AddElement
      <3>2. Cardinality(A) \in Nat
        BY <2>1, FS_CardinalityType
      <3> HIDE DEF A
      <3>3. QED
        BY <3>1, <3>2
    <2>3. Cardinality(Inserters') <= Cardinality(A \cup {x})
      BY <2>1, <2>2, FS_Subset
    <2>4. Unused \subseteq Unused'
      BY <1>5, PlaceStays DEF Starts, Unused
    <2>5. Cardinality(Unused) <= Cardinality(Unused')
      BY <1>3, <2>4, FS_Subset
    <2>6. Cardinality(Unused) > Cardinality(A)
      BY <1>5 DEF Starts, Room
    <2>7. QED
      BY <1>2, <1>3, <2>2, <2>3, <2>5, <2>6 DEF RoomKept
  <1>6. CASE Takes(x)
    <2>1. PICK new \in Unused : \A k \in Unused \ {new} : collab'[k] = None
      BY <1>6 DEF Takes
    <2>2. Inserters' \subseteq Inserters \ {x} /\ x \in Inserters
      BY <1>1, <1>6 DEF Takes, Inserters
    <2>3. Unused \ {new} \subseteq Unused'
      BY <2>1, PlaceStays
    <2>4. Cardinality(Unused \ {new}) = Cardinality(Unused) - 1
          /\ Cardinality(Inserters \ {x}) = Cardinality(Inserters) - 1
          /\ IsFiniteSet(Inserters \ {x})
      BY <1>2, <2>2, FS_RemoveElement
    <2>5. Cardinality(Inserters') <= Cardinality(Inserters \ {x})
          /\ Cardinality(Unused \ {new}) <= Cardinality(Unused')
      BY <1>3, <2>2, <2>3, <2>4, FS_Subset
    <2>6. QED
      BY <1>2, <1>3, <2>4, <2>5 DEF RoomKept
  <1>7. QED
    BY <1>4, <1>5, <1>6

LEMMA AppHeldKeeps ==
  ASSUME TypeOK, AppHeld, NEW x \in Requests, Moves(x)
  PROVE  AppHeld'
  <1> SUFFICES ASSUME NEW a \in Apps, appLock'[a] # None
               PROVE  req'[appLock'[a]].pc \in {"offer", "offers", "reassign"}
    BY DEF AppHeld
  <1>1. CASE appLock'[a] = x
    BY <1>1 DEF Moves
  <1>2. CASE appLock'[a] # x
    <2>1. appLock'[a] = appLock[a] /\ appLock[a] \in Requests \ {x}
      BY <1>2 DEF Moves, TypeOK
    <2>2. QED
      BY <2>1 DEF Moves, AppHeld
  <1>3. QED
    BY <1>1, <1>2

LEMMA FinishMoves ==
  ASSUME TypeOK, NEW x \in Requests, Finish(x)
  PROVE  Moves(x) /\ ~Inserts(x)'
  <1>1. /\ \A r \in Requests \ {x} : req'[r] = req[r]
        /\ req'[x] = Idle
    BY DEF Finish, TypeOK
  <1>2. \A a \in Apps : appLock'[a] \in {None, appLock[a]} /\ appLock'[a] # x
    BY DEF Finish
  <1>3. \A k \in Rows : k \notin Refs(req'[x])
    BY <1>1 DEF Refs, Idle
  <1>4. ~Inserts(x)'
    BY <1>1 DEF Inserts, Idle, Adding
  <1>5. QED
    BY <1>1, <1>2, <1>3, <1>4 DEF Moves

(* A request that begins: it remembers rows of the table only.              *)
LEMMA ArriveMoves ==
  ASSUME TypeOK, AppHeld, NEW x \in Requests, Arrive(x)
  PROVE  Moves(x) /\ (Keeps(x) \/ Starts(x))
  <1>1. PICK job : Start(x, job)
    BY DEF Arrive, OfferBegin, TransferBegin, InviteRead, CancelSelect, AcceptLock,
           RespondRead, ReinviteRead, RoleRead, RemoveRead, LeaveRead
  <1>2. /\ req[x] = Idle /\ req[x].pc = "idle"
        /\ \A r \in Requests \ {x} : req'[r] = req[r]
        /\ \A a \in Apps : appLock[a] # x
    BY <1>1 DEF Start, TypeOK, AppHeld, Idle
  <1>3. collab' = collab
    BY DEF Arrive, OfferBegin, TransferBegin, InviteRead, CancelSelect, AcceptLock,
           RespondRead, ReinviteRead, RoleRead, RemoveRead, LeaveRead
  <1>4. CASE \E a \in Apps, u \in Users : OfferBegin(x, a, u) \/ TransferBegin(x, a, u) \/ InviteRead(x, a, u)
    <2>1. PICK a \in Apps, u \in Users : OfferBegin(x, a, u) \/ TransferBegin(x, a, u) \/ InviteRead(x, a, u)
      BY <1>4
    <2>2. CASE OfferBegin(x, a, u)
      <3>1. req'[x] = [Idle EXCEPT !.pc = "offer", !.app = a, !.user = u]
            /\ appLock' = [appLock EXCEPT ![a] = x] /\ Room
        BY <2>2 DEF OfferBegin, Start, TypeOK
      <3>2. req'[x].pc = "offer" /\ \A k \in Rows : k \notin Refs(req'[x])
        BY <3>1 DEF Refs, Idle
      <3>3. QED
        BY <1>2, <1>3, <3>1, <3>2 DEF Moves, Starts, TypeOK
    <2>3. CASE TransferBegin(x, a, u)
      <3>1. PICK mine \in FirstOf(a, u) :
              req'[x] = [Idle EXCEPT !.pc = "reassign", !.how = "admin", !.app = a, !.user = u,
                                     !.mine = mine, !.todo = {mine} \ {None}]
        BY <2>3 DEF TransferBegin, Start, TypeOK
      <3>2. appLock' = [appLock EXCEPT ![a] = x]
        BY <2>3 DEF TransferBegin
      <3>3. /\ req'[x].pc = "reassign" /\ req'[x].how = "admin"
            /\ \A k \in Rows : k \in Refs(req'[x]) => collab[k] # None
        BY <3>1, FirstNames DEF Refs, Idle
      <3>4. ~Inserts(x)'
        BY <3>3 DEF Inserts
      <3>5. QED
        BY <1>2, <1>3, <3>2, <3>3, <3>4 DEF Moves, Keeps, Unused, TypeOK
    <2>4. CASE InviteRead(x, a, u)
      <3>1. req'[x] = [Idle EXCEPT !.pc = "invite", !.app = a, !.user = u]
            /\ appLock' = appLock /\ Room
        BY <2>4 DEF InviteRead, Start, TypeOK
      <3>2. \A k \in Rows : k \notin Refs(req'[x])
        BY <3>1 DEF Refs, Idle
      <3>3. QED
        BY <1>2, <1>3, <3>1, <3>2 DEF Moves, Starts, TypeOK
    <2>5. QED
      BY <2>1, <2>2, <2>3, <2>4
  <1>5. CASE \E a \in Apps : CancelSelect(x, a)
    <2>1. PICK a \in Apps : CancelSelect(x, a)
      BY <1>5
    <2>2. req'[x] = [Idle EXCEPT !.pc = "cancel", !.app = a, !.todo = Offers(a)]
          /\ appLock' = appLock
      BY <2>1 DEF CancelSelect, Start, TypeOK
    <2>3. /\ req'[x].pc = "cancel"
          /\ \A k \in Rows : k \in Refs(req'[x]) => collab[k] # None
      BY <2>2 DEF Refs, Idle, Offers, Is
    <2>4. ~Inserts(x)'
      BY <2>3 DEF Inserts, Adding
    <2>5. QED
      BY <1>2, <1>3, <2>2, <2>3, <2>4 DEF Moves, Keeps, Unused, TypeOK
  <1>6. CASE \E k \in Rows : AcceptLock(x, k) \/ RespondRead(x, k)
    <2>1. PICK k \in Rows : AcceptLock(x, k) \/ RespondRead(x, k)
      BY <1>6
    <2>2. PICK pc : pc = IF AcceptLock(x, k) THEN "accept"
                         ELSE IF collab[k].role = "owner" THEN "respond" ELSE "answer"
      OBVIOUS
    <2>3. appLock' = appLock /\ Room /\ collab[k] # None
      BY <2>1 DEF AcceptLock, RespondRead, Is
    <2>4. \A j \in Rows : j \in Refs(req'[x]) => j = k
      <3>1. CASE AcceptLock(x, k)
        <4>1. req'[x] = [Idle EXCEPT !.pc = "accept", !.how = "direct", !.row = k,
                                     !.app = collab[k].app, !.user = collab[k].user]
          BY <3>1 DEF AcceptLock, Start, TypeOK
        <4>2. QED
          BY <4>1 DEF Refs, Idle
      <3>2. CASE ~AcceptLock(x, k)
        <4>1. req' = [req EXCEPT ![x] = [Idle EXCEPT !.pc = pc, !.how = "legacy", !.row = k,
                                     !.app = collab[k].app, !.user = collab[k].user]]
          BY <2>1, <2>2, <3>2, Zenon DEF RespondRead, Start
        <4>2. req'[x] = [Idle EXCEPT !.pc = pc, !.how = "legacy", !.row = k,
                                     !.app = collab[k].app, !.user = collab[k].user]
          BY <4>1 DEF TypeOK
        <4>3. QED
          BY <4>2 DEF Refs, Idle
      <3>3. QED
        BY <3>1, <3>2
    <2>5. QED
      BY <1>2, <1>3, <2>3, <2>4 DEF Moves, Starts, TypeOK
  <1>7. CASE \E k \in Rows : ReinviteRead(x, k) \/ RoleRead(x, k) \/ RemoveRead(x, k) \/ LeaveRead(x, k)
    <2>1. PICK k \in Rows : ReinviteRead(x, k) \/ RoleRead(x, k) \/ RemoveRead(x, k) \/ LeaveRead(x, k)
      BY <1>7
    <2>2. PICK pc \in {"reinvite", "role", "remove"} : req'[x] = [Idle EXCEPT !.pc = pc, !.row = k]
      BY <2>1 DEF ReinviteRead, RoleRead, RemoveRead, LeaveRead, Start, TypeOK
    <2>3. appLock' = appLock /\ collab[k] # None
      BY <2>1 DEF ReinviteRead, RoleRead, RemoveRead, LeaveRead
    <2>4. /\ req'[x].pc = pc
          /\ \A j \in Rows : j \in Refs(req'[x]) => j = k
      BY <2>2 DEF Refs, Idle
    <2>5. ~Inserts(x)'
      BY <2>4 DEF Inserts, Adding
    <2>6. QED
      BY <1>2, <1>3, <2>3, <2>4, <2>5 DEF Moves, Keeps, Unused, TypeOK
  <1>8. QED
    BY <1>4, <1>5, <1>6, <1>7 DEF Arrive

(* The three commits that insert, and the other commits and rollbacks.      *)
LEMMA CommitMoves ==
  ASSUME Inv, NEW x \in Requests,
         \/ OfferRefresh(x) \/ OfferCreate(x) \/ CancelCommit(x) \/ AcceptRefused(x)
         \/ TransferCommit(x) \/ AcceptDemote(x) \/ AcceptAdd(x) \/ AcceptStale(x)
         \/ InviteWrite(x) \/ RowGone(x) \/ Abort(x)
         \/ ReinviteWrite(x) \/ RoleWrite(x) \/ RemoveWrite(x) \/ AnswerWrite(x) \/ RespondDecline(x)
  PROVE  Moves(x) /\ (Keeps(x) \/ Takes(x))
  <1>1. Finish(x) /\ TypeOK /\ Shape(x)
    BY DEF Inv, OfferRefresh, OfferCreate, CancelCommit, AcceptRefused, TransferCommit,
           AcceptDemote, AcceptAdd, AcceptStale, InviteWrite, RowGone, Abort,
           ReinviteWrite, RoleWrite, RemoveWrite, AnswerWrite, RespondDecline, RowWrite
  <1>2. Moves(x) /\ ~Inserts(x)'
    BY <1>1, FinishMoves
  <1>3. CASE AcceptRefused(x) \/ AcceptStale(x) \/ RowGone(x) \/ Abort(x)
    BY <1>2, <1>3 DEF Keeps, Unused, AcceptRefused, AcceptStale, RowGone, Abort
  <1>4. CASE OfferRefresh(x) \/ CancelCommit(x) \/ TransferCommit(x)
    BY <1>2, <1>4 DEF Keeps, Unused, OfferRefresh, CancelCommit, TransferCommit
  <1>5. CASE AcceptDemote(x)
    <2>1. collab[req[x].theirs] # None
          /\ \A k \in Rows : k # req[x].theirs => collab'[k] \in {None, collab[k]}
      BY <1>5 DEF AcceptDemote
    <2>2. QED
      BY <1>2, <2>1 DEF Keeps, Unused
  <1>6. CASE OfferCreate(x)
    <2>1. PICK new \in Unused : \A k \in Rows \ {new} : collab'[k] \in {None, collab[k]}
      BY <1>6 DEF OfferCreate
    <2>2. Inserts(x)
      BY <1>6 DEF OfferCreate, Inserts, Adding
    <2>3. QED
      BY <1>2, <2>1, <2>2 DEF Takes, Unused
  <1>7. CASE AcceptAdd(x)
    <2>1. PICK new \in Unused : \A k \in Rows \ {new} : collab'[k] \in {None, collab[k]}
      BY <1>7 DEF AcceptAdd
    <2>2. Inserts(x)
      BY <1>7 DEF AcceptAdd, Inserts, Adding
    <2>3. QED
      BY <1>2, <2>1, <2>2 DEF Takes, Unused
  <1>8. CASE InviteWrite(x)
    <2>1. PICK new \in Unused : \A k \in Rows \ {new} : collab'[k] = collab[k]
      BY <1>1, <1>8 DEF InviteWrite, Insert, TypeOK
    <2>2. Inserts(x)
      BY <1>8 DEF InviteWrite, Inserts, Adding
    <2>3. QED
      BY <1>2, <2>1, <2>2 DEF Takes, Unused
  <1>9. CASE ReinviteWrite(x) \/ RoleWrite(x) \/ RemoveWrite(x) \/ AnswerWrite(x) \/ RespondDecline(x)
    <2>1. PICK new : RowWrite(x, new)
      BY <1>9 DEF ReinviteWrite, RoleWrite, RemoveWrite, AnswerWrite, RespondDecline
    <2>2. collab[req[x].row] # None /\ \A k \in Rows : k # req[x].row => collab'[k] = collab[k]
      BY <1>1, <2>1 DEF RowWrite, TypeOK
    <2>3. QED
      BY <1>2, <2>2 DEF Keeps, Unused
  <1>10. QED
    BY <1>3, <1>4, <1>5, <1>6, <1>7, <1>8, <1>9

LEMMA ContinueMoves ==
  ASSUME Inv, AppHeld, NEW x \in Requests, Continue(x)
  PROVE  Moves(x) /\ (Keeps(x) \/ Takes(x))
  <1>1. TypeOK /\ Shape(x) /\ req[x] \in Job
    BY DEF Inv, TypeOK
  <1>2. CASE OfferSelect(x)
    <2>1. /\ req'[x] = [req[x] EXCEPT !.pc = "offers", !.todo = Offers(req[x].app)]
          /\ \A r \in Requests \ {x} : req'[r] = req[r]
          /\ req[x].pc = "offer" /\ UNCHANGED <<collab, appLock>>
      BY <1>1, <1>2 DEF OfferSelect, TypeOK
    <2>2. /\ req'[x].pc = "offers"
          /\ \A k \in Rows : k \in Refs(req'[x]) => k \in Refs(req[x]) \/ collab[k] # None
      BY <1>1, <2>1 DEF Refs, Offers, Is, Job
    <2>3. Inserts(x)
      BY <2>1 DEF Inserts, Adding
    <2>4. QED
      BY <1>1, <2>1, <2>2, <2>3 DEF Moves, Keeps, Unused
  <1>3. CASE \E k \in Rows : LockOffer(x, k) \/ LockWrite(x, k)
    <2>1. PICK k \in Rows : req' = [req EXCEPT ![x].todo = @ \ {k}] /\ UNCHANGED <<collab, appLock>>
      BY <1>3 DEF LockOffer, LockWrite
    <2>2. /\ req'[x] = [req[x] EXCEPT !.todo = @ \ {k}]
          /\ \A r \in Requests \ {x} : req'[r] = req[r]
      BY <1>1, <2>1 DEF TypeOK
    <2>3. /\ req'[x].pc = req[x].pc /\ req'[x].how = req[x].how
          /\ \A j \in Rows : j \in Refs(req'[x]) => j \in Refs(req[x])
      BY <1>1, <2>2 DEF Refs, Job
    <2>4. Inserts(x)' = Inserts(x)
      BY <2>3 DEF Inserts
    <2>5. \A a \in Apps : appLock[a] = x => req[x].pc \in {"offer", "offers", "reassign"}
      BY DEF AppHeld
    <2>6. QED
      BY <1>1, <2>1, <2>2, <2>3, <2>4, <2>5 DEF Moves, Keeps, Unused
  <1>4. CASE RespondAccept(x)
    <2>1. /\ req'[x] = [req[x] EXCEPT !.pc = "accept"]
          /\ \A r \in Requests \ {x} : req'[r] = req[r]
          /\ req[x].pc = "respond" /\ UNCHANGED <<collab, appLock>>
      BY <1>1, <1>4 DEF RespondAccept, TypeOK
    <2>2. \A k \in Rows : k \in Refs(req'[x]) => k \in Refs(req[x])
      BY <1>1, <2>1 DEF Refs, Job
    <2>3. Inserts(x)
      BY <2>1 DEF Inserts, Adding
    <2>4. \A a \in Apps : appLock[a] # x
      BY <2>1 DEF AppHeld
    <2>5. QED
      BY <2>1, <2>2, <2>3, <2>4 DEF Moves, Keeps, Unused
  <1>5. CASE AcceptReassign(x)
    <2>1. /\ req[x].pc = "accept" /\ UNCHANGED <<collab, rowLock>>
          /\ req[x].app \in Apps /\ req[x].user \in Users /\ owner[req[x].app] \in Users
          /\ appLock' = [appLock EXCEPT ![req[x].app] = x]
      BY <1>1, <1>5 DEF AcceptReassign, Shape, TypeOK
    <2>2. PICK mine \in FirstOf(req[x].app, req[x].user), theirs \in FirstOf(req[x].app, owner[req[x].app]) :
            req' = [req EXCEPT ![x].pc = "reassign", ![x].prev = owner[req[x].app],
                               ![x].mine = mine, ![x].theirs = theirs,
                               ![x].todo = {mine, theirs} \ (Held(x) \cup {None})]
      BY <1>5 DEF AcceptReassign
    <2>3. /\ req'[x] = [req[x] EXCEPT !.pc = "reassign", !.prev = owner[req[x].app],
                               !.mine = mine, !.theirs = theirs,
                               !.todo = {mine, theirs} \ (Held(x) \cup {None})]
          /\ \A r \in Requests \ {x} : req'[r] = req[r]
      BY <1>1, <2>2 DEF TypeOK
    <2>4. /\ mine # None => collab[mine] # None
          /\ theirs # None => collab[theirs] # None
      BY <2>1, FirstNames
    <2>5. /\ req'[x].pc = "reassign"
          /\ \A k \in Rows : k \in Refs(req'[x]) => k \in Refs(req[x]) \/ collab[k] # None
      BY <1>1, <2>3, <2>4 DEF Refs, Job
    <2>6. Inserts(x)
      BY <2>1 DEF Inserts, Adding
    <2>7. QED
      BY <1>1, <2>1, <2>3, <2>5, <2>6 DEF Moves, Keeps, Unused, TypeOK
  <1>6. QED
    BY <1>2, <1>3, <1>4, <1>5, CommitMoves DEF Continue

ProgressInv == Inv /\ AppHeld /\ RoomKept

LEMMA ProgressInvHolds == Spec => []ProgressInv
  <1>1. Init => AppHeld /\ RoomKept
    <2> SUFFICES ASSUME Init PROVE AppHeld /\ RoomKept
      OBVIOUS
    <2>1. Inserters = {} /\ AppHeld
      BY DEF Init, Idle, Inserters, Inserts, Adding, AppHeld
    <2>2. Cardinality(Inserters) = 0 /\ Cardinality(Unused) \in Nat
      BY <2>1, UnusedFinite, FS_EmptySet, FS_CardinalityType
    <2>3. QED
      BY <2>1, <2>2 DEF RoomKept
  <1>2. ASSUME ProgressInv, [Next]_vars
        PROVE  AppHeld' /\ RoomKept'
    <2>1. ASSUME NEW x \in Requests, Arrive(x) \/ Continue(x)
          PROVE  AppHeld' /\ RoomKept'
      <3>1. TypeOK /\ Inv /\ AppHeld /\ RoomKept
        BY <1>2 DEF ProgressInv, Inv
      <3>2. Moves(x) /\ (Keeps(x) \/ Starts(x) \/ Takes(x))
        BY <2>1, <3>1, ArriveMoves, ContinueMoves
      <3>3. QED
        BY <3>1, <3>2, AppHeldKeeps, RoomKeeps
    <2>2. ASSUME NEW k \in Rows, DeclineOffer(k)
          PROVE  AppHeld' /\ RoomKept'
      <3>1. /\ collab[k] # None /\ appLock' = appLock /\ req' = req
            /\ collab' = [collab EXCEPT ![k].status = "declined"]
            /\ collab \in [Rows -> Collaboration \cup {None}]
        BY <1>2, <2>2 DEF DeclineOffer, Is, ProgressInv, Inv, TypeOK
      <3>2. collab'[k] # None /\ \A j \in Rows \ {k} : collab'[j] = collab[j]
        <4>1. collab'[k] = [collab[k] EXCEPT !.status = "declined"]
              /\ \A j \in Rows \ {k} : collab'[j] = collab[j]
          BY <3>1
        <4>2. collab'[k] \in Collaboration
          BY <3>1, <4>1 DEF Collaboration, Statuses
        <4>3. QED
          BY <4>1, <4>2
      <3>3. Unused' = Unused /\ Inserters' = Inserters
        BY <3>1, <3>2 DEF Unused, Inserters, Inserts
      <3>4. QED
        BY <1>2, <3>1, <3>3 DEF ProgressInv, AppHeld, RoomKept
    <2>3. CASE UNCHANGED vars
      <3>1. Unused' = Unused /\ Inserters' = Inserters
        BY <2>3 DEF vars, Unused, Inserters, Inserts
      <3>2. QED
        BY <1>2, <2>3, <3>1 DEF vars, ProgressInv, AppHeld, RoomKept
    <2>4. QED
      BY <1>2, <2>1, <2>2, <2>3 DEF Next
  <1>3. QED
    BY <1>1, <1>2, InitInv, NextKeeps, PTL DEF Spec, ProgressInv

(* The requests that may have something locked.  If none of them can go on, *)
(* each waits for another of them, and the database breaks the cycle; if    *)
(* there are none, no row is locked.                                        *)
Lockers == {r \in Requests : req[r].pc \in {"offer", "offers", "cancel", "accept", "reassign"}}

LEMMA PlaceForInserter ==
  ASSUME RoomKept, NEW r \in Requests, Inserts(r)
  PROVE  Unused # {}
  <1>1. /\ IsFiniteSet(Unused) /\ IsFiniteSet(Inserters) /\ Inserters # {}
    BY UnusedFinite DEF Inserters
  <1>2. Cardinality(Inserters) # 0 /\ Cardinality(Inserters) \in Nat
    BY <1>1, FS_EmptySet, FS_CardinalityType
  <1>3. Cardinality(Unused) # 0
    BY <1>1, <1>2, FS_CardinalityType DEF RoomKept
  <1>4. QED
    BY <1>3, FS_EmptySet

LEMMA BlockedLockerWaits ==
  ASSUME ProgressInv, NEW r \in Lockers, ~MayGoOn(r)
  PROVE  Waiting(r, Lockers)
  <1>1. TypeOK /\ AppHeld /\ RoomKept /\ r \in Requests /\ req[r] \in Job /\ Shape(r)
    BY DEF ProgressInv, Inv, TypeOK, Lockers
  <1>2. CASE req[r].pc = "offer"
    BY <1>2 DEF MayGoOn
  <1>3. CASE req[r].pc = "accept"
    <2>1. req[r].app \in Apps /\ appLock[req[r].app] # None
      BY <1>1, <1>3 DEF MayGoOn, Shape
    <2>2. appLock[req[r].app] \in Lockers
      BY <1>1, <2>1 DEF TypeOK, AppHeld, Lockers
    <2>3. QED
      BY <1>3, <2>2 DEF Waiting
  <1>4. CASE req[r].pc \in {"offers", "cancel", "reassign"}
    <2>1. req[r].todo # {}
      BY <1>1, <1>4, PlaceForInserter DEF MayGoOn
    <2>2. \A k \in req[r].todo : rowLock[k] # None /\ k \in Rows
      BY <1>1, <1>4 DEF MayGoOn, Job
    <2>3. \A k \in req[r].todo : rowLock[k] \in Lockers
      BY <1>1, <2>2 DEF TypeOK, Lockers
    <2>4. QED
      BY <1>4, <2>1, <2>3 DEF Waiting
  <1>5. QED
    BY <1>2, <1>3, <1>4 DEF Lockers

LEMMA ProgressMade == ProgressInv => SomeGoOn
  <1> SUFFICES ASSUME ProgressInv, NEW r \in Requests, req[r].pc # "idle",
                      \A x \in Requests : ~MayGoOn(x)
               PROVE  FALSE
    BY DEF SomeGoOn
  <1>1. TypeOK /\ RoomKept /\ Shape(r) /\ req[r] \in Job /\ Lockers \subseteq Requests
    BY DEF ProgressInv, Inv, TypeOK, Lockers
  <1>2. Lockers = {}
    <2> SUFFICES ASSUME NEW x \in Lockers PROVE FALSE
      OBVIOUS
    <2>1. \A y \in Lockers : Waiting(y, Lockers)
      BY <1>1, BlockedLockerWaits
    <2>2. Deadlocked(x)
      BY <1>1, <2>1 DEF Deadlocked
    <2>3. QED
      BY <1>1, <2>2 DEF MayGoOn
  <1>3. \A k \in Rows : rowLock[k] = None
    BY <1>1, <1>2 DEF TypeOK, Lockers
  <1>4. req[r].pc \in {"respond", "invite", "reinvite", "answer", "role", "remove"}
    BY <1>1, <1>2 DEF Lockers, Job
  <1>5. CASE req[r].pc = "invite"
    <2>1. Unused # {}
      BY <1>1, <1>5, PlaceForInserter DEF Inserts, Adding
    <2>2. QED
      BY <1>5, <2>1 DEF MayGoOn
  <1>6. CASE req[r].pc # "invite"
    BY <1>1, <1>3, <1>4, <1>6 DEF MayGoOn, Shape
  <1>7. QED
    BY <1>5, <1>6
-----------------------------------------------------------------------------
(* Every state is typed, a locked row exists and its holder is at work, and *)
(* only the request that has the app locked is about to change its owner or *)
(* its offers.                                                              *)
THEOREM OwnershipTyped == Spec => []TypeOK
  <1>1. Inv => TypeOK
    BY DEF Inv
  <1>2. QED
    BY <1>1, InvHolds, PTL

(* An app never has two pending ownership offers: offer locks the app, so   *)
(* that it sees every offer it must replace, and nothing else makes one.    *)
THEOREM OneOffer == Spec => []OneOfferPerApp
  <1>1. Inv => OneOfferPerApp
    BY DEF Inv
  <1>2. QED
    BY <1>1, InvHolds, PTL

(* An acceptance through the ownership endpoint transfers an app only while *)
(* the offer it accepts is pending, to the user it was offered to.          *)
THEOREM OfferedAcceptance == Spec => AcceptedOfferStands
  <1>1. QED
    BY InvHolds, TakenStep, PTL DEF Spec, AcceptedOfferStands

(* The owner whom an acceptance replaces is an administrator of the app in  *)
(* the same commit, whatever happened to the rows since they were read.     *)
THEOREM DemotedOwnerKeepsAccess == Spec => PreviousOwnerKeepsAccess
  <1>1. QED
    BY InvHolds, DemotedStep, PTL DEF Spec, PreviousOwnerKeepsAccess

(* While requests are in flight one of them can go on: a request that waits *)
(* for a lock waits for one that holds some, and when all of those wait,    *)
(* they wait for each other and the database aborts one.                    *)
THEOREM SomebodyGoesOn == Spec => []SomeGoOn
  <1>1. QED
    BY ProgressInvHolds, ProgressMade, PTL

(* Hence nobody is ever stuck, MayGoOn being what the guards of the actions *)
(* say, which TLC evaluates in every state of its run.                      *)
THEOREM NeverStuck == Spec => [](GuardsTell => NobodyStuck)
  <1>1. SomeGoOn => (GuardsTell => NobodyStuck)
    BY DEF NobodyStuck
  <1>2. QED
    BY <1>1, SomebodyGoesOn, PTL
=============================================================================
