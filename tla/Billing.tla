------------------------------- MODULE Billing -------------------------------
(***************************************************************************)
(* One user's subscription and the resources it allows: the Stripe events  *)
(* that change it, the administrator's override, the limits checked before *)
(* an app or an agent is created, and the freezing of what is beyond them. *)
(*                                                                         *)
(* Requests and webhook deliveries are served by several processes; each   *)
(* is one transaction that reads, decides and commits, so two of them      *)
(* overlap between a read and the commit.  Only agents' is_frozen has an   *)
(* effect (agent_execution_service.py:441); apps carry the flag as well.   *)
(***************************************************************************)
EXTENDS Integers, Sequences, FiniteSets

CONSTANTS Paid,        \* tiers with a Stripe price
          AppLimit,    \* AppLimit[t]: apps a user of tier t may own, -1 for any number
          AgentLimit,  \* AgentLimit[t]: agents of each app
          Deliveries,  \* webhook requests that may overlap
          Clients,     \* creation requests that may overlap
          MaxCustomers, MaxEvents, MaxApps, MaxAgents  \* bounds

Tiers == Paid \union {"free"}
NoTier == "none"

ASSUME PaidAssumption == "free" \notin Paid /\ NoTier \notin Paid
ASSUME LimitAssumption == AppLimit \in [Tiers -> Int] /\ AgentLimit \in [Tiers -> Int]
ASSUME ClientsAssumption == IsFiniteSet(Clients)
ASSUME BoundAssumption ==
  MaxCustomers \in Nat /\ MaxEvents \in Nat /\ MaxApps \in Nat /\ MaxAgents \in Nat

VARIABLES sub,        \* the user's subscriptions row
          plan,       \* Stripe: the plan each customer pays, NoTier without one
          sent,       \* Stripe: the events it has sent, in order
          processed,  \* events with a stripe_event_<id> row
          hook,       \* webhook deliveries past the test for duplicates
          admin,      \* tier an override has stored and not yet applied to the resources
          apps,       \* the user's apps, oldest first
          req,        \* creation requests past the test of the limit
          applied,    \* history: how often each event took effect
          ordered     \* history: every event took effect after the ones before it

vars == <<sub, plan, sent, processed, hook, admin, apps, req, applied, ordered>>

Customers == 1 .. MaxCustomers
Status == {"none", "active", "past_due", "cancelled"}
Sub == [tier : Tiers, billing : Status, customer : {0} \union Customers,
        override : Tiers \union {NoTier}]
NoSub == [customer |-> 0]
Kinds == {"updated", "paid", "failed", "deleted"}
Event == [kind : Kinds, customer : Customers, tier : Tiers]
App == [frozen : BOOLEAN, agents : Seq(BOOLEAN)]
Idle == [op |-> "idle"]

TypeOK ==
  /\ sub \in Sub \union {NoSub}
  /\ plan \in [Customers -> Tiers \union {NoTier}]
  /\ sent \in Seq(Event) /\ Len(sent) <= MaxEvents
  /\ processed \subseteq 1 .. Len(sent)
  /\ hook \in [Deliveries -> 0 .. Len(sent)]
  /\ admin \in Tiers \union {NoTier}
  /\ apps \in Seq(App)
  /\ req \in [Clients -> {Idle} \union [op : {"app"}] \union [op : {"agent"}, app : 1 .. Len(apps)]]
  /\ applied \in [1 .. MaxEvents -> Nat]
  /\ ordered \in BOOLEAN

(* A local registration creates the row; a user of the identity provider has *)
(* none until the subscription page is first read.                           *)
Init ==
  /\ sub = NoSub
  /\ plan = [c \in Customers |-> NoTier]
  /\ sent = <<>> /\ processed = {}
  /\ hook = [d \in Deliveries |-> 0]
  /\ admin = NoTier
  /\ apps = <<>>
  /\ req = [c \in Clients |-> Idle]
  /\ applied = [i \in 1 .. MaxEvents |-> 0]
  /\ ordered = TRUE

FreeSub == [tier |-> "free", billing |-> "none", customer |-> 0, override |-> NoTier]

EffectiveTier ==
  IF sub = NoSub THEN "free" ELSE IF sub.override # NoTier THEN sub.override ELSE sub.tier

-----------------------------------------------------------------------------
(* Freezing *)

Beyond_NewestFirst(n, i, limit) == limit >= 0 /\ i > limit

(* Resources are walked newest first; those beyond the limit are frozen and  *)
(* the others are not.  The sequence holds them oldest first.                *)
Beyond(n, i, limit) == limit >= 0 /\ n - i >= limit

Freeze(tier, list) ==
  [i \in 1 .. Len(list) |->
     [frozen |-> Beyond(Len(list), i, AppLimit[tier]),
      agents |-> [k \in 1 .. Len(list[i].agents) |->
                    Beyond(Len(list[i].agents), k, AgentLimit[tier])]]]

-----------------------------------------------------------------------------
(* The subscription *)

(* GET subscription. *)
ReadSubscription ==
  /\ sub = NoSub
  /\ sub' = FreeSub
  /\ UNCHANGED <<plan, sent, processed, hook, admin, apps, req, applied, ordered>>

Send(e) == sent' = Append(sent, e)

Checkout_AnyRow ==
  /\ Len(sent) < MaxEvents
  /\ \E c \in Customers, t \in Paid :
       /\ plan[c] = NoTier
       /\ sub' = [sub EXCEPT !.customer = c]
       /\ plan' = [plan EXCEPT ![c] = t]
       /\ Send([kind |-> "updated", customer |-> c, tier |-> t])
  /\ UNCHANGED <<processed, hook, admin, apps, req, applied, ordered>>

(* A checkout creates the Stripe customer when the row has none; without a   *)
(* row the customer is not stored.  The user pays and Stripe reports it.     *)
Checkout ==
  /\ Len(sent) < MaxEvents
  /\ \E c \in Customers, t \in Paid :
       /\ plan[c] = NoTier
       /\ IF sub.customer # 0 THEN c = sub.customer ELSE \A e \in 1 .. Len(sent) : sent[e].customer # c
       /\ sub' = IF sub = NoSub THEN sub ELSE [sub EXCEPT !.customer = c]
       /\ plan' = [plan EXCEPT ![c] = t]
       /\ Send([kind |-> "updated", customer |-> c, tier |-> t])
  /\ UNCHANGED <<processed, hook, admin, apps, req, applied, ordered>>

(* The billing portal: the plan is changed or cancelled; invoices are paid   *)
(* or not.                                                                   *)
StripeActs ==
  /\ Len(sent) < MaxEvents
  /\ \E c \in Customers :
       /\ plan[c] # NoTier
       /\ \/ \E t \in Paid : /\ t # plan[c]
                             /\ plan' = [plan EXCEPT ![c] = t]
                             /\ Send([kind |-> "updated", customer |-> c, tier |-> t])
          \/ /\ plan' = [plan EXCEPT ![c] = NoTier]
             /\ Send([kind |-> "deleted", customer |-> c, tier |-> "free"])
          \/ \E k \in {"paid", "failed"} :
               plan' = plan /\ Send([kind |-> k, customer |-> c, tier |-> plan[c]])
  /\ UNCHANGED <<sub, processed, hook, admin, apps, req, applied, ordered>>

(* A delivery arrives, in any order and perhaps again: one whose event is    *)
(* already marked is dropped.                                                *)
Arrive ==
  /\ \E d \in Deliveries, i \in 1 .. Len(sent) :
       /\ hook[d] = 0
       /\ i \notin processed
       /\ hook' = [hook EXCEPT ![d] = i]
  /\ UNCHANGED <<sub, plan, sent, processed, admin, apps, req, applied, ordered>>

NewSub_CancelKeepsTier(e) ==
  CASE e.kind = "updated" -> [sub EXCEPT !.tier = e.tier, !.billing = "active"]
    [] e.kind = "paid" -> [sub EXCEPT !.billing = "active"]
    [] e.kind = "failed" -> [sub EXCEPT !.billing = "past_due"]
    [] e.kind = "deleted" -> [sub EXCEPT !.billing = "cancelled"]

(* _on_invoice_paid, _on_invoice_payment_failed, _on_subscription_updated.   *)
(* A price that is not one of the two configured is the free tier.           *)
NewSub(e) ==
  CASE e.kind = "updated" -> [sub EXCEPT !.tier = e.tier, !.billing = "active"]
    [] e.kind = "paid" -> [sub EXCEPT !.billing = "active"]
    [] e.kind = "failed" -> [sub EXCEPT !.billing = "past_due"]
    [] e.kind = "deleted" -> [sub EXCEPT !.tier = "free", !.billing = "cancelled"]

Known(e) == sub # NoSub /\ sub.customer = e.customer

Commit_NoUniqueKey ==
  /\ \E d \in Deliveries :
       LET i == hook[d]
       IN  /\ i # 0
           /\ hook' = [hook EXCEPT ![d] = 0]
           /\ sub' = IF Known(sent[i]) THEN NewSub(sent[i]) ELSE sub
           /\ processed' = processed \union {i}
           /\ applied' = [applied EXCEPT ![i] = @ + 1]
  /\ UNCHANGED <<plan, sent, admin, apps, req, ordered>>

Commit_UnknownUnmarked ==
  /\ \E d \in Deliveries :
       LET i == hook[d]
       IN  /\ i # 0
           /\ hook' = [hook EXCEPT ![d] = 0]
           /\ IF i \in processed \/ ~Known(sent[i])
              THEN UNCHANGED <<sub, processed, applied>>
              ELSE /\ sub' = NewSub(sent[i])
                   /\ processed' = processed \union {i}
                   /\ applied' = [applied EXCEPT ![i] = @ + 1]
  /\ UNCHANGED <<plan, sent, admin, apps, req, ordered>>

(* The handler's changes and the row that marks the event commit together;   *)
(* the key of that row is unique, so the second of two deliveries of one     *)
(* event fails and rolls back.  A deletion freezes at the limits of the free *)
(* tier; no other event touches the resources.                               *)
Commit ==
  /\ \E d \in Deliveries :
       LET i == hook[d]
       IN  /\ i # 0
           /\ hook' = [hook EXCEPT ![d] = 0]
           /\ IF i \in processed
              THEN UNCHANGED <<sub, apps, processed, applied, ordered>>
              ELSE /\ sub' = IF Known(sent[i]) THEN NewSub(sent[i]) ELSE sub
                   /\ apps' = IF Known(sent[i]) /\ sent[i].kind = "deleted"
                              THEN Freeze("free", apps) ELSE apps
                   /\ processed' = processed \union {i}
                   /\ applied' = [applied EXCEPT ![i] = @ + 1]
                   /\ ordered' = (ordered /\ \A j \in 1 .. i - 1 : j \in processed)
  /\ UNCHANGED <<plan, sent, admin, req>>

(* A delivery whose process dies, or whose transaction fails, changes        *)
(* nothing and Stripe sends the event again.                                 *)
DeliveryLost ==
  /\ \E d \in Deliveries : hook[d] # 0 /\ hook' = [hook EXCEPT ![d] = 0]
  /\ UNCHANGED <<sub, plan, sent, processed, admin, apps, req, applied, ordered>>

(* PUT users/{id}/tier: the override commits, the freeze is a transaction of *)
(* its own.                                                                  *)
Override ==
  /\ admin = NoTier
  /\ \E t \in Tiers :
       /\ sub' = [(IF sub = NoSub THEN FreeSub ELSE sub) EXCEPT !.override = t]
       /\ admin' = t
  /\ UNCHANGED <<plan, sent, processed, hook, apps, req, applied, ordered>>

OverrideFreeze ==
  /\ admin # NoTier
  /\ apps' = Freeze(admin, apps)
  /\ admin' = NoTier
  /\ UNCHANGED <<sub, plan, sent, processed, hook, req, applied, ordered>>

-----------------------------------------------------------------------------
(* Resources *)

Allows_OneMore(limit, count) == limit < 0 \/ count <= limit

Allows(limit, count) == limit < 0 \/ count < limit

(* The limit is checked; the insert is a later statement. *)
CheckApp(c) ==
  /\ req[c] = Idle
  /\ Allows(AppLimit[EffectiveTier], Len(apps))
  /\ req' = [req EXCEPT ![c] = [op |-> "app"]]
  /\ UNCHANGED <<sub, plan, sent, processed, hook, admin, apps, applied, ordered>>

CreateApp(c) ==
  /\ req[c].op = "app"
  /\ Len(apps) < MaxApps
  /\ apps' = Append(apps, [frozen |-> FALSE, agents |-> <<>>])
  /\ req' = [req EXCEPT ![c] = Idle]
  /\ UNCHANGED <<sub, plan, sent, processed, hook, admin, applied, ordered>>

(* The limit of an app's agents is that of the app's owner. *)
CheckAgent(c) ==
  /\ req[c] = Idle
  /\ \E a \in 1 .. Len(apps) :
       /\ Allows(AgentLimit[EffectiveTier], Len(apps[a].agents))
       /\ req' = [req EXCEPT ![c] = [op |-> "agent", app |-> a]]
  /\ UNCHANGED <<sub, plan, sent, processed, hook, admin, apps, applied, ordered>>

CreateAgent(c) ==
  /\ req[c].op = "agent"
  /\ LET a == req[c].app
     IN  /\ Len(apps[a].agents) < MaxAgents
         /\ apps' = [apps EXCEPT ![a].agents = Append(@, FALSE)]
  /\ req' = [req EXCEPT ![c] = Idle]
  /\ UNCHANGED <<sub, plan, sent, processed, hook, admin, applied, ordered>>

Without(s, i) == SubSeq(s, 1, i - 1) \o SubSeq(s, i + 1, Len(s))

(* A deletion recalculates nothing: recalculate_on_delete has no caller.     *)
(* Requests that name an app by its place are moved with it; one whose app   *)
(* is deleted fails.                                                         *)
DeleteApp ==
  /\ \E a \in 1 .. Len(apps) :
       /\ apps' = Without(apps, a)
       /\ req' = [c \in Clients |->
            IF req[c].op # "agent" \/ req[c].app < a THEN req[c]
            ELSE IF req[c].app = a THEN Idle
            ELSE [req[c] EXCEPT !.app = @ - 1]]
  /\ UNCHANGED <<sub, plan, sent, processed, hook, admin, applied, ordered>>

DeleteAgent ==
  /\ \E a \in 1 .. Len(apps) : \E k \in 1 .. Len(apps[a].agents) :
       apps' = [apps EXCEPT ![a].agents = Without(@, k)]
  /\ UNCHANGED <<sub, plan, sent, processed, hook, admin, req, applied, ordered>>

Next ==
  \/ ReadSubscription \/ Checkout \/ StripeActs
  \/ Arrive \/ Commit \/ DeliveryLost
  \/ Override \/ OverrideFreeze
  \/ \E c \in Clients : CheckApp(c) \/ CreateApp(c) \/ CheckAgent(c) \/ CreateAgent(c)
  \/ DeleteApp \/ DeleteAgent

Spec == Init /\ [][Next]_vars

(* Stripe repeats an event until a delivery of it succeeds, and not every    *)
(* delivery is lost.                                                         *)
ArriveOf(i) ==
  /\ \E d \in Deliveries : hook[d] = 0 /\ i \notin processed /\ hook' = [hook EXCEPT ![d] = i]
  /\ UNCHANGED <<sub, plan, sent, processed, admin, apps, req, applied, ordered>>
Fairness ==
  /\ \A i \in 1 .. MaxEvents : SF_vars(i <= Len(sent) /\ ArriveOf(i))
  /\ \A i \in 1 .. MaxEvents : SF_vars(Commit /\ i \notin processed /\ i \in processed')
FairSpec == Spec /\ Fairness

-----------------------------------------------------------------------------
(* Properties *)

(* An event takes effect at most once, however often and in however many     *)
(* overlapping deliveries it arrives.                                        *)
AppliedOnce == \A i \in 1 .. MaxEvents : applied[i] <= 1

(* Every event takes effect in the end, though deliveries of it are lost or  *)
(* collide.                                                                  *)
EventProcessed == \A i \in 1 .. MaxEvents : [](i <= Len(sent) => <>(i \in processed))

(* When the events took effect in the order they were sent and none is left, *)
(* the tier of the row is the plan the customer pays.  (Events are applied   *)
(* as they arrive; out of order, a late update outlives a cancellation.)     *)
SubscriptionAgrees ==
  (ordered /\ processed = 1 .. Len(sent) /\ sub.customer # 0)
    => sub.tier = IF plan[sub.customer] = NoTier THEN "free" ELSE plan[sub.customer]

(* Creations that overlap pass the same check, so the limit of the best tier *)
(* may be exceeded, by less than the number of requests at once.             *)
AppsBounded ==
  \A best \in Tiers :
    AppLimit[best] > 0 /\ (\A t \in Tiers : 0 <= AppLimit[t] /\ AppLimit[t] <= AppLimit[best])
      => Len(apps) <= AppLimit[best] + Cardinality(Clients) - 1

(* The newest resources are the ones that stay usable: no frozen app or      *)
(* agent is newer than one that is not.                                      *)
FrozenAreOldest ==
  \A i, j \in 1 .. Len(apps) :
    /\ i < j /\ apps[j].frozen => apps[i].frozen
    /\ \A k, m \in 1 .. Len(apps[i].agents) :
         k < m /\ apps[i].agents[m] => apps[i].agents[k]

=============================================================================
