---------------------------- MODULE BillingProofs ----------------------------
(***************************************************************************)
(* Typing of Billing, its limits and the effect of Stripe's events, for    *)
(* any tiers, limits, deliveries, requests and bounds.                     *)
(***************************************************************************)
EXTENDS Billing, SequenceTheorems, FiniteSetTheorems, TLAPS

-----------------------------------------------------------------------------
(* Sequences *)

(* The sequence with one element left out.                                   *)
LEMMA WithoutSeq ==
  ASSUME NEW S, NEW s \in Seq(S), NEW i \in 1 .. Len(s)
  PROVE  /\ Without(s, i) \in Seq(S)
         /\ Len(Without(s, i)) = Len(s) - 1
         /\ \A k \in 1 .. Len(s) - 1 : Without(s, i)[k] = IF k < i THEN s[k] ELSE s[k + 1]
<1> DEFINE a == SubSeq(s, 1, i - 1)
           b == SubSeq(s, i + 1, Len(s))
<1>1. Len(s) \in Nat /\ i \in Nat /\ \A k \in 1 .. Len(s) : s[k] \in S
  BY LenProperties, ElementOfSeq
<1>2. a \in Seq(S) /\ Len(a) = i - 1 /\ \A k \in 1 .. i - 1 : a[k] = s[k]
  <2>1. \A k \in 1 .. i - 1 : s[k] \in S
    BY <1>1
  <2> QED
    BY <1>1, <2>1, SubSeqProperties
<1>3. b \in Seq(S) /\ Len(b) = Len(s) - i /\ \A k \in 1 .. Len(s) - i : b[k] = s[i + k]
  <2>1. \A k \in i + 1 .. Len(s) : s[k] \in S
    BY <1>1
  <2> QED
    BY <1>1, <2>1, SubSeqProperties
<1> HIDE DEF a, b
<1>4. PICK w : w = a \o b
  OBVIOUS
<1>5. /\ w \in Seq(S) /\ Len(w) = Len(a) + Len(b)
      /\ \A k \in 1 .. Len(a) + Len(b) : w[k] = IF k <= Len(a) THEN a[k] ELSE b[k - Len(a)]
  BY <1>2, <1>3, <1>4, ConcatProperties
<1>6. ASSUME NEW k \in 1 .. Len(s) - 1 PROVE w[k] = IF k < i THEN s[k] ELSE s[k + 1]
  <2>1. CASE k < i
    BY <1>1, <1>2, <1>3, <1>5, <2>1
  <2>2. CASE k >= i
    <3>0. /\ k \in 1 .. Len(a) + Len(b) /\ ~(k <= Len(a)) /\ Len(a) = i - 1
          /\ k - (i - 1) \in 1 .. Len(s) - i
      BY <1>1, <1>2, <1>3, <2>2
    <3>1. w[k] = b[k - (i - 1)] /\ k - (i - 1) \in 1 .. Len(s) - i
      BY <1>5, <3>0
    <3>2. b[k - (i - 1)] = s[i + (k - (i - 1))] /\ i + (k - (i - 1)) = k + 1
      BY <1>1, <1>3, <3>1
    <3> QED
      BY <1>1, <2>2, <3>1, <3>2
  <2> QED
    BY <1>1, <2>1, <2>2
<1>7. Without(s, i) = w
  BY <1>4 DEF Without, a, b
<1>8. Len(w) = Len(s) - 1
  BY <1>1, <1>2, <1>3, <1>5
<1> QED
  BY <1>5, <1>6, <1>7, <1>8

-----------------------------------------------------------------------------
(* Typing *)

LEMMA AppTyped ==
  ASSUME TypeOK, NEW a \in 1 .. Len(apps)
  PROVE  /\ apps[a] \in App /\ apps[a].frozen \in BOOLEAN /\ apps[a].agents \in Seq(BOOLEAN)
         /\ Len(apps[a].agents) \in Nat
<1>1. apps \in Seq(App)
  BY DEF TypeOK
<1>2. apps[a] \in App
  BY <1>1, ElementOfSeq
<1>3. apps[a].agents \in Seq(BOOLEAN)
  BY <1>2 DEF App
<1> QED
  BY <1>2, <1>3, LenProperties DEF App

(* Freezing changes flags and no list.                                       *)
LEMMA FreezeTyped ==
  ASSUME TypeOK, NEW t \in Tiers
  PROVE  /\ Freeze(t, apps) \in Seq(App) /\ Len(Freeze(t, apps)) = Len(apps)
         /\ \A i \in 1 .. Len(apps) :
              /\ Freeze(t, apps)[i].frozen = Beyond(Len(apps), i, AppLimit[t])
              /\ Len(Freeze(t, apps)[i].agents) = Len(apps[i].agents)
              /\ \A k \in 1 .. Len(apps[i].agents) :
                   Freeze(t, apps)[i].agents[k] = Beyond(Len(apps[i].agents), k, AgentLimit[t])
<1> DEFINE agents(i) == [k \in 1 .. Len(apps[i].agents) |->
                           Beyond(Len(apps[i].agents), k, AgentLimit[t])]
           app(i) == [frozen |-> Beyond(Len(apps), i, AppLimit[t]), agents |-> agents(i)]
<1>1. Len(apps) \in Nat
  BY LenProperties DEF TypeOK
<1>2. ASSUME NEW i \in 1 .. Len(apps)
      PROVE  /\ app(i) \in App /\ app(i).agents = agents(i) /\ Len(agents(i)) = Len(apps[i].agents)
             /\ app(i).frozen = Beyond(Len(apps), i, AppLimit[t])
             /\ \A k \in 1 .. Len(apps[i].agents) :
                  app(i).agents[k] = Beyond(Len(apps[i].agents), k, AgentLimit[t])
  <2>1. Len(apps[i].agents) \in Nat
    BY <1>2, AppTyped
  <2>2. agents(i) \in [1 .. Len(apps[i].agents) -> BOOLEAN]
    BY DEF Beyond
  <2>3. agents(i) \in Seq(BOOLEAN)
    BY <2>1, <2>2, SeqDef
  <2>4. Len(agents(i)) = Len(apps[i].agents)
    BY <2>1, <2>3, LenProperties
  <2>5. Beyond(Len(apps), i, AppLimit[t]) \in BOOLEAN
    BY DEF Beyond
  <2> QED
    BY <2>3, <2>4, <2>5 DEF App
<1>3. Freeze(t, apps) = [i \in 1 .. Len(apps) |-> app(i)]
  BY DEF Freeze
<1> HIDE DEF app, agents
<1>4. Freeze(t, apps) \in [1 .. Len(apps) -> App]
  BY <1>2, <1>3
<1>5. Freeze(t, apps) \in Seq(App)
  BY <1>1, <1>4, SeqDef
<1>6. Len(Freeze(t, apps)) = Len(apps)
  BY <1>1, <1>4, <1>5, LenProperties
<1>7. \A i \in 1 .. Len(apps) : Freeze(t, apps)[i] = app(i)
  BY <1>3
<1> QED
  BY <1>2, <1>5, <1>6, <1>7

LEMMA FreeTyped == FreeSub \in Sub /\ FreeSub.tier = "free" /\ FreeSub.customer = 0
  BY PaidAssumption DEF FreeSub, Sub, Tiers, Status, NoTier

LEMMA SubTyped ==
  ASSUME TypeOK, sub.customer # 0
  PROVE  sub \in Sub /\ sub.tier \in Tiers /\ sub.customer \in Customers /\ sub # NoSub
  BY DEF TypeOK, Sub, NoSub

(* The events Stripe has sent.                                               *)
LEMMA SentTyped ==
  ASSUME TypeOK
  PROVE  /\ sent \in Seq(Event) /\ Len(sent) \in Nat /\ MaxEvents \in Nat
         /\ \A j \in 1 .. Len(sent) : sent[j] \in Event
  BY LenProperties, ElementOfSeq, BoundAssumption DEF TypeOK

LEMMA SendTyped ==
  ASSUME TypeOK, Len(sent) < MaxEvents, NEW k \in Kinds, NEW c \in Customers, NEW t \in Tiers,
         Send([kind |-> k, customer |-> c, tier |-> t])
  PROVE  /\ sent' \in Seq(Event) /\ Len(sent') = Len(sent) + 1 /\ Len(sent') <= MaxEvents
         /\ sent'[Len(sent) + 1] \in Event
         /\ sent'[Len(sent) + 1].kind = k /\ sent'[Len(sent) + 1].customer = c
         /\ sent'[Len(sent) + 1].tier = t
         /\ \A j \in 1 .. Len(sent) : sent'[j] = sent[j]
         /\ 1 .. Len(sent) \subseteq 1 .. Len(sent') /\ 0 .. Len(sent) \subseteq 0 .. Len(sent')
<1>1. PICK e : e = [kind |-> k, customer |-> c, tier |-> t]
  OBVIOUS
<1>2. e \in Event /\ e.kind = k /\ e.customer = c /\ e.tier = t
  BY <1>1 DEF Event
<1>3. sent' = Append(sent, e)
  BY <1>1 DEF Send
<1> QED
  BY <1>2, <1>3, SentTyped, AppendProperties

LEMMA NewSubTyped ==
  ASSUME TypeOK, NEW e \in Event, Known(e)
  PROVE  /\ NewSub(e) \in Sub /\ NewSub(e).customer = sub.customer
         /\ NewSub(e).tier = IF e.kind = "updated" THEN e.tier
                             ELSE IF e.kind = "deleted" THEN "free" ELSE sub.tier
<1>1. PICK s : s = sub
  OBVIOUS
<1>2. s \in Sub /\ e.kind \in Kinds /\ e.tier \in Tiers /\ "free" \in Tiers
  BY <1>1 DEF TypeOK, Known, Event, Tiers
<1>3. CASE e.kind = "updated"
  BY <1>1, <1>2, <1>3 DEF NewSub, Sub, Status
<1>4. CASE e.kind = "paid"
  BY <1>1, <1>2, <1>4 DEF NewSub, Sub, Status
<1>5. CASE e.kind = "failed"
  BY <1>1, <1>2, <1>5 DEF NewSub, Sub, Status
<1>6. CASE e.kind = "deleted"
  BY <1>1, <1>2, <1>6 DEF NewSub, Sub, Status
<1> QED
  BY <1>2, <1>3, <1>4, <1>5, <1>6 DEF Kinds

LEMMA InitTyped == Init => TypeOK
<1> SUFFICES ASSUME Init PROVE TypeOK
  OBVIOUS
<1>1. sent \in Seq(Event) /\ Len(sent) = 0 /\ apps \in Seq(App) /\ Len(apps) = 0
  BY EmptySeq DEF Init
<1> QED
  BY <1>1, BoundAssumption DEF Init, TypeOK, Tiers, NoTier

LEMMA TypeStep == TypeOK /\ [Next]_vars => TypeOK'
<1> SUFFICES ASSUME TypeOK, [Next]_vars PROVE TypeOK'
  OBVIOUS
<1> USE BoundAssumption
<1>0. Len(sent) \in Nat /\ Len(apps) \in Nat
  BY LenProperties DEF TypeOK
<1>1. CASE ReadSubscription
  BY <1>1, FreeTyped DEF ReadSubscription, TypeOK
<1>2. ASSUME NEW k \in Kinds, NEW c \in Customers, NEW t \in Tiers, Len(sent) < MaxEvents,
             Send([kind |-> k, customer |-> c, tier |-> t]),
             sub' \in Sub \union {NoSub}, plan' \in [Customers -> Tiers \union {NoTier}],
             UNCHANGED <<processed, hook, admin, apps, req, applied, ordered>>
      PROVE  TypeOK'
  BY <1>2, SendTyped DEF TypeOK
<1>3. CASE Checkout
  <2>1. PICK c \in Customers, t \in Paid :
          /\ plan' = [plan EXCEPT ![c] = t]
          /\ sub' = IF sub = NoSub THEN sub ELSE [sub EXCEPT !.customer = c]
          /\ Send([kind |-> "updated", customer |-> c, tier |-> t])
    BY <1>3 DEF Checkout
  <2>2. sub' \in Sub \union {NoSub}
    BY <2>1 DEF TypeOK, Sub
  <2>3. t \in Tiers /\ "updated" \in Kinds /\ plan' \in [Customers -> Tiers \union {NoTier}]
    BY <2>1 DEF Tiers, Kinds, TypeOK
  <2> QED
    BY <1>2, <1>3, <2>1, <2>2, <2>3 DEF Checkout
<1>4. CASE StripeActs
  <2>1. PICK c \in Customers :
          /\ plan[c] # NoTier
          /\ \/ \E t \in Paid : /\ plan' = [plan EXCEPT ![c] = t]
                                /\ Send([kind |-> "updated", customer |-> c, tier |-> t])
             \/ /\ plan' = [plan EXCEPT ![c] = NoTier]
                /\ Send([kind |-> "deleted", customer |-> c, tier |-> "free"])
             \/ \E k \in {"paid", "failed"} :
                  plan' = plan /\ Send([kind |-> k, customer |-> c, tier |-> plan[c]])
    BY <1>4 DEF StripeActs
  <2>2. plan' \in [Customers -> Tiers \union {NoTier}]
    BY <2>1 DEF TypeOK, Tiers
  <2>3. \E k \in Kinds, t \in Tiers : Send([kind |-> k, customer |-> c, tier |-> t])
    <3>1. plan[c] \in Tiers /\ "free" \in Tiers /\ Paid \subseteq Tiers
      BY <2>1 DEF TypeOK, Tiers
    <3> QED
      BY <2>1, <3>1 DEF Kinds
  <2> QED
    BY <1>2, <1>4, <2>2, <2>3 DEF StripeActs, TypeOK
<1>5. CASE Arrive
  BY <1>0, <1>5 DEF Arrive, TypeOK
<1>6. CASE Commit
  <2>1. PICK d \in Deliveries : hook[d] # 0 /\ hook' = [hook EXCEPT ![d] = 0] /\
           IF hook[d] \in processed
           THEN UNCHANGED <<sub, apps, processed, applied, ordered>>
           ELSE /\ sub' = IF Known(sent[hook[d]]) THEN NewSub(sent[hook[d]]) ELSE sub
                /\ apps' = IF Known(sent[hook[d]]) /\ sent[hook[d]].kind = "deleted"
                           THEN Freeze("free", apps) ELSE apps
                /\ processed' = processed \union {hook[d]}
                /\ applied' = [applied EXCEPT ![hook[d]] = @ + 1]
                /\ ordered' = (ordered /\ \A j \in 1 .. hook[d] - 1 : j \in processed)
    BY <1>6 DEF Commit
  <2>2. hook[d] \in 1 .. Len(sent) /\ sent[hook[d]] \in Event
    BY <1>0, <2>1, SentTyped DEF TypeOK
  <2>3. hook' \in [Deliveries -> 0 .. Len(sent)] /\ UNCHANGED <<plan, sent, admin, req>>
    BY <1>0, <1>6, <2>1 DEF Commit, TypeOK
  <2>4. CASE hook[d] \in processed
    BY <2>1, <2>3, <2>4 DEF TypeOK
  <2>5. CASE hook[d] \notin processed
    <3>1. sub' \in Sub \union {NoSub}
      BY <2>1, <2>2, <2>5, NewSubTyped DEF TypeOK
    <3>2. apps' \in Seq(App) /\ Len(apps') = Len(apps)
      BY <2>1, <2>5, FreezeTyped DEF TypeOK, Tiers
    <3>3. processed' \subseteq 1 .. Len(sent) /\ applied' \in [1 .. MaxEvents -> Nat]
      <4>1. PICK i \in 1 .. Len(sent) : i = hook[d]
        BY <2>2
      <4>2. processed' = processed \union {i} /\ applied' = [applied EXCEPT ![i] = applied[i] + 1]
        BY <2>1, <2>5, <4>1
      <4>3. i \in 1 .. MaxEvents /\ applied[i] + 1 \in Nat
        BY <1>0, <4>1 DEF TypeOK
      <4> QED
        BY <4>2, <4>3 DEF TypeOK
    <3> QED
      BY <2>1, <2>3, <2>5, <3>1, <3>2, <3>3 DEF TypeOK
  <2> QED
    BY <2>4, <2>5
<1>7. CASE DeliveryLost
  BY <1>0, <1>7 DEF DeliveryLost, TypeOK
<1>8. CASE Override
  <2>1. PICK t \in Tiers : /\ sub' = [(IF sub = NoSub THEN FreeSub ELSE sub) EXCEPT !.override = t]
                           /\ admin' = t
    BY <1>8 DEF Override
  <2>2. PICK s \in Sub : s = IF sub = NoSub THEN FreeSub ELSE sub
    BY FreeTyped DEF TypeOK
  <2>3. sub' \in Sub
    BY <2>1, <2>2 DEF Sub
  <2> QED
    BY <1>8, <2>1, <2>3 DEF Override, TypeOK
<1>9. CASE OverrideFreeze
  BY <1>9, FreezeTyped DEF OverrideFreeze, TypeOK
<1>10. ASSUME NEW c \in Clients, CheckApp(c) PROVE TypeOK'
  <2>1. PICK r \in [op : {"app"}] : r = [op |-> "app"]
    OBVIOUS
  <2>2. req' = [req EXCEPT ![c] = r]
    BY <1>10, <2>1 DEF CheckApp
  <2> QED
    BY <1>10, <2>2 DEF CheckApp, TypeOK
<1>11. ASSUME NEW c \in Clients, CreateApp(c) PROVE TypeOK'
  <2>1. PICK a \in App : a = [frozen |-> FALSE, agents |-> <<>>]
    BY EmptySeq DEF App
  <2>2. apps' \in Seq(App) /\ Len(apps') = Len(apps) + 1
    BY <1>11, <2>1, AppendProperties DEF CreateApp, TypeOK
  <2>3. 1 .. Len(apps) \subseteq 1 .. Len(apps')
    BY <1>0, <2>2
  <2> QED
    BY <1>11, <2>2, <2>3 DEF CreateApp, TypeOK
<1>12. ASSUME NEW c \in Clients, CheckAgent(c) PROVE TypeOK'
  <2>1. PICK a \in 1 .. Len(apps) : req' = [req EXCEPT ![c] = [op |-> "agent", app |-> a]]
    BY <1>12 DEF CheckAgent
  <2>2. PICK r \in [op : {"agent"}, app : 1 .. Len(apps)] : r = [op |-> "agent", app |-> a]
    OBVIOUS
  <2> QED
    BY <1>12, <2>1, <2>2 DEF CheckAgent, TypeOK
<1>13. ASSUME NEW c \in Clients, CreateAgent(c) PROVE TypeOK'
  <2>1. req[c].app \in 1 .. Len(apps)
    BY <1>13 DEF CreateAgent, TypeOK, Idle
  <2>2. PICK a \in 1 .. Len(apps) : a = req[c].app
    BY <2>1
  <2>3. PICK l \in Seq(BOOLEAN) : l = Append(apps[a].agents, FALSE)
    BY AppTyped, AppendProperties
  <2>4. PICK r \in App : r = [apps[a] EXCEPT !.agents = l]
    BY AppTyped DEF App
  <2>5. apps' = [apps EXCEPT ![a] = r]
    BY <1>13, <2>2, <2>3, <2>4 DEF CreateAgent
  <2>6. apps' \in Seq(App) /\ Len(apps') = Len(apps)
    BY <2>5, ExceptSeq DEF TypeOK
  <2> QED
    BY <1>13, <2>6 DEF CreateAgent, TypeOK
<1>14. CASE DeleteApp
  <2>1. PICK a \in 1 .. Len(apps) :
          /\ apps' = Without(apps, a)
          /\ req' = [c \in Clients |->
               IF req[c].op # "agent" \/ req[c].app < a THEN req[c]
               ELSE IF req[c].app = a THEN Idle
               ELSE [req[c] EXCEPT !.app = @ - 1]]
    BY <1>14 DEF DeleteApp
  <2>2. apps' \in Seq(App) /\ Len(apps') = Len(apps) - 1
    BY <2>1, WithoutSeq DEF TypeOK
  <2>3. ASSUME NEW c \in Clients
        PROVE  req'[c] \in {Idle} \union [op : {"app"}] \union [op : {"agent"}, app : 1 .. Len(apps')]
    <3>1. req'[c] = IF req[c].op # "agent" \/ req[c].app < a THEN req[c]
                    ELSE IF req[c].app = a THEN Idle
                    ELSE [req[c] EXCEPT !.app = @ - 1]
      BY <2>1
    <3>2. req[c] \in {Idle} \union [op : {"app"}] \union [op : {"agent"}, app : 1 .. Len(apps)]
      BY DEF TypeOK
    <3>3. CASE req[c].op # "agent"
      BY <3>1, <3>2, <3>3
    <3>4. CASE req[c].op = "agent"
      <4>1. req[c] \in [op : {"agent"}, app : 1 .. Len(apps)]
        BY <3>2, <3>4 DEF Idle
      <4>2. PICK r \in [op : {"agent"}, app : 1 .. Len(apps)] : r = req[c]
        BY <4>1
      <4> QED
        BY <1>0, <2>2, <3>1, <3>4, <4>2
    <3> QED
      BY <3>3, <3>4
  <2> QED
    BY <1>14, <2>1, <2>2, <2>3 DEF DeleteApp, TypeOK
<1>15. CASE DeleteAgent
  <2>0. PICK a \in 1 .. Len(apps) :
          \E k \in 1 .. Len(apps[a].agents) : apps' = [apps EXCEPT ![a].agents = Without(@, k)]
    BY <1>15 DEF DeleteAgent
  <2>1. PICK k \in 1 .. Len(apps[a].agents) : apps' = [apps EXCEPT ![a].agents = Without(@, k)]
    BY <2>0
  <2>2. PICK l \in Seq(BOOLEAN) : l = Without(apps[a].agents, k)
    BY AppTyped, WithoutSeq
  <2>3. PICK r \in App : r = [apps[a] EXCEPT !.agents = l]
    BY AppTyped DEF App
  <2>4. apps' = [apps EXCEPT ![a] = r]
    BY <2>1, <2>2, <2>3
  <2>5. apps' \in Seq(App) /\ Len(apps') = Len(apps)
    BY <2>4, ExceptSeq DEF TypeOK
  <2> QED
    BY <1>15, <2>5 DEF DeleteAgent, TypeOK
<1>16. CASE UNCHANGED vars
  BY <1>16 DEF vars, TypeOK
<1> QED
  BY <1>1, <1>3, <1>4, <1>5, <1>6, <1>7, <1>8, <1>9, <1>10, <1>11, <1>12, <1>13, <1>14,
     <1>15, <1>16 DEF Next

(* Every reachable state is well typed: a request names an app that exists,  *)
(* a delivery an event that was sent (TypeOK).                               *)
THEOREM BillingTyped == Spec => []TypeOK
  BY InitTyped, TypeStep, PTL DEF Spec

-----------------------------------------------------------------------------
(* Events take effect once *)

UnmarkedUnapplied == \A i \in 1 .. MaxEvents : i \notin processed => applied[i] = 0

LEMMA OnceStep ==
  TypeOK /\ UnmarkedUnapplied /\ AppliedOnce /\ [Next]_vars => (UnmarkedUnapplied /\ AppliedOnce)'
<1> SUFFICES ASSUME TypeOK, UnmarkedUnapplied, AppliedOnce, [Next]_vars
             PROVE  (UnmarkedUnapplied /\ AppliedOnce)'
  OBVIOUS
<1>1. CASE Commit
  <2>1. PICK d \in Deliveries :
           \/ UNCHANGED <<processed, applied>>
           \/ /\ hook[d] \notin processed
              /\ processed' = processed \union {hook[d]}
              /\ applied' = [applied EXCEPT ![hook[d]] = @ + 1]
    BY <1>1 DEF Commit
  <2>2. CASE UNCHANGED <<processed, applied>>
    BY <2>2 DEF UnmarkedUnapplied, AppliedOnce
  <2>3. CASE /\ hook[d] \notin processed
             /\ processed' = processed \union {hook[d]}
             /\ applied' = [applied EXCEPT ![hook[d]] = @ + 1]
    <3>1. PICK i : i = hook[d]
      OBVIOUS
    <3>2. \A j \in 1 .. MaxEvents : applied'[j] = IF j = i THEN applied[j] + 1 ELSE applied[j]
      BY <2>3, <3>1 DEF TypeOK
    <3>3. \A j : j \in processed' <=> j \in processed \/ j = i
      BY <2>3, <3>1
    <3>4. \A j \in 1 .. MaxEvents : j = i => applied[j] = 0
      BY <2>3, <3>1 DEF UnmarkedUnapplied
    <3> QED
      BY <3>2, <3>3, <3>4 DEF UnmarkedUnapplied, AppliedOnce
  <2> QED
    BY <2>1, <2>2, <2>3
<1>2. ASSUME UNCHANGED <<processed, applied>> PROVE (UnmarkedUnapplied /\ AppliedOnce)'
  BY <1>2 DEF UnmarkedUnapplied, AppliedOnce
<1>3. CASE \/ ReadSubscription \/ Checkout \/ StripeActs \/ Arrive \/ DeliveryLost
           \/ Override \/ OverrideFreeze
  BY <1>2, <1>3 DEF ReadSubscription, Checkout, StripeActs, Arrive, DeliveryLost, Override, OverrideFreeze
<1>4. ASSUME NEW c \in Clients, CheckApp(c) \/ CreateApp(c) \/ CheckAgent(c) \/ CreateAgent(c)
      PROVE  (UnmarkedUnapplied /\ AppliedOnce)'
  BY <1>2, <1>4 DEF CheckApp, CreateApp, CheckAgent, CreateAgent
<1>5. CASE DeleteApp \/ DeleteAgent \/ UNCHANGED vars
  BY <1>2, <1>5 DEF DeleteApp, DeleteAgent, vars
<1> QED
  BY <1>1, <1>3, <1>4, <1>5 DEF Next

(* However often an event is delivered, and however deliveries of it         *)
(* overlap, it takes effect at most once (AppliedOnce).                      *)
THEOREM EffectOnce == Spec => []AppliedOnce
<1>1. Init => UnmarkedUnapplied /\ AppliedOnce
  BY DEF Init, UnmarkedUnapplied, AppliedOnce
<1> QED
  BY <1>1, InitTyped, TypeStep, OnceStep, PTL DEF Spec

-----------------------------------------------------------------------------
(* The limit of apps *)

(* The requests past the test of the limit, each about to add one app.       *)
Creating == {c \in Clients : req[c].op = "app"}

(* A tier whose limit no other exceeds.                                      *)
Best(t) == AppLimit[t] > 0 /\ \A u \in Tiers : 0 <= AppLimit[u] /\ AppLimit[u] <= AppLimit[t]
Room(n, S, t) == n + Cardinality(S) <= AppLimit[t] - 1 + Cardinality(Clients)
AppsInv == \A t \in Tiers : Best(t) => Room(Len(apps), Creating, t)

LEMMA ClientSets ==
  ASSUME NEW S, S \subseteq Clients
  PROVE  /\ IsFiniteSet(S) /\ Cardinality(S) \in Nat /\ Cardinality(Clients) \in Nat
         /\ Cardinality(S) <= Cardinality(Clients)
         /\ \A R \in SUBSET S : Cardinality(R) \in Nat /\ Cardinality(R) <= Cardinality(S)
         /\ \A c \in S : Cardinality(S \ {c}) = Cardinality(S) - 1
<1>1. IsFiniteSet(S)
  BY ClientsAssumption, FS_Subset
<1>2. \A R \in SUBSET S : IsFiniteSet(R) /\ Cardinality(R) <= Cardinality(S)
  BY <1>1, FS_Subset
<1>3. Cardinality(S) <= Cardinality(Clients)
  BY ClientsAssumption, FS_Subset
<1> QED
  BY <1>1, <1>2, <1>3, ClientsAssumption, FS_CardinalityType, FS_RemoveElement

(* Apps or requests go away, or nothing happens to them.                     *)
LEMMA RoomShrinks ==
  ASSUME AppsInv, Len(apps) \in Nat, Len(apps') \in Nat, Len(apps') <= Len(apps), Creating' \subseteq Creating
  PROVE  AppsInv'
<1>1. Creating \subseteq Clients /\ \A t \in Tiers : AppLimit[t] \in Int
  BY LimitAssumption DEF Creating
<1>2. Cardinality(Creating') <= Cardinality(Creating) /\ Cardinality(Creating') \in Nat
      /\ Cardinality(Creating) \in Nat /\ Cardinality(Clients) \in Nat
  BY <1>1, ClientSets
<1>3. ASSUME NEW t \in Tiers, Best(t) PROVE Room(Len(apps'), Creating', t)
  <2>1. Room(Len(apps), Creating, t) /\ AppLimit[t] \in Int
    BY <1>1, <1>3 DEF AppsInv
  <2> QED
    BY <1>2, <2>1 DEF Room
<1> QED
  BY <1>3 DEF AppsInv, Room, Best

LEMMA AppsStep == TypeOK /\ AppsInv /\ [Next]_vars => AppsInv'
<1> SUFFICES ASSUME TypeOK, AppsInv, [Next]_vars PROVE AppsInv'
  OBVIOUS
<1>0. Len(apps) \in Nat /\ apps \in Seq(App) /\ Creating \subseteq Clients /\ Creating' \subseteq Clients
      /\ \A t \in Tiers : AppLimit[t] \in Int
  BY LenProperties, LimitAssumption DEF TypeOK, Creating
<1>1. ASSUME NEW c \in Clients, CheckApp(c) PROVE AppsInv'
  <2>1. EffectiveTier \in Tiers
    BY DEF EffectiveTier, TypeOK, Sub, Tiers
  <2>2. Cardinality(Creating') \in Nat /\ Cardinality(Creating') <= Cardinality(Clients)
        /\ Cardinality(Clients) \in Nat
    BY <1>0, ClientSets
  <2>3. ASSUME NEW t \in Tiers, Best(t) PROVE Room(Len(apps), Creating', t)
    <3>1. PICK e \in Tiers : e = EffectiveTier
      BY <2>1
    <3>2. AppLimit[e] < 0 \/ Len(apps) < AppLimit[e]
      BY <1>1, <3>1 DEF CheckApp, Allows
    <3>3. 0 <= AppLimit[e] /\ AppLimit[e] <= AppLimit[t] /\ AppLimit[e] \in Int /\ AppLimit[t] \in Int
      BY <1>0, <2>3 DEF Best
    <3>4. Len(apps) <= AppLimit[t] - 1
      BY <1>0, <3>2, <3>3
    <3> QED
      BY <2>2, <1>0, <3>3, <3>4 DEF Room
  <2> QED
    BY <1>1, <2>3 DEF CheckApp, AppsInv, Room, Best
<1>2. ASSUME NEW c \in Clients, CreateApp(c) PROVE AppsInv'
  <2>1. c \in Creating /\ req' = [req EXCEPT ![c] = Idle]
    BY <1>2 DEF CreateApp, Creating
  <2>2. Creating' \subseteq Creating \ {c}
    BY <2>1 DEF Creating, TypeOK, Idle
  <2>3. PICK a \in App : a = [frozen |-> FALSE, agents |-> <<>>]
    BY EmptySeq DEF App
  <2>4. Len(apps') = Len(apps) + 1
    BY <1>0, <1>2, <2>3, AppendProperties DEF CreateApp
  <2>5. /\ Cardinality(Creating') \in Nat /\ Cardinality(Creating) \in Nat /\ Cardinality(Clients) \in Nat
        /\ Cardinality(Creating') <= Cardinality(Creating \ {c})
        /\ Cardinality(Creating \ {c}) = Cardinality(Creating) - 1
    BY <1>0, <2>1, <2>2, ClientSets
  <2> QED
    BY <1>0, <2>4, <2>5 DEF AppsInv, Room, Best
<1>3. ASSUME NEW c \in Clients, CheckAgent(c) PROVE AppsInv'
  <2>1. PICK a : req' = [req EXCEPT ![c] = [op |-> "agent", app |-> a]]
    BY <1>3 DEF CheckAgent
  <2>2. PICK r : r = [op |-> "agent", app |-> a]
    OBVIOUS
  <2>3. r.op = "agent" /\ req' = [req EXCEPT ![c] = r]
    BY <2>1, <2>2
  <2>4. Creating' \subseteq Creating
    BY <2>3 DEF Creating, TypeOK
  <2> QED
    BY <1>0, <1>3, <2>4, RoomShrinks DEF CheckAgent
<1>4. ASSUME NEW c \in Clients, CreateAgent(c) PROVE AppsInv'
  <2>1. PICK a, r : apps' = [apps EXCEPT ![a] = r]
    BY <1>4 DEF CreateAgent
  <2>2. Len(apps') = Len(apps)
    <3>1. DOMAIN apps' = DOMAIN apps
      BY <2>1
    <3>2. apps' \in Seq(App)
      BY TypeStep DEF TypeOK
    <3> QED
      BY <1>0, <3>1, <3>2, LenProperties
  <2>3. Creating' \subseteq Creating
    BY <1>4 DEF CreateAgent, Creating, TypeOK, Idle
  <2> QED
    BY <1>0, <2>2, <2>3, RoomShrinks
<1>5. CASE DeleteApp
  <2>1. PICK a \in 1 .. Len(apps) :
          /\ apps' = Without(apps, a)
          /\ req' = [c \in Clients |->
               IF req[c].op # "agent" \/ req[c].app < a THEN req[c]
               ELSE IF req[c].app = a THEN Idle
               ELSE [req[c] EXCEPT !.app = @ - 1]]
    BY <1>5 DEF DeleteApp
  <2>2. Len(apps') = Len(apps) - 1
    BY <1>0, <2>1, WithoutSeq
  <2>3. Len(apps') \in Nat /\ Len(apps') <= Len(apps)
    BY <1>0, <2>1, <2>2
  <2>4. ASSUME NEW c \in Clients, req'[c].op = "app" PROVE req[c].op = "app"
    <3>1. CASE req[c].op # "agent"
      BY <2>1, <2>4, <3>1
    <3>2. CASE req[c].op = "agent"
      <4>1. req[c] \in [op : {"agent"}, app : 1 .. Len(apps)]
        BY <3>2 DEF Idle, TypeOK
      <4>2. PICK r \in [op : {"agent"}, app : 1 .. Len(apps)] : r = req[c]
        BY <4>1
      <4>3. req'[c] = r \/ req'[c] = Idle \/ req'[c] = [r EXCEPT !.app = @ - 1]
        BY <2>1, <4>2
      <4> QED
        BY <2>4, <4>2, <4>3 DEF Idle
    <3> QED
      BY <3>1, <3>2
  <2>5. Creating' \subseteq Creating
    BY <2>4 DEF Creating
  <2> QED
    BY <1>0, <2>3, <2>5, RoomShrinks
<1>6. CASE DeleteAgent
  <2>1. PICK a, r : apps' = [apps EXCEPT ![a] = r]
    BY <1>6 DEF DeleteAgent
  <2>2. Len(apps') = Len(apps)
    <3>1. DOMAIN apps' = DOMAIN apps
      BY <2>1
    <3>2. apps' \in Seq(App)
      BY TypeStep DEF TypeOK
    <3> QED
      BY <1>0, <3>1, <3>2, LenProperties
  <2> QED
    BY <1>0, <1>6, <2>2, RoomShrinks DEF DeleteAgent, Creating
<1>7. ASSUME apps' = apps \/ (\E t \in Tiers : apps' = Freeze(t, apps)), req' = req PROVE AppsInv'
  <2>1. Len(apps') = Len(apps)
    BY <1>7, FreezeTyped
  <2> QED
    BY <1>0, <1>7, <2>1, RoomShrinks DEF Creating
<1>8. CASE Commit \/ OverrideFreeze
  <2>1. "free" \in Tiers /\ (OverrideFreeze => admin \in Tiers)
    BY DEF Tiers, OverrideFreeze, TypeOK
  <2> QED
    BY <1>7, <1>8, <2>1 DEF Commit, OverrideFreeze
<1>9. CASE \/ ReadSubscription \/ Checkout \/ StripeActs \/ Arrive \/ DeliveryLost
           \/ Override \/ UNCHANGED vars
  BY <1>7, <1>9 DEF ReadSubscription, Checkout, StripeActs, Arrive, DeliveryLost, Override, vars
<1> QED
  BY <1>1, <1>2, <1>3, <1>4, <1>5, <1>6, <1>8, <1>9 DEF Next

(* Requests that overlap exceed the limit of the best tier by less than      *)
(* their number (AppsBounded).                                               *)
THEOREM AppsHold == Spec => []AppsBounded
<1>1. Init => AppsInv
  <2> SUFFICES ASSUME Init, NEW t \in Tiers, Best(t) PROVE Room(Len(apps), Creating, t)
    BY DEF AppsInv
  <2>1. Len(apps) = 0 /\ Creating \subseteq Clients /\ AppLimit[t] \in Int
    BY EmptySeq, LimitAssumption DEF Init, Creating
  <2>2. /\ Cardinality(Creating) \in Nat /\ Cardinality(Clients) \in Nat
        /\ Cardinality(Creating) <= Cardinality(Clients) /\ AppLimit[t] > 0
    BY <2>1, ClientSets DEF Best
  <2> QED
    BY <2>1, <2>2 DEF Room
<1>2. TypeOK /\ AppsInv => AppsBounded
  <2> SUFFICES ASSUME TypeOK, AppsInv, NEW t \in Tiers, Best(t)
               PROVE  Len(apps) <= AppLimit[t] + Cardinality(Clients) - 1
    BY DEF AppsBounded, Best
  <2>1. /\ Cardinality(Creating) \in Nat /\ Cardinality(Clients) \in Nat /\ AppLimit[t] \in Int
        /\ Len(apps) \in Nat /\ Room(Len(apps), Creating, t)
    BY ClientSets, LenProperties, LimitAssumption DEF Creating, TypeOK, AppsInv
  <2> QED
    BY <2>1 DEF Room
<1> QED
  BY <1>1, <1>2, InitTyped, TypeStep, AppsStep, PTL DEF Spec

-----------------------------------------------------------------------------
(* The oldest are frozen *)

AppOrder(s) == \A i, j \in 1 .. Len(s) : i < j /\ s[j].frozen => s[i].frozen
AgentOrder(l) == \A k, m \in 1 .. Len(l) : k < m /\ l[m] => l[k]

LEMMA OldestParts ==
  ASSUME TypeOK
  PROVE  FrozenAreOldest <=> AppOrder(apps) /\ \A i \in 1 .. Len(apps) : AgentOrder(apps[i].agents)
  BY DEF FrozenAreOldest, AppOrder, AgentOrder

(* What is beyond a limit is a beginning of the list.                        *)
LEMMA BeyondOldest ==
  ASSUME NEW n \in Nat, NEW limit \in Int, NEW i \in 1 .. n, NEW j \in 1 .. n, i < j, Beyond(n, j, limit)
  PROVE  Beyond(n, i, limit)
<1>1. limit >= 0 /\ n - j >= limit
  BY DEF Beyond
<1>2. n - i >= limit
  BY <1>1
<1> QED
  BY <1>1, <1>2 DEF Beyond

LEMMA FreezeOldest ==
  ASSUME TypeOK, NEW t \in Tiers
  PROVE  /\ AppOrder(Freeze(t, apps))
         /\ \A i \in 1 .. Len(Freeze(t, apps)) : AgentOrder(Freeze(t, apps)[i].agents)
<1>1. AppLimit[t] \in Int /\ AgentLimit[t] \in Int /\ Len(apps) \in Nat
  BY LimitAssumption, LenProperties DEF TypeOK
<1>2. AppOrder(Freeze(t, apps))
  <2> SUFFICES ASSUME NEW i \in 1 .. Len(apps), NEW j \in 1 .. Len(apps), i < j, Freeze(t, apps)[j].frozen
               PROVE  Freeze(t, apps)[i].frozen
    BY FreezeTyped DEF AppOrder
  <2>1. Beyond(Len(apps), j, AppLimit[t])
    BY FreezeTyped
  <2> QED
    BY <1>1, <2>1, FreezeTyped, BeyondOldest
<1>3. ASSUME NEW i \in 1 .. Len(apps) PROVE AgentOrder(Freeze(t, apps)[i].agents)
  <2> SUFFICES ASSUME NEW k \in 1 .. Len(apps[i].agents), NEW m \in 1 .. Len(apps[i].agents), k < m,
                      Freeze(t, apps)[i].agents[m]
               PROVE  Freeze(t, apps)[i].agents[k]
    BY FreezeTyped DEF AgentOrder
  <2>1. Beyond(Len(apps[i].agents), m, AgentLimit[t])
    BY FreezeTyped
  <2>2. Beyond(Len(apps[i].agents), k, AgentLimit[t])
    BY <1>1, <2>1, AppTyped, BeyondOldest
  <2> QED
    BY <2>2, FreezeTyped
<1> QED
  BY <1>2, <1>3, FreezeTyped

(* A list keeps its order when an element leaves it or a usable one joins.   *)
LEMMA WithoutApp ==
  ASSUME NEW s \in Seq(App), AppOrder(s), NEW i \in 1 .. Len(s)
  PROVE  AppOrder(Without(s, i))
<1>0. Len(s) \in Nat
  BY LenProperties
<1>1. PICK w : w = Without(s, i)
  OBVIOUS
<1>2. Len(w) = Len(s) - 1 /\ \A k \in 1 .. Len(s) - 1 : w[k] = IF k < i THEN s[k] ELSE s[k + 1]
  BY <1>1, WithoutSeq
<1>3. ASSUME NEW j \in 1 .. Len(s) - 1, NEW k \in 1 .. Len(s) - 1, j < k, w[k].frozen
      PROVE  w[j].frozen
  <2>1. PICK a \in 1 .. Len(s), b \in 1 .. Len(s) :
          /\ a = (IF j < i THEN j ELSE j + 1) /\ b = (IF k < i THEN k ELSE k + 1) /\ a < b
    BY <1>0, <1>3
  <2>2. w[j] = s[a] /\ w[k] = s[b]
    BY <1>2, <2>1
  <2> QED
    BY <1>3, <2>1, <2>2 DEF AppOrder
<1> QED
  BY <1>1, <1>2, <1>3 DEF AppOrder

LEMMA WithoutAgent ==
  ASSUME NEW s \in Seq(BOOLEAN), AgentOrder(s), NEW i \in 1 .. Len(s)
  PROVE  AgentOrder(Without(s, i))
<1>0. Len(s) \in Nat
  BY LenProperties
<1>1. PICK w : w = Without(s, i)
  OBVIOUS
<1>2. Len(w) = Len(s) - 1 /\ \A k \in 1 .. Len(s) - 1 : w[k] = IF k < i THEN s[k] ELSE s[k + 1]
  BY <1>1, WithoutSeq
<1>3. ASSUME NEW j \in 1 .. Len(s) - 1, NEW k \in 1 .. Len(s) - 1, j < k, w[k]
      PROVE  w[j]
  <2>1. PICK a \in 1 .. Len(s), b \in 1 .. Len(s) :
          /\ a = (IF j < i THEN j ELSE j + 1) /\ b = (IF k < i THEN k ELSE k + 1) /\ a < b
    BY <1>0, <1>3
  <2>2. w[j] = s[a] /\ w[k] = s[b]
    BY <1>2, <2>1
  <2> QED
    BY <1>3, <2>1, <2>2 DEF AgentOrder
<1> QED
  BY <1>1, <1>2, <1>3 DEF AgentOrder

(* One app's agents are replaced by a list in order.                         *)
LEMMA ReplaceAgents ==
  ASSUME TypeOK, FrozenAreOldest, NEW a \in 1 .. Len(apps), NEW l \in Seq(BOOLEAN), AgentOrder(l),
         apps' = [apps EXCEPT ![a] = [apps[a] EXCEPT !.agents = l]], TypeOK'
  PROVE  FrozenAreOldest'
<1>1. PICK r \in App : r = [apps[a] EXCEPT !.agents = l] /\ r.agents = l /\ r.frozen = apps[a].frozen
  BY AppTyped DEF App
<1>2. /\ Len(apps') = Len(apps)
      /\ \A i \in 1 .. Len(apps) : apps'[i] = IF i = a THEN r ELSE apps[i]
  BY <1>1, ExceptSeq DEF TypeOK
<1>3. AppOrder(apps) /\ \A i \in 1 .. Len(apps) : AgentOrder(apps[i].agents)
  BY OldestParts
<1>4. \A i \in 1 .. Len(apps) : apps'[i].frozen = apps[i].frozen
  BY <1>1, <1>2
<1>5. AppOrder(apps')
  BY <1>2, <1>3, <1>4 DEF AppOrder
<1>6. \A i \in 1 .. Len(apps) : AgentOrder(apps'[i].agents)
  BY <1>1, <1>2, <1>3
<1> QED
  BY <1>2, <1>5, <1>6 DEF FrozenAreOldest, AppOrder, AgentOrder

LEMMA OldestStep == TypeOK /\ FrozenAreOldest /\ [Next]_vars => FrozenAreOldest'
<1> SUFFICES ASSUME TypeOK, FrozenAreOldest, [Next]_vars PROVE FrozenAreOldest'
  OBVIOUS
<1>0. /\ apps \in Seq(App) /\ Len(apps) \in Nat /\ TypeOK'
      /\ AppOrder(apps) /\ \A i \in 1 .. Len(apps) : AgentOrder(apps[i].agents)
  BY TypeStep, OldestParts, LenProperties DEF TypeOK
<1>a. ASSUME AppOrder(apps'), \A i \in 1 .. Len(apps') : AgentOrder(apps'[i].agents)
      PROVE  FrozenAreOldest'
  BY <1>a DEF FrozenAreOldest, AppOrder, AgentOrder
<1>1. ASSUME NEW c \in Clients, CreateApp(c) PROVE FrozenAreOldest'
  <2>0. PICK e \in Seq(BOOLEAN) : e = <<>> /\ Len(e) = 0
    BY EmptySeq
  <2>b. PICK r : r = [frozen |-> FALSE, agents |-> e]
    OBVIOUS
  <2>1. r \in App /\ ~r.frozen /\ r.agents = e
    BY <2>b DEF App
  <2>2. /\ Len(apps') = Len(apps) + 1 /\ apps'[Len(apps) + 1] = r
        /\ \A i \in 1 .. Len(apps) : apps'[i] = apps[i]
    BY <1>0, <1>1, <2>0, <2>b, <2>1, AppendProperties DEF CreateApp
  <2>3. AppOrder(apps')
    <3> SUFFICES ASSUME NEW i \in 1 .. Len(apps'), NEW j \in 1 .. Len(apps'), i < j, apps'[j].frozen
                 PROVE  apps'[i].frozen
      BY DEF AppOrder
    <3>1. j # Len(apps) + 1
      BY <2>1, <2>2
    <3>2. i \in 1 .. Len(apps) /\ j \in 1 .. Len(apps)
      BY <1>0, <2>2, <3>1
    <3> QED
      BY <1>0, <2>2, <3>2 DEF AppOrder
  <2>4. AgentOrder(e)
    BY <2>0 DEF AgentOrder
  <2>5. ASSUME NEW i \in 1 .. Len(apps') PROVE AgentOrder(apps'[i].agents)
    <3>1. i \in 1 .. Len(apps) \/ i = Len(apps) + 1
      BY <1>0, <2>2
    <3> QED
      BY <1>0, <2>1, <2>2, <2>4, <3>1
  <2> QED
    BY <1>a, <2>3, <2>5
<1>2. ASSUME NEW c \in Clients, CreateAgent(c) PROVE FrozenAreOldest'
  <2>1. PICK a \in 1 .. Len(apps) : a = req[c].app
    BY <1>2 DEF CreateAgent, TypeOK, Idle
  <2>a. PICK old \in Seq(BOOLEAN) : old = apps[a].agents
    BY AppTyped
  <2>b. PICK l : l = Append(old, FALSE)
    OBVIOUS
  <2>2. /\ l \in Seq(BOOLEAN) /\ l = Append(apps[a].agents, FALSE) /\ Len(l) = Len(apps[a].agents) + 1
        /\ ~l[Len(l)] /\ \A k \in 1 .. Len(apps[a].agents) : l[k] = apps[a].agents[k]
    <3>1. /\ l \in Seq(BOOLEAN) /\ Len(l) = Len(old) + 1
          /\ \A k \in 1 .. Len(old) : l[k] = old[k]
      BY <2>b, AppendProperties
    <3>2. l[Len(old) + 1] = FALSE
      BY <2>b, AppendProperties
    <3> QED
      BY <2>a, <2>b, <3>1, <3>2
  <2>3. AgentOrder(l)
    <3>1. Len(apps[a].agents) \in Nat /\ AgentOrder(apps[a].agents)
      BY <1>0, AppTyped
    <3> SUFFICES ASSUME NEW k \in 1 .. Len(l), NEW m \in 1 .. Len(l), k < m, l[m] PROVE l[k]
      BY DEF AgentOrder
    <3>2. m # Len(l) /\ m \in 1 .. Len(apps[a].agents) /\ k \in 1 .. Len(apps[a].agents)
      BY <2>2, <3>1
    <3> QED
      BY <2>2, <3>1, <3>2 DEF AgentOrder
  <2>4. apps' = [apps EXCEPT ![a] = [apps[a] EXCEPT !.agents = l]]
    BY <1>2, <2>1, <2>2 DEF CreateAgent
  <2> QED
    BY <1>0, <2>2, <2>3, <2>4, ReplaceAgents
<1>3. CASE DeleteApp
  <2>1. PICK a \in 1 .. Len(apps) : apps' = Without(apps, a)
    BY <1>3 DEF DeleteApp
  <2>2. AppOrder(apps')
    BY <1>0, <2>1, WithoutApp
  <2>3. /\ Len(apps') = Len(apps) - 1
        /\ \A k \in 1 .. Len(apps) - 1 : apps'[k] = IF k < a THEN apps[k] ELSE apps[k + 1]
    BY <1>0, <2>1, WithoutSeq
  <2>4. \A k \in 1 .. Len(apps) - 1 : \E i \in 1 .. Len(apps) : apps'[k] = apps[i]
    <3> TAKE k \in 1 .. Len(apps) - 1
    <3>1. k \in 1 .. Len(apps) /\ k + 1 \in 1 .. Len(apps)
      BY <1>0
    <3> QED
      BY <2>3, <3>1
  <2> QED
    BY <1>0, <1>a, <2>2, <2>3, <2>4
<1>4. CASE DeleteAgent
  <2>0. PICK a \in 1 .. Len(apps) :
          \E k \in 1 .. Len(apps[a].agents) : apps' = [apps EXCEPT ![a].agents = Without(@, k)]
    BY <1>4 DEF DeleteAgent
  <2>1. PICK k \in 1 .. Len(apps[a].agents) : apps' = [apps EXCEPT ![a].agents = Without(@, k)]
    BY <2>0
  <2>2. PICK l \in Seq(BOOLEAN) : l = Without(apps[a].agents, k) /\ AgentOrder(l)
    BY <1>0, AppTyped, WithoutSeq, WithoutAgent
  <2>3. apps' = [apps EXCEPT ![a] = [apps[a] EXCEPT !.agents = l]]
    BY <2>1, <2>2
  <2> QED
    BY <1>0, <2>2, <2>3, ReplaceAgents
<1>5. ASSUME NEW t \in Tiers, apps' = Freeze(t, apps) PROVE FrozenAreOldest'
  BY <1>5, <1>a, FreezeOldest
<1>6. ASSUME apps' = apps PROVE FrozenAreOldest'
  BY <1>6 DEF FrozenAreOldest
<1>7. CASE Commit \/ OverrideFreeze
  <2>1. "free" \in Tiers /\ (OverrideFreeze => admin \in Tiers)
    BY DEF Tiers, OverrideFreeze, TypeOK
  <2> QED
    BY <1>5, <1>6, <1>7, <2>1 DEF Commit, OverrideFreeze
<1>8. ASSUME NEW c \in Clients, CheckApp(c) \/ CheckAgent(c) PROVE FrozenAreOldest'
  BY <1>6, <1>8 DEF CheckApp, CheckAgent
<1>9. CASE \/ ReadSubscription \/ Checkout \/ StripeActs \/ Arrive \/ DeliveryLost
           \/ Override \/ UNCHANGED vars
  BY <1>6, <1>9 DEF ReadSubscription, Checkout, StripeActs, Arrive, DeliveryLost, Override, vars
<1> QED
  BY <1>1, <1>2, <1>3, <1>4, <1>7, <1>8, <1>9 DEF Next

(* No frozen app or agent is newer than a usable one (FrozenAreOldest).      *)
THEOREM OldestFrozen == Spec => []FrozenAreOldest
<1>1. Init => FrozenAreOldest
  BY EmptySeq DEF Init, FrozenAreOldest
<1> QED
  BY <1>1, InitTyped, TypeStep, OldestStep, PTL DEF Spec

-----------------------------------------------------------------------------
(* The row and the plan *)

(* What the first n events say of a customer's tier: what the last of its    *)
(* events carries, or that it has none.                                      *)
Last(s, c, j, n) == s[j].customer = c /\ \A m \in j + 1 .. n : s[m].customer # c
Tells(s, c, n, tier) ==
  \/ tier = "free" /\ \A j \in 1 .. n : s[j].customer # c
  \/ \E j \in 1 .. n : Last(s, c, j, n) /\ s[j].tier = tier

Plan(c) == IF plan[c] = NoTier THEN "free" ELSE plan[c]

(* All events tell the plan of every customer; one that changes no plan      *)
(* carries what those before it tell.                                        *)
SentInv ==
  /\ \A c \in Customers : Tells(sent, c, Len(sent), Plan(c))
  /\ \A j \in 1 .. Len(sent) : sent[j].kind \in {"paid", "failed"} => Tells(sent, sent[j].customer, j - 1, sent[j].tier)
  /\ \A j \in 1 .. Len(sent) : sent[j].kind = "deleted" => sent[j].tier = "free"

(* While the events take effect in order, those marked are the first ones    *)
(* and the row has what they tell of its customer.                           *)
RowInv ==
  /\ sub # NoSub /\ sub.customer = 0 => sub.tier = "free"
  /\ ordered =>
       \E n \in 0 .. Len(sent) :
         /\ processed = 1 .. n
         /\ sub.customer # 0 => Tells(sent, sub.customer, n, sub.tier)

LEMMA LastUnique ==
  ASSUME NEW s, NEW c, NEW n \in Nat, NEW i \in 1 .. n, NEW j \in 1 .. n, Last(s, c, i, n), Last(s, c, j, n)
  PROVE  i = j
<1>1. CASE i < j
  <2>1. j \in i + 1 .. n
    BY <1>1
  <2> QED
    BY <2>1 DEF Last
<1>2. CASE j < i
  <2>1. i \in j + 1 .. n
    BY <1>2
  <2> QED
    BY <2>1 DEF Last
<1> QED
  BY <1>1, <1>2

LEMMA TellsOne ==
  ASSUME NEW s, NEW c, NEW n \in Nat, NEW t, NEW u, Tells(s, c, n, t), Tells(s, c, n, u)
  PROVE  t = u
<1>1. CASE \A j \in 1 .. n : s[j].customer # c
  BY <1>1 DEF Tells, Last
<1>2. CASE ~\A j \in 1 .. n : s[j].customer # c
  BY <1>2, LastUnique DEF Tells
<1> QED
  BY <1>1, <1>2

(* One more event: it tells of its customer, and nothing of the others.      *)
LEMMA TellsNext ==
  ASSUME NEW s, NEW n \in Nat, NEW c, NEW t
  PROVE  /\ s[n + 1].customer = c /\ s[n + 1].tier = t => Tells(s, c, n + 1, t)
         /\ s[n + 1].customer # c /\ Tells(s, c, n, t) => Tells(s, c, n + 1, t)
<1>1. ASSUME s[n + 1].customer = c, s[n + 1].tier = t PROVE Tells(s, c, n + 1, t)
  <2>1. Last(s, c, n + 1, n + 1)
    BY <1>1 DEF Last
  <2> QED
    BY <1>1, <2>1 DEF Tells
<1>2. ASSUME s[n + 1].customer # c, Tells(s, c, n, t) PROVE Tells(s, c, n + 1, t)
  <2>1. CASE \A j \in 1 .. n : s[j].customer # c
    <3>1. t = "free"
      BY <1>2, <2>1 DEF Tells, Last
    <3>2. \A j \in 1 .. n + 1 : j \in 1 .. n \/ j = n + 1
      OBVIOUS
    <3> QED
      BY <1>2, <2>1, <3>1, <3>2 DEF Tells
  <2>2. ASSUME NEW j \in 1 .. n, Last(s, c, j, n), s[j].tier = t PROVE Tells(s, c, n + 1, t)
    <3>1. \A m \in j + 1 .. n + 1 : m \in j + 1 .. n \/ m = n + 1
      OBVIOUS
    <3>2. Last(s, c, j, n + 1) /\ j \in 1 .. n + 1
      BY <1>2, <2>2, <3>1 DEF Last
    <3> QED
      BY <2>2, <3>2 DEF Tells
  <2> QED
    BY <1>2, <2>1, <2>2 DEF Tells
<1> QED
  BY <1>1, <1>2

(* What the first events tell does not change when another is sent.          *)
LEMMA TellsKept ==
  ASSUME NEW s, NEW r, NEW n \in Nat, \A j \in 1 .. n : r[j] = s[j], NEW c, NEW t, Tells(s, c, n, t)
  PROVE  Tells(r, c, n, t)
<1>1. CASE \A j \in 1 .. n : s[j].customer # c
  BY <1>1 DEF Tells, Last
<1>2. ASSUME NEW j \in 1 .. n, Last(s, c, j, n), s[j].tier = t
      PROVE  Tells(r, c, n, t)
  <2>1. Last(r, c, j, n)
    BY <1>2 DEF Last
  <2> QED
    BY <1>2, <2>1 DEF Tells
<1> QED
  BY <1>1, <1>2 DEF Tells

(* Stripe sends an event that tells the customer's plan from then on.        *)
LEMMA SentMore ==
  ASSUME TypeOK, SentInv, Len(sent) < MaxEvents,
         NEW k \in Kinds, NEW c \in Customers, NEW t \in Tiers,
         Send([kind |-> k, customer |-> c, tier |-> t]),
         \A d \in Customers : d # c => plan'[d] = plan[d],
         t = IF plan'[c] = NoTier THEN "free" ELSE plan'[c],
         k = "deleted" => t = "free",
         k \in {"paid", "failed"} => t = Plan(c)
  PROVE  SentInv'
<1>1. PICK n \in Nat : n = Len(sent)
  BY SentTyped
<1>s. PICK s, r : s = sent /\ r = sent'
  OBVIOUS
<1>2. /\ Len(sent') = n + 1 /\ sent'[n + 1].kind = k /\ sent'[n + 1].customer = c /\ sent'[n + 1].tier = t
      /\ \A j \in 1 .. n : sent'[j] = sent[j]
  BY <1>1, SendTyped
<1>3. ASSUME NEW d \in Customers PROVE Tells(sent, d, n + 1, Plan(d))'
  <2>1. PICK u : u = Plan(d)'
    OBVIOUS
  <2>2. CASE d = c
    <3>1. u = t
      BY <2>1, <2>2 DEF Plan
    <3>2. Tells(r, c, n + 1, t)
      BY <1>2, <1>s, TellsNext
    <3> QED
      BY <1>s, <2>1, <2>2, <3>1, <3>2
  <2>3. CASE d # c
    <3>1. u = Plan(d)
      BY <2>1, <2>3 DEF Plan
    <3>2. Tells(s, d, n, u)
      BY <1>1, <1>s, <3>1 DEF SentInv
    <3>3. Tells(r, d, n, u)
      BY <1>2, <1>s, <3>2, TellsKept
    <3>4. Tells(r, d, n + 1, u)
      BY <1>2, <1>s, <2>3, <3>3, TellsNext
    <3> QED
      BY <1>s, <2>1, <3>4
  <2> QED
    BY <2>2, <2>3
<1>4. ASSUME NEW j \in 1 .. n + 1, sent'[j].kind \in {"paid", "failed"}
      PROVE  Tells(sent, sent[j].customer, j - 1, sent[j].tier)'
  <2>1. PICK d, u : d = sent'[j].customer /\ u = sent'[j].tier
    OBVIOUS
  <2>2. Tells(s, d, j - 1, u)
    <3>1. CASE j = n + 1
      <4>1. d = c /\ u = Plan(c) /\ j - 1 = Len(sent)
        BY <1>1, <1>2, <1>4, <2>1, <3>1
      <4> QED
        BY <1>s, <4>1 DEF SentInv
    <3>2. CASE j # n + 1
      <4>1. j \in 1 .. Len(sent) /\ d = sent[j].customer /\ u = sent[j].tier /\ sent[j].kind \in {"paid", "failed"}
        BY <1>1, <1>2, <1>4, <2>1, <3>2
      <4> QED
        BY <1>s, <4>1 DEF SentInv
    <3> QED
      BY <3>1, <3>2
  <2>3. j - 1 \in Nat /\ \A i \in 1 .. j - 1 : sent'[i] = sent[i]
    BY <1>2
  <2>4. Tells(r, d, j - 1, u)
    BY <1>s, <2>2, <2>3, TellsKept
  <2> QED
    BY <1>s, <2>1, <2>4
<1>5. ASSUME NEW j \in 1 .. n + 1, sent'[j].kind = "deleted" PROVE sent'[j].tier = "free"
  <2>1. j \in 1 .. n \/ j = n + 1
    OBVIOUS
  <2> QED
    BY <1>1, <1>2, <1>5, <2>1 DEF SentInv
<1> QED
  BY <1>2, <1>3, <1>4, <1>5 DEF SentInv

LEMMA SameSent == ASSUME SentInv, UNCHANGED <<plan, sent>> PROVE SentInv'
  BY DEF SentInv, Tells, Last, Plan

(* The row keeps telling its customer's tier when nothing is marked.         *)
LEMMA RowKept ==
  ASSUME TypeOK, RowInv, processed' = processed, ordered' = ordered, sub' = sub,
         Len(sent') \in Nat, Len(sent) <= Len(sent'), \A j \in 1 .. Len(sent) : sent'[j] = sent[j]
  PROVE  RowInv'
<1>1. CASE ordered
  <2>1. PICK n \in 0 .. Len(sent) : /\ processed = 1 .. n
                                    /\ sub.customer # 0 => Tells(sent, sub.customer, n, sub.tier)
    BY <1>1 DEF RowInv
  <2>2. PICK c, t, s, r : c = sub.customer /\ t = sub.tier /\ s = sent /\ r = sent'
    OBVIOUS
  <2>3. n \in Nat /\ n \in 0 .. Len(sent') /\ \A j \in 1 .. n : sent'[j] = sent[j]
    BY <2>1, SentTyped
  <2>4. c # 0 => Tells(r, c, n, t)
    BY <2>1, <2>2, <2>3, TellsKept
  <2> QED
    BY <2>1, <2>2, <2>3, <2>4 DEF RowInv
<1>2. CASE ~ordered
  BY <1>2 DEF RowInv
<1> QED
  BY <1>1, <1>2 DEF TypeOK

(* The n+1st event takes effect after those before it.                       *)
LEMMA RowMarks ==
  ASSUME TypeOK, SentInv, RowInv, ordered, UNCHANGED sent,
         NEW n \in Nat, n + 1 <= Len(sent), processed = 1 .. n, processed' = 1 .. n + 1,
         sub.customer # 0 => Tells(sent, sub.customer, n, sub.tier),
         sub' = IF Known(sent[n + 1]) THEN NewSub(sent[n + 1]) ELSE sub
  PROVE  RowInv'
<1>1. PICK e \in Event : e = sent[n + 1]
  BY SentTyped
<1>2. n + 1 \in 1 .. Len(sent) /\ n + 1 \in 0 .. Len(sent) /\ e.customer \in Customers /\ e.kind \in Kinds
  BY <1>1, SentTyped DEF Event
<1>3. CASE Known(e)
  <2>1. PICK c, t, u, s : c = sub.customer /\ t = sub.tier /\ u = NewSub(e).tier /\ s = sent
    OBVIOUS
  <2>2. c # 0 /\ c = e.customer /\ Tells(s, c, n, t)
    BY <1>2, <1>3, <2>1 DEF Known, Customers
  <2>3. sub' = NewSub(e) /\ sub'.customer = c /\ sub'.tier = u
    BY <1>1, <1>3, <2>1, NewSubTyped
  <2>4. u = e.tier
    <3>1. CASE e.kind = "updated"
      BY <1>3, <2>1, <3>1, NewSubTyped
    <3>2. CASE e.kind = "deleted"
      BY <1>1, <1>2, <1>3, <2>1, <3>2, NewSubTyped DEF SentInv
    <3>3. CASE e.kind \in {"paid", "failed"}
      <4>1. Tells(s, c, n + 1 - 1, e.tier)
        BY <1>1, <1>2, <2>1, <2>2, <3>3 DEF SentInv
      <4>2. Tells(s, c, n, e.tier)
        <5>1. n + 1 - 1 = n
          OBVIOUS
        <5> QED
          BY <4>1, <5>1
      <4>3. t = e.tier
        BY <2>2, <4>2, TellsOne
      <4> QED
        BY <1>3, <2>1, <3>3, <4>3, NewSubTyped
    <3> QED
      BY <1>2, <3>1, <3>2, <3>3 DEF Kinds
  <2>5. Tells(s, c, n + 1, u)
    BY <1>1, <2>1, <2>2, <2>4, TellsNext
  <2> QED
    BY <1>2, <2>1, <2>2, <2>3, <2>5 DEF RowInv
<1>4. CASE ~Known(e)
  <2>1. sub' = sub
    BY <1>1, <1>4
  <2>2. PICK c, t, s : c = sub.customer /\ t = sub.tier /\ s = sent
    OBVIOUS
  <2>3. ASSUME c # 0 PROVE Tells(s, c, n + 1, t)
    <3>1. sub # NoSub /\ e.customer # c
      BY <1>4, <2>2, <2>3 DEF Known, NoSub
    <3> QED
      BY <1>1, <2>2, <2>3, <3>1, TellsNext
  <2> QED
    BY <1>2, <2>1, <2>2, <2>3 DEF RowInv
<1> QED
  BY <1>3, <1>4

LEMMA AgreeStep == TypeOK /\ SentInv /\ RowInv /\ [Next]_vars => (SentInv /\ RowInv)'
<1> SUFFICES ASSUME TypeOK, SentInv, RowInv, [Next]_vars PROVE (SentInv /\ RowInv)'
  OBVIOUS
<1>0. Len(sent) \in Nat
  BY SentTyped
<1>a. ASSUME UNCHANGED <<plan, sent, processed, ordered>>, sub' = sub PROVE (SentInv /\ RowInv)'
  BY <1>0, <1>a, SameSent, RowKept
<1>1. CASE ReadSubscription
  <2>1. UNCHANGED <<plan, sent, processed, ordered>> /\ sub' = FreeSub
    BY <1>1 DEF ReadSubscription
  <2>2. sub.customer = 0
    BY <1>1 DEF ReadSubscription, NoSub
  <2>3. RowInv'
    BY <2>1, <2>2, FreeTyped DEF RowInv
  <2> QED
    BY <2>1, <2>3, SameSent
<1>2. CASE Checkout
  <2>1. PICK c \in Customers, t \in Paid :
          /\ sub.customer # 0 => c = sub.customer
          /\ sub.customer = 0 => \A e \in 1 .. Len(sent) : sent[e].customer # c
          /\ plan' = [plan EXCEPT ![c] = t]
          /\ sub' = IF sub = NoSub THEN sub ELSE [sub EXCEPT !.customer = c]
          /\ Send([kind |-> "updated", customer |-> c, tier |-> t])
    BY <1>2 DEF Checkout
  <2>2. t \in Tiers /\ t # NoTier /\ "updated" \in Kinds /\ Len(sent) < MaxEvents
    BY <1>2, <2>1, PaidAssumption DEF Checkout, Tiers, Kinds
  <2>3. plan'[c] = t /\ \A d \in Customers : d # c => plan'[d] = plan[d]
    BY <2>1 DEF TypeOK
  <2>4. SentInv'
    BY <2>1, <2>2, <2>3, SentMore
  <2>5. /\ Len(sent') = Len(sent) + 1 /\ Len(sent') \in Nat
        /\ \A j \in 1 .. Len(sent) : sent'[j] = sent[j]
    BY <1>0, <2>1, <2>2, SendTyped
  <2>6. UNCHANGED <<processed, ordered>>
    BY <1>2 DEF Checkout
  <2>7. CASE sub = NoSub \/ sub.customer # 0
    <3>1. sub' = sub
      BY <2>1, <2>7, SubTyped DEF Sub, NoSub
    <3> QED
      BY <1>0, <2>4, <2>5, <2>6, <3>1, RowKept
  <2>8. CASE sub # NoSub /\ sub.customer = 0
    <3>1. PICK s \in Sub : s = sub
      BY <2>8 DEF TypeOK
    <3>2. sub'.customer = c /\ sub'.tier = "free" /\ c # 0
      BY <2>1, <2>8, <3>1 DEF RowInv, Sub, Customers
    <3>3. ASSUME ordered', NEW n \in 0 .. Len(sent), processed = 1 .. n PROVE Tells(sent, c, n, "free")'
      <4>1. \A j \in 1 .. n : sent'[j].customer # c
        BY <1>0, <2>1, <2>5, <2>8
      <4> QED
        BY <4>1 DEF Tells
    <3>4. RowInv'
      <4>1. ASSUME ordered' PROVE \E n \in 0 .. Len(sent) : processed = 1 .. n
        BY <4>1, <2>6 DEF RowInv
      <4>2. 0 .. Len(sent) \subseteq 0 .. Len(sent')
        BY <1>0, <2>5
      <4> QED
        BY <2>6, <3>2, <3>3, <4>1, <4>2 DEF RowInv
    <3> QED
      BY <2>4, <3>4
  <2> QED
    BY <2>7, <2>8
<1>3. CASE StripeActs
  <2>1. PICK c \in Customers :
          /\ plan[c] # NoTier
          /\ \/ \E t \in Paid : /\ plan' = [plan EXCEPT ![c] = t]
                                /\ Send([kind |-> "updated", customer |-> c, tier |-> t])
             \/ /\ plan' = [plan EXCEPT ![c] = NoTier]
                /\ Send([kind |-> "deleted", customer |-> c, tier |-> "free"])
             \/ \E k \in {"paid", "failed"} :
                  plan' = plan /\ Send([kind |-> k, customer |-> c, tier |-> plan[c]])
    BY <1>3 DEF StripeActs
  <2>2. PICK k \in Kinds, t \in Tiers :
          /\ Send([kind |-> k, customer |-> c, tier |-> t])
          /\ \A d \in Customers : d # c => plan'[d] = plan[d]
          /\ t = IF plan'[c] = NoTier THEN "free" ELSE plan'[c]
          /\ k = "deleted" => t = "free"
          /\ k \in {"paid", "failed"} => t = Plan(c)
    <3>1. plan[c] \in Tiers /\ "free" \in Tiers /\ Paid \subseteq Tiers /\ NoTier \notin Paid
          /\ {"updated", "deleted", "paid", "failed"} \subseteq Kinds
      BY <2>1, PaidAssumption DEF TypeOK, Tiers, Kinds
    <3>2. ASSUME NEW t \in Paid, plan' = [plan EXCEPT ![c] = t],
                 Send([kind |-> "updated", customer |-> c, tier |-> t])
          PROVE  t = (IF plan'[c] = NoTier THEN "free" ELSE plan'[c]) /\ \A d \in Customers : d # c => plan'[d] = plan[d]
      BY <3>1, <3>2 DEF TypeOK
    <3>3. ASSUME plan' = [plan EXCEPT ![c] = NoTier]
          PROVE  plan'[c] = NoTier /\ \A d \in Customers : d # c => plan'[d] = plan[d]
      BY <3>3 DEF TypeOK
    <3>4. CASE \E t \in Paid : /\ plan' = [plan EXCEPT ![c] = t]
                               /\ Send([kind |-> "updated", customer |-> c, tier |-> t])
      BY <3>1, <3>2, <3>4
    <3>5. CASE plan' = [plan EXCEPT ![c] = NoTier] /\ Send([kind |-> "deleted", customer |-> c, tier |-> "free"])
      BY <3>1, <3>3, <3>5
    <3>6. CASE \E k \in {"paid", "failed"} :
                 plan' = plan /\ Send([kind |-> k, customer |-> c, tier |-> plan[c]])
      BY <2>1, <3>1, <3>6 DEF Plan
    <3> QED
      BY <2>1, <3>4, <3>5, <3>6
  <2>3. Len(sent) < MaxEvents /\ sub' = sub /\ UNCHANGED <<processed, ordered>>
    BY <1>3 DEF StripeActs
  <2>4. SentInv'
    BY <2>2, <2>3, SentMore
  <2>5. Len(sent') = Len(sent) + 1 /\ \A j \in 1 .. Len(sent) : sent'[j] = sent[j]
    BY <2>2, <2>3, SendTyped
  <2> QED
    BY <1>0, <2>3, <2>4, <2>5, RowKept
<1>4. CASE Commit
  <2>1. PICK d \in Deliveries : hook[d] # 0 /\
           IF hook[d] \in processed
           THEN UNCHANGED <<sub, apps, processed, applied, ordered>>
           ELSE /\ sub' = IF Known(sent[hook[d]]) THEN NewSub(sent[hook[d]]) ELSE sub
                /\ processed' = processed \union {hook[d]}
                /\ ordered' = (ordered /\ \A j \in 1 .. hook[d] - 1 : j \in processed)
    BY <1>4 DEF Commit
  <2>2. PICK i \in 1 .. Len(sent) : i = hook[d]
    BY <1>0, <2>1 DEF TypeOK
  <2>3. UNCHANGED <<plan, sent>>
    BY <1>4 DEF Commit
  <2>4. CASE i \in processed
    BY <1>a, <2>1, <2>2, <2>3, <2>4
  <2>5. CASE i \notin processed /\ ordered'
    <3>1. ordered /\ \A j \in 1 .. i - 1 : j \in processed
      BY <2>1, <2>2, <2>5
    <3>2. PICK n \in 0 .. Len(sent) : /\ processed = 1 .. n
                                      /\ sub.customer # 0 => Tells(sent, sub.customer, n, sub.tier)
      BY <3>1 DEF RowInv
    <3>3. i = n + 1 /\ n \in Nat
      <4>1. i > n
        BY <1>0, <2>5, <3>2
      <4>2. ASSUME i > n + 1 PROVE FALSE
        <5>1. n + 1 \in 1 .. i - 1
          BY <1>0, <4>2
        <5> QED
          BY <1>0, <3>1, <3>2, <5>1
      <4> QED
        BY <1>0, <4>1, <4>2
    <3>4. processed' = 1 .. n + 1
      <4>1. processed' = (1 .. n) \union {n + 1}
        BY <2>1, <2>2, <2>5, <3>2, <3>3
      <4>2. (1 .. n) \union {n + 1} = 1 .. n + 1
        BY <3>3
      <4> QED
        BY <4>1, <4>2
    <3>5. sub' = IF Known(sent[n + 1]) THEN NewSub(sent[n + 1]) ELSE sub
      BY <2>1, <2>2, <2>5, <3>3
    <3>6. RowInv'
      BY <1>0, <2>3, <3>1, <3>2, <3>3, <3>4, <3>5, RowMarks
    <3> QED
      BY <2>3, <3>6, SameSent
  <2>6. CASE i \notin processed /\ ~ordered'
    <3>1. sub' = IF Known(sent[i]) THEN NewSub(sent[i]) ELSE sub
      BY <2>1, <2>2, <2>6
    <3>2. sub' # NoSub /\ sub'.customer = 0 => sub'.tier = "free"
      <4>1. sent[i] \in Event /\ sent[i].customer \in Customers
        BY SentTyped DEF Event
      <4>2. CASE Known(sent[i])
        BY <3>1, <4>1, <4>2, NewSubTyped DEF Known, Customers
      <4>3. CASE ~Known(sent[i])
        BY <3>1, <4>3 DEF RowInv
      <4> QED
        BY <4>2, <4>3
    <3> QED
      BY <2>3, <2>6, <3>2, SameSent DEF RowInv
  <2> QED
    BY <2>4, <2>5, <2>6
<1>5. CASE Override
  <2>1. PICK t \in Tiers : sub' = [(IF sub = NoSub THEN FreeSub ELSE sub) EXCEPT !.override = t]
    BY <1>5 DEF Override
  <2>2. PICK s \in Sub : s = IF sub = NoSub THEN FreeSub ELSE sub
    BY FreeTyped DEF TypeOK
  <2>3. sub'.customer = s.customer /\ sub'.tier = s.tier
    BY <2>1, <2>2 DEF Sub
  <2>4. UNCHANGED <<plan, sent, processed, ordered>>
    BY <1>5 DEF Override
  <2>5. CASE sub = NoSub
    <3>1. sub'.customer = 0 /\ sub'.tier = "free"
      BY <2>2, <2>3, <2>5, FreeTyped
    <3> QED
      BY <2>4, <2>5, <3>1, SameSent DEF RowInv, NoSub
  <2>6. CASE sub # NoSub
    <3>1. sub'.customer = sub.customer /\ sub'.tier = sub.tier
      BY <2>2, <2>3, <2>6
    <3> QED
      BY <2>4, <2>6, <3>1, SameSent DEF RowInv
  <2> QED
    BY <2>5, <2>6
<1>6. CASE Arrive \/ DeliveryLost \/ OverrideFreeze
  BY <1>6, <1>a DEF Arrive, DeliveryLost, OverrideFreeze
<1>7. ASSUME NEW c \in Clients, CheckApp(c) \/ CreateApp(c) \/ CheckAgent(c) \/ CreateAgent(c)
      PROVE  (SentInv /\ RowInv)'
  BY <1>7, <1>a DEF CheckApp, CreateApp, CheckAgent, CreateAgent
<1>8. CASE DeleteApp \/ DeleteAgent \/ UNCHANGED vars
  BY <1>8, <1>a DEF DeleteApp, DeleteAgent, vars
<1> QED
  BY <1>1, <1>2, <1>3, <1>4, <1>5, <1>6, <1>7, <1>8 DEF Next

(* Events that took effect in order leave the row with the plan the customer *)
(* pays (SubscriptionAgrees).                                                *)
THEOREM RowAgrees == Spec => []SubscriptionAgrees
<1>1. Init => SentInv /\ RowInv
  <2> SUFFICES ASSUME Init PROVE SentInv /\ RowInv
    OBVIOUS
  <2>1. Len(sent) = 0 /\ processed = {} /\ sub = NoSub /\ \A c \in Customers : plan[c] = NoTier
    BY EmptySeq DEF Init
  <2>2. SentInv
    BY <2>1 DEF SentInv, Tells, Plan
  <2>3. RowInv
    BY <2>1 DEF RowInv, NoSub
  <2> QED
    BY <2>2, <2>3
<1>2. TypeOK /\ SentInv /\ RowInv => SubscriptionAgrees
  <2> SUFFICES ASSUME TypeOK, SentInv, RowInv, ordered, processed = 1 .. Len(sent), sub.customer # 0
               PROVE  sub.tier = Plan(sub.customer)
    BY DEF SubscriptionAgrees, Plan
  <2>1. PICK n \in 0 .. Len(sent) : /\ processed = 1 .. n
                                    /\ Tells(sent, sub.customer, n, sub.tier)
    BY DEF RowInv
  <2>2. n = Len(sent) /\ n \in Nat
    <3>1. Len(sent) \in Nat
      BY SentTyped
    <3>2. ASSUME n < Len(sent) PROVE FALSE
      <4>1. Len(sent) \in 1 .. Len(sent) /\ Len(sent) \notin 1 .. n
        BY <3>1, <3>2
      <4> QED
        BY <2>1, <4>1
    <3> QED
      BY <3>1, <3>2
  <2>3. PICK s, c, t, u : s = sent /\ c = sub.customer /\ t = sub.tier /\ u = Plan(sub.customer)
    OBVIOUS
  <2>4. Tells(s, c, n, u) /\ Tells(s, c, n, t)
    BY <2>1, <2>2, <2>3, SubTyped DEF SentInv
  <2> QED
    BY <2>2, <2>3, <2>4, TellsOne
<1> QED
  BY <1>1, <1>2, InitTyped, TypeStep, AgreeStep, PTL DEF Spec
=============================================================================
