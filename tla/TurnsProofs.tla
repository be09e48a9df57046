----------------------------- MODULE TurnsProofs -----------------------------
(***************************************************************************)
(* Typing of Turns, the bound on both quotas and the count of messages,    *)
(* for any processes, turns, conversations and limits.                     *)
(***************************************************************************)
EXTENDS Turns, FiniteSetTheorems, TLAPS

(* A turn that is not idle is a record of ATurn; idle ones are left alone.   *)
LEMMA Under_way ==
  ASSUME TypeOK, NEW t \in Turn, turn[t].step # "idle"
  PROVE  turn[t] \in ATurn
  BY DEF TypeOK, Idle

LEMMA IdleStep == Idle.step = "idle" /\ Idle \notin ATurn
  BY DEF Idle, ATurn, Steps

(* What an action that moves one turn does to the table of turns.            *)
LEMMA TypedUpdate ==
  ASSUME TypeOK, NEW t \in Turn, NEW r \in ATurn \union {Idle}, turn' = [turn EXCEPT ![t] = r]
  PROVE  /\ turn' \in [Turn -> ATurn \union {Idle}]
         /\ turn'[t] = r
         /\ \A u \in Turn : u # t => turn'[u] = turn[u]
  BY DEF TypeOK

LEMMA GoToTyped ==
  ASSUME TypeOK, NEW t \in Turn, turn[t].step # "idle",
         NEW s \in Steps, NEW own \in BOOLEAN, NEW saw \in BOOLEAN, NEW seen \in Nat,
         GoTo(t, s, own, saw, seen)
  PROVE  /\ turn' \in [Turn -> ATurn \union {Idle}]
         /\ turn'[t] \in ATurn /\ turn'[t].step = s /\ turn'[t].seen = seen
         /\ turn'[t].conv = turn[t].conv /\ turn'[t].quota = turn[t].quota
         /\ \A u \in Turn : u # t => turn'[u] = turn[u]
<1>1. turn[t] \in ATurn
  BY Under_way
<1>2. PICK r : r = [step |-> s, proc |-> turn[t].proc, conv |-> turn[t].conv, quota |-> turn[t].quota,
                    own |-> own, saw |-> saw, seen |-> seen]
  OBVIOUS
<1>3. r \in ATurn /\ r.step = s /\ r.seen = seen /\ r.conv = turn[t].conv /\ r.quota = turn[t].quota
  BY <1>1, <1>2 DEF ATurn
<1>4. turn' = [turn EXCEPT ![t] = r]
  BY <1>2 DEF GoTo
<1> QED
  BY <1>3, <1>4, TypedUpdate

LEMMA StepTyped ==
  ASSUME TypeOK, NEW t \in Turn, turn[t].step # "idle", NEW s \in Steps, Step(t, s)
  PROVE  /\ turn' \in [Turn -> ATurn \union {Idle}]
         /\ turn'[t] \in ATurn /\ turn'[t].step = s /\ turn'[t].seen = 0
         /\ turn'[t].conv = turn[t].conv /\ turn'[t].quota = turn[t].quota
         /\ \A u \in Turn : u # t => turn'[u] = turn[u]
<1>1. GoTo(t, s, FALSE, FALSE, 0)
  BY DEF Step
<1> QED
  BY <1>1, GoToTyped

LEMMA StopTyped ==
  ASSUME TypeOK, NEW t \in Turn, Stop(t)
  PROVE  /\ turn' \in [Turn -> ATurn \union {Idle}]
         /\ turn'[t] = Idle
         /\ \A u \in Turn : u # t => turn'[u] = turn[u]
  BY TypedUpdate DEF Stop

-----------------------------------------------------------------------------
(* Typing *)

(* With memory a turn has a conversation, and writes into threads of those.  *)
Chatting == memory => \A t \in Turn : turn[t].step # "idle" => turn[t].conv \in Convs

LEMMA InitTyped == Init => TypeOK /\ Chatting
<1> SUFFICES ASSUME Init PROVE TypeOK /\ Chatting
  OBVIOUS
<1>1. TypeOK
  BY DEF Init, TypeOK
<1>2. Chatting
  BY DEF Init, Chatting, Idle
<1> QED
  BY <1>1, <1>2

(* The turn that holds the lock is the one that may release it.              *)
LEMMA FreeTyped ==
  ASSUME TypeOK, NEW t \in Turn
  PROVE  /\ Free(t) \in Turn \union {None} /\ Free(t) # t
         /\ Free(t) # None => Free(t) = lock /\ lock # t
  BY TurnAssumption DEF TypeOK, Free

LEMMA CountCallTyped ==
  ASSUME TypeOK, NEW t \in Turn, CountCall(t)
  PROVE  row' \in BOOLEAN /\ usage' \in Nat /\ lock' = Free(t)
  BY DEF TypeOK, CountCall

LEMMA TypeStep == TypeOK /\ Chatting /\ [Next]_vars => TypeOK'
<1> SUFFICES ASSUME TypeOK, Chatting, [Next]_vars PROVE TypeOK'
  OBVIOUS
<1> USE TurnAssumption, ConvAssumption
<1>1. ASSUME NEW t \in Turn, NEW p \in Procs, NEW c \in Chats, NEW q \in BOOLEAN, Admit(t, p, c, q)
      PROVE  TypeOK'
  <2>1. PICK r : r = [step |-> "admitted", proc |-> p, conv |-> c, quota |-> q,
                      own |-> FALSE, saw |-> FALSE, seen |-> 0]
    OBVIOUS
  <2>2. r \in ATurn /\ r.step = "admitted"
    BY <2>1 DEF ATurn, Steps
  <2>3. turn' = [turn EXCEPT ![t] = r] /\ turn[t].step = "idle"
    BY <1>1, <2>1 DEF Admit, At
  <2>4. /\ turn' \in [Turn -> ATurn \union {Idle}] /\ turn'[t] = r
        /\ \A u \in Turn : u # t => turn'[u] = turn[u]
    BY <2>2, <2>3, TypedUpdate
  <2>5. lock # t
    BY <2>3 DEF TypeOK
  <2> QED
    BY <1>1, <2>4, <2>5 DEF Admit, TypeOK, agent, quotas, threads, convs
<1>2. ASSUME NEW t \in Turn, Prepare(t) PROVE TypeOK'
  <2>1. turn[t].step = "admitted" /\ lock # t
    BY <1>2 DEF Prepare, Runs, At, TypeOK
  <2>2. turn[t].conv \in Chats /\ turn[t].proc \in Procs
    BY <2>1, Under_way DEF ATurn
  <2>3. /\ turn' \in [Turn -> ATurn \union {Idle}]
        /\ \A u \in Turn : u # t => turn'[u] = turn[u]
    <3>1. CASE Stop(t)
      BY <3>1, StopTyped
    <3>2. CASE GoTo(t, "running", memory /\ sess[turn[t].proc][turn[t].conv] # "expired", FALSE, 0)
      BY <3>2, <2>1, GoToTyped DEF Steps, TypeOK
    <3> QED
      BY <1>2, <3>1, <3>2 DEF Prepare
  <2>4. sess' \in [Procs -> [Convs -> {"none", "live", "expired"}]]
    <3> DEFINE f == [sess[turn[t].proc] EXCEPT ![turn[t].conv] = IF @ = "expired" THEN "none" ELSE "live"]
    <3>1. sess' = sess \/ sess' = [sess EXCEPT ![turn[t].proc] = f]
      BY <1>2 DEF Prepare
    <3>2. f \in [Convs -> {"none", "live", "expired"}]
      BY <2>2 DEF TypeOK
    <3> HIDE DEF f
    <3> QED
      BY <3>1, <3>2 DEF TypeOK
  <2> QED
    BY <1>2, <2>1, <2>3, <2>4 DEF Prepare, TypeOK, agent, quotas, threads, convs
<1>3. ASSUME NEW t \in Turn, Answer(t) PROVE TypeOK'
  <2>1. turn[t].step = "running" /\ lock # t /\ Step(t, "answered")
    BY <1>3 DEF Answer, Runs, At, TypeOK
  <2>2. /\ turn' \in [Turn -> ATurn \union {Idle}]
        /\ \A u \in Turn : u # t => turn'[u] = turn[u]
    BY <2>1, StepTyped DEF Steps
  <2>3. PICK said \in SUBSET Convs :
           /\ \/ thread' = [thread EXCEPT ![Thread(t)] = @ \union said]
              \/ thread' = [thread EXCEPT ![Thread(t)] = said]
           /\ wiped' = wiped \ said
    <3>1. (IF memory THEN {turn[t].conv} ELSE {}) \in SUBSET Convs
      BY <2>1 DEF Chatting
    <3> QED
      BY <1>3, <3>1 DEF Answer
  <2>4. thread' \in [Names -> SUBSET Convs] /\ wiped' \subseteq Convs
    BY <2>3 DEF TypeOK
  <2> QED
    BY <1>3, <2>1, <2>2, <2>4 DEF Answer, TypeOK, agent, quotas, convs
<1>4. ASSUME NEW t \in Turn, Fail(t) PROVE TypeOK'
  <2>1. lock # t /\ Stop(t)
    BY <1>4 DEF Fail, Runs, At, TypeOK
  <2>2. /\ turn' \in [Turn -> ATurn \union {Idle}]
        /\ \A u \in Turn : u # t => turn'[u] = turn[u]
    BY <2>1, StopTyped
  <2> QED
    BY <1>4, <2>1, <2>2 DEF Fail, TypeOK, agent, quotas, threads, convs
<1>5. ASSUME NEW t \in Turn, Record(t) PROVE TypeOK'
  <2>1. turn[t].step = "answered" /\ lock # t
    BY <1>5 DEF Record, Runs, At, TypeOK
  <2>2. Counting(t) \in {"reading", "replying"} /\ row \in BOOLEAN
    BY DEF Counting, TypeOK
  <2>3. /\ turn' \in [Turn -> ATurn \union {Idle}]
        /\ \A u \in Turn : u # t => turn'[u] = turn[u]
        /\ lock' = lock \/ (lock' = t /\ turn'[t].step \in {"reading", "replying"})
    <3>1. CASE Step(t, Counting(t)) /\ lock' \in {lock, t}
      BY <3>1, <2>1, <2>2, StepTyped DEF Steps
    <3>2. CASE GoTo(t, "waiting", FALSE, row, 0) /\ lock' = lock
      BY <3>2, <2>1, <2>2, GoToTyped DEF Steps
    <3> QED
      BY <1>5, <3>1, <3>2 DEF Record
  <2> QED
    BY <1>5, <2>1, <2>3 DEF Record, TypeOK, agent, quotas, threads, convs
<1>6. ASSUME NEW t \in Turn, Acquire(t) PROVE TypeOK'
  <2>1. turn[t].step = "waiting" /\ lock = None
    BY <1>6 DEF Acquire, At
  <2>2. Counting(t) \in {"reading", "replying"}
    BY DEF Counting
  <2>3. /\ turn' \in [Turn -> ATurn \union {Idle}]
        /\ lock' = lock \/ (lock' = t /\ turn'[t].step \in {"reading", "replying"})
    <3>1. CASE Step(t, "replying") /\ lock' = lock
      BY <3>1, <2>1, StepTyped DEF Steps
    <3>2. CASE Stop(t) /\ lock' = lock
      BY <3>2, StopTyped
    <3>3. CASE Step(t, Counting(t)) /\ lock' = t
      BY <3>3, <2>1, <2>2, StepTyped DEF Steps
    <3> QED
      BY <1>6, <3>1, <3>2, <3>3 DEF Acquire
  <2> QED
    BY <1>6, <2>1, <2>3 DEF Acquire, TypeOK, agent, quotas, threads, convs
<1>7. ASSUME NEW t \in Turn, ReadCount(t) PROVE TypeOK'
  <2>1. turn[t].step = "reading"
    BY <1>7 DEF ReadCount, At
  <2>2. turn[t].conv \in exists => count[turn[t].conv] \in Nat
    BY DEF TypeOK
  <2>3. /\ turn' \in [Turn -> ATurn \union {Idle}]
        /\ \A u \in Turn : u # t => turn'[u] = turn[u]
        /\ \/ lock' = lock /\ turn'[t].step = "writing"
           \/ lock' = Free(t)
    <3>1. CASE turn[t].conv \in exists
      <4>1. GoTo(t, "writing", FALSE, FALSE, count[turn[t].conv]) /\ lock' = lock
        BY <1>7, <3>1 DEF ReadCount
      <4>2. turn[t].step # "idle" /\ "writing" \in Steps /\ count[turn[t].conv] \in Nat
        BY <3>1, <2>1, <2>2 DEF Steps
      <4> QED
        BY <4>1, <4>2, GoToTyped
    <3>2. CASE turn[t].conv \notin exists
      BY <1>7, <3>2, StopTyped DEF ReadCount
    <3> QED
      BY <3>1, <3>2
  <2> QED
    BY <1>7, <2>3, FreeTyped DEF ReadCount, TypeOK, agent, quotas, threads, convs
<1>8. ASSUME NEW t \in Turn, CommitCount(t) PROVE TypeOK'
  <2>1. turn[t].step = "writing"
    BY <1>8 DEF CommitCount, At
  <2>2. turn[t].seen \in Nat /\ turn[t].conv \in Chats
    BY <2>1, Under_way DEF ATurn
  <2>3. /\ turn' \in [Turn -> ATurn \union {Idle}]
        /\ \A u \in Turn : u # t => turn'[u] = turn[u]
        /\ lock' = Free(t) /\ row' \in BOOLEAN /\ usage' \in Nat
        /\ count' \in [Convs -> Nat] /\ done' \in [Chats -> Nat]
    <3>1. CASE turn[t].conv \in exists
      <4>1. /\ Step(t, "replying") /\ CountCall(t)
            /\ count' = [count EXCEPT ![turn[t].conv] = turn[t].seen + 2]
            /\ done' = [done EXCEPT ![turn[t].conv] = @ + 1]
        BY <1>8, <3>1 DEF CommitCount
      <4>2. count' \in [Convs -> Nat] /\ done' \in [Chats -> Nat]
        BY <4>1, <2>2, <3>1 DEF TypeOK, Chats
      <4> QED
        BY <4>1, <4>2, <2>1, StepTyped, CountCallTyped DEF Steps
    <3>2. CASE turn[t].conv \notin exists
      BY <1>8, <3>2, StopTyped DEF CommitCount, TypeOK
    <3> QED
      BY <3>1, <3>2
  <2> QED
    BY <1>8, <2>3, FreeTyped DEF CommitCount, TypeOK, agent, threads
<1>9. ASSUME NEW t \in Turn, Reply(t) PROVE TypeOK'
  <2>1. /\ turn[t].step = "replying" /\ Stop(t)
        /\ \/ market' = market + 1 /\ CountCall(t)
           \/ lock' = Free(t) /\ UNCHANGED quotas
    BY <1>9 DEF Reply, Runs, At
  <2>2. /\ turn' \in [Turn -> ATurn \union {Idle}]
        /\ \A u \in Turn : u # t => turn'[u] = turn[u]
    BY <2>1, StopTyped
  <2>3. lock' = Free(t) /\ row' \in BOOLEAN /\ usage' \in Nat /\ market' \in Nat
    BY <2>1, CountCallTyped DEF quotas, TypeOK
  <2>4. done' \in [Chats -> Nat]
    BY <1>9 DEF Reply, TypeOK, Chats
  <2> QED
    BY <1>9, <2>2, <2>3, <2>4, FreeTyped DEF Reply, TypeOK, agent, threads
<1>10. ASSUME NEW p \in Procs, Crash(p) PROVE TypeOK'
  BY <1>10 DEF Crash, TypeOK, agent, quotas, threads, convs
<1>11. ASSUME NEW p \in Procs, NEW c \in Convs, Expire(p, c) PROVE TypeOK'
  BY <1>11 DEF Expire, TypeOK, agent, quotas, threads, convs
<1>12. ASSUME NEW c \in Convs, DeleteConversation(c) PROVE TypeOK'
  BY <1>12 DEF DeleteConversation, TypeOK, agent, quotas
<1>13. ASSUME NEW c \in Convs, ResetChat(c) PROVE TypeOK'
  BY <1>13 DEF ResetChat, TypeOK, agent, quotas, convs
<1>14. CASE InvoicePaid
  BY <1>14 DEF InvoicePaid, TypeOK, agent, threads, convs
<1>15. CASE NewMonth
  BY <1>15 DEF NewMonth, TypeOK, agent, threads, convs
<1>16. CASE UNCHANGED vars
  BY <1>16 DEF vars, TypeOK
<1> QED
  BY <1>1, <1>2, <1>3, <1>4, <1>5, <1>6, <1>7, <1>8, <1>9, <1>10, <1>11, <1>12, <1>13,
     <1>14, <1>15, <1>16 DEF Next

(* Apart from its admission a turn keeps its conversation while it lasts.    *)
LEMMA ConvKept ==
  ASSUME TypeOK, [Next]_vars, NEW u \in Turn, turn'[u].step # "idle"
  PROVE  \/ turn[u].step # "idle" /\ turn'[u].conv = turn[u].conv /\ turn'[u].quota = turn[u].quota
         \/ \E p \in Procs, c \in Chats, q \in BOOLEAN : Admit(u, p, c, q)
<1> DEFINE Kept == turn[u].step # "idle" /\ turn'[u].conv = turn[u].conv /\ turn'[u].quota = turn[u].quota
<1>a. turn'[u] = turn[u] => Kept
  OBVIOUS
<1>b. ASSUME NEW t \in Turn, turn[t].step # "idle",
             NEW s \in Steps, NEW own \in BOOLEAN, NEW saw \in BOOLEAN, NEW seen \in Nat,
             GoTo(t, s, own, saw, seen)
      PROVE  Kept
  BY <1>a, <1>b, GoToTyped
<1>c. ASSUME NEW t \in Turn, turn[t].step # "idle", NEW s \in Steps, Step(t, s) PROVE Kept
  BY <1>a, <1>c, StepTyped
<1>d. ASSUME NEW t \in Turn, Stop(t) PROVE Kept
  BY <1>a, <1>d, StopTyped, IdleStep
<1>1. ASSUME NEW t \in Turn, NEW p \in Procs, NEW c \in Chats, NEW q \in BOOLEAN, Admit(t, p, c, q)
      PROVE  Kept \/ t = u
  BY <1>1, <1>a DEF Admit, TypeOK
<1>2. ASSUME NEW t \in Turn, Prepare(t) PROVE Kept
  <2>1. turn[t].step = "admitted" /\ turn[t].proc \in Procs
    BY <1>2, Under_way DEF Prepare, Runs, At, ATurn
  <2>2. \/ Stop(t)
        \/ GoTo(t, "running", memory /\ sess[turn[t].proc][turn[t].conv] # "expired", FALSE, 0)
    BY <1>2 DEF Prepare
  <2>3. (memory /\ sess[turn[t].proc][turn[t].conv] # "expired") \in BOOLEAN /\ "running" \in Steps
    BY DEF TypeOK, Steps
  <2> QED
    BY <2>1, <2>2, <2>3, <1>b, <1>d
<1>3. ASSUME NEW t \in Turn, Answer(t) PROVE Kept
  BY <1>3, <1>c DEF Answer, Runs, At, Steps
<1>4. ASSUME NEW t \in Turn, Fail(t) PROVE Kept
  BY <1>4, <1>d DEF Fail
<1>5. ASSUME NEW t \in Turn, Record(t) PROVE Kept
  <2>1. turn[t].step = "answered" /\ Counting(t) \in Steps /\ "waiting" \in Steps
    BY <1>5 DEF Record, Runs, At, Steps, Counting
  <2>2. Step(t, Counting(t)) \/ GoTo(t, "waiting", FALSE, row, 0)
    BY <1>5 DEF Record
  <2> QED
    BY <2>1, <2>2, <1>b, <1>c DEF TypeOK
<1>6. ASSUME NEW t \in Turn, Acquire(t) PROVE Kept
  <2>1. turn[t].step = "waiting" /\ Counting(t) \in Steps /\ "replying" \in Steps
    BY <1>6 DEF Acquire, At, Steps, Counting
  <2>2. Step(t, Counting(t)) \/ Step(t, "replying") \/ Stop(t)
    BY <1>6 DEF Acquire
  <2> QED
    BY <2>1, <2>2, <1>c, <1>d
<1>7. ASSUME NEW t \in Turn, ReadCount(t) PROVE Kept
  <2>1. turn[t].step = "reading" /\ "writing" \in Steps
    BY <1>7 DEF ReadCount, At, Steps
  <2>2. \/ Stop(t)
        \/ GoTo(t, "writing", FALSE, FALSE, count[turn[t].conv]) /\ turn[t].conv \in exists
    BY <1>7 DEF ReadCount
  <2> QED
    BY <2>1, <2>2, <1>b, <1>d DEF TypeOK
<1>8. ASSUME NEW t \in Turn, CommitCount(t) PROVE Kept
  <2>1. turn[t].step = "writing" /\ "replying" \in Steps
    BY <1>8 DEF CommitCount, At, Steps
  <2>2. Step(t, "replying") \/ Stop(t)
    BY <1>8 DEF CommitCount
  <2> QED
    BY <2>1, <2>2, <1>c, <1>d
<1>9. ASSUME NEW t \in Turn, Reply(t) PROVE Kept
  BY <1>9, <1>d DEF Reply
<1>10. ASSUME NEW p \in Procs, Crash(p) PROVE Kept
  BY <1>10, <1>a, IdleStep DEF Crash
<1>11. ASSUME UNCHANGED turn PROVE Kept
  BY <1>11, <1>a
<1>12. ASSUME \/ \E p \in Procs, c \in Convs : Expire(p, c)
              \/ \E c \in Convs : DeleteConversation(c) \/ ResetChat(c)
              \/ InvoicePaid \/ NewMonth \/ UNCHANGED vars
       PROVE  Kept
  BY <1>12, <1>11 DEF Expire, DeleteConversation, ResetChat, InvoicePaid, NewMonth, vars
<1> HIDE DEF Kept
<1>13. Kept \/ \E p \in Procs, c \in Chats, q \in BOOLEAN : Admit(u, p, c, q)
  BY <1>1, <1>2, <1>3, <1>4, <1>5, <1>6, <1>7, <1>8, <1>9, <1>10, <1>12 DEF Next
<1> QED
  BY <1>13 DEF Kept

LEMMA AgentKept == [Next]_vars => UNCHANGED agent
<1> SUFFICES ASSUME [Next]_vars PROVE UNCHANGED agent
  OBVIOUS
<1> QED
  BY DEF Next, vars, agent, Admit, Prepare, Answer, Fail, Record, Acquire, ReadCount, CommitCount,
         Reply, Crash, Expire, DeleteConversation, ResetChat, InvoicePaid, NewMonth

LEMMA ChatStep == TypeOK /\ Chatting /\ [Next]_vars => Chatting'
<1> SUFFICES ASSUME TypeOK, Chatting, [Next]_vars, memory', NEW u \in Turn, turn'[u].step # "idle"
             PROVE  turn'[u].conv \in Convs
  BY DEF Chatting
<1>1. memory
  BY AgentKept DEF agent
<1>2. ASSUME NEW p \in Procs, NEW c \in Chats, NEW q \in BOOLEAN, Admit(u, p, c, q)
      PROVE  turn'[u].conv \in Convs
  BY <1>1, <1>2 DEF Admit, Chats, TypeOK
<1> QED
  BY <1>1, <1>2, ConvKept DEF Chatting

(* Every reachable state is well typed, and a held lock belongs to a turn    *)
(* that is counting or replying (TypeOK).                                    *)
THEOREM TurnsTyped == Spec => []TypeOK
<1>1. TypeOK /\ Chatting /\ [Next]_vars => (TypeOK /\ Chatting)'
  BY TypeStep, ChatStep
<1> QED
  BY <1>1, InitTyped, PTL DEF Spec

-----------------------------------------------------------------------------
(* Quotas *)

(* The turns that have passed a test of the quota and not been counted.      *)
MPast == {t \in Turn : turn[t].step # "idle" /\ turn[t].quota}
UPast == {t \in Turn : \/ turn[t].step \in {"running", "answered", "waiting", "reading", "writing"}
                       \/ turn[t].step = "replying" /\ lock = t}

(* Those calls fit, if the limit is counted with the turns there are.        *)
Room(n, S, limit) == limit > 0 => n + Cardinality(S) <= limit - 1 + Cardinality(Turn)

LEMMA PastFinite ==
  /\ IsFiniteSet(MPast) /\ IsFiniteSet(UPast)
  /\ Cardinality(MPast) \in Nat /\ Cardinality(UPast) \in Nat /\ Cardinality(Turn) \in Nat
<1>1. MPast \subseteq Turn /\ UPast \subseteq Turn
  BY DEF MPast, UPast
<1> QED
  BY <1>1, TurnAssumption, FS_Subset, FS_CardinalityType

(* A turn leaves the set, a counter is reset, or nothing happens.            *)
LEMMA RoomShrinks ==
  ASSUME NEW limit \in Int, NEW n \in Nat, NEW m \in Nat, NEW S, NEW R, S \subseteq Turn,
         R \subseteq S, m <= n, Room(n, S, limit)
  PROVE  Room(m, R, limit)
<1>1. IsFiniteSet(S)
  BY TurnAssumption, FS_Subset
<1>2. Cardinality(R) <= Cardinality(S) /\ Cardinality(R) \in Nat /\ Cardinality(S) \in Nat
  BY <1>1, FS_Subset, FS_CardinalityType
<1>3. Cardinality(Turn) \in Nat
  BY TurnAssumption, FS_CardinalityType
<1> QED
  BY <1>2, <1>3 DEF Room

(* A turn is counted, and leaves the set.                                    *)
LEMMA RoomCounts ==
  ASSUME NEW limit \in Int, NEW n \in Nat, NEW S, NEW R, S \subseteq Turn,
         NEW t \in S, R \subseteq S \ {t}, Room(n, S, limit)
  PROVE  Room(n + 1, R, limit)
<1>1. IsFiniteSet(S)
  BY TurnAssumption, FS_Subset
<1>2. IsFiniteSet(S \ {t}) /\ Cardinality(S \ {t}) = Cardinality(S) - 1 /\ Cardinality(S) \in Nat
  BY <1>1, FS_RemoveElement, FS_CardinalityType
<1>3. Cardinality(R) <= Cardinality(S \ {t}) /\ Cardinality(R) \in Nat
  BY <1>2, FS_Subset, FS_CardinalityType
<1>4. Cardinality(Turn) \in Nat
  BY TurnAssumption, FS_CardinalityType
<1> QED
  BY <1>2, <1>3, <1>4 DEF Room

(* A turn passes the test: there is room for it and all the others.          *)
LEMMA RoomTested ==
  ASSUME NEW limit \in Int, NEW n \in Nat, NEW R, R \subseteq Turn, Below(n, limit)
  PROVE  Room(n, R, limit)
<1>1. Cardinality(R) <= Cardinality(Turn) /\ Cardinality(R) \in Nat /\ Cardinality(Turn) \in Nat
  BY TurnAssumption, FS_Subset, FS_CardinalityType
<1> QED
  BY <1>1 DEF Room, Below

(* The period's counter starts again.                                        *)
LEMMA RoomFresh ==
  ASSUME NEW limit \in Int, NEW R, R \subseteq Turn
  PROVE  Room(0, R, limit)
  BY RoomTested DEF Below

QuotaInv == Room(market, MPast, MarketLimit) /\ Room(usage, UPast, Limit)

LEMMA PastTurns == MPast \subseteq Turn /\ UPast \subseteq Turn /\ MPast' \subseteq Turn /\ UPast' \subseteq Turn
  BY DEF MPast, UPast

LEMMA QuotaInit == Init => QuotaInv
<1> SUFFICES ASSUME Init PROVE QuotaInv
  OBVIOUS
<1>1. market = 0 /\ usage = 0
  BY DEF Init
<1> QED
  BY <1>1, PastTurns, RoomFresh, LimitAssumption DEF QuotaInv

LEMMA MarketStep ==
  TypeOK /\ Room(market, MPast, MarketLimit) /\ [Next]_vars => Room(market, MPast, MarketLimit)'
<1> SUFFICES ASSUME TypeOK, Room(market, MPast, MarketLimit), [Next]_vars
             PROVE  Room(market', MPast', MarketLimit)
  BY DEF Room
<1> USE LimitAssumption
<1>0. market \in Nat
  BY DEF TypeOK
<1>1. ASSUME NEW t \in Turn, Reply(t), turn[t].quota PROVE Room(market', MPast', MarketLimit)
  <2>1. t \in MPast /\ market' = market + 1 /\ turn'[t] = Idle
    BY <1>1, StopTyped DEF Reply, Runs, At, MPast
  <2>2. ASSUME NEW u \in MPast' PROVE u \in MPast \ {t}
    <3>1. u \in Turn /\ turn'[u].step # "idle" /\ turn'[u].quota /\ u # t
      BY <2>1, <2>2, IdleStep DEF MPast
    <3> QED
      BY <3>1, <1>1, StopTyped DEF Reply, MPast
  <2> QED
    BY <2>1, <2>2, <1>0, PastTurns, RoomCounts
<1>2. CASE NewMonth
  BY <1>2, PastTurns, RoomFresh DEF NewMonth
<1>3. ASSUME NEW t \in Turn, NEW p \in Procs, NEW c \in Chats, NEW q \in BOOLEAN, Admit(t, p, c, q), q
      PROVE  Room(market', MPast', MarketLimit)
  BY <1>0, <1>3, PastTurns, RoomTested DEF Admit, quotas
<1>4. CASE /\ ~NewMonth /\ \A t \in Turn : Reply(t) => ~turn[t].quota
           /\ \A t \in Turn, p \in Procs, c \in Chats, q \in BOOLEAN : Admit(t, p, c, q) => ~q
  <2>1. market' = market
    BY <1>4 DEF Next, vars, quotas, Admit, Prepare, Answer, Fail, Record, Acquire, ReadCount,
            CommitCount, Reply, Crash, Expire, DeleteConversation, ResetChat, InvoicePaid
  <2>2. ASSUME NEW u \in MPast' PROVE u \in MPast
    <3>1. u \in Turn /\ turn'[u].step # "idle" /\ turn'[u].quota
      BY <2>2 DEF MPast
    <3>2. ASSUME NEW p \in Procs, NEW c \in Chats, NEW q \in BOOLEAN, Admit(u, p, c, q) PROVE FALSE
      <4>1. turn'[u].quota = q
        BY <3>2, <3>1 DEF Admit, TypeOK
      <4> QED
        BY <4>1, <3>1, <3>2, <1>4
    <3> QED
      BY <3>1, <3>2, ConvKept DEF MPast
  <2> QED
    BY <2>1, <2>2, <1>0, PastTurns, RoomShrinks
<1> QED
  BY <1>1, <1>2, <1>3, <1>4

(* A step of one turn that neither tests nor counts its call.                *)
LEMMA PastShrinks ==
  ASSUME TypeOK, Room(usage, UPast, Limit), NEW t \in Turn,
         \A u \in Turn : u # t => turn'[u] = turn[u] /\ (lock' = u => lock = u),
         t \in UPast' => t \in UPast, usage' = usage
  PROVE  Room(usage', UPast', Limit)
<1>1. ASSUME NEW u \in UPast' PROVE u \in UPast
  BY <1>1 DEF UPast
<1> QED
  BY <1>1, PastTurns, RoomShrinks, LimitAssumption DEF TypeOK

(* A step that counts it, or does not because it has not the lock.           *)
LEMMA PastCounted ==
  ASSUME TypeOK, Room(usage, UPast, Limit), NEW t \in Turn, turn[t].step \in {"writing", "replying"},
         \A u \in Turn : u # t => turn'[u] = turn[u],
         turn'[t].step \in {"replying", "idle"}, CountCall(t)
  PROVE  Room(usage', UPast', Limit)
<1>1. t \notin UPast'
  BY FreeTyped DEF UPast, CountCall
<1>2. ASSUME NEW u \in UPast' PROVE u \in UPast \ {t}
  BY <1>1, <1>2, TurnAssumption DEF UPast, CountCall, Free
<1>3. CASE lock = t
  <2>1. t \in UPast /\ usage' = usage + 1
    BY <1>3 DEF UPast, CountCall
  <2> QED
    BY <2>1, <1>2, PastTurns, RoomCounts, LimitAssumption DEF TypeOK
<1>4. CASE lock # t
  BY <1>4, <1>2, PastTurns, RoomShrinks, LimitAssumption DEF CountCall, TypeOK
<1> QED
  BY <1>3, <1>4

LEMMA UsageStep ==
  TypeOK /\ Room(usage, UPast, Limit) /\ [Next]_vars => Room(usage, UPast, Limit)'
<1> SUFFICES ASSUME TypeOK, Room(usage, UPast, Limit), [Next]_vars
             PROVE  Room(usage', UPast', Limit)
  BY DEF Room
<1> USE LimitAssumption, TurnAssumption
<1>0. usage \in Nat
  BY DEF TypeOK
<1>1. ASSUME NEW t \in Turn, NEW p \in Procs, NEW c \in Chats, NEW q \in BOOLEAN, Admit(t, p, c, q)
      PROVE  Room(usage', UPast', Limit)
  <2>1. /\ turn'[t].step = "admitted"
        /\ \A u \in Turn : u # t => turn'[u] = turn[u]
        /\ lock' = lock /\ usage' = usage
    BY <1>1 DEF Admit, TypeOK, quotas
  <2>2. t \notin UPast'
    BY <2>1 DEF UPast
  <2> QED
    BY <2>1, <2>2, PastShrinks
<1>2. ASSUME NEW t \in Turn, Prepare(t) PROVE Room(usage', UPast', Limit)
  <2>1. CASE Below(usage, Limit)
    BY <1>0, <1>2, <2>1, PastTurns, RoomTested DEF Prepare, quotas
  <2>2. CASE ~Below(usage, Limit)
    <3>1. Stop(t) /\ lock' = lock /\ usage' = usage
      BY <1>2, <2>2 DEF Prepare, quotas
    <3>2. t \notin UPast'
      BY <3>1, StopTyped, IdleStep DEF UPast
    <3> QED
      BY <3>1, <3>2, StopTyped, PastShrinks
  <2> QED
    BY <2>1, <2>2
<1>3. ASSUME NEW t \in Turn, Answer(t) PROVE Room(usage', UPast', Limit)
  <2>1. Step(t, "answered") /\ t \in UPast /\ turn[t].step # "idle" /\ lock' = lock /\ usage' = usage
    BY <1>3 DEF Answer, Runs, At, UPast, quotas
  <2> QED
    BY <2>1, StepTyped, PastShrinks DEF Steps
<1>4. ASSUME NEW t \in Turn, Fail(t) PROVE Room(usage', UPast', Limit)
  <2>1. Stop(t) /\ lock' = lock /\ usage' = usage
    BY <1>4 DEF Fail, quotas
  <2>2. t \notin UPast'
    BY <2>1, StopTyped, IdleStep DEF UPast
  <2> QED
    BY <2>1, <2>2, StopTyped, PastShrinks
<1>5. ASSUME NEW t \in Turn, Record(t) PROVE Room(usage', UPast', Limit)
  <2>1. /\ turn[t].step = "answered" /\ t \in UPast /\ usage' = usage /\ lock' \in {lock, t}
        /\ Counting(t) \in Steps /\ "waiting" \in Steps /\ row \in BOOLEAN
    BY <1>5 DEF Record, Runs, At, UPast, quotas, Counting, Steps, TypeOK
  <2>2. Step(t, Counting(t)) \/ GoTo(t, "waiting", FALSE, row, 0)
    BY <1>5 DEF Record
  <2>3. \A u \in Turn : u # t => turn'[u] = turn[u]
    <3>1. CASE Step(t, Counting(t))
      BY <3>1, <2>1, StepTyped
    <3>2. CASE GoTo(t, "waiting", FALSE, row, 0)
      BY <3>2, <2>1, GoToTyped DEF Steps
    <3> QED
      BY <2>2, <3>1, <3>2
  <2> QED
    BY <2>1, <2>3, PastShrinks
<1>6. ASSUME NEW t \in Turn, Acquire(t) PROVE Room(usage', UPast', Limit)
  <2>1. /\ turn[t].step = "waiting" /\ t \in UPast /\ usage' = usage /\ lock' \in {lock, t}
        /\ Counting(t) \in Steps /\ "replying" \in Steps
    BY <1>6 DEF Acquire, At, UPast, quotas, Counting, Steps
  <2>2. Step(t, Counting(t)) \/ Step(t, "replying") \/ Stop(t)
    BY <1>6 DEF Acquire
  <2>3. \A u \in Turn : u # t => turn'[u] = turn[u]
    BY <2>1, <2>2, StepTyped, StopTyped
  <2> QED
    BY <2>1, <2>3, PastShrinks
<1>7. ASSUME NEW t \in Turn, ReadCount(t) PROVE Room(usage', UPast', Limit)
  <2>1. /\ turn[t].step = "reading" /\ t \in UPast /\ usage' = usage
        /\ lock' \in {lock, Free(t)} /\ "writing" \in Steps
    BY <1>7 DEF ReadCount, At, UPast, quotas, Steps
  <2>2. \/ turn[t].conv \in exists /\ GoTo(t, "writing", FALSE, FALSE, count[turn[t].conv])
        \/ Stop(t)
    BY <1>7 DEF ReadCount
  <2>3. turn[t].conv \in exists => count[turn[t].conv] \in Nat
    BY DEF TypeOK
  <2>4. \A u \in Turn : u # t => turn'[u] = turn[u]
    BY <2>1, <2>2, <2>3, GoToTyped, StopTyped
  <2>5. lock' = lock \/ lock' = None
    BY <2>1 DEF Free
  <2> QED
    BY <2>1, <2>4, <2>5, PastShrinks
<1>8. ASSUME NEW t \in Turn, CommitCount(t) PROVE Room(usage', UPast', Limit)
  <2>1. turn[t].step = "writing" /\ "replying" \in Steps
    BY <1>8 DEF CommitCount, At, Steps
  <2>2. CASE turn[t].conv \in exists
    <3>1. Step(t, "replying") /\ CountCall(t)
      BY <1>8, <2>2 DEF CommitCount
    <3> QED
      BY <3>1, <2>1, StepTyped, PastCounted
  <2>3. CASE turn[t].conv \notin exists
    <3>1. Stop(t) /\ lock' = Free(t) /\ usage' = usage
      BY <1>8, <2>3 DEF CommitCount
    <3>2. t \notin UPast' /\ (lock' = lock \/ lock' = None)
      BY <3>1, StopTyped, IdleStep DEF UPast, Free
    <3> QED
      BY <3>1, <3>2, StopTyped, PastShrinks
  <2> QED
    BY <2>2, <2>3
<1>9. ASSUME NEW t \in Turn, Reply(t) PROVE Room(usage', UPast', Limit)
  <2>1. turn[t].step = "replying" /\ Stop(t)
    BY <1>9 DEF Reply, Runs, At
  <2>2. CASE CountCall(t)
    BY <2>1, <2>2, StopTyped, IdleStep, PastCounted
  <2>3. CASE lock' = Free(t) /\ usage' = usage
    <3>1. t \notin UPast' /\ (lock' = lock \/ lock' = None)
      BY <2>1, <2>3, StopTyped, IdleStep DEF UPast, Free
    <3> QED
      BY <2>1, <2>3, <3>1, StopTyped, PastShrinks
  <2> QED
    BY <1>9, <2>2, <2>3 DEF Reply, quotas
<1>10. ASSUME NEW p \in Procs, Crash(p) PROVE Room(usage', UPast', Limit)
  <2>1. usage' = usage /\ (lock' = lock \/ lock' = None)
    BY <1>10 DEF Crash, quotas
  <2>2. \A u \in Turn : turn'[u] = turn[u] \/ turn'[u].step = "idle"
    BY <1>10, IdleStep DEF Crash
  <2>3. ASSUME NEW u \in UPast' PROVE u \in UPast
    BY <2>1, <2>2, <2>3 DEF UPast
  <2> QED
    BY <2>1, <2>3, <1>0, PastTurns, RoomShrinks
<1>11. CASE InvoicePaid \/ NewMonth
  BY <1>11, PastTurns, RoomFresh DEF InvoicePaid, NewMonth
<1>12. ASSUME UNCHANGED <<turn, lock, usage>> PROVE Room(usage', UPast', Limit)
  <2>1. UPast' = UPast
    BY <1>12 DEF UPast
  <2> QED
    BY <1>12, <2>1
<1>13. ASSUME NEW p \in Procs, NEW c \in Convs, Expire(p, c) PROVE Room(usage', UPast', Limit)
  BY <1>12, <1>13 DEF Expire, quotas
<1>14. ASSUME NEW c \in Convs, DeleteConversation(c) \/ ResetChat(c) PROVE Room(usage', UPast', Limit)
  BY <1>12, <1>14 DEF DeleteConversation, ResetChat, quotas
<1>15. CASE UNCHANGED vars
  BY <1>12, <1>15 DEF vars
<1> QED
  BY <1>1, <1>2, <1>3, <1>4, <1>5, <1>6, <1>7, <1>8, <1>9, <1>10, <1>11, <1>13, <1>14, <1>15 DEF Next

(* The quotas are exceeded by turns that overlap, and by no more than those  *)
(* (QuotaBounded): whatever passed a test and is not counted yet fits within *)
(* the limit and one call for each turn.                                     *)
THEOREM QuotaHolds == Spec => []QuotaBounded
<1>1. TypeOK /\ Chatting /\ QuotaInv /\ [Next]_vars => (TypeOK /\ Chatting /\ QuotaInv)'
  BY TypeStep, ChatStep, MarketStep, UsageStep DEF QuotaInv
<1>2. TypeOK /\ QuotaInv => QuotaBounded
  <2>1. Cardinality(MPast) >= 0 /\ Cardinality(UPast) >= 0
    BY PastFinite
  <2> QED
    BY <2>1, PastFinite, LimitAssumption DEF QuotaInv, Room, QuotaBounded, TypeOK
<1> QED
  BY <1>1, <1>2, InitTyped, QuotaInit, PTL DEF Spec

-----------------------------------------------------------------------------
(* Messages *)

(* With a metered agent a turn that counts its messages holds the lock, so   *)
(* the count it has read is still the one it adds to.                        *)
Exclusive == \A t \in Turn : turn[t].step \in {"reading", "writing"} => lock = t
Fresh == \A t \in Turn : turn[t].step = "writing" /\ turn[t].conv \in exists => turn[t].seen = count[turn[t].conv]
Counted == \A c \in exists : count[c] = 2 * done[c]
CountInv == metered => Exclusive /\ Fresh /\ Counted

LEMMA CountInit == Init => CountInv
<1> SUFFICES ASSUME Init PROVE CountInv
  OBVIOUS
<1>1. \A t \in Turn : turn[t].step = "idle"
  BY DEF Init, Idle
<1>2. Counted
  BY DEF Init, Counted, Chats
<1> QED
  BY <1>1, <1>2 DEF CountInv, Exclusive, Fresh

(* A step of one turn that leaves the counts of the conversations alone.     *)
LEMMA CountsAlone ==
  ASSUME Exclusive, Fresh, Counted, NEW t \in Turn, exists' \subseteq exists, count' = count,
         \A c \in exists : done'[c] = done[c],
         \A u \in Turn : u # t => turn'[u] = turn[u] /\ (lock = u => lock' = u),
         turn'[t].step \in {"reading", "writing"} => lock' = t,
         turn'[t].step = "writing" /\ turn'[t].conv \in exists => turn'[t].seen = count[turn'[t].conv]
  PROVE  (Exclusive /\ Fresh /\ Counted)'
<1>1. Exclusive'
  BY DEF Exclusive
<1>2. Fresh'
  BY DEF Fresh
<1>3. Counted'
  BY DEF Counted
<1> QED
  BY <1>1, <1>2, <1>3

LEMMA CountStep == TypeOK /\ CountInv /\ [Next]_vars => CountInv'
<1> SUFFICES ASSUME TypeOK, CountInv, [Next]_vars, metered'
             PROVE  (Exclusive /\ Fresh /\ Counted)'
  BY DEF CountInv
<1> USE TurnAssumption, ConvAssumption
<1>0. metered /\ Exclusive /\ Fresh /\ Counted
  BY AgentKept DEF CountInv, agent
<1>1. ASSUME NEW t \in Turn, NEW p \in Procs, NEW c \in Chats, NEW q \in BOOLEAN, Admit(t, p, c, q)
      PROVE  (Exclusive /\ Fresh /\ Counted)'
  <2>1. turn'[t].step = "admitted" /\ \A u \in Turn : u # t => turn'[u] = turn[u]
    BY <1>1 DEF Admit, TypeOK
  <2> QED
    BY <1>0, <1>1, <2>1, CountsAlone DEF Admit, convs
<1>2. ASSUME NEW t \in Turn, Prepare(t) PROVE (Exclusive /\ Fresh /\ Counted)'
  <2>1. turn[t].step # "idle" /\ lock' = lock /\ UNCHANGED convs
    BY <1>2 DEF Prepare, Runs, At
  <2>2. turn'[t].step \in {"idle", "running"} /\ \A u \in Turn : u # t => turn'[u] = turn[u]
    <3>1. CASE Stop(t)
      BY <3>1, StopTyped, IdleStep
    <3>2. CASE GoTo(t, "running", memory /\ sess[turn[t].proc][turn[t].conv] # "expired", FALSE, 0)
      BY <3>2, <2>1, GoToTyped DEF Steps, TypeOK
    <3> QED
      BY <1>2, <3>1, <3>2 DEF Prepare
  <2> QED
    BY <1>0, <2>1, <2>2, CountsAlone DEF convs
<1>3. ASSUME NEW t \in Turn, Answer(t) PROVE (Exclusive /\ Fresh /\ Counted)'
  <2>1. turn[t].step # "idle" /\ Step(t, "answered") /\ lock' = lock /\ UNCHANGED convs
    BY <1>3 DEF Answer, Runs, At
  <2>2. turn'[t].step = "answered" /\ \A u \in Turn : u # t => turn'[u] = turn[u]
    BY <2>1, StepTyped DEF Steps
  <2> QED
    BY <1>0, <2>1, <2>2, CountsAlone DEF convs
<1>4. ASSUME NEW t \in Turn, Fail(t) PROVE (Exclusive /\ Fresh /\ Counted)'
  <2>1. Stop(t) /\ lock' = lock /\ UNCHANGED convs
    BY <1>4 DEF Fail
  <2>2. turn'[t].step = "idle" /\ \A u \in Turn : u # t => turn'[u] = turn[u]
    BY <2>1, StopTyped, IdleStep
  <2> QED
    BY <1>0, <2>1, <2>2, CountsAlone DEF convs
<1>5. ASSUME NEW t \in Turn, Record(t) PROVE (Exclusive /\ Fresh /\ Counted)'
  <2>1. turn[t].step = "answered" /\ Counting(t) \in {"reading", "replying"} /\ row \in BOOLEAN
        /\ UNCHANGED convs
    BY <1>5 DEF Record, Runs, At, Counting, TypeOK
  <2>2. CASE Step(t, Counting(t)) /\ lock' = t /\ lock = None
    <3>1. turn'[t].step \in {"reading", "replying"} /\ \A u \in Turn : u # t => turn'[u] = turn[u]
      BY <2>1, <2>2, StepTyped DEF Steps
    <3> QED
      BY <1>0, <2>1, <2>2, <3>1, CountsAlone DEF convs
  <2>3. CASE GoTo(t, "waiting", FALSE, row, 0) /\ lock' = lock
    <3>1. turn'[t].step = "waiting" /\ \A u \in Turn : u # t => turn'[u] = turn[u]
      BY <2>1, <2>3, GoToTyped DEF Steps
    <3> QED
      BY <1>0, <2>1, <2>3, <3>1, CountsAlone DEF convs
  <2> QED
    BY <1>0, <1>5, <2>2, <2>3 DEF Record
<1>6. ASSUME NEW t \in Turn, Acquire(t) PROVE (Exclusive /\ Fresh /\ Counted)'
  <2>1. turn[t].step = "waiting" /\ Counting(t) \in {"reading", "replying"} /\ UNCHANGED convs
        /\ lock = None
    BY <1>6 DEF Acquire, At, Counting
  <2>2. CASE Step(t, Counting(t)) /\ lock' = t
    <3>1. turn'[t].step \in {"reading", "replying"} /\ \A u \in Turn : u # t => turn'[u] = turn[u]
      BY <2>1, <2>2, StepTyped DEF Steps
    <3> QED
      BY <1>0, <2>1, <2>2, <3>1, CountsAlone DEF convs
  <2>3. CASE (Step(t, "replying") \/ Stop(t)) /\ lock' = lock
    <3>1. turn'[t].step \in {"idle", "replying"} /\ \A u \in Turn : u # t => turn'[u] = turn[u]
      BY <2>1, <2>3, StepTyped, StopTyped, IdleStep DEF Steps
    <3> QED
      BY <1>0, <2>1, <2>3, <3>1, CountsAlone DEF convs
  <2> QED
    BY <1>6, <2>2, <2>3 DEF Acquire
<1>7. ASSUME NEW t \in Turn, ReadCount(t) PROVE (Exclusive /\ Fresh /\ Counted)'
  <2>1. turn[t].step = "reading" /\ lock = t /\ UNCHANGED convs
    BY <1>0, <1>7 DEF ReadCount, At, Exclusive
  <2>2. CASE turn[t].conv \in exists
    <3>1. PICK n \in Nat : n = count[turn[t].conv]
      BY <2>2 DEF TypeOK
    <3>2. GoTo(t, "writing", FALSE, FALSE, n) /\ lock' = lock
      BY <1>7, <2>2, <3>1 DEF ReadCount
    <3>3. /\ turn'[t].step = "writing" /\ turn'[t].conv = turn[t].conv
          /\ turn'[t].seen = n
          /\ \A u \in Turn : u # t => turn'[u] = turn[u]
      BY <2>1, <3>2, GoToTyped DEF Steps
    <3> QED
      BY <1>0, <2>1, <3>1, <3>2, <3>3, CountsAlone DEF convs
  <2>3. CASE turn[t].conv \notin exists
    <3>1. Stop(t) /\ lock' = None
      BY <1>7, <2>1, <2>3 DEF ReadCount, Free
    <3>2. turn'[t].step = "idle" /\ \A u \in Turn : u # t => turn'[u] = turn[u]
      BY <3>1, StopTyped, IdleStep
    <3> QED
      BY <1>0, <2>1, <3>1, <3>2, CountsAlone DEF convs
  <2> QED
    BY <2>2, <2>3
<1>8. ASSUME NEW t \in Turn, CommitCount(t) PROVE (Exclusive /\ Fresh /\ Counted)'
  <2>1. turn[t].step = "writing" /\ lock = t /\ exists' = exists /\ "replying" \in Steps
    BY <1>0, <1>8 DEF CommitCount, At, Exclusive, Steps
  <2>2. CASE turn[t].conv \in exists
    <3> DEFINE c == turn[t].conv
    <3>1. /\ Step(t, "replying") /\ lock' = None
          /\ count' = [count EXCEPT ![c] = turn[t].seen + 2] /\ done' = [done EXCEPT ![c] = @ + 1]
      BY <1>8, <2>1, <2>2 DEF CommitCount, CountCall, Free
    <3>2. turn'[t].step = "replying" /\ \A u \in Turn : u # t => turn'[u] = turn[u]
      BY <2>1, <3>1, StepTyped
    <3>3. \A u \in Turn : turn'[u].step \notin {"reading", "writing"}
      BY <1>0, <2>1, <3>2 DEF Exclusive
    <3>4. turn[t].seen = count[c] /\ count[c] = 2 * done[c] /\ c \in Convs /\ exists \subseteq Convs
      BY <1>0, <2>1, <2>2 DEF Fresh, Counted, TypeOK
    <3>5. count \in [Convs -> Nat] /\ done \in [Chats -> Nat] /\ Convs \subseteq Chats
      BY DEF TypeOK, Chats
    <3> HIDE DEF c
    <3>6. count'[c] = count[c] + 2 /\ done'[c] = done[c] + 1 /\ done[c] \in Nat /\ count[c] \in Nat
      BY <3>1, <3>4, <3>5
    <3>7. \A d \in exists : d # c => count'[d] = count[d] /\ done'[d] = done[d]
      BY <3>1, <3>4, <3>5
    <3>8. count'[c] = 2 * done'[c]
      BY <3>4, <3>6
    <3>9. Counted'
      BY <1>0, <2>1, <3>7, <3>8 DEF Counted
    <3> QED
      BY <3>3, <3>9 DEF Exclusive, Fresh
  <2>3. CASE turn[t].conv \notin exists
    <3>1. Stop(t) /\ lock' = None /\ count' = count /\ done' = done
      BY <1>8, <2>1, <2>3 DEF CommitCount, Free
    <3>2. turn'[t].step = "idle" /\ \A u \in Turn : u # t => turn'[u] = turn[u]
      BY <3>1, StopTyped, IdleStep
    <3> QED
      BY <1>0, <2>1, <3>1, <3>2, CountsAlone
  <2> QED
    BY <2>2, <2>3
<1>9. ASSUME NEW t \in Turn, Reply(t) PROVE (Exclusive /\ Fresh /\ Counted)'
  <2>1. Stop(t) /\ lock' = Free(t) /\ exists' = exists /\ count' = count
    BY <1>9 DEF Reply, CountCall
  <2>2. turn'[t].step = "idle" /\ \A u \in Turn : u # t => turn'[u] = turn[u]
    BY <2>1, StopTyped, IdleStep
  <2>3. \A c \in exists : done'[c] = done[c]
    BY <1>9 DEF Reply, TypeOK, Chats
  <2>4. \A u \in Turn : u # t => (lock = u => lock' = u)
    BY <2>1 DEF Free
  <2> QED
    BY <1>0, <2>1, <2>2, <2>3, <2>4, CountsAlone
<1>10. ASSUME NEW p \in Procs, Crash(p) PROVE (Exclusive /\ Fresh /\ Counted)'
  <2>1. /\ \A u \in Turn : turn'[u] = turn[u] \/ turn'[u].step = "idle"
        /\ \A u \in Turn : turn'[u].step # "idle" /\ lock = u => lock' = u
        /\ exists' = exists /\ count' = count /\ done' = done
    BY <1>10, IdleStep DEF Crash, convs
  <2> QED
    BY <1>0, <2>1 DEF Exclusive, Fresh, Counted
<1>11. ASSUME NEW c \in Convs, DeleteConversation(c) PROVE (Exclusive /\ Fresh /\ Counted)'
  BY <1>0, <1>11 DEF DeleteConversation, Exclusive, Fresh, Counted
<1>12. ASSUME UNCHANGED <<turn, lock, convs>> PROVE (Exclusive /\ Fresh /\ Counted)'
  BY <1>0, <1>12 DEF Exclusive, Fresh, Counted, convs
<1>13. ASSUME NEW p \in Procs, NEW c \in Convs, Expire(p, c) PROVE (Exclusive /\ Fresh /\ Counted)'
  BY <1>12, <1>13 DEF Expire
<1>14. ASSUME NEW c \in Convs, ResetChat(c) PROVE (Exclusive /\ Fresh /\ Counted)'
  BY <1>12, <1>14 DEF ResetChat
<1>15. CASE InvoicePaid \/ NewMonth
  BY <1>12, <1>15 DEF InvoicePaid, NewMonth
<1>16. CASE UNCHANGED vars
  BY <1>12, <1>16 DEF vars, convs
<1> QED
  BY <1>1, <1>2, <1>3, <1>4, <1>5, <1>6, <1>7, <1>8, <1>9, <1>10, <1>11, <1>13, <1>14,
     <1>15, <1>16 DEF Next

(* The lock of the usage record, taken for another reason, keeps overlapping *)
(* turns of a metered agent from losing each other's messages                *)
(* (MessagesCounted).                                                        *)
THEOREM MessagesHold == Spec => []MessagesCounted
<1>1. TypeOK /\ Chatting /\ CountInv /\ [Next]_vars => (TypeOK /\ Chatting /\ CountInv)'
  BY TypeStep, ChatStep, CountStep
<1>2. CountInv => MessagesCounted
  BY DEF CountInv, Counted, MessagesCounted
<1> QED
  BY <1>1, <1>2, InitTyped, CountInit, PTL DEF Spec

-----------------------------------------------------------------------------
(* Progress *)

(* What is left of a turn at each step.                                      *)
Left == [s \in Steps \union {"idle"} |->
           CASE s = "admitted" -> 7 [] s = "running" -> 6 [] s = "answered" -> 5 [] s = "waiting" -> 4
             [] s = "reading" -> 3 [] s = "writing" -> 2 [] s = "replying" -> 1 [] s = "idle" -> 0]

(* The guards of Go(t): a turn in its transaction goes on, one that waits    *)
(* does when the record is free, and the others when their loop is.          *)
MayGo(t) ==
  CASE turn[t].step \in {"reading", "writing"} -> TRUE
    [] turn[t].step = "waiting" -> lock = None
    [] turn[t].step \in {"admitted", "running", "answered", "replying"} -> LoopFree(turn[t].proc)
    [] OTHER -> FALSE

(* While a turn is under way some turn can go on, or the one that holds the  *)
(* record is the reply that its own process keeps waiting.                   *)
OnlyReplyBlocks ==
  (\E t \in Turn : turn[t] # Idle) => StuckReply \/ \E t \in Turn : MayGo(t)

(* No step of the system sets a turn back.                                   *)
NoTurnBack ==
  \A t \in Turn : \/ turn'[t] = turn[t]
                  \/ Left[turn'[t].step] < Left[turn[t].step]
                  \/ turn[t] = Idle /\ turn'[t].step = "admitted"

(* A turn that replies with the record locked has no conversation.           *)
HeldReply == \A t \in Turn : lock = t /\ turn[t].step = "replying" => turn[t].conv = Bare

(* One step of one turn, whatever its action.                                *)
Moves(t, from, to) ==
  /\ turn[t].step \in from /\ turn'[t].step \in to
  /\ \A u \in Turn : u # t => turn'[u] = turn[u]

LEMMA GoMoves ==
  ASSUME TypeOK, NEW t \in Turn
  PROVE  /\ Prepare(t) => Moves(t, {"admitted"}, {"running", "idle"}) /\ lock' = lock
         /\ Answer(t) => Moves(t, {"running"}, {"answered"}) /\ lock' = lock
         /\ Fail(t) => Moves(t, {"admitted", "running"}, {"idle"}) /\ lock' = lock
         /\ Record(t) => /\ Moves(t, {"answered"}, {"reading", "waiting", "replying"})
                         /\ lock' \in {lock, t}
                         /\ turn'[t].step = "replying" => turn'[t].conv = Bare
         /\ Acquire(t) => /\ Moves(t, {"waiting"}, {"reading", "replying", "idle"})
                          /\ lock' \in {lock, t}
                          /\ turn'[t].step = "replying" => turn'[t].conv = Bare
         /\ ReadCount(t) => Moves(t, {"reading"}, {"writing", "idle"}) /\ lock' \in {lock, Free(t)}
         /\ CommitCount(t) => Moves(t, {"writing"}, {"replying", "idle"}) /\ lock' = Free(t)
         /\ Reply(t) => Moves(t, {"replying"}, {"idle"}) /\ lock' = Free(t)
<1>a. ASSUME Stop(t), NEW from, turn[t].step \in from, NEW to, "idle" \in to
      PROVE  Moves(t, from, to) /\ turn'[t].step = "idle"
  BY <1>a, StopTyped, IdleStep DEF Moves
<1>b. ASSUME NEW s \in Steps, Step(t, s), NEW from, turn[t].step \in from, "idle" \notin from,
             NEW to, s \in to
      PROVE  Moves(t, from, to) /\ turn'[t].step = s /\ turn'[t].conv = turn[t].conv
  BY <1>b, StepTyped DEF Moves
<1>1. Prepare(t) => Moves(t, {"admitted"}, {"running", "idle"}) /\ lock' = lock
  <2> SUFFICES ASSUME Prepare(t) PROVE Moves(t, {"admitted"}, {"running", "idle"}) /\ lock' = lock
    OBVIOUS
  <2>1. turn[t].step = "admitted" /\ lock' = lock
    BY DEF Prepare, Runs, At
  <2>2. Stop(t) \/ GoTo(t, "running", memory /\ sess[turn[t].proc][turn[t].conv] # "expired", FALSE, 0)
    BY DEF Prepare
  <2>3. (memory /\ sess[turn[t].proc][turn[t].conv] # "expired") \in BOOLEAN /\ "running" \in Steps
    BY DEF TypeOK, Steps
  <2> QED
    BY <1>a, <2>1, <2>2, <2>3, GoToTyped DEF Moves
<1>2. Answer(t) => Moves(t, {"running"}, {"answered"}) /\ lock' = lock
  BY <1>b DEF Answer, Runs, At, Steps
<1>3. Fail(t) => Moves(t, {"admitted", "running"}, {"idle"}) /\ lock' = lock
  BY <1>a DEF Fail, Runs, At
<1>4. Record(t) => /\ Moves(t, {"answered"}, {"reading", "waiting", "replying"})
                   /\ lock' \in {lock, t}
                   /\ turn'[t].step = "replying" => turn'[t].conv = Bare
  <2> SUFFICES ASSUME Record(t)
               PROVE  /\ Moves(t, {"answered"}, {"reading", "waiting", "replying"})
                      /\ lock' \in {lock, t}
                      /\ turn'[t].step = "replying" => turn'[t].conv = Bare
    OBVIOUS
  <2>1. turn[t].step = "answered" /\ lock' \in {lock, t}
    BY DEF Record, Runs, At
  <2>2. CASE Step(t, Counting(t))
    BY <1>b, <2>1, <2>2 DEF Counting, Steps
  <2>3. CASE GoTo(t, "waiting", FALSE, row, 0)
    <3>1. "waiting" \in Steps /\ row \in BOOLEAN /\ turn[t].step # "idle"
      BY <2>1 DEF Steps, TypeOK
    <3>2. ASSUME NEW own \in BOOLEAN, NEW saw \in BOOLEAN, NEW seen \in Nat,
                 GoTo(t, "waiting", own, saw, seen)
          PROVE  turn'[t].step = "waiting" /\ \A u \in Turn : u # t => turn'[u] = turn[u]
      BY <3>1, <3>2, GoToTyped
    <3>3. turn'[t].step = "waiting" /\ \A u \in Turn : u # t => turn'[u] = turn[u]
      BY <2>3, <3>1, <3>2
    <3> QED
      BY <2>1, <3>3 DEF Moves
  <2> QED
    BY <2>2, <2>3 DEF Record
<1>5. Acquire(t) => /\ Moves(t, {"waiting"}, {"reading", "replying", "idle"})
                    /\ lock' \in {lock, t}
                    /\ turn'[t].step = "replying" => turn'[t].conv = Bare
  <2> SUFFICES ASSUME Acquire(t)
               PROVE  /\ Moves(t, {"waiting"}, {"reading", "replying", "idle"})
                      /\ lock' \in {lock, t}
                      /\ turn'[t].step = "replying" => turn'[t].conv = Bare
    OBVIOUS
  <2>1. turn[t].step = "waiting" /\ lock' \in {lock, t}
    BY DEF Acquire, At
  <2>2. CASE Step(t, Counting(t))
    BY <1>b, <2>1, <2>2 DEF Counting, Steps
  <2>3. CASE Step(t, "replying") /\ turn[t].conv = Bare
    BY <1>b, <2>1, <2>3 DEF Steps
  <2>4. CASE Stop(t)
    BY <1>a, <2>1, <2>4
  <2> QED
    BY <2>2, <2>3, <2>4 DEF Acquire
<1>6. ReadCount(t) => Moves(t, {"reading"}, {"writing", "idle"}) /\ lock' \in {lock, Free(t)}
  <2> SUFFICES ASSUME ReadCount(t)
               PROVE  Moves(t, {"reading"}, {"writing", "idle"}) /\ lock' \in {lock, Free(t)}
    OBVIOUS
  <2>1. turn[t].step = "reading" /\ lock' \in {lock, Free(t)}
    BY DEF ReadCount, At
  <2>2. CASE GoTo(t, "writing", FALSE, FALSE, count[turn[t].conv]) /\ turn[t].conv \in exists
    BY <2>1, <2>2, GoToTyped DEF Moves, Steps, TypeOK
  <2>3. CASE Stop(t)
    BY <1>a, <2>1, <2>3
  <2> QED
    BY <2>1, <2>2, <2>3 DEF ReadCount
<1>7. CommitCount(t) => Moves(t, {"writing"}, {"replying", "idle"}) /\ lock' = Free(t)
  BY <1>a, <1>b DEF CommitCount, CountCall, At, Steps
<1>8. Reply(t) => Moves(t, {"replying"}, {"idle"}) /\ lock' = Free(t)
  BY <1>a DEF Reply, CountCall, Runs, At
<1> QED
  BY <1>1, <1>2, <1>3, <1>4, <1>5, <1>6, <1>7, <1>8

LEMMA NoTurnBackStep == TypeOK /\ [Next]_vars => NoTurnBack
<1> SUFFICES ASSUME TypeOK, [Next]_vars, NEW u \in Turn
             PROVE  \/ turn'[u] = turn[u]
                    \/ Left[turn'[u].step] < Left[turn[u].step]
                    \/ turn[u] = Idle /\ turn'[u].step = "admitted"
  BY DEF NoTurnBack
<1>0. /\ Left["admitted"] = 7 /\ Left["running"] = 6 /\ Left["answered"] = 5 /\ Left["waiting"] = 4
      /\ Left["reading"] = 3 /\ Left["writing"] = 2 /\ Left["replying"] = 1 /\ Left["idle"] = 0
  BY DEF Left, Steps
<1>1. ASSUME NEW t \in Turn, NEW from, NEW to, Moves(t, from, to),
             \A a \in from, b \in to : Left[b] < Left[a]
      PROVE  turn'[u] = turn[u] \/ Left[turn'[u].step] < Left[turn[u].step]
  BY <1>1 DEF Moves
<1>2. ASSUME NEW t \in Turn, Prepare(t) \/ Answer(t) \/ Fail(t) \/ Record(t) \/ Acquire(t)
                              \/ ReadCount(t) \/ CommitCount(t) \/ Reply(t)
      PROVE  turn'[u] = turn[u] \/ Left[turn'[u].step] < Left[turn[u].step]
  <2>1. CASE Prepare(t) \/ Answer(t) \/ Fail(t)
    BY <1>0, <1>1, <2>1, GoMoves
  <2>2. CASE Record(t) \/ Acquire(t)
    BY <1>0, <1>1, <2>2, GoMoves
  <2>3. CASE ReadCount(t) \/ CommitCount(t) \/ Reply(t)
    BY <1>0, <1>1, <2>3, GoMoves
  <2> QED
    BY <1>2, <2>1, <2>2, <2>3
<1>3. ASSUME NEW t \in Turn, NEW p \in Procs, NEW c \in Chats, NEW q \in BOOLEAN, Admit(t, p, c, q)
      PROVE  turn'[u] = turn[u] \/ (turn[u] = Idle /\ turn'[u].step = "admitted")
  <2>1. turn[t].step = "idle"
    BY <1>3 DEF Admit, At
  <2>2. turn[t] = Idle
    BY <2>1 DEF TypeOK, ATurn, Steps
  <2>3. PICK r : r = [step |-> "admitted", proc |-> p, conv |-> c, quota |-> q,
                      own |-> FALSE, saw |-> FALSE, seen |-> 0]
    OBVIOUS
  <2>4. turn' = [turn EXCEPT ![t] = r] /\ r.step = "admitted"
    BY <1>3, <2>3 DEF Admit
  <2>5. turn'[t].step = "admitted" /\ (u # t => turn'[u] = turn[u])
    BY <2>4 DEF TypeOK
  <2> QED
    BY <2>2, <2>5
<1>4. ASSUME NEW p \in Procs, Crash(p)
      PROVE  turn'[u] = turn[u] \/ Left[turn'[u].step] < Left[turn[u].step]
  <2>1. turn'[u] = turn[u] \/ (turn'[u] = Idle /\ turn[u] # Idle)
    BY <1>4 DEF Crash
  <2>2. turn[u] # Idle => turn[u].step \in Steps
    BY DEF TypeOK, ATurn
  <2> QED
    BY <1>0, <2>1, <2>2, IdleStep DEF Steps
<1>5. CASE \/ \E p \in Procs, c \in Convs : Expire(p, c)
           \/ \E c \in Convs : DeleteConversation(c) \/ ResetChat(c)
           \/ InvoicePaid \/ NewMonth \/ UNCHANGED vars
  BY <1>5 DEF Expire, DeleteConversation, ResetChat, InvoicePaid, NewMonth, vars
<1> QED
  BY <1>2, <1>3, <1>4, <1>5 DEF Next

LEMMA HeldReplyStep == TypeOK /\ HeldReply /\ [Next]_vars => HeldReply'
<1> SUFFICES ASSUME TypeOK, HeldReply, [Next]_vars, NEW u \in Turn, lock' = u, turn'[u].step = "replying"
             PROVE  turn'[u].conv = Bare
  BY DEF HeldReply
<1> USE TurnAssumption
<1>0. ASSUME turn'[u] = turn[u], lock = u PROVE turn'[u].conv = Bare
  BY <1>0 DEF HeldReply
<1>1. ASSUME NEW t \in Turn, Prepare(t) \/ Answer(t) \/ Fail(t)
      PROVE  turn'[u].conv = Bare
  BY <1>0, <1>1, GoMoves DEF Moves
<1>2. ASSUME NEW t \in Turn, Record(t) \/ Acquire(t)
      PROVE  turn'[u].conv = Bare
  BY <1>0, <1>2, GoMoves DEF Moves
<1>3. ASSUME NEW t \in Turn, ReadCount(t) \/ CommitCount(t) \/ Reply(t)
      PROVE  turn'[u].conv = Bare
  <2>1. turn'[t].step \in {"writing", "idle"} \/ lock' = Free(t)
    BY <1>3, GoMoves DEF Moves
  <2>2. u # t
    BY <2>1, FreeTyped
  <2>3. lock = u /\ turn'[u] = turn[u]
    BY <1>3, <2>2, GoMoves, FreeTyped DEF Moves
  <2> QED
    BY <1>0, <2>3
<1>4. ASSUME NEW t \in Turn, NEW p \in Procs, NEW c \in Chats, NEW q \in BOOLEAN, Admit(t, p, c, q)
      PROVE  turn'[u].conv = Bare
  BY <1>0, <1>4 DEF Admit, TypeOK
<1>5. ASSUME NEW p \in Procs, Crash(p)
      PROVE  turn'[u].conv = Bare
  BY <1>0, <1>5, IdleStep DEF Crash
<1>6. CASE \/ \E p \in Procs, c \in Convs : Expire(p, c)
           \/ \E c \in Convs : DeleteConversation(c) \/ ResetChat(c)
           \/ InvoicePaid \/ NewMonth \/ UNCHANGED vars
  BY <1>0, <1>6 DEF Expire, DeleteConversation, ResetChat, InvoicePaid, NewMonth, vars
<1> QED
  BY <1>1, <1>2, <1>3, <1>4, <1>5, <1>6 DEF Next

(* A turn that cannot go on waits for the record, or for a turn that does,   *)
(* so the record is held; and its holder cannot go on only while it replies. *)
LEMMA ReplyBlocks == TypeOK /\ HeldReply => OnlyReplyBlocks
<1> SUFFICES ASSUME TypeOK, HeldReply, NEW t \in Turn, turn[t] # Idle,
                    \A u \in Turn : ~MayGo(u)
             PROVE  StuckReply
  BY DEF OnlyReplyBlocks
<1>1. turn[t].step \in Steps
  BY DEF TypeOK, ATurn
<1>2. PICK w \in Turn : turn[w].step = "waiting"
  <2>1. CASE turn[t].step = "waiting"
    BY <2>1
  <2>2. CASE turn[t].step # "waiting"
    <3>1. ~LoopFree(turn[t].proc)
      BY <1>1, <2>2 DEF MayGo, Steps
    <3>2. PICK u \in Turn : turn[u].step \in Busy
      BY <3>1 DEF LoopFree
    <3> QED
      BY <3>2 DEF Busy, MayGo
  <2> QED
    BY <2>1, <2>2
<1>3. lock # None /\ lock \in Turn
  BY <1>2 DEF MayGo, TypeOK
<1>4. turn[lock].step = "replying"
  BY <1>3 DEF TypeOK, MayGo
<1>5. ~LoopFree(turn[lock].proc) /\ turn[lock].conv = Bare
  BY <1>3, <1>4 DEF MayGo, HeldReply
<1> QED
  BY <1>3, <1>4, <1>5 DEF StuckReply

(* Deadlock of turns has one shape (what TurnEnds leaves out): the holder of *)
(* the usage record is a reply without a conversation, whose process waits.  *)
THEOREM StuckOnlyByReply == Spec => []OnlyReplyBlocks
<1>1. Init => HeldReply
  BY DEF Init, HeldReply, Idle
<1>2. TypeOK /\ Chatting /\ HeldReply /\ [Next]_vars => (TypeOK /\ Chatting /\ HeldReply)'
  BY TypeStep, ChatStep, HeldReplyStep
<1> QED
  BY <1>1, <1>2, InitTyped, ReplyBlocks, PTL DEF Spec

(* Every step of a turn brings it nearer to its end, and no other step keeps *)
(* it from there: a turn that goes on ends after at most seven steps.        *)
THEOREM TurnsAdvance == Spec => [][NoTurnBack]_vars
<1>1. TypeOK /\ Chatting /\ [Next]_vars => (TypeOK /\ Chatting)'
  BY TypeStep, ChatStep
<1> QED
  BY <1>1, InitTyped, NoTurnBackStep, PTL DEF Spec

-----------------------------------------------------------------------------
(* The ledger of a metered agent *)

Ledger == INSTANCE TurnLedger WITH calls <- usage, messages <- count, bare <- done[Bare], open <- exists

LedgerVars == <<usage, count, done[Bare], exists>>

(* Only the commit of a turn in a conversation changes calls and messages;   *)
(* it holds the record, so the sum it writes is the count of now and two.    *)
LEMMA CommitSettles ==
  ASSUME TypeOK, Exclusive, Fresh, NEW t \in Turn, CommitCount(t)
  PROVE  [Ledger!Next]_LedgerVars
<1>1. turn[t].step = "writing" /\ lock = t
  BY DEF CommitCount, At, Exclusive
<1>2. PICK c : c = turn[t].conv
  OBVIOUS
<1>3. CASE c \in exists
  <2>1. c \in Convs /\ turn[t].seen = count[c]
    BY <1>1, <1>2, <1>3 DEF Fresh, TypeOK
  <2>2. /\ usage' = usage + 1 /\ exists' = exists
        /\ count' = [count EXCEPT ![c] = count[c] + 2]
        /\ done' = [done EXCEPT ![c] = done[c] + 1]
    BY <1>1, <1>2, <1>3, <2>1 DEF CommitCount, CountCall
  <2>3. done'[Bare] = done[Bare]
    BY <2>1, <2>2, ConvAssumption DEF TypeOK, Chats
  <2>4. Ledger!Settle(c)
    BY <1>3, <2>2, <2>3 DEF Ledger!Settle
  <2> QED
    BY <2>1, <2>4 DEF Ledger!Next
<1>4. CASE c \notin exists
  BY <1>2, <1>4 DEF CommitCount, LedgerVars
<1> QED
  BY <1>3, <1>4

(* The reply commits a call of its own only without a conversation: the turn *)
(* of a conversation has given the record back.                              *)
LEMMA ReplySettles ==
  ASSUME TypeOK, HeldReply, NEW t \in Turn, Reply(t)
  PROVE  [Ledger!Next]_LedgerVars
<1>1. turn[t].step = "replying" /\ count' = count /\ exists' = exists
  BY DEF Reply, Runs, At
<1>2. CASE turn[t].conv = Bare
  <2>1. done'[Bare] = done[Bare] + 1
    BY <1>2 DEF Reply, TypeOK, Chats
  <2>2. usage' \in {usage, usage + 1}
    BY DEF Reply, CountCall, quotas
  <2>3. Ledger!SettleBare
    BY <1>1, <2>1, <2>2 DEF Ledger!SettleBare
  <2> QED
    BY <2>3 DEF Ledger!Next
<1>3. CASE turn[t].conv # Bare
  <2>1. lock # t
    BY <1>1, <1>3 DEF HeldReply
  <2>2. usage' = usage /\ done' = done
    BY <1>3, <2>1 DEF Reply, CountCall, quotas
  <2> QED
    BY <1>1, <2>2 DEF LedgerVars
<1> QED
  BY <1>2, <1>3

LEMMA LedgerStep ==
  ASSUME TypeOK, CountInv, HeldReply, metered, [Next]_vars
  PROVE  [Ledger!Next]_LedgerVars
<1>0. Exclusive /\ Fresh
  BY DEF CountInv
<1>1. ASSUME UNCHANGED <<usage, count, done, exists>> PROVE [Ledger!Next]_LedgerVars
  BY <1>1 DEF LedgerVars
<1>2. ASSUME NEW t \in Turn,
             \/ \E p \in Procs, c \in Chats, q \in BOOLEAN : Admit(t, p, c, q)
             \/ Prepare(t) \/ Answer(t) \/ Fail(t) \/ Record(t) \/ Acquire(t) \/ ReadCount(t)
      PROVE  [Ledger!Next]_LedgerVars
  BY <1>1, <1>2 DEF Admit, Prepare, Answer, Fail, Record, Acquire, ReadCount, quotas, convs
<1>3. ASSUME NEW p \in Procs, Crash(p) \/ \E c \in Convs : Expire(p, c)
      PROVE  [Ledger!Next]_LedgerVars
  BY <1>1, <1>3 DEF Crash, Expire, quotas, convs
<1>4. ASSUME NEW c \in Convs, DeleteConversation(c)
      PROVE  [Ledger!Next]_LedgerVars
  <2>1. Ledger!Drop(c)
    BY <1>4 DEF DeleteConversation, quotas, convs, Ledger!Drop
  <2> QED
    BY <2>1 DEF Ledger!Next
<1>5. ASSUME NEW c \in Convs, ResetChat(c) PROVE [Ledger!Next]_LedgerVars
  BY <1>1, <1>5 DEF ResetChat, quotas, convs
<1>6. CASE InvoicePaid \/ NewMonth
  BY <1>6 DEF InvoicePaid, NewMonth, convs, Ledger!Next, Ledger!NewPeriod
<1>7. CASE UNCHANGED vars
  BY <1>1, <1>7 DEF vars
<1> QED
  BY <1>0, <1>2, <1>3, <1>4, <1>5, <1>6, <1>7, CommitSettles, ReplySettles DEF Next

(* The turns of a metered agent, read without a lock and written back in     *)
(* several steps and processes, keep one ledger: a call is counted if and    *)
(* only if the two messages of its turn are, in one step (TurnLedger).       *)
THEOREM TurnsKeepLedger == Spec /\ metered => Ledger!Spec
<1>1. Init => Ledger!Init
  BY DEF Init, Ledger!Init, Chats
<1>2. Init => HeldReply
  BY DEF Init, HeldReply, Idle
<1>3. TypeOK /\ Chatting /\ CountInv /\ HeldReply /\ [Next]_vars
        => (TypeOK /\ Chatting /\ CountInv /\ HeldReply)'
  BY TypeStep, ChatStep, CountStep, HeldReplyStep
<1>4. metered /\ [Next]_vars => metered'
  BY AgentKept, Zenon DEF agent
<1>5. TypeOK /\ CountInv /\ HeldReply /\ metered /\ [Next]_vars => [Ledger!Next]_LedgerVars
  BY LedgerStep
<1> QED
  BY <1>1, <1>2, <1>3, <1>4, <1>5, InitTyped, CountInit, PTL DEF Spec, Ledger!Spec, Ledger!ledger, LedgerVars
=============================================================================
