-------------------------------- MODULE Turns --------------------------------
(***************************************************************************)
(* The chat turns of one user with one agent: the quotas tested before and *)
(* counted after, the chat session that names the thread of a conversation,*)
(* the message count, and the transaction that spans the end of a turn.    *)
(*                                                                         *)
(* Each turn runs on the event loop of a uvicorn process, and its database *)
(* calls are synchronous: one that waits for a row lock keeps its whole    *)
(* process waiting.  A turn "counting" holds the loop; between its other   *)
(* steps it awaits the model or the client, and other turns run.  Left out:*)
(* the agent's request_count, and a month that ends during a transaction.  *)
(***************************************************************************)
EXTENDS Integers, FiniteSets

CONSTANTS Procs,        \* uvicorn processes
          Turn,         \* turns that may overlap
          Convs,        \* the user's conversations with the agent
          Bare,         \* a request without a conversation
          Limit,        \* calls of the tier, 0 or less for any number
          MarketLimit,  \* calls of the marketplace's quota, likewise
          None,
          MaxDone       \* bound on the turns that complete

ASSUME TurnAssumption == IsFiniteSet(Turn) /\ None \notin Turn
ASSUME ConvAssumption == Bare \notin Convs /\ None \notin Convs
ASSUME LimitAssumption == Limit \in Int /\ MarketLimit \in Int /\ MaxDone \in Nat

VARIABLES memory,   \* the agent's has_memory
          metered,  \* its model is a system AI service, whose calls are counted
          row,      \* the usage record of the period exists
          usage,    \* its call_count
          market,   \* the user's marketplace calls of the month
          lock,     \* the turn whose transaction holds the usage record
          sess,     \* chat sessions in each process's memory
          thread,   \* checkpointer: whose messages each thread holds
          exists,   \* conversations not deleted
          count,    \* their message_count
          turn,     \* the turns
          wiped,    \* history: conversations reset after their last answer
          done      \* history: completed turns of each conversation, and without one

vars == <<memory, metered, row, usage, market, lock, sess, thread, exists, count, turn, wiped, done>>
agent == <<memory, metered>>
quotas == <<row, usage, market>>
convs == <<exists, count, done>>
threads == <<thread, wiped>>

Chats == Convs \union {Bare}

(* Threads are named by the session of a conversation, by the agent alone    *)
(* (Bare) or, in a reset, by the number of a conversation.                   *)
ResetName(c) == <<"number", c>>
Names == Chats \union {ResetName(c) : c \in Convs}

Idle == [step |-> "idle"]
Steps == {"admitted", "running", "answered", "waiting", "reading", "writing", "replying"}
Busy == {"waiting", "reading", "writing"}

(* own: the turn runs in its conversation's thread; quota: it counts for the *)
(* marketplace; saw: it found a usage record; seen: the count it has read.   *)
ATurn == [step : Steps, proc : Procs, conv : Chats, quota : BOOLEAN,
          own : BOOLEAN, saw : BOOLEAN, seen : Nat]

TypeOK ==
  /\ memory \in BOOLEAN /\ metered \in BOOLEAN
  /\ row \in BOOLEAN /\ usage \in Nat /\ market \in Nat
  /\ lock \in Turn \union {None}
  /\ sess \in [Procs -> [Convs -> {"none", "live", "expired"}]]
  /\ thread \in [Names -> SUBSET Convs]
  /\ wiped \subseteq Convs
  /\ exists \subseteq Convs
  /\ count \in [Convs -> Nat]
  /\ turn \in [Turn -> ATurn \union {Idle}]
  /\ done \in [Chats -> Nat]
  /\ lock # None => turn[lock].step \in {"reading", "writing", "replying"}

Init ==
  /\ memory \in BOOLEAN /\ metered \in BOOLEAN
  /\ row = FALSE /\ usage = 0 /\ market = 0
  /\ lock = None
  /\ sess = [p \in Procs |-> [c \in Convs |-> "none"]]
  /\ thread = [n \in Names |-> {}]
  /\ wiped = {}
  /\ exists = Convs
  /\ count = [c \in Convs |-> 0]
  /\ turn = [t \in Turn |-> Idle]
  /\ done = [c \in Chats |-> 0]

(* The loop of a process is held by a turn that is in a database call.       *)
LoopFree(p) == \A t \in Turn : turn[t].step \in Busy => turn[t].proc # p

(* A turn takes a step, remembers what the next one needs and no more.       *)
GoTo(t, s, own, saw, seen) ==
  turn' = [turn EXCEPT ![t] =
             [step |-> s, proc |-> turn[t].proc, conv |-> turn[t].conv, quota |-> turn[t].quota,
              own |-> own, saw |-> saw, seen |-> seen]]
Step(t, s) == GoTo(t, s, FALSE, FALSE, 0)
Stop(t) == turn' = [turn EXCEPT ![t] = Idle]
At(t, s) == turn[t].step = s
Runs(t, s) == At(t, s) /\ LoopFree(turn[t].proc)

-----------------------------------------------------------------------------
(* Before the model is called *)

(* Variant: the limit itself passes. *)
Below_OneMore(n, limit) == limit <= 0 \/ n <= limit

Below(n, limit) == limit <= 0 \/ n < limit

(* The router tests the marketplace's quota; an exempt user, a private agent *)
(* and the streaming endpoint of the playground do not count for it.         *)
Admit(t, p, c, q) ==
  /\ At(t, "idle") /\ LoopFree(p)
  /\ c = Bare => ~memory
  /\ done[c] < MaxDone
  /\ q => Below(market, MarketLimit)
  /\ turn' = [turn EXCEPT ![t] = [step |-> "admitted", proc |-> p, conv |-> c, quota |-> q,
                                  own |-> FALSE, saw |-> FALSE, seen |-> 0]]
  /\ UNCHANGED <<agent, quotas, lock, sess, threads, convs>>

(* _prepare_turn tests the tier's quota, whichever service the agent uses,   *)
(* then the conversation, and takes the session of an agent with memory: one *)
(* that has expired is dropped and the turn has none.                        *)
Prepare(t) ==
  /\ Runs(t, "admitted")
  /\ LET c == turn[t].conv  p == turn[t].proc IN
     IF ~Below(usage, Limit) \/ c \notin exists \union {Bare}
     THEN Stop(t) /\ sess' = sess
     ELSE /\ GoTo(t, "running", memory /\ sess[p][c] # "expired", FALSE, 0)
          /\ sess' = IF memory THEN [sess EXCEPT ![p][c] = IF @ = "expired" THEN "none" ELSE "live"] ELSE sess
  /\ UNCHANGED <<agent, quotas, lock, threads, convs>>

Thread(t) == IF turn[t].own THEN turn[t].conv ELSE Bare

(* The model answers.  When its provider rejects an incomplete checkpoint    *)
(* the thread is deleted and the turn tried again, once.                     *)
Answer(t) ==
  /\ Runs(t, "running")
  /\ Step(t, "answered")
  /\ LET said == IF memory THEN {turn[t].conv} ELSE {} IN
     /\ \/ thread' = [thread EXCEPT ![Thread(t)] = @ \union said]
        \/ turn[t].own /\ thread' = [thread EXCEPT ![Thread(t)] = said]
     /\ wiped' = wiped \ said
  /\ UNCHANGED <<agent, quotas, lock, sess, convs>>

(* The model fails, a check refuses the turn or the client goes away.        *)
Fail(t) ==
  /\ \/ Runs(t, "admitted") \/ Runs(t, "running")
  /\ Stop(t)
  /\ UNCHANGED <<agent, quotas, lock, sess, threads, convs>>

-----------------------------------------------------------------------------
(* Afterwards: one transaction for the usage record and the conversation *)

Counting(t) == IF turn[t].conv = Bare THEN "replying" ELSE "reading"

(* Variant: the usage record is read without FOR UPDATE. *)
Record_Unlocked(t) ==
  /\ Runs(t, "answered")
  /\ Step(t, Counting(t))
  /\ lock' = IF metered /\ lock = None THEN t ELSE lock
  /\ UNCHANGED <<agent, quotas, sess, threads, convs>>

(* A call to a system service is counted under the lock of the usage record, *)
(* or by inserting the record; either waits for a transaction that did so    *)
(* and has not ended.                                                        *)
Record(t) ==
  /\ Runs(t, "answered")
  /\ IF ~metered THEN Step(t, Counting(t)) /\ lock' = lock
     ELSE IF lock = None THEN Step(t, Counting(t)) /\ lock' = t
     ELSE GoTo(t, "waiting", FALSE, row, 0) /\ lock' = lock
  /\ UNCHANGED <<agent, quotas, sess, threads, convs>>

(* It goes on with the record it has waited for.  One that found none cannot *)
(* insert it once another has: the error is swallowed and breaks the         *)
(* session, so that the next statement, if there is one, fails the turn.     *)
Acquire(t) ==
  /\ At(t, "waiting") /\ lock = None
  /\ IF row /\ ~turn[t].saw
     THEN /\ IF turn[t].conv = Bare THEN Step(t, "replying") ELSE Stop(t)
          /\ lock' = lock
     ELSE Step(t, Counting(t)) /\ lock' = t
  /\ UNCHANGED <<agent, quotas, sess, threads, convs>>

Free(t) == IF lock = t THEN None ELSE lock

(* increment_message_count reads the row without a lock, writes the sum and  *)
(* commits, the usage record too.  A conversation deleted meanwhile fails    *)
(* the turn and rolls it back.                                               *)
ReadCount(t) ==
  /\ At(t, "reading")
  /\ IF turn[t].conv \in exists
     THEN GoTo(t, "writing", FALSE, FALSE, count[turn[t].conv]) /\ lock' = lock
     ELSE Stop(t) /\ lock' = Free(t)
  /\ UNCHANGED <<agent, quotas, sess, threads, convs>>

CountCall(t) ==
  /\ row' = (row \/ lock = t)
  /\ usage' = IF lock = t THEN usage + 1 ELSE usage
  /\ lock' = Free(t)

CommitCount(t) ==
  /\ At(t, "writing")
  /\ LET c == turn[t].conv IN
     IF c \in exists
     THEN /\ count' = [count EXCEPT ![c] = turn[t].seen + 2]
          /\ done' = [done EXCEPT ![c] = @ + 1]
          /\ Step(t, "replying")
          /\ CountCall(t)
     ELSE Stop(t) /\ lock' = Free(t) /\ UNCHANGED <<count, done, row, usage>>
  /\ UNCHANGED <<agent, market, sess, threads, exists>>

(* Variant: the session is left open when nothing is committed. *)
Reply_NoClose(t) ==
  /\ Runs(t, "replying")
  /\ Stop(t)
  /\ IF turn[t].quota
     THEN market' = market + 1 /\ CountCall(t)
     ELSE lock' = lock /\ UNCHANGED quotas
  /\ done' = IF turn[t].conv = Bare THEN [done EXCEPT ![Bare] = @ + 1] ELSE done
  /\ UNCHANGED <<agent, sess, threads, exists, count>>

(* The answer is sent and the marketplace's call counted, which commits what *)
(* the session holds; without that its close rolls it back.                  *)
Reply(t) ==
  /\ Runs(t, "replying")
  /\ Stop(t)
  /\ IF turn[t].quota
     THEN market' = market + 1 /\ CountCall(t)
     ELSE lock' = Free(t) /\ UNCHANGED quotas
  /\ done' = IF turn[t].conv = Bare THEN [done EXCEPT ![Bare] = @ + 1] ELSE done
  /\ UNCHANGED <<agent, sess, threads, exists, count>>

-----------------------------------------------------------------------------
(* The rest of the world *)

(* A day without a turn; the session is found expired by the next one.       *)
Expire(p, c) ==
  /\ sess[p][c] = "live"
  /\ \A t \in Turn : turn[t] # Idle => turn[t].conv # c
  /\ sess' = [sess EXCEPT ![p][c] = "expired"]
  /\ UNCHANGED <<agent, quotas, lock, threads, convs, turn>>

(* The thread is deleted, then the conversation.                             *)
DeleteConversation(c) ==
  /\ c \in exists
  /\ exists' = exists \ {c}
  /\ thread' = [thread EXCEPT ![c] = {}] /\ wiped' = wiped \ {c}
  /\ UNCHANGED <<agent, quotas, lock, sess, count, turn, done>>

(* A reset of the chat takes, and drops, the session that the number of the  *)
(* conversation names, and deletes the thread of that session.               *)
ResetChat(c) ==
  /\ memory /\ c \in exists
  /\ \A t \in Turn : turn[t] # Idle => turn[t].conv # c
  /\ thread' = [thread EXCEPT ![ResetName(c)] = {}]
  /\ wiped' = wiped \union {c}
  /\ UNCHANGED <<agent, quotas, lock, sess, convs, turn>>

(* A paid invoice sets the record to zero, or inserts it.                    *)
InvoicePaid ==
  /\ lock = None
  /\ row' = TRUE /\ usage' = 0
  /\ UNCHANGED <<agent, market, lock, sess, threads, convs, turn>>

NewMonth ==
  /\ lock = None
  /\ row' = FALSE /\ usage' = 0 /\ market' = 0
  /\ UNCHANGED <<agent, lock, sess, threads, convs, turn>>

(* Variant: the transaction of a dead process is never rolled back. *)
Crash_KeepsLock(p) ==
  LET died == {t \in Turn : turn[t] # Idle /\ turn[t].proc = p} IN
  /\ died # {}
  /\ turn' = [t \in Turn |-> IF t \in died THEN Idle ELSE turn[t]]
  /\ sess' = [sess EXCEPT ![p] = [c \in Convs |-> "none"]]
  /\ UNCHANGED <<agent, quotas, lock, threads, convs>>

(* A process dies with its turns and its sessions and is started again.      *)
Crash(p) ==
  LET died == {t \in Turn : turn[t] # Idle /\ turn[t].proc = p} IN
  /\ died # {}
  /\ turn' = [t \in Turn |-> IF t \in died THEN Idle ELSE turn[t]]
  /\ lock' = IF lock \in died THEN None ELSE lock
  /\ sess' = [sess EXCEPT ![p] = [c \in Convs |-> "none"]]
  /\ UNCHANGED <<agent, quotas, threads, convs>>

Next ==
  \/ \E t \in Turn :
       \/ \E p \in Procs, c \in Chats, q \in BOOLEAN : Admit(t, p, c, q)
       \/ Prepare(t) \/ Answer(t) \/ Fail(t)
       \/ Record(t) \/ Acquire(t) \/ ReadCount(t) \/ CommitCount(t) \/ Reply(t)
  \/ \E p \in Procs : Crash(p) \/ (\E c \in Convs : Expire(p, c))
  \/ \E c \in Convs : DeleteConversation(c) \/ ResetChat(c)
  \/ InvoicePaid \/ NewMonth

Spec == Init /\ [][Next]_vars

(* A turn under way goes on: the model answers or fails, and clients read.   *)
(* Row locks are granted, and ready coroutines resumed, in order of arrival, *)
(* so a turn that is let through again and again is once.                    *)
Go(t) == Prepare(t) \/ Answer(t) \/ Fail(t) \/ Record(t) \/ Acquire(t)
           \/ ReadCount(t) \/ CommitCount(t) \/ Reply(t)
Fairness == \A t \in Turn : SF_vars(Go(t))
FairSpec == Spec /\ Fairness

-----------------------------------------------------------------------------
(* Properties *)

(* Both quotas are tested before a call and counted after it: they are       *)
(* exceeded by turns that overlap at the limit, and by no more than those.   *)
QuotaBounded ==
  /\ Limit > 0 => usage <= Limit - 1 + Cardinality(Turn)
  /\ MarketLimit > 0 => market <= MarketLimit - 1 + Cardinality(Turn)

(* message_count is read and written back without a lock.  What keeps        *)
(* overlapping turns of a metered agent from losing each other's messages is *)
(* the lock of the user's usage record, taken before and held to the commit. *)
MessagesCounted ==
  metered => \A c \in exists : count[c] = 2 * done[c]

(* No two conversations share a thread (models/conversation.py:17).          *)
OwnThread == \A n \in Names : Cardinality(thread[n]) <= 1

(* A conversation that was reset has no messages (the docstring of           *)
(* reset_conversation: "This will clear the conversation history").          *)
ResetClears == \A c \in wiped : thread[c] = {}

(* Every turn under way ends.  Only one thing can keep it waiting for ever:  *)
(* the record locked by a turn without a conversation, which commits nothing *)
(* before its reply, while another turn of its process waits for that lock   *)
(* in the event loop.                                                        *)
StuckReply ==
  /\ lock # None
  /\ turn[lock].step = "replying" /\ turn[lock].conv = Bare
  /\ ~LoopFree(turn[lock].proc)

TurnEnds == \A t \in Turn : turn[t] # Idle ~> (turn[t] = Idle \/ StuckReply)
=============================================================================
