------------------------------ MODULE TurnLedger ------------------------------
(* What the end of a metered turn promises: the call and the messages of a  *)
(* turn in a conversation enter the ledger in one step, both or neither.    *)
EXTENDS Naturals

CONSTANT Convs

VARIABLES calls,     \* calls counted in the period
          messages,  \* messages counted in each conversation
          bare,      \* turns without a conversation
          open       \* conversations that are not deleted

ledger == <<calls, messages, bare, open>>

Init ==
  /\ calls = 0
  /\ messages = [c \in Convs |-> 0]
  /\ bare = 0
  /\ open = Convs

(* The question and the answer count as two messages. *)
Settle(c) ==
  /\ c \in open
  /\ calls' = calls + 1
  /\ messages' = [messages EXCEPT ![c] = @ + 2]
  /\ UNCHANGED <<bare, open>>

(* A turn without a conversation counts its call or loses it. *)
SettleBare ==
  /\ bare' = bare + 1
  /\ calls' \in {calls, calls + 1}
  /\ UNCHANGED <<messages, open>>

Drop(c) ==
  /\ c \in open
  /\ open' = open \ {c}
  /\ UNCHANGED <<calls, messages, bare>>

NewPeriod ==
  /\ calls' = 0
  /\ UNCHANGED <<messages, bare, open>>

Next ==
  \/ \E c \in Convs : Settle(c) \/ Drop(c)
  \/ SettleBare \/ NewPeriod

Spec == Init /\ [][Next]_ledger
===============================================================================
