-------------------------- MODULE MCSandboxSessions --------------------------
(* Small instances of SandboxSessions: one call for each key of a process,  *)
(* or two calls on the same key, in one process or in two.                  *)
EXTENDS SandboxSessions, TLC

CONSTANTS c1, c2, k1, k2, p1

MCCalls == {c1, c2}
SameHome == [c \in MCCalls |-> p1]
SameKey == [c \in MCCalls |-> k1]
OwnKey == [c \in MCCalls |-> IF c = c1 THEN k1 ELSE k2]

Ids == Permutations(Boxes) \union Permutations(Locks)

(* A call and its key are exchanged together. *)
Exchange == {[v \in {c1, c2, k1, k2} |->
                CASE v = c1 -> c2 [] v = c2 -> c1 [] v = k1 -> k2 [] OTHER -> k1]}

OwnKeySymmetry == Ids \union Exchange
=============================================================================
