----------------------------- MODULE CrawlSlots -----------------------------
(* What the crawl queue promises the owner of a domain: one slot for each   *)
(* domain, which holds at most one job at a time, queued or running.        *)

CONSTANT Domains

VARIABLE slot

Init == slot = [d \in Domains |-> "free"]

Move(d, from, to) ==
  /\ slot[d] = from
  /\ slot' = [slot EXCEPT ![d] = to]

Submit(d) == Move(d, "free", "queued")

Start(d) == Move(d, "queued", "running")

(* Completion, failure or cancellation. *)
Close(d) == Move(d, "queued", "free") \/ Move(d, "running", "free")

(* A domain can be deleted only while its slot is free. *)
Remove(d) == Move(d, "free", "deleted")

(* A start-up recovery requeues the jobs of several domains at once. *)
Recover(S) ==
  /\ \A d \in S : slot[d] = "running"
  /\ slot' = [d \in Domains |-> IF d \in S THEN "queued" ELSE slot[d]]

Next ==
  \/ \E d \in Domains : Submit(d) \/ Start(d) \/ Close(d) \/ Remove(d)
  \/ \E S \in SUBSET Domains : Recover(S)

Spec == Init /\ [][Next]_slot
=============================================================================
