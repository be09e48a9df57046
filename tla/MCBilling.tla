------------------------------ MODULE MCBilling ------------------------------
(* An instance of Billing with one paid tier. *)
EXTENDS Billing
MCAppLimit == [t \in Tiers |-> IF t = "free" THEN 0 ELSE 1]
MCAgentLimit == [t \in Tiers |-> IF t = "free" THEN 0 ELSE -1]
=============================================================================
