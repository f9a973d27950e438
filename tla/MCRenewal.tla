----------------------------- MODULE MCRenewal -----------------------------
(* A membership, two monthly tiers, a lifetime tier and a few days, for TLC. *)
EXTENDS Renewal

Monthly  == [period |-> "monthly", dues |-> 1, grace |-> 1]
Dearer   == [period |-> "monthly", dues |-> 2, grace |-> 0]
Lifetime == [period |-> "lifetime", dues |-> 1, grace |-> 0]

AllTiers   == {Monthly, Dearer, Lifetime}
AllOffers  == {Dearer, Lifetime, NoTier}
Lengths    == [period \in {"monthly", "annual"} |-> IF period = "monthly" THEN 1 ELSE 2]
AnyTerm    == [endsOn : {0, 1}, autoRenew : {TRUE}]
=============================================================================
