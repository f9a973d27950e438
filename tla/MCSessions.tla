----------------------------- MODULE MCSessions -----------------------------
(* One browser and the authority as first-boot.mjs configures it, for TLC. *)
EXTENDS Sessions

CONSTANTS l1, l2

TwoLoaders == {l1, l2}

OneOrTwoTabs == {[l \in Loaders |-> 1], [l \in Loaders |-> IF l = l1 THEN 1 ELSE 2]}
=============================================================================
