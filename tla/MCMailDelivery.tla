--------------------------- MODULE MCMailDelivery ---------------------------
(* One notice and two nodes to deliver it, for TLC. *)
EXTENDS MailDelivery

CONSTANTS m1, m2, n1

TwoNodes == {m1, m2}
OneNotice == {n1}
=============================================================================
