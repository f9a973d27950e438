----------------------------- MODULE MCRecovery -----------------------------
(* One write, two verbs and one loss, for TLC: before and after a snapshot are
   told apart by one write, in either store. *)
EXTENDS Recovery
=============================================================================
