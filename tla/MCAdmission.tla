---------------------------- MODULE MCAdmission ----------------------------
(* Admission with two or three concurrent calls, for TLC. *)
EXTENDS Admission, TLC

Symmetry == Permutations(Writers) \cup Permutations(Keys)
                \cup Permutations(Values)
=============================================================================
