--------------------------- MODULE VersionedStore ---------------------------
(***************************************************************************)
(* What the control plane's admission promises its clients, with none of   *)
(* its steps: a set of resources, each at the revision of its last write,  *)
(* a single counter that hands every write the next revision, and a fence  *)
(* per resource below which no write is accepted.  Admission (the upsert   *)
(* that computes MAX(revision) + 1, the outbox row, the calls in flight)   *)
(* implements it, and so do the writes around the controllers.             *)
(***************************************************************************)
EXTENDS Naturals

CONSTANTS
    Keys  \* the identities (kind, tenant, name) of resources

VARIABLES
    top,    \* the last revision assigned, 0 before the first
    store   \* per resource, the revision and fence of its last write

vars == <<top, store>>

Init ==
    /\ top = 0
    /\ store = [k \in Keys |-> [revision |-> 0, fence |-> 0]]

(* A write lands on k: it takes the next revision, under no lower a fence. *)
Write(k) ==
    /\ top' = top + 1
    /\ store' \in [Keys -> [revision : Nat, fence : Nat]]
    /\ store'[k].revision = top' /\ store'[k].fence >= store[k].fence
    /\ \A j \in Keys \ {k} : store'[j] = store[j]

Next == \E k \in Keys : Write(k)

Spec == Init /\ [][Next]_vars
=============================================================================
