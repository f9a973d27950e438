----------------------------- MODULE Migrations -----------------------------
(***************************************************************************)
(* Schema migrations of one store, applied by operators of several         *)
(* releases at once: the ledger's runner (core/ledger/migrations.ts) and   *)
(* its facade's answer to a run that lost a race, or the state layer's     *)
(* (state/migrate.ts), which has neither an order check nor a facade.      *)
(*                                                                         *)
(* A migration's statements and the insert that records it are one         *)
(* transaction, which fails if the version is on record: what it creates   *)
(* is there already, or the insert meets its primary key.                  *)
(***************************************************************************)
EXTENDS Integers, Sequences, FiniteSets

CONSTANTS
    Runners,
    Releases,   \* the lists of versions that releases may declare, per runner
    MaxRuns,    \* bound on runs of the verb
    MaxFaults   \* bound on failures of the store and crashes

ASSUME ConstantsOK ==
    /\ Releases \subseteq [Runners -> SUBSET (Nat \ {0})]
    /\ MaxRuns \in Nat /\ MaxFaults \in Nat

VARIABLES
    ledger,     \* the store is the ledger, and not the state layer
    declared,   \* per runner, the versions its release declares
    recorded,   \* versions in the migrations table
    pc,         \* per runner: "idle", "read", "apply", "judge", "ok", "thrown"
    already,    \* per runner, what it read as applied
    faulted,    \* history: per runner, its run met a failure of the store
    applied,    \* history: the migrations that took effect, in order
    runs, faults

vars == <<ledger, declared, recorded, pc, already, faulted, applied, runs, faults>>

setting == <<ledger, declared>>

Init ==
    /\ ledger \in BOOLEAN /\ declared \in Releases
    /\ recorded = {}
    /\ pc = [r \in Runners |-> "idle"]
    /\ already = [r \in Runners |-> {}]
    /\ faulted = [r \in Runners |-> FALSE]
    /\ applied = <<>>
    /\ runs = 0 /\ faults = 0

Goto(r, place) == pc' = [pc EXCEPT ![r] = place]

-----------------------------------------------------------------------------
(* An operator runs the verb, or runs it again. *)
Begin(r) ==
    /\ pc[r] \in {"idle", "ok", "thrown"} /\ runs < MaxRuns
    /\ Goto(r, "read")
    /\ runs' = runs + 1
    /\ faulted' = [faulted EXCEPT ![r] = FALSE]
    /\ UNCHANGED <<setting, recorded, already, applied, faults>>

ReadApplied(r) ==
    /\ pc[r] = "read"
    /\ Goto(r, "apply")
    /\ already' = [already EXCEPT ![r] = recorded]
    /\ UNCHANGED <<setting, recorded, faulted, applied, runs, faults>>

Pending(r) == declared[r] \ already[r]

NextOf(r, v) == v \in Pending(r) /\ \A w \in Pending(r) : v <= w

(* The ledger refuses a version below one applied when the run began. What
   the run itself applied is below v. *)
OutOfOrder(r, v) == ledger /\ \E w \in already[r] : v < w

(* An exception leaves the run; the ledger's facade looks again. *)
OnError(r) == IF ledger THEN "judge" ELSE "thrown"

(* Variant: the record has no primary key and the statements may run twice. *)
Unguarded(v) == TRUE

NotRecorded(v) == v \notin recorded

(* The transaction of the next pending version. *)
ApplyNext(r) ==
    /\ pc[r] = "apply"
    /\ \E v \in declared[r] :
          /\ NextOf(r, v)
          /\ IF NotRecorded(v) /\ ~OutOfOrder(r, v)
             THEN /\ recorded' = recorded \cup {v}
                  /\ applied' = Append(applied, v)
                  /\ already' = [already EXCEPT ![r] = @ \cup {v}]
                  /\ UNCHANGED pc
             ELSE /\ Goto(r, OnError(r))
                  /\ UNCHANGED <<recorded, applied, already>>
    /\ UNCHANGED <<setting, faulted, runs, faults>>

Finish(r) ==
    /\ pc[r] = "apply" /\ Pending(r) = {}
    /\ Goto(r, "ok")
    /\ UNCHANGED <<setting, recorded, already, faulted, applied, runs, faults>>

(* Variant: it is enough that somebody recorded something. *)
SomeRecorded(r) == declared[r] \cap recorded # {}

AllRecorded(r) == declared[r] \subseteq recorded

(* The facade decides whether the failure was another runner's success. *)
Judge(r) ==
    /\ pc[r] = "judge"
    /\ Goto(r, IF AllRecorded(r) THEN "ok" ELSE "thrown")
    /\ UNCHANGED <<setting, recorded, already, faulted, applied, runs, faults>>

(* The store fails under a run, before or after a transaction took effect, or
   ahead of the facade's try; or the process dies and the run with it. *)
StoreFault(r) ==
    /\ pc[r] \in {"read", "apply", "judge"} /\ faults < MaxFaults
    /\ faults' = faults + 1
    /\ faulted' = [faulted EXCEPT ![r] = TRUE]
    /\ \/ Goto(r, "thrown")
       \/ pc[r] # "judge" /\ Goto(r, OnError(r))
    /\ UNCHANGED <<setting, recorded, already, applied, runs>>

Next ==
    \E r \in Runners :
        Begin(r) \/ ReadApplied(r) \/ ApplyNext(r) \/ Finish(r) \/ Judge(r)
            \/ StoreFault(r)

Spec == Init /\ [][Next]_vars

-----------------------------------------------------------------------------
(* Types; what a runner holds for applied is on record, and the record is
   what took effect. *)
TypeOK ==
    /\ pc \in [Runners -> {"idle", "read", "apply", "judge", "ok", "thrown"}]
    /\ faulted \in [Runners -> BOOLEAN]
    /\ ledger \in BOOLEAN /\ declared \in Releases
    /\ recorded \subseteq UNION {declared[r] : r \in Runners}
    /\ recorded = {applied[i] : i \in DOMAIN applied}
    /\ \A r \in Runners : already[r] \subseteq recorded
    /\ \A r \in Runners : pc[r] = "judge" => ledger

(* However the runs race and fail, a migration takes effect at most once. *)
AppliedOnce ==
    \A i, j \in DOMAIN applied : applied[i] = applied[j] => i = j

(* A run that reports success leaves nothing its release declares to apply. *)
SuccessIsComplete ==
    \A r \in Runners : pc[r] = "ok" => declared[r] \subseteq recorded

(* A run of the ledger's verb fails only for what the store did to it: what
   another runner has done in the meantime is reported as success. *)
OnlyRealFailures ==
    \A r \in Runners : ledger /\ pc[r] = "thrown" => faulted[r]

(* "Forward-only: ... a pending version at or below the highest already-applied
   version is refused" (migrations.ts:12-13): migrations take effect in the order
   of their versions. *)
ForwardOnly == \A i, j \in DOMAIN applied : i < j => applied[i] < applied[j]
=============================================================================
