----------------------------- MODULE Admission -----------------------------
(***************************************************************************)
(* The control plane's admission path, backend/control/admission.ts: the   *)
(* only way a resource changes.  A call reads the row through the leader,  *)
(* decides on what it read, commits the row and its outbox entry in one    *)
(* transaction guarded by the fence, reads the row back, appends a         *)
(* Decision and notifies.  Calls interleave between any two of those       *)
(* steps, and any of them may be the last step of its call: the store, the *)
(* ledger or the bus may refuse it, or the process may die.                *)
(*                                                                         *)
(* A resource's spec and its status are both members of Values; what they  *)
(* say is the business of the kind that owns them.                         *)
(***************************************************************************)
EXTENDS Naturals, FiniteSetsExt

CONSTANTS
    Keys,        \* identities (kind, tenant, name), after tenantOf
    Writers,     \* calls in flight: each writer is an actor with one call
    Values,      \* the normalized specs and statuses a call may carry
    None,        \* SQL NULL
    Fences,      \* fencing tokens; 0 is a call made under no lease
    MaxRevision  \* bound on the revisions assigned

ASSUME ConstantsOK ==
    /\ None \notin Values
    /\ Fences \subseteq Nat /\ 0 \in Fences
    /\ MaxRevision \in Nat

VARIABLES
    resource,   \* table resource: one row per key, revision 0 = no row
    outbox,     \* table outbox: entries [revision, key, op]
    decisions,  \* the Decisions appended by record()
    call,       \* per writer, the local state of the call it has in flight
    commits     \* history: which writer's transaction took which revision

vars == <<resource, outbox, decisions, call, commits>>

Verbs == {"admit", "retract", "setStatus"}
Ops   == {"created", "updated", "deleted"}
Steps == {"idle", "txn", "readBack", "record", "notify"}
Outcomes == {"none", "returned", "superseded", "constraint", "failed"}

NoRow == [revision |-> 0, fence |-> 0, spec |-> None, status |-> None,
          live |-> FALSE]

Idle(outcome) ==
    [pc |-> "idle", outcome |-> outcome, verb |-> "admit", op |-> "updated",
     key |-> None, value |-> None, fence |-> 0, own |-> 0, stored |-> 0]

Init ==
    /\ resource  = [k \in Keys |-> NoRow]
    /\ outbox    = {}
    /\ decisions = {}
    /\ call      = [w \in Writers |-> Idle("none")]
    /\ commits   = {}

-----------------------------------------------------------------------------
(* NEXT_REVISION: computed inside the statement that uses it. *)
Revisions    == {0} \cup {resource[k].revision : k \in Keys}
NextRevision == Max(Revisions) + 1

(* Variant: the outbox insert ignores a conflict on its key. *)
NoPrimaryKey == {}

(* Primary key of the outbox. *)
OutboxRevisions == {e.revision : e \in outbox}

Live(k) == resource[k].live

(***************************************************************************)
(* The consistent read and the decision taken on it.  Between this step    *)
(* and the transaction the row is free to change.                          *)
(***************************************************************************)
Begin(w, verb, op, k, v, f) ==
    call' = [call EXCEPT ![w] =
               [pc |-> "txn", outcome |-> "none", verb |-> verb, op |-> op,
                key |-> k, value |-> v, fence |-> f, own |-> 0, stored |-> 0]]

Finish(w, outcome) == call' = [call EXCEPT ![w] = Idle(outcome)]

Tables == <<resource, outbox, decisions, commits>>

(* admit: refused below the recorded fence, vacuous if nothing would change *)
Admit(w, k, v, f) ==
    /\ call[w].pc = "idle"
    /\ UNCHANGED Tables
    /\ IF resource[k].fence > f THEN Finish(w, "superseded")
       ELSE IF Live(k) /\ resource[k].spec = v /\ resource[k].fence = f
       THEN Finish(w, "returned")
       ELSE Begin(w, "admit", IF Live(k) THEN "updated" ELSE "created", k, v, f)

(* retract: null for what is absent or already a tombstone *)
Retract(w, k, f) ==
    /\ call[w].pc = "idle"
    /\ UNCHANGED Tables
    /\ IF ~Live(k) THEN Finish(w, "returned")
       ELSE IF resource[k].fence > f THEN Finish(w, "superseded")
       ELSE Begin(w, "retract", "deleted", k, None, f)

(* setStatus: null for what is absent, vacuous for a status already stored,
   whatever fence stored it *)
SetStatus(w, k, v, f) ==
    /\ call[w].pc = "idle"
    /\ UNCHANGED Tables
    /\ IF ~Live(k) THEN Finish(w, "returned")
       ELSE IF resource[k].fence > f THEN Finish(w, "superseded")
       ELSE IF resource[k].status = v THEN Finish(w, "returned")
       ELSE Begin(w, "setStatus", "updated", k, v, f)

(***************************************************************************)
(* The transaction.  Its first statement writes the columns of its verb    *)
(* when the row's fence allows it and no row otherwise; its second inserts *)
(* an outbox entry at whatever revision the row then holds.                *)
(***************************************************************************)
(* Variant: retract deletes the row outright instead of burying it. *)
WrittenHardDelete(c) ==
    LET row == [resource[c.key] EXCEPT !.revision = NextRevision,
                                       !.fence    = c.fence]
    IN  CASE c.verb = "admit"     -> [row EXCEPT !.spec = c.value, !.live = TRUE]
          [] c.verb = "retract"   -> NoRow
          [] c.verb = "setStatus" -> [row EXCEPT !.status = c.value]

(* Variant: admit replaces the whole row, status included. *)
WrittenReplace(c) ==
    LET row == [resource[c.key] EXCEPT !.revision = NextRevision,
                                       !.fence    = c.fence]
    IN  CASE c.verb = "admit"     -> [row EXCEPT !.spec = c.value, !.live = TRUE,
                                                 !.status = None]
          [] c.verb = "retract"   -> [row EXCEPT !.live = FALSE]
          [] c.verb = "setStatus" -> [row EXCEPT !.status = c.value]

Written(c) ==
    LET row == [resource[c.key] EXCEPT !.revision = NextRevision,
                                       !.fence    = c.fence]
    IN  CASE c.verb = "admit"     -> [row EXCEPT !.spec = c.value, !.live = TRUE]
          [] c.verb = "retract"   -> [row EXCEPT !.live = FALSE]
          [] c.verb = "setStatus" -> [row EXCEPT !.status = c.value]

(* Variant: the upsert without its WHERE clause. *)
FenceIgnored(c) == TRUE

FenceAllows(c) == resource[c.key].fence <= c.fence

Upserted(c) == IF FenceAllows(c) THEN Written(c) ELSE resource[c.key]

(* The outbox row takes the revision the resource row now holds. *)
EntryRevision(row) == row.revision

Commit(w) ==
    LET c   == call[w]
        row == Upserted(c)
    IN  /\ c.pc = "txn"
        /\ row.revision <= MaxRevision
        /\ EntryRevision(row) \notin OutboxRevisions
        /\ resource' = [resource EXCEPT ![c.key] = row]
        /\ outbox' = outbox \cup {[revision |-> EntryRevision(row), key |-> c.key,
                                   op |-> c.op]}
        /\ commits' = commits \cup {[revision |-> row.revision, key |-> c.key,
                                     by |-> w]}
        /\ call' = [call EXCEPT ![w].pc = "readBack", ![w].own = row.revision]
        /\ UNCHANGED decisions

(* The outbox already holds the row's revision: the constraint fails, the
   whole batch rolls back and the caller gets the raw store error. *)
Collide(w) ==
    /\ call[w].pc = "txn"
    /\ EntryRevision(Upserted(call[w])) \in OutboxRevisions
    /\ Finish(w, "constraint")
    /\ UNCHANGED Tables

(* Variant: the read-back takes the table's newest revision. *)
ReadBackNewest(w) ==
    /\ call[w].pc = "readBack"
    /\ call' = [call EXCEPT ![w].pc = "record", ![w].stored = Max(Revisions)]
    /\ UNCHANGED Tables

(* readBack: a second consistent read, of the row as it is by now. *)
ReadBack(w) ==
    /\ call[w].pc = "readBack"
    /\ call' = [call EXCEPT ![w].pc = "record",
                            ![w].stored = resource[call[w].key].revision]
    /\ UNCHANGED Tables

(* record: the Decision names the revision the read-back returned. *)
Record(w) ==
    LET c == call[w]
    IN  /\ c.pc = "record"
        /\ decisions' = decisions \cup {[revision |-> c.stored, key |-> c.key,
                                         op |-> c.op, actor |-> w]}
        /\ call' = [call EXCEPT ![w].pc = "notify"]
        /\ UNCHANGED <<resource, outbox, commits>>

Notify(w) ==
    /\ call[w].pc = "notify"
    /\ Finish(w, "returned")
    /\ UNCHANGED Tables

(* The step a call is about to take throws, or its process dies. *)
Fail(w) ==
    /\ call[w].pc # "idle"
    /\ Finish(w, "failed")
    /\ UNCHANGED Tables

Request(w) ==
    \E k \in Keys, f \in Fences :
        \/ \E v \in Values : Admit(w, k, v, f) \/ SetStatus(w, k, v, f)
        \/ Retract(w, k, f)

Next ==
    \E w \in Writers :
        \/ Request(w)
        \/ Commit(w)
        \/ Collide(w)
        \/ ReadBack(w)
        \/ Record(w)
        \/ Notify(w)
        \/ Fail(w)

Spec == Init /\ [][Next]_vars

-----------------------------------------------------------------------------
Rows == [revision : 0..MaxRevision, fence : Fences,
         spec : Values \cup {None}, status : Values \cup {None},
         live : BOOLEAN]

Calls == [pc : Steps, outcome : Outcomes, verb : Verbs, op : Ops,
          key : Keys \cup {None}, value : Values \cup {None},
          fence : Fences, own : 0..MaxRevision,
          stored : 0..MaxRevision]

(* Every variable keeps its shape, and a call past its first step is about
   a key. *)
TypeOK ==
    /\ resource  \in [Keys -> Rows]
    /\ outbox    \subseteq [revision : 1..MaxRevision, key : Keys, op : Ops]
    /\ decisions \subseteq [revision : 0..MaxRevision, key : Keys, op : Ops,
                            actor : Writers]
    /\ call      \in [Writers -> Calls]
    /\ commits   \subseteq [revision : 1..MaxRevision, key : Keys,
                            by : Writers]
    /\ \A w \in Writers : call[w].pc # "idle" => call[w].key \in Keys

(***************************************************************************)
(* A revision is assigned to exactly one write: no two calls that were     *)
(* told they committed share one, and no two rows stand at the same one.   *)
(* This is what lets a call whose fence was passed between its read and    *)
(* its transaction never report success: the guarded statement matches no  *)
(* row, and only the outbox's primary key then stops the batch.            *)
(***************************************************************************)
OneWritePerRevision ==
    /\ \A c, d \in commits : c.revision = d.revision => c = d
    /\ \A j, k \in Keys :
          j # k /\ resource[j].revision = resource[k].revision
          => resource[j].revision = 0

(***************************************************************************)
(* The resource row and its outbox entry are one unit: the revision a row  *)
(* stands at is always in the outbox, under that row's key (schema.ts says *)
(* "rather than two rows that usually agree").                             *)
(***************************************************************************)
OutboxCoversRows ==
    \A k \in Keys :
        resource[k].revision > 0 =>
            \E e \in outbox : e.revision = resource[k].revision /\ e.key = k

(***************************************************************************)
(* A Decision names a revision some write of that resource really took,    *)
(* and one no older than a write its actor made: the read-back may return  *)
(* a later write than the caller's, never an earlier one or another row's. *)
(***************************************************************************)
DecisionsNameWrites ==
    \A d \in decisions :
        /\ \E c \in commits : c.revision = d.revision /\ c.key = d.key
        /\ \E c \in commits :
              c.by = d.actor /\ c.key = d.key /\ c.revision <= d.revision

(***************************************************************************)
(* A write is stamped above every revision in the table, so a watcher that *)
(* has scanned up to any revision has not already passed the next one.     *)
(***************************************************************************)
RevisionsOnlyGrow ==
    [][\A k \in Keys : resource'[k] # resource[k] =>
          \A j \in Keys : resource'[k].revision > resource[j].revision]_vars

(***************************************************************************)
(* A row's fence never falls: once a newer lease holder has written, no    *)
(* call carrying an older token changes the row, however long ago that     *)
(* call read it.                                                           *)
(***************************************************************************)
FenceNeverFalls ==
    [][\A k \in Keys : resource'[k].fence >= resource[k].fence]_vars

(***************************************************************************)
(* A status write never touches intent and a spec write never touches what *)
(* was observed, even when each read the row before the other committed:   *)
(* of spec, status and liveness, a step changes the spec and revives, or   *)
(* changes the status, or buries the row.                                  *)
(***************************************************************************)
IntentAndStatusApart ==
    [][\A k \in Keys :
          LET old == resource[k]
              new == resource'[k]
          IN  \/ new.status = old.status /\ (new.spec # old.spec => new.live)
              \/ new.spec = old.spec /\ new.live = old.live]_vars

-----------------------------------------------------------------------------
(***************************************************************************)
(* The detailed path implements the versioned store: MAX(revision) is its  *)
(* counter.                                                                *)
(***************************************************************************)
Store == INSTANCE VersionedStore WITH
    top   <- Max(Revisions),
    store <- [k \in Keys |-> [revision |-> resource[k].revision,
                              fence    |-> resource[k].fence]]

ImplementsStore == Store!Spec

-----------------------------------------------------------------------------
(* What the source says of this path and its interleavings do not keep.    *)

(***************************************************************************)
(* "Returns the resource as stored, at the revision the write produced"    *)
(* (admission.ts:121): the revision read back, which the Decision and the  *)
(* notify name, is the one the call's own transaction assigned.            *)
(***************************************************************************)
ReadsBackItsOwnWrite ==
    \A w \in Writers :
        call[w].pc \in {"record", "notify"} => call[w].stored = call[w].own

(***************************************************************************)
(* "Every admitted mutation lands on a hash-chained Decision ledger"       *)
(* (README.md:45): with no call in flight, every revision assigned has its *)
(* Decision.                                                               *)
(***************************************************************************)
EveryWriteDecided ==
    (\A w \in Writers : call[w].pc = "idle") =>
        \A c \in commits :
            \E d \in decisions : d.revision = c.revision /\ d.key = c.key

(***************************************************************************)
(* SupersededError is "thrown when a lease-guarded write loses to a newer  *)
(* holder" (admission.ts:72): no losing write surfaces as the outbox's     *)
(* primary-key violation instead.                                          *)
(***************************************************************************)
LosersAreSuperseded ==
    \A w \in Writers : call[w].outcome # "constraint"
=============================================================================
