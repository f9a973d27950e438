-------------------------- MODULE AdmissionProofs --------------------------
(***************************************************************************)
(* Machine-checked facts about Admission, for every set of keys, writers,  *)
(* values and fencing tokens and every bound on revisions.                 *)
(*                                                                         *)
(* The invariant that carries them is Inv.  Beyond the properties of the   *)
(* module it says that nothing in the outbox stands above every row (so    *)
(* MAX(revision) + 1 is always fresh there), that a row nobody wrote has   *)
(* no fence (so a write the fence stops always finds a revision already in *)
(* the outbox), and what a call past its transaction knows.                *)
(***************************************************************************)
EXTENDS Admission, TLAPS, WellFoundedInduction

(* Nothing was ever assigned a revision above all the rows. *)
OutboxBelowRows ==
    \A e \in outbox : \E k \in Keys : e.revision <= resource[k].revision

(* A row without a revision has never been written. *)
UnwrittenRows ==
    \A k \in Keys : resource[k].revision = 0 => resource[k].fence = 0

(* Every commit is in the outbox. *)
CommitsInOutbox == \A c \in commits : c.revision \in OutboxRevisions

(* Every row stands at a commit to its key. *)
RowsCommitted ==
    \A k \in Keys : resource[k].revision > 0 =>
        \E c \in commits : c.revision = resource[k].revision /\ c.key = k

(* After its transaction, a call has a commit the row has not gone below. *)
CallsCommitted ==
    \A w \in Writers : call[w].pc \in {"readBack", "record", "notify"} =>
        /\ call[w].own > 0
        /\ call[w].own <= resource[call[w].key].revision
        /\ [revision |-> call[w].own, key |-> call[w].key, by |-> w]
             \in commits

(* After its read-back, a call holds a revision its key took since. *)
CallsRead ==
    \A w \in Writers : call[w].pc \in {"record", "notify"} =>
        /\ call[w].own <= call[w].stored
        /\ \E c \in commits :
              c.revision = call[w].stored /\ c.key = call[w].key

Inv ==
    /\ TypeOK
    /\ OneWritePerRevision
    /\ OutboxCoversRows
    /\ OutboxBelowRows
    /\ UnwrittenRows
    /\ CommitsInOutbox
    /\ RowsCommitted
    /\ CallsCommitted
    /\ CallsRead
    /\ DecisionsNameWrites

-----------------------------------------------------------------------------
(* A non-empty set of naturals below a bound has a largest element.  The    *)
(* library only offers minima, so the set is mirrored below its bound.      *)
LEMMA MaxOfBounded ==
    ASSUME NEW N \in Nat, NEW S, S \subseteq 0..N, S # {}
    PROVE  Max(S) \in S /\ \A x \in S : x <= Max(S)
<1> DEFINE T == {N - x : x \in S}
<1>1. \A y \in T : y \in Nat
  <2>1. \A x \in S : N - x \in Nat
    OBVIOUS
  <2> QED
    BY <2>1
<1>2. T \subseteq Nat /\ T # {}
  BY <1>1
<1>3. PICK m \in T : \A y \in T : ~ (<<y, m>> \in OpToRel(<, Nat))
  <2> HIDE DEF T
  <2> QED
    BY <1>2, WFMin, NatLessThanWellFounded
<1>4. \A y \in T : m <= y
  <2> SUFFICES ASSUME NEW y \in T, ~ (m <= y) PROVE FALSE
    OBVIOUS
  <2>1. y \in Nat /\ m \in Nat
    BY <1>1
  <2>2. y < m
    BY <2>1
  <2>3. <<y, m>> \in OpToRel(<, Nat)
    BY <2>1, <2>2 DEF OpToRel
  <2> QED
    BY <1>3, <2>3
<1>5. PICK x \in S : m = N - x
  OBVIOUS
<1>6. \A y \in S : x >= y
  <2> SUFFICES ASSUME NEW y \in S PROVE x >= y
    OBVIOUS
  <2>1. N - y \in T
    OBVIOUS
  <2>2. m <= N - y
    BY <1>4, <2>1
  <2> QED
    BY <1>5, <2>2
<1> QED
  BY <1>6 DEF Max

(* The revision the next write takes is above every row's, and the largest *)
(* revision so far is some row's or 0.                                     *)
LEMMA NextRevisionFresh ==
    ASSUME TypeOK
    PROVE  /\ Max(Revisions) \in Nat
           /\ NextRevision = Max(Revisions) + 1
           /\ \A k \in Keys : resource[k].revision <= Max(Revisions)
           /\ \A k \in Keys : resource[k].revision < NextRevision
           /\ Max(Revisions) = 0
                \/ \E k \in Keys : resource[k].revision = Max(Revisions)
<1>1. \A k \in Keys : resource[k].revision \in 0..MaxRevision
  BY DEF TypeOK, Rows
<1>2. Revisions \subseteq 0..MaxRevision /\ Revisions # {}
  BY <1>1, ConstantsOK DEF Revisions
<1>3. Max(Revisions) \in Revisions /\ \A x \in Revisions : x <= Max(Revisions)
  BY <1>2, MaxOfBounded, ConstantsOK
<1>4. \A k \in Keys : resource[k].revision \in Revisions
  BY DEF Revisions
<1>5. Max(Revisions) \in Nat /\ NextRevision = Max(Revisions) + 1
  <2>1. Max(Revisions) \in 0..MaxRevision
    BY <1>2, <1>3
  <2>2. Max(Revisions) \in Nat
    BY <2>1, ConstantsOK DEF ConstantsOK
  <2> QED
    BY <2>2 DEF NextRevision
<1>6. \A k \in Keys : resource[k].revision <= Max(Revisions)
  BY <1>3, <1>4
<1>7. \A k \in Keys : resource[k].revision < NextRevision
  BY <1>1, <1>5, <1>6, ConstantsOK
<1>8. Max(Revisions) = 0
        \/ \E k \in Keys : resource[k].revision = Max(Revisions)
  <2> DEFINE top == Max(Revisions)
  <2>1. top \in {0} \cup {resource[k].revision : k \in Keys}
    BY <1>3 DEF Revisions
  <2> QED
    BY <2>1
<1> QED
  BY <1>5, <1>6, <1>7, <1>8

(* A call in flight is well typed and is about a key. *)
LEMMA CallInFlight ==
    ASSUME TypeOK, NEW w \in Writers, call[w].pc # "idle"
    PROVE  /\ call[w] \in Calls
           /\ call[w].key \in Keys
           /\ call[w].fence \in Nat
           /\ resource[call[w].key] \in Rows
           /\ resource[call[w].key].fence \in Nat
<1>1. call[w] \in Calls /\ call[w].key \in Keys
  BY DEF TypeOK
<1>2. resource[call[w].key] \in Rows
  BY <1>1 DEF TypeOK
<1>3. call[w].fence \in Fences
  BY <1>1 DEF Calls
<1>4. resource[call[w].key].fence \in Fences
  BY <1>2 DEF Rows
<1>5. Fences \subseteq Nat
  BY ConstantsOK DEF ConstantsOK
<1> QED
  BY <1>1, <1>2, <1>3, <1>4, <1>5

(* What a transaction that commits did: the fence allowed it, the row took *)
(* a fresh revision and the call's fence, and every other column it left   *)
(* or set to a value of its type.                                          *)
LEMMA CommitWrites ==
    ASSUME Inv, NEW w \in Writers, Commit(w)
    PROVE  LET c   == call[w]
               row == Written(c)
           IN  /\ FenceAllows(c)
               /\ Upserted(c) = row
               /\ row.revision = NextRevision
               /\ NextRevision \in 1..MaxRevision
               /\ row.fence = c.fence
               /\ row \in [revision : Nat, fence : Nat,
                           spec : Values \cup {None},
                           status : Values \cup {None}, live : BOOLEAN]
<1> DEFINE c   == call[w]
           old == resource[c.key]
<1>1. /\ c \in Calls /\ c.key \in Keys /\ c.fence \in Nat
      /\ old \in Rows /\ old.fence \in Nat
      /\ old.revision \in 0..MaxRevision
  BY CallInFlight DEF Inv, Commit, Rows
<1>2. NextRevision \in Nat /\ NextRevision > 0
  BY NextRevisionFresh DEF Inv
<1>3. FenceAllows(c)
  <2>1. SUFFICES ASSUME ~FenceAllows(c) PROVE FALSE
    OBVIOUS
  <2>2. old.fence > 0
    BY <1>1, <2>1 DEF FenceAllows
  <2>3. old.revision > 0
    BY <1>1, <2>2 DEF Inv, UnwrittenRows
  <2>4. old.revision \in OutboxRevisions
    BY <1>1, <2>3 DEF Inv, OutboxCoversRows, OutboxRevisions
  <2> QED
    BY <2>1, <2>4 DEF Commit, Upserted, EntryRevision
<1>4. /\ Written(c).revision = NextRevision
      /\ Written(c).fence = c.fence
      /\ Written(c) \in [revision : Nat, fence : Nat,
                         spec : Values \cup {None},
                         status : Values \cup {None}, live : BOOLEAN]
  <2> DEFINE base == [old EXCEPT !.revision = NextRevision, !.fence = c.fence]
  <2>1. /\ base \in [revision : Nat, fence : Nat,
                     spec : Values \cup {None},
                     status : Values \cup {None}, live : BOOLEAN]
        /\ base.revision = NextRevision /\ base.fence = c.fence
    BY <1>1, <1>2 DEF Rows
  <2>2. c.verb \in Verbs /\ c.value \in Values \cup {None}
    BY <1>1 DEF Calls
  <2>3. CASE c.verb = "admit"
    BY <2>1, <2>2, <2>3 DEF Written
  <2>4. CASE c.verb = "retract"
    BY <2>1, <2>2, <2>4 DEF Written
  <2>5. CASE c.verb = "setStatus"
    BY <2>1, <2>2, <2>5 DEF Written
  <2> QED
    BY <2>2, <2>3, <2>4, <2>5 DEF Verbs
<1>5. Upserted(c) = Written(c)
  BY <1>3 DEF Upserted
<1>6. NextRevision \in 1..MaxRevision
  BY <1>2, <1>4, <1>5, ConstantsOK DEF Commit, ConstantsOK
<1> QED
  BY <1>3, <1>4, <1>5, <1>6

-----------------------------------------------------------------------------
(* The empty tables and idle calls satisfy the invariant. *)
LEMMA InitInv == Init => Inv
<1> SUFFICES ASSUME Init PROVE Inv
  OBVIOUS
<1> USE DEF Init
<1>1. TypeOK
  <2>1. NoRow \in Rows
    BY ConstantsOK DEF NoRow, Rows, ConstantsOK
  <2>2. Idle("none") \in Calls /\ Idle("none").pc = "idle"
    BY ConstantsOK
       DEF Idle, Calls, ConstantsOK, Steps, Outcomes, Verbs, Ops
  <2> QED
    BY <2>1, <2>2 DEF TypeOK
<1>2. \A k \in Keys : resource[k].revision = 0 /\ resource[k].fence = 0
  BY DEF NoRow
<1>3. \A w \in Writers : call[w].pc = "idle"
  BY DEF Idle
<1>4. OneWritePerRevision /\ OutboxCoversRows /\ RowsCommitted
  BY <1>2 DEF OneWritePerRevision, OutboxCoversRows, RowsCommitted
<1>5. OutboxBelowRows /\ UnwrittenRows /\ CommitsInOutbox
  BY <1>2 DEF OutboxBelowRows, UnwrittenRows, CommitsInOutbox
<1>6. CallsCommitted /\ CallsRead /\ DecisionsNameWrites
  BY <1>3 DEF CallsCommitted, CallsRead, DecisionsNameWrites
<1> QED
  BY <1>1, <1>4, <1>5, <1>6 DEF Inv

(* A step that leaves the tables alone and puts one call at its beginning, *)
(* at its transaction or back to idle preserves the invariant.             *)
LEMMA QuietStep ==
    ASSUME Inv, NEW w \in Writers, NEW r \in Calls,
           r.pc \in {"idle", "txn"},
           r.pc # "idle" => r.key \in Keys,
           UNCHANGED Tables,
           call' = [call EXCEPT ![w] = r]
    PROVE  Inv'
<1> USE DEF Tables, Inv
<1>1. /\ call' \in [Writers -> Calls]
      /\ call'[w] = r
      /\ \A x \in Writers \ {w} : call'[x] = call[x]
  BY DEF TypeOK
<1>2. TypeOK'
  BY <1>1 DEF TypeOK
<1>3. /\ OneWritePerRevision' /\ OutboxCoversRows' /\ OutboxBelowRows'
      /\ UnwrittenRows' /\ CommitsInOutbox' /\ RowsCommitted'
      /\ DecisionsNameWrites'
  BY DEF OneWritePerRevision, OutboxCoversRows, OutboxBelowRows, UnwrittenRows,
         CommitsInOutbox, RowsCommitted, DecisionsNameWrites, OutboxRevisions
<1>4. \A x \in Writers :
        call'[x].pc \in {"readBack", "record", "notify"} => call'[x] = call[x]
  BY <1>1
<1>5. CallsCommitted'
  BY <1>4 DEF CallsCommitted
<1>6. CallsRead'
  BY <1>4 DEF CallsRead
<1> QED
  BY <1>2, <1>3, <1>5, <1>6

(* Ending a call, and beginning one, are such steps. *)
LEMMA FinishQuiet ==
    ASSUME Inv, NEW w \in Writers, NEW o \in Outcomes, Finish(w, o),
           UNCHANGED Tables
    PROVE  Inv'
<1>1. Idle(o) \in Calls /\ Idle(o).pc = "idle"
  BY ConstantsOK DEF Idle, Calls, ConstantsOK, Steps, Verbs, Ops
<1> QED
  BY <1>1, QuietStep DEF Finish

LEMMA BeginQuiet ==
    ASSUME Inv, NEW w \in Writers, NEW verb \in Verbs, NEW op \in Ops,
           NEW k \in Keys, NEW v \in Values \cup {None}, NEW f \in Fences,
           Begin(w, verb, op, k, v, f), UNCHANGED Tables
    PROVE  Inv'
<1> DEFINE r == [pc |-> "txn", outcome |-> "none", verb |-> verb, op |-> op,
                 key |-> k, value |-> v, fence |-> f, own |-> 0, stored |-> 0]
<1>1. r \in Calls /\ r.pc = "txn" /\ r.key \in Keys
  BY ConstantsOK DEF Calls, ConstantsOK, Steps, Outcomes
<1>2. call' = [call EXCEPT ![w] = r]
  BY DEF Begin
<1> HIDE DEF r
<1> QED
  BY <1>1, <1>2, QuietStep

(* The read and the decision taken on it preserve the invariant. *)
LEMMA RequestInv == ASSUME Inv, NEW w \in Writers, Request(w) PROVE Inv'
<1>1. PICK k \in Keys, f \in Fences :
         \/ \E v \in Values : Admit(w, k, v, f) \/ SetStatus(w, k, v, f)
         \/ Retract(w, k, f)
  BY DEF Request
<1>2. /\ "returned" \in Outcomes /\ "superseded" \in Outcomes
      /\ "created" \in Ops /\ "updated" \in Ops /\ "deleted" \in Ops
      /\ "admit" \in Verbs /\ "retract" \in Verbs /\ "setStatus" \in Verbs
  BY DEF Outcomes, Ops, Verbs
<1>3. ASSUME NEW v \in Values, Admit(w, k, v, f) PROVE Inv'
  <2>1. UNCHANGED Tables
    BY <1>3 DEF Admit
  <2>2. \/ Finish(w, "superseded")
        \/ Finish(w, "returned")
        \/ Begin(w, "admit", "created", k, v, f)
        \/ Begin(w, "admit", "updated", k, v, f)
    BY <1>3 DEF Admit
  <2> QED
    BY <1>2, <2>1, <2>2, FinishQuiet, BeginQuiet
<1>4. ASSUME NEW v \in Values, SetStatus(w, k, v, f) PROVE Inv'
  <2>1. UNCHANGED Tables
    BY <1>4 DEF SetStatus
  <2>2. \/ Finish(w, "superseded")
        \/ Finish(w, "returned")
        \/ Begin(w, "setStatus", "updated", k, v, f)
    BY <1>4 DEF SetStatus
  <2> QED
    BY <1>2, <2>1, <2>2, FinishQuiet, BeginQuiet
<1>5. ASSUME Retract(w, k, f) PROVE Inv'
  <2>1. UNCHANGED Tables
    BY <1>5 DEF Retract
  <2>2. \/ Finish(w, "superseded")
        \/ Finish(w, "returned")
        \/ Begin(w, "retract", "deleted", k, None, f)
    BY <1>5 DEF Retract
  <2> QED
    BY <1>2, <2>1, <2>2, FinishQuiet, BeginQuiet
<1> QED
  BY <1>1, <1>3, <1>4, <1>5

(* A transaction that commits: what it changes, and that the revision it   *)
(* takes is new to the rows, the outbox and the commits.                   *)
LEMMA CommitEffect ==
    ASSUME Inv, NEW w \in Writers, Commit(w)
    PROVE  LET c   == call[w]
               row == Written(c)
               rev == NextRevision
           IN  /\ c \in Calls /\ c.key \in Keys
               /\ rev \in 1..MaxRevision
               /\ row \in Rows /\ row.revision = rev /\ row.fence = c.fence
               /\ resource' \in [Keys -> Rows]
               /\ resource'[c.key] = row
               /\ \A k \in Keys \ {c.key} : resource'[k] = resource[k]
               /\ \A k \in Keys : resource[k].revision < rev
               /\ \A k \in Keys :
                     resource[k].revision <= resource'[k].revision
               /\ resource[c.key].fence <= row.fence
               /\ \A e \in outbox : e.revision < rev
               /\ \A d \in commits : d.revision < rev
               /\ outbox' = outbox
                     \cup {[revision |-> rev, key |-> c.key, op |-> c.op]}
               /\ commits' = commits
                     \cup {[revision |-> rev, key |-> c.key, by |-> w]}
               /\ call' = [call EXCEPT ![w].pc = "readBack", ![w].own = rev]
               /\ decisions' = decisions
<1> DEFINE c   == call[w]
           row == Written(c)
           rev == NextRevision
<1>1. /\ FenceAllows(c) /\ Upserted(c) = row /\ row.revision = rev
      /\ rev \in 1..MaxRevision /\ row.fence = c.fence
      /\ row \in [revision : Nat, fence : Nat, spec : Values \cup {None},
                  status : Values \cup {None}, live : BOOLEAN]
  BY CommitWrites
<1>2. c \in Calls /\ c.key \in Keys /\ c.fence \in Fences
  BY CallInFlight DEF Inv, Commit, Calls
<1> HIDE DEF row, rev, c
<1>3. /\ resource' = [resource EXCEPT ![c.key] = row]
      /\ outbox' = outbox
            \cup {[revision |-> rev, key |-> c.key, op |-> c.op]}
      /\ commits' = commits
            \cup {[revision |-> rev, key |-> c.key, by |-> w]}
      /\ call' = [call EXCEPT ![w].pc = "readBack", ![w].own = rev]
      /\ decisions' = decisions
  BY <1>1 DEF Commit, EntryRevision, c
<1>4. row \in Rows
  BY <1>1, <1>2 DEF Rows
<1>5. /\ resource' \in [Keys -> Rows]
      /\ resource'[c.key] = row
      /\ \A k \in Keys \ {c.key} : resource'[k] = resource[k]
  BY <1>2, <1>3, <1>4 DEF Inv, TypeOK
<1>6. \A k \in Keys :
        resource[k].revision \in Nat /\ resource[k].revision < rev
  BY NextRevisionFresh DEF Inv, TypeOK, Rows, rev
<1>7. \A k \in Keys : resource[k].revision <= resource'[k].revision
  BY <1>1, <1>5, <1>6
<1>8. resource[c.key].fence <= row.fence
  BY <1>1 DEF FenceAllows
<1>9. \A e \in outbox : e.revision < rev
  <2> SUFFICES ASSUME NEW e \in outbox PROVE e.revision < rev
    OBVIOUS
  <2>1. PICK k \in Keys : e.revision <= resource[k].revision
    BY DEF Inv, OutboxBelowRows
  <2>2. e.revision \in Nat
    BY DEF Inv, TypeOK
  <2> QED
    BY <1>1, <1>6, <2>1, <2>2
<1>10. \A d \in commits : d.revision < rev
  BY <1>9 DEF Inv, CommitsInOutbox, OutboxRevisions
<1> QED
  BY <1>1, <1>2, <1>3, <1>4, <1>5, <1>6, <1>7, <1>8, <1>9, <1>10
     DEF row, rev, c

(* A call record stays one when its step and a revision in it change. *)
LEMMA CallUpdated ==
    ASSUME NEW c \in Calls, NEW p \in Steps, NEW r \in 0..MaxRevision
    PROVE  /\ [c EXCEPT !.pc = p, !.own = r] \in Calls
           /\ [c EXCEPT !.pc = p, !.stored = r] \in Calls
           /\ [c EXCEPT !.pc = p] \in Calls
BY DEF Calls

(* The transaction preserves the invariant. *)
LEMMA CommitInv == ASSUME Inv, NEW w \in Writers, Commit(w) PROVE Inv'
<1> DEFINE c     == call[w]
           row   == Written(c)
           rev   == NextRevision
           entry == [revision |-> rev, key |-> c.key, op |-> c.op]
           mine  == [revision |-> rev, key |-> c.key, by |-> w]
<1>1. /\ c \in Calls /\ c.key \in Keys
      /\ rev \in 1..MaxRevision
      /\ row \in Rows /\ row.revision = rev /\ row.fence = c.fence
      /\ resource' \in [Keys -> Rows]
      /\ resource'[c.key] = row
      /\ \A k \in Keys \ {c.key} : resource'[k] = resource[k]
      /\ \A k \in Keys : resource[k].revision < rev
      /\ \A k \in Keys : resource[k].revision <= resource'[k].revision
      /\ \A e \in outbox : e.revision < rev
      /\ \A d \in commits : d.revision < rev
      /\ outbox' = outbox \cup {entry}
      /\ commits' = commits \cup {mine}
      /\ call' = [call EXCEPT ![w].pc = "readBack", ![w].own = rev]
      /\ decisions' = decisions
  BY CommitEffect
<1>2. /\ \A k \in Keys : resource[k].revision \in Nat
      /\ \A k \in Keys : resource'[k].revision \in Nat
      /\ \A e \in outbox : e.revision \in Nat
      /\ \A d \in commits : d.revision \in Nat
  BY <1>1 DEF Inv, TypeOK, Rows
<1>3. /\ call' \in [Writers -> Calls]
      /\ call'[w].pc = "readBack" /\ call'[w].own = rev
      /\ call'[w].key = c.key
      /\ \A x \in Writers \ {w} : call'[x] = call[x]
  <2>1. call'[w] = [c EXCEPT !.pc = "readBack", !.own = rev]
    BY <1>1 DEF Inv, TypeOK
  <2>2. call'[w] \in Calls /\ call'[w].pc = "readBack"
        /\ call'[w].own = rev /\ call'[w].key = c.key
    <3>1. rev \in 0..MaxRevision /\ "readBack" \in Steps
      BY <1>1 DEF Steps
    <3> HIDE DEF rev
    <3>2. [c EXCEPT !.pc = "readBack", !.own = rev] \in Calls
      BY <1>1, <3>1, CallUpdated
    <3> QED
      BY <1>1, <2>1, <3>2 DEF Calls
  <2> QED
    BY <1>1, <2>2 DEF Inv, TypeOK
<1> HIDE DEF row, rev, c
<1>4. entry \in [revision : 1..MaxRevision, key : Keys, op : Ops]
      /\ mine \in [revision : 1..MaxRevision, key : Keys, by : Writers]
  BY <1>1 DEF Calls
<1>5. entry.revision = rev /\ entry.key = c.key
      /\ mine.revision = rev /\ mine.key = c.key /\ mine.by = w
  OBVIOUS
<1> HIDE DEF entry, mine
<1>6. TypeOK'
  BY <1>1, <1>3, <1>4 DEF Inv, TypeOK
<1>7. OneWritePerRevision'
  <2>1. \A a, b \in commits' : a.revision = b.revision => a = b
    BY <1>1, <1>2, <1>5 DEF Inv, OneWritePerRevision
  <2>2. \A j, k \in Keys :
          j # k /\ resource'[j].revision = resource'[k].revision
          => resource'[j].revision = 0
    BY <1>1, <1>2 DEF Inv, OneWritePerRevision
  <2> QED
    BY <2>1, <2>2 DEF OneWritePerRevision
<1>8. OutboxCoversRows'
  BY <1>1, <1>5 DEF Inv, OutboxCoversRows
<1>9. OutboxBelowRows'
  <2>1. \A e \in outbox : \E k \in Keys : e.revision <= resource'[k].revision
    BY <1>1, <1>2 DEF Inv, OutboxBelowRows
  <2>2. entry.revision <= resource'[c.key].revision
    BY <1>1, <1>5
  <2> QED
    BY <1>1, <2>1, <2>2 DEF OutboxBelowRows
<1>10. UnwrittenRows'
  BY <1>1, <1>2 DEF Inv, UnwrittenRows
<1>11. CommitsInOutbox'
  BY <1>1, <1>5 DEF Inv, CommitsInOutbox, OutboxRevisions
<1>12. RowsCommitted'
  BY <1>1, <1>5 DEF Inv, RowsCommitted
<1>13. CallsCommitted'
  <2> SUFFICES ASSUME NEW x \in Writers,
                      call'[x].pc \in {"readBack", "record", "notify"}
               PROVE  /\ call'[x].own > 0
                      /\ call'[x].own <= resource'[call'[x].key].revision
                      /\ [revision |-> call'[x].own, key |-> call'[x].key,
                          by |-> x] \in commits'
    BY DEF CallsCommitted
  <2>1. CASE x = w
    <3>1. rev > 0 /\ rev <= resource'[c.key].revision
      BY <1>1
    <3>2. mine = [revision |-> rev, key |-> c.key, by |-> w]
      BY DEF mine
    <3>3. mine \in commits'
      BY <1>1
    <3>4. call'[x].own = rev /\ call'[x].key = c.key
      BY <1>3, <2>1
    <3>5. [revision |-> call'[x].own, key |-> call'[x].key, by |-> x] = mine
      BY <2>1, <3>2, <3>4
    <3>6. call'[x].own > 0
      BY <3>1, <3>4
    <3>7. call'[x].own <= resource'[call'[x].key].revision
      BY <3>1, <3>4
    <3>8. [revision |-> call'[x].own, key |-> call'[x].key, by |-> x] \in commits'
      BY <3>3, <3>5
    <3> QED
      BY <3>6, <3>7, <3>8
  <2>2. CASE x # w
    <3>1. call'[x] = call[x] /\ call[x].pc # "idle"
      BY <1>3, <2>2
    <3>2. call[x].key \in Keys /\ call[x].own \in Nat
      BY <3>1, CallInFlight DEF Inv, Calls
    <3>3. /\ call[x].own > 0
          /\ call[x].own <= resource[call[x].key].revision
          /\ [revision |-> call[x].own, key |-> call[x].key, by |-> x]
               \in commits
      BY <3>1 DEF Inv, CallsCommitted
    <3>4. call[x].own <= resource'[call[x].key].revision
      <4>1. resource[call[x].key].revision <= resource'[call[x].key].revision
        BY <1>1, <3>2
      <4> QED
        BY <1>2, <3>2, <3>3, <4>1
    <3>5. [revision |-> call[x].own, key |-> call[x].key, by |-> x]
            \in commits'
      BY <1>1, <3>3
    <3> QED
      BY <3>1, <3>3, <3>4, <3>5
  <2> QED
    BY <2>1, <2>2
<1>14. CallsRead'
  BY <1>1, <1>3 DEF Inv, CallsRead
<1>15. DecisionsNameWrites'
  BY <1>1 DEF Inv, DecisionsNameWrites
<1> QED
  BY <1>6, <1>7, <1>8, <1>9, <1>10, <1>11, <1>12, <1>13, <1>14, <1>15 DEF Inv

(* The tables' part of the invariant is kept by a step that leaves the     *)
(* resources, the outbox and the commits alone.                            *)
LEMMA TablesKept ==
    ASSUME Inv, UNCHANGED <<resource, outbox, commits>>
    PROVE  /\ OneWritePerRevision' /\ OutboxCoversRows' /\ OutboxBelowRows'
           /\ UnwrittenRows' /\ CommitsInOutbox' /\ RowsCommitted'
BY DEF Inv, OneWritePerRevision, OutboxCoversRows, OutboxBelowRows,
       UnwrittenRows, CommitsInOutbox, RowsCommitted, OutboxRevisions

(* The read-back preserves the invariant: the row is still at the call's   *)
(* own revision or above it, at a revision some commit to the key took.    *)
LEMMA ReadBackInv == ASSUME Inv, NEW w \in Writers, ReadBack(w) PROVE Inv'
<1> DEFINE c   == call[w]
           rev == resource[c.key].revision
<1>1. c \in Calls /\ c.key \in Keys /\ c.pc = "readBack"
  BY CallInFlight DEF Inv, ReadBack
<1>2. rev \in 0..MaxRevision
  BY <1>1 DEF Inv, TypeOK, Rows
<1>3. /\ call' = [call EXCEPT ![w].pc = "record", ![w].stored = rev]
      /\ UNCHANGED <<resource, outbox, decisions, commits>>
  BY DEF ReadBack, Tables
<1>4. /\ c.own > 0 /\ c.own <= rev
      /\ [revision |-> c.own, key |-> c.key, by |-> w] \in commits
  BY <1>1 DEF Inv, CallsCommitted
<1>5. c.own \in Nat
  BY <1>1 DEF Calls
<1>6. \E d \in commits : d.revision = rev /\ d.key = c.key
  BY <1>1, <1>2, <1>4, <1>5 DEF Inv, RowsCommitted
<1> HIDE DEF rev
<1>7. /\ call' \in [Writers -> Calls]
      /\ call'[w].pc = "record" /\ call'[w].stored = rev
      /\ call'[w].own = c.own /\ call'[w].key = c.key
      /\ \A x \in Writers \ {w} : call'[x] = call[x]
  <2>1. call'[w] = [c EXCEPT !.pc = "record", !.stored = rev]
    BY <1>3 DEF Inv, TypeOK
  <2>2. call'[w] \in Calls
    <3>1. "record" \in Steps
      BY DEF Steps
    <3>2. [c EXCEPT !.pc = "record", !.stored = rev] \in Calls
      <4> HIDE DEF c
      <4> QED
        BY <1>1, <1>2, <3>1, CallUpdated
    <3> QED
      BY <2>1, <3>2
  <2> QED
    BY <1>1, <1>3, <2>1, <2>2 DEF Inv, TypeOK, Calls
<1>8. TypeOK'
  BY <1>1, <1>3, <1>7 DEF Inv, TypeOK
<1>9. CallsCommitted'
  BY <1>1, <1>3, <1>7 DEF Inv, CallsCommitted
<1>10. CallsRead'
  BY <1>3, <1>4, <1>6, <1>7 DEF Inv, CallsRead
<1>11. DecisionsNameWrites'
  BY <1>3 DEF Inv, DecisionsNameWrites
<1> QED
  BY <1>3, <1>8, <1>9, <1>10, <1>11, TablesKept DEF Inv

(* Appending the Decision preserves the invariant: what the call read back *)
(* is what the new Decision needs.                                         *)
LEMMA RecordInv == ASSUME Inv, NEW w \in Writers, Record(w) PROVE Inv'
<1> DEFINE c   == call[w]
           dec == [revision |-> c.stored, key |-> c.key, op |-> c.op,
                   actor |-> w]
<1>1. c \in Calls /\ c.key \in Keys /\ c.pc = "record"
  BY CallInFlight DEF Inv, Record
<1>2. /\ decisions' = decisions \cup {dec}
      /\ call' = [call EXCEPT ![w].pc = "notify"]
      /\ UNCHANGED <<resource, outbox, commits>>
  BY DEF Record
<1>3. /\ c.own <= c.stored
      /\ [revision |-> c.own, key |-> c.key, by |-> w] \in commits
      /\ \E d \in commits : d.revision = c.stored /\ d.key = c.key
  BY <1>1 DEF Inv, CallsCommitted, CallsRead
<1>4. dec \in [revision : 0..MaxRevision, key : Keys, op : Ops,
              actor : Writers]
  BY <1>1 DEF Calls
<1>5. dec.revision = c.stored /\ dec.key = c.key /\ dec.actor = w
  OBVIOUS
<1> HIDE DEF dec
<1>6. /\ call' \in [Writers -> Calls]
      /\ call'[w].pc = "notify" /\ call'[w].stored = c.stored
      /\ call'[w].own = c.own /\ call'[w].key = c.key
      /\ \A x \in Writers \ {w} : call'[x] = call[x]
  <2>1. call'[w] = [c EXCEPT !.pc = "notify"]
    BY <1>2 DEF Inv, TypeOK
  <2>2. call'[w] \in Calls
    <3>1. "notify" \in Steps
      BY DEF Steps
    <3> QED
      BY <1>1, <2>1, <3>1 DEF Calls
  <2> QED
    BY <1>1, <1>2, <2>1, <2>2 DEF Inv, TypeOK, Calls
<1>7. TypeOK'
  BY <1>1, <1>2, <1>4, <1>6 DEF Inv, TypeOK
<1>8. CallsCommitted'
  BY <1>1, <1>2, <1>6 DEF Inv, CallsCommitted
<1>9. CallsRead'
  BY <1>1, <1>2, <1>6 DEF Inv, CallsRead
<1>10. DecisionsNameWrites'
  <2>1. \E d \in commits : d.by = w /\ d.key = c.key /\ d.revision <= c.stored
    BY <1>3
  <2> QED
    BY <1>2, <1>3, <1>5, <2>1 DEF Inv, DecisionsNameWrites
<1> QED
  BY <1>2, <1>7, <1>8, <1>9, <1>10, TablesKept DEF Inv

(* Every step preserves the invariant. *)
LEMMA NextInv == Inv /\ [Next]_vars => Inv'
<1> SUFFICES ASSUME Inv, [Next]_vars PROVE Inv'
  OBVIOUS
<1>1. ASSUME NEW w \in Writers, Request(w) PROVE Inv'
  BY <1>1, RequestInv
<1>2. ASSUME NEW w \in Writers, Commit(w) PROVE Inv'
  BY <1>2, CommitInv
<1>3. ASSUME NEW w \in Writers, Collide(w) PROVE Inv'
  BY <1>3, FinishQuiet DEF Collide, Outcomes
<1>4. ASSUME NEW w \in Writers, ReadBack(w) PROVE Inv'
  BY <1>4, ReadBackInv
<1>5. ASSUME NEW w \in Writers, Record(w) PROVE Inv'
  BY <1>5, RecordInv
<1>6. ASSUME NEW w \in Writers, Notify(w) PROVE Inv'
  BY <1>6, FinishQuiet DEF Notify, Outcomes
<1>7. ASSUME NEW w \in Writers, Fail(w) PROVE Inv'
  BY <1>7, FinishQuiet DEF Fail, Outcomes
<1>8. CASE UNCHANGED vars
  <2>1. UNCHANGED <<resource, outbox, commits>> /\ UNCHANGED <<decisions, call>>
    BY <1>8 DEF vars
  <2>2. TypeOK' /\ CallsCommitted' /\ CallsRead' /\ DecisionsNameWrites'
    BY <2>1 DEF Inv, TypeOK, CallsCommitted, CallsRead, DecisionsNameWrites
  <2> QED
    BY <2>1, <2>2, TablesKept DEF Inv
<1> QED
  BY <1>1, <1>2, <1>3, <1>4, <1>5, <1>6, <1>7, <1>8 DEF Next

-----------------------------------------------------------------------------
(* The invariant holds of every behaviour. *)
THEOREM Invariance == Spec => []Inv
<1> QED
  BY InitInv, NextInv, PTL DEF Spec

(* Every variable keeps its type. *)
THEOREM TypeCorrect == Spec => []TypeOK
<1>1. Inv => TypeOK
  BY DEF Inv
<1> QED
  BY <1>1, Invariance, PTL

(* A revision is assigned to one write only, however many calls race: a    *)
(* write the fence stopped never reports success.                          *)
THEOREM RevisionsUnique == Spec => []OneWritePerRevision
<1>1. Inv => OneWritePerRevision
  BY DEF Inv
<1> QED
  BY <1>1, Invariance, PTL

(* The row and its outbox entry never disagree. *)
THEOREM OutboxComplete == Spec => []OutboxCoversRows
<1>1. Inv => OutboxCoversRows
  BY DEF Inv
<1> QED
  BY <1>1, Invariance, PTL

(* A Decision names a write of its resource, not older than its actor's. *)
THEOREM DecisionsTraceable == Spec => []DecisionsNameWrites
<1>1. Inv => DecisionsNameWrites
  BY DEF Inv
<1> QED
  BY <1>1, Invariance, PTL

(* Only a transaction changes the resources. *)
LEMMA OnlyCommitsWrite ==
    ASSUME [Next]_vars, resource' # resource
    PROVE  \E w \in Writers : Commit(w)
<1>1. ~ UNCHANGED Tables /\ ~ UNCHANGED vars
  BY DEF Tables, vars
<1>2. \A w \in Writers : ~ Request(w)
  BY <1>1 DEF Request, Admit, Retract, SetStatus
<1>3. \A w \in Writers :
        ~ Collide(w) /\ ~ ReadBack(w) /\ ~ Notify(w) /\ ~ Fail(w)
  BY <1>1 DEF Collide, ReadBack, Notify, Fail
<1>4. \A w \in Writers : ~ Record(w)
  BY DEF Record
<1> QED
  BY <1>1, <1>2, <1>3, <1>4 DEF Next

(* A write is stamped above every revision in the table. *)
THEOREM RevisionsGrow == Spec => RevisionsOnlyGrow
<1> DEFINE Grow == \A k \in Keys : resource'[k] # resource[k] =>
                      \A j \in Keys :
                          resource'[k].revision > resource[j].revision
<1>1. Inv /\ [Next]_vars => [Grow]_vars
  <2> SUFFICES ASSUME Inv, [Next]_vars,
                      NEW k \in Keys, resource'[k] # resource[k],
                      NEW j \in Keys
               PROVE  resource'[k].revision > resource[j].revision
    OBVIOUS
  <2>1. PICK w \in Writers : Commit(w)
    BY OnlyCommitsWrite
  <2>2. /\ k = call[w].key
        /\ resource'[k].revision = NextRevision
        /\ resource[j].revision < NextRevision
    BY <2>1, CommitEffect
  <2>3. NextRevision \in Nat /\ resource[j].revision \in Nat
    BY NextRevisionFresh DEF Inv, TypeOK, Rows
  <2> QED
    BY <2>2, <2>3
<1> QED
  BY <1>1, Invariance, PTL DEF Spec, RevisionsOnlyGrow

(* A row's fence never falls. *)
THEOREM FencesHold == Spec => FenceNeverFalls
<1> DEFINE Hold == \A k \in Keys : resource'[k].fence >= resource[k].fence
<1>1. Inv /\ [Next]_vars => [Hold]_vars
  <2> SUFFICES ASSUME Inv, [Next]_vars, NEW k \in Keys
               PROVE  resource'[k].fence >= resource[k].fence
    OBVIOUS
  <2>1. resource[k].fence \in Nat
    <3>1. resource[k].fence \in Fences
      BY DEF Inv, TypeOK, Rows
    <3>2. Fences \subseteq Nat
      BY ConstantsOK DEF ConstantsOK
    <3> QED
      BY <3>1, <3>2
  <2>2. CASE resource' = resource
    BY <2>1, <2>2
  <2>3. CASE resource' # resource
    <3>1. PICK w \in Writers : Commit(w)
      BY <2>3, OnlyCommitsWrite
    <3>2. /\ resource[call[w].key].fence <= resource'[call[w].key].fence
          /\ k # call[w].key => resource'[k] = resource[k]
      BY <3>1, CommitEffect
    <3> QED
      BY <2>1, <3>2
  <2> QED
    BY <2>2, <2>3
<1> QED
  BY <1>1, Invariance, PTL DEF Spec, FenceNeverFalls

-----------------------------------------------------------------------------
(* Intent and observation never overwrite each other. *)
THEOREM IntentKept == Spec => IntentAndStatusApart
<1> DEFINE Apart(k) ==
             LET old == resource[k]
                 new == resource'[k]
             IN  \/ new.status = old.status /\ (new.spec # old.spec => new.live)
                 \/ new.spec = old.spec /\ new.live = old.live
<1>1. Inv /\ [Next]_vars => [\A k \in Keys : Apart(k)]_vars
  <2> SUFFICES ASSUME Inv, [Next]_vars, NEW k \in Keys PROVE Apart(k)
    OBVIOUS
  <2>1. CASE resource'[k] = resource[k]
    BY <2>1
  <2>2. CASE resource'[k] # resource[k]
    <3>1. PICK w \in Writers : Commit(w)
      BY <2>2, OnlyCommitsWrite
    <3> DEFINE c == call[w]
    <3>2. /\ k = c.key /\ c \in Calls /\ resource[k] \in Rows
          /\ resource'[k] = Written(c)
      BY <2>2, <3>1, CommitEffect DEF Inv, TypeOK
    <3>3. c.verb \in {"admit", "retract", "setStatus"}
      BY <3>2 DEF Calls, Verbs
    <3> HIDE DEF c
    <3>4. CASE c.verb = "admit"
      BY <3>2, <3>4 DEF Written, Rows
    <3>5. CASE c.verb = "retract"
      BY <3>2, <3>5 DEF Written, Rows
    <3>6. CASE c.verb = "setStatus"
      BY <3>2, <3>6 DEF Written, Rows
    <3> QED
      BY <3>3, <3>4, <3>5, <3>6
  <2> QED
    BY <2>1, <2>2
<1> QED
  BY <1>1, Invariance, PTL DEF Spec, IntentAndStatusApart

(* A transaction that commits moves MAX(revision) up by exactly one. *)
LEMMA TopAdvances ==
    ASSUME Inv, NEW w \in Writers, Commit(w)
    PROVE  /\ Max(Revisions) \in Nat
           /\ Max(Revisions) + 1 = NextRevision
           /\ Max(Revisions') = NextRevision
<1> DEFINE R   == Revisions'
           rev == NextRevision
           k   == call[w].key
<1>1. /\ k \in Keys /\ resource'[k].revision = rev
      /\ \A j \in Keys \ {k} : resource'[j] = resource[j]
      /\ \A j \in Keys : resource[j].revision < rev
  BY CommitEffect
<1>2. /\ Max(Revisions) \in Nat /\ rev = Max(Revisions) + 1
      /\ \A j \in Keys : resource[j].revision \in Nat
  BY NextRevisionFresh DEF Inv, TypeOK, Rows
<1>3. rev \in Nat
  BY <1>2
<1> HIDE DEF rev
<1>4. R = {0} \cup {resource'[j].revision : j \in Keys}
  BY DEF Revisions
<1>5. \A j \in Keys : resource'[j].revision \in 0..rev
  BY <1>1, <1>2, <1>3
<1>6. R \subseteq 0..rev
  BY <1>3, <1>4, <1>5
<1>7. rev \in R
  BY <1>1, <1>4
<1> HIDE DEF R
<1>8. Max(R) \in R /\ \A x \in R : x <= Max(R)
  BY <1>3, <1>6, <1>7, MaxOfBounded
<1>9. Max(R) = rev
  <2> DEFINE m == Max(R)
  <2>1. m \in R /\ rev <= m
    BY <1>7, <1>8
  <2> HIDE DEF m
  <2>2. m \in 0..rev
    BY <1>6, <2>1
  <2>3. m = rev
    BY <1>3, <2>1, <2>2
  <2> QED
    BY <2>3 DEF m
<1> QED
  BY <1>2, <1>9 DEF R, rev

(***************************************************************************)
(* The admission path implements the versioned store: MAX(revision) is a   *)
(* counter that starts at 0, every transaction is one abstract write under *)
(* a fence the store accepts, and every other step of every call, failed   *)
(* ones included, is invisible to it.                                      *)
(***************************************************************************)
THEOREM Implements == Spec => ImplementsStore
<1> DEFINE Top   == Max(Revisions)
           Rows2 == [k \in Keys |-> [revision |-> resource[k].revision,
                                     fence    |-> resource[k].fence]]
<1>1. Init => Store!Init
  <2> SUFFICES ASSUME Init PROVE Store!Init
    OBVIOUS
  <2>1. TypeOK /\ \A k \in Keys : resource[k].revision = 0
                              /\ resource[k].fence = 0
    BY InitInv DEF Init, NoRow, Inv
  <2>2. Top = 0
    BY <2>1, NextRevisionFresh
  <2>3. Rows2 = [k \in Keys |-> [revision |-> 0, fence |-> 0]]
    BY <2>1
  <2> QED
    BY <2>2, <2>3 DEF Store!Init
<1>2. Inv /\ [Next]_vars => [Store!Next]_(Store!vars)
  <2> SUFFICES ASSUME Inv, [Next]_vars
               PROVE  Store!Next \/ UNCHANGED Store!vars
    BY DEF Store!vars
  <2>1. CASE resource' = resource
    BY <2>1 DEF Store!vars, Revisions
  <2>2. CASE resource' # resource
    <3>1. PICK w \in Writers : Commit(w)
      BY <2>2, OnlyCommitsWrite
    <3> DEFINE k == call[w].key
               f == call[w].fence
    <3>2. /\ k \in Keys /\ f \in Fences
          /\ resource'[k].revision = NextRevision
          /\ NextRevision \in 1..MaxRevision
          /\ resource'[k].fence = f
          /\ resource[k].fence <= f
          /\ \A j \in Keys \ {k} : resource'[j] = resource[j]
          /\ \A j \in Keys : resource[j].revision < NextRevision
      BY <3>1, CommitEffect DEF Calls
    <3>3. Top \in Nat /\ Top + 1 = NextRevision /\ Top' = NextRevision
      BY <3>1, TopAdvances
    <3>4. Rows2' \in [Keys -> [revision : Nat, fence : Nat]]
      <4>1. Inv'
        BY NextInv
      <4>2. \A j \in Keys : resource'[j] \in Rows
        BY <4>1 DEF Inv, TypeOK
      <4>3. ASSUME NEW r \in Rows PROVE r.revision \in Nat /\ r.fence \in Nat
        <5>1. r.revision \in 0..MaxRevision /\ r.fence \in Fences
          BY DEF Rows
        <5>2. r.revision \in Nat
          BY <5>1, ConstantsOK DEF ConstantsOK
        <5>3. r.fence \in Nat
          BY <5>1, ConstantsOK DEF ConstantsOK
        <5> QED
          BY <5>2, <5>3
      <4>4. \A j \in Keys : resource'[j].revision \in Nat /\ resource'[j].fence \in Nat
        BY <4>2, <4>3
      <4> QED
        BY <4>4
    <3>5. Rows2'[k].revision = Top' /\ Rows2'[k].fence >= Rows2[k].fence
      BY <3>2, <3>3, ConstantsOK DEF ConstantsOK
    <3>6. \A j \in Keys \ {k} : Rows2'[j] = Rows2[j]
      BY <3>2
    <3> QED
      BY <3>2, <3>3, <3>4, <3>5, <3>6 DEF Store!Next, Store!Write
  <2> QED
    BY <2>1, <2>2
<1> QED
  BY <1>1, <1>2, Invariance, PTL DEF Spec, ImplementsStore, Store!Spec
=============================================================================
