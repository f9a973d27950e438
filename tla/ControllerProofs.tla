-------------------------- MODULE ControllerProofs --------------------------
(***************************************************************************)
(* That a controller skips no change and that its writes are writes of the *)
(* versioned store (Controller), for any nodes, resources, batch size and  *)
(* bounds.                                                                 *)
(***************************************************************************)
EXTENDS Controller, TLAPS, WellFoundedInduction

Places == {"idle", "read", "scan", "reconcile", "write", "mark"}

Rows == [revision : Nat, spec : Nat, status : Nat, fence : Nat]

Tables == [row : [Keys -> Rows], mark : Nat]

Changes == [key : Watched, revision : Nat, spec : Nat]

Passes == [pc : Places, token : Nat, mark : Nat, batch : Seq(Changes), processed : Nat]

TypeOK ==
    /\ db \in Tables
    /\ lag \in [Nodes -> Seq(Tables)]
    /\ holder \in Nodes \cup {None}
    /\ pass \in [Nodes -> Passes]
    /\ reconciled \in [Keys -> Nat]
    /\ faults \in Nat

(* Finitely many revisions and tokens are in use, however many rows there are. *)
Bounded ==
    \E b \in Nat :
        /\ \A k \in Keys : db.row[k].revision <= b /\ db.row[k].fence <= b
        /\ \A n \in Nodes : pass[n].token <= b

(* A mark m is sound: no row that stands at or below it is unreconciled, and the
   next revision is above it. *)
Covered(m) ==
    \A k \in Watched :
        db.row[k].revision <= m => reconciled[k] >= db.row[k].revision

Sound(m) == m <= Top /\ Covered(m)

(* A table a replica has: it knows every row that stands no higher than one of
   its own. *)
Behind(t) ==
    /\ \A j \in Keys :
          /\ t.row[j].revision <= Top
          /\ \A k \in Keys : db.row[k].revision <= t.row[j].revision =>
                                 t.row[k].revision = db.row[k].revision
    /\ t.mark <= db.mark

(* A batch in work: in order, and every row up to its last change is in it or
   reconciled. *)
BatchSound(b) ==
    /\ b # <<>>
    /\ \A i, j \in 1..Len(b) : i < j => b[i].revision < b[j].revision
    /\ \A i \in 1..Len(b) :
          /\ b[i].revision <= Top
          /\ \A k \in Watched :
                db.row[k].revision <= b[i].revision =>
                    \/ reconciled[k] >= db.row[k].revision
                    \/ \E j \in 1..Len(b) :
                          b[j].key = k /\ b[j].revision = db.row[k].revision

PassSound(p) ==
    /\ p.pc = "scan" => Sound(p.mark)
    /\ p.pc \in {"reconcile", "write"} => BatchSound(p.batch)
    /\ p.pc \in {"reconcile", "write", "mark"} => Sound(p.processed)

Inv ==
    /\ TypeOK /\ Bounded
    /\ Sound(db.mark)
    /\ \A n \in Nodes : \A i \in 1..Len(lag[n]) : Behind(lag[n][i])
    /\ \A n \in Nodes : PassSound(pass[n])
-----------------------------------------------------------------------------
(* A non-empty set of naturals below a bound has a largest element: mirrored
   below the bound it has a least one, of which the library knows. *)
LEMMA MaxOfBounded ==
    ASSUME NEW N \in Nat, NEW S, S \subseteq 0..N, S # {}
    PROVE  Max(S) \in S /\ \A x \in S : x <= Max(S)
<1> DEFINE T == {N - x : x \in S}
<1>1. \A x \in S : x \in 0..N /\ N - x \in Nat
  OBVIOUS
<1>2. T \subseteq Nat /\ T # {}
  BY <1>1
<1>3. PICK m \in T : \A y \in T : ~ (<<y, m>> \in OpToRel(<, Nat))
  <2> HIDE DEF T
  <2> QED
    BY <1>2, WFMin, NatLessThanWellFounded
<1>4. \A y \in T : m <= y
  <2> SUFFICES ASSUME NEW y \in T, ~ (m <= y) PROVE FALSE
    OBVIOUS
  <2>1. y \in Nat /\ m \in Nat /\ y < m
    BY <1>2
  <2>2. <<y, m>> \in OpToRel(<, Nat)
    BY <2>1 DEF OpToRel
  <2> QED
    BY <1>3, <2>2
<1>5. PICK x \in S : m = N - x
  OBVIOUS
<1>6. \A y \in S : N - y \in T
  OBVIOUS
<1>7. \A y \in S : x >= y
  BY <1>1, <1>4, <1>5, <1>6
<1> QED
  BY <1>7 DEF Max

(* The larger of two. *)
LEMMA MaxOfTwo ==
    ASSUME NEW a \in Nat, NEW b \in Nat
    PROVE  Max({a, b}) \in Nat /\ Max({a, b}) >= a /\ Max({a, b}) >= b
<1> DEFINE N == a + b
           S == {a, b}
<1>1. N \in Nat /\ S \subseteq 0..N /\ S # {}
  OBVIOUS
<1> HIDE DEF N, S
<1>2. Max(S) \in S /\ \A x \in S : x <= Max(S)
  BY <1>1, MaxOfBounded
<1>3. S = {a, b}
  BY DEF S
<1>4. Max(S) \in Nat /\ a <= Max(S) /\ b <= Max(S)
  BY <1>2, <1>3
<1> QED
  BY <1>3, <1>4

(* Top is 0 or some row's revision, and no row's is above it. *)
TopLargest ==
    /\ Top \in Nat
    /\ \A k \in Keys : db.row[k].revision \in Nat /\ db.row[k].revision <= Top
    /\ Top = 0 \/ \E k \in Keys : db.row[k].revision = Top

LEMMA TopIsLargest == TypeOK /\ Bounded => TopLargest
<1> SUFFICES ASSUME TypeOK, Bounded PROVE TopLargest
  OBVIOUS
<1>1. \A k \in Keys : db.row[k].revision \in Nat
  BY DEF TypeOK, Tables, Rows
<1>2. PICK b \in Nat : \A k \in Keys : db.row[k].revision <= b
  BY DEF Bounded
<1> DEFINE S == {0} \cup {db.row[k].revision : k \in Keys}
<1>3. S \subseteq 0..b /\ S # {}
  BY <1>1, <1>2
<1>4. \A x \in S : x = 0 \/ \E k \in Keys : db.row[k].revision = x
  OBVIOUS
<1>5. \A k \in Keys : db.row[k].revision \in S
  OBVIOUS
<1>6. Top = Max(S)
  BY DEF Top
<1> HIDE DEF S
<1>7. Top \in S /\ \A x \in S : x <= Top
  BY <1>3, <1>6, MaxOfBounded
<1>8. Top \in Nat
  BY <1>3, <1>7
<1> QED
  BY <1>1, <1>4, <1>5, <1>7, <1>8 DEF TopLargest

(* A new token is a natural number: there is a largest one in use. *)
LEMMA NextTokenType == ASSUME TypeOK, Bounded PROVE NextToken \in Nat
<1>1. /\ \A k \in Keys : db.row[k].fence \in Nat
      /\ \A n \in Nodes : pass[n].token \in Nat
  BY DEF TypeOK, Tables, Rows, Passes
<1>2. PICK b \in Nat : /\ \A k \in Keys : db.row[k].fence <= b
                       /\ \A n \in Nodes : pass[n].token <= b
  BY DEF Bounded
<1> DEFINE S == {0} \cup {db.row[k].fence : k \in Keys} \cup {pass[n].token : n \in Nodes}
<1>3. S \subseteq 0..b /\ S # {}
  BY <1>1, <1>2
<1>4. NextToken = 1 + Max(S)
  BY DEF NextToken
<1> HIDE DEF S
<1>5. Max(S) \in S
  BY <1>3, MaxOfBounded
<1>6. Max(S) \in 0..b
  BY <1>3, <1>5
<1>7. Max(S) \in Nat
  BY <1>6
<1> QED
  BY <1>4, <1>7

-----------------------------------------------------------------------------
(* What a step may do to the tables: raise the mark to a sound one, or write one
   row at the next revision. *)
Marked ==
    /\ db'.row = db.row
    /\ \E m \in Nat : db'.mark = m /\ m >= db.mark /\ Sound(m)

RowWritten(k) ==
    /\ db'.mark = db.mark
    /\ db'.row[k].revision = Top + 1
    /\ \A j \in Keys \ {k} : db'.row[j] = db.row[j]

TablesStep == db' = db \/ Marked \/ \E k \in Keys : RowWritten(k)

(* The last revision never falls, and a written row has it. *)
LEMMA TopMoves ==
    ASSUME TypeOK, Bounded, TypeOK', Bounded', TablesStep
    PROVE  /\ Top' >= Top
           /\ db'.row = db.row => Top' = Top
           /\ \A k \in Keys : RowWritten(k) => Top' = Top + 1
<1>1. db'.row = db.row => Top' = Top
  BY DEF Top
<1>2. db' = db => db'.row = db.row
  OBVIOUS
<1>3. TopLargest /\ TopLargest'
  BY TopIsLargest, PTL
<1>4. ASSUME NEW k \in Keys, RowWritten(k) PROVE Top' = Top + 1
  <2>1. Top + 1 <= Top'
    BY <1>3, <1>4 DEF RowWritten, TopLargest
  <2>2. ASSUME NEW j \in Keys, db'.row[j].revision = Top' PROVE Top' <= Top + 1
    BY <1>3, <1>4, <2>2 DEF RowWritten, TopLargest
  <2> QED
    BY <1>3, <2>1, <2>2 DEF TopLargest
<1> QED
  BY <1>1, <1>2, <1>3, <1>4 DEF TablesStep, Marked, TopLargest

(* So a row is as it was or stands at the new last revision, above every other. *)
LEMMA RevisionMoves ==
    ASSUME TypeOK, Bounded, TypeOK', Bounded', TablesStep
    PROVE  /\ Top \in Nat /\ Top' \in Nat /\ Top <= Top' /\ db.mark <= db'.mark
           /\ \A k \in Keys : db.row[k].revision \in Nat /\ db.row[k].revision <= Top
           /\ \A k \in Keys : \/ db'.row[k].revision = db.row[k].revision
                              \/ db'.row[k].revision = Top + 1
<1>1. TopLargest /\ TopLargest'
  BY TopIsLargest, PTL
<1>2. Top <= Top'
  BY <1>1, TopMoves DEF TopLargest
<1>3. db.mark \in Nat
  BY DEF TypeOK, Tables
<1>4. CASE db' = db
  BY <1>1, <1>2, <1>3, <1>4 DEF TopLargest
<1>5. CASE Marked
  BY <1>1, <1>2, <1>3, <1>5 DEF TopLargest, Marked
<1>6. CASE \E k \in Keys : RowWritten(k)
  BY <1>1, <1>2, <1>3, <1>6 DEF TopLargest, RowWritten
<1> QED
  BY <1>4, <1>5, <1>6 DEF TablesStep

-----------------------------------------------------------------------------
(* What a step that only adds to what is reconciled does not undo. *)
LEMMA SoundKept ==
    ASSUME TypeOK, Bounded, TypeOK', Bounded', TablesStep,
           \A k \in Keys : reconciled'[k] >= reconciled[k],
           NEW m \in Nat, Sound(m)
    PROVE  Sound(m)'
<1>1. m <= Top'
  BY RevisionMoves DEF Sound
<1>2. ASSUME NEW k \in Watched, db'.row[k].revision <= m
      PROVE  reconciled'[k] >= db'.row[k].revision
  <2>1. k \in Keys /\ db'.row[k].revision = db.row[k].revision
    BY <1>2, RevisionMoves, ConstantsOK DEF ConstantsOK, Sound
  <2>2. reconciled[k] >= db.row[k].revision
    BY <1>2, <2>1 DEF Sound, Covered
  <2>3. reconciled[k] \in Nat /\ reconciled'[k] \in Nat /\ db.row[k].revision \in Nat
    BY <2>1, RevisionMoves DEF TypeOK
  <2> QED
    BY <2>1, <2>2, <2>3
<1> QED
  BY <1>1, <1>2 DEF Sound, Covered

LEMMA BehindKept ==
    ASSUME TypeOK, Bounded, TypeOK', Bounded', TablesStep,
           NEW t \in Tables, t = db \/ Behind(t)
    PROVE  Behind(t)'
<1>1. /\ t.mark \in Nat /\ db.mark \in Nat /\ db'.mark \in Nat
      /\ \A j \in Keys : t.row[j].revision \in Nat
  BY DEF TypeOK, Tables, Rows
<1>2. \A j \in Keys : t.row[j].revision <= Top
  BY RevisionMoves DEF Behind
<1>3. ASSUME NEW j \in Keys, NEW k \in Keys, db'.row[k].revision <= t.row[j].revision
      PROVE  t.row[k].revision = db'.row[k].revision
  <2>1. db'.row[k].revision = db.row[k].revision
    BY <1>1, <1>2, <1>3, RevisionMoves
  <2>2. CASE t = db
    BY <2>1, <2>2
  <2>3. CASE Behind(t)
    BY <1>3, <2>1, <2>3 DEF Behind
  <2> QED
    BY <2>2, <2>3
<1>4. t.mark <= db'.mark
  BY <1>1, RevisionMoves DEF Behind
<1>5. \A j \in Keys : t.row[j].revision <= Top'
  BY <1>1, <1>2, RevisionMoves
<1> QED
  BY <1>3, <1>4, <1>5 DEF Behind

LEMMA BatchKept ==
    ASSUME TypeOK, Bounded, TypeOK', Bounded', TablesStep,
           \A k \in Keys : reconciled'[k] >= reconciled[k],
           NEW b \in Seq(Changes), BatchSound(b)
    PROVE  BatchSound(b)'
<1>1. \A i \in 1..Len(b) : b[i].revision \in Nat
  <2>1. \A i \in 1..Len(b) : b[i] \in Changes
    OBVIOUS
  <2> QED
    BY <2>1 DEF Changes
<1>2. ASSUME NEW i \in 1..Len(b)
      PROVE  /\ b[i].revision <= Top'
             /\ \A k \in Watched :
                   db'.row[k].revision <= b[i].revision =>
                       \/ reconciled'[k] >= db'.row[k].revision
                       \/ \E j \in 1..Len(b) :
                             b[j].key = k /\ b[j].revision = db'.row[k].revision
  <2>1. b[i].revision <= Top
    BY DEF BatchSound
  <2>2. b[i].revision <= Top'
    BY <1>1, <2>1, RevisionMoves
  <2>3. ASSUME NEW k \in Watched, db'.row[k].revision <= b[i].revision
        PROVE  \/ reconciled'[k] >= db'.row[k].revision
               \/ \E j \in 1..Len(b) :
                     b[j].key = k /\ b[j].revision = db'.row[k].revision
    <3>1. k \in Keys /\ db'.row[k].revision = db.row[k].revision
      BY <1>1, <2>1, <2>3, RevisionMoves, ConstantsOK DEF ConstantsOK
    <3>2. CASE reconciled[k] >= db.row[k].revision
      <4>1. reconciled[k] \in Nat /\ reconciled'[k] \in Nat /\ db.row[k].revision \in Nat
        BY <3>1, RevisionMoves DEF TypeOK
      <4> QED
        BY <3>1, <3>2, <4>1
    <3>3. CASE \E j \in 1..Len(b) : b[j].key = k /\ b[j].revision = db.row[k].revision
      BY <3>1, <3>3
    <3> QED
      BY <2>3, <3>1, <3>2, <3>3 DEF BatchSound
  <2> QED
    BY <2>2, <2>3
<1> QED
  BY <1>2 DEF BatchSound

LEMMA PassKept ==
    ASSUME TypeOK, Bounded, TypeOK', Bounded', TablesStep,
           \A k \in Keys : reconciled'[k] >= reconciled[k],
           NEW p \in Passes, PassSound(p)
    PROVE  PassSound(p)'
<1>1. p.mark \in Nat /\ p.processed \in Nat /\ p.batch \in Seq(Changes)
  BY DEF Passes
<1>2. \A m \in Nat : Sound(m) => Sound(m)'
  BY SoundKept
<1>3. \A b \in Seq(Changes) : BatchSound(b) => BatchSound(b)'
  BY BatchKept
<1>4. p.pc = "scan" => Sound(p.mark)'
  BY <1>1, <1>2 DEF PassSound
<1>5. p.pc \in {"reconcile", "write", "mark"} => Sound(p.processed)'
  BY <1>1, <1>2 DEF PassSound
<1>6. p.pc \in {"reconcile", "write"} => BatchSound(p.batch)'
  BY <1>1, <1>3 DEF PassSound
<1> QED
  BY <1>4, <1>5, <1>6 DEF PassSound

(* The pass of a node after a step of it is sound, the others are left alone, the
   mark is the old one or sound, and a replica shows what it or the leader had. *)
LEMMA StepInv ==
    ASSUME Inv, TypeOK', Bounded', TablesStep,
           \A k \in Keys : reconciled'[k] >= reconciled[k],
           \A n \in Nodes : \A i \in 1..Len(lag'[n]) :
              lag'[n][i] = db \/ \E j \in 1..Len(lag[n]) : lag'[n][i] = lag[n][j],
           \A n \in Nodes : \/ pass'[n] = pass[n]
                           \/ \E p \in Passes : pass'[n] = p /\ PassSound(p)'
    PROVE  Inv'
<1>1. TypeOK /\ Bounded
  BY DEF Inv
<1>2. ASSUME NEW n \in Nodes PROVE PassSound(pass[n])'
  <2>1. PICK p \in Passes : pass'[n] = p /\ PassSound(p)'
    <3>1. CASE pass'[n] = pass[n]
      <4>1. pass[n] \in Passes /\ PassSound(pass[n])
        BY DEF Inv, TypeOK
      <4>2. PICK p \in Passes : p = pass[n] /\ PassSound(p)
        BY <4>1
      <4>3. PassSound(p)'
        BY <1>1, <4>2, PassKept
      <4> QED
        BY <3>1, <4>2, <4>3
    <3>2. CASE \E p \in Passes : pass'[n] = p /\ PassSound(p)'
      BY <3>2
    <3> QED
      BY <3>1, <3>2
  <2> QED
    BY <2>1 DEF PassSound, Sound, Covered, BatchSound
<1>3. Sound(db.mark)'
  <2>1. db.mark \in Nat /\ Sound(db.mark)
    BY <1>1 DEF TypeOK, Tables, Inv
  <2>2. PICK m \in Nat : db'.mark = m /\ Sound(m)
    BY <2>1 DEF TablesStep, Marked, RowWritten
  <2>3. Sound(m)'
    BY <1>1, <2>2, SoundKept
  <2> QED
    BY <2>2, <2>3 DEF Sound, Covered
<1>4. ASSUME NEW n \in Nodes, NEW i \in 1..Len(lag'[n]) PROVE Behind(lag[n][i])'
  <2>1. PICK t \in Tables : lag'[n][i] = t /\ (t = db \/ Behind(t))
    <3>1. CASE lag'[n][i] = db
      BY <1>1, <3>1 DEF TypeOK
    <3>2. CASE \E j \in 1..Len(lag[n]) : lag'[n][i] = lag[n][j]
      <4>1. PICK j \in 1..Len(lag[n]) : lag'[n][i] = lag[n][j]
        BY <3>2
      <4>2. lag[n] \in Seq(Tables)
        BY <1>1 DEF TypeOK
      <4>3. lag[n][j] \in Tables
        BY <4>2
      <4>4. Behind(lag[n][j])
        BY DEF Inv
      <4> QED
        BY <4>1, <4>3, <4>4
    <3> QED
      BY <3>1, <3>2
  <2>2. Behind(t)'
    BY <1>1, <2>1, BehindKept
  <2> QED
    BY <2>1, <2>2 DEF Behind
<1> QED
  BY <1>2, <1>3, <1>4 DEF Inv

(* The first state. *)
LEMMA InitInv == Init => Inv
<1> SUFFICES ASSUME Init PROVE Inv
  OBVIOUS
<1>1. NoRow \in Rows /\ Idle \in Passes
  BY DEF NoRow, Rows, Idle, Passes, Places
<1>2. TypeOK
  BY <1>1 DEF Init, TypeOK, Tables
<1>3. \A k \in Keys : db.row[k].revision = 0 /\ db.row[k].fence = 0
  BY DEF Init, NoRow
<1>4. \A n \in Nodes : pass[n].token = 0 /\ pass[n].pc = "idle"
  BY DEF Init, Idle
<1>5. Bounded
  BY <1>3, <1>4 DEF Bounded
<1>6. Top = 0 /\ db.mark = 0
  BY <1>2, <1>3, <1>5, TopIsLargest DEF TopLargest, Init
<1>7. Sound(db.mark)
  BY <1>3, <1>6, ConstantsOK DEF Sound, Covered, ConstantsOK, Init
<1>8. \A n \in Nodes : Len(lag[n]) = 0 /\ PassSound(pass[n])
  BY <1>4 DEF Init, PassSound
<1> QED
  BY <1>2, <1>5, <1>7, <1>8 DEF Inv

-----------------------------------------------------------------------------
(* Only tables and tokens matter to Bounded. *)
LEMMA BoundKept ==
    ASSUME TypeOK, Bounded, TypeOK', NEW c \in Nat,
           \A k \in Keys : \/ db'.row[k] = db.row[k]
                           \/ db'.row[k].revision = Top + 1 /\ db'.row[k].fence <= c,
           \A n \in Nodes : pass'[n].token = pass[n].token \/ pass'[n].token <= c
    PROVE  Bounded'
<1>1. PICK b \in Nat :
         /\ \A k \in Keys : db.row[k].revision <= b /\ db.row[k].fence <= b
         /\ \A n \in Nodes : pass[n].token <= b
  BY DEF Bounded
<1>2. Top \in Nat
  BY TopIsLargest DEF TopLargest
<1> DEFINE d == b + c + Top + 1
<1>3. d \in Nat /\ b <= d /\ c <= d /\ Top + 1 <= d
  BY <1>2
<1>4. \A k \in Keys : /\ db.row[k].revision \in Nat /\ db.row[k].fence \in Nat
                      /\ db'.row[k].revision \in Nat /\ db'.row[k].fence \in Nat
  BY DEF TypeOK, Tables, Rows
<1>5. \A n \in Nodes : pass[n].token \in Nat /\ pass'[n].token \in Nat
  BY DEF TypeOK, Passes
<1> HIDE DEF d
<1>6. \A k \in Keys : db'.row[k].revision <= d /\ db'.row[k].fence <= d
  <2> SUFFICES ASSUME NEW k \in Keys
               PROVE  db'.row[k].revision <= d /\ db'.row[k].fence <= d
    OBVIOUS
  <2>1. CASE db'.row[k] = db.row[k]
    BY <1>1, <1>3, <1>4, <2>1
  <2>2. CASE db'.row[k].revision = Top + 1 /\ db'.row[k].fence <= c
    BY <1>2, <1>3, <1>4, <2>2
  <2> QED
    BY <2>1, <2>2
<1>7. \A n \in Nodes : pass'[n].token <= d
  BY <1>1, <1>3, <1>5
<1> QED
  BY <1>3, <1>6, <1>7 DEF Bounded

(* A step that changes the pass of one node, and no table. *)
LEMMA PassStep ==
    ASSUME Inv, UNCHANGED <<db, reconciled>>,
           NEW n \in Nodes, NEW p \in Passes, PassSound(p),
           pass' = [pass EXCEPT ![n] = p],
           lag' \in [Nodes -> Seq(Tables)],
           \A m \in Nodes : \A i \in 1..Len(lag'[m]) :
              \E j \in 1..Len(lag[m]) : lag'[m][i] = lag[m][j],
           holder' \in Nodes \cup {None}, faults' \in Nat
    PROVE  Inv'
<1>1. TypeOK /\ Bounded
  BY DEF Inv
<1>2. TypeOK'
  BY <1>1 DEF TypeOK
<1>3. \A m \in Nodes : pass'[m] = IF m = n THEN p ELSE pass[m]
  BY <1>1 DEF TypeOK
<1>4. Bounded'
  <2>1. p.token \in Nat /\ p.token <= p.token
    BY DEF Passes
  <2>2. \A m \in Nodes : pass'[m].token = pass[m].token \/ pass'[m].token <= p.token
    BY <1>3, <2>1
  <2> QED
    BY <1>1, <1>2, <2>1, <2>2, BoundKept
<1>5. \A k \in Keys : reconciled'[k] >= reconciled[k]
  BY <1>1 DEF TypeOK
<1>6. PassSound(p)'
  BY <1>1, <1>2, <1>4, <1>5, PassKept DEF TablesStep
<1>7. \A m \in Nodes : pass'[m] = pass[m] \/ \E q \in Passes : pass'[m] = q /\ PassSound(q)'
  BY <1>3, <1>6
<1> QED
  BY <1>2, <1>4, <1>5, <1>7, StepInv DEF TablesStep

(* A step by which a pass ends. *)
LEMMA IdleStep ==
    ASSUME Inv, UNCHANGED <<db, lag, reconciled>>, NEW n \in Nodes,
           pass' = [pass EXCEPT ![n] = Idle],
           holder' \in Nodes \cup {None}, faults' \in Nat
    PROVE  Inv'
<1>1. Idle \in Passes /\ PassSound(Idle)
  BY DEF Idle, Passes, Places, PassSound
<1>2. lag' \in [Nodes -> Seq(Tables)]
  BY DEF Inv, TypeOK
<1> QED
  BY <1>1, <1>2, PassStep

-----------------------------------------------------------------------------
(* A write through the leader: every replica has yet to apply it. *)
LEMMA CommitEffect ==
    ASSUME TypeOK, NEW t \in Tables, Commit(t)
    PROVE  /\ db' = t
           /\ lag' \in [Nodes -> Seq(Tables)]
           /\ \A n \in Nodes : \A i \in 1..Len(lag'[n]) :
                 lag'[n][i] = db \/ \E j \in 1..Len(lag[n]) : lag'[n][i] = lag[n][j]
<1>1. \A n \in Nodes : lag[n] \in Seq(Tables) /\ lag'[n] = Append(lag[n], db)
  BY DEF TypeOK, Commit
<1>2. db \in Tables /\ db' = t /\ lag' = [n \in Nodes |-> Append(lag[n], db)]
  BY DEF TypeOK, Commit
<1>3. ASSUME NEW n \in Nodes, NEW i \in 1..Len(lag'[n])
      PROVE  lag'[n][i] = db \/ \E j \in 1..Len(lag[n]) : lag'[n][i] = lag[n][j]
  <2>1. Len(lag'[n]) = Len(lag[n]) + 1
    BY <1>1, <1>2
  <2>2. CASE i = Len(lag[n]) + 1
    BY <1>1, <1>2, <2>2
  <2>3. CASE i # Len(lag[n]) + 1
    <3>1. i \in 1..Len(lag[n])
      BY <1>1, <2>1, <2>3
    <3>2. lag'[n][i] = lag[n][i]
      BY <1>1, <1>2, <3>1
    <3> QED
      BY <3>1, <3>2
  <2> QED
    BY <2>2, <2>3
<1>4. lag' \in [Nodes -> Seq(Tables)]
  BY <1>1, <1>2
<1> QED
  BY <1>2, <1>3, <1>4

LEMMA CommitRowEffect ==
    ASSUME TypeOK, Bounded, NEW k \in Keys, NEW spec \in Nat, NEW status \in Nat,
           NEW fence \in Nat, CommitRow(k, spec, status, fence)
    PROVE  /\ db' \in Tables /\ RowWritten(k) /\ TablesStep
           /\ db'.row[k].fence = fence
           /\ \A j \in Keys : \/ db'.row[j] = db.row[j]
                              \/ db'.row[j].revision = Top + 1 /\ db'.row[j].fence <= fence
           /\ lag' \in [Nodes -> Seq(Tables)]
           /\ \A n \in Nodes : \A i \in 1..Len(lag'[n]) :
                 lag'[n][i] = db \/ \E j \in 1..Len(lag[n]) : lag'[n][i] = lag[n][j]
<1> DEFINE new == [revision |-> Top + 1, spec |-> spec, status |-> status, fence |-> fence]
           t == [db EXCEPT !.row[k] = new]
<1>1. Top \in Nat
  BY TopIsLargest DEF TopLargest
<1>2. new \in Rows /\ new.revision = Top + 1 /\ new.fence = fence
  BY <1>1 DEF Rows
<1>3. db \in Tables /\ Commit(t)
  BY DEF TypeOK, CommitRow
<1> HIDE DEF new
<1>4. /\ t \in Tables /\ t.mark = db.mark /\ t.row[k] = new
      /\ \A j \in Keys \ {k} : t.row[j] = db.row[j]
  BY <1>2, <1>3 DEF Tables
<1> HIDE DEF t
<1>5. db' = t
  BY <1>3, <1>4, CommitEffect
<1>6. RowWritten(k)
  BY <1>2, <1>4, <1>5 DEF RowWritten
<1>7. \A j \in Keys : \/ db'.row[j] = db.row[j]
                      \/ db'.row[j].revision = Top + 1 /\ db'.row[j].fence <= fence
  BY <1>2, <1>4, <1>5
<1> QED
  BY <1>2, <1>3, <1>4, <1>5, <1>6, <1>7, CommitEffect DEF TablesStep

LEMMA WriteInv == ASSUME Inv, NEW k \in Keys, Write(k) PROVE Inv'
<1> DEFINE row == db.row[k]
<1>1. TypeOK /\ Bounded
  BY DEF Inv
<1>2. row.spec + 1 \in Nat /\ row.status \in Nat /\ row.fence \in Nat
  BY <1>1 DEF TypeOK, Tables, Rows
<1>3. /\ CommitRow(k, row.spec + 1, row.status, row.fence)
      /\ UNCHANGED <<holder, pass, reconciled, faults>>
  BY DEF Write
<1> HIDE DEF row
<1>4. /\ db' \in Tables /\ TablesStep
      /\ lag' \in [Nodes -> Seq(Tables)]
      /\ \A n \in Nodes : \A i \in 1..Len(lag'[n]) :
            lag'[n][i] = db \/ \E j \in 1..Len(lag[n]) : lag'[n][i] = lag[n][j]
      /\ \A j \in Keys : \/ db'.row[j] = db.row[j]
                         \/ db'.row[j].revision = Top + 1 /\ db'.row[j].fence <= row.fence
  BY <1>1, <1>2, <1>3, CommitRowEffect
<1>5. TypeOK'
  BY <1>1, <1>3, <1>4 DEF TypeOK
<1>6. Bounded'
  BY <1>1, <1>2, <1>3, <1>4, <1>5, BoundKept
<1>7. \A j \in Keys : reconciled'[j] >= reconciled[j]
  BY <1>1, <1>3 DEF TypeOK
<1> QED
  BY <1>3, <1>4, <1>5, <1>6, <1>7, StepInv

(* What is left of a sequence without its head. *)
LEMMA TailOf ==
    ASSUME NEW S, NEW s \in Seq(S), s # <<>>
    PROVE  /\ Tail(s) \in Seq(S) /\ Len(s) \in Nat /\ Len(s) > 0
           /\ Len(Tail(s)) = Len(s) - 1
           /\ \A i \in 1..Len(Tail(s)) : i + 1 \in 1..Len(s) /\ Tail(s)[i] = s[i + 1]
  OBVIOUS

LEMMA ApplyInv == ASSUME Inv, NEW n \in Nodes, Apply(n) PROVE Inv'
<1>1. TypeOK
  BY DEF Inv
<1>2. /\ lag[n] \in Seq(Tables) /\ lag[n] # <<>>
      /\ lag' = [lag EXCEPT ![n] = Tail(lag[n])]
      /\ UNCHANGED <<db, holder, pass, reconciled, faults>>
  BY <1>1 DEF TypeOK, Apply
<1>3. \A m \in Nodes : lag'[m] = IF m = n THEN Tail(lag[n]) ELSE lag[m]
  BY <1>1, <1>2 DEF TypeOK
<1>4. lag' \in [Nodes -> Seq(Tables)]
  BY <1>1, <1>2 DEF TypeOK
<1>5. ASSUME NEW m \in Nodes, NEW i \in 1..Len(lag'[m])
      PROVE  \E j \in 1..Len(lag[m]) : lag'[m][i] = lag[m][j]
  <2>1. CASE m # n
    BY <1>3, <2>1
  <2>2. CASE m = n
    <3>1. lag'[m] = Tail(lag[n])
      BY <1>3, <2>2
    <3>2. i + 1 \in 1..Len(lag[n]) /\ Tail(lag[n])[i] = lag[n][i + 1]
      BY <1>2, <3>1, TailOf
    <3> QED
      BY <2>2, <3>1, <3>2
  <2> QED
    BY <2>1, <2>2
<1>6. pass[n] \in Passes /\ PassSound(pass[n]) /\ pass' = [pass EXCEPT ![n] = pass[n]]
  BY <1>1, <1>2 DEF TypeOK, Inv
<1>7. holder' \in Nodes \cup {None} /\ faults' \in Nat
  BY <1>1, <1>2 DEF TypeOK
<1>8. PICK p \in Passes : p = pass[n]
  BY <1>6
<1> QED
  BY <1>2, <1>4, <1>5, <1>6, <1>7, <1>8, PassStep

LEMMA AcquireInv == ASSUME Inv, NEW n \in Nodes, Acquire(n) PROVE Inv'
<1>1. TypeOK /\ Bounded
  BY DEF Inv
<1> DEFINE token == NextToken
           p == [Idle EXCEPT !.pc = "read", !.token = token]
<1>2. token \in Nat
  BY <1>1, NextTokenType
<1>3. pass' = [pass EXCEPT ![n] = p] /\ holder' = n /\ UNCHANGED <<db, lag, reconciled>>
  BY DEF Acquire
<1>4. faults' \in Nat
  BY <1>1 DEF Acquire, Fault, TypeOK
<1> HIDE DEF token
<1>5. Idle \in Passes
  BY DEF Idle, Passes, Places
<1>6. p \in Passes /\ PassSound(p)
  <2>1. p \in Passes
    BY <1>2, <1>5 DEF Passes, Places
  <2>2. p.pc = "read"
    BY <1>5 DEF Passes
  <2> QED
    BY <2>1, <2>2 DEF PassSound
<1>7. lag' \in [Nodes -> Seq(Tables)]
  BY <1>1, <1>3 DEF TypeOK
<1> HIDE DEF p
<1> QED
  BY <1>3, <1>4, <1>6, <1>7, PassStep

-----------------------------------------------------------------------------
(* What a node's queries read. *)
LEMMA LocalIsPast ==
    ASSUME Inv, NEW n \in Nodes
    PROVE  Local(n) \in Tables /\ (Local(n) = db \/ Behind(Local(n)))
<1>1. TypeOK
  BY DEF Inv
<1>2. CASE lag[n] = <<>>
  BY <1>1, <1>2 DEF TypeOK, Local
<1>3. CASE lag[n] # <<>>
  <2>1. lag[n] \in Seq(Tables)
    BY <1>1 DEF TypeOK
  <2>2. 1 \in 1..Len(lag[n]) /\ lag[n][1] \in Tables
    BY <1>3, <2>1
  <2>3. Behind(lag[n][1])
    BY <2>2 DEF Inv
  <2>4. Local(n) = lag[n][1]
    BY <1>3 DEF Local
  <2> QED
    BY <2>2, <2>3, <2>4
<1> QED
  BY <1>2, <1>3

(* A mark that a node reads is sound: no replica is ahead of the leader. *)
LEMMA LocalMark ==
    ASSUME Inv, NEW n \in Nodes
    PROVE  Local(n).mark \in Nat /\ Sound(Local(n).mark)
<1> DEFINE t == Local(n)
<1>1. t \in Tables /\ (t = db \/ Behind(t))
  BY LocalIsPast
<1> HIDE DEF t
<1>2. TypeOK /\ Bounded /\ Sound(db.mark)
  BY DEF Inv
<1>3. t.mark \in Nat /\ db.mark \in Nat /\ t.mark <= db.mark
  BY <1>1, <1>2 DEF Tables, TypeOK, Behind
<1>4. Top \in Nat /\ \A k \in Keys : db.row[k].revision \in Nat
  BY <1>2, TopIsLargest DEF TopLargest
<1>5. t.mark <= Top
  BY <1>2, <1>3, <1>4 DEF Sound
<1>6. Covered(t.mark)
  <2> SUFFICES ASSUME NEW k \in Watched, db.row[k].revision <= t.mark
               PROVE  reconciled[k] >= db.row[k].revision
    BY DEF Covered
  <2>1. db.row[k].revision <= db.mark
    BY <1>3, <1>4, ConstantsOK DEF ConstantsOK
  <2> QED
    BY <1>2, <2>1 DEF Sound, Covered
<1> QED
  BY <1>3, <1>5, <1>6 DEF Sound, t

(* A batch scanned above a sound mark, from whatever replica, is sound: of what
   stands no higher than one of its changes, the replica knows everything. *)
LEMMA ScannedBatch ==
    ASSUME Inv, NEW t \in Tables, t = db \/ Behind(t), NEW m \in Nat, Sound(m),
           NEW b \in ChangesSince(t, m), b # <<>>
    PROVE  b \in Seq(Changes) /\ BatchSound(b)
<1> DEFINE rows == Above(t, m)
           Row(k) == [key |-> k, revision |-> t.row[k].revision, spec |-> t.row[k].spec]
<1>1. TypeOK /\ Bounded
  BY DEF Inv
<1>2. /\ Top \in Nat
      /\ \A k \in Keys : db.row[k].revision \in Nat /\ db.row[k].revision <= Top
  BY <1>1, TopIsLargest DEF TopLargest
<1>3. \A k \in Keys : t.row[k].revision \in Nat /\ t.row[k].spec \in Nat
  BY DEF Tables, Rows
<1>4. ASSUME NEW r \in rows
      PROVE  r \in Changes /\ r.key \in Watched /\ r.revision = t.row[r.key].revision
  BY <1>3, ConstantsOK DEF Above, Changes, ConstantsOK
<1>5. \A k \in Watched : t.row[k].revision > m => Row(k) \in rows
  BY DEF Above
<1>6. PICK len \in 0..BatchSize : b \in [1..len -> rows]
  BY DEF ChangesSince, Batches
<1>7. /\ \A i, j \in DOMAIN b : i < j => b[i].revision < b[j].revision
      /\ \A r \in rows : \/ \E i \in DOMAIN b : b[i] = r
                         \/ \A i \in DOMAIN b : b[i].revision < r.revision
  BY DEF ChangesSince
<1> HIDE DEF rows
<1>8. len \in Nat
  BY <1>6, ConstantsOK DEF ConstantsOK
<1>9. b \in Seq(Changes) /\ Len(b) = len /\ DOMAIN b = 1..Len(b)
  BY <1>4, <1>6, <1>8
<1>10. ASSUME NEW i \in 1..Len(b)
       PROVE  /\ b[i].revision \in Nat /\ b[i].revision <= Top
              /\ \A k \in Watched :
                    db.row[k].revision <= b[i].revision =>
                        \/ reconciled[k] >= db.row[k].revision
                        \/ \E j \in 1..Len(b) :
                              b[j].key = k /\ b[j].revision = db.row[k].revision
  <2> DEFINE key == b[i].key
  <2>1. b[i] \in rows
    BY <1>6, <1>9
  <2>2. key \in Watched /\ key \in Keys /\ b[i].revision = t.row[key].revision
    BY <1>4, <2>1, ConstantsOK DEF ConstantsOK
  <2> HIDE DEF key
  <2>3. b[i].revision \in Nat /\ b[i].revision <= Top
    BY <1>2, <1>3, <2>2 DEF Behind
  <2>4. ASSUME NEW k \in Watched, db.row[k].revision <= b[i].revision
        PROVE  \/ reconciled[k] >= db.row[k].revision
               \/ \E j \in 1..Len(b) :
                     b[j].key = k /\ b[j].revision = db.row[k].revision
    <3>1. k \in Keys
      BY ConstantsOK DEF ConstantsOK
    <3>2. t.row[k].revision = db.row[k].revision
      BY <2>2, <2>4, <3>1 DEF Behind
    <3>3. CASE db.row[k].revision <= m
      BY <3>3 DEF Sound, Covered
    <3>4. CASE ~(db.row[k].revision <= m)
      <4>1. Row(k) \in rows /\ Row(k).revision = db.row[k].revision /\ Row(k).key = k
        BY <1>2, <1>5, <3>1, <3>2, <3>4
      <4> HIDE DEF Row
      <4>2. CASE \E j \in DOMAIN b : b[j] = Row(k)
        BY <1>9, <4>1, <4>2
      <4>3. CASE \A j \in DOMAIN b : b[j].revision < Row(k).revision
        <5>1. b[i].revision < db.row[k].revision
          BY <1>9, <4>1, <4>3
        <5> QED
          BY <1>2, <2>3, <2>4, <3>1, <5>1
      <4> QED
        BY <1>7, <4>1, <4>2, <4>3
    <3> QED
      BY <3>3, <3>4
  <2> QED
    BY <2>3, <2>4
<1> QED
  BY <1>7, <1>9, <1>10 DEF BatchSound

-----------------------------------------------------------------------------
LEMMA LeaveInv ==
    ASSUME Inv, NEW n \in Nodes, Leave(n), UNCHANGED <<db, lag, reconciled>>, faults' \in Nat
    PROVE  Inv'
<1>1. pass' = [pass EXCEPT ![n] = Idle] /\ holder' \in Nodes \cup {None}
  BY DEF Leave, Inv, TypeOK
<1> QED
  BY <1>1, IdleStep

LEMMA ReadWatermarkInv == ASSUME Inv, NEW n \in Nodes, ReadWatermark(n) PROVE Inv'
<1> DEFINE m == Local(n).mark
           p == [pass[n] EXCEPT !.pc = "scan", !.mark = m]
<1>1. TypeOK /\ pass[n] \in Passes
  BY DEF Inv, TypeOK
<1>2. m \in Nat /\ Sound(m)
  BY LocalMark
<1>3. UNCHANGED <<db, lag, holder, reconciled, faults>>
  BY DEF ReadWatermark
<1>4. pass' = [pass EXCEPT ![n] = p]
  BY <1>1 DEF ReadWatermark, TypeOK
<1>5. /\ lag' \in [Nodes -> Seq(Tables)]
      /\ holder' \in Nodes \cup {None} /\ faults' \in Nat
  BY <1>1, <1>3 DEF TypeOK
<1> HIDE DEF m
<1>6. p \in Passes /\ p.pc = "scan" /\ p.mark = m
  BY <1>1, <1>2 DEF Passes, Places
<1>7. PassSound(p)
  BY <1>2, <1>6 DEF PassSound
<1> HIDE DEF p
<1> QED
  BY <1>3, <1>4, <1>5, <1>6, <1>7, PassStep

LEMMA ScanInv == ASSUME Inv, NEW n \in Nodes, Scan(n) PROVE Inv'
<1>1. TypeOK /\ pass[n] \in Passes /\ pass[n].pc = "scan"
  BY DEF Inv, TypeOK, Scan
<1>2. UNCHANGED <<db, lag, reconciled, faults>> /\ faults' \in Nat
  BY <1>1 DEF Scan, TypeOK
<1>3. PICK b \in ChangesSince(Local(n), pass[n].mark) :
         IF b = <<>> THEN Leave(n)
         ELSE /\ pass' = [pass EXCEPT ![n].pc = "reconcile",
                                      ![n].batch = b, ![n].processed = 0]
              /\ UNCHANGED holder
  BY DEF Scan
<1>4. CASE b = <<>>
  BY <1>2, <1>3, <1>4, LeaveInv
<1>5. CASE b # <<>>
  <2> DEFINE p == [pass[n] EXCEPT !.pc = "reconcile", !.batch = b, !.processed = 0]
  <2>1. pass[n].mark \in Nat /\ Sound(pass[n].mark)
    BY <1>1 DEF Inv, PassSound, Passes
  <2>2. b \in Seq(Changes) /\ BatchSound(b)
    BY <1>5, <2>1, LocalIsPast, ScannedBatch
  <2>3. pass' = [pass EXCEPT ![n] = p]
    BY <1>1, <1>3, <1>5 DEF TypeOK
  <2>4. /\ p \in Passes
        /\ p.pc = "reconcile" /\ p.batch = b /\ p.processed = 0
    BY <1>1, <2>2 DEF Passes, Places
  <2>5. Sound(0)
    <3>1. /\ Top \in Nat
          /\ \A k \in Keys : db.row[k].revision \in Nat /\ reconciled[k] \in Nat
      BY <1>1, TopIsLargest DEF TopLargest, TypeOK, Inv
    <3> QED
      BY <3>1, ConstantsOK DEF Sound, Covered, ConstantsOK
  <2>6. PassSound(p)
    BY <2>2, <2>4, <2>5 DEF PassSound
  <2>7. lag' \in [Nodes -> Seq(Tables)] /\ holder' \in Nodes \cup {None}
    BY <1>1, <1>2, <1>3, <1>5 DEF TypeOK
  <2> HIDE DEF p
  <2> QED
    BY <1>2, <2>3, <2>4, <2>6, <2>7, PassStep
<1> QED
  BY <1>4, <1>5

(* The head of a sound batch done, the mark may move to it: what stands no higher
   is reconciled, or is the head itself.  What is left of the batch is sound. *)
TailsSound ==
    \A b \in Seq(Changes) :
        BatchSound(b) /\ reconciled[b[1].key] >= b[1].revision =>
            Sound(b[1].revision) /\ (Tail(b) # <<>> => BatchSound(Tail(b)))

LEMMA TailIsSound == TypeOK /\ Bounded => TailsSound
<1> SUFFICES ASSUME TypeOK, Bounded, NEW b \in Seq(Changes), BatchSound(b),
                    reconciled[b[1].key] >= b[1].revision
             PROVE  Sound(b[1].revision) /\ (Tail(b) # <<>> => BatchSound(Tail(b)))
  BY DEF TailsSound
<1> DEFINE s == Tail(b)
<1>1. /\ b # <<>>
      /\ \A i, j \in 1..Len(b) : i < j => b[i].revision < b[j].revision
      /\ \A i \in 1..Len(b) :
            /\ b[i].revision <= Top
            /\ \A k \in Watched :
                  db.row[k].revision <= b[i].revision =>
                      \/ reconciled[k] >= db.row[k].revision
                      \/ \E j \in 1..Len(b) :
                            b[j].key = k /\ b[j].revision = db.row[k].revision
  BY DEF BatchSound
<1>2. /\ s \in Seq(Changes) /\ Len(b) \in Nat /\ Len(b) > 0 /\ Len(s) = Len(b) - 1
      /\ \A i \in 1..Len(s) : i + 1 \in 1..Len(b) /\ s[i] = b[i + 1]
  BY <1>1, TailOf
<1>3. \A i \in 1..Len(b) : b[i].revision \in Nat
  <2>1. \A i \in 1..Len(b) : b[i] \in Changes
    OBVIOUS
  <2> QED
    BY <2>1 DEF Changes
<1> HIDE DEF s
<1>4. ASSUME NEW k \in Watched, NEW j \in 1..Len(b), b[j].key = k,
             b[j].revision = db.row[k].revision
      PROVE  reconciled[k] >= db.row[k].revision \/ j # 1
  BY <1>4
<1>5. Sound(b[1].revision)
  <2>1. 1 \in 1..Len(b)
    BY <1>2
  <2>2. ASSUME NEW k \in Watched, db.row[k].revision <= b[1].revision
        PROVE  reconciled[k] >= db.row[k].revision
    <3>1. CASE \E j \in 1..Len(b) : b[j].key = k /\ b[j].revision = db.row[k].revision
      <4>1. PICK j \in 1..Len(b) : b[j].key = k /\ b[j].revision = db.row[k].revision
        BY <3>1
      <4>2. b[j].revision <= b[1].revision /\ b[j].revision \in Nat /\ b[1].revision \in Nat
        BY <1>3, <2>1, <2>2, <4>1
      <4>3. ~(1 < j)
        BY <1>1, <2>1, <4>2
      <4>4. j = 1
        BY <1>2, <4>3
      <4> QED
        BY <1>4, <4>1, <4>4
    <3> QED
      BY <1>1, <2>1, <2>2, <3>1
  <2> QED
    BY <1>1, <2>1, <2>2 DEF Sound, Covered
<1>6. ASSUME s # <<>> PROVE BatchSound(s)
  <2>1. \A i, j \in 1..Len(s) : i < j => s[i].revision < s[j].revision
    BY <1>1, <1>2
  <2>2. ASSUME NEW i \in 1..Len(s), NEW k \in Watched, db.row[k].revision <= s[i].revision
        PROVE  \/ reconciled[k] >= db.row[k].revision
               \/ \E j \in 1..Len(s) : s[j].key = k /\ s[j].revision = db.row[k].revision
    <3>1. CASE \E j \in 1..Len(b) : b[j].key = k /\ b[j].revision = db.row[k].revision
      <4>1. PICK j \in 1..Len(b) : b[j].key = k /\ b[j].revision = db.row[k].revision
        BY <3>1
      <4>2. CASE j = 1
        BY <1>4, <4>1, <4>2
      <4>3. CASE j # 1
        <5>1. j - 1 \in 1..Len(s) /\ (j - 1) + 1 = j
          BY <1>2, <4>3
        <5>2. s[j - 1] = b[j]
          BY <1>2, <5>1
        <5> QED
          BY <4>1, <5>1, <5>2
      <4> QED
        BY <4>2, <4>3
    <3> QED
      BY <1>1, <1>2, <2>2, <3>1
  <2>3. \A i \in 1..Len(s) : s[i].revision <= Top
    BY <1>1, <1>2
  <2> QED
    BY <1>6, <2>1, <2>2, <2>3 DEF BatchSound
<1> QED
  BY <1>5, <1>6 DEF s

-----------------------------------------------------------------------------
(* A reconcile that is complete: the head of the batch goes, and what it brought
   is reconciled. *)
LEMMA ProcessedEffect ==
    ASSUME TypeOK, NEW n \in Nodes, pass[n].batch # <<>>, Processed(n)
    PROVE  /\ pass' \in [Nodes -> Passes]
           /\ \A m \in Nodes : /\ pass'[m].token = pass[m].token
                               /\ m # n => pass'[m] = pass[m]
           /\ pass'[n].pc = IF Tail(pass[n].batch) = <<>> THEN "mark" ELSE "reconcile"
           /\ pass'[n].batch = Tail(pass[n].batch)
           /\ pass'[n].processed = Change(n).revision
           /\ reconciled' \in [Keys -> Nat]
           /\ \A k \in Keys : reconciled'[k] >= reconciled[k]
           /\ reconciled'[Change(n).key] >= Change(n).revision
<1> DEFINE c == Change(n)
           s == Tail(pass[n].batch)
           p == [pass[n] EXCEPT !.pc = IF s = <<>> THEN "mark" ELSE "reconcile",
                                !.batch = s, !.processed = c.revision]
           r == Max({reconciled[c.key], c.revision})
<1>1. pass[n] \in Passes /\ pass[n].batch \in Seq(Changes)
  BY DEF TypeOK, Passes
<1>2. c \in Changes /\ s \in Seq(Changes)
  <2>1. 1 \in 1..Len(pass[n].batch)
    BY <1>1
  <2>2. pass[n].batch[1] \in Changes
    BY <1>1, <2>1
  <2> QED
    BY <1>1, <2>2, TailOf DEF Change
<1>3. c.key \in Keys /\ c.revision \in Nat
  BY <1>2, ConstantsOK DEF Changes, ConstantsOK
<1>4. pass' = [pass EXCEPT ![n] = p]
  BY DEF Processed, TypeOK
<1>5. reconciled' = [reconciled EXCEPT ![c.key] = r]
  BY DEF Processed
<1>6. r \in Nat /\ r >= reconciled[c.key] /\ r >= c.revision
  BY <1>3, MaxOfTwo DEF TypeOK
<1>7. p \in Passes /\ p.token = pass[n].token /\ p.batch = s /\ p.processed = c.revision
      /\ p.pc = IF s = <<>> THEN "mark" ELSE "reconcile"
  BY <1>1, <1>2, <1>3 DEF Passes, Places
<1> HIDE DEF p, r, c, s
<1>8. pass' \in [Nodes -> Passes] /\ \A m \in Nodes : pass'[m] = IF m = n THEN p ELSE pass[m]
  BY <1>4, <1>7 DEF TypeOK
<1>9. reconciled' \in [Keys -> Nat] /\ reconciled'[c.key] = r
      /\ \A k \in Keys : reconciled'[k] >= reconciled[k]
  BY <1>3, <1>5, <1>6 DEF TypeOK
<1>10. \A m \in Nodes : pass'[m].token = pass[m].token /\ (m # n => pass'[m] = pass[m])
  BY <1>7, <1>8
<1> QED
  BY <1>6, <1>7, <1>8, <1>9, <1>10 DEF c, s

(* So it keeps the invariant, with or without a write to the tables. *)
LEMMA ProcessedInv ==
    ASSUME Inv, NEW n \in Nodes, pass[n].pc \in {"reconcile", "write"}, Processed(n),
           TablesStep, db' \in Tables, NEW f \in Nat,
           \A k \in Keys : \/ db'.row[k] = db.row[k]
                           \/ db'.row[k].revision = Top + 1 /\ db'.row[k].fence <= f,
           lag' \in [Nodes -> Seq(Tables)],
           \A m \in Nodes : \A i \in 1..Len(lag'[m]) :
              lag'[m][i] = db \/ \E j \in 1..Len(lag[m]) : lag'[m][i] = lag[m][j],
           UNCHANGED <<holder, faults>>
    PROVE  Inv'
<1>1. TypeOK /\ Bounded /\ pass[n] \in Passes /\ PassSound(pass[n])
  BY DEF Inv, TypeOK
<1>2. PICK b \in Seq(Changes) : b = pass[n].batch
  BY <1>1 DEF Passes
<1>3. BatchSound(b) /\ b # <<>>
  BY <1>1, <1>2 DEF PassSound, BatchSound
<1>4. /\ pass' \in [Nodes -> Passes]
      /\ \A m \in Nodes : /\ pass'[m].token = pass[m].token
                          /\ m # n => pass'[m] = pass[m]
      /\ pass'[n].pc = IF Tail(b) = <<>> THEN "mark" ELSE "reconcile"
      /\ pass'[n].batch = Tail(b)
      /\ pass'[n].processed = b[1].revision
      /\ reconciled' \in [Keys -> Nat]
      /\ \A k \in Keys : reconciled'[k] >= reconciled[k]
      /\ reconciled'[b[1].key] >= b[1].revision
  BY <1>1, <1>2, <1>3, ProcessedEffect DEF Change
<1>5. TypeOK'
  BY <1>1, <1>4 DEF TypeOK
<1>6. Bounded'
  BY <1>1, <1>4, <1>5, BoundKept
<1>7. BatchSound(b)'
  BY <1>1, <1>3, <1>4, <1>5, <1>6, BatchKept
<1>8. TailsSound'
  BY <1>5, <1>6, TailIsSound, PTL
<1>9. Sound(b[1].revision)' /\ (Tail(b) # <<>> => BatchSound(Tail(b))')
  BY <1>4, <1>7, <1>8 DEF TailsSound
<1>10. PICK p \in Passes : pass'[n] = p
  BY <1>4
<1>11. PassSound(p)'
  BY <1>4, <1>9, <1>10 DEF PassSound
<1>12. \A m \in Nodes : pass'[m] = pass[m] \/ \E q \in Passes : pass'[m] = q /\ PassSound(q)'
  BY <1>4, <1>10, <1>11
<1> QED
  BY <1>4, <1>5, <1>6, <1>12, StepInv

LEMMA ReconcileInv == ASSUME Inv, NEW n \in Nodes, Reconcile(n) PROVE Inv'
<1> DEFINE row == db.row[Change(n).key]
<1>1. TypeOK /\ pass[n] \in Passes /\ PassSound(pass[n]) /\ pass[n].pc = "reconcile"
  BY DEF Inv, TypeOK, Reconcile
<1>2. UNCHANGED <<db, lag, faults>> /\ faults' \in Nat
  BY <1>1 DEF Reconcile, TypeOK
<1>3. lag' \in [Nodes -> Seq(Tables)] /\ db' \in Tables
  BY <1>1, <1>2 DEF TypeOK
<1>4. CASE Leave(n) /\ UNCHANGED reconciled
  BY <1>2, <1>4, LeaveInv
<1>5. CASE Processed(n) /\ UNCHANGED holder
  <2>1. 0 \in Nat
    OBVIOUS
  <2> QED
    BY <1>1, <1>2, <1>3, <1>5, <2>1, ProcessedInv DEF TablesStep
<1>6. CASE pass' = [pass EXCEPT ![n].pc = "write"] /\ UNCHANGED <<holder, reconciled>>
  <2> DEFINE p == [pass[n] EXCEPT !.pc = "write"]
  <2>1. pass' = [pass EXCEPT ![n] = p]
    BY <1>6
  <2>2. /\ p \in Passes /\ p.pc = "write"
        /\ p.batch = pass[n].batch /\ p.processed = pass[n].processed
    BY <1>1 DEF Passes, Places
  <2>3. PassSound(p)
    BY <1>1, <2>2 DEF PassSound
  <2>4. holder' \in Nodes \cup {None}
    BY <1>1, <1>6 DEF TypeOK
  <2> HIDE DEF p
  <2> QED
    BY <1>2, <1>3, <1>6, <2>1, <2>2, <2>3, <2>4, PassStep
<1> QED
  BY <1>4, <1>5, <1>6 DEF Reconcile

LEMMA WriteStatusInv == ASSUME Inv, NEW n \in Nodes, WriteStatus(n) PROVE Inv'
<1> DEFINE c == Change(n)
           row == db.row[c.key]
<1>1. TypeOK /\ Bounded /\ pass[n] \in Passes /\ PassSound(pass[n]) /\ pass[n].pc = "write"
  BY DEF Inv, TypeOK, WriteStatus
<1>2. CASE FenceAllows(n)
  <2>1. /\ CommitRow(c.key, row.spec, c.spec, pass[n].token)
        /\ Processed(n) /\ UNCHANGED <<holder, faults>>
    BY <1>2 DEF WriteStatus
  <2>2. c \in Changes
    <3>1. pass[n].batch \in Seq(Changes) /\ pass[n].batch # <<>>
      BY <1>1 DEF Passes, PassSound, BatchSound
    <3>2. 1 \in 1..Len(pass[n].batch)
      BY <3>1
    <3> QED
      BY <3>1, <3>2 DEF Change
  <2>3. c.key \in Keys /\ c.spec \in Nat /\ pass[n].token \in Nat
    BY <1>1, <2>2, ConstantsOK DEF Changes, Passes, ConstantsOK
  <2>4. row.spec \in Nat
    BY <1>1, <2>3 DEF TypeOK, Tables, Rows
  <2> HIDE DEF c, row
  <2>5. /\ db' \in Tables /\ TablesStep
        /\ \A j \in Keys : \/ db'.row[j] = db.row[j]
                           \/ db'.row[j].revision = Top + 1 /\ db'.row[j].fence <= pass[n].token
        /\ lag' \in [Nodes -> Seq(Tables)]
        /\ \A m \in Nodes : \A i \in 1..Len(lag'[m]) :
              lag'[m][i] = db \/ \E j \in 1..Len(lag[m]) : lag'[m][i] = lag[m][j]
    BY <1>1, <2>1, <2>3, <2>4, CommitRowEffect
  <2> QED
    BY <1>1, <2>1, <2>3, <2>5, ProcessedInv
<1>3. CASE ~FenceAllows(n)
  <2>1. Leave(n) /\ UNCHANGED <<db, lag, reconciled, faults>>
    BY <1>3 DEF WriteStatus
  <2>2. faults' \in Nat
    BY <1>1, <2>1 DEF TypeOK
  <2> QED
    BY <2>1, <2>2, LeaveInv
<1> QED
  BY <1>2, <1>3

LEMMA WriteWatermarkInv == ASSUME Inv, NEW n \in Nodes, WriteWatermark(n) PROVE Inv'
<1> DEFINE m == pass[n].processed
           p == [pass[n] EXCEPT !.pc = "scan", !.mark = m]
           t == [db EXCEPT !.mark = m]
<1>1. /\ TypeOK /\ Bounded /\ pass[n] \in Passes /\ PassSound(pass[n])
      /\ pass[n].pc = "mark"
  BY DEF Inv, TypeOK, WriteWatermark
<1>2. m \in Nat /\ Sound(m)
  BY <1>1 DEF Passes, PassSound
<1>3. /\ pass' = [pass EXCEPT ![n] = p] /\ UNCHANGED <<holder, reconciled, faults>>
  BY DEF WriteWatermark
<1>4. (MarkAdvances(n) /\ Commit(t)) \/ UNCHANGED <<db, lag>>
  BY DEF WriteWatermark
<1>5. MarkAdvances(n) <=> db.mark < m
  BY DEF MarkAdvances
<1> HIDE DEF m
<1>6. p \in Passes /\ p.pc = "scan" /\ p.mark = m /\ p.token = pass[n].token
  BY <1>1, <1>2 DEF Passes, Places
<1>7. PassSound(p)
  BY <1>2, <1>6 DEF PassSound
<1> HIDE DEF p
<1>8. \A k \in Keys : reconciled'[k] >= reconciled[k]
  BY <1>1, <1>3 DEF TypeOK
<1>9. ASSUME MarkAdvances(n), Commit(t) PROVE Inv'
  <2>1. t \in Tables /\ t.mark = m /\ t.row = db.row /\ db.mark \in Nat
    BY <1>1, <1>2 DEF TypeOK, Tables
  <2> HIDE DEF t
  <2>2. /\ db' = t /\ lag' \in [Nodes -> Seq(Tables)]
        /\ \A i \in Nodes : \A j \in 1..Len(lag'[i]) :
              lag'[i][j] = db \/ \E l \in 1..Len(lag[i]) : lag'[i][j] = lag[i][l]
    BY <1>1, <1>9, <2>1, CommitEffect
  <2>3. TablesStep
    BY <1>2, <1>5, <1>9, <2>1, <2>2 DEF TablesStep, Marked
  <2>4. pass' \in [Nodes -> Passes] /\ \A i \in Nodes : pass'[i] = IF i = n THEN p ELSE pass[i]
    BY <1>1, <1>3, <1>6 DEF TypeOK
  <2>5. TypeOK'
    BY <1>1, <1>3, <2>1, <2>2, <2>4 DEF TypeOK
  <2>6. \A i \in Nodes : pass'[i].token = pass[i].token
    BY <1>6, <2>4
  <2>7. Bounded'
    <3>1. 0 \in Nat /\ \A k \in Keys : db'.row[k] = db.row[k]
      BY <2>1, <2>2
    <3> QED
      BY <1>1, <2>5, <2>6, <3>1, BoundKept
  <2>8. PICK r \in Passes : r = p /\ PassSound(r)
    BY <1>6, <1>7
  <2>9. PassSound(r)'
    BY <1>1, <1>8, <2>3, <2>5, <2>7, <2>8, PassKept
  <2>10. \A i \in Nodes : pass'[i] = pass[i] \/ \E q \in Passes : pass'[i] = q /\ PassSound(q)'
    BY <2>4, <2>8, <2>9
  <2> QED
    BY <1>8, <2>2, <2>3, <2>5, <2>7, <2>10, StepInv
<1>10. ASSUME UNCHANGED <<db, lag>> PROVE Inv'
  <2>1. /\ lag' \in [Nodes -> Seq(Tables)]
        /\ holder' \in Nodes \cup {None} /\ faults' \in Nat
    BY <1>1, <1>3, <1>10 DEF TypeOK
  <2> QED
    BY <1>3, <1>6, <1>7, <1>10, <2>1, PassStep
<1> QED
  BY <1>4, <1>9, <1>10

LEMMA DeadlineInv == ASSUME Inv, NEW n \in Nodes, Deadline(n) PROVE Inv'
<1>1. TypeOK /\ pass[n] \in Passes /\ PassSound(pass[n])
  BY DEF Inv, TypeOK
<1>2. UNCHANGED <<db, lag, reconciled>> /\ faults' \in Nat
  BY <1>1 DEF Deadline, Fault, TypeOK
<1>3. CASE Leave(n)
  BY <1>2, <1>3, LeaveInv
<1>4. CASE /\ pass[n].pc = "reconcile"
           /\ pass' = [pass EXCEPT ![n].pc = "mark"] /\ UNCHANGED holder
  <2> DEFINE p == [pass[n] EXCEPT !.pc = "mark"]
  <2>1. pass' = [pass EXCEPT ![n] = p]
    BY <1>4
  <2>2. p \in Passes /\ p.pc = "mark" /\ p.processed = pass[n].processed
    BY <1>1 DEF Passes, Places
  <2>3. PassSound(p)
    BY <1>1, <1>4, <2>2 DEF PassSound
  <2>4. lag' \in [Nodes -> Seq(Tables)] /\ holder' \in Nodes \cup {None}
    BY <1>1, <1>2, <1>4 DEF TypeOK
  <2> HIDE DEF p
  <2> QED
    BY <1>2, <2>1, <2>2, <2>3, <2>4, PassStep
<1> QED
  BY <1>3, <1>4 DEF Deadline

LEMMA ThrowInv == ASSUME Inv, NEW n \in Nodes, Throw(n) PROVE Inv'
<1>1. Leave(n) /\ UNCHANGED <<db, lag, reconciled>> /\ faults' \in Nat
  BY DEF Throw, Fault, Inv, TypeOK
<1> QED
  BY <1>1, LeaveInv

LEMMA CrashInv == ASSUME Inv, NEW n \in Nodes, Crash(n) PROVE Inv'
<1>1. /\ pass' = [pass EXCEPT ![n] = Idle] /\ UNCHANGED <<db, lag, reconciled>>
      /\ holder' \in Nodes \cup {None} /\ faults' \in Nat
  BY DEF Crash, Fault, Inv, TypeOK
<1> QED
  BY <1>1, IdleStep

LEMMA LapseInv == ASSUME Inv, Lapse PROVE Inv'
<1> DEFINE n == holder
           p == pass[n]
<1>1. TypeOK
  BY DEF Inv
<1>2. n \in Nodes /\ UNCHANGED <<db, lag, pass, reconciled>>
      /\ holder' \in Nodes \cup {None} /\ faults' \in Nat
  BY <1>1 DEF Lapse, Fault, TypeOK
<1>3. p \in Passes /\ PassSound(p) /\ pass' = [pass EXCEPT ![n] = p]
  BY <1>1, <1>2 DEF Inv, TypeOK
<1>4. lag' \in [Nodes -> Seq(Tables)]
  BY <1>1, <1>2 DEF TypeOK
<1>5. \A m \in Nodes : \A i \in 1..Len(lag'[m]) : \E j \in 1..Len(lag[m]) : lag'[m][i] = lag[m][j]
  BY <1>2
<1> HIDE DEF n, p
<1> QED
  BY <1>2, <1>3, <1>4, <1>5, PassStep

-----------------------------------------------------------------------------
(* Every step keeps the invariant. *)
LEMMA NextInv == Inv /\ [Next]_vars => Inv'
<1> SUFFICES ASSUME Inv, [Next]_vars PROVE Inv'
  OBVIOUS
<1>1. CASE UNCHANGED vars
  <2>1. TypeOK /\ Bounded
    BY DEF Inv
  <2>2. TypeOK' /\ UNCHANGED <<db, lag, pass, reconciled>>
    BY <1>1, <2>1 DEF vars, TypeOK
  <2>3. Bounded'
    BY <2>1, <2>2 DEF Bounded
  <2>4. \A k \in Keys : reconciled'[k] >= reconciled[k]
    BY <2>1, <2>2 DEF TypeOK
  <2> QED
    BY <2>2, <2>3, <2>4, StepInv DEF TablesStep
<1>2. ASSUME NEW k \in Keys, Write(k) PROVE Inv'
  BY <1>2, WriteInv
<1>3. ASSUME NEW n \in Nodes, Apply(n) \/ Run(n) \/ Deadline(n) \/ Throw(n) \/ Crash(n)
      PROVE  Inv'
  BY <1>3, ApplyInv, AcquireInv, ReadWatermarkInv, ScanInv, ReconcileInv, WriteStatusInv,
     WriteWatermarkInv, DeadlineInv, ThrowInv, CrashInv DEF Run
<1>4. CASE Lapse
  BY <1>4, LapseInv
<1> QED
  BY <1>1, <1>2, <1>3, <1>4 DEF Next

(***************************************************************************)
(* The state space stays within its types, every replica is a past of the  *)
(* leader's tables, and every pass is on a sound mark: the watermark it    *)
(* reads and the one it is to write have nothing unreconciled below them.  *)
(***************************************************************************)
THEOREM Invariance == Spec => []Inv
<1> QED
  BY InitInv, NextInv, PTL DEF Spec

(***************************************************************************)
(* A watched row that stands at or below the durable watermark has been    *)
(* reconciled at that revision, for any number of nodes, resources and     *)
(* writes, batches of any size, replicas any number of entries behind and  *)
(* any number of lapses, crashes, throws and deadlines.                    *)
(***************************************************************************)
THEOREM NothingSkipped == Spec => []NoChangeSkipped
<1>1. Inv => NoChangeSkipped
  BY DEF Inv, Sound, Covered, NoChangeSkipped
<1> QED
  BY <1>1, Invariance, PTL

-----------------------------------------------------------------------------
(* What a step does to the tables: at most one row is written, at the next
   revision and under no lower a fence, and the mark is not taken back. *)
LEMMA TablesMove ==
    ASSUME Inv, [Next]_vars
    PROVE  /\ db'.mark >= db.mark
           /\ \/ db'.row = db.row
              \/ \E k \in Keys : RowWritten(k) /\ db'.row[k].fence >= db.row[k].fence
<1>1. TypeOK /\ Bounded /\ db.mark \in Nat
  BY DEF Inv, TypeOK, Tables
<1>2. CASE db' = db
  BY <1>1, <1>2
<1>3. ASSUME NEW k \in Keys, Write(k)
      PROVE  RowWritten(k) /\ db'.row[k].fence >= db.row[k].fence
  <2> DEFINE row == db.row[k]
  <2>1. row.spec + 1 \in Nat /\ row.status \in Nat /\ row.fence \in Nat
    BY <1>1 DEF TypeOK, Tables, Rows
  <2>2. CommitRow(k, row.spec + 1, row.status, row.fence)
    BY <1>3 DEF Write
  <2> HIDE DEF row
  <2>3. RowWritten(k) /\ db'.row[k].fence = row.fence
    BY <1>1, <2>1, <2>2, CommitRowEffect
  <2> QED
    BY <2>1, <2>3 DEF row
<1>4. ASSUME NEW n \in Nodes, WriteStatus(n), FenceAllows(n)
      PROVE  \E k \in Keys : RowWritten(k) /\ db'.row[k].fence >= db.row[k].fence
  <2> DEFINE c == Change(n)
             row == db.row[c.key]
  <2>1. CommitRow(c.key, row.spec, c.spec, pass[n].token) /\ row.fence <= pass[n].token
    BY <1>4 DEF WriteStatus, FenceAllows
  <2>2. pass[n] \in Passes /\ PassSound(pass[n]) /\ pass[n].pc = "write"
    BY <1>1, <1>4 DEF Inv, TypeOK, WriteStatus
  <2>3. pass[n].batch \in Seq(Changes) /\ pass[n].batch # <<>>
    BY <2>2 DEF Passes, PassSound, BatchSound
  <2>4. 1 \in 1..Len(pass[n].batch)
    BY <2>3
  <2>5. c \in Changes
    BY <2>3, <2>4 DEF Change
  <2>6. c.key \in Keys /\ c.spec \in Nat /\ pass[n].token \in Nat
    BY <2>2, <2>5, ConstantsOK DEF Changes, Passes, ConstantsOK
  <2>7. row.spec \in Nat /\ row.fence \in Nat
    BY <1>1, <2>6 DEF TypeOK, Tables, Rows
  <2> HIDE DEF c, row
  <2>8. RowWritten(c.key) /\ db'.row[c.key].fence = pass[n].token
    BY <1>1, <2>1, <2>6, <2>7, CommitRowEffect
  <2>9. db'.row[c.key].fence >= row.fence
    BY <2>1, <2>6, <2>7, <2>8
  <2> QED
    BY <2>6, <2>8, <2>9 DEF row
<1>5. ASSUME NEW n \in Nodes, WriteWatermark(n)
      PROVE  db'.row = db.row /\ db'.mark >= db.mark
  <2> DEFINE t == [db EXCEPT !.mark = pass[n].processed]
  <2>1. db' = db \/ (db.mark < pass[n].processed /\ db' = t)
    BY <1>5 DEF WriteWatermark, MarkAdvances, Commit
  <2>2. pass[n].processed \in Nat
    BY <1>1 DEF TypeOK, Passes
  <2>3. t.row = db.row /\ t.mark = pass[n].processed
    BY <1>1 DEF TypeOK, Tables
  <2> HIDE DEF t
  <2> QED
    BY <1>1, <2>1, <2>2, <2>3
<1>6. \/ db' = db
      \/ \E k \in Keys : Write(k)
      \/ \E n \in Nodes : \/ WriteStatus(n) /\ FenceAllows(n)
                          \/ WriteWatermark(n)
  BY DEF Next, Run, vars, Apply, Acquire, ReadWatermark, Scan, Reconcile, WriteStatus,
     Deadline, Throw, Crash, Lapse
<1> QED
  BY <1>1, <1>2, <1>3, <1>4, <1>5, <1>6 DEF RowWritten

(***************************************************************************)
(* The durable watermark never falls, whichever pass writes it last        *)
(* (controller.ts:85-94).                                                  *)
(***************************************************************************)
THEOREM WatermarkHolds == Spec => WatermarkNeverFalls
<1>1. Inv /\ [Next]_vars => [db'.mark >= db.mark]_vars
  BY TablesMove
<1> QED
  BY <1>1, Invariance, PTL DEF Spec, WatermarkNeverFalls

(***************************************************************************)
(* The writes of the controllers and of everyone else are writes of the    *)
(* versioned store: one row at a time, at the next revision, and never     *)
(* below the row's fence, even by a pass that outlived its lease.  Every   *)
(* other step of theirs is invisible to it.                                *)
(***************************************************************************)
THEOREM Implements == Spec => ImplementsStore
<1> DEFINE Entries == [k \in Keys |-> [revision |-> db.row[k].revision,
                                       fence    |-> db.row[k].fence]]
<1>1. Init => Store!Init
  <2> SUFFICES ASSUME Init PROVE Store!Init
    OBVIOUS
  <2>1. TypeOK /\ Bounded /\ \A k \in Keys : db.row[k].revision = 0 /\ db.row[k].fence = 0
    BY InitInv DEF Init, NoRow, Inv
  <2>2. Top = 0
    BY <2>1, TopIsLargest DEF TopLargest
  <2>3. Entries = [k \in Keys |-> [revision |-> 0, fence |-> 0]]
    BY <2>1
  <2> QED
    BY <2>2, <2>3 DEF Store!Init
<1>2. Inv /\ Inv' /\ [Next]_vars => [Store!Next]_(Store!vars)
  <2> SUFFICES ASSUME Inv, Inv', [Next]_vars
               PROVE  Store!Next \/ UNCHANGED Store!vars
    BY DEF Store!vars
  <2>1. TypeOK /\ Bounded /\ TypeOK' /\ Bounded'
    BY DEF Inv
  <2>2. CASE db'.row = db.row
    BY <2>2 DEF Store!vars, Top
  <2>3. ASSUME NEW k \in Keys, RowWritten(k), db'.row[k].fence >= db.row[k].fence
        PROVE  Store!Next
    <3>1. Top' = Top + 1
      BY <2>1, <2>3, TopMoves DEF TablesStep
    <3>2. Entries' \in [Keys -> [revision : Nat, fence : Nat]]
      <4>1. \A j \in Keys : db'.row[j].revision \in Nat /\ db'.row[j].fence \in Nat
        BY <2>1 DEF TypeOK, Tables, Rows
      <4> QED
        BY <4>1
    <3>3. Entries'[k].revision = Top' /\ Entries'[k].fence >= Entries[k].fence
      BY <2>3, <3>1 DEF RowWritten
    <3>4. \A j \in Keys \ {k} : Entries'[j] = Entries[j]
      BY <2>3 DEF RowWritten
    <3> QED
      BY <3>1, <3>2, <3>3, <3>4 DEF Store!Next, Store!Write
  <2> QED
    BY <2>2, <2>3, TablesMove
<1> QED
  BY <1>1, <1>2, Invariance, PTL DEF Spec, ImplementsStore, Store!Spec
=============================================================================
