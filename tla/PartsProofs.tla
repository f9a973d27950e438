----------------------------- MODULE PartsProofs -----------------------------
(***************************************************************************)
(* Machine-checked facts about the parts that MCParts puts in one graph,   *)
(* each of the part's own specification, for every value of its constants: *)
(* one section a part, with the inductive invariant its theorems rest on.  *)
(***************************************************************************)
EXTENDS MCParts, TLAPS, SequenceTheorems, FiniteSetTheorems

-----------------------------------------------------------------------------
(***************************************************************************)
(* Migrations.  The record is what took effect, without repetition; what a *)
(* runner holds for applied is on record; and a runner that was refused as *)
(* a rival's judges only on the ledger, where it reads the record again.   *)
(***************************************************************************)
(* The parts of the invariant, each kept by every action. *)
RunsShape ==
    /\ pc \in [Runners -> {"idle", "read", "apply", "judge", "ok", "thrown"}]
    /\ faulted \in [Runners -> BOOLEAN]
    /\ ledger \in BOOLEAN
    /\ declared \in Releases
    /\ applied \in Seq(Nat)

Taken(s) == {s[i] : i \in DOMAIN s}

OnRecord ==
    /\ recorded \subseteq UNION {declared[r] : r \in Runners}
    /\ recorded = Taken(applied)
    /\ already \in [Runners -> SUBSET recorded]

Judged == \A r \in Runners : pc[r] = "judge" => ledger

RunsInv == RunsShape /\ OnRecord /\ Judged /\ AppliedOnce /\ SuccessIsComplete

-----------------------------------------------------------------------------
(* What a new version adds to the record, and that it is not there twice. *)
LEMMA AppendTaken ==
    ASSUME NEW s \in Seq(Nat), NEW v \in Nat
    PROVE  Taken(Append(s, v)) = Taken(s) \cup {v}
<1>1. /\ DOMAIN Append(s, v) = 1..(Len(s) + 1) /\ DOMAIN s = 1..Len(s)
      /\ Append(s, v)[Len(s) + 1] = v
      /\ \A i \in 1..Len(s) : Append(s, v)[i] = s[i]
  OBVIOUS
<1>2. Len(s) \in Nat
  OBVIOUS
<1>3. 1..(Len(s) + 1) = (1..Len(s)) \cup {Len(s) + 1}
  BY <1>2
<1> QED
  BY <1>1, <1>3 DEF Taken

LEMMA AppendOnce ==
    ASSUME NEW s \in Seq(Nat), NEW v \in Nat, v \notin Taken(s),
           \A i, j \in DOMAIN s : s[i] = s[j] => i = j
    PROVE  \A i, j \in DOMAIN Append(s, v) :
               Append(s, v)[i] = Append(s, v)[j] => i = j
<1>1. /\ DOMAIN Append(s, v) = 1..(Len(s) + 1) /\ DOMAIN s = 1..Len(s)
      /\ Append(s, v)[Len(s) + 1] = v
      /\ \A i \in 1..Len(s) : Append(s, v)[i] = s[i]
  OBVIOUS
<1>2. Len(s) \in Nat
  OBVIOUS
<1>3. \A i \in 1..Len(s) : s[i] # v
  BY <1>1 DEF Taken
<1> QED
  BY <1>1, <1>2, <1>3

(* A release declares natural numbers. *)
LEMMA Versions ==
    ASSUME RunsShape, NEW r \in Runners
    PROVE  declared[r] \subseteq Nat
BY ConstantsOK DEF ConstantsOK, RunsShape

-----------------------------------------------------------------------------
LEMMA RunsInitInv == Init => RunsInv
<1> SUFFICES ASSUME Init PROVE RunsInv
  OBVIOUS
<1>1. RunsShape
  <2>1. ledger \in BOOLEAN
    BY Zenon DEF Init
  <2> QED
    BY <2>1 DEF Init, RunsShape
<1>2. OnRecord
  BY DEF Init, OnRecord, Taken
<1>3. Judged /\ AppliedOnce /\ SuccessIsComplete
  BY DEF Init, Judged, AppliedOnce, SuccessIsComplete
<1> QED
  BY <1>1, <1>2, <1>3 DEF RunsInv

(* A step that applies nothing: it moves one runner's place, and may let that
   runner read what is on record. *)
LEMMA RunsQuietInv ==
    ASSUME RunsInv, NEW r \in Runners, NEW place,
           place \in {"read", "apply", "judge", "ok", "thrown"},
           pc' = [pc EXCEPT ![r] = place],
           place = "judge" => ledger,
           place = "ok" => declared[r] \subseteq recorded,
           faulted' \in [Runners -> BOOLEAN],
           already' \in [Runners -> SUBSET recorded],
           UNCHANGED <<setting, recorded, applied>>
    PROVE  RunsInv'
<1> USE DEF setting
<1>1. RunsShape'
  <2>1. pc' \in [Runners -> {"idle", "read", "apply", "judge", "ok", "thrown"}]
    BY DEF RunsInv, RunsShape
  <2>2. ledger' \in BOOLEAN
    BY Zenon DEF RunsInv, RunsShape
  <2> QED
    BY <2>1, <2>2 DEF RunsInv, RunsShape
<1>2. OnRecord'
  BY DEF RunsInv, OnRecord, Taken
<1>3. \A q \in Runners : q # r => pc'[q] = pc[q]
  BY DEF RunsInv, RunsShape
<1>4. pc'[r] = place
  BY DEF RunsInv, RunsShape
<1>5. Judged'
  <2> SUFFICES ASSUME NEW q \in Runners, pc'[q] = "judge" PROVE ledger'
    BY DEF Judged
  <2>1. CASE q = r
    BY <2>1, <1>4
  <2>2. CASE q # r
    BY <2>2, <1>3 DEF RunsInv, Judged
  <2> QED
    BY <2>1, <2>2
<1>6. AppliedOnce'
  BY DEF RunsInv, AppliedOnce
<1>7. SuccessIsComplete'
  BY <1>3, <1>4 DEF RunsInv, SuccessIsComplete
<1> QED
  BY <1>1, <1>2, <1>5, <1>6, <1>7 DEF RunsInv

(* An exception that leaves the run and writes nothing. *)
LEMMA RunsErrorInv ==
    ASSUME RunsInv, NEW r \in Runners,
           pc' = [pc EXCEPT ![r] = OnError(r)],
           faulted' \in [Runners -> BOOLEAN],
           already' \in [Runners -> SUBSET recorded],
           UNCHANGED <<setting, recorded, applied>>
    PROVE  RunsInv'
<1>1. CASE ledger
  <2>1. OnError(r) = "judge"
    BY <1>1 DEF OnError
  <2>2. pc' = [pc EXCEPT ![r] = "judge"]
    BY <2>1
  <2> QED
    BY <1>1, <2>2, RunsQuietInv
<1>2. CASE ~ledger
  <2>1. OnError(r) = "thrown"
    BY <1>2 DEF OnError
  <2>2. pc' = [pc EXCEPT ![r] = "thrown"]
    BY <2>1
  <2> QED
    BY <2>2, RunsQuietInv
<1> QED
  BY <1>1, <1>2

(* The transaction that takes effect. *)
LEMMA RunsAppliedInv ==
    ASSUME RunsInv, NEW r \in Runners, NEW v \in declared[r], NotRecorded(v),
           recorded' = recorded \cup {v},
           applied' = Append(applied, v),
           already' = [already EXCEPT ![r] = @ \cup {v}],
           UNCHANGED <<setting, pc, faulted>>
    PROVE  RunsInv'
<1> USE DEF setting
<1>1. v \in Nat /\ applied \in Seq(Nat)
  BY Versions DEF RunsInv, RunsShape
<1>2. RunsShape'
  <2>1. ledger' \in BOOLEAN
    BY Zenon DEF RunsInv, RunsShape
  <2>2. applied' \in Seq(Nat)
    BY <1>1
  <2> QED
    BY <2>1, <2>2 DEF RunsInv, RunsShape
<1>3. OnRecord'
  <2>1. recorded' = Taken(applied')
    BY <1>1, AppendTaken DEF RunsInv, OnRecord
  <2>2. recorded' \subseteq UNION {declared'[q] : q \in Runners}
    BY DEF RunsInv, OnRecord
  <2>3. already' \in [Runners -> SUBSET recorded']
    BY DEF RunsInv, OnRecord
  <2> QED
    BY <2>1, <2>2, <2>3 DEF OnRecord, Taken
<1>4. Judged'
  BY DEF RunsInv, Judged
<1>5. AppliedOnce'
  <2>1. v \notin Taken(applied)
    BY DEF RunsInv, OnRecord, NotRecorded
  <2> QED
    BY <1>1, <2>1, AppendOnce DEF RunsInv, AppliedOnce
<1>6. SuccessIsComplete'
  BY DEF RunsInv, SuccessIsComplete
<1> QED
  BY <1>2, <1>3, <1>4, <1>5, <1>6 DEF RunsInv

-----------------------------------------------------------------------------
LEMMA RunsNextInv == RunsInv /\ [Next]_vars => RunsInv'
<1> SUFFICES ASSUME RunsInv, [Next]_vars PROVE RunsInv'
  OBVIOUS
<1>0. /\ already \in [Runners -> SUBSET recorded]
      /\ faulted \in [Runners -> BOOLEAN]
  BY DEF RunsInv, OnRecord, RunsShape
<1>1. ASSUME NEW r \in Runners, Begin(r) PROVE RunsInv'
  <2>1. faulted' \in [Runners -> BOOLEAN]
    BY <1>0, <1>1 DEF Begin
  <2> QED
    BY <1>0, <1>1, <2>1, RunsQuietInv DEF Begin, Goto
<1>2. ASSUME NEW r \in Runners, ReadApplied(r) PROVE RunsInv'
  <2>1. already' \in [Runners -> SUBSET recorded]
    BY <1>0, <1>2 DEF ReadApplied
  <2> QED
    BY <1>0, <1>2, <2>1, RunsQuietInv DEF ReadApplied, Goto
<1>3. ASSUME NEW r \in Runners, ApplyNext(r) PROVE RunsInv'
  <2>1. PICK v \in declared[r] :
          IF NotRecorded(v) /\ ~OutOfOrder(r, v)
          THEN /\ recorded' = recorded \cup {v}
               /\ applied' = Append(applied, v)
               /\ already' = [already EXCEPT ![r] = @ \cup {v}]
               /\ UNCHANGED pc
          ELSE /\ Goto(r, OnError(r))
               /\ UNCHANGED <<recorded, applied, already>>
    BY <1>3 DEF ApplyNext
  <2>2. UNCHANGED <<setting, faulted>>
    BY <1>3 DEF ApplyNext
  <2>3. CASE NotRecorded(v) /\ ~OutOfOrder(r, v)
    BY <2>1, <2>2, <2>3, RunsAppliedInv
  <2>4. CASE ~(NotRecorded(v) /\ ~OutOfOrder(r, v))
    <3>1. pc' = [pc EXCEPT ![r] = OnError(r)] /\ UNCHANGED <<recorded, applied, already>>
      BY <2>1, <2>4 DEF Goto
    <3> QED
      BY <1>0, <2>2, <3>1, RunsErrorInv
  <2> QED
    BY <2>3, <2>4
<1>4. ASSUME NEW r \in Runners, Finish(r) PROVE RunsInv'
  <2>1. declared[r] \subseteq recorded
    BY <1>0, <1>4 DEF Finish, Pending
  <2> QED
    BY <1>0, <1>4, <2>1, RunsQuietInv DEF Finish, Goto
<1>5. ASSUME NEW r \in Runners, Judge(r) PROVE RunsInv'
  <2>1. CASE AllRecorded(r)
    BY <1>0, <1>5, <2>1, RunsQuietInv DEF Judge, Goto, AllRecorded
  <2>2. CASE ~AllRecorded(r)
    BY <1>0, <1>5, <2>2, RunsQuietInv DEF Judge, Goto
  <2> QED
    BY <2>1, <2>2
<1>6. ASSUME NEW r \in Runners, StoreFault(r) PROVE RunsInv'
  <2>1. /\ faulted' \in [Runners -> BOOLEAN]
        /\ UNCHANGED <<setting, recorded, already, applied>>
    BY <1>0, <1>6 DEF StoreFault
  <2>2. CASE Goto(r, "thrown")
    BY <1>0, <2>1, <2>2, RunsQuietInv DEF Goto
  <2>3. CASE Goto(r, OnError(r))
    BY <1>0, <2>1, <2>3, RunsErrorInv DEF Goto
  <2> QED
    BY <1>6, <2>2, <2>3 DEF StoreFault
<1>7. CASE UNCHANGED vars
  BY <1>7 DEF vars, RunsInv, RunsShape, OnRecord, Taken, Judged, AppliedOnce, SuccessIsComplete
<1> QED
  BY <1>1, <1>2, <1>3, <1>4, <1>5, <1>6, <1>7 DEF Next

(***************************************************************************)
(* The invariant, of every behaviour of the runners.                       *)
(***************************************************************************)
THEOREM RunsInvariance == Spec => []RunsInv
BY RunsInitInv, RunsNextInv, PTL DEF Spec

(***************************************************************************)
(* Type correctness; what a runner holds for applied is on record, and the *)
(* record is what took effect.                                             *)
(***************************************************************************)
THEOREM TypeCorrect == Spec => []TypeOK
<1>1. RunsInv => TypeOK
  BY DEF RunsInv, RunsShape, OnRecord, Judged, Taken, TypeOK
<1> QED
  BY RunsInvariance, <1>1, PTL

(***************************************************************************)
(* However many runs race, fail and are repeated, the primary key of the   *)
(* record lets each migration take effect at most once.                    *)
(***************************************************************************)
THEOREM TakesEffectOnce == Spec => []AppliedOnce
<1>1. RunsInv => AppliedOnce
  BY DEF RunsInv
<1> QED
  BY RunsInvariance, <1>1, PTL

(***************************************************************************)
(* A run that reports success leaves nothing its release declares, even    *)
(* when it lost the race for some of it and the facade looked again.       *)
(***************************************************************************)
THEOREM SuccessComplete == Spec => []SuccessIsComplete
<1>1. RunsInv => SuccessIsComplete
  BY DEF RunsInv
<1> QED
  BY RunsInvariance, <1>1, PTL
-----------------------------------------------------------------------------
(***************************************************************************)
(* StateLock, with starts that do not overlap (Overlap is FALSE in         *)
(* MCParts): with two at once the code makes no such promise.  A process   *)
(* that has the store open is on record and the lock stands, until a file  *)
(* call fails; and a recorded process that is alive has the store open.    *)
(***************************************************************************)
(* The marker for "no record" is none of the records. *)
LockSole == None \notin Lock!OwnerRecords

LockPlaces == {"unborn", "unrelated", "look", "read", "remove", "own", "open", "refused",
               "running", "dead"}

LockTypeOK ==
    /\ lock \in BOOLEAN
    /\ owner \in Lock!OwnerRecords \cup {None}
    /\ container \in [ns : Namespaces, node : NodeIds]
    /\ procs \in [Lock!Starts -> [pid : LockPids \cup {0}, pc : LockPlaces]]
    /\ \A t \in Lock!Starts : procs[t].pc # "unborn" => procs[t].pid \in LockPids
    /\ fileErrors \in Nat

(* A live pid is one process's, and one start at most is under way. *)
LockOwnPids ==
    \A t, u \in Lock!Starts :
        Lock!Alive(t) /\ Lock!Alive(u) /\ procs[t].pid = procs[u].pid => t = u

LockOneStart == \A t, u \in Lock!Starts : Lock!Starting(t) /\ Lock!Starting(u) => t = u

(* Who reads the record has seen a lock, and who is to write it has seen none or
   removed it: it is still so. *)
LockSeen ==
    \A t \in Lock!Starts :
        /\ procs[t].pc = "read" => lock
        /\ procs[t].pc = "own" => ~lock

(* Who is on record has written it, and was not refused afterwards. *)
LockRecorded ==
    owner # None =>
        /\ procs[owner.start].pc \in {"open", "running", "dead"}
        /\ procs[owner.start].pc = "open" => ~lock

(* Before any file call has failed: the running process holds the lock and is on
   record, one about to remove the lock removes nobody's, and one that opens
   without a lock is on record. *)
LockHeld ==
    /\ \A t \in Lock!Running : lock /\ owner = Lock!OwnerRecord(t)
    /\ \A t \in Lock!Starts :
          /\ procs[t].pc = "remove" => Lock!Running = {}
          /\ procs[t].pc = "open" /\ ~lock => owner = Lock!OwnerRecord(t)

LockInv ==
    /\ LockTypeOK /\ LockOwnPids /\ LockOneStart /\ LockSeen /\ LockRecorded
    /\ fileErrors = 0 => LockHeld
-----------------------------------------------------------------------------
LEMMA LockInitInv == LockSole /\ Lock!Init => LockInv
<1> SUFFICES ASSUME LockSole, Lock!Init PROVE LockInv
  OBVIOUS
<1>1. \A t \in Lock!Starts :
       procs[t].pc = "unborn" /\ procs[t] \in [pid : LockPids \cup {0}, pc : LockPlaces]
  BY DEF Lock!Init, Lock!Unborn, LockPlaces
<1>2. LockTypeOK
  BY <1>1 DEF Lock!Init, LockTypeOK
<1>3. LockOwnPids /\ LockOneStart /\ LockSeen /\ LockRecorded
  BY <1>1 DEF Lock!Init, LockOwnPids, LockOneStart, LockSeen, LockRecorded, Lock!Alive,
       Lock!Starting
<1>4. LockHeld
  BY <1>1 DEF LockHeld, Lock!Running
<1> QED
  BY <1>2, <1>3, <1>4 DEF LockInv

(* A process is started. *)
LEMMA LockStartInv ==
    ASSUME LockSole, LockInv, NEW t \in Lock!Starts, NEW pid \in LockPids,
           NEW place \in {"look", "unrelated"},
           Lock!Start(t, pid, place)
    PROVE  LockInv'
<1>1. /\ procs' = [procs EXCEPT ![t] = [pid |-> pid, pc |-> place]]
      /\ procs[t].pc = "unborn"
      /\ UNCHANGED <<lock, owner, container, fileErrors>>
  BY DEF Lock!Start
<1>2. /\ procs'[t] = [pid |-> pid, pc |-> place]
      /\ \A u \in Lock!Starts \ {t} : procs'[u] = procs[u]
  BY <1>1 DEF LockInv, LockTypeOK
<1>3. LockTypeOK'
  BY <1>1, <1>2 DEF LockInv, LockTypeOK, LockPlaces
<1>4. LockOwnPids'
  BY <1>2 DEF LockInv, LockOwnPids, Lock!Start, Lock!Alive
<1>5. LockOneStart'
  BY <1>2 DEF LockSole, LockInv, LockOneStart, Lock!Start, Lock!Starting
<1>6. LockSeen' /\ LockRecorded'
  BY <1>1, <1>2 DEF LockInv, LockTypeOK, LockSeen, LockRecorded, Lock!OwnerRecords
<1>7. (fileErrors = 0 => LockHeld)'
  BY <1>1, <1>2 DEF LockInv, LockHeld, Lock!Running, Lock!OwnerRecord
<1> QED
  BY <1>3, <1>4, <1>5, <1>6, <1>7 DEF LockInv
(* What a step of one process leaves of the others. *)
LEMMA LockGotoEffect ==
    ASSUME LockTypeOK, NEW t \in Lock!Starts, NEW place \in LockPlaces, Lock!Goto(t, place)
    PROVE  /\ procs'[t] = [procs[t] EXCEPT !.pc = place]
           /\ procs'[t].pc = place /\ procs'[t].pid = procs[t].pid
           /\ \A u \in Lock!Starts \ {t} : procs'[u] = procs[u]
           /\ procs' \in [Lock!Starts -> [pid : LockPids \cup {0}, pc : LockPlaces]]
  BY DEF Lock!Goto, LockTypeOK

(* The same of the invariant: a process that is born moves on, and no new start
   is under way. *)
LEMMA LockGotoInv ==
    ASSUME LockInv, NEW t \in Lock!Starts, NEW place \in LockPlaces \ {"unborn"},
           Lock!Goto(t, place), Lock!Alive(t), Lock!Starting(t) \/ place = "dead",
           UNCHANGED container
    PROVE  /\ procs' \in [Lock!Starts -> [pid : LockPids \cup {0}, pc : LockPlaces]]
           /\ \A u \in Lock!Starts : procs'[u].pc # "unborn" => procs'[u].pid \in LockPids
           /\ LockOwnPids' /\ LockOneStart'
           /\ \A u \in Lock!Starts : Lock!OwnerRecord(u)' = Lock!OwnerRecord(u)
<1>1. /\ procs'[t].pc = place /\ procs'[t].pid = procs[t].pid
      /\ \A u \in Lock!Starts \ {t} : procs'[u] = procs[u]
      /\ procs' \in [Lock!Starts -> [pid : LockPids \cup {0}, pc : LockPlaces]]
  BY LockGotoEffect DEF LockInv
<1>2. \A u \in Lock!Starts : procs'[u].pid = procs[u].pid
  BY <1>1
<1>3. \A u \in Lock!Starts : Lock!Alive(u)' => Lock!Alive(u)
  BY <1>1 DEF Lock!Alive
<1>4. \A u \in Lock!Starts : Lock!Starting(u)' => Lock!Starting(u)
  BY <1>1 DEF Lock!Starting
<1>5. \A u \in Lock!Starts : procs'[u].pc # "unborn" => procs'[u].pid \in LockPids
  BY <1>1, <1>2 DEF LockInv, LockTypeOK, Lock!Alive
<1>6. LockOwnPids'
  BY <1>2, <1>3 DEF LockInv, LockOwnPids
<1>7. LockOneStart'
  BY <1>4 DEF LockInv, LockOneStart
<1>8. \A u \in Lock!Starts : Lock!OwnerRecord(u)' = Lock!OwnerRecord(u)
  BY <1>2 DEF Lock!OwnerRecord
<1> QED
  BY <1>1, <1>5, <1>6, <1>7, <1>8

LEMMA LockLookInv == ASSUME LockInv, NEW t \in Lock!Starts, Lock!Look(t) PROVE LockInv'
<1> DEFINE place == IF lock THEN "read" ELSE "own"
<1>1. /\ procs[t].pc = "look" /\ Lock!Alive(t) /\ Lock!Starting(t)
      /\ Lock!Goto(t, place) /\ place \in LockPlaces \ {"unborn"}
      /\ UNCHANGED <<lock, owner, container, fileErrors>>
  BY DEF Lock!Look, Lock!Alive, Lock!Starting, LockPlaces
<1> HIDE DEF place
<1>2. /\ procs' \in [Lock!Starts -> [pid : LockPids \cup {0}, pc : LockPlaces]]
      /\ \A u \in Lock!Starts : procs'[u].pc # "unborn" => procs'[u].pid \in LockPids
      /\ LockOwnPids' /\ LockOneStart'
      /\ \A u \in Lock!Starts : Lock!OwnerRecord(u)' = Lock!OwnerRecord(u)
  BY <1>1, LockGotoInv
<1>3. /\ procs'[t].pc = place /\ \A u \in Lock!Starts \ {t} : procs'[u] = procs[u]
  BY <1>1, LockGotoEffect DEF LockInv
<1>4. place \in {"read", "own"} /\ (place = "own" => ~lock) /\ (place = "read" => lock)
  BY DEF place
<1>5. LockTypeOK'
  BY <1>1, <1>2 DEF LockInv, LockTypeOK
<1>6. LockSeen'
  BY <1>1, <1>3, <1>4 DEF LockInv, LockSeen
<1>7. LockRecorded'
  BY <1>1, <1>3, <1>4 DEF LockInv, LockTypeOK, LockRecorded, Lock!OwnerRecords
<1>8. LockHeld => LockHeld'
  <2>1. Lock!Running' = Lock!Running /\ Lock!Running \subseteq Lock!Starts
    BY <1>1, <1>3, <1>4 DEF Lock!Running
  <2>2. \A u \in Lock!Running : (lock /\ owner = Lock!OwnerRecord(u)) =>
            (lock /\ owner = Lock!OwnerRecord(u))'
    BY <1>1, <1>2, <2>1
  <2>3. ASSUME LockHeld, NEW u \in Lock!Starts
        PROVE  /\ procs'[u].pc = "remove" => Lock!Running' = {}
               /\ procs'[u].pc = "open" /\ ~lock' => owner' = Lock!OwnerRecord(u)'
    BY <1>1, <1>2, <1>3, <1>4, <2>1, <2>3 DEF LockHeld
  <2> QED
    BY <2>1, <2>2, <2>3 DEF LockHeld
<1> QED
  BY <1>1, <1>2, <1>5, <1>6, <1>7, <1>8 DEF LockInv
(* A lock is stale only if nobody runs over it. *)
LEMMA LockStaleIsFree ==
    ASSUME LockSole, LockInv, LockHeld, NEW t \in Lock!Starts, procs[t].pc = "read",
           Lock!Stale(t)
    PROVE  Lock!Running = {}
<1> SUFFICES ASSUME NEW u \in Lock!Running PROVE FALSE
  OBVIOUS
<1>1. u \in Lock!Starts /\ procs[u].pc = "running" /\ Lock!Alive(u) /\ Lock!Alive(t) /\ u # t
  BY DEF Lock!Running, Lock!Alive
<1>2. owner = Lock!OwnerRecord(u) /\ owner # None
  <2>1. Lock!OwnerRecord(u) \in Lock!OwnerRecords
    BY <1>1 DEF LockInv, LockTypeOK, Lock!OwnerRecord, Lock!OwnerRecords
  <2> QED
    BY <1>1, <2>1 DEF LockHeld, LockSole
<1>3. owner.node = container.node /\ owner.ns = container.ns /\ owner.pid = procs[u].pid
      /\ owner.start = u
  BY <1>2 DEF Lock!OwnerRecord
<1>4. Lock!OwnerStillRunning
  BY <1>1, <1>3 DEF Lock!OwnerStillRunning
<1>5. owner.pid # procs[t].pid
  BY <1>1, <1>3 DEF LockInv, LockOwnPids
<1> QED
  BY <1>2, <1>3, <1>4, <1>5 DEF Lock!Stale

LEMMA LockReadInv ==
    ASSUME LockSole, LockInv, NEW t \in Lock!Starts, Lock!Read(t)
    PROVE  LockInv'
<1> DEFINE place == IF Lock!Stale(t) THEN "remove" ELSE "open"
<1>1. /\ procs[t].pc = "read" /\ Lock!Alive(t) /\ Lock!Starting(t)
      /\ Lock!Goto(t, place) /\ place \in LockPlaces \ {"unborn"}
      /\ UNCHANGED <<lock, owner, container, fileErrors>>
  BY DEF Lock!Read, Lock!Alive, Lock!Starting, LockPlaces
<1> HIDE DEF place
<1>2. /\ procs' \in [Lock!Starts -> [pid : LockPids \cup {0}, pc : LockPlaces]]
      /\ \A u \in Lock!Starts : procs'[u].pc # "unborn" => procs'[u].pid \in LockPids
      /\ LockOwnPids' /\ LockOneStart'
      /\ \A u \in Lock!Starts : Lock!OwnerRecord(u)' = Lock!OwnerRecord(u)
  BY <1>1, LockGotoInv
<1>3. /\ procs'[t].pc = place /\ \A u \in Lock!Starts \ {t} : procs'[u] = procs[u]
  BY <1>1, LockGotoEffect DEF LockInv
<1>4. place \in {"remove", "open"} /\ (place = "remove" => Lock!Stale(t))
  BY DEF place
<1>5. LockTypeOK'
  BY <1>1, <1>2 DEF LockInv, LockTypeOK
<1>6. LockSeen'
  BY <1>1, <1>3, <1>4 DEF LockInv, LockSeen
<1>7. LockRecorded'
  BY <1>1, <1>3, <1>4 DEF LockInv, LockTypeOK, LockRecorded, Lock!OwnerRecords
<1>8. LockHeld => LockHeld'
  <2> SUFFICES ASSUME LockHeld PROVE LockHeld'
    OBVIOUS
  <2>1. Lock!Running' = Lock!Running /\ Lock!Running \subseteq Lock!Starts
    BY <1>1, <1>3, <1>4 DEF Lock!Running
  <2>2. \A u \in Lock!Running' : (lock /\ owner = Lock!OwnerRecord(u))'
    BY <1>1, <1>2, <2>1 DEF LockHeld
  <2>3. place = "remove" => Lock!Running = {}
    BY <1>1, <1>4, LockStaleIsFree
  <2>4. lock
    BY <1>1 DEF LockInv, LockSeen
  <2> QED
    BY <1>1, <1>3, <1>4, <2>1, <2>2, <2>3, <2>4 DEF LockHeld
<1> QED
  BY <1>1, <1>2, <1>5, <1>6, <1>7, <1>8 DEF LockInv
(* While one start is under way, no other process is at a step of its start. *)
LEMMA LockAlone ==
    ASSUME LockInv, NEW t \in Lock!Starts, Lock!Starting(t), NEW u \in Lock!Starts \ {t}
    PROVE  ~Lock!Starting(u)
  BY DEF LockInv, LockOneStart

LEMMA LockRemoveInv ==
    ASSUME LockSole, LockInv, NEW t \in Lock!Starts, Lock!Remove(t)
    PROVE  LockInv'
<1>1. /\ procs[t].pc = "remove" /\ Lock!Alive(t) /\ Lock!Starting(t)
      /\ UNCHANGED <<owner, container>>
  BY DEF Lock!Remove, Lock!Alive, Lock!Starting
<1>2. ASSUME NEW place \in {"own", "open"}, Lock!Goto(t, place)
      PROVE  /\ procs' \in [Lock!Starts -> [pid : LockPids \cup {0}, pc : LockPlaces]]
             /\ \A u \in Lock!Starts : procs'[u].pc # "unborn" => procs'[u].pid \in LockPids
             /\ LockOwnPids' /\ LockOneStart'
             /\ procs'[t].pc = place
             /\ \A u \in Lock!Starts \ {t} : procs'[u] = procs[u] /\ ~Lock!Starting(u)
             /\ owner # None => owner.start # t
  <2>1. place \in LockPlaces \ {"unborn"}
    BY DEF LockPlaces
  <2>2. owner # None => owner.start # t
    BY <1>1 DEF LockInv, LockRecorded
  <2> QED
    BY <1>1, <1>2, <2>1, <2>2, LockGotoInv, LockGotoEffect, LockAlone DEF LockInv
<1>3. CASE lock' = FALSE /\ Lock!Goto(t, "own") /\ UNCHANGED fileErrors
  <2>1. LockTypeOK' /\ LockOwnPids' /\ LockOneStart'
    BY <1>1, <1>2, <1>3 DEF LockInv, LockTypeOK
  <2>2. LockSeen' /\ LockRecorded'
    BY <1>1, <1>2, <1>3 DEF LockInv, LockTypeOK, Lock!OwnerRecords, LockSeen, LockRecorded,
         Lock!Starting
  <2>3. LockHeld => LockHeld'
    <3>1. Lock!Running' = Lock!Running
      BY <1>1, <1>2, <1>3 DEF Lock!Running
    <3>2. LockHeld => Lock!Running = {}
      BY <1>1 DEF LockHeld
    <3> QED
      BY <1>2, <1>3, <3>1, <3>2 DEF LockHeld, Lock!Starting
  <2> QED
    BY <1>3, <2>1, <2>2, <2>3 DEF LockInv
<1>4. CASE UNCHANGED lock /\ Lock!Goto(t, "open") /\ Lock!FileError
  <2>1. fileErrors' \in Nat /\ fileErrors' # 0
    BY <1>4 DEF Lock!FileError, LockInv, LockTypeOK
  <2>2. LockTypeOK' /\ LockOwnPids' /\ LockOneStart'
    BY <1>1, <1>2, <1>4, <2>1 DEF LockInv, LockTypeOK
  <2>3. LockSeen' /\ LockRecorded'
    BY <1>1, <1>2, <1>4 DEF LockInv, LockTypeOK, Lock!OwnerRecords, LockSeen, LockRecorded,
         Lock!Starting
  <2> QED
    BY <2>1, <2>2, <2>3 DEF LockInv
<1> QED
  BY <1>3, <1>4 DEF Lock!Remove

LEMMA LockWriteOwnerInv ==
    ASSUME LockSole, LockInv, NEW t \in Lock!Starts, Lock!WriteOwner(t)
    PROVE  LockInv'
<1>1. /\ procs[t].pc = "own" /\ Lock!Alive(t) /\ Lock!Starting(t) /\ Lock!Goto(t, "open")
      /\ "open" \in LockPlaces \ {"unborn"}
      /\ UNCHANGED <<lock, container>>
      /\ lock = FALSE
  BY DEF Lock!WriteOwner, Lock!Alive, Lock!Starting, LockPlaces, LockInv, LockSeen, LockTypeOK
<1>2. /\ procs' \in [Lock!Starts -> [pid : LockPids \cup {0}, pc : LockPlaces]]
      /\ \A u \in Lock!Starts : procs'[u].pc # "unborn" => procs'[u].pid \in LockPids
      /\ LockOwnPids' /\ LockOneStart'
      /\ \A u \in Lock!Starts : Lock!OwnerRecord(u)' = Lock!OwnerRecord(u)
  BY <1>1, LockGotoInv
<1>3. /\ procs'[t].pc = "open"
      /\ \A u \in Lock!Starts \ {t} : procs'[u] = procs[u] /\ ~Lock!Starting(u)
  BY <1>1, LockGotoEffect, LockAlone DEF LockInv
<1>4. LockSeen'
  BY <1>1, <1>3 DEF LockSeen, Lock!Starting
<1>5. CASE owner' = Lock!OwnerRecord(t) /\ UNCHANGED fileErrors
  <2>1. owner' \in Lock!OwnerRecords /\ owner'.start = t
    BY <1>1, <1>5 DEF LockInv, LockTypeOK, Lock!OwnerRecord, Lock!OwnerRecords, Lock!Alive
  <2>2. LockTypeOK'
    BY <1>1, <1>2, <1>5, <2>1 DEF LockInv, LockTypeOK
  <2>3. LockRecorded'
    BY <1>1, <1>3, <2>1 DEF LockRecorded
  <2>4. LockHeld => LockHeld'
    <3>1. Lock!Running' = Lock!Running
      BY <1>1, <1>3 DEF Lock!Running
    <3>2. LockHeld => Lock!Running = {}
      BY <1>1 DEF LockHeld
    <3>3. owner' = Lock!OwnerRecord(t)'
      BY <1>2, <1>5
    <3> QED
      BY <1>3, <3>1, <3>2, <3>3 DEF LockHeld, Lock!Starting
  <2> QED
    BY <1>2, <1>4, <1>5, <2>2, <2>3, <2>4 DEF LockInv
<1>6. CASE owner' \in {owner, None} /\ Lock!FileError
  <2>1. fileErrors' \in Nat /\ fileErrors' # 0
    BY <1>6 DEF Lock!FileError, LockInv, LockTypeOK
  <2>2. LockTypeOK'
    BY <1>1, <1>2, <1>6, <2>1 DEF LockInv, LockTypeOK
  <2>3. owner # None => owner.start # t /\ owner.start \in Lock!Starts
    BY <1>1 DEF LockInv, LockRecorded, LockTypeOK, Lock!OwnerRecords
  <2>4. LockRecorded'
    BY <1>1, <1>3, <1>6, <2>3 DEF LockInv, LockRecorded
  <2> QED
    BY <1>2, <1>4, <2>1, <2>2, <2>4 DEF LockInv
<1> QED
  BY <1>5, <1>6 DEF Lock!WriteOwner

LEMMA LockOpenInv ==
    ASSUME LockSole, LockInv, NEW t \in Lock!Starts, Lock!Open(t)
    PROVE  LockInv'
<1> DEFINE place == IF lock THEN "refused" ELSE "running"
<1>1. /\ procs[t].pc = "open" /\ Lock!Alive(t) /\ Lock!Starting(t)
      /\ Lock!Goto(t, place) /\ place \in LockPlaces \ {"unborn"} /\ lock' = TRUE
      /\ UNCHANGED <<owner, container, fileErrors>>
  BY DEF Lock!Open, Lock!Alive, Lock!Starting, LockPlaces
<1>2. /\ procs' \in [Lock!Starts -> [pid : LockPids \cup {0}, pc : LockPlaces]]
      /\ \A u \in Lock!Starts : procs'[u].pc # "unborn" => procs'[u].pid \in LockPids
      /\ LockOwnPids'
  <2> HIDE DEF place
  <2> QED
    BY <1>1, LockGotoInv
<1>3. /\ procs'[t].pc = place
      /\ LockOneStart'
      /\ \A u \in Lock!Starts \ {t} : procs'[u] = procs[u] /\ ~Lock!Starting(u)
      /\ \A u \in Lock!Starts : Lock!OwnerRecord(u)' = Lock!OwnerRecord(u)
  <2> HIDE DEF place
  <2> QED
    BY <1>1, LockGotoEffect, LockGotoInv, LockAlone DEF LockInv
<1>4. LockTypeOK'
  BY <1>1, <1>2 DEF LockInv, LockTypeOK
<1>5. LockSeen'
  BY <1>1, <1>3 DEF LockSeen, Lock!Starting
<1>6. LockRecorded'
  BY <1>1, <1>3 DEF LockInv, LockTypeOK, LockRecorded, Lock!OwnerRecords, Lock!Starting
<1>7. LockHeld => LockHeld'
  <2> SUFFICES ASSUME LockHeld PROVE LockHeld'
    OBVIOUS
  <2>1. \A u \in Lock!Starts : procs'[u].pc \notin {"remove", "open"}
    BY <1>3 DEF Lock!Starting
  <2>2. CASE lock
    <3>1. Lock!Running' = Lock!Running /\ Lock!Running \subseteq Lock!Starts
      BY <1>1, <1>3, <2>2 DEF Lock!Running
    <3>2. \A u \in Lock!Running' : owner' = Lock!OwnerRecord(u)'
      BY <1>1, <1>3, <3>1 DEF LockHeld
    <3> QED
      BY <1>1, <2>1, <3>2 DEF LockHeld
  <2>3. CASE ~lock
    <3>1. Lock!Running = {} /\ owner = Lock!OwnerRecord(t)
      BY <1>1, <2>3 DEF LockHeld
    <3>2. \A u \in Lock!Running' : u = t
      BY <1>3, <3>1 DEF Lock!Running
    <3>3. \A u \in Lock!Running' : owner' = Lock!OwnerRecord(u)'
      BY <1>1, <1>3, <3>1, <3>2
    <3> QED
      BY <1>1, <2>1, <3>3 DEF LockHeld
  <2> QED
    BY <2>2, <2>3
<1> QED
  BY <1>1, <1>2, <1>3, <1>4, <1>5, <1>6, <1>7 DEF LockInv

LEMMA LockExitInv == ASSUME LockInv, NEW t \in Lock!Starts, Lock!Exit(t) PROVE LockInv'
<1>1. /\ Lock!Alive(t) /\ Lock!Goto(t, "dead") /\ "dead" \in LockPlaces \ {"unborn"}
      /\ UNCHANGED <<lock, owner, container, fileErrors>>
  BY DEF Lock!Exit, LockPlaces
<1>2. /\ procs' \in [Lock!Starts -> [pid : LockPids \cup {0}, pc : LockPlaces]]
      /\ \A u \in Lock!Starts : procs'[u].pc # "unborn" => procs'[u].pid \in LockPids
      /\ LockOwnPids' /\ LockOneStart'
      /\ \A u \in Lock!Starts : Lock!OwnerRecord(u)' = Lock!OwnerRecord(u)
  BY <1>1, LockGotoInv
<1>3. procs'[t].pc = "dead" /\ \A u \in Lock!Starts \ {t} : procs'[u] = procs[u]
  BY <1>1, LockGotoEffect DEF LockInv
<1>4. LockTypeOK'
  BY <1>1, <1>2 DEF LockInv, LockTypeOK
<1>5. LockSeen' /\ LockRecorded'
  BY <1>1, <1>3 DEF LockInv, LockTypeOK, LockSeen, LockRecorded, Lock!OwnerRecords
<1>6. LockHeld => LockHeld'
  <2> SUFFICES ASSUME LockHeld PROVE LockHeld'
    OBVIOUS
  <2>1. Lock!Running' \subseteq Lock!Running /\ Lock!Running \subseteq Lock!Starts
    BY <1>3 DEF Lock!Running
  <2>2. \A u \in Lock!Running' : lock' /\ owner' = Lock!OwnerRecord(u)'
    BY <1>1, <1>2, <2>1 DEF LockHeld
  <2>3. \A u \in Lock!Starts : procs'[u].pc = "remove" => Lock!Running' = {}
    BY <1>3, <2>1 DEF LockHeld
  <2>4. \A u \in Lock!Starts : procs'[u].pc = "open" /\ ~lock' => owner' = Lock!OwnerRecord(u)'
    BY <1>1, <1>2, <1>3 DEF LockHeld
  <2> QED
    BY <2>2, <2>3, <2>4 DEF LockHeld
<1> QED
  BY <1>1, <1>2, <1>4, <1>5, <1>6 DEF LockInv

LEMMA LockRecreateInv == ASSUME LockInv, Lock!Recreate PROVE LockInv'
<1>1. /\ \A t \in Lock!Starts : procs'[t].pc \in {"unborn", "dead"}
      /\ \A t \in Lock!Starts : procs[t].pc \in {"open", "running",
           "dead"} => procs'[t].pc = "dead"
      /\ UNCHANGED <<lock, owner, fileErrors>>
  BY DEF Lock!Recreate, Lock!Alive
<1>2. LockTypeOK'
  <2>1. \A t \in Lock!Starts : /\ procs'[t] \in [pid : LockPids \cup {0}, pc : LockPlaces]
                               /\ procs'[t].pc # "unborn" => procs'[t].pid \in LockPids
    BY DEF Lock!Recreate, Lock!Alive, LockInv, LockTypeOK, LockPlaces
  <2> QED
    BY <2>1 DEF Lock!Recreate, LockInv, LockTypeOK
<1>3. LockOwnPids' /\ LockOneStart' /\ LockSeen' /\ LockHeld'
  BY <1>1 DEF LockOwnPids, LockOneStart, LockSeen, LockHeld, Lock!Alive, Lock!Starting,
       Lock!Running
<1>4. LockRecorded'
  BY <1>1 DEF LockInv, LockTypeOK, LockRecorded, Lock!OwnerRecords
<1> QED
  BY <1>2, <1>3, <1>4 DEF LockInv

(***************************************************************************)
(* The invariant, of every behaviour of the starts.                        *)
(***************************************************************************)
THEOREM LockInvariance == Lock!Spec => []LockInv
<1> LockSole
  BY MarkersApart DEF LockSole
<1>1. Lock!Init => LockInv
  BY LockInitInv
<1>2. LockInv /\ [Lock!Next]_(Lock!vars) => LockInv'
  <2> SUFFICES ASSUME LockInv, [Lock!Next]_(Lock!vars) PROVE LockInv'
    OBVIOUS
  <2>1. ASSUME NEW t \in Lock!Starts, NEW pid \in LockPids, NEW place \in {"look", "unrelated"},
               Lock!Start(t, pid, place)
        PROVE  LockInv'
    BY <2>1, LockStartInv
  <2>2. ASSUME NEW t \in Lock!Starts, Lock!Boot(t) PROVE LockInv'
    BY <2>2, LockLookInv, LockReadInv, LockRemoveInv, LockWriteOwnerInv,
         LockOpenInv DEF Lock!Boot
  <2>3. ASSUME NEW t \in Lock!Starts, Lock!Exit(t) PROVE LockInv'
    BY <2>3, LockExitInv
  <2>4. CASE Lock!Recreate
    BY <2>4, LockRecreateInv
  <2>5. CASE UNCHANGED Lock!vars
    BY <2>5 DEF Lock!vars, LockInv, LockTypeOK, LockOwnPids, LockOneStart, LockSeen,
         LockRecorded, LockHeld, Lock!Alive, Lock!Starting,
                Lock!Running, Lock!OwnerRecord
  <2> QED
    BY <2>1, <2>2, <2>3, <2>4, <2>5 DEF Lock!Next
<1> QED
  BY <1>1, <1>2, PTL DEF Lock!Spec

(***************************************************************************)
(* Two processes never have the state machine open, for any number of      *)
(* starts, of reused pids and namespaces, of recreated containers and of   *)
(* deaths at any step of a start: until the first file call fails.         *)
(***************************************************************************)
THEOREM NeverTwo == Lock!Spec => []NeverTwoOpen
<1>1. LockInv => NeverTwoOpen
  <2> SUFFICES ASSUME LockInv, fileErrors = 0 PROVE Cardinality(Lock!Running) <= 1
    BY DEF NeverTwoOpen, Lock!NeverTwoOpen, Lock!Cardinality, Cardinality
  <2>1. \A t, u \in Lock!Running : t = u
    BY DEF LockInv, LockHeld, Lock!OwnerRecord
  <2>2. CASE Lock!Running = {}
    BY <2>2, FS_EmptySet
  <2>3. CASE Lock!Running # {}
    <3>1. PICK t \in Lock!Running : TRUE
      BY <2>3
    <3>2. Lock!Running = {t}
      BY <2>1, <3>1
    <3>3. Cardinality(Lock!Running) = 1
      BY <3>2, FS_Singleton, Zenon
    <3> QED
      BY <3>3
  <2> QED
    BY <2>2, <2>3
<1> QED
  BY <1>1, LockInvariance, PTL

(***************************************************************************)
(* A lock is left in place only over a live holder or on another node's    *)
(* volume, whatever has failed before: a recorded process that is still    *)
(* alive has the store open, for one that was refused is not on record.    *)
(***************************************************************************)
THEOREM NeverShut == Lock!Spec => KeptOnlyWhenHeld
<1> DEFINE Kept ==
      \A t \in Lock!Starts : procs[t].pc = "read" /\ procs'[t].pc = "open" =>
          Lock!Running # {} \/ owner.node # container.node
<1>1. LockInv /\ [Lock!Next]_(Lock!vars) => [Kept]_(Lock!vars)
  <2> SUFFICES ASSUME LockInv, Lock!Next, NEW t \in Lock!Starts, procs[t].pc = "read",
                      procs'[t].pc = "open",
                      owner.node = container.node
               PROVE  Lock!Running # {}
    BY DEF Lock!vars
  <2>1. Lock!Read(t)
    <3>1. ASSUME NEW u \in Lock!Starts, NEW pid \in LockPids, NEW place \in {"look", "unrelated"},
                 Lock!Start(u, pid, place)
          PROVE  FALSE
      BY <3>1 DEF Lock!Start, LockInv, LockTypeOK
    <3>2. ASSUME NEW u \in Lock!Starts \ {t}, Lock!Boot(u) PROVE FALSE
      BY <3>2 DEF Lock!Boot, Lock!Look, Lock!Read, Lock!Remove, Lock!WriteOwner, Lock!Open,
           Lock!Goto, LockInv, LockTypeOK
    <3>3. ASSUME NEW u \in Lock!Starts, Lock!Exit(u) PROVE FALSE
      BY <3>3 DEF Lock!Exit, Lock!Goto, LockInv, LockTypeOK
    <3>4. CASE Lock!Recreate
      BY <3>4 DEF Lock!Recreate, Lock!Alive
    <3>5. ASSUME Lock!Boot(t) PROVE Lock!Read(t)
      BY <3>5 DEF Lock!Boot, Lock!Look, Lock!Remove, Lock!WriteOwner, Lock!Open
    <3> QED
      BY <3>1, <3>2, <3>3, <3>4, <3>5 DEF Lock!Next
  <2>2. ~Lock!Stale(t)
    BY <2>1 DEF Lock!Read, Lock!Goto, LockInv, LockTypeOK
  <2>3. owner # None /\ Lock!OwnerStillRunning
    BY <2>2 DEF Lock!Stale
  <2>4. PICK u \in Lock!Starts : Lock!Alive(u) /\ u = owner.start
    BY <2>3 DEF Lock!OwnerStillRunning
  <2>5. procs[u].pc # "open"
    <3>1. lock
      BY DEF LockInv, LockSeen
    <3> QED
      BY <2>3, <2>4, <3>1 DEF LockInv, LockRecorded
  <2>6. u \in Lock!Running
    BY <2>3, <2>4, <2>5 DEF LockInv, LockRecorded, Lock!Alive, Lock!Running
  <2> QED
    BY <2>6
<1> QED
  BY <1>1, LockInvariance, PTL DEF Lock!Spec, KeptOnlyWhenHeld, Lock!KeptOnlyWhenHeld
-----------------------------------------------------------------------------
(***************************************************************************)
(* Tenancy.  The property is nearly inductive: what it needs besides is    *)
(* that a store's rows are a function on the tenants, so that a write goes *)
(* to the row of the tenant the process resolved and to no other.  Nothing *)
(* is asked of the constants.                                              *)
(***************************************************************************)
TenantInv ==
    /\ rows \in [Tenants -> {"none", "live", "gone"}]
    /\ proc \in [pc : Tenancy!Stages, tenant : Tenants \cup {None, DevTenant}]
    /\ Tenancy!LoopsOwnStore

(* A write of the endpoints puts rows of the process's own tenant only. *)
LEMMA WritesOwnRows ==
    ASSUME TenantInv, NEW e \in Editors, Tenancy!Land(e)
    PROVE  /\ rows' \in [Tenants -> {"none", "live", "gone"}]
           /\ Tenancy!Stored' \subseteq Tenancy!Stored \cup {proc.tenant}
<1>1. CASE Tenancy!PutOrg
  BY <1>1 DEF Tenancy!PutOrg, TenantInv, Tenancy!Stored
<1>2. CASE Tenancy!Put
  BY <1>2 DEF Tenancy!Put, TenantInv, Tenancy!Stored
<1>3. CASE Tenancy!Delete
  BY <1>3 DEF Tenancy!Delete, TenantInv, Tenancy!Stored
<1> QED
  BY <1>1, <1>2, <1>3 DEF Tenancy!Land

(* The initial states and every step of the process, of its operators and of
   those who handle its volume. *)
LEMMA TenantInitInv == Tenancy!Init => TenantInv
  BY DEF Tenancy!Init, Tenancy!Blank, Tenancy!Stages, TenantInv, Tenancy!LoopsOwnStore,
     Tenancy!Stored

LEMMA TenantNextInv == TenantInv /\ [Tenancy!Next]_(Tenancy!vars) => TenantInv'
<1> SUFFICES ASSUME TenantInv, [Tenancy!Next]_(Tenancy!vars) PROVE TenantInv'
  OBVIOUS
<1> USE DEF TenantInv, Tenancy!LoopsOwnStore, Tenancy!Stages
<1>1. ASSUME NEW c \in Tenants \cup {"unset", "malformed"}, Tenancy!Start(c) PROVE TenantInv'
  BY <1>1 DEF Tenancy!Start, Tenancy!TenantId, Tenancy!store, Tenancy!Stored
<1>2. CASE Tenancy!SchemaPresent
  BY <1>2 DEF Tenancy!SchemaPresent, Tenancy!Goto, Tenancy!store, Tenancy!Stored
<1>3. CASE Tenancy!Guard
  BY <1>3 DEF Tenancy!Guard, Tenancy!Goto, Tenancy!Gone, Tenancy!Foreign, Tenancy!store,
      Tenancy!Stored
<1>4. CASE Tenancy!Ensure
  BY <1>4 DEF Tenancy!Ensure, Tenancy!Goto, Tenancy!store, Tenancy!Stored
<1>5. CASE Tenancy!Create
  BY <1>5 DEF Tenancy!Create, Tenancy!Goto, Tenancy!Stored
<1>6. CASE Tenancy!Error
  BY <1>6 DEF Tenancy!Error, Tenancy!Goto, Tenancy!store, Tenancy!Stored
<1>7. CASE Tenancy!Kill
  BY <1>7 DEF Tenancy!Kill, Tenancy!Gone, Tenancy!store, Tenancy!Stored
<1>8. CASE Tenancy!ApplySchema
  BY <1>8 DEF Tenancy!ApplySchema, Tenancy!Stored
<1>9. CASE Tenancy!Swap
  BY <1>9 DEF Tenancy!Swap, Tenancy!Blank
<1>10. ASSUME NEW e \in Editors, Tenancy!Land(e) PROVE TenantInv'
  BY <1>10, WritesOwnRows DEF Tenancy!Land
<1>11. ASSUME NEW e \in Editors, NEW r \in Tenancy!Edits, Tenancy!Ask(e, r) PROVE TenantInv'
  BY <1>11 DEF Tenancy!Ask, Tenancy!store, Tenancy!Stored
<1>12. CASE UNCHANGED Tenancy!vars
  BY <1>12 DEF Tenancy!vars, Tenancy!Stored
<1> QED
  BY <1>1, <1>2, <1>3, <1>4, <1>5, <1>6, <1>7, <1>8, <1>9, <1>10, <1>11, <1>12
  DEF Tenancy!Next

(* LoopsOwnStore, for any number of tenants, operators, starts and mishaps: the
   renewal loops never run over a store that holds another tenant's rows
   (tenant.ts:89-123, boot.ts:88-98). *)
THEOREM OwnStoreOnly == Tenancy!Spec => []LoopsOwnStore
<1>1. TenantInv => LoopsOwnStore
  BY DEF TenantInv, LoopsOwnStore
<1> QED
  BY <1>1, TenantInitInv, TenantNextInv, PTL DEF Tenancy!Spec
-----------------------------------------------------------------------------
(***************************************************************************)
(* Smtp.  What the connection holds is one sequence, what has been taken   *)
(* off the wire and what is still on it.  While a command is out it is     *)
(* empty, or the end of a reply that was taken before its last chunk came; *)
(* a reply behind such an end is never the one expected.  So whatever is   *)
(* the conversation's reply at "body" answers the message.                 *)
(***************************************************************************)
Commands == {"greeting", "ehlo", "starttls", "ehlo_again", "auth", "mail", "rcpt", "data",
             "body"}

MailChunks == [part : {"line", "head", "tail", "more"}, code : Nat, offers : BOOLEAN]

(* The reply is complete with this chunk. *)
EndsReply(chunk) == chunk.part \in {"line", "head"}

(* After the chunk that completes a reply comes the end of its line or nothing. *)
Orderly(pipe) ==
    /\ \A i, j \in 1..Len(pipe) : i < j /\ EndsReply(pipe[i]) => pipe[j].part = "tail"
    /\ \A j \in 2..Len(pipe) : pipe[j].part = "tail" => pipe[j - 1].part = "head"

Spent(pipe) ==
    \/ pipe = <<>>
    \/ Len(pipe) = 1 /\ pipe[1].part = "tail"

(* The next reply that can be taken is a refusal, or the rest of another. *)
NoAcceptance(pipe) ==
    pipe # <<>> => pipe[1].part = "tail" \/ pipe[1].code = Mail!Refusal

MailTypes ==
    /\ config \in Mail!Configs
    /\ at \in Commands \cup {"idle", "post", "upgrade"} \cup Mail!Ended
    /\ asked \in Commands \cup {"nothing", "post"}
    /\ secure \in BOOLEAN /\ taken \in BOOLEAN
    /\ buffer \in Seq(MailChunks) /\ wire \in Seq(MailChunks)

MailPipe ==
    /\ at = "idle" => buffer = <<>> /\ wire = <<>> /\ asked = "nothing"
    /\ at \in Commands =>
          /\ \A i \in 1..Len(buffer) : ~EndsReply(buffer[i])
          /\ Orderly(buffer \o wire)
          /\ asked # "nothing" => asked = at /\ Spent(buffer \o wire)
          /\ at = "body" /\ ~taken => NoAcceptance(buffer \o wire)

(* From the greeting on, or from the handshake, or the operator allowed it. *)
MailChannel ==
    /\ at \in Commands \cup {"upgrade"} /\ config.implicit => secure
    /\ at = "ehlo_again" => secure
    /\ at \in {"auth", "mail", "rcpt", "data", "body"} => secure \/ config.insecure

MailInv == MailTypes /\ MailPipe /\ MailChannel /\ Mail!SentMeansTaken

-----------------------------------------------------------------------------
(* Where the conversation goes. *)
LEMMA AfterReply ==
    ASSUME config \in Mail!Configs, NEW stage \in Commands, NEW offered \in BOOLEAN
    PROVE  /\ Mail!After(stage, offered) \in Commands \cup {"upgrade", "sent", "failed"}
           /\ Mail!After(stage, offered) # "ehlo_again"
           /\ Mail!After(stage, offered) = "sent" => stage = "body"
           /\ Mail!After(stage, offered) \in {"auth", "mail", "rcpt", "data", "body"} =>
                 \/ stage \in {"ehlo_again", "auth", "mail", "rcpt", "data"}
                 \/ stage = "ehlo" /\ (config.implicit \/ config.insecure)
<1>1. CASE stage = "ehlo"
  BY <1>1 DEF Mail!After, Mail!AfterEhlo, Mail!Refuses, Commands, Mail!Configs
<1>2. CASE stage = "ehlo_again"
  BY <1>2 DEF Mail!After, Mail!AfterEhlo, Commands, Mail!Configs
<1>3. CASE stage = "greeting"
  BY <1>3 DEF Mail!After, Mail!Follows, Commands
<1>4. CASE stage = "starttls"
  BY <1>4 DEF Mail!After, Mail!Follows, Commands
<1>5. CASE stage = "auth"
  BY <1>5 DEF Mail!After, Mail!Follows, Commands
<1>6. CASE stage = "mail"
  BY <1>6 DEF Mail!After, Mail!Follows, Commands
<1>7. CASE stage = "rcpt"
  BY <1>7 DEF Mail!After, Mail!Follows, Commands
<1>8. CASE stage = "data"
  BY <1>8 DEF Mail!After, Mail!Follows, Commands
<1>9. CASE stage = "body"
  BY <1>9 DEF Mail!After, Mail!Follows, Commands
<1> QED
  BY <1>1, <1>2, <1>3, <1>4, <1>5, <1>6, <1>7, <1>8, <1>9 DEF Commands

LEMMA CodesExpected ==
    ASSUME NEW stage \in Commands, NEW code \in Mail!Expected(stage)
    PROVE  code \in Nat /\ code # 0 /\ code # Mail!Refusal
<1>1. CASE stage = "greeting"
  BY <1>1 DEF Mail!Expected, Mail!Refusal
<1>2. CASE stage = "ehlo"
  BY <1>2 DEF Mail!Expected, Mail!Refusal
<1>3. CASE stage = "starttls"
  BY <1>3 DEF Mail!Expected, Mail!Refusal
<1>4. CASE stage = "ehlo_again"
  <2>1. Mail!Expected("ehlo_again") = {250}
    BY DEF Mail!Expected
  <2> QED
    BY <1>4, <2>1 DEF Mail!Refusal
<1>5. CASE stage = "auth"
  BY <1>5 DEF Mail!Expected, Mail!Refusal
<1>6. CASE stage = "mail"
  BY <1>6 DEF Mail!Expected, Mail!Refusal
<1>7. CASE stage = "rcpt"
  BY <1>7 DEF Mail!Expected, Mail!Refusal
<1>8. CASE stage = "data"
  BY <1>8 DEF Mail!Expected, Mail!Refusal
<1>9. CASE stage = "body"
  BY <1>9 DEF Mail!Expected, Mail!Refusal
<1> QED
  BY <1>1, <1>2, <1>3, <1>4, <1>5, <1>6, <1>7, <1>8, <1>9 DEF Commands

(* A reply, however it is cut. *)
LEMMA ReplyShape ==
    ASSUME NEW code \in Nat, NEW offers \in BOOLEAN, NEW reply \in Mail!Chunked(code, offers)
    PROVE  /\ reply \in Seq(MailChunks)
           /\ Len(reply) \in 1..3
           /\ Orderly(reply)
           /\ reply[1].part # "tail" /\ reply[1].code = code
<1>1. ASSUME NEW o \in BOOLEAN, NEW c \in Mail!Cut(code, o)
      PROVE  \/ c = <<[part |-> "line", code |-> code, offers |-> o]>>
             \/ c = <<[part |-> "head", code |-> code, offers |-> FALSE],
                      [part |-> "tail", code |-> code, offers |-> o]>>
  BY <1>1 DEF Mail!Cut, Mail!Chunk
<1>2. ASSUME NEW o \in BOOLEAN, NEW c \in Mail!Cut(code, o)
      PROVE  /\ c \in Seq(MailChunks) /\ Len(c) \in 1..2
             /\ c[1].part # "tail" /\ c[1].code = code
             /\ Len(c) = 1 => c[1].part = "line"
             /\ Len(c) = 2 => c[1].part = "head" /\ c[2].part = "tail"
  <2>1. CASE c = <<[part |-> "line", code |-> code, offers |-> o]>>
    BY <2>1 DEF MailChunks
  <2>2. CASE c = <<[part |-> "head", code |-> code, offers |-> FALSE],
                   [part |-> "tail", code |-> code, offers |-> o]>>
    BY <2>2 DEF MailChunks
  <2> QED
    BY <1>1, <1>2, <2>1, <2>2
<1>3. CASE reply \in Mail!Cut(code, offers)
  BY <1>2, <1>3 DEF Orderly, EndsReply
<1>4. CASE reply \in {<<Mail!Chunk("more", code, offers)>> \o c : c \in Mail!Cut(code, FALSE)}
  <2> DEFINE more == <<Mail!Chunk("more", code, offers)>>
  <2>1. PICK c \in Mail!Cut(code, FALSE) : reply = more \o c
    BY <1>4
  <2>2. more \in Seq(MailChunks) /\ Len(more) = 1 /\ more[1].part = "more"
        /\ more[1].code = code
    BY DEF Mail!Chunk, MailChunks
  <2>3. /\ reply \in Seq(MailChunks) /\ Len(reply) = 1 + Len(c)
        /\ reply[1] = more[1]
        /\ \A i \in 2..Len(reply) : reply[i] = c[i - 1]
    <3>1. c \in Seq(MailChunks) /\ Len(c) \in 1..2
      BY <1>2
    <3> HIDE DEF more
    <3> QED
      BY <2>1, <2>2, <3>1, ConcatProperties
  <2>4. /\ reply[1].part = "more" /\ reply[1].code = code
        /\ Len(reply) = 2 => reply[2].part = "line"
        /\ Len(reply) = 3 => reply[2].part = "head" /\ reply[3].part = "tail"
        /\ Len(reply) \in 2..3
    <3>1. /\ Len(c) \in 1..2
          /\ Len(c) = 1 => c[1].part = "line"
          /\ Len(c) = 2 => c[1].part = "head" /\ c[2].part = "tail"
      BY <1>2
    <3> HIDE DEF more
    <3> QED
      BY <2>2, <2>3, <3>1
  <2> QED
    BY <2>3, <2>4 DEF Orderly, EndsReply
<1> QED
  BY <1>3, <1>4 DEF Mail!Chunked

(* A reply behind what an earlier one has left is a reply in order. *)
LEMMA AnswerInOrder ==
    ASSUME NEW pipe \in Seq(MailChunks), Spent(pipe),
           NEW code \in Nat, NEW offers \in BOOLEAN, NEW reply \in Mail!Chunked(code, offers)
    PROVE  /\ Orderly(pipe \o reply)
           /\ code = Mail!Refusal => NoAcceptance(pipe \o reply)
<1> DEFINE joined == pipe \o reply
<1>1. /\ reply \in Seq(MailChunks) /\ Len(reply) \in 1..3 /\ Orderly(reply)
      /\ reply[1].part # "tail" /\ reply[1].code = code
  BY ReplyShape
<1>2. /\ Len(joined) = Len(pipe) + Len(reply)
      /\ \A i \in 1..Len(pipe) : joined[i] = pipe[i]
      /\ \A i \in 1..Len(reply) : joined[Len(pipe) + i] = reply[i]
  BY <1>1, ConcatProperties, LenProperties
<1>3. CASE pipe = <<>>
  <2>1. joined = reply
    BY <1>1, <1>3, ConcatEmptySeq
  <2> QED
    BY <1>1, <2>1 DEF NoAcceptance
<1>4. CASE Len(pipe) = 1 /\ pipe[1].part = "tail"
  <2>1. joined[1].part = "tail" /\ Len(joined) = 1 + Len(reply)
    BY <1>2, <1>4
  <2>2. \A i \in 2..Len(joined) : joined[i] = reply[i - 1] /\ i - 1 \in 1..Len(reply)
    <3> SUFFICES ASSUME NEW i \in 2..Len(joined)
                 PROVE  joined[i] = reply[i - 1] /\ i - 1 \in 1..Len(reply)
      OBVIOUS
    <3>1. i - 1 \in 1..Len(reply) /\ 1 + (i - 1) = i
      BY <1>1, <2>1
    <3> HIDE DEF joined
    <3> QED
      BY <1>2, <1>4, <3>1
  <2> HIDE DEF joined
  <2>3. Orderly(joined)
    <3>1. ASSUME NEW i \in 1..Len(joined), NEW j \in 1..Len(joined), i < j,
                 EndsReply(joined[i])
          PROVE  joined[j].part = "tail"
      <4>1. i \in 2..Len(joined) /\ j \in 2..Len(joined)
        BY <2>1, <3>1 DEF EndsReply
      <4>2. joined[i] = reply[i - 1] /\ joined[j] = reply[j - 1] /\ i - 1 < j - 1
            /\ i - 1 \in 1..Len(reply) /\ j - 1 \in 1..Len(reply)
        BY <2>2, <3>1, <4>1
      <4> QED
        BY <1>1, <3>1, <4>2 DEF Orderly
    <3>2. ASSUME NEW j \in 2..Len(joined), joined[j].part = "tail"
          PROVE  joined[j - 1].part = "head"
      <4>1. joined[j] = reply[j - 1] /\ j - 1 \in 1..Len(reply)
        BY <2>2
      <4>2. j # 2
        BY <1>1, <3>2, <4>1
      <4>3. j - 1 \in 2..Len(joined) /\ j - 1 \in 2..Len(reply)
        BY <4>1, <4>2
      <4>4. joined[j - 1] = reply[(j - 1) - 1]
        BY <2>2, <4>3
      <4> QED
        BY <1>1, <3>2, <4>1, <4>3, <4>4 DEF Orderly
    <3> QED
      BY <3>1, <3>2 DEF Orderly
  <2>4. NoAcceptance(joined)
    BY <2>1 DEF NoAcceptance
  <2> QED
    BY <2>3, <2>4 DEF joined
<1> QED
  BY <1>3, <1>4 DEF Spent

(* A chunk that is taken moves from the wire to what has been received. *)
LEMMA TakeChunk ==
    ASSUME NEW got \in Seq(MailChunks), NEW rest \in Seq(MailChunks), rest # <<>>
    PROVE  /\ Append(got, Head(rest)) \in Seq(MailChunks) /\ Tail(rest) \in Seq(MailChunks)
           /\ Append(got, Head(rest)) \o Tail(rest) = got \o rest
           /\ Len(Append(got, Head(rest))) = Len(got) + 1
           /\ \A i \in 1..Len(got) : Append(got, Head(rest))[i] = got[i]
           /\ Append(got, Head(rest))[Len(got) + 1] = Head(rest)
           /\ (got \o rest)[1] = Append(got, Head(rest))[1]
           /\ got \o rest # <<>>
<1>1. /\ Append(got, Head(rest)) \in Seq(MailChunks) /\ Tail(rest) \in Seq(MailChunks)
      /\ Len(Append(got, Head(rest))) = Len(got) + 1
      /\ \A i \in 1..Len(got) : Append(got, Head(rest))[i] = got[i]
      /\ Append(got, Head(rest))[Len(got) + 1] = Head(rest)
      /\ Len(Tail(rest)) = Len(rest) - 1
      /\ \A i \in 1..Len(Tail(rest)) : Tail(rest)[i] = rest[i + 1]
      /\ Head(rest) = rest[1] /\ Len(rest) \in Nat \ {0} /\ Len(got) \in Nat
  BY HeadTailProperties, EmptySeq
<1>2. PICK taken1 \in Seq(MailChunks) : taken1 = Append(got, Head(rest))
  BY <1>1
<1>3. PICK left \in Seq(MailChunks) : left = Tail(rest)
  BY <1>1
<1>4. /\ taken1 \o left \in Seq(MailChunks) /\ got \o rest \in Seq(MailChunks)
      /\ Len(taken1 \o left) = Len(taken1) + Len(left)
      /\ Len(got \o rest) = Len(got) + Len(rest)
      /\ \A i \in 1..(Len(taken1) + Len(left)) :
            (taken1 \o left)[i] = IF i <= Len(taken1) THEN taken1[i] ELSE left[i - Len(taken1)]
      /\ \A i \in 1..(Len(got) + Len(rest)) :
            (got \o rest)[i] = IF i <= Len(got) THEN got[i] ELSE rest[i - Len(got)]
  BY ConcatProperties
<1>5. \A i \in 1..Len(got \o rest) : (taken1 \o left)[i] = (got \o rest)[i]
  BY <1>1, <1>2, <1>3, <1>4
<1>6. taken1 \o left = got \o rest
  BY <1>1, <1>2, <1>3, <1>4, <1>5, SeqEqual
<1>7. (got \o rest)[1] = taken1[1] /\ got \o rest # <<>>
  BY <1>1, <1>2, <1>3, <1>4, EmptySeq
<1> QED
  BY <1>1, <1>2, <1>3, <1>6, <1>7

(* What is left when a reply has been taken that did not begin with the end of
   another. *)
LEMMA ReplyTaken ==
    ASSUME NEW got \in Seq(MailChunks), NEW rest \in Seq(MailChunks), rest # <<>>,
           Orderly(got \o rest), \A i \in 1..Len(got) : ~EndsReply(got[i]),
           Mail!Complete(Append(got, Head(rest))),
           Append(got, Head(rest))[1].part # "tail"
    PROVE  /\ EndsReply(Head(rest))
           /\ Spent(Tail(rest))
<1> DEFINE pipe == got \o rest
           n == Len(got)
<1> PICK left \in Seq(MailChunks) : left = Tail(rest)
  BY HeadTailProperties
<1>1. /\ n \in Nat /\ Len(rest) \in Nat \ {0} /\ Head(rest) = rest[1]
      /\ Len(left) \in Nat /\ Len(left) = Len(rest) - 1
      /\ \A i \in 1..Len(left) : left[i] = rest[i + 1]
  BY HeadTailProperties, EmptySeq, LenProperties
<1>2. /\ Len(pipe) = n + Len(rest)
      /\ \A i \in 1..n : pipe[i] = got[i]
      /\ \A i \in 1..Len(rest) : pipe[n + i] = rest[i]
  <2>1. /\ Len(pipe) = Len(got) + Len(rest)
        /\ \A i \in 1..(Len(got) + Len(rest)) :
              pipe[i] = IF i <= Len(got) THEN got[i] ELSE rest[i - Len(got)]
    BY ConcatProperties
  <2> QED
    BY <1>1, <2>1
<1>3. LET received == Append(got, Head(rest))
      IN  /\ Len(received) = n + 1 /\ received[n + 1] = rest[1]
          /\ \A i \in 1..n : received[i] = got[i]
  BY TakeChunk, <1>1
<1>4. EndsReply(rest[1])
  <2>1. rest[1].part \in {"line", "head"} \/ (rest[1].part = "tail" /\ n + 1 > 1)
    BY <1>3 DEF Mail!Complete, Mail!Last
  <2>2. ASSUME rest[1].part = "tail", n + 1 > 1 PROVE FALSE
    <3>1. n \in 1..n /\ n + 1 \in 2..Len(pipe)
      BY <1>1, <1>2, <2>2
    <3>2. pipe[n + 1] = rest[1] /\ pipe[(n + 1) - 1] = got[n]
      BY <1>1, <1>2, <3>1
    <3>3. got[n].part = "head"
      BY <2>2, <3>1, <3>2 DEF Orderly
    <3> QED
      BY <3>1, <3>3 DEF EndsReply
  <2> QED
    BY <2>1, <2>2 DEF EndsReply
<1>5. ASSUME NEW i \in 1..Len(left) PROVE left[i].part = "tail"
  <2>1. n + 1 \in 1..Len(pipe) /\ n + (i + 1) \in 1..Len(pipe) /\ n + 1 < n + (i + 1)
        /\ i + 1 \in 1..Len(rest)
    BY <1>1, <1>2
  <2>2. pipe[n + 1] = rest[1] /\ pipe[n + (i + 1)] = left[i]
    BY <1>1, <1>2, <2>1
  <2> HIDE DEF pipe, n
  <2> QED
    BY <1>4, <2>1, <2>2 DEF Orderly, pipe
<1>6. Len(left) <= 1
  <2> SUFFICES ASSUME Len(left) > 1 PROVE FALSE
    BY <1>1
  <2>1. left[2].part = "tail"
    <3>1. 2 \in 1..Len(left)
      BY <1>1
    <3> QED
      BY <1>5, <3>1
  <2>2. pipe[n + 3] = left[2] /\ pipe[(n + 3) - 1] = left[1]
        /\ n + 3 \in 2..Len(pipe)
    <3>1. left[2] = rest[3] /\ left[1] = rest[2] /\ Len(rest) >= 3
      BY <1>1
    <3>2. pipe[n + 3] = rest[3] /\ pipe[n + 2] = rest[2] /\ (n + 3) - 1 = n + 2
      BY <1>1, <1>2, <3>1
    <3> QED
      BY <1>1, <1>2, <3>1, <3>2
  <2>3. left[1].part = "head"
    BY <2>1, <2>2 DEF Orderly
  <2>4. 1 \in 1..Len(left)
    BY <1>1
  <2> QED
    BY <1>5, <2>3, <2>4
<1>7. Spent(left)
  <2>1. CASE Len(left) = 0
    <3>1. left = <<>>
      BY <2>1, EmptySeq
    <3> QED
      BY <3>1, Zenon DEF Spent
  <2>2. ASSUME Len(left) # 0 PROVE Spent(left)
    <3>1. Len(left) = 1 /\ 1 \in 1..Len(left)
      BY <1>1, <1>6, <2>2
    <3>2. left[1].part = "tail"
      BY <1>5, <3>1
    <3> QED
      BY <3>1, <3>2, Zenon DEF Spent
  <2> QED
    BY <2>1, <2>2
<1> QED
  BY <1>1, <1>4, <1>7

-----------------------------------------------------------------------------
(* A stage whose command goes out over what is empty or the rest of a reply. *)
LEMMA FreshStage ==
    ASSUME NEW pipe \in Seq(MailChunks), Spent(pipe)
    PROVE  Orderly(pipe) /\ NoAcceptance(pipe)
<1>1. CASE pipe = <<>>
  BY <1>1, EmptySeq DEF Orderly, NoAcceptance
<1>2. CASE Len(pipe) = 1 /\ pipe[1].part = "tail"
  <2>1. NoAcceptance(pipe)
    BY <1>2 DEF NoAcceptance
  <2>2. Orderly(pipe)
    BY <1>2 DEF Orderly, EndsReply
  <2> QED
    BY <2>1, <2>2
<1> QED
  BY <1>1, <1>2 DEF Spent

LEMMA MailInitInv == Mail!Init => MailInv
  BY EmptySeq DEF Mail!Init, MailInv, MailTypes, MailPipe, MailChannel, Mail!SentMeansTaken,
     Commands, Mail!Ended

(* send() up to the connection. *)
LEMMA MailStartInv == ASSUME MailInv, Mail!Start PROVE MailInv'
<1>1. /\ at = "idle" /\ buffer = <<>> /\ wire = <<>> /\ clear' = clear /\ taken' = taken
      /\ config' = config /\ buffer' = buffer /\ wire' = wire /\ config \in Mail!Configs
      /\ at' \in {"held", "failed", "greeting", "post"}
      /\ at' \in {"held", "failed"} => asked' = asked /\ secure' = secure
      /\ at' \in {"greeting", "post"} => asked' = at'
      /\ at' = "greeting" => secure' = config.implicit
      /\ at' = "post" => secure' = TRUE
  BY DEF MailInv, MailTypes, MailPipe, Mail!Start, Mail!Enter, Mail!Ended, Commands
<1>2. MailTypes'
  <2>1. /\ at' \in Commands \cup {"idle", "post", "upgrade"} \cup Mail!Ended
        /\ asked' \in Commands \cup {"nothing", "post"}
    BY <1>1 DEF MailInv, MailTypes, Mail!Ended, Commands
  <2>2. secure' \in BOOLEAN
    <3>1. config.implicit \in BOOLEAN
      BY <1>1 DEF Mail!Configs
    <3> QED
      BY <1>1, <3>1 DEF MailInv, MailTypes
  <2> QED
    BY <1>1, <2>1, <2>2 DEF MailInv, MailTypes
<1>3. MailPipe'
  <2>1. <<>> \in Seq(MailChunks) /\ Len(<<>>) = 0
    BY EmptySeq
  <2>3. buffer' \o wire' = <<>>
    BY <1>1, <2>1, ConcatEmptySeq
  <2>4. Spent(<<>>)
    BY Zenon DEF Spent
  <2>2. Orderly(<<>>) /\ NoAcceptance(<<>>)
    BY <2>1, <2>4, FreshStage
  <2> QED
    BY <1>1, <2>1, <2>2, <2>3, <2>4 DEF MailPipe, Commands
<1>4. MailChannel' /\ Mail!SentMeansTaken'
  BY <1>1 DEF MailInv, MailChannel, Mail!SentMeansTaken, Commands
<1> QED
  BY <1>2, <1>3, <1>4 DEF MailInv

LEMMA MailPostInv == ASSUME MailInv, Mail!Post PROVE MailInv'
  BY DEF MailInv, MailTypes, MailPipe, MailChannel, Mail!SentMeansTaken, Mail!Post, Mail!Enter,
     Mail!Ended, Commands

(* The relay answers, or refuses, in its own chunks. *)
LEMMA MailAnswerInv == ASSUME MailInv, Mail!Answer PROVE MailInv'
<1>1. asked \in Commands /\ UNCHANGED <<config, at, secure, buffer, clear>>
      /\ asked' = "nothing"
  BY DEF MailInv, MailTypes, Mail!Answer
<1>2. PICK code \in Mail!Expected(asked) \cup {Mail!Refusal} :
         /\ \E reply \in Mail!Chunked(code, config.starttls /\ asked = "ehlo" /\ code = 250) :
               wire' = wire \o reply
         /\ taken' = (taken \/ (asked = "body" /\ code # Mail!Refusal))
  BY DEF Mail!Answer
<1>3. code \in Nat
  BY <1>1, CodesExpected DEF Mail!Refusal
<1>4. PICK offers \in BOOLEAN : offers = (config.starttls /\ asked = "ehlo" /\ code = 250)
  OBVIOUS
<1>5. PICK reply \in Mail!Chunked(code, offers) : wire' = wire \o reply
  BY <1>2, <1>4
<1>6. reply \in Seq(MailChunks)
  BY <1>3, ReplyShape
<1>7. /\ wire \in Seq(MailChunks) /\ buffer \in Seq(MailChunks) /\ wire' \in Seq(MailChunks)
      /\ buffer \o wire \in Seq(MailChunks)
      /\ buffer' \o wire' = (buffer \o wire) \o reply
  BY <1>1, <1>5, <1>6, ConcatProperties, ConcatAssociative DEF MailInv, MailTypes
<1>8. MailTypes'
  BY <1>1, <1>2, <1>7 DEF MailInv, MailTypes
<1>9. MailPipe'
  <2>1. at # "idle"
    BY <1>1 DEF MailInv, MailPipe, Commands
  <2> SUFFICES ASSUME at \in Commands PROVE MailPipe'
    BY <1>1, <2>1 DEF MailPipe
  <2>2. /\ \A i \in 1..Len(buffer) : ~EndsReply(buffer[i])
        /\ asked = at /\ Spent(buffer \o wire)
    BY <1>1 DEF MailInv, MailPipe, Commands
  <2>3. /\ Orderly((buffer \o wire) \o reply)
        /\ code = Mail!Refusal => NoAcceptance((buffer \o wire) \o reply)
    BY <1>3, <1>7, <2>2, AnswerInOrder
  <2>4. at = "body" /\ ~taken' => code = Mail!Refusal
    BY <1>2, <2>2
  <2> QED
    BY <1>1, <1>7, <2>1, <2>2, <2>3, <2>4 DEF MailPipe
<1>10. MailChannel'
  BY <1>1 DEF MailInv, MailChannel
<1>11. Mail!SentMeansTaken'
  BY <1>1, <1>2 DEF MailInv, MailTypes, Mail!SentMeansTaken
<1> QED
  BY <1>8, <1>9, <1>10, <1>11 DEF MailInv

(* A chunk that does not complete its reply only moves. *)
LEMMA MailMoreInv ==
    ASSUME MailInv, Mail!Waiting, wire # <<>>, wire' = Tail(wire),
           ~Mail!Complete(Append(buffer, Head(wire))), buffer' = Append(buffer, Head(wire)),
           UNCHANGED <<config, at, secure, asked, taken, clear>>
    PROVE  MailInv'
<1>1. at \in Commands
  BY DEF MailInv, MailTypes, Mail!Waiting, Commands, Mail!Ended
<1>2. buffer \in Seq(MailChunks) /\ wire \in Seq(MailChunks)
  BY DEF MailInv, MailTypes
<1>3. /\ buffer' \in Seq(MailChunks) /\ wire' \in Seq(MailChunks)
      /\ buffer' \o wire' = buffer \o wire
      /\ Len(buffer') = Len(buffer) + 1 /\ Len(buffer) \in Nat
      /\ \A i \in 1..Len(buffer) : buffer'[i] = buffer[i]
  BY <1>2, TakeChunk, LenProperties
<1>4. ~EndsReply(buffer'[Len(buffer')])
  BY DEF Mail!Complete, Mail!Last, EndsReply
<1>5. \A i \in 1..Len(buffer') : ~EndsReply(buffer'[i])
  <2> SUFFICES ASSUME NEW i \in 1..Len(buffer') PROVE ~EndsReply(buffer'[i])
    OBVIOUS
  <2>1. CASE i = Len(buffer')
    BY <1>4, <2>1
  <2>2. CASE i # Len(buffer')
    <3>1. i \in 1..Len(buffer) /\ ~EndsReply(buffer[i])
      BY <1>1, <1>3, <2>2 DEF MailInv, MailPipe
    <3> QED
      BY <1>3, <3>1
  <2> QED
    BY <2>1, <2>2
<1>6. MailTypes'
  BY <1>3 DEF MailInv, MailTypes
<1>7. MailPipe'
  BY <1>1, <1>3, <1>5 DEF MailInv, MailPipe, Commands
<1>8. MailChannel' /\ Mail!SentMeansTaken'
  BY DEF MailInv, MailChannel, Mail!SentMeansTaken
<1> QED
  BY <1>6, <1>7, <1>8 DEF MailInv

(* A reply that is complete: the next command, or the end. *)
LEMMA MailTakenInv ==
    ASSUME MailInv, Mail!Waiting, wire # <<>>, wire' = Tail(wire), buffer' = <<>>,
           Mail!Complete(Append(buffer, Head(wire))),
           UNCHANGED <<config, secure, taken>>,
           NEW stage, Mail!Enter(stage),
           \/ stage = "failed"
           \/ /\ Append(buffer, Head(wire))[1].part # "tail"
              /\ Append(buffer, Head(wire))[1].code # Mail!Refusal
              /\ \E offered \in BOOLEAN : stage = Mail!After(at, offered)
    PROVE  MailInv'
<1>1. at \in Commands /\ config \in Mail!Configs
  BY DEF MailInv, MailTypes, Mail!Waiting, Commands, Mail!Ended
<1>2. buffer \in Seq(MailChunks) /\ wire \in Seq(MailChunks) /\ wire' \in Seq(MailChunks)
  BY TakeChunk DEF MailInv, MailTypes
<1>3. stage \in Commands \cup {"upgrade", "sent", "failed"} /\ stage # "ehlo_again"
  BY <1>1, AfterReply DEF Commands
<1>4. /\ at' = stage
      /\ stage \in Commands => asked' = stage
      /\ stage \notin Commands => asked' = asked
      /\ clear' = IF secure \/ stage \notin {"auth", "body"} THEN clear ELSE clear \cup {stage}
  BY <1>3 DEF Mail!Enter, Mail!Ended, Commands
<1>5. MailTypes'
  BY <1>2, <1>3, <1>4, EmptySeq DEF MailInv, MailTypes, Mail!Ended
<1>6. /\ buffer' \o wire' = Tail(wire)
      /\ Len(buffer') = 0
  BY <1>2, ConcatEmptySeq, EmptySeq
<1>7. MailPipe'
  <2> SUFFICES ASSUME stage \in Commands PROVE MailPipe'
    BY <1>3, <1>4 DEF MailPipe
  <2>1. Append(buffer, Head(wire))[1].part # "tail"
    BY DEF Commands
  <2>2. Orderly(buffer \o wire) /\ \A i \in 1..Len(buffer) : ~EndsReply(buffer[i])
    BY <1>1 DEF MailInv, MailPipe
  <2>3. Spent(Tail(wire))
    BY <1>2, <2>1, <2>2, ReplyTaken
  <2>4. Orderly(Tail(wire)) /\ NoAcceptance(Tail(wire))
    BY <1>2, <2>3, FreshStage
  <2> QED
    BY <1>4, <1>6, <2>3, <2>4 DEF MailPipe, Commands
<1>8. MailChannel'
  <2> SUFFICES ASSUME stage \in Commands \cup {"upgrade"} PROVE MailChannel'
    BY <1>4 DEF MailChannel, Commands
  <2>1. \E offered \in BOOLEAN : stage = Mail!After(at, offered)
    BY DEF Commands
  <2>2. stage \in {"auth", "mail", "rcpt", "data", "body"} =>
           \/ at \in {"ehlo_again", "auth", "mail", "rcpt", "data"}
           \/ at = "ehlo" /\ (config.implicit \/ config.insecure)
    BY <1>1, <2>1, AfterReply
  <2> QED
    BY <1>1, <1>3, <1>4, <2>2 DEF MailInv, MailChannel
<1>9. Mail!SentMeansTaken'
  <2>1. ASSUME stage = "sent" PROVE taken
    <3>1. \E offered \in BOOLEAN : stage = Mail!After(at, offered)
      BY <2>1
    <3>2. at = "body"
      BY <1>1, <2>1, <3>1, AfterReply
    <3>3. /\ (buffer \o wire)[1] = Append(buffer, Head(wire))[1]
          /\ buffer \o wire # <<>>
      BY <1>2, TakeChunk
    <3>4. ~NoAcceptance(buffer \o wire)
      BY <2>1, <3>3 DEF NoAcceptance
    <3> QED
      BY <1>1, <3>2, <3>4 DEF MailInv, MailPipe
  <2>2. ASSUME clear' # clear PROVE config.insecure
    <3>1. ~secure /\ stage \in {"auth", "body"}
      BY <1>4, <2>2
    <3>2. \E offered \in BOOLEAN : stage = Mail!After(at, offered)
      BY <3>1
    <3> QED
      BY <1>1, <3>1, <3>2, AfterReply DEF MailInv, MailChannel
  <2> QED
    BY <1>4, <2>1, <2>2 DEF MailInv, Mail!SentMeansTaken
<1> QED
  BY <1>5, <1>7, <1>8, <1>9 DEF MailInv

(* The waiter takes a chunk. *)
LEMMA MailReceiveInv == ASSUME MailInv, Mail!Receive PROVE MailInv'
<1> DEFINE received == Append(buffer, Head(wire))
           code == IF received[1].part = "tail" THEN 0 ELSE received[1].code
           offered == \E i \in DOMAIN received : received[i].offers
<1>1. /\ Mail!Waiting /\ wire # <<>> /\ wire' = Tail(wire) /\ UNCHANGED <<config, secure, taken>>
      /\ \/ ~Mail!Complete(received) /\ buffer' = received /\ UNCHANGED <<at, asked, clear>>
         \/ /\ Mail!Complete(received) /\ buffer' = <<>>
            /\ \/ code \in Mail!Expected(at) /\ Mail!Enter(Mail!After(at, offered))
               \/ Mail!Enter("failed")
  BY DEF Mail!Receive
<1>2. at \in Commands
  BY <1>1 DEF MailInv, MailTypes, Mail!Waiting, Commands, Mail!Ended
<1>3. CASE ~Mail!Complete(received) /\ buffer' = received /\ UNCHANGED <<at, asked, clear>>
  BY <1>1, <1>3, MailMoreInv
<1>4. CASE Mail!Complete(received) /\ buffer' = <<>> /\ Mail!Enter("failed")
  BY <1>1, <1>4, MailTakenInv
<1>5. ASSUME Mail!Complete(received), buffer' = <<>>, code \in Mail!Expected(at),
             Mail!Enter(Mail!After(at, offered))
      PROVE  MailInv'
  <2>1. code # 0 /\ code # Mail!Refusal
    BY <1>2, <1>5, CodesExpected
  <2>2. received[1].part # "tail" /\ received[1].code # Mail!Refusal
    BY <2>1
  <2>3. PICK o \in BOOLEAN : o = offered
    OBVIOUS
  <2> HIDE DEF offered
  <2>4. PICK stage : stage = Mail!After(at, offered)
    OBVIOUS
  <2>5. Mail!Enter(stage)
    BY <1>5, <2>4
  <2> QED
    BY <1>1, <1>5, <2>2, <2>3, <2>4, <2>5, MailTakenInv
<1> QED
  BY <1>1, <1>3, <1>4, <1>5

(* The handshake, which nothing received before survives. *)
LEMMA MailUpgradeInv == ASSUME MailInv, Mail!Upgrade PROVE MailInv'
<1>1. CASE wire = <<>> /\ secure' = TRUE /\ buffer' = <<>> /\ at' = "ehlo_again"
           /\ asked' = "ehlo_again"
  <2>1. UNCHANGED <<config, wire, taken, clear>>
    BY DEF Mail!Upgrade
  <2>2. <<>> \in Seq(MailChunks) /\ Len(<<>>) = 0
    BY EmptySeq
  <2>3. buffer' \o wire' = <<>>
    BY <1>1, <2>1, <2>2, ConcatEmptySeq
  <2>4. Spent(<<>>)
    BY Zenon DEF Spent
  <2>5. Orderly(<<>>)
    BY <2>2, <2>4, FreshStage
  <2>6. MailTypes'
    BY <1>1, <2>1, <2>2 DEF MailInv, MailTypes, Commands
  <2>7. MailPipe'
    BY <1>1, <2>1, <2>2, <2>3, <2>4, <2>5 DEF MailPipe
  <2>8. MailChannel' /\ Mail!SentMeansTaken'
    BY <1>1, <2>1 DEF MailInv, MailChannel, Mail!SentMeansTaken, Commands
  <2> QED
    BY <2>6, <2>7, <2>8 DEF MailInv
<1>2. CASE at' = "failed" /\ UNCHANGED <<secure, buffer, asked>>
  BY <1>2 DEF MailInv, MailTypes, MailPipe, MailChannel, Mail!SentMeansTaken, Mail!Upgrade,
     Mail!Ended, Commands
<1> QED
  BY <1>1, <1>2 DEF Mail!Upgrade

LEMMA MailFailInv == ASSUME MailInv, Mail!Fail PROVE MailInv'
  BY DEF MailInv, MailTypes, MailPipe, MailChannel, Mail!SentMeansTaken, Mail!Fail, Mail!Ended,
     Commands

LEMMA MailNextInv == MailInv /\ [Mail!Next]_(Mail!vars) => MailInv'
<1> SUFFICES ASSUME MailInv, [Mail!Next]_(Mail!vars) PROVE MailInv'
  OBVIOUS
<1>1. CASE UNCHANGED Mail!vars
  BY <1>1 DEF Mail!vars, MailInv, MailTypes, MailPipe, MailChannel, Mail!SentMeansTaken
<1> QED
  BY <1>1, MailStartInv, MailPostInv, MailAnswerInv, MailReceiveInv, MailUpgradeInv, MailFailInv
  DEF Mail!Next

(* SentMeansTaken, for every transport and however the relay cuts its replies:
   a send() that returns has had its message accepted, and neither credentials
   nor a message cross an open channel that the operator has not allowed
   (mail/transport.ts). *)
THEOREM SentIsTaken == Mail!Spec => []SentMeansTaken
<1>1. MailInv => SentMeansTaken
  BY DEF MailInv, SentMeansTaken
<1> QED
  BY <1>1, MailInitInv, MailNextInv, PTL DEF Mail!Spec
-----------------------------------------------------------------------------
(***************************************************************************)
(* RateLimit.  The counter of a key in the present window is never behind  *)
(* the requests it has let through: the only counters whose deletion is on *)
(* its way are of windows that are over.  The key of a request is its      *)
(* client, whatever its headers say, or the endpoint for all of them.      *)
(***************************************************************************)
RateKey(client) == IF tier = "api" /\ hops = 0 THEN Rate!Endpoint ELSE client

(* Those let through on this key in this window. *)
Through(k, w) ==
    {q \in Requests : /\ request[q].pc = "admitted" /\ request[q].key = k
                      /\ request[q].ordinal = w /\ ~request[q].late}

RateTypes ==
    /\ hops \in {0, 1} /\ tier \in {"auth", "api"}
    /\ window \in 1..MaxWindow
    /\ counters \in [Rate!Keys \X (0..MaxWindow) -> Nat]
    /\ request \in [Requests ->
          [pc : {"new", "add", "admitted", "refused", "open"}, client : Clients \cup {None},
           key : Rate!Keys \cup {None}, ordinal : 0..MaxWindow, late : BOOLEAN]]
    /\ \A q \in Requests : request[q].pc # "new" =>
          /\ request[q].client \in Clients
          /\ request[q].key = RateKey(request[q].client) /\ request[q].key \in Rate!Keys
          /\ request[q].ordinal \in 1..window

OldOnly == \A b \in deletes : b \in Rate!Keys \X (0..MaxWindow) /\ b[2] < window

RateCounts ==
    \A k \in Rate!Keys, w \in 1..MaxWindow :
        /\ IsFiniteSet(Through(k, w))
        /\ Cardinality(Through(k, w)) <= Rate!Ceiling(k)
        /\ w = window => Cardinality(Through(k, w)) <= counters[<<k, w>>]
        /\ w > window => Through(k, w) = {}

RateInv == RateTypes /\ OldOnly /\ RateCounts

(* resolveClient and what the two tiers fall back on. *)
LEMMA KeyIsTheClients ==
    ASSUME hops \in {0, 1}, tier \in {"auth", "api"}, NEW client \in Clients,
           NEW prefix \in {<<>>, <<Rate!Forged>>}
    PROVE  Rate!Key(Rate!Chain(client, prefix), Rate!Peer(client)) = RateKey(client)
<1>1. client # None
  BY MarkersApart
<1>2. CASE hops = 0
  BY <1>1, <1>2 DEF Rate!Key, Rate!Peer, Rate!Resolve, RateKey
<1>3. CASE hops = 1
  <2>1. Rate!Chain(client, prefix) = Append(prefix, client)
    BY <1>3 DEF Rate!Chain
  <2>2. /\ Len(Append(prefix, client)) >= 1 /\ Len(Append(prefix, client)) \in Nat
        /\ Append(prefix, client)[Len(Append(prefix, client))] = client
    <3>1. CASE prefix = <<>>
      BY <3>1
    <3>2. CASE prefix = <<Rate!Forged>>
      BY <3>2
    <3> QED
      BY <3>1, <3>2
  <2>3. Rate!Resolve(Append(prefix, client), Rate!Peer(client)) = client
    BY <1>3, <2>2 DEF Rate!Resolve
  <2> QED
    BY <1>1, <1>3, <2>1, <2>3 DEF Rate!Key, RateKey
<1> QED
  BY <1>2, <1>3

(* Steps that let nobody through. *)
LEMMA NobodyThrough ==
    ASSUME RateTypes, RateTypes', RateCounts, UNCHANGED <<hops, tier>>, window' = window,
           \A k \in Rate!Keys, w \in 1..MaxWindow :
              w = window => counters'[<<k, w>>] >= counters[<<k, w>>],
           \A q \in Requests : request'[q] # request[q] =>
              request[q].pc # "admitted" /\ request'[q].pc # "admitted"
    PROVE  RateCounts'
<1>1. \A k \in Rate!Keys, w \in 1..MaxWindow : Through(k, w)' = Through(k, w)
  BY DEF Through
<1>2. ASSUME NEW k \in Rate!Keys, NEW w \in 1..MaxWindow
      PROVE  /\ IsFiniteSet(Through(k, w)')
             /\ Cardinality(Through(k, w)') <= Rate!Ceiling(k)'
             /\ w = window' => Cardinality(Through(k, w)') <= counters'[<<k, w>>]
             /\ w > window' => Through(k, w)' = {}
  <2>1. Through(k, w)' = Through(k, w) /\ Rate!Ceiling(k)' = Rate!Ceiling(k)
    BY <1>1 DEF Rate!Ceiling
  <2>2. /\ IsFiniteSet(Through(k, w))
        /\ Cardinality(Through(k, w)) <= Rate!Ceiling(k)
        /\ w = window => Cardinality(Through(k, w)) <= counters[<<k, w>>]
        /\ w > window => Through(k, w) = {}
    BY DEF RateCounts
  <2>3. Cardinality(Through(k, w)) \in Nat
    BY <2>2, FS_CardinalityType
  <2>4. counters[<<k, w>>] \in Nat /\ counters'[<<k, w>>] \in Nat
    BY DEF RateTypes
  <2> QED
    BY <2>1, <2>2, <2>3, <2>4
<1> QED
  BY <1>2 DEF RateCounts

-----------------------------------------------------------------------------
LEMMA RateInitInv == Rate!Init => RateInv
<1> SUFFICES ASSUME Rate!Init PROVE RateInv
  OBVIOUS
<1>1. RateTypes
  BY LimitsOK DEF Rate!Init, Rate!New, RateTypes
<1>2. OldOnly
  BY DEF Rate!Init, OldOnly
<1>3. RateCounts
  <2> SUFFICES ASSUME NEW k \in Rate!Keys, NEW w \in 1..MaxWindow
               PROVE  /\ IsFiniteSet(Through(k, w))
                      /\ Cardinality(Through(k, w)) <= Rate!Ceiling(k)
                      /\ w = window => Cardinality(Through(k, w)) <= counters[<<k, w>>]
                      /\ w > window => Through(k, w) = {}
    BY DEF RateCounts
  <2>1. Through(k, w) = {}
    BY DEF Through, Rate!Init, Rate!New
  <2>2. IsFiniteSet({}) /\ Cardinality({}) = 0
    BY FS_EmptySet
  <2>3. Rate!Ceiling(k) \in Nat /\ counters[<<k, w>>] = 0
    BY LimitsOK DEF Rate!Ceiling, Rate!Init
  <2> QED
    BY <2>1, <2>2, <2>3
<1> QED
  BY <1>1, <1>2, <1>3 DEF RateInv

LEMMA RateArriveInv ==
    ASSUME RateInv, NEW q \in Requests, NEW c \in Clients, NEW prefix \in {<<>>, <<Rate!Forged>>},
           Rate!Arrive(q, c, prefix)
    PROVE  RateInv'
<1>1. PICK k : k = RateKey(c)
  OBVIOUS
<1>2. /\ request[q].pc = "new"
      /\ request' = [request EXCEPT ![q] =
            [pc |-> "add", client |-> c, key |-> k, ordinal |-> window, late |-> FALSE]]
      /\ UNCHANGED <<hops, tier, window, counters, deletes>>
  BY <1>1, KeyIsTheClients DEF RateInv, RateTypes, Rate!Arrive
<1>3. k \in Rate!Keys
  BY <1>1 DEF RateKey, Rate!Keys
<1>4. RateTypes'
  BY <1>1, <1>2, <1>3 DEF RateInv, RateTypes, RateKey
<1>5. OldOnly'
  BY <1>2 DEF RateInv, OldOnly
<1>6. RateCounts'
  <2>1. \A p \in Requests : request'[p] # request[p] =>
           request[p].pc # "admitted" /\ request'[p].pc # "admitted"
    BY <1>2 DEF RateInv, RateTypes
  <2>2. \A i \in Rate!Keys, w \in 1..MaxWindow : counters'[<<i, w>>] >= counters[<<i, w>>]
    BY <1>2 DEF RateInv, RateTypes
  <2> QED
    BY <1>2, <1>4, <2>1, <2>2, NobodyThrough DEF RateInv
<1> QED
  BY <1>4, <1>5, <1>6 DEF RateInv

(* counterAdd, and the verdict on its answer. *)
LEMMA RateAddInv == ASSUME RateInv, NEW q \in Requests, Rate!Add(q) PROVE RateInv'
<1>1. PICK k \in Rate!Keys : k = request[q].key
  <2>1. request[q].pc = "add"
    BY DEF Rate!Add
  <2>2. request[q].key \in Rate!Keys
    BY <2>1 DEF RateInv, RateTypes
  <2> QED
    BY <2>2
<1>2. PICK o \in 1..MaxWindow : o = request[q].ordinal /\ o <= window
  <2>1. request[q].pc = "add" /\ request[q].pc # "new"
    BY DEF Rate!Add
  <2>2. request[q].ordinal \in 1..window /\ window \in 1..MaxWindow
    BY <2>1 DEF RateInv, RateTypes
  <2>3. request[q].ordinal \in 1..MaxWindow /\ request[q].ordinal <= window
    BY <2>2, LimitsOK
  <2> QED
    BY <2>3
<1>3. PICK count \in Nat : count = counters[<<k, o>>] + 1
  BY <1>1, <1>2 DEF RateInv, RateTypes
<1>4. PICK verdict \in {"refused", "admitted"} :
         verdict = Rate!Verdict(k, count)
  BY DEF Rate!Verdict
<1>5. PICK late \in BOOLEAN : late = (window > o) /\ (~late => window <= o)
  <2>1. window \in Nat /\ o \in Nat
    BY <1>2 DEF RateInv, RateTypes
  <2>2. CASE window > o
    BY <2>1, <2>2
  <2>3. CASE window <= o
    <3>1. FALSE = (window > o)
      BY <2>1, <2>3
    <3> QED
      BY <2>3, <3>1
  <2> QED
    BY <2>1, <2>2, <2>3
<1>6. /\ request[q].pc = "add" /\ UNCHANGED <<hops, tier, window>>
      /\ counters' = [counters EXCEPT ![<<k, o>>] = count]
      /\ deletes' = IF count = 1 THEN deletes \cup {<<k, o - 1>>} ELSE deletes
      /\ request' = [request EXCEPT ![q].pc = verdict, ![q].late = late]
  BY <1>1, <1>2, <1>3, <1>4, <1>5 DEF Rate!Add, Rate!Expired
<1>7. RateTypes'
  BY <1>2, <1>6 DEF RateInv, RateTypes, RateKey
<1>8. OldOnly'
  <2>1. \A b \in deletes : b \in Rate!Keys \X (0..MaxWindow) /\ b[2] < window
    BY DEF RateInv, OldOnly
  <2>2. <<k, o - 1>> \in Rate!Keys \X (0..MaxWindow) /\ <<k, o - 1>>[2] < window
    <3>1. o - 1 \in 0..MaxWindow /\ o - 1 < window
      <4>1. window \in 1..MaxWindow /\ MaxWindow \in Nat
        BY LimitsOK DEF RateInv, RateTypes
      <4> QED
        BY <1>2, <4>1
    <3> QED
      BY <3>1
  <2> QED
    BY <1>6, <2>1, <2>2 DEF OldOnly
<1>9. ASSUME NEW i \in Rate!Keys, NEW w \in 1..MaxWindow
      PROVE  /\ IsFiniteSet(Through(i, w)')
             /\ Cardinality(Through(i, w)') <= Rate!Ceiling(i)'
             /\ w = window' => Cardinality(Through(i, w)') <= counters'[<<i, w>>]
             /\ w > window' => Through(i, w)' = {}
  <2>1. /\ IsFiniteSet(Through(i, w))
        /\ Cardinality(Through(i, w)) <= Rate!Ceiling(i)
        /\ w = window => Cardinality(Through(i, w)) <= counters[<<i, w>>]
        /\ w > window => Through(i, w) = {}
    BY DEF RateInv, RateCounts
  <2>2. Cardinality(Through(i, w)) \in Nat
    BY <2>1, FS_CardinalityType
  <2>3. Rate!Ceiling(i)' = Rate!Ceiling(i) /\ window' = window /\ window \in Nat
    BY <1>6 DEF Rate!Ceiling, RateInv, RateTypes
  <2>4. counters[<<i, w>>] \in Nat /\ counters'[<<i, w>>] >= counters[<<i, w>>]
        /\ counters'[<<i, w>>] \in Nat
    BY <1>3, <1>6 DEF RateInv, RateTypes
  <2>5. CASE verdict = "admitted" /\ ~late /\ i = k /\ w = o
    <3>1. Through(i, w)' = Through(i, w) \cup {q} /\ q \notin Through(i, w)
      BY <1>1, <1>2, <1>6, <2>5 DEF Through, RateInv, RateTypes
    <3>2. /\ IsFiniteSet(Through(i, w) \cup {q})
          /\ Cardinality(Through(i, w) \cup {q}) = Cardinality(Through(i, w)) + 1
      BY <2>1, <3>1, FS_AddElement
    <3>3. w = window
      BY <1>2, <1>5, <2>3, <2>5
    <3>4. count <= Rate!Ceiling(i) /\ counters'[<<i, w>>] = count /\ Rate!Ceiling(i) \in Nat
      BY <1>3, <1>4, <1>6, <2>5, LimitsOK DEF RateInv, RateTypes, Rate!Ceiling, Rate!Verdict
    <3>5. count = counters[<<i, w>>] + 1
      BY <1>3, <2>5
    <3>6. Cardinality(Through(i, w)) + 1 <= count
      BY <2>1, <2>2, <2>4, <3>3, <3>5
    <3> QED
      BY <2>2, <2>3, <3>1, <3>2, <3>3, <3>4, <3>6
  <2>6. CASE ~(verdict = "admitted" /\ ~late /\ i = k /\ w = o)
    <3>1. Through(i, w)' = Through(i, w)
      BY <1>1, <1>2, <1>6, <2>6 DEF Through, RateInv, RateTypes
    <3> QED
      BY <2>1, <2>2, <2>3, <2>4, <3>1
  <2> QED
    BY <2>5, <2>6
<1>10. RateCounts'
  BY <1>9 DEF RateCounts
<1> QED
  BY <1>7, <1>8, <1>10 DEF RateInv

LEMMA RateAddFailsInv == ASSUME RateInv, NEW q \in Requests, Rate!AddFails(q) PROVE RateInv'
<1>1. PICK b \in Rate!Keys \X (0..MaxWindow) : b = <<request[q].key, request[q].ordinal>>
  BY DEF RateInv, RateTypes, Rate!AddFails
<1>2. /\ request[q].pc = "add" /\ UNCHANGED <<hops, tier, window, deletes>>
      /\ request' = [request EXCEPT ![q].pc = "open"]
      /\ counters' = counters \/ counters' = [counters EXCEPT ![b] = @ + 1]
  BY <1>1 DEF Rate!AddFails
<1>3. RateTypes'
  BY <1>2 DEF RateInv, RateTypes, RateKey
<1>4. OldOnly'
  BY <1>2 DEF RateInv, OldOnly
<1>5. RateCounts'
  <2>1. \A p \in Requests : request'[p] # request[p] =>
           request[p].pc # "admitted" /\ request'[p].pc # "admitted"
    BY <1>2 DEF RateInv, RateTypes
  <2>2. \A i \in Rate!Keys, w \in 1..MaxWindow : counters'[<<i, w>>] >= counters[<<i, w>>]
    BY <1>2 DEF RateInv, RateTypes
  <2> QED
    BY <1>2, <1>3, <2>1, <2>2, NobodyThrough DEF RateInv
<1> QED
  BY <1>3, <1>4, <1>5 DEF RateInv

(* The deletion of a counter, which is of a window that is over. *)
LEMMA RateDeleteInv == ASSUME RateInv, NEW b \in deletes, Rate!Delete(b) PROVE RateInv'
<1>1. b \in Rate!Keys \X (0..MaxWindow) /\ b[2] < window
  BY DEF RateInv, OldOnly
<1>2. /\ UNCHANGED <<hops, tier, window, request>> /\ deletes' = deletes \ {b}
      /\ counters' = counters \/ counters' = [counters EXCEPT ![b] = 0]
  BY DEF Rate!Delete
<1>3. RateTypes'
  BY <1>2 DEF RateInv, RateTypes, RateKey
<1>4. OldOnly'
  BY <1>2 DEF RateInv, OldOnly
<1>5. RateCounts'
  <2>1. \A i \in Rate!Keys, w \in 1..MaxWindow :
           w = window => counters'[<<i, w>>] >= counters[<<i, w>>]
    BY <1>1, <1>2 DEF RateInv, RateTypes
  <2>2. \A p \in Requests : request'[p] = request[p]
    BY <1>2
  <2> QED
    BY <1>2, <1>3, <2>1, <2>2, NobodyThrough DEF RateInv
<1> QED
  BY <1>3, <1>4, <1>5 DEF RateInv

LEMMA RateNextWindowInv == ASSUME RateInv, Rate!NextWindow PROVE RateInv'
<1>1. window' = window + 1 /\ window' \in 1..MaxWindow
      /\ UNCHANGED <<hops, tier, counters, deletes, request>>
  BY LimitsOK DEF RateInv, RateTypes, Rate!NextWindow
<1>2. RateTypes'
  BY <1>1 DEF RateInv, RateTypes, RateKey
<1>3. OldOnly'
  BY <1>1 DEF RateInv, RateTypes, OldOnly
<1>4. ASSUME NEW i \in Rate!Keys, NEW w \in 1..MaxWindow
      PROVE  /\ IsFiniteSet(Through(i, w)')
             /\ Cardinality(Through(i, w)') <= Rate!Ceiling(i)'
             /\ w = window' => Cardinality(Through(i, w)') <= counters'[<<i, w>>]
             /\ w > window' => Through(i, w)' = {}
  <2>1. /\ IsFiniteSet(Through(i, w))
        /\ Cardinality(Through(i, w)) <= Rate!Ceiling(i)
        /\ w > window => Through(i, w) = {}
    BY DEF RateInv, RateCounts
  <2>2. Through(i, w)' = Through(i, w) /\ Rate!Ceiling(i)' = Rate!Ceiling(i)
    BY <1>1 DEF Through, Rate!Ceiling
  <2>3. counters'[<<i, w>>] \in Nat /\ window \in Nat
    BY <1>1 DEF RateInv, RateTypes
  <2>4. Cardinality({}) = 0
    BY FS_EmptySet
  <2> QED
    BY <1>1, <2>1, <2>2, <2>3, <2>4
<1>5. RateCounts'
  BY <1>4 DEF RateCounts
<1> QED
  BY <1>2, <1>3, <1>5 DEF RateInv

LEMMA RateNextInv == RateInv /\ [Rate!Next]_(Rate!vars) => RateInv'
<1> SUFFICES ASSUME RateInv, [Rate!Next]_(Rate!vars) PROVE RateInv'
  OBVIOUS
<1>1. CASE UNCHANGED Rate!vars
  <2>1. UNCHANGED <<hops, tier, window, counters, deletes, request>>
    BY <1>1 DEF Rate!vars
  <2>2. RateTypes' /\ OldOnly'
    BY <2>1 DEF RateInv, RateTypes, OldOnly, RateKey
  <2>3. RateCounts'
    <3>1. \A i \in Rate!Keys, w \in 1..MaxWindow : counters'[<<i, w>>] >= counters[<<i, w>>]
      BY <2>1 DEF RateInv, RateTypes
    <3> QED
      BY <2>1, <2>2, <3>1, NobodyThrough DEF RateInv
  <2> QED
    BY <2>2, <2>3 DEF RateInv
<1> QED
  BY <1>1, RateArriveInv, RateAddInv, RateAddFailsInv, RateDeleteInv, RateNextWindowInv
  DEF Rate!Next

(* WindowHolds, for any number of requests, clients and windows, at any speed
   of the counters and of their deletion: no more of a client's requests than
   the limit are let through in a window, whatever its headers say, and of
   those nobody can name no more than the shared ceiling. *)
THEOREM NoMoreThanTheLimit == Rate!Spec => []WindowHolds
<1>1. RateInv => WindowHolds
  <2> SUFFICES ASSUME RateInv, NEW w \in 1..MaxWindow
               PROVE  IF tier = "api" /\ hops = 0
                      THEN Cardinality(Rate!Punctual(None, w, "admitted")) <= GlobalLimit
                      ELSE \A c \in Clients :
                              Cardinality(Rate!Punctual(c, w, "admitted")) <= Limit
    BY DEF WindowHolds, Rate!WindowHolds, Rate!Cardinality, Cardinality
  <2>1. CASE tier = "api" /\ hops = 0
    <3>1. Rate!Punctual(None, w, "admitted") = Through(Rate!Endpoint, w)
      BY <2>1 DEF Rate!Punctual, Through, RateInv, RateTypes, RateKey
    <3>2. Rate!Endpoint \in Rate!Keys /\ Rate!Ceiling(Rate!Endpoint) = GlobalLimit
      BY DEF Rate!Keys, Rate!Ceiling
    <3> QED
      BY <2>1, <3>1, <3>2 DEF RateInv, RateCounts
  <2>2. CASE ~(tier = "api" /\ hops = 0)
    <3> SUFFICES ASSUME NEW c \in Clients
                 PROVE  Cardinality(Rate!Punctual(c, w, "admitted")) <= Limit
      BY <2>2
    <3>1. c # None /\ c # Rate!Endpoint
      BY MarkersApart
    <3>2. Rate!Punctual(c, w, "admitted") = Through(c, w)
      BY <2>2, <3>1 DEF Rate!Punctual, Through, RateInv, RateTypes, RateKey
    <3>3. c \in Rate!Keys /\ Rate!Ceiling(c) = Limit
      BY <3>1 DEF Rate!Keys, Rate!Ceiling
    <3> QED
      BY <3>2, <3>3 DEF RateInv, RateCounts
  <2> QED
    BY <2>1, <2>2
<1> QED
  BY <1>1, RateInitInv, RateNextInv, PTL DEF Rate!Spec
-----------------------------------------------------------------------------
(***************************************************************************)
(* OperatorVerbs.  An invocation has its first answer before it asks for   *)
(* the other store, and what is applied stays so.                          *)
(***************************************************************************)
Invocations ==
    [pc : {"new", "csrf", "post", "refusing", "refused", "done"}, store : 1..3,
     token : Verbs \cup {None}, cookie : Verbs \cup {None, "page"},
     results : SUBSET {"state", "ledger"}]

VerbTypes ==
    /\ verb \in [Verbs -> Invocations]
    /\ held \in [Verbs -> Verb!Cookies]
    /\ server \in [enabled : BOOLEAN, pending : [{"state", "ledger"} -> BOOLEAN]]

(* Where the invocation is: before its first answer, before its second, past it. *)
VerbTurns ==
    \A v \in Verbs :
        /\ verb[v].pc = "new" => verb[v].store = 1
        /\ verb[v].pc \in {"csrf", "post"} =>
              verb[v].store = 1 \/ (verb[v].store = 2 /\ ~server.pending["state"])
        /\ verb[v].pc = "done" => ~server.pending["state"] /\ ~server.pending["ledger"]

VerbInv == VerbTypes /\ VerbTurns

(* Nothing comes to be pending. *)
Forward ==
    /\ server' \in [enabled : BOOLEAN, pending : [{"state", "ledger"} -> BOOLEAN]]
    /\ \A s \in {"state", "ledger"} : server'.pending[s] => server.pending[s]

(* What a call that applies a store makes of the server. *)
LEMMA ApplyForward ==
    ASSUME VerbInv, NEW s \in {"state", "ledger"}, Verb!Applies(s)
    PROVE  /\ Forward /\ ~server'.pending[s]
           /\ \A r \in {"state", "ledger"} \ {s} : server'.pending[r] = server.pending[r]
<1>1. server' = [server EXCEPT !.pending[s] = FALSE]
  BY DEF Verb!Applies
<1>2. server \in [enabled : BOOLEAN, pending : [{"state", "ledger"} -> BOOLEAN]]
  BY DEF VerbInv, VerbTypes
<1> QED
  BY <1>1, <1>2 DEF Forward

(* A step of one invocation over a server on which nothing comes to be pending. *)
LEMMA TurnInv ==
    ASSUME VerbInv, NEW v \in Verbs, NEW me \in Invocations,
           verb' = [verb EXCEPT ![v] = me], held' = held, Forward,
           me.pc # "new",
           me.pc \in {"csrf", "post"} =>
              me.store = 1 \/ (me.store = 2 /\ ~server'.pending["state"]),
           me.pc = "done" => ~server'.pending["state"] /\ ~server'.pending["ledger"]
    PROVE  VerbInv'
<1>1. verb'[v] = me /\ \A u \in Verbs \ {v} : verb'[u] = verb[u]
  BY DEF VerbInv, VerbTypes
<1>2. VerbTypes'
  BY DEF VerbInv, VerbTypes, Forward
<1>3. VerbTurns'
  BY <1>1 DEF VerbInv, VerbTurns, Forward
<1> QED
  BY <1>2, <1>3 DEF VerbInv

(* A call that is answered, and one that fails or is refused. *)
LEMMA VerbPost ==
    ASSUME VerbInv, NEW v \in Verbs, Verb!Post(v)
    PROVE  /\ VerbInv'
           /\ server.pending["ledger"] /\ ~server'.pending["ledger"]
                 => ~server.pending["state"]
<1>1. /\ verb[v].pc = "post" /\ held' = held /\ verb[v] \in Invocations
      /\ verb \in [Verbs -> Invocations]
      /\ verb[v].store = 1 \/ (verb[v].store = 2 /\ ~server.pending["state"])
  BY DEF Verb!Post, VerbInv, VerbTypes, VerbTurns
<1>2. PICK s \in {"state", "ledger"} :
        /\ s = Verb!Stores[verb[v].store]
        /\ s = "state" => verb[v].store = 1
        /\ s = "ledger" => verb[v].store = 2 /\ ~server.pending["state"]
  BY <1>1 DEF Verb!Stores
<1>3. ASSUME Verb!Applies(s)
      PROVE  server.pending["ledger"] /\ ~server'.pending["ledger"]
                => ~server.pending["state"]
  <2>1. CASE s = "state"
    BY <1>3, <2>1, ApplyForward
  <2>2. CASE s = "ledger"
    BY <1>2, <2>2
  <2> QED
    BY <2>1, <2>2
<1>4. CASE Verb!Applies(s) /\ Verb!Answered(v, s)
  <2>1. PICK results \in SUBSET {"state", "ledger"} : results = verb[v].results \cup {s}
    BY <1>1 DEF Invocations
  <2>2. PICK n \in 1..3 : n = verb[v].store + 1
    BY <1>1
  <2>3. PICK place \in {"csrf", "done"} : place = IF s = "state" THEN "csrf" ELSE "done"
    OBVIOUS
  <2>4. PICK me : me = [verb[v] EXCEPT !.results = results, !.store = n, !.pc = place]
    OBVIOUS
  <2>5. me \in Invocations
    BY <1>1, <2>1, <2>2, <2>3, <2>4 DEF Invocations
  <2>6. me.pc = place /\ me.store = n
    BY <1>1, <2>4 DEF Invocations
  <2>7. verb' = [verb EXCEPT ![v] = me]
    BY <1>1, <1>4, <2>1, <2>2, <2>3, <2>4 DEF Verb!Answered
  <2>8. Forward /\ ~server'.pending[s]
    BY <1>4, ApplyForward
  <2>9. CASE s = "state"
    <3>1. n = 2 /\ me.pc = "csrf" /\ ~server'.pending["state"]
      BY <1>2, <2>2, <2>3, <2>6, <2>8, <2>9
    <3> QED
      BY <1>1, <1>3, <1>4, <2>5, <2>6, <2>7, <2>8, <3>1, TurnInv
  <2>10. CASE s = "ledger"
    <3>1. me.pc = "done" /\ ~server'.pending["state"] /\ ~server'.pending["ledger"]
      BY <1>2, <2>3, <2>6, <2>8, <2>10 DEF Forward
    <3> QED
      BY <1>1, <1>3, <1>4, <2>5, <2>7, <2>8, <3>1, TurnInv
  <2> QED
    BY <2>9, <2>10
<1>5. CASE Verb!Failed(v) /\ (Verb!Applies(s) \/ UNCHANGED server)
  <2>1. PICK me : me = [verb[v] EXCEPT !.pc = "refusing"]
    OBVIOUS
  <2>2. me \in Invocations /\ me.pc = "refusing"
    BY <1>1, <2>1 DEF Invocations
  <2>3. verb' = [verb EXCEPT ![v] = me]
    BY <1>1, <1>5, <2>1 DEF Verb!Failed, Verb!Goto
  <2>4. Forward
    BY <1>5, ApplyForward DEF Forward, VerbInv, VerbTypes
  <2> QED
    BY <1>1, <1>3, <1>5, <2>2, <2>3, <2>4, TurnInv
<1> QED
  BY <1>2, <1>4, <1>5 DEF Verb!Post

LEMMA VerbNextInv == VerbInv /\ [Verb!Next]_(Verb!vars) => VerbInv'
<1> SUFFICES ASSUME VerbInv, [Verb!Next]_(Verb!vars) PROVE VerbInv'
  OBVIOUS
<1>0. verb \in [Verbs -> Invocations] /\ \A v \in Verbs : verb[v] \in Invocations
  BY DEF VerbInv, VerbTypes
<1>1. CASE UNCHANGED Verb!vars
  BY <1>1 DEF Verb!vars, VerbInv, VerbTypes, VerbTurns
<1>2. ASSUME server' = server PROVE Forward
  BY <1>2 DEF Forward, VerbInv, VerbTypes
<1>3. ASSUME NEW v \in Verbs, Verb!Begin(v) PROVE VerbInv'
  <2>1. PICK place \in {"refusing", "csrf"} : Verb!Goto(v, place)
    BY <1>3 DEF Verb!Begin
  <2>2. PICK me : me = [verb[v] EXCEPT !.pc = place]
    OBVIOUS
  <2>3. me \in Invocations /\ me.pc = place /\ me.store = verb[v].store
    BY <1>0, <2>1, <2>2 DEF Invocations
  <2>4. verb' = [verb EXCEPT ![v] = me]
    BY <1>0, <2>1, <2>2 DEF Verb!Goto
  <2>5. verb[v].store = 1 /\ held' = held /\ server' = server
    BY <1>3 DEF Verb!Begin, VerbInv, VerbTurns
  <2> QED
    BY <1>2, <2>1, <2>3, <2>4, <2>5, TurnInv
<1>4. ASSUME NEW v \in Verbs, Verb!AcquireCsrf(v) PROVE VerbInv'
  <2>1. /\ verb[v].pc = "csrf" /\ held' = held /\ server' = server
        /\ verb[v].store = 1 \/ (verb[v].store = 2 /\ ~server.pending["state"])
    BY <1>4 DEF Verb!AcquireCsrf, VerbInv, VerbTurns
  <2>2. PICK c \in Verbs \cup {None, "page"} : c = Verb!MergedCookie(v)
    BY DEF Verb!MergedCookie, VerbInv, VerbTypes, Verb!Cookies
  <2>3. PICK me : /\ \/ me = [verb[v] EXCEPT !.pc = "post", !.token = v, !.cookie = c]
                     \/ me = [verb[v] EXCEPT !.pc = "refusing"]
                  /\ verb' = [verb EXCEPT ![v] = me]
    BY <1>0, <1>4, <2>2 DEF Verb!AcquireCsrf, Verb!Goto, Invocations
  <2>4. me \in Invocations /\ me.pc \in {"post", "refusing"} /\ me.store = verb[v].store
    BY <1>0, <2>2, <2>3 DEF Invocations
  <2> QED
    BY <1>2, <2>1, <2>3, <2>4, TurnInv
<1>5. ASSUME NEW v \in Verbs, Verb!Post(v) PROVE VerbInv'
  BY <1>5, VerbPost
<1>6. ASSUME NEW v \in Verbs, Verb!Refuse(v) PROVE VerbInv'
  <2>1. PICK none \in SUBSET {"state", "ledger"} : none = {}
    OBVIOUS
  <2>2. PICK me : me = [verb[v] EXCEPT !.pc = "refused", !.results = none]
    OBVIOUS
  <2>3. me \in Invocations /\ me.pc = "refused"
    BY <1>0, <2>1, <2>2 DEF Invocations
  <2>4. verb' = [verb EXCEPT ![v] = me] /\ held' = held /\ server' = server
    BY <1>0, <1>6, <2>1, <2>2 DEF Verb!Refuse, Invocations
  <2> QED
    BY <1>2, <2>3, <2>4, TurnInv
<1>7. ASSUME NEW v \in Verbs, Verb!SessionEnds(v) PROVE VerbInv'
  BY <1>7 DEF Verb!SessionEnds, Verb!Cookies, VerbInv, VerbTypes, VerbTurns
<1> QED
  BY <1>1, <1>3, <1>4, <1>5, <1>6, <1>7 DEF Verb!Next

(* StoresInTurn, for any number of invocations, cookies and failing calls: the
   ledger is brought forward only over a state layer with nothing pending, and an
   invocation that ends well leaves nothing pending in either
   (scripts/ops/migrate.mjs:36-50, 66-86). *)
THEOREM VerbInTurn == Verb!Spec => StoresInTurn
<1> DEFINE InTurn ==
      /\ server.pending["ledger"] /\ ~server'.pending["ledger"] => ~server.pending["state"]
      /\ \A v \in Verbs : verb'[v].pc = "done" =>
            ~server'.pending["state"] /\ ~server'.pending["ledger"]
<1>1. Verb!Init => VerbInv
  <2> SUFFICES ASSUME Verb!Init PROVE VerbInv
    OBVIOUS
  <2>1. VerbTypes
    BY DEF Verb!Init, Verb!Waiting, VerbTypes, Invocations
  <2>2. VerbTurns
    BY DEF Verb!Init, Verb!Waiting, VerbTurns
  <2> QED
    BY <2>1, <2>2 DEF VerbInv
<1>2. VerbInv /\ VerbInv' /\ [Verb!Next]_(Verb!vars) => [InTurn]_(Verb!vars)
  <2> SUFFICES ASSUME VerbInv, VerbInv', Verb!Next PROVE InTurn
    OBVIOUS
  <2>1. PICK v \in Verbs : server' = server \/ Verb!Post(v)
    BY DEF Verb!Next, Verb!Begin, Verb!AcquireCsrf, Verb!Refuse, Verb!SessionEnds
  <2>2. server.pending["ledger"] /\ ~server'.pending["ledger"] => ~server.pending["state"]
    BY <2>1, VerbPost
  <2>3. \A u \in Verbs : verb'[u].pc = "done" =>
            ~server'.pending["state"] /\ ~server'.pending["ledger"]
    BY DEF VerbInv, VerbTurns
  <2> QED
    BY <2>2, <2>3
<1> QED
  BY <1>1, <1>2, VerbNextInv, PTL DEF Verb!Spec, StoresInTurn, Verb!StoresInTurn
-----------------------------------------------------------------------------
(***************************************************************************)
(* TraceBuffer.  Between the spans of a request its entry's flag says what *)
(* the ended spans have said, and a request without an entry has had no    *)
(* error, unless its trace has been displaced.  Whoever's stream is open   *)
(* is a subscriber.                                                        *)
(***************************************************************************)
Entries == [trace : Traced, spans : Seq({"ok", "error"}), ended : BOOLEAN,
            hasError : BOOLEAN, dropped : Nat]

OneEntryEach(map) == \A i, j \in 1..Len(map) : map[i].trace = map[j].trace => i = j

Spans == [span : {"none", "open", "ended"}, begun : Int, open : Int]

FlagsTell ==
    \A i \in 1..Len(traces) :
        traces[i].trace \notin displaced =>
            (traces[i].hasError <=> traces[i].trace \in failed)

UnknownAreFine ==
    \A r \in Traced :
        r \notin displaced /\ (\A i \in 1..Len(traces) : traces[i].trace # r) => r \notin failed

OpenSubscribe ==
    /\ stream \in [Listeners -> {"away", "open", "refused", "closed"}]
    /\ \A l \in Listeners : stream[l] = "open" => l \in subscribers

TraceInv ==
    /\ traces \in Seq(Entries) /\ OneEntryEach(traces)
    /\ span \in [Traced -> Spans]
    /\ FlagsTell /\ UnknownAreFine /\ OpenSubscribe

(* The map with the request's entry in it. *)
LEMMA EnteredShape ==
    ASSUME TraceInv, NEW r \in Traced
    PROVE  /\ Trace!Entered(r) \in Seq(Entries) /\ OneEntryEach(Trace!Entered(r))
           /\ \E i \in 1..Len(Trace!Entered(r)) : Trace!Entered(r)[i].trace = r
           /\ \A i \in 1..Len(Trace!Entered(r)) :
                 \/ \E j \in 1..Len(traces) : Trace!Entered(r)[i] = traces[j]
                 \/ /\ \A j \in 1..Len(traces) : traces[j].trace # r
                    /\ Trace!Entered(r)[i].trace = r /\ ~Trace!Entered(r)[i].hasError
<1>1. traces \in Seq(Entries) /\ OneEntryEach(traces) /\ DOMAIN traces = 1..Len(traces)
      /\ Len(traces) \in Nat
  BY LenProperties DEF TraceInv
<1>2. CASE Trace!Known(r)
  <2>1. Trace!Entered(r) = traces
    BY <1>2 DEF Trace!Entered
  <2>2. \E i \in 1..Len(traces) : traces[i].trace = r
    BY <1>1, <1>2 DEF Trace!Known
  <2> QED
    BY <1>1, <2>1, <2>2
<1>3. CASE ~Trace!Known(r)
  <2>1. \A j \in 1..Len(traces) : traces[j].trace # r
    BY <1>1, <1>3 DEF Trace!Known
  <2>2. PICK e \in Entries : e = [trace |-> r, spans |-> <<>>, ended |-> FALSE,
                                 hasError |-> FALSE, dropped |-> 0]
    BY EmptySeq DEF Entries
  <2>3. PICK longer \in Seq(Entries) : longer = Append(traces, e)
    BY <1>1, AppendProperties
  <2>4. /\ Len(longer) = Len(traces) + 1 /\ longer[Len(longer)] = e
        /\ \A i \in 1..Len(traces) : longer[i] = traces[i]
    BY <1>1, <2>3
  <2>5. Trace!Entered(r) = IF Len(longer) > Cap THEN Tail(longer) ELSE longer
    BY <1>3, <2>2, <2>3 DEF Trace!Entered
  <2>6. OneEntryEach(longer)
    BY <1>1, <2>1, <2>2, <2>4 DEF OneEntryEach
  <2>7. CASE Len(longer) > Cap
    <3>0. longer # <<>>
      BY <1>1, <2>4, EmptySeq
    <3>1. PICK left \in Seq(Entries) : left = Tail(longer)
      BY <3>0, HeadTailProperties
    <3>2. /\ Len(left) = Len(longer) - 1 /\ Len(left) = Len(traces) /\ Len(left) \in Nat \ {0}
          /\ \A i \in 1..Len(left) : left[i] = longer[i + 1] /\ i + 1 \in 1..Len(longer)
      BY <1>1, <2>4, <2>7, <3>0, <3>1, HeadTailProperties, LimitsOK
    <3>3. OneEntryEach(left)
      BY <2>4, <2>6, <3>2 DEF OneEntryEach
    <3>4. left[Len(left)] = e /\ Len(left) \in 1..Len(left)
      BY <2>4, <3>2
    <3>5. \A i \in 1..Len(left) : left[i] = e \/ \E j \in 1..Len(traces) : left[i] = traces[j]
      <4> SUFFICES ASSUME NEW i \in 1..Len(left), i # Len(left)
                   PROVE  \E j \in 1..Len(traces) : left[i] = traces[j]
        BY <3>4
      <4>1. i + 1 \in 1..Len(traces) /\ left[i] = traces[i + 1]
        BY <2>4, <3>2
      <4> QED
        BY <4>1
    <3>6. Trace!Entered(r) = left
      BY <2>5, <2>7, <3>1
    <3> QED
      BY <2>1, <2>2, <3>3, <3>4, <3>5, <3>6
  <2>8. CASE ~(Len(longer) > Cap)
    <3>1. Trace!Entered(r) = longer
      BY <2>5, <2>8
    <3>2. Len(longer) \in 1..Len(longer)
      BY <1>1, <2>4
    <3>3. \A i \in 1..Len(longer) :
             longer[i] = e \/ \E j \in 1..Len(traces) : longer[i] = traces[j]
      <4> SUFFICES ASSUME NEW i \in 1..Len(longer), i # Len(longer)
                   PROVE  \E j \in 1..Len(traces) : longer[i] = traces[j]
        BY <2>4
      <4>1. i \in 1..Len(traces) /\ longer[i] = traces[i]
        BY <1>1, <2>4
      <4> QED
        BY <4>1
    <3> QED
      BY <2>1, <2>2, <2>4, <2>6, <3>1, <3>2, <3>3
  <2> QED
    BY <2>7, <2>8
<1> QED
  BY <1>2, <1>3

(* A span that ends: what it leaves in the buffer, and what it tells. *)
LEMMA SpanAdded ==
    ASSUME TraceInv, NEW r \in Traced, NEW root \in BOOLEAN, NEW outcome \in {"ok", "error"},
           Trace!AddSpan(r, root, outcome)
    PROVE  /\ traces' \in Seq(Entries) /\ OneEntryEach(traces)'
           /\ FlagsTell' /\ UnknownAreFine'
           /\ root /\ r \notin displaced =>
                 \A l \in subscribers \ throws : <<l, r, r \in failed'>> \in told'
<1> DEFINE marked(c) == {traces[j].trace : j \in {k \in DOMAIN traces :
                            ~\E n \in DOMAIN c : c[n].trace = traces[k].trace}}
<1>1. PICK c \in Seq(Entries) : c = Trace!Entered(r)
  BY EnteredShape
<1>2. /\ OneEntryEach(c) /\ \E i \in 1..Len(c) : c[i].trace = r
      /\ \A i \in 1..Len(c) :
            \/ \E j \in 1..Len(traces) : c[i] = traces[j]
            \/ /\ \A j \in 1..Len(traces) : traces[j].trace # r
               /\ c[i].trace = r /\ ~c[i].hasError
  BY <1>1, EnteredShape
<1>3. DOMAIN c = 1..Len(c) /\ DOMAIN traces = 1..Len(traces) /\ Len(c) \in Nat
  BY LenProperties DEF TraceInv
<1>4. PICK i \in 1..Len(c) : i = (CHOOSE j \in DOMAIN c : c[j].trace = r) /\ c[i].trace = r
  BY <1>2, <1>3
<1>5. PICK e : e = Trace!Recorded(c[i], outcome)
  OBVIOUS
<1>6. /\ e \in Entries /\ e.trace = r
      /\ e.hasError <=> c[i].hasError \/ outcome = "error"
  <2>1. c[i] \in Entries
    OBVIOUS
  <2>2. PICK k : k = Trace!Kept(c[i], outcome)
    OBVIOUS
  <2>3. k \in Entries /\ k.trace = r /\ k.hasError = c[i].hasError
    <3>1. CASE Len(c[i].spans) >= MaxSpans
      <4>1. PICK n \in Nat : n = c[i].dropped + 1
        BY <2>1 DEF Entries
      <4>2. k = [c[i] EXCEPT !.dropped = n]
        BY <2>2, <3>1, <4>1 DEF Trace!Kept
      <4> QED
        BY <1>4, <2>1, <4>2 DEF Entries
    <3>2. CASE ~(Len(c[i].spans) >= MaxSpans)
      <4>1. PICK more \in Seq({"ok", "error"}) : more = Append(c[i].spans, outcome)
        BY <2>1, AppendProperties DEF Entries
      <4>2. k = [c[i] EXCEPT !.spans = more]
        BY <2>2, <3>2, <4>1 DEF Trace!Kept
      <4> QED
        BY <1>4, <2>1, <4>2 DEF Entries
    <3> QED
      BY <3>1, <3>2
  <2>4. PICK b \in BOOLEAN : b = (k.hasError \/ outcome = "error")
    OBVIOUS
  <2>5. e = [k EXCEPT !.hasError = b]
    BY <1>5, <2>2, <2>4 DEF Trace!Recorded
  <2>6. e \in Entries /\ e.trace = r /\ e.hasError = b
    BY <2>3, <2>5 DEF Entries
  <2> QED
    BY <2>3, <2>4, <2>6
<1>7. PICK f \in Entries : f = [e EXCEPT !.ended = @ \/ root]
  BY <1>6 DEF Entries
<1>8. f.trace = r /\ f.hasError = e.hasError
  BY <1>6, <1>7 DEF Entries
<1>9. /\ traces' = [c EXCEPT ![i] = f]
      /\ displaced' = displaced \cup marked(c)
      /\ failed' = IF outcome = "error" THEN failed \cup {r} ELSE failed
      /\ root => told' = told \cup {<<l, r, e.hasError>> : l \in Trace!Notified(subscribers)}
  BY <1>1, <1>4, <1>5, <1>7 DEF Trace!AddSpan
<1>10. /\ traces' \in Seq(Entries) /\ Len(traces') = Len(c) /\ traces'[i] = f
       /\ \A j \in 1..Len(c) : j # i => traces'[j] = c[j]
  BY <1>9, ExceptSeq
<1>11. \A j \in 1..Len(c) : traces'[j].trace = c[j].trace
  BY <1>4, <1>8, <1>10
<1>12. OneEntryEach(traces)'
  BY <1>2, <1>10, <1>11 DEF OneEntryEach
<1>13. r \notin displaced => (e.hasError <=> r \in failed')
  <2> SUFFICES ASSUME r \notin displaced PROVE e.hasError <=> r \in failed'
    OBVIOUS
  <2>1. c[i].hasError <=> r \in failed
    <3>1. CASE \E j \in 1..Len(traces) : c[i] = traces[j]
      BY <1>4, <3>1 DEF TraceInv, FlagsTell
    <3>2. CASE (\A j \in 1..Len(traces) : traces[j].trace # r) /\ ~c[i].hasError
      BY <3>2 DEF TraceInv, UnknownAreFine
    <3> QED
      BY <1>2, <3>1, <3>2
  <2> QED
    BY <1>6, <1>9, <2>1
<1>14. FlagsTell'
  <2> SUFFICES ASSUME NEW j \in 1..Len(c), traces'[j].trace \notin displaced'
               PROVE  traces'[j].hasError <=> traces'[j].trace \in failed'
    BY <1>10 DEF FlagsTell
  <2>1. CASE j = i
    BY <1>8, <1>9, <1>10, <1>13, <2>1
  <2>2. CASE j # i
    <3>1. traces'[j] = c[j] /\ c[j].trace # r
      BY <1>2, <1>4, <1>10, <2>2 DEF OneEntryEach
    <3>2. PICK k \in 1..Len(traces) : c[j] = traces[k]
      BY <1>2, <3>1
    <3>3. traces[k].hasError <=> traces[k].trace \in failed
      BY <1>9, <3>1, <3>2 DEF TraceInv, FlagsTell
    <3> QED
      BY <1>9, <3>1, <3>2, <3>3
  <2> QED
    BY <2>1, <2>2
<1>15. UnknownAreFine'
  <2> SUFFICES ASSUME NEW t \in Traced, t \notin displaced',
                      \A j \in 1..Len(c) : traces'[j].trace # t
               PROVE  t \notin failed'
    BY <1>10 DEF UnknownAreFine
  <2>1. \A j \in 1..Len(c) : c[j].trace # t
    BY <1>11
  <2>2. t # r
    BY <1>4, <2>1
  <2>3. \A k \in 1..Len(traces) : traces[k].trace # t
    BY <1>3, <1>9, <2>1
  <2>4. t \notin failed
    BY <1>9, <2>3 DEF TraceInv, UnknownAreFine
  <2> QED
    BY <1>9, <2>2, <2>4
<1>16. ASSUME root, r \notin displaced, NEW l \in subscribers \ throws
       PROVE  <<l, r, r \in failed'>> \in told'
  <2>1. <<l, r, e.hasError>> \in told'
    BY <1>9, <1>16 DEF Trace!Notified
  <2>2. e.hasError = (r \in failed')
    <3>1. e.hasError \in BOOLEAN
      BY <1>6 DEF Entries
    <3> QED
      BY <1>13, <1>16, <3>1
  <2> QED
    BY <2>1, <2>2
<1> QED
  BY <1>10, <1>12, <1>14, <1>15, <1>16

-----------------------------------------------------------------------------
LEMMA TraceInitInv == Trace!Init => TraceInv
  BY EmptySeq DEF Trace!Init, TraceInv, Spans, OneEntryEach, FlagsTell, UnknownAreFine,
     OpenSubscribe

LEMMA TraceNextInv == TraceInv /\ [Trace!Next]_(Trace!vars) => TraceInv'
<1> SUFFICES ASSUME TraceInv, [Trace!Next]_(Trace!vars) PROVE TraceInv'
  OBVIOUS
<1> DEFINE buffered == <<traces, displaced, failed>>
<1>1. ASSUME UNCHANGED buffered
      PROVE  traces' \in Seq(Entries) /\ OneEntryEach(traces)' /\ FlagsTell' /\ UnknownAreFine'
  BY <1>1 DEF TraceInv, OneEntryEach, FlagsTell, UnknownAreFine
<1>2. ASSUME UNCHANGED <<stream, subscribers>> PROVE OpenSubscribe'
  BY <1>2 DEF TraceInv, OpenSubscribe
<1>3. ASSUME NEW r \in Traced, Trace!Arrive(r) PROVE TraceInv'
  <2>1. span' \in [Traced -> Spans]
    BY <1>3 DEF Trace!Arrive, TraceInv, Spans
  <2> QED
    BY <1>1, <1>2, <1>3, <2>1 DEF Trace!Arrive, TraceInv
<1>4. ASSUME NEW r \in Traced, Trace!BeginOperation(r) PROVE TraceInv'
  <2>1. span' \in [Traced -> Spans]
    <3>1. span[r] \in Spans /\ span \in [Traced -> Spans]
      BY DEF TraceInv
    <3>2. PICK b \in Int, o \in Int : b = span[r].begun + 1 /\ o = span[r].open + 1
      BY <3>1 DEF Spans
    <3>3. span' = [span EXCEPT ![r] = [span[r] EXCEPT !.begun = b, !.open = o]]
      BY <1>4, <3>1, <3>2 DEF Trace!BeginOperation
    <3>4. [span[r] EXCEPT !.begun = b, !.open = o] \in Spans
      BY <3>1 DEF Spans
    <3> QED
      BY <3>1, <3>3, <3>4
  <2> QED
    BY <1>1, <1>2, <1>4, <2>1 DEF Trace!BeginOperation, TraceInv
<1>5. ASSUME NEW r \in Traced, NEW o \in Trace!Outcomes, Trace!EndOperation(r, o) PROVE TraceInv'
  <2>1. Trace!AddSpan(r, FALSE, o) /\ o \in {"ok", "error"}
    BY <1>5 DEF Trace!EndOperation, Trace!Outcomes
  <2>2. traces' \in Seq(Entries) /\ OneEntryEach(traces)' /\ FlagsTell' /\ UnknownAreFine'
    BY <2>1, SpanAdded
  <2>3. span' \in [Traced -> Spans]
    <3>1. span[r] \in Spans /\ span \in [Traced -> Spans]
      BY DEF TraceInv
    <3>2. PICK n \in Int : n = span[r].open - 1
      BY <3>1 DEF Spans
    <3>3. span' = [span EXCEPT ![r].open = n]
      BY <1>5, <3>2 DEF Trace!EndOperation
    <3> QED
      BY <3>1, <3>3 DEF Spans
  <2> QED
    BY <1>2, <1>5, <2>2, <2>3 DEF Trace!EndOperation, TraceInv
<1>6. ASSUME NEW r \in Traced, NEW o \in Trace!Outcomes, Trace!EndRequest(r, o) PROVE TraceInv'
  <2>1. Trace!AddSpan(r, TRUE, o) /\ o \in {"ok", "error"}
    BY <1>6 DEF Trace!EndRequest, Trace!Outcomes
  <2>2. traces' \in Seq(Entries) /\ OneEntryEach(traces)' /\ FlagsTell' /\ UnknownAreFine'
    BY <2>1, SpanAdded
  <2>3. span' \in [Traced -> Spans]
    BY <1>6 DEF Trace!EndRequest, TraceInv, Spans
  <2> QED
    BY <1>2, <1>6, <2>2, <2>3 DEF Trace!EndRequest, TraceInv
<1>7. ASSUME NEW l \in Listeners, Trace!Listen(l) \/ Trace!Close(l) PROVE TraceInv'
  <2>1. OpenSubscribe'
    BY <1>7 DEF Trace!Listen, Trace!Close, TraceInv, OpenSubscribe
  <2>2. UNCHANGED <<buffered, span>>
    BY <1>7 DEF Trace!Listen, Trace!Close
  <2> QED
    BY <1>1, <2>1, <2>2 DEF TraceInv
<1>8. CASE UNCHANGED Trace!vars
  BY <1>1, <1>2, <1>8 DEF Trace!vars, TraceInv
<1> QED
  BY <1>3, <1>4, <1>5, <1>6, <1>7, <1>8 DEF Trace!Next

(* ListenersTold, for any number of requests, operators and spans and every
   size of the buffer: when a request ends, whoever's stream is open is told,
   and told that it failed exactly when one of its spans has (obs/buffer.ts,
   admin/stream.ts). *)
THEOREM OperatorsAreTold == Trace!Spec => ListenersTold
<1> DEFINE Told ==
      \A r \in Traced :
          span[r].span = "open" /\ span'[r].span = "ended" /\ r \notin displaced =>
              \A l \in Listeners \ throws :
                  stream[l] = "open" => <<l, r, r \in failed'>> \in told'
<1>1. TraceInv /\ [Trace!Next]_(Trace!vars) => [Told]_(Trace!vars)
  <2> SUFFICES ASSUME TraceInv, Trace!Next, NEW r \in Traced, span[r].span = "open",
                      span'[r].span = "ended", r \notin displaced,
                      NEW l \in Listeners \ throws, stream[l] = "open"
               PROVE  <<l, r, r \in failed'>> \in told'
    BY DEF Trace!vars
  <2>1. PICK o \in Trace!Outcomes : Trace!EndRequest(r, o)
    <3>1. ASSUME NEW q \in Traced, NEW o \in Trace!Outcomes, Trace!EndRequest(q, o)
          PROVE  q = r
      BY <3>1 DEF Trace!EndRequest, TraceInv, Spans
    <3>2. ASSUME NEW q \in Traced, Trace!Arrive(q) \/ Trace!BeginOperation(q) PROVE FALSE
      BY <3>2 DEF Trace!Arrive, Trace!BeginOperation, TraceInv, Spans
    <3>3. ASSUME NEW q \in Traced, NEW o \in Trace!Outcomes, Trace!EndOperation(q, o)
          PROVE  FALSE
      BY <3>3 DEF Trace!EndOperation, TraceInv, Spans
    <3>4. ASSUME NEW k \in Listeners, Trace!Listen(k) \/ Trace!Close(k) PROVE FALSE
      BY <3>4 DEF Trace!Listen, Trace!Close
    <3> QED
      BY <3>1, <3>2, <3>3, <3>4 DEF Trace!Next
  <2>2. Trace!AddSpan(r, TRUE, o) /\ o \in {"ok", "error"}
    BY <2>1 DEF Trace!EndRequest, Trace!Outcomes
  <2>3. l \in subscribers \ throws
    BY DEF TraceInv, OpenSubscribe
  <2> QED
    BY <2>2, <2>3, SpanAdded
<1> QED
  BY <1>1, TraceInitInv, TraceNextInv, PTL
  DEF Trace!Spec, ListenersTold, Trace!ListenersTold
-----------------------------------------------------------------------------
(***************************************************************************)
(* Sessions.  Every access token, the browser's and those on their way,    *)
(* expires within a lifetime of the present, and within a lifetime of the  *)
(* end of whatever it asserts: so does the one that arrives last.          *)
(***************************************************************************)
Accesses == [user : Users, admin : BOOLEAN, exp : Nat, till : Nat \cup {None}]

Envelopes == [user : Users, token : Nat \cup {None}, exp : Nat]

Jars ==
    [access : Accesses \cup {None}, session : Envelopes \cup {None},
     hint : Users \cup {None}, tx : Loaders \cup {None}, csrf : Loaders \cup {None}]

Calls ==
    [pc : {"idle", "renew", "grant", "userinfo", "minted", "denied", "login", "welcome",
           "csrf", "bye"},
     session : Envelopes \cup {None}, user : Users \cup {None}, cookies : Jars]

Ends == [role : Nat \cup {None}, account : Nat \cup {None}]

SessionTypes ==
    /\ now \in Nat /\ issued \in Nat
    /\ ends \in [Users -> Ends]
    /\ jar \in Jars
    /\ req \in [Loaders -> Calls]

(* The access token a asserts nothing that ended more than a lifetime before it
   expires. *)
Fresh(a) ==
    /\ a.exp <= now + Lifetime
    /\ a.admin /\ ends[a.user].role # None => a.exp <= ends[a.user].role + Lifetime
    /\ ends[a.user].account # None => a.exp <= ends[a.user].account + Lifetime

(* What a call of the page carries at each step, and what waits for the browser. *)
CallOK(r) ==
    /\ r.pc \in {"grant", "userinfo"} => r.session \in Envelopes
    /\ r.pc = "login" => r.user \in Users
    /\ r.pc \in {"minted", "welcome"} => r.cookies.access \in Accesses /\ Fresh(r.cookies.access)

JarFresh ==
    jar.access # None => jar.access \in Accesses /\ Fresh(jar.access) /\ now < jar.access.exp

SessionInv ==
    /\ SessionTypes
    /\ \A l \in Loaders : CallOK(req[l])
    /\ JarFresh

(* A call that moves while neither the clock nor what the authority says does. *)
LEMMA CallMoves ==
    ASSUME SessionInv, NEW l \in Loaders, NEW r \in Calls, CallOK(r),
           req' = [req EXCEPT ![l] = r], UNCHANGED <<now, ends>>
    PROVE  req' \in [Loaders -> Calls] /\ \A k \in Loaders : CallOK(req[k])'
<1>1. req' \in [Loaders -> Calls]
  BY DEF SessionInv, SessionTypes
<1>2. ASSUME NEW k \in Loaders PROVE CallOK(req[k])'
  <2>1. PICK q : q = IF k = l THEN r ELSE req[k]
    OBVIOUS
  <2>2. CallOK(q) /\ req'[k] = q
    BY <2>1 DEF SessionInv, SessionTypes
  <2> QED
    BY <2>2 DEF CallOK, Fresh
<1> QED
  BY <1>1, <1>2

(* So does one that leaves the jar as it is. *)
LEMMA CallMovesInv ==
    ASSUME SessionInv, NEW l \in Loaders, NEW r \in Calls, CallOK(r),
           req' = [req EXCEPT ![l] = r], UNCHANGED <<now, ends, jar>>, issued' \in Nat
    PROVE  SessionInv'
<1>1. req' \in [Loaders -> Calls] /\ \A k \in Loaders : CallOK(req[k])'
  BY CallMoves
<1>2. SessionTypes'
  BY <1>1 DEF SessionInv, SessionTypes
<1>3. JarFresh'
  BY DEF SessionInv, JarFresh, Fresh
<1> QED
  BY <1>1, <1>2, <1>3 DEF SessionInv

(* The calls that begin and end, which carry nothing. *)
LEMMA EmptyCalls ==
    /\ Session!EmptyJar \in Jars
    /\ Session!Idle \in Calls /\ CallOK(Session!Idle)
    /\ \A p \in {"denied", "renew"} :
          [Session!Idle EXCEPT !.pc = p] \in Calls /\ CallOK([Session!Idle EXCEPT !.pc = p])
<1>1. Session!EmptyJar \in Jars
  BY DEF Session!EmptyJar, Jars
<1>2. Session!Idle \in Calls
  BY <1>1 DEF Session!Idle, Calls
<1>3. CallOK(Session!Idle)
  BY DEF Session!Idle, CallOK
<1>4. ASSUME NEW p \in {"denied", "renew"}
      PROVE  [Session!Idle EXCEPT !.pc = p] \in Calls /\ CallOK([Session!Idle EXCEPT !.pc = p])
  BY <1>2 DEF Session!Idle, CallOK, Calls
<1> QED
  BY <1>1, <1>2, <1>3, <1>4

(* What is minted is fresh. *)
LEMMA PairFresh ==
    ASSUME SessionInv, NEW user \in Users, NEW token \in Nat \cup {None},
           ends[user].account = None
    PROVE  /\ Session!Pair(user, token) \in Jars
           /\ Session!Pair(user, token).access \in Accesses
           /\ Fresh(Session!Pair(user, token).access)
<1>0. now + Lifetime \in Nat /\ now + SessionAge \in Nat /\ None \in Nat \cup {None}
  BY LimitsOK DEF SessionInv, SessionTypes
<1>1. PICK a \in Accesses : /\ a = [user |-> user, admin |-> Session!RoleHeld(user),
                                    exp |-> now + Session!Ttl, till |-> None]
                            /\ a.user = user /\ a.exp = now + Lifetime
                            /\ a.admin => ends[user].role = None
  <2>1. PICK role \in BOOLEAN : role = Session!RoleHeld(user) /\ (role => ends[user].role = None)
    BY DEF Session!RoleHeld
  <2>2. [user |-> user, admin |-> role, exp |-> now + Lifetime, till |-> None] \in Accesses
    BY <1>0 DEF Accesses
  <2> QED
    BY <2>1, <2>2 DEF Session!Ttl
<1>2. PICK s \in Envelopes : s = [user |-> user, token |-> token, exp |-> now + SessionAge]
  <2>1. [user |-> user, token |-> token, exp |-> now + SessionAge] \in Envelopes
    BY <1>0 DEF Envelopes
  <2> QED
    BY <2>1
<1>3. Session!Pair(user, token) = [Session!EmptyJar EXCEPT !.access = a, !.session = s]
  BY <1>1, <1>2 DEF Session!Pair
<1>4. Session!Pair(user, token) \in Jars /\ Session!Pair(user, token).access = a
  BY <1>3 DEF Session!EmptyJar, Jars
<1>5. Fresh(a)
  BY <1>1, LimitsOK DEF Fresh, SessionInv, SessionTypes
<1> QED
  BY <1>4, <1>5

(* What the browser keeps of a fresh access token is fresh, and has not expired. *)
LEMMA KeptFresh ==
    ASSUME SessionInv, NEW a \in Accesses, Fresh(a)
    PROVE  LET k == Session!Kept(a)
           IN  /\ k \in Accesses \cup {None}
               /\ k # None => k \in Accesses /\ Fresh(k) /\ now < k.exp
<1>1. PICK t \in Nat : t = now + CookieAge
  BY LimitsOK DEF SessionInv, SessionTypes
<1>2. PICK b \in Accesses : /\ b = [a EXCEPT !.till = t]
                            /\ b.user = a.user /\ b.admin = a.admin /\ b.exp = a.exp
  <2>1. [a EXCEPT !.till = t] \in Accesses
    BY DEF Accesses
  <2>2. [a EXCEPT !.till = t].user = a.user
    BY DEF Accesses
  <2>3. [a EXCEPT !.till = t].admin = a.admin
    BY DEF Accesses
  <2>4. [a EXCEPT !.till = t].exp = a.exp
    BY DEF Accesses
  <2> QED
    BY <2>1, <2>2, <2>3, <2>4
<1>3. Session!Kept(a) = IF b.exp <= now THEN None ELSE b
  BY <1>1, <1>2 DEF Session!Kept, Session!Live
<1>4. Fresh(b)
  BY <1>2 DEF Fresh
<1>5. b.exp \in Nat /\ now \in Nat
  BY DEF SessionInv, SessionTypes, Accesses
<1> QED
  BY <1>3, <1>4, <1>5

(* What the browser keeps of an envelope. *)
LEMMA LiveEnvelope ==
    ASSUME NEW s \in Envelopes \cup {None}
    PROVE  Session!Live(s) \in Envelopes \cup {None}
  BY DEF Session!Live

(* Calls that wait, and those that are answered without a token. *)
LEMMA SessionCallInv ==
    ASSUME SessionInv, NEW l \in Loaders,
           \/ Session!Challenged(l) \/ Session!Share(l) \/ Session!Refresh(l) \/ Session!Lost(l)
    PROVE  SessionInv'
<1>1. UNCHANGED <<now, ends, jar, issued>>
  BY DEF Session!Challenged, Session!Share, Session!Refresh, Session!Lost
<1>2. PICK r \in Calls : CallOK(r) /\ req' = [req EXCEPT ![l] = r]
  <2>1. CASE Session!Challenged(l)
    <3>1. PICK r \in Calls : r = [req[l] EXCEPT !.pc = "renew"] /\ r.pc = "renew"
      <4>1. [req[l] EXCEPT !.pc = "renew"] \in Calls
        BY DEF SessionInv, SessionTypes, Calls
      <4>2. [req[l] EXCEPT !.pc = "renew"].pc = "renew"
        BY DEF SessionInv, SessionTypes, Calls
      <4> QED
        BY <4>1, <4>2
    <3>2. req' = [req EXCEPT ![l] = r]
      BY <2>1, <3>1 DEF Session!Challenged, Session!Goto
    <3> QED
      BY <3>1, <3>2 DEF CallOK
  <2>2. CASE Session!Share(l) \/ Session!Lost(l)
    BY <2>2, EmptyCalls DEF Session!Share, Session!Lost
  <2>3. CASE Session!Refresh(l)
    <3>1. CASE jar.session = None
      BY <2>3, <3>1, EmptyCalls DEF Session!Refresh
    <3>2. CASE jar.session # None
      <4>1. jar.session \in Envelopes
        BY <3>2 DEF SessionInv, SessionTypes, Jars
      <4>2. PICK r \in Calls :
                /\ r = [Session!Idle EXCEPT !.pc = "grant", !.session = jar.session]
                /\ r.pc = "grant" /\ r.session = jar.session
        <5>1. [Session!Idle EXCEPT !.pc = "grant", !.session = jar.session] \in Calls
          BY <4>1, EmptyCalls DEF Session!Idle, Calls
        <5>2. [Session!Idle EXCEPT !.pc = "grant", !.session = jar.session].pc = "grant"
          BY <4>1, EmptyCalls DEF Session!Idle, Calls
        <5>3. [Session!Idle EXCEPT !.pc = "grant", !.session = jar.session].session = jar.session
          BY <4>1, EmptyCalls DEF Session!Idle, Calls
        <5> QED
          BY <5>1, <5>2, <5>3
      <4> QED
        BY <2>3, <3>2, <4>1, <4>2 DEF Session!Refresh, CallOK
    <3> QED
      BY <3>1, <3>2
  <2> QED
    BY <2>1, <2>2, <2>3
<1>3. issued' \in Nat
  BY <1>1 DEF SessionInv, SessionTypes
<1> QED
  BY <1>1, <1>2, <1>3, CallMovesInv

(* The authority's answer to a renewal. *)
LEMMA SessionGrantInv ==
    ASSUME SessionInv, NEW l \in Loaders, Session!Grant(l) PROVE SessionInv'
<1>1. UNCHANGED <<now, ends, jar>> /\ req[l].pc = "grant"
  BY DEF Session!Grant
<1>2. issued' \in Nat
  <2>1. issued' = issued \/ issued' = issued + 1
    BY DEF Session!Grant
  <2> QED
    BY <2>1 DEF SessionInv, SessionTypes
<1>3. PICK r \in Calls : CallOK(r) /\ req' = [req EXCEPT ![l] = r]
  <2>1. CASE Session!Deny(l)
    BY <2>1, EmptyCalls DEF Session!Deny
  <2>2. CASE req' = [req EXCEPT ![l].pc = "userinfo",
                          ![l].session.token = IF authority.rotates THEN issued + 1 ELSE @]
    <3>1. req[l] \in Calls /\ req[l].session \in Envelopes
      BY <1>1 DEF SessionInv, SessionTypes, CallOK
    <3>2. PICK t \in Nat \cup {None} :
             t = IF authority.rotates THEN issued + 1 ELSE req[l].session.token
      BY <3>1 DEF SessionInv, SessionTypes, Envelopes
    <3>3. PICK s \in Envelopes : s = [req[l].session EXCEPT !.token = t]
      BY <3>1 DEF Envelopes
    <3>4. PICK r \in Calls : /\ r = [req[l] EXCEPT !.pc = "userinfo", !.session = s]
                             /\ r.pc = "userinfo" /\ r.session = s
      <4>1. [req[l] EXCEPT !.pc = "userinfo", !.session = s] \in Calls
        BY <3>1 DEF Calls
      <4>2. [req[l] EXCEPT !.pc = "userinfo", !.session = s].pc = "userinfo"
        BY <3>1 DEF Calls
      <4>3. [req[l] EXCEPT !.pc = "userinfo", !.session = s].session = s
        BY <3>1 DEF Calls
      <4> QED
        BY <4>1, <4>2, <4>3
    <3>5. req' = [req EXCEPT ![l] = r]
      BY <2>2, <3>1, <3>2, <3>3, <3>4 DEF SessionInv, SessionTypes, Calls, Envelopes
    <3> QED
      BY <3>4, <3>5 DEF CallOK
  <2> QED
    BY <2>1, <2>2 DEF Session!Grant
<1> QED
  BY <1>1, <1>2, <1>3, CallMovesInv

LEMMA SessionUserinfoInv ==
    ASSUME SessionInv, NEW l \in Loaders, Session!Userinfo(l) PROVE SessionInv'
<1>1. UNCHANGED <<now, ends, jar, issued>> /\ req[l].pc = "userinfo" /\ issued' \in Nat
  BY DEF Session!Userinfo, SessionInv, SessionTypes
<1>2. PICK s \in Envelopes : s = req[l].session
  BY <1>1 DEF SessionInv, CallOK
<1>3. s.user \in Users /\ s.token \in Nat \cup {None}
  BY DEF Envelopes
<1>4. PICK r \in Calls : CallOK(r) /\ req' = [req EXCEPT ![l] = r]
  <2>1. CASE Session!Deny(l)
    BY <2>1, EmptyCalls DEF Session!Deny
  <2>2. CASE /\ ends[s.user].account = None
             /\ req' = [req EXCEPT ![l] =
                  [Session!Idle EXCEPT !.pc = "minted",
                                       !.cookies = Session!Pair(s.user, s.token)]]
    <3>1. PICK j \in Jars : /\ j = Session!Pair(s.user, s.token)
                            /\ j.access \in Accesses /\ Fresh(j.access)
      BY <1>3, <2>2, PairFresh
    <3>2. PICK r \in Calls : /\ r = [Session!Idle EXCEPT !.pc = "minted", !.cookies = j]
                             /\ r.pc = "minted" /\ r.cookies = j
      <4>1. [Session!Idle EXCEPT !.pc = "minted", !.cookies = j] \in Calls
        BY EmptyCalls DEF Session!Idle, Calls
      <4>2. [Session!Idle EXCEPT !.pc = "minted", !.cookies = j].pc = "minted"
        BY EmptyCalls DEF Session!Idle, Calls
      <4>3. [Session!Idle EXCEPT !.pc = "minted", !.cookies = j].cookies = j
        BY EmptyCalls DEF Session!Idle, Calls
      <4> QED
        BY <4>1, <4>2, <4>3
    <3> QED
      BY <2>2, <3>1, <3>2 DEF CallOK
  <2> QED
    BY <1>2, <2>1, <2>2 DEF Session!Userinfo
<1> QED
  BY <1>1, <1>4, CallMovesInv

(* The answers that reach the browser and change its jar. *)
LEMMA JarMovesInv ==
    ASSUME SessionInv, NEW l \in Loaders, NEW r \in Calls, CallOK(r),
           req' = [req EXCEPT ![l] = r], UNCHANGED <<now, ends, issued>>,
           NEW j \in Jars, jar' = j,
           \/ j.access = None
           \/ j.access = jar.access
           \/ j.access \in Accesses /\ Fresh(j.access) /\ now < j.access.exp
    PROVE  SessionInv'
<1>1. req' \in [Loaders -> Calls] /\ \A k \in Loaders : CallOK(req[k])'
  BY CallMoves
<1>2. SessionTypes'
  BY <1>1 DEF SessionInv, SessionTypes
<1>3. JarFresh'
  <2>1. j.access # None => j.access \in Accesses /\ Fresh(j.access) /\ now < j.access.exp
    BY DEF SessionInv, JarFresh
  <2> QED
    BY <2>1 DEF JarFresh, Fresh
<1> QED
  BY <1>1, <1>2, <1>3 DEF SessionInv

LEMMA SessionRenewedInv ==
    ASSUME SessionInv, NEW l \in Loaders, Session!Renewed(l) PROVE SessionInv'
<1>1. /\ req[l].pc \in {"minted", "denied"} /\ req' = [req EXCEPT ![l] = Session!Idle]
      /\ UNCHANGED <<now, ends, issued>>
  BY DEF Session!Renewed
<1>2. CASE req[l].pc = "denied"
  <2>1. PICK j \in Jars : j = [Session!EmptyJar EXCEPT !.tx = jar.tx] /\ j.access = None
    <3>1. [Session!EmptyJar EXCEPT !.tx = jar.tx] \in Jars
      BY EmptyCalls DEF Session!EmptyJar, Jars, SessionInv, SessionTypes
    <3>2. [Session!EmptyJar EXCEPT !.tx = jar.tx].access = None
      BY EmptyCalls DEF Session!EmptyJar, Jars, SessionInv, SessionTypes
    <3> QED
      BY <3>1, <3>2
  <2> QED
    BY <1>1, <1>2, <2>1, EmptyCalls, JarMovesInv DEF Session!Renewed
<1>3. CASE req[l].pc = "minted"
  <2>1. PICK c \in Jars : c = req[l].cookies /\ c.access \in Accesses /\ Fresh(c.access)
    BY <1>3 DEF SessionInv, SessionTypes, Calls, CallOK
  <2>2. PICK k \in Accesses \cup {None} :
           /\ k = Session!Kept(c.access)
           /\ k # None => k \in Accesses /\ Fresh(k) /\ now < k.exp
    BY <2>1, KeptFresh
  <2>3. PICK s \in Envelopes \cup {None} : s = Session!Live(c.session)
    BY <2>1, LiveEnvelope DEF Jars
  <2>4. PICK j \in Jars : j = [jar EXCEPT !.access = k, !.session = s] /\ j.access = k
    <3>1. [jar EXCEPT !.access = k, !.session = s] \in Jars
      BY DEF SessionInv, SessionTypes, Jars
    <3>2. [jar EXCEPT !.access = k, !.session = s].access = k
      BY DEF SessionInv, SessionTypes, Jars
    <3> QED
      BY <3>1, <3>2
  <2>5. jar' = j
    BY <1>3, <2>1, <2>2, <2>3, <2>4 DEF Session!Renewed
  <2> QED
    BY <1>1, <2>2, <2>4, <2>5, EmptyCalls, JarMovesInv
<1> QED
  BY <1>1, <1>2, <1>3

LEMMA SessionWelcomedInv ==
    ASSUME SessionInv, NEW l \in Loaders, Session!Welcomed(l) PROVE SessionInv'
<1>1. /\ req[l].pc = "welcome" /\ req' = [req EXCEPT ![l] = Session!Idle]
      /\ UNCHANGED <<now, ends, issued>>
  BY DEF Session!Welcomed
<1>2. PICK c \in Jars : c = req[l].cookies /\ c.access \in Accesses /\ Fresh(c.access)
  BY <1>1 DEF SessionInv, SessionTypes, Calls, CallOK
<1>3. PICK k \in Accesses \cup {None} :
         /\ k = Session!Kept(c.access)
         /\ k # None => k \in Accesses /\ Fresh(k) /\ now < k.exp
  BY <1>2, KeptFresh
<1>4. PICK s \in Envelopes \cup {None} : s = Session!Live(c.session)
  BY <1>2, LiveEnvelope DEF Jars
<1>5. PICK j \in Jars : j = [c EXCEPT !.access = k, !.session = s, !.csrf = jar.csrf]
                        /\ j.access = k
  <2>1. [c EXCEPT !.access = k, !.session = s, !.csrf = jar.csrf] \in Jars
    BY DEF SessionInv, SessionTypes, Jars
  <2>2. [c EXCEPT !.access = k, !.session = s, !.csrf = jar.csrf].access = k
    BY DEF SessionInv, SessionTypes, Jars
  <2> QED
    BY <2>1, <2>2
<1>6. jar' = j
  BY <1>2, <1>3, <1>4, <1>5 DEF Session!Welcomed, Jars
<1> QED
  BY <1>1, <1>3, <1>5, <1>6, EmptyCalls, JarMovesInv

(* Login. *)
LEMMA SessionLoginInv ==
    ASSUME SessionInv, NEW l \in Loaders, NEW user \in Users, Session!Login(l, user)
    PROVE  SessionInv'
<1>1. PICK r \in Calls : /\ r = [Session!Idle EXCEPT !.pc = "login", !.user = user]
                         /\ r.pc = "login" /\ r.user = user
  <2>1. [Session!Idle EXCEPT !.pc = "login", !.user = user] \in Calls
    BY EmptyCalls DEF Session!Idle, Calls
  <2>2. [Session!Idle EXCEPT !.pc = "login", !.user = user].pc = "login"
    BY EmptyCalls DEF Session!Idle, Calls
  <2>3. [Session!Idle EXCEPT !.pc = "login", !.user = user].user = user
    BY EmptyCalls DEF Session!Idle, Calls
  <2> QED
    BY <2>1, <2>2, <2>3
<1>2. PICK j \in Jars : j = [jar EXCEPT !.tx = l] /\ j.access = jar.access
  <2>1. [jar EXCEPT !.tx = l] \in Jars
    BY DEF SessionInv, SessionTypes, Jars
  <2>2. [jar EXCEPT !.tx = l].access = jar.access
    BY DEF SessionInv, SessionTypes, Jars
  <2> QED
    BY <2>1, <2>2
<1>3. CallOK(r)
  BY <1>1 DEF CallOK
<1>4. /\ req' = [req EXCEPT ![l] = r] /\ jar' = j
      /\ UNCHANGED <<now, ends, issued>>
  BY <1>1, <1>2 DEF Session!Login
<1> QED
  BY <1>2, <1>3, <1>4, JarMovesInv

LEMMA SessionCallbackInv ==
    ASSUME SessionInv, NEW l \in Loaders, Session!Callback(l) PROVE SessionInv'
<1>1. UNCHANGED <<now, ends, jar>> /\ req[l].pc = "login" /\ issued' \in Nat /\ issued + 1 \in Nat
  BY DEF Session!Callback, Session!NewToken, SessionInv, SessionTypes
<1>2. PICK user \in Users : user = req[l].user
  BY <1>1 DEF SessionInv, CallOK
<1>3. ASSUME NEW token \in Nat \cup {None}, ends[user].account = None,
             Session!Welcome(l, user, token)
      PROVE  SessionInv'
  <2>1. PICK c \in Jars : /\ c = Session!Pair(user, token)
                          /\ c.access \in Accesses /\ Fresh(c.access)
    BY <1>3, PairFresh
  <2>2. PICK j \in Jars : j = [c EXCEPT !.hint = user] /\ j.access = c.access
    <3>1. [c EXCEPT !.hint = user] \in Jars
      BY DEF Jars
    <3>2. [c EXCEPT !.hint = user].access = c.access
      BY DEF Jars
    <3> QED
      BY <3>1, <3>2
  <2>3. PICK r \in Calls : /\ r = [Session!Idle EXCEPT !.pc = "welcome", !.cookies = j]
                           /\ r.pc = "welcome" /\ r.cookies = j
    <3>1. [Session!Idle EXCEPT !.pc = "welcome", !.cookies = j] \in Calls
      BY EmptyCalls DEF Session!Idle, Calls
    <3>2. [Session!Idle EXCEPT !.pc = "welcome", !.cookies = j].pc = "welcome"
      BY EmptyCalls DEF Session!Idle, Calls
    <3>3. [Session!Idle EXCEPT !.pc = "welcome", !.cookies = j].cookies = j
      BY EmptyCalls DEF Session!Idle, Calls
    <3> QED
      BY <3>1, <3>2, <3>3
  <2>4. CallOK(r) /\ req' = [req EXCEPT ![l] = r]
    BY <1>3, <2>1, <2>2, <2>3 DEF CallOK, Session!Welcome
  <2> QED
    BY <1>1, <2>4, CallMovesInv
<1>4. CASE req' = [req EXCEPT ![l] = Session!Idle]
  BY <1>1, <1>4, EmptyCalls, CallMovesInv
<1> QED
  BY <1>1, <1>2, <1>3, <1>4 DEF Session!Callback

(* Logout. *)
LEMMA SessionLogoutInv ==
    ASSUME SessionInv, NEW l \in Loaders,
           \/ Session!FetchCsrf(l) \/ Session!Logout(l) \/ Session!LoggedOut(l)
    PROVE  SessionInv'
<1>1. UNCHANGED <<now, ends, issued>>
  BY DEF Session!FetchCsrf, Session!Logout, Session!LoggedOut
<1>2. CASE Session!FetchCsrf(l)
  <2>1. PICK r \in Calls : r = [req[l] EXCEPT !.pc = "csrf"] /\ r.pc = "csrf"
    <3>1. [req[l] EXCEPT !.pc = "csrf"] \in Calls
      BY DEF SessionInv, SessionTypes, Calls
    <3>2. [req[l] EXCEPT !.pc = "csrf"].pc = "csrf"
      BY DEF SessionInv, SessionTypes, Calls
    <3> QED
      BY <3>1, <3>2
  <2>2. PICK j \in Jars : j = [jar EXCEPT !.csrf = l] /\ j.access = jar.access
    <3>1. [jar EXCEPT !.csrf = l] \in Jars
      BY DEF SessionInv, SessionTypes, Jars
    <3>2. [jar EXCEPT !.csrf = l].access = jar.access
      BY DEF SessionInv, SessionTypes, Jars
    <3> QED
      BY <3>1, <3>2
  <2>3. req' = [req EXCEPT ![l] = r] /\ jar' = j /\ CallOK(r)
    BY <1>2, <2>1, <2>2 DEF Session!FetchCsrf, Session!Goto, CallOK
  <2> QED
    BY <1>1, <2>2, <2>3, JarMovesInv
<1>3. CASE Session!Logout(l)
  <2>1. PICK j \in Jars : /\ j = IF jar.csrf = l THEN [jar EXCEPT !.csrf = None] ELSE jar
                          /\ j.access = jar.access
    <3>1. jar \in Jars /\ [jar EXCEPT !.csrf = None] \in Jars
      BY DEF SessionInv, SessionTypes, Jars
    <3>2. [jar EXCEPT !.csrf = None].access = jar.access
      BY DEF SessionInv, SessionTypes, Jars
    <3> QED
      BY <3>1, <3>2
  <2>2. PICK h \in Users \cup {None} : h = jar.hint
    BY DEF SessionInv, SessionTypes, Jars
  <2>3. PICK b \in Calls : /\ b = [Session!Idle EXCEPT !.pc = "bye", !.user = h]
                           /\ b.pc = "bye"
    <3>1. [Session!Idle EXCEPT !.pc = "bye", !.user = h] \in Calls
      BY EmptyCalls DEF Session!Idle, Calls
    <3>2. [Session!Idle EXCEPT !.pc = "bye", !.user = h].pc = "bye"
      BY EmptyCalls DEF Session!Idle, Calls
    <3> QED
      BY <3>1, <3>2
  <2>4. PICK r \in Calls :
           r = (IF Session!Authenticated /\ jar.csrf = l THEN b ELSE Session!Idle) /\ CallOK(r)
    BY <2>3, EmptyCalls DEF CallOK
  <2>5. req' = [req EXCEPT ![l] = r] /\ jar' = j
    BY <1>3, <2>1, <2>2, <2>3, <2>4 DEF Session!Logout
  <2> QED
    BY <1>1, <2>1, <2>4, <2>5, JarMovesInv
<1>4. CASE Session!LoggedOut(l)
  <2>1. PICK j \in Jars : j = [Session!EmptyJar EXCEPT !.tx = jar.tx] /\ j.access = None
    <3>1. [Session!EmptyJar EXCEPT !.tx = jar.tx] \in Jars
      BY EmptyCalls DEF Session!EmptyJar, Jars, SessionInv, SessionTypes
    <3>2. [Session!EmptyJar EXCEPT !.tx = jar.tx].access = None
      BY EmptyCalls DEF Session!EmptyJar, Jars, SessionInv, SessionTypes
    <3> QED
      BY <3>1, <3>2
  <2> QED
    BY <1>1, <1>4, <2>1, EmptyCalls, JarMovesInv DEF Session!LoggedOut
<1> QED
  BY <1>2, <1>3, <1>4

(* The role or the account is taken away: what is fresh expires within a
   lifetime of the present, and so of this end. *)
LEMMA SessionEndInv ==
    ASSUME SessionInv, NEW user \in Users, Session!Demote(user) \/ Session!Revoke(user)
    PROVE  SessionInv'
<1>1. UNCHANGED <<now, jar, issued, req>>
  BY DEF Session!Demote, Session!Revoke
<1>2. PICK e \in Ends :
         /\ ends' = [ends EXCEPT ![user] = e]
         /\ e.role = ends[user].role \/ e.role = now
         /\ e.account = ends[user].account \/ e.account = now
  <2>1. CASE Session!Demote(user)
    <3>1. PICK e \in Ends : /\ e = [ends[user] EXCEPT !.role = now]
                            /\ e.role = now /\ e.account = ends[user].account
      <4>1. [ends[user] EXCEPT !.role = now] \in Ends
        BY DEF SessionInv, SessionTypes, Ends
      <4>2. [ends[user] EXCEPT !.role = now].role = now
        BY DEF SessionInv, SessionTypes, Ends
      <4>3. [ends[user] EXCEPT !.role = now].account = ends[user].account
        BY DEF SessionInv, SessionTypes, Ends
      <4> QED
        BY <4>1, <4>2, <4>3
    <3> QED
      BY <2>1, <3>1 DEF Session!Demote
  <2>2. CASE Session!Revoke(user)
    <3>1. PICK e \in Ends : /\ e = [ends[user] EXCEPT !.account = now]
                            /\ e.account = now /\ e.role = ends[user].role
      <4>1. [ends[user] EXCEPT !.account = now] \in Ends
        BY DEF SessionInv, SessionTypes, Ends
      <4>2. [ends[user] EXCEPT !.account = now].account = now
        BY DEF SessionInv, SessionTypes, Ends
      <4>3. [ends[user] EXCEPT !.account = now].role = ends[user].role
        BY DEF SessionInv, SessionTypes, Ends
      <4> QED
        BY <4>1, <4>2, <4>3
    <3> QED
      BY <2>2, <3>1 DEF Session!Revoke
  <2> QED
    BY <2>1, <2>2
<1>3. ASSUME NEW a \in Accesses, Fresh(a) PROVE Fresh(a)'
  <2>1. CASE a.user = user
    <3>1. ends'[a.user] = e
      BY <1>2, <2>1 DEF SessionInv, SessionTypes
    <3> QED
      BY <1>1, <1>2, <1>3, <2>1, <3>1 DEF Fresh
  <2>2. CASE a.user # user
    <3>1. ends'[a.user] = ends[a.user]
      BY <1>2, <2>2 DEF SessionInv, SessionTypes, Accesses
    <3> QED
      BY <1>1, <1>3, <3>1 DEF Fresh
  <2> QED
    BY <2>1, <2>2
<1>4. SessionTypes'
  BY <1>1, <1>2 DEF SessionInv, SessionTypes
<1>5. ASSUME NEW k \in Loaders PROVE CallOK(req[k])'
  <2>1. PICK r : r = req[k] /\ CallOK(r)
    BY DEF SessionInv
  <2>2. CallOK(r)'
    BY <1>3, <2>1 DEF CallOK
  <2> QED
    BY <1>1, <2>1, <2>2 DEF CallOK, Fresh
<1>6. JarFresh'
  <2>1. PICK a : a = jar.access
    OBVIOUS
  <2>2. a # None => a \in Accesses /\ Fresh(a)' /\ now < a.exp
    BY <1>3, <2>1 DEF SessionInv, JarFresh
  <2> QED
    BY <1>1, <2>1, <2>2 DEF JarFresh, Fresh
<1> QED
  BY <1>4, <1>5, <1>6 DEF SessionInv

(* Time passes: what has expired is forgotten. *)
LEMMA SessionTickInv == ASSUME SessionInv, Session!Tick PROVE SessionInv'
<1>1. now' = now + 1 /\ now' \in Nat /\ now \in Nat /\ UNCHANGED <<issued, ends, req>>
  BY DEF Session!Tick, SessionInv, SessionTypes
<1>2. ASSUME NEW a \in Accesses, Fresh(a) PROVE Fresh(a)'
  BY <1>1, <1>2, LimitsOK DEF Fresh, Accesses
<1>3. PICK k \in Accesses \cup {None} :
         /\ k = IF jar.access # None /\ (jar.access.till <= now + 1 \/ jar.access.exp <= now + 1)
                THEN None ELSE jar.access
         /\ k # None => k = jar.access /\ ~(jar.access.exp <= now + 1)
  BY DEF SessionInv, SessionTypes, Jars
<1>4. PICK s \in Envelopes \cup {None} :
         s = IF jar.session # None /\ jar.session.exp <= now + 1 THEN None ELSE jar.session
  BY DEF SessionInv, SessionTypes, Jars
<1>5. PICK j \in Jars : j = [jar EXCEPT !.access = k, !.session = s] /\ j.access = k
  <2>1. [jar EXCEPT !.access = k, !.session = s] \in Jars
    BY DEF SessionInv, SessionTypes, Jars
  <2>2. [jar EXCEPT !.access = k, !.session = s].access = k
    BY DEF SessionInv, SessionTypes, Jars
  <2> QED
    BY <2>1, <2>2
<1>6. jar' = j
  BY <1>3, <1>4, <1>5 DEF Session!Tick, SessionInv, SessionTypes, Jars
<1>7. SessionTypes'
  BY <1>1, <1>6 DEF SessionInv, SessionTypes
<1>8. ASSUME NEW l \in Loaders PROVE CallOK(req[l])'
  <2>1. PICK r : r = req[l] /\ CallOK(r)
    BY DEF SessionInv
  <2>2. CallOK(r)'
    BY <1>2, <2>1 DEF CallOK
  <2> QED
    BY <1>1, <2>1, <2>2 DEF CallOK, Fresh
<1>9. JarFresh'
  <2>1. k # None => k \in Accesses /\ Fresh(k)' /\ now' < k.exp
    <3> SUFFICES ASSUME k # None PROVE k \in Accesses /\ Fresh(k)' /\ now' < k.exp
      OBVIOUS
    <3>1. k \in Accesses /\ Fresh(k) /\ ~(k.exp <= now + 1)
      BY <1>3 DEF SessionInv, JarFresh
    <3>2. k.exp \in Nat
      BY <3>1 DEF Accesses
    <3> QED
      BY <1>1, <1>2, <3>1, <3>2
  <2> QED
    BY <1>5, <1>6, <2>1 DEF JarFresh, Fresh
<1> QED
  BY <1>7, <1>8, <1>9 DEF SessionInv

LEMMA SessionInitInv == Session!Init => SessionInv
<1> SUFFICES ASSUME Session!Init PROVE SessionInv
  OBVIOUS
<1>1. jar \in Jars /\ jar.access = None
  BY EmptyCalls DEF Session!Init, Session!EmptyJar
<1>2. req \in [Loaders -> Calls] /\ \A l \in Loaders : req[l] = Session!Idle
  BY EmptyCalls DEF Session!Init
<1>3. \A l \in Loaders : CallOK(req[l])
  BY <1>2, EmptyCalls
<1>4. ends \in [Users -> Ends] /\ now \in Nat /\ issued \in Nat
  BY DEF Session!Init, Ends
<1> QED
  BY <1>1, <1>2, <1>3, <1>4 DEF SessionInv, SessionTypes, JarFresh

LEMMA SessionNextInv == SessionInv /\ [Session!Next]_(Session!vars) => SessionInv'
<1> SUFFICES ASSUME SessionInv, [Session!Next]_(Session!vars) PROVE SessionInv'
  OBVIOUS
<1>1. CASE UNCHANGED Session!vars
  BY <1>1 DEF Session!vars, SessionInv, SessionTypes, CallOK, JarFresh, Fresh
<1> QED
  BY <1>1, SessionCallInv, SessionGrantInv, SessionUserinfoInv, SessionRenewedInv,
     SessionWelcomedInv, SessionLoginInv, SessionCallbackInv, SessionLogoutInv,
     SessionEndInv, SessionTickInv
  DEF Session!Next

(* WithinOneLifetime, for any users, loaders and tabs, cookie ages and
   lifetimes, with renewals and logins that overlap and are answered in any
   order: nobody is admitted for a role or an account longer than one lifetime
   after its end (auth/refresh.ts, auth/rauthy.ts). *)
THEOREM RoleEndsInTime == Session!Spec => []WithinOneLifetime
<1>1. SessionInv => WithinOneLifetime
  <2> SUFFICES ASSUME SessionInv, Session!Authenticated
      PROVE  /\ jar.access.admin /\ ends[jar.access.user].role # None =>
                    now < ends[jar.access.user].role + Lifetime
             /\ ends[jar.access.user].account # None =>
                    now < ends[jar.access.user].account + Lifetime
    BY DEF WithinOneLifetime, Session!WithinOneLifetime
  <2>1. jar.access \in Accesses /\ Fresh(jar.access) /\ now < jar.access.exp
    BY DEF SessionInv, JarFresh, Session!Authenticated
  <2>2. /\ jar.access.exp \in Nat /\ now \in Nat
        /\ ends[jar.access.user].role \in Nat \cup {None}
        /\ ends[jar.access.user].account \in Nat \cup {None}
    BY <2>1 DEF SessionInv, SessionTypes, Accesses, Ends
  <2> QED
    BY <2>1, <2>2, LimitsOK DEF Fresh
<1> QED
  BY <1>1, SessionInitInv, SessionNextInv, PTL DEF Session!Spec

-----------------------------------------------------------------------------
(***************************************************************************)
(* The sum.  Each part begins as its own specification says, and takes its *)
(* own steps or none, so every behaviour of the sum is one of every part.  *)
(***************************************************************************)
LEMMA SumBegins ==
    AllInit => /\ Init /\ Lock!Init /\ Session!Init /\ Rate!Init /\ Verb!Init
               /\ Mail!Init /\ Trace!Init /\ Tenancy!Init
  BY DEF AllInit

LEMMA SumSteps ==
    [AllNext]_allVars =>
        /\ [Next]_vars /\ [Lock!Next]_(Lock!vars) /\ [Session!Next]_(Session!vars)
        /\ [Rate!Next]_(Rate!vars) /\ [Verb!Next]_(Verb!vars)
        /\ [Mail!Next]_(Mail!vars) /\ [Trace!Next]_(Trace!vars)
        /\ [Tenancy!Next]_(Tenancy!vars)
<1> SUFFICES ASSUME [AllNext]_allVars
             PROVE  /\ Next \/ UNCHANGED vars
                    /\ Lock!Next \/ UNCHANGED lockVars
                    /\ Session!Next \/ UNCHANGED sessionVars
                    /\ Rate!Next \/ UNCHANGED rateVars
                    /\ Verb!Next \/ UNCHANGED verbVars
                    /\ Mail!Next \/ UNCHANGED mailVars
                    /\ Trace!Next \/ UNCHANGED traceVars
                    /\ Tenancy!Next \/ UNCHANGED tenantVars
  BY DEF lockVars, sessionVars, rateVars, verbVars, mailVars, traceVars, tenantVars,
         Lock!vars, Session!vars, Rate!vars, Verb!vars, Mail!vars,
         Trace!vars, Tenancy!vars
<1> QED
  BY DEF AllNext, allVars

(* What the parts promise holds of the sum as TLC runs it, for every value of its
   constants. *)
THEOREM SumIsSafe ==
    AllSpec =>
        /\ []AppliedOnce /\ []SuccessIsComplete /\ []NeverTwoOpen /\ KeptOnlyWhenHeld
        /\ []WithinOneLifetime /\ []WindowHolds /\ StoresInTurn
        /\ []SentMeansTaken /\ ListenersTold /\ []LoopsOwnStore
<1>1. AllSpec => /\ Spec /\ Lock!Spec /\ Session!Spec /\ Rate!Spec /\ Verb!Spec
                 /\ Mail!Spec /\ Trace!Spec /\ Tenancy!Spec
  BY SumBegins, SumSteps, PTL
     DEF AllSpec, Spec, Lock!Spec, Session!Spec, Rate!Spec, Verb!Spec, Mail!Spec,
         Trace!Spec, Tenancy!Spec
<1> QED
  BY <1>1, TakesEffectOnce, SuccessComplete, NeverTwo, NeverShut, RoleEndsInTime,
     NoMoreThanTheLimit, VerbInTurn, SentIsTaken, OperatorsAreTold,
     OwnStoreOnly, PTL
=============================================================================
